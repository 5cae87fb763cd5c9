------------------------------ MODULE MCGrants ------------------------------
(* Two calls beside a request, two roles and two attributes. *)
EXTENDS Grants, TLC

MCLists == {{"reader"}, {"writer"}}
MCPatches == {"tenant" :> None, ("tenant" :> "a") @@ ("team" :> "a")}
MCMaxRole == "reader" :> 2 @@ "writer" :> 1
MCSymmetry == Permutations(Admin)
=============================================================================
