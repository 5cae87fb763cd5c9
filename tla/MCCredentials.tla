--------------------------- MODULE MCCredentials ---------------------------
(***************************************************************************)
(* A small instance of Credentials: a caller comes with a cookie, with a   *)
(* key of the first user, or with both.  A change to the password one has  *)
(* is left out, and so is a key that comes without a cookie to sign out.   *)
(***************************************************************************)
EXTENDS Credentials, TLC

WithCookie == [cookie : Token, key : {0}]
WithKey == [cookie : {NoToken}, key : {1}]
WithBoth == [cookie : Token, key : {1}]

MCCalls ==
    Logins \cup Resets
      \cup {c \in [op : {"change"}, typed : Password, new : Password,
                   by : WithCookie \cup WithKey \cup WithBoth] : c.typed # c.new}
      \cup [op : {"logout"}, by : WithCookie \cup WithBoth]
      \cup [op : {"query"}, by : WithCookie \cup WithKey]

\* Handlers, passwords and tokens are interchangeable.
Symmetry == Permutations(Handler) \cup Permutations(Password) \cup Permutations(Token)
=============================================================================
