# Lightship: specifications, model checking and proofs

Lightship answers trace queries on behalf of people and agents who may each see a
different part of one ClickHouse table. A control plane over Postgres holds users,
roles, sessions, API keys, the *access model* (which columns may be named, which
policies each role carries) and the audit trail. Every query is compiled against a
snapshot of the access model, and ClickHouse is only ever read.

These modules specify the parts of that program in which the order of steps decides
whether the right rows are shown: TLC checks them on small instances, TLAPS proves
their main theorems for every instance.

## 1. Inventory

Each component with its state, its operations, how it meets the others, what is hard
about it, and what makes it correct. "→" names the module that models it.

**Access-model write path** (`internal/httpapi/schema.go`; `internal/store/store.go`
LoadModel, SetBinding, PutFields, PutRole, DeleteRole, setAttrs, EnsureAdmin).
State: `source_binding`, `field`, `role`, `policy`, `user_attribute_key` and the
one-row table `model_version`. Handlers read the model, validate a proposal against
what they read, and persist it if the version has not moved. setAttrs and EnsureAdmin
write without having read. Hard: two replicas' handlers interleave between the read
and the row lock; setAttrs inserts keys *before* it takes the lock, in map order;
commits whose acknowledgement is lost. Correct when writes are serial, every change is
admitted against the model it changes, the stored model compiles, the version tells
models apart, the admin role survives, and every request is answered.
→ `SerialModel` (promise), `AccessModel` (code). *Modelled, proved.*

**Compiled-model cache** (`internal/model/model.go`). State: `cur`, `loadedAt` under
`mu`; the mutex `reload`, held across a database read. Get, Refresh, refreshLocked.
Called by every query and by every model write. Hard: the pair is compared with the
clock after the lock is released; a load may fail, be slow, or race a write; other
replicas write without telling. Correct when no answer outlives the TTL, a replica
never goes back behind a version it has vouched for, bursts cause one load, and calls
return. → `PolicyLease` (promise), `ModelCache` (code). *Modelled, proved.*

**Credentials and sessions** (`internal/httpapi/server.go` login, logout,
changePassword, resolve; `internal/store` Credentials, CreateSession, DeleteSession,
SetOwnPassword, UpdateUser, DeleteUser, Lookup, loadSession). State: `app_user`
(hash, must_change_password), `session`. Hard: a password is verified for tens of
milliseconds between reading the hash and inserting a session or storing a new hash,
while an administrator resets it, or deletes the user and creates a namesake. Correct
when a stored password ends the sessions there are but the caller's, sessions are
opened and passwords changed only for who gave that user's password, enrolment
cannot be skipped, and access ends with the user.
→ `Credentials`. *Modelled, proved.*

**Bootstrap and migrations** (`Store.Migrate`, `EnsureAdmin`, `bootstrap.go`,
`cmd/lightship/main.go`). State: the schema version, an advisory lock, the admin's
hash, the tracker of the environment's hash, `bootstrap_login_pending`. Hard: replicas
boot together; a crash between commit and print; the branch a boot takes depends on
what earlier boots stored. Correct when migrations run once and in order, a generated
password is printed at most once, a chosen one survives a restart, a rotation revokes
sessions, exactly one login is the first, and a boot ends.
→ `Bootstrap`. *Modelled, proved.*

**User administration and API keys** (`internal/httpapi/admin.go`; `internal/store`
CreateUser, UpdateUser, PatchAttributes, setRoles, CreateKey, RevokeKey, LookupKey,
loadSession). State: `role_assignment`, `user_attribute`, `api_key`. Hard: READ
COMMITTED replacement of a role list; a user or a role deleted and created anew under
the same name between two statements; audit entries written after the commit; the
roles and the attributes of a request read by separate statements. Correct when what is
stored refers to rows that exist, a replacement takes away what it found, a request is
answered by what its user held, and an audit entry tells the grant that was made.
→ `Grants`. *Modelled, proved.*

**Trace queries** (`internal/httpapi/traces.go`, `internal/traces/traces.go`). State:
none between requests; a cursor carried by the client. A request reads the roles and
the attributes of its caller from Postgres, then waits for no slot but takes one or is
refused, then takes the model its replica has cached, and makes two ClickHouse reads per
page, the second a stream. Hard: traces arrive and expire, and roles, attributes and
model change, between pages and between any two of these reads; the cached model may be
one that another replica has replaced; traces that start together; a read or a stream
breaks off part way. Correct when pages neither repeat nor lose a trace that is left
alone and that every reading of the rights agrees on, every row is permitted by rights
read for its request, and every response that was begun is accounted for.
→ `TraceSource` (the table and the rights), `TraceScroll` (the code). *Partly modelled,
proved:* the search summaries and the read of one trace are single statements of the
same predicate.

**Policy compiler** (`internal/policy`). Pure: CEL text to a typed expression to SQL.
Correct when what compiles filters as CEL would evaluate, missing values deny, and
roles combine as a union. → `SerialModel` (what is admitted), `Policy` (conversion and
predicate), `Matching`. *Modelled, proved.*

**Filters and expressions** (`internal/filter`, `internal/expression`). Pure:
validation, three-valued negation, canonical form that a cursor is bound to. Correct
when a filter is accepted as advertised, selects what it says, and a cursor is served
under the filter it came from. → `Expression`, `Filter`, `Matching`. *Modelled,
proved.*

**Concurrency gates** (`internal/httpapi/limits.go`). State: two bounded channels.
Hard: a slot must come back on every way out of a handler. → `TraceScroll`, for the
gate of queries; the gate of logins is the same code around one handler. *Modelled,
proved.*

**Local MCP proxy and export** (`internal/localmcp`). State: a temporary directory, a
window fixed at the start, a cursor. Correct when a file is published whole or not at
all, holds every trace that was left alone once (see `TraceScroll` for the exact terms),
and the scroll ends.
→ `ExportPromise` (promise), `TraceScroll` (export). *Partly modelled, proved:* the
proxy of single messages forwards one line and returns one answer.

**Marked fields and source binding** (`internal/schema`). Names and types of fields;
data of `SerialModel`, meaning of cells in `Expression`. *Partly modelled:* which names
are legal is below the abstraction.

**Process lifecycle** (`cmd/lightship`). The order of `serve` from the migrations to
the listener and its end are steps of `Bootstrap`; pruning is in `Credentials`. *Partly
modelled:* the rest reads the environment and prints.

### What is hard here

PROJECT.json lists the hazards at their lines. They fall into six groups: state read,
then used after somebody else could change it (cache pair, model read before the
lock, hash read before verification, owner of a key found by name); transactions under
READ COMMITTED that see each other's rows (role replacement, attribute patches,
attribute keys, deadlock); processes killed between two steps (migrations, the
generated password, an export); loads, streams and audit entries that fail or take too
long half way; sequences of individually correct calls that end in a state no check
looks at (binding moved under marked fields, environment tracker left behind); and
three-valued logic at its edges (negation over a missing key, a null, a value that does
not parse).

## 2. Modules and how they correspond to the code

| module | what it is |
|---|---|
| `PolicyLease` | what a replica's cache promises its requests |
| `ModelCache` | `model.Cache`, goroutine by goroutine |
| `ModelCache_proofs` | theorems about `ModelCache` |
| `SerialModel` | the access model as data, and the promise that writes to it are serial |
| `AccessModel` | the handlers and transactions that write it |
| `MCAccessModel` | a small deployment for TLC |
| `AccessModel_proofs` | theorems about `AccessModel` |
| `Credentials` | passwords, sessions and enrolment of one user |
| `MCCredentials` | the requests TLC enumerates for it |
| `Credentials_proofs` | theorems about `Credentials` |
| `Bootstrap` | the boot of any number of replicas, and the admin's first requests |
| `Bootstrap_proofs` | theorems about `Bootstrap` |
| `Grants` | roles, attributes and keys of one username, statement by statement |
| `MCGrants` | the lists and patches TLC enumerates for it |
| `Grants_proofs` | theorems about `Grants` |
| `TraceSource` | the table of spans and one caller's rights, and how they change and are read |
| `ExportPromise` | what an export promises, over `TraceSource` |
| `TraceScroll` | the export, the handler of its pages and the gate, over `TraceSource` |
| `MCTraceScroll` | a table of three traces for TLC |
| `TraceScroll_proofs` | theorems about `TraceScroll` |
| `Expression` | typed predicates: what is valid, and what the SQL of one says of a row |
| `Policy` | from a tree of CEL to such a predicate; what CEL says of the same tree |
| `Filter` | from the conditions of a filter to such a predicate; the canonical form |
| `Matching` | what a read is planned to select, from roles, attributes, filter and cursor |
| `MCMatching` | fields, sources and filters TLC enumerates for it |
| `Policy_proofs` | theorems about trees and about policies: what is emitted and what CEL says |
| `Matching_proofs` | theorems about filters, cursors and `Matching` |

The modules meet in the data they share: `AccessModel` and `Policy` both state when a
policy compiles, one by what decides it and one by its tree; what the policies and the
filter come to in `TraceScroll` is a set of spans for all roles, attributes and models,
as `Matching` shows a policy and a filter to be, and that more roles never permit less
is `Matching`'s `RolesWiden`; the models a replica may answer by there are those
`PolicyLease` allows; the row and the sessions of `Bootstrap` and `Credentials` are the same
tables, each module keeping the part the other leaves alone.

### ModelCache

One replica, `Proc` goroutines. A critical section under `mu` is one assignment and so
one action; `reload` is a variable, because it is held across a database read. Get is
`GetPeek` (copy the pair under the read lock), `GetHit` or `GetStale` (compare with
the clock after release), then with `reload` `GetRecheckHit` or `GetRecheckMiss`.
`Write` is a handler's commit, followed by `Refresh`, which discards the snapshot
first. Both reload through `refreshLocked`: `LoadModel`, then `Install`, `LoadTooSlow`
or `LoadFails`. `WriteElsewhere` is another replica's write, or one of this replica
that committed unacknowledged, after which nobody refreshes. A compiled model is
abstracted to its version. Taking `reload` and the re-check under it are one step:
nobody else assigns `cur` while it is held. The clock read that starts a load is merged
with taking the lock; reading it later would only shorten the lease counted.

`PolicyLease` states the promise over the database version and the answers alone: an
answer was current less than TTL ago, and is no older than what the replica had
vouched for when the call began.

### AccessModel

`Handler` goroutines of any number of replicas over one Postgres. A handler passes
`Receive`, `Propose` (read and validate; or `Reject`), `Forbid` (the admin role),
`Lock` (or `Conflict`), `Commit` (or `Undo`) and `Finish`. setAttrs passes
`StartAttrs`, `Insert` once per key in any order, then `LockToBump` and `Commit`, or
`CommitKnown` if nothing was new. EnsureAdmin enters at `Boot`. `Fail` ends any of
them early with a rollback; a commit may be `lost`: durable, but reported as an error.
Postgres is modelled as the code relies on it: a row lock on `model_version`; READ
COMMITTED visibility at commit; an insert of a key another transaction has inserted
waits for that transaction; a cycle of such waits is broken by `AbortDeadlocked`.

A model is a record of binding, fields, keys and roles. A policy is reduced to what
decides whether it compiles: the fields it uses at their types, and the attributes it
names. `SerialModel` holds these definitions and the promise: each change is one
atomic step between request and answer, admitted against the model it changes.

Left out, and where it goes: the Refresh after a commit is `ModelCache`'s; audit rows
are read by nothing here; values of attributes, and the assignments a deleted role
takes with it, are in `Grants`; a failed discovery query is a `Fail`.

### Credentials

Every statement concerns one user, so one username is enough. It may be deleted and
created anew under a new id (`created` counts them), which is what tells a statement by
name from one by id. `Handler` goroutines of any replica `Begin` a login, a sign-out,
a password change, an administrator's reset, or any other authenticated request
("query"), and pass through:

* login: `VerifyLogin` (Credentials and auth.Verify), `SignIn` (CreateSession, refused
  by its foreign key if the user is gone);
* every other but the reset: `Lookup` (LookupKey or Lookup), `LoadSession` (another
  statement, and the enrolment gate), then `Serve`, `Logout` or `VerifyCurrent`;
* a reset: `FindUser`; and, with a verified change: `Update`, `Revoke`, `Commit`.

The last three are one transaction: the update locks the user's row, the deletion acts
on the sessions committed by then, the commit shows both. Inserting a session takes a
key-share lock, which does not conflict with the update's, so a login's `SignIn` may
fall between `Revoke` and `Commit`; `DeleteUser` waits. An update by id of a user who
is gone changes no row: SetOwnPassword returns ErrNotFound, UpdateUser goes on. `Deny`
is every refusal, `Fail` a lost connection or a killed process at any point. A
password stands for its hash. Expiry (`Lapse`) and `PruneSessions` come at any time.
`inForce`, `found` and `live` are history variables: the rows since the call began,
the sessions when it locked the row, and whether its credential was good at first.

Which sessions survive a stored password is thus exactly bounded: `PasswordEndsSessions`
says that of those present when the row was locked only the caller's own does, and
`ProvedInForce` that any other was opened by a login whose password was the user's
while the login ran, that is, of a login under way.

Left out: keys live as long as their user here (revocation is in `Grants`); the
first-login marker is in `Bootstrap`, as is the admin, whom UpdateUser and
DeleteUser refuse; role preview and the demo guard can only refuse, as `Fail` does.

### Bootstrap

`Replica` processes over one Postgres. A process goes through `Boot` (with any value of
the environment variable, or none), `LockMigrations`, `ListMigrations`, `Migrate` once
per file, `Migrated`, `ReadAdmin` (the lock of `model_version`, and the admin's row),
`EnsureAdmin` with its three branches, and `Announce` (print, load the model, listen).
The branches are `Configured` (the variable is set: applied if it differs from the
tracker), `Kept` (unset, and there is a password) and `Generated`. `Down` is an error,
a signal or a kill at any of these steps; its connections drop the locks, and what it
knew is lost (`Forget`), the generated password included. Each migration and its row
are one transaction. The admin `VerifyLogin`s, `SignIn`s and `ConsumeFirstLogin`s, or
`VerifyCurrent`s and `SetOwnPassword`s; `GiveUp` ends a request early. `ClearHash` is
the operator's break-glass, by SQL. `Connections` is the pool: the advisory lock keeps
one connection while the migrations use another (`Acquires`), and the store never opens
with fewer than two. `shown`, `firsts`, `lastEnv` and `cleared` are history variables.

### Grants

One username, and roles by name; a row that is deleted and created anew under the same
name is another row, so rows are numbered. `Admin` calls run at once. A replacement of
roles is `UpdateUser` (the row and the snapshot its delete goes by), `DeleteRoles`
(which waits for a call that deletes the same rows, and finds gone what that call
deleted), `SetRole` once per name (an insert that does nothing on a conflict, waits for
an uncommitted row, and needs the rows it refers to), `CommitRoles`. A patch is
`PatchAttributes`, `PatchKey` once per key in any order, `ReadAfter`, `CommitPatch`,
`AuditPatch`. `Abort` rolls either back. `CreateUser`, `DeleteUser`, `CreateRole`,
`DeleteRole` and `RevokeKey` are atomic, with what cascades. A request is `Lookup` (by
session or key), `LoadUser`, `LoadRoles` (any subset of the roles: a statement that
breaks off is taken for its end), `LoadAttrs`, then `Answer`, or `FindOwner` and
`CreateKey`. What a call has written but not committed is in its record `tx[a]` until
the commit; `was`, `prior`, `regranted` and `held` are history.

Simplified: CreateUser's transaction is one step, as nobody can see the new row before
its commit; the "before" of an audit entry is not recorded, only its "after"; a key's
end of life is one step with its revocation.

### TraceSource, ExportPromise, TraceScroll

`TraceSource` has the table, and the *rights* of the caller: the roles, the attributes
and the model in Postgres. `Permits` says for all rights which spans satisfy the policies,
`Meets` for a model which satisfy the filter. A trace is permitted if one of its spans
satisfies the policies, and selected if one span in the window does and one satisfies the
filter. Spans arrive and expire (`Arrive`, `Expire`), roles are replaced or attributes
patched (`Assign`, one of the two at a time, as there is no call that does both), and the
model is written (`WriteModel`). `served` is the set of models that some replica may
answer by: a written one joins it, a replaced one leaves it when its TTL is over
(`Lapse`), at any time, since nothing bounds what happens within a TTL.

The bounds of the window are times, which the driver sends down to the second
(traces.go:80-82, and pagination_test.go:16-19), so the statements select by
`InWindow`, between the whole seconds, and not by what was `Asked`. The position of the
cursor is an integer and has no such loss.

The export passes `Begin`, `Ask` per page, `Publish` (the rename) or `PublishFails`;
`Kill` ends it and leaves its directory behind, which nothing publishes later. A request
reads, in this order and each at a moment of its own:

* `Ask`: the roles, in resolve (loadSession). Its loop over the roles ends where the
  statement breaks off, and nobody asks whether it did, so what is read is any subset;
* `Admit`: the attributes, by the next statement, whose error is asked for; then the
  slot, or 429;
* `Query`: the model, any that some replica serves: the pages of one scroll may be
  answered by different replicas;
* `List`: the traces of the page, newest first, and the cursor if the page is full;
* `Spans`: the rows of these traces, by the policy once more.

`Finish` is the audit entry or an error in the log, the slot, and the end of the
response; `Fail` is any refusal, error or deadline at any of these places, also in the
middle of the rows; `Crash` is the end of the process with all requests; `OthersTake` and
`OthersRelease` are other requests. The export appends a page when its response is
complete (`TakePage`), fails on a cursor it has seen, and fails with any request: it does
not retry. `answered` counts the responses that were begun.

Three histories say what may be held against it. `asked` is what each of the rights was
since the request came, the models served at that moment included; `since` the same of
the scroll; `misread` what a request took for the roles that they had not been.
`Mixtures` are the rights that can be put together from the parts. Code that reads the
parts apart may answer by a mixture that was never in force as a whole, so:

* `NothingUnpermitted` says that a row is permitted by *some mixture* of roles and
  attributes held since the request came and a model that was current less than a TTL
  before, or since. That it is not by the rights of one moment, or of now, is the
  documented cost of the cache (model.go:8-12);
* `ExportPromise` speaks of the *settled* traces: those left alone since the scroll began
  (`steady`) on which all mixtures that a page may have gone by agree (`Settled`), and
  which are *clear* of the bounds: have no span in the seconds these fall into (`Clear`).
  Of others nothing can be promised. An artifact holds the whole trace once if it was
  selected, and nothing of it if not.

Abstracted: a page of rows is one set, since the export keeps a response whole or not at
all; the rows of other calls are not followed; one gate stands for that of the replica
which is reached; arrival of a request is merged with the read of its roles, which makes
`asked` shorter and the property stronger; the session's own admission is
`Credentials`'s, and role preview, which only replaces the roles by one, is left out;
the binding does not move while a scroll runs; the filter and the window are fixed by the
export, so a cursor of another filter is `Matching`'s subject.

### Expression, Policy, Filter, Matching

`Expression` has the tree of `expression.Expr`, `Validate` per type and profile, and
the SQL of `emit` and `leaf` as its value in SQL's three values over a row whose cells
may be missing, null or malformed. `Policy` has the conversion of each form of CEL
(`Convert`), `Compile`, the registry of a role's programs and the union of `Predicate`;
`Cel` is the reference: the same tree evaluated as CEL would. `Filter` has
Condition.expression, Build, OperatorsFor and Canonical. `Matching` is one request
after another by a caller whose roles and attributes change: `Receive`, then
`RefuseCursor`, `RefuseFilter` or `Plan`, and `Answer`.

A tree, of CEL or of a predicate, is a function from numbers to nodes of which one is
the root, and the children of a node have smaller numbers than it has (`IsTree`).
`Emit` and `Cel` are functions on these numbers; `MCMatching` lays out nested terms, as
they are read, as such trees (`Tree`, over the project's only RECURSIVE operators). A role
has a set of sources, since order and repetition make no difference to a union.

Abstracted: the text of the SQL and its arguments; strings, of which only equality and
`Prefix` are told apart; the text of a number, of which only that different numbers
have different texts (`NumberText`). The canonical form separates its parts by control
characters; it is modelled with names and values free of them, as a value that held
one could make two filters share a text, and the hash of it as injective. cel-go's own
type check is external: it refuses nothing more than the conversion does.

## 3. What the runs check

| run | question | bounds, and why they suffice |
|---|---|---|
| `model_cache` | Is every answer within its lease and never behind? One load per burst? Does every call return? | 3 goroutines (one loads, one waits or starves, one answers from an old copy); 2 writes (a load misses one, sees the other); TTL 2 and clock 2, so that a snapshot is fresh, one tick short, and expired, and a load can outlast its lease |
| `access_model` | Are writes serial, is the stored model always compilable, does the version tell models apart, is the admin role kept? | 2 handlers, 5 writes: fields, key and role that needs both take three, two race over the result; the requests include duplicated, reserved, retyped and filter-only fields |
| `access_model_answers` | Is every request answered, through lock waits and deadlocks? | 3 handlers, requests with two keys each so that waits form cycles |
| `access_model_binding` | Do marked fields exist in the bound table? (violated) | 1 handler suffices |
| `bootstrap` | Do migrations run once and in order? Is one password generated, printed at most once, a first login recorded once, a chosen password kept? Does a boot end? | 2 replicas and 2 starts: both at once, or one again after it was killed; 2 files, so that a kill falls between them; 2 requests and 2 sessions; the variable set or not |
| `bootstrap_rotation` | Does another environment value revoke the admin's sessions? (violated) | 1 login between 2 boots with 2 values |
| `credentials` | Whose are the sessions, who is let in, whose password is proved, what does a stored password end? | 2 handlers and 3 requests: two that overlap, one before or between them; 2 tokens, so that a change can spare one session and end another; 2 passwords; the user created twice, so that an id goes stale; handlers, passwords and tokens are symmetric |
| `credentials_reset` | Does a change replace the password its caller knew? (violated) | 1 token, 1 account, 3 requests: login, change and reset |
| `grants` | Does what is stored refer to rows that exist? Does a replacement take away what it found? Is a request answered, and a patch logged, by what the user held? | 2 calls, which may be two replacements, two patches, or one of each, beside one request; the user and one of two roles have two rows in their lives; a patch that removes an attribute and one that sets two; calls are symmetric. About 1.8 million states in a minute |
| `trace_scroll` | Does a published export hold every settled trace, once, and nothing it should not? Is every row permitted by what was read for its request? Do cursors descend, slots and audit entries add up, and exports end? | 3 traces, of which two start together, one loses the span that qualifies it and one may come to start earlier; two units to the second, and bounds inside one, so that spans lie in what is sent and not in what was asked for, and the reverse; pages of one (a boundary between equal times) and of two (a boundary after them); the roles had or not, and 2 models, of which one shows a single trace, so that one is stale while the other is current and a scroll meets both; 1 slot, so that a request of another excludes the export's. The attributes have one value: they change as the roles do, and a second value makes the run too long. The theorems leave all of these open. About 340,000 states in a minute |
| `matching` | Does the SQL of a policy agree with CEL? Does a filter select what it says? Do roles only widen? Does a cursor bind? | 8 fields of the 4 types, in maps and columns; every operator on every type with operands that fit and that do not; a role per form of policy, two at a time; cells missing, null and malformed |
| `matching_malformed` | Does an array that does not parse ever satisfy a policy? (violated) | one negated membership |

Bounds in the guards are `MaxVersion` and `MaxTime` (`Retire`, `Tick`, `Room`),
`MaxCalls` (`Begin`, `UpdateUser`, `PatchAttributes`), `MaxAccounts` (`CreateUser` of
`Credentials`), `MaxBoots` (`Boot`), `MaxLogins` (`SignIn`), `MaxUser` and `MaxRole`
(rows created under one name), `MaxRoles` (roles of a caller in `Matching`) and
`Readers` (the roles with which `Matching` explores requests: one set is enough, since
no filter is built from roles), besides the finite `Requests`, `Calls`, `Lists`,
`Patches`, `Filters`. `MaxConditions` and `MaxValues` are limits of the code, made
small. `MaxPages` of `TraceScroll` is no bound: that the scroll stays below it is
proved, and the 2 at which a file stops counting a span is as wrong as any more.

Deadlock checking is off in the runs of `AccessModel`, `Credentials`, `Bootstrap` and
`Grants`: once a bound leaves no room for a further start, call or row the system is
done. It is on in the others.

Every property of a passing run is known to be able to fail: PROJECT.json pairs it with
a definition marked "Fault", the code's own with a plausible mistake in it, under which
the same run reports a violation. No specification uses these definitions.

### Findings

`access_model_binding`: putBinding checks the binding's *own* columns in the new table
and leaves the marked fields alone; putFields checks the fields only against the
binding of that moment, and against nothing while there is none. Marked fields
followed by a binding to a table without their columns therefore leaves exactly the
state that the comment of checkColumns (schema.go:361-363) says it prevents.

`bootstrap_rotation`: the comment of EnsureAdmin (store.go:208-209) says that a value
different from the last applied one is a rotation and revokes the admin's sessions.
The code revokes them only if a password is stored and differs from the new value
(store.go:266). After the operator has cleared the hash, or if the stored hash happens to
equal the new value, the value is applied and the sessions stay.

`credentials_reset`: changePassword verifies the password against the hash it reads,
and SetOwnPassword stores the new one without comparing again. A reset that commits in
between is overwritten: the password the administrator handed out stops working, the
enrolment flag it armed is cleared, and the change succeeds although its caller knew
only the password before the reset. The comments (server.go:429-430, store.go:668-670)
say that knowing the current password is required and that only its owner's replacing
the administrator's password ends enrolment. What does hold, and is proved, is the
weaker `ProvedInForce`: the caller knew a password that was this user's at some
instant since the request arrived.

`matching_malformed`: docs/concepts/policies.mdx:50 says that a malformed serialized
array does not satisfy a policy, including under negation. JSONExtract
(expression.go:262) reads such a string as an empty array, and a negated membership is
emitted as `NOT has(...)`, which is true of it. Missing keys, nulls, and booleans and
numbers that do not parse behave as documented, which `SqlAgreesWithCel` checks.

Four more observations are outcomes the models reach and no property excludes. The
canonical form of a filter sorts the two bounds of `between` as if they were a set, so
`[1, 2]` and `[2, 1]` share their cursors although the second selects nothing;
`CursorBinds` leaves the reversed form out. CreateKey finds its owner by name
(store.go:873) after the session was resolved by id, so if a user is deleted and
created anew between the two, the key is the namesake's (`FindOwner` in `Grants`).
loadSession asks for the error of the attributes' statement and not of the roles'
(store.go:385-393, and 408): a caller is then answered by fewer roles, which shows less
and never more, though docs/api-reference/errors.mdx:34 says that LightShip never returns
partial results when authorization state is incomplete; an export with such a page is
published, with `Complete` set, and shorter (`misread` in `TraceSource`). And since the
bounds of a window lose what is below the second, an export up to the present
(localmcp.go:397-399) leaves out the traces of the second that is running, and one from an
instant within a second includes those of the whole of it (`Clear` in `ExportPromise`).

## 4. Fairness

Liveness is checked under `FairSpec`; the theorems, and the properties of runs whose
cfg says `Spec`, assume none.

* `ModelCache`, `AccessModel`: weak fairness says that a goroutine inside a call keeps
  running and that a database call ends, one way or the other. Strong fairness is
  assumed of exactly the steps that take a contended lock: `reload`, because a
  `sync.Mutex` is handed to a waiter that has waited a millisecond; the row lock and
  the wait for an uncommitted key, because Postgres queues waiters. Deadlock detection
  is weakly fair: Postgres runs it after `deadlock_timeout`.
* `Bootstrap`: weak fairness of the steps of a process that holds what it needs,
  strong fairness of the two that wait in Postgres's queues: `LockMigrations` and
  `ReadAdmin`. A process may be killed at any of them and need not be.
* `TraceScroll`: weak fairness of the handler's next step or its failure, because a
  request has a deadline (queryLimited), and of the client's next request or rename.
  That a slot is free is not assumed: without one the export fails, which ends it.

Nothing forces requests, writes, starts, clock ticks, kills, arrivals or failures.

## 5. What is proved

For every number of goroutines, handlers, replicas and calls, every TTL, every set of
requests, patches and roles, every finite table of spans, and all fields, policies,
attributes, cells and filters, without fairness:

* `ModelCache_proofs`: `LeaseInvariant`, and from it `TypeCorrect`, `NeverBehind`,
  `OneLoad` and `CacheImplementsLease`, the refinement of `PolicyLease`.
* `AccessModel_proofs`: `ModelInvariant`, and from it `TypeCorrect`,
  `StoredModelAlwaysCompiles`, `VersionAlwaysTells`, `AdminAlwaysKept` and
  `WritesAreSerial`, the refinement of `SerialModel`.
* `Credentials_proofs`: `CredentialsInvariant`, and from it `TypeCorrect`,
  `SessionsAlwaysOwned`, `AlwaysAdmittedInForce`, and the action properties
  `PasswordsProved` and `SessionsEnd`.
* `Bootstrap_proofs`: `BootInvariant`, and from it `TypeCorrect`,
  `MigrationsAlwaysInOrder`, `OnePasswordGenerated`, `NeverReprinted`,
  `FirstLoginRecordedOnce`, and the action property `ChosenPasswordSurvives`.
* `Grants_proofs`: `GrantsInvariant`, and from it `TypeCorrect`, `RowsAlwaysExist`, and
  the action properties `ReplacementsAlwaysHold`, `GrantsAlwaysHeld` and
  `AuditAlwaysTellsKeys`.
* `TraceScroll_proofs`: `ScrollInvariant`, and from it `TypeCorrect`,
  `CursorAlwaysDescends`, `SlotsAlwaysAccounted`, `AuditAlwaysAccounted`, the action
  property `NothingEverUnpermitted`, and `ScrollImplementsPromise`, the refinement of
  `ExportPromise`.
* `Policy_proofs`: `PolicyAgrees`, that what is emitted for a source holds exactly if
  CEL says true of it; `ExtendedEmit`, that more attributes change nothing of what could
  be emitted.
* `Matching_proofs`: `BuildSelects` and `CanonicalSelects` about any filters, and
  `MatchingInvariant`, from which follow `MatchingTyped`, `PolicyCorrectness`,
  `FilterCorrectness`, `CursorCorrectness` and the action property `RolesWiden`.

The assumptions are the modules' named ASSUMEs: the TTL is positive (readServeConfig
refuses others), sentinel values differ from the values they stand beside, and
requests are what decoding lets through (an attribute request names a key, a role
request a policy, a binding a table; a login a password, a change two; a patch names
attributes there are). Four say more. `ConnectionsAssumption` is that a pool has two
connections, as pgx's default has: with a pool of one, Migrate would wait for itself,
and the boot would not end (the safety theorems do not need it). `NoHashAssumption` is
that generated, chosen and configured hashes differ, as salted hashes do.
`SpanAssumption` is that the table is finite and its times are whole numbers;
`RoleAssumption`, that more roles never permit less, which `RolesWiden` of
`Matching_proofs` shows of the policies there are; `NothingEverUnpermitted` alone needs
it, for the roles that were misread. Those of
`Filter` and `Matching` say what decoding and the schema let through: sources and
filters are well-formed trees and conditions (`SourceAssumption`, `FilterAssumption`);
a cell holds a value of its type or null, and is missing or malformed only in a map
(`CellAssumption`); a list may have two values at least (`LimitAssumption`; the code
allows 100), which what is advertised depends on, as it is found by a probe with two.

*Cache.* That an answer is within its lease is not inductive. `LeaseInv` adds that a
snapshot, and each copy a Get has made, carries a time at which its version was still
current (`SnapshotsHonest`); that what a load has read is ahead of the cache and of
every copy (`LoadAhead`), which is where "only the holder of `reload` installs" is
used (`LockHeld`); and that a Get asks for no more than the replica has vouched for,
while a writer, which asks for more, has emptied the cache first (`FloorsMet`). This
last part is why Refresh must discard before it loads.

*Write path.* `StoredModelCompiles` needs that a handler holding the lock validated
its proposal against the current model: `ProposalsValid` (validated against what was
read, at a version that is still current under the lock) with `VersionTellsModel` (the
same version is the same model). The latter fails if anything changes the model
without bumping the version, which is why setAttrs' key inserts are accounted for one
by one (`KeysAccounted`): a transaction that has inserted a key must go on to bump,
and one that bumps nothing has changed nothing. Compiling is monotone in the keys,
so a key registered without validation cannot break a policy.

*Credentials.* Three facts carry the invariant `CredInv`. Ids are given once
(`UserCounted`), so a handler that has found an id and a user who is gone will never
match again; this is why a change that verified a namesake's hash comes to nothing
(`PasswordsKnown` speaks only of handlers whose id is still the user's). A credential
can only get worse while a request runs, since tokens are fresh and keys die with
their user (`CredentialsOld`, `TokensIssued`): one that is good at `Lookup` was good
when the request arrived. And a transaction holds the row lock exactly if it updated a
row (`LockHeld`), so what it deletes is the present user's or nothing (`FoundRevoked`
with `SessionsOwned`). The action properties follow once a step is attributed to the
handler that moves (`OwnStep`).

*Boot.* Who lists or applies migrations holds the advisory lock (`MigrationLockHeld`),
so what it believes applied is what is applied, and files come in order. Who has read
the admin's row holds the lock of `model_version` (`VersionLockHeld`), so no second
process finds the database without a password; what may still move under it is the
password the admin chooses, which can only be there already: until the operator clears
it, a stored password stays stored (`PasswordStays`). The tracker is the value of the
last boot that had one (`TrackerTells`), which is what keeps an unchanged environment
from overwriting. A password to be printed is in one process, and has not been
(`FreshUnshown`); recorded first logins and the pending one together are no more than
the passwords generated (`FirstsCounted`).

*Grants.* Rows that a call has written, but not committed, keep the rows they refer to
(`WrittenExist`): a deletion waits for them, as the foreign keys make it wait. With it
`RowsExist` is inductive. Of what a replacement found when it began, nothing is left
but what it is about to delete, has deleted, or was granted again beside it
(`PriorDeleted`); at its commit only the last remains, which is `ReplacementsHold`.
The rest is that each read goes into a history before it is used (`PatchWitnessed`,
`RequestWitnessed`), together with the fact that an attribute which a call has locked
is changed by no one else.

*Scroll.* The positions of traces, a time and an id, are totally ordered; that a
finite page has a last trace, and that the traces before it are exactly those with a
higher position, is proved from the well-foundedness of the naturals
(`LeastNumber`, `LastIsLeast`). Cursors come down (`SeenAbove`), so the export never
meets one it has seen, and answers no more pages than there are positions. What a handler
has read is in the history of its request, and of the scroll, part by part (`PlanRead`,
over `Covers`: the histories hold whatever may be read next); its roles may be fewer than
any that were held, and `RoleAssumption` says that these permit no more. This is
`NothingEverUnpermitted`. For the refinement, each stage of the scroll is held against
the settled traces, of which the rights of a handler select what the present ones do
(`PlanAgrees`): the page is those between its two cursors (`PageSettled`), the reply
their rows (`ReplySettled`), and the file those above the cursor, once each
(`FileSettled`). A change of the rights can only make fewer traces settled
(`SettledStay`), and leaves the selection of those as it was. Publication is then
`ExportPromise`'s, where `Clear` turns what was sent into what was asked for; the read of
roles is its `Read`, any failure or kill its `GiveUp`, and every other step of the export
stutters.

*Policies.* TLA+ lets one write any recursive function, and says nothing of it unless it
has a fixed point. The lemma `Recursion` gives one to every step that reads a function only at
smaller numbers, which steps on trees do, since the children of a node come before it.
`PolicyAgrees` is then an induction on these numbers, by a least node where the two
would differ. SQL's answer alone does not carry it through a negation: emit negates by
operator and by De Morgan rather than by a NOT around everything, and a missing key makes both a
test and its negation false, where CEL has an error. What does (`Agree`) speaks of both at once:
the SQL of a node is true exactly if CEL is, and the SQL of its negation exactly if CEL
is *false*; neither, exactly if CEL has no answer. Each operator is a lemma about its
leaf. That arrays parse is a hypothesis, and by `matching_malformed` it cannot be
dropped.

*Roles.* A clause is translated or left out as a whole, so a wider caller has every
clause of a narrower one; `ExtendedEmit` says that it reads the same for both, as the
attributes it names are there and equal. `RolesWiden` then holds between any two
sessions, not only those one step apart.

*Filters.* An operator is accepted of a type exactly if it is advertised for it, which
is by cases, and each leaf is true of a row exactly if its condition is, of every value its
type has and of those that are missing, null or malformed. The conjunction numbers the
leaves before their negations, so `Recursion` applies. For cursors, a canonical form
determines, for each condition of one filter, a condition of the other with the same
field, operator and texts; what is accepted of a field and an operator is of one
type, and within a type a text has one value (`SameText`), so both say the same of a
row. The bounds of `between` come as a set of texts, hence "in order".

Proving these found nothing wrong with the code beyond what the runs had reported. It did find
CASE expressions of the model whose guards overlapped, where TLA+ does not say which
arm is meant; they are conditionals in the order of the code now.

Only model-checked: liveness (`CallsReturn`, `EveryRequestAnswered`, `BootsEnd`,
`ExportEnds`), which is beyond the prover. The layout of nested terms as trees is
`MCMatching`'s, and not proved about; the theorems hold of trees however laid out.

## 6. Not modelled, and what could follow

* MCP endpoints (`mcp.go`, `mcpadmin.go`): each tool call becomes one REST request of
  the same caller, and its answer is wrapped. They add no state and no step to the
  handlers above; what remains is the wording of JSON-RPC.
* Table discovery (`traces/discover.go`): read-only listings of catalogs and the
  ranking of what they return. No component acts on a proposal until an administrator
  binds it, which is `AccessModel`'s.
* The local proxy's single messages: one line in, one answer out, nothing kept.
* Password hashing and tokens (`internal/auth`): taken as perfect.
* `optimize.go`: advice in prose and DDL text. The web interface, demo mode beyond its
  guard, Python examples and documentation assets.

What could follow: the clock of `PolicyLease` in `TraceScroll`, to say for how long a
revoked role or a replaced policy may still matter; a binding that moves under a scroll;
the search summaries of one trace as actions of `TraceScroll`; the "before" of an audit
entry beside its "after".
