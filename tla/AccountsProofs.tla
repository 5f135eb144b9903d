--------------------------- MODULE AccountsProofs ---------------------------
(***************************************************************************)
(* Proofs about Accounts, for any number of accounts, requests, sessions   *)
(* and restarts: the last enabled admin stays, the cache is current, and   *)
(* somebody can manage the accounts.                                       *)
(*                                                                         *)
(* The inductive invariant says that the request between its decision and  *)
(* the end of its change is the one that holds users_lock, so that what it *)
(* has decided upon is still true when it writes.                          *)
(***************************************************************************)
EXTENDS Accounts, TLAPS

PCs == {"idle", "handler", "lock", "write", "reload", "sessions", "logout", "login"}

Request == [pc : PCs, op : Ops \cup {NoOne}, slot : Slots \cup {NoOne},
            account : IDs \cup {NoOne}, id : IDs \cup {NoOne},
            gen : 0 .. MaxGeneration, self : BOOLEAN]

\* The part of the type invariant the argument needs.
Types ==
  /\ users \in [IDs -> User \cup {NoOne}] /\ created \in 0 .. MaxID
  /\ cache \subseteq [id : IDs, role : Roles, name : Names]
  /\ users_lock \in Requests \cup {NoOne}
  /\ req \in [Requests -> Request]

\* The request that holds the lock is the one that changes an account.
HolderWrites ==
  \A r \in Requests : req[r].pc \in {"write", "reload"} <=> users_lock = r

\* What a request has to know before it writes.
MayWrite(op, id) ==
  /\ op.do = "create" => created < MaxID
  /\ op.do = "update" => /\ id \in IDs /\ Exists(id)
                         /\ Changed(users[id], op.change) \in User
                         /\ KeepsAdmin(id, Changed(users[id], op.change))
  /\ op.do = "delete" => id \in IDs /\ KeepsAdmin(id, NoOne)

\* A request with the lock knows it, and nothing has changed since it was read.
Decided ==
  \A r \in Requests :
    /\ req[r].pc \in {"lock", "write"} => req[r].op \in Creation \cup Update \cup Deletion
    /\ req[r].pc = "write" => MayWrite(req[r].op, req[r].id)

\* Nobody has changed an account since the cache was read.
CacheRead == ~stale /\ (\A r \in Requests : req[r].pc # "reload") => cache = Entries

\* The next ID is unused.
Unused == \A id \in IDs : Exists(id) => id <= created

Inv == Types /\ HolderWrites /\ Decided /\ CacheRead /\ Unused

-----------------------------------------------------------------------------
\* An operation is of one kind, which its field "do" tells.
LEMMA Kinds ==
  /\ \A op \in Creation : op.do = "create" /\ op.name \in Names /\ op.role \in Roles /\ op.enabled \in BOOLEAN
  /\ \A op \in Update : op.do = "update" /\ op.name \in Names /\ op.change \in Changes
  /\ \A op \in Deletion : op.do = "delete" /\ op.name \in Names
BY DEF Creation, Update, Deletion

\* The state of a request that is over.
LEMMA IdleType ==
  /\ Idle \in Request
  /\ Idle.pc = "idle"
BY Parameters DEF Idle, PCs, Request

\* The invariant holds when the program starts.
LEMMA InitInv == Init => Inv
<1> SUFFICES ASSUME Init PROVE Inv
  OBVIOUS
<1>1. Types
  <2>1. users \in [IDs -> User \cup {NoOne}]
    BY Parameters DEF Init, User
  <2>2. cache \subseteq [id : IDs, role : Roles, name : Names]
    BY <2>1 DEF Init, Entries, Enabled, Exists, User
  <2> QED BY <2>1, <2>2, IdleType DEF Init, Types
<1>2. HolderWrites /\ Decided
  BY Parameters, IdleType DEF Init, HolderWrites, Decided
<1>3. CacheRead /\ Unused
  BY DEF Init, CacheRead, Unused
<1> QED BY <1>1, <1>2, <1>3 DEF Inv

\* What is read from the table of users is the same as long as it is not written.
LEMMA SameUsers ==
  ASSUME users' = users, created' = created
  PROVE  /\ Entries' = Entries /\ HasAdmin' = HasAdmin /\ (Unused' <=> Unused)
         /\ \A op, id : MayWrite(op, id)' <=> MayWrite(op, id)
<1>1. \A id : Exists(id)' <=> Exists(id)
  BY DEF Exists
<1>2. \A id : (Enabled(id)' <=> Enabled(id)) /\ (IsAdmin(id)' <=> IsAdmin(id))
  BY <1>1 DEF Enabled, IsAdmin
<1>3. \A id : OtherAdmins(id)' = OtherAdmins(id)
  BY <1>2 DEF OtherAdmins
<1>4. \A id, u : KeepsAdmin(id, u)' <=> KeepsAdmin(id, u)
  BY <1>2, <1>3 DEF KeepsAdmin
<1>5. Entries' = Entries /\ HasAdmin' = HasAdmin
  BY <1>2 DEF Entries, HasAdmin
<1>6. \A op, id : MayWrite(op, id)' <=> MayWrite(op, id)
  BY <1>1, <1>4 DEF MayWrite
<1>7. Unused' <=> Unused
  BY <1>1 DEF Unused
<1> QED BY <1>5, <1>6, <1>7

\* A step of a request that neither takes nor holds the lock.
LEMMA Quiet ==
  ASSUME Inv, NEW r \in Requests, NEW new \in Request,
         req' = [req EXCEPT ![r] = new],
         req[r].pc \notin {"write", "reload"}, new.pc \notin {"write", "reload"},
         new.pc = "lock" => new.op \in Creation \cup Update \cup Deletion,
         UNCHANGED <<db, cache, users_lock, stale>>
  PROVE  Inv'
<1>1. users' = users /\ created' = created /\ cache' = cache /\ users_lock' = users_lock /\ stale' = stale
  BY DEF db
<1>2. \A q \in Requests : req'[q] = IF q = r THEN new ELSE req[q]
  BY DEF Inv, Types
<1>3. Types'
  BY <1>1, <1>2 DEF Inv, Types
<1>4. HolderWrites'
  BY <1>1, <1>2 DEF Inv, HolderWrites
<1>5. Decided'
  BY <1>1, <1>2, SameUsers DEF Inv, Decided
<1>6. CacheRead'
  BY <1>1, <1>2, SameUsers DEF Inv, CacheRead
<1> QED BY <1>1, <1>3, <1>4, <1>5, <1>6, SameUsers DEF Inv

\* The steps of a request outside of the change of an account.
LEMMA QuietSteps ==
  ASSUME Inv, NEW r \in Requests,
         \/ Accept(r) \/ (\E op \in Ops : Handler(r, op)) \/ EndSessions(r)
         \/ DeleteSession(r) \/ Authenticate(r) \/ CreateSession(r)
  PROVE  Inv'
<1>0. req \in [Requests -> Request] /\ req[r] \in Request
  BY DEF Inv, Types
<1>1. CASE Accept(r)
  <2>1. CASE Goto(r, "handler")
    <3> DEFINE new == [req[r] EXCEPT !.pc = "handler"]
    <3>1. new \in Request /\ new.pc = "handler"
      BY <1>0 DEF Request, PCs
    <3>2. req' = [req EXCEPT ![r] = new]
      BY <2>1, <1>0 DEF Goto
    <3> HIDE DEF new
    <3> QED BY <1>1, <3>1, <3>2, Quiet, ZenonT(30) DEF Accept, history
  <2>2. CASE \E s \in Slots :
               /\ sessions[s].account # NoOne => InCache(sessions[s].account)
               /\ req' = [req EXCEPT ![r] = [Idle EXCEPT !.pc = "handler", !.slot = s,
                                                        !.account = sessions[s].account]]
    <3>1. PICK s \in Slots :
               /\ sessions[s].account # NoOne => InCache(sessions[s].account)
               /\ req' = [req EXCEPT ![r] = [Idle EXCEPT !.pc = "handler", !.slot = s,
                                                        !.account = sessions[s].account]]
      BY <2>2, Zenon
    <3> DEFINE a == sessions[s].account
               new == [Idle EXCEPT !.pc = "handler", !.slot = s, !.account = a]
    <3>2. a \in IDs \cup {NoOne}
      BY <3>1 DEF InCache, Inv, Types
    <3>3. req' = [req EXCEPT ![r] = new]
      BY <3>1
    <3> HIDE DEF a
    <3>4. new \in Request /\ new.pc = "handler"
      BY <3>2, IdleType, Zenon DEF Request, PCs
    <3> HIDE DEF new
    <3> QED BY <1>1, <3>3, <3>4, Quiet, ZenonT(30) DEF Accept, history
  <2> QED BY <1>1, <2>1, <2>2, ZenonT(30) DEF Accept
<1>2. ASSUME NEW op \in Ops, Handler(r, op) PROVE Inv'
  <2>1. CASE Finished(r)
    BY <1>2, <2>1, IdleType, Quiet, ZenonT(30) DEF Handler, Finished, history
  <2>2. CASE /\ op \in Creation \cup Update \cup Deletion
             /\ req' = [req EXCEPT ![r].pc = "lock", ![r].op = op, ![r].self = Self(r, op.name),
                                   ![r].account = NoOne]
    <3> DEFINE self == Self(r, op.name)
               new == [req[r] EXCEPT !.pc = "lock", !.op = op, !.self = self, !.account = NoOne]
    <3>1. self \in BOOLEAN
      BY DEF Self
    <3>2. req' = [req EXCEPT ![r] = new]
      BY <2>2, <1>0, Zenon
    <3> HIDE DEF self
    <3>3. new \in Request /\ new.pc = "lock" /\ new.op = op
      BY <1>0, <3>1, Zenon DEF Request, PCs
    <3> HIDE DEF new
    <3> QED BY <1>2, <2>2, <3>2, <3>3, Quiet, ZenonT(30) DEF Handler, history
  <2>3. CASE \E s \in Slots \cup {NoOne} : req' = [req EXCEPT ![r].pc = "logout", ![r].slot = s]
    <3>1. PICK s \in Slots \cup {NoOne} : req' = [req EXCEPT ![r].pc = "logout", ![r].slot = s]
      BY <2>3, Zenon
    <3> DEFINE new == [req[r] EXCEPT !.pc = "logout", !.slot = s]
    <3>2. new \in Request /\ new.pc = "logout"
      BY <1>0, Zenon DEF Request, PCs
    <3>3. req' = [req EXCEPT ![r] = new]
      BY <3>1, <1>0, Zenon
    <3> HIDE DEF new
    <3> QED BY <1>2, <3>2, <3>3, Quiet, ZenonT(30) DEF Handler, history
  <2>4. CASE Goto(r, "logout")
    <3> DEFINE new == [req[r] EXCEPT !.pc = "logout"]
    <3>1. new \in Request /\ new.pc = "logout"
      BY <1>0 DEF Request, PCs
    <3>2. req' = [req EXCEPT ![r] = new]
      BY <2>4, <1>0 DEF Goto
    <3> HIDE DEF new
    <3> QED BY <1>2, <3>1, <3>2, Quiet, ZenonT(30) DEF Handler, history
  <2>5. op \in Ending => op.slot \in Slots
    BY DEF Ending
  <2> QED BY <1>2, <2>1, <2>2, <2>3, <2>4, <2>5, ZenonT(30) DEF Handler
<1>3. CASE EndSessions(r)
  BY <1>3, IdleType, Quiet, Zenon DEF EndSessions, Finished
<1>4. CASE DeleteSession(r)
  BY <1>4, IdleType, Quiet, Zenon DEF DeleteSession, Finished
<1>5. CASE CreateSession(r)
  BY <1>5, IdleType, Quiet, Zenon DEF CreateSession, Finished
<1>6. CASE Authenticate(r)
  <2>1. CASE Goto(r, "login")
    <3> DEFINE new == [req[r] EXCEPT !.pc = "login"]
    <3>1. new \in Request /\ new.pc = "login"
      BY <1>0 DEF Request, PCs
    <3>2. req' = [req EXCEPT ![r] = new]
      BY <2>1, <1>0 DEF Goto
    <3> HIDE DEF new
    <3> QED BY <1>6, <3>1, <3>2, Quiet, ZenonT(30) DEF Authenticate, history
  <2>2. ASSUME NEW id \in IDs, Enabled(id),
               req' = [req EXCEPT ![r] = [Idle EXCEPT !.pc = "login", !.account = id, !.gen = users[id].gen]]
        PROVE  Inv'
    <3> DEFINE g == users[id].gen
               new == [Idle EXCEPT !.pc = "login", !.account = id, !.gen = g]
    <3>1. g \in 0 .. MaxGeneration
      BY <2>2, Parameters DEF Enabled, Exists, Inv, Types, User
    <3>2. req' = [req EXCEPT ![r] = new]
      BY <2>2
    <3> HIDE DEF g
    <3>3. new \in Request /\ new.pc = "login"
      BY <3>1, IdleType, Zenon DEF Request, PCs
    <3> HIDE DEF new
    <3> QED BY <1>6, <3>2, <3>3, Quiet, ZenonT(30) DEF Authenticate, history
  <2> QED BY <1>6, <2>1, <2>2, ZenonT(30) DEF Authenticate
<1> QED BY <1>1, <1>2, <1>3, <1>4, <1>5, <1>6

\* The row an update writes is a row, if its generation is within the bound.
LEMMA ChangedType ==
  ASSUME NEW u \in User, NEW c \in Change, Changed(u, c).gen <= MaxGeneration
  PROVE  Changed(u, c) \in User
<1> DEFINE e == IF c.enabled = NoOne THEN u.enabled ELSE c.enabled
           g == IF c.enabled = FALSE \/ c.password THEN u.gen + 1 ELSE u.gen
<1>1. e \in BOOLEAN
  BY Parameters DEF Change, User
<1>2. g \in Nat
  BY Parameters DEF User
<1>3. Changed(u, c).gen = g
  BY DEF Changed
<1>4. g \in 0 .. MaxGeneration
  BY <1>2, <1>3, Parameters
<1>5. (IF c.name = NoOne THEN u.name ELSE c.name) \in Names
  BY Parameters DEF Change, User
<1>6. (IF c.role = NoOne THEN u.role ELSE c.role) \in Roles
  BY Parameters DEF Change, User
<1> HIDE DEF e, g
<1>7. Changed(u, c) = [name |-> IF c.name = NoOne THEN u.name ELSE c.name,
                       role |-> IF c.role = NoOne THEN u.role ELSE c.role,
                       enabled |-> e, gen |-> g]
  BY DEF Changed, e, g
<1> QED BY <1>1, <1>4, <1>5, <1>6, <1>7 DEF User

\* Read: the request that takes the lock has just looked.
LEMMA ReadStep ==
  ASSUME Inv, NEW r \in Requests, Read(r)
  PROVE  Inv'
<1> DEFINE op == req[r].op
<1>0. /\ req \in [Requests -> Request] /\ req[r] \in Request /\ req[r].pc = "lock" /\ users_lock = NoOne
      /\ op \in Creation \cup Update \cup Deletion
      /\ \A q \in Requests : req[q].pc \notin {"write", "reload"}
  BY Parameters DEF Inv, Types, Decided, HolderWrites, Read, LockFree
<1>1. users' = users /\ created' = created /\ cache' = cache /\ stale' = stale
  BY DEF Read, db, history
<1>2. CASE users_lock' = users_lock /\ Finished(r)
  BY <1>0, <1>1, <1>2, IdleType, Quiet, Zenon DEF Finished, db
<1>3. ASSUME NEW new \in Request, req' = [req EXCEPT ![r] = new], users_lock' = r,
             new.pc = "write", new.op = op, MayWrite(op, new.id)
      PROVE  Inv'
  <2>1. \A q \in Requests : req'[q] = IF q = r THEN new ELSE req[q]
    BY <1>0, <1>3
  <2>2. Types'
    BY <1>1, <1>3, <2>1 DEF Inv, Types
  <2>3. HolderWrites'
    BY <1>0, <1>3, <2>1 DEF HolderWrites
  <2>4. Decided'
    BY <1>0, <1>1, <1>3, <2>1, SameUsers DEF Inv, Decided
  <2>5. CacheRead'
    BY <1>0, <1>1, <1>3, <2>1, SameUsers DEF Inv, CacheRead
  <2> QED BY <1>1, <2>2, <2>3, <2>4, <2>5, SameUsers DEF Inv
<1>4. CASE op.do = "create" /\ created < MaxID /\ users_lock' = r /\ Goto(r, "write")
  <2> DEFINE new == [req[r] EXCEPT !.pc = "write"]
  <2>1. new \in Request /\ new.pc = "write" /\ new.op = op
    BY <1>0 DEF Request, PCs
  <2>2. req' = [req EXCEPT ![r] = new]
    BY <1>0, <1>4 DEF Goto
  <2>3. MayWrite(op, new.id)
    BY <1>4 DEF MayWrite
  <2> HIDE DEF new
  <2> QED BY <1>3, <1>4, <2>1, <2>2, <2>3, Zenon
<1>5. ASSUME NEW id \in IDs, op.do # "create", Exists(id),
             op.do = "update" => Changed(users[id], op.change).gen <= MaxGeneration,
             KeepsAdmin(id, IF op.do = "update" THEN Changed(users[id], op.change) ELSE NoOne),
             users_lock' = r, req' = [req EXCEPT ![r].pc = "write", ![r].id = id]
      PROVE  Inv'
  <2> DEFINE new == [req[r] EXCEPT !.pc = "write", !.id = id]
  <2>1. new \in Request /\ new.pc = "write" /\ new.op = op /\ new.id = id
    BY <1>0, Zenon DEF Request, PCs
  <2>2. req' = [req EXCEPT ![r] = new]
    BY <1>0, <1>5, Zenon
  <2>3. ASSUME op.do = "update" PROVE Changed(users[id], op.change) \in User
    <3>1. op.change \in Change
      BY <1>0, <2>3, Kinds, Parameters
    <3>2. users[id] \in User
      BY <1>5 DEF Exists, Inv, Types
    <3> QED BY <1>5, <2>3, <3>1, <3>2, ChangedType
  <2>4. MayWrite(op, id)
    BY <1>5, <2>3 DEF MayWrite
  <2> HIDE DEF new
  <2> QED BY <1>3, <1>5, <2>1, <2>2, <2>4, Zenon
<1> QED BY <1>2, <1>4, <1>5 DEF Read

\* What reload_cache() reads are entries.
LEMMA EntriesType ==
  ASSUME users \in [IDs -> User \cup {NoOne}]
  PROVE  Entries \subseteq [id : IDs, role : Roles, name : Names]
BY DEF Entries, Enabled, Exists, User

\* Write: only the holder of the lock writes, and nobody else has decided.
LEMMA WriteStep ==
  ASSUME Inv, NEW r \in Requests, Write(r)
  PROVE  Inv'
<1> DEFINE op == req[r].op
           id == req[r].id
<1>0. /\ req \in [Requests -> Request] /\ req[r] \in Request /\ req[r].pc = "write" /\ users_lock = r
      /\ op \in Creation \cup Update \cup Deletion /\ MayWrite(op, id)
      /\ \A q \in Requests : q # r => req[q].pc \notin {"write", "reload"}
  BY DEF Inv, Types, Decided, HolderWrites, Write
<1>1. cache' = cache /\ stale' = stale
  BY DEF Write, history
<1>2. CASE UNCHANGED db /\ Finished(r) /\ users_lock' = NoOne
  <2>1. users' = users /\ created' = created
    BY <1>2 DEF db
  <2>2. \A q \in Requests : req'[q] = IF q = r THEN Idle ELSE req[q]
    BY <1>0, <1>2 DEF Finished
  <2>3. Types'
    BY <1>1, <1>2, <2>1, <2>2, IdleType DEF Inv, Types, Finished
  <2>4. HolderWrites'
    BY <1>0, <1>2, <2>2, IdleType, Parameters DEF HolderWrites
  <2>5. Decided'
    BY <1>0, <2>1, <2>2, IdleType, SameUsers DEF Inv, Decided
  <2>6. CacheRead'
    BY <1>0, <1>1, <2>1, <2>2, SameUsers DEF Inv, CacheRead
  <2> QED BY <2>1, <2>3, <2>4, <2>5, <2>6, SameUsers DEF Inv
<1>3. ASSUME users' \in [IDs -> User \cup {NoOne}], created' \in 0 .. MaxID, Unused',
             Goto(r, "reload"), users_lock' = users_lock
      PROVE  Inv'
  <2> DEFINE new == [req[r] EXCEPT !.pc = "reload"]
  <2>1. new \in Request /\ new.pc = "reload"
    BY <1>0 DEF Request, PCs
  <2>2. req' = [req EXCEPT ![r] = new]
    BY <1>0, <1>3 DEF Goto
  <2> HIDE DEF new
  <2>3. \A q \in Requests : req'[q] = IF q = r THEN new ELSE req[q]
    BY <1>0, <2>2
  <2>4. Types'
    BY <1>1, <1>3, <2>1, <2>3, <2>2 DEF Inv, Types
  <2>5. HolderWrites'
    BY <1>0, <1>3, <2>1, <2>3 DEF HolderWrites
  <2>6. Decided'
    BY <1>0, <2>1, <2>3 DEF Inv, Decided
  <2>7. CacheRead'
    BY <2>1, <2>3 DEF CacheRead
  <2> QED BY <1>3, <2>4, <2>5, <2>6, <2>7 DEF Inv
<1>4. users \in [IDs -> User \cup {NoOne}] /\ created \in 0 .. MaxID /\ MaxID \in Nat
  BY Parameters DEF Inv, Types
<1>4a. \A i \in IDs : users[i] # NoOne => i <= created
  BY DEF Inv, Unused, Exists
<1>5. CASE op.do = "create" /\ created' = created + 1
             /\ users' = [users EXCEPT ![NewID] =
                            [name |-> op.name, role |-> op.role, enabled |-> op.enabled, gen |-> 0]]
             /\ Goto(r, "reload") /\ users_lock' = users_lock
  <2> DEFINE u == [name |-> op.name, role |-> op.role, enabled |-> op.enabled, gen |-> 0]
  <2>1. op \in Creation
    BY <1>0, <1>5, Kinds
  <2>2. op.name \in Names /\ op.role \in Roles /\ op.enabled \in BOOLEAN
    BY <2>1, Kinds
  <2>3. u \in User
    BY <2>2, Parameters DEF User
  <2>4. created < MaxID
    BY <1>0, <1>5 DEF MayWrite
  <2> HIDE DEF u
  <2>5. users' \in [IDs -> User \cup {NoOne}]
    BY <1>4, <1>5, <2>3, Zenon DEF u
  <2>6. created' \in 0 .. MaxID
    BY <1>4, <1>5, <2>4
  <2>7. Unused'
    BY <1>4, <1>4a, <1>5 DEF Unused, Exists, NewID, IDs
  <2> QED BY <1>3, <1>5, <2>5, <2>6, <2>7
<1>6. CASE op.do = "update" /\ users' = [users EXCEPT ![id] = Changed(@, op.change)] /\ created' = created
             /\ Goto(r, "reload") /\ users_lock' = users_lock
  <2>1. id \in IDs /\ Changed(users[id], op.change) \in User
    BY <1>0, <1>6 DEF MayWrite
  <2>2. users' \in [IDs -> User \cup {NoOne}]
    BY <1>4, <1>6, <2>1
  <2>3. users[id] # NoOne
    BY <1>0, <1>6 DEF MayWrite, Exists
  <2>4. Unused'
    BY <1>4, <1>4a, <1>6, <2>1, <2>3 DEF Unused, Exists
  <2> QED BY <1>3, <1>4, <1>6, <2>2, <2>4
<1>7. CASE op.do = "delete" /\ users' = [users EXCEPT ![id] = NoOne] /\ created' = created
             /\ Goto(r, "reload") /\ users_lock' = users_lock
  <2>1. users' \in [IDs -> User \cup {NoOne}]
    BY <1>4, <1>7, Zenon
  <2>2. Unused'
    BY <1>4, <1>4a, <1>7 DEF Unused, Exists
  <2> QED BY <1>3, <1>4, <1>7, <2>1, <2>2
<1>8. op.do \in {"create", "update", "delete"}
  BY <1>0, Kinds
<1> QED BY <1>2, <1>5, <1>6, <1>7, <1>8, Zenon DEF Write

\* Reload: the cache is read before the lock is released.
LEMMA ReloadStep ==
  ASSUME Inv, NEW r \in Requests, Reload(r)
  PROVE  Inv'
<1>0. /\ req \in [Requests -> Request] /\ req[r] \in Request /\ req[r].pc = "reload" /\ users_lock = r
      /\ \A q \in Requests : q # r => req[q].pc \notin {"write", "reload"}
  BY DEF Inv, Types, HolderWrites, Reload
<1>1. users' = users /\ created' = created /\ users_lock' = NoOne
  BY DEF Reload, db
<1>2. cache' = Entries \/ (cache' = cache /\ stale' = TRUE)
  BY DEF Reload, Reloaded
<1>3. PICK new \in Request : req' = [req EXCEPT ![r] = new] /\ new.pc \in {"idle", "sessions"}
  <2>1. CASE Finished(r)
    BY <2>1, IdleType, Zenon DEF Finished
  <2>2. CASE \E s \in Slots \cup {NoOne} : req' = [req EXCEPT ![r].pc = "sessions", ![r].slot = s]
    <3>1. PICK s \in Slots \cup {NoOne} : req' = [req EXCEPT ![r].pc = "sessions", ![r].slot = s]
      BY <2>2, Zenon
    <3> DEFINE new == [req[r] EXCEPT !.pc = "sessions", !.slot = s]
    <3>2. new \in Request /\ new.pc = "sessions"
      BY <1>0, Zenon DEF Request, PCs
    <3>3. req' = [req EXCEPT ![r] = new]
      BY <1>0, <3>1, Zenon
    <3> HIDE DEF new
    <3> QED BY <3>2, <3>3, Zenon
  <2>3. ASSUME req' = [req EXCEPT ![r].pc = "sessions",
                         ![r].slot = IF req[r].self /\ Enabled(req[r].id) THEN @ ELSE NoOne]
        PROVE  \E s \in Slots \cup {NoOne} : req' = [req EXCEPT ![r].pc = "sessions", ![r].slot = s]
    <3>1. req[r].slot \in Slots \cup {NoOne}
      BY <1>0 DEF Request
    <3>2. CASE req[r].self /\ Enabled(req[r].id)
      BY <2>3, <3>1, <3>2, <1>0, Zenon
    <3>3. CASE ~(req[r].self /\ Enabled(req[r].id))
      BY <2>3, <3>3, <1>0, Zenon
    <3> QED BY <3>2, <3>3
  <2> QED BY <2>1, <2>2, <2>3 DEF Reload
<1>4. \A q \in Requests : req'[q] = IF q = r THEN new ELSE req[q]
  BY <1>0, <1>3
<1>5. Types'
  BY <1>1, <1>2, <1>3, <1>4, EntriesType DEF Inv, Types
<1>6. HolderWrites'
  BY <1>0, <1>1, <1>3, <1>4, Parameters DEF HolderWrites
<1>7. Decided'
  BY <1>0, <1>1, <1>3, <1>4, SameUsers DEF Inv, Decided
<1>8. CacheRead'
  BY <1>1, <1>2, SameUsers DEF CacheRead
<1> QED BY <1>1, <1>5, <1>6, <1>7, <1>8, SameUsers DEF Inv

\* A restart ends all requests, reads the cache or leaves it empty.
LEMMA RestartStep ==
  ASSUME Inv, Restart
  PROVE  Inv'
<1>1. users' = users /\ created' = created /\ users_lock' = NoOne /\ req' = [r \in Requests |-> Idle]
  BY SMTT(60) DEF Restart, db
<1>2. \E loaded \in BOOLEAN : cache' = (IF loaded THEN Entries ELSE {}) /\ stale' = ~loaded
  BY SMTT(60) DEF Restart
<1>3. Types'
  BY <1>1, <1>2, IdleType, EntriesType DEF Inv, Types
<1>4. HolderWrites' /\ Decided'
  BY <1>1, IdleType, Parameters DEF HolderWrites, Decided
<1>5. CacheRead'
  BY <1>1, <1>2, SameUsers, Zenon DEF CacheRead
<1> QED BY <1>1, <1>3, <1>4, <1>5, SameUsers DEF Inv

\* Nothing the invariant speaks of changes.
LEMMA OtherSteps ==
  ASSUME Inv, (\E b \in BOOLEAN : SetPassword(b)) \/ UNCHANGED vars
  PROVE  Inv'
<1>1. UNCHANGED <<users, created, cache, users_lock, req, stale>>
  BY DEF SetPassword, db, vars
<1>2. Types' /\ HolderWrites'
  BY <1>1 DEF Inv, Types, HolderWrites
<1>3. Decided' /\ CacheRead' /\ Unused'
  BY <1>1, SameUsers DEF Inv, Decided, CacheRead
<1> QED BY <1>2, <1>3 DEF Inv

\* Every step keeps the invariant.
LEMMA NextInv ==
  ASSUME Inv, [Next]_vars
  PROVE  Inv'
BY QuietSteps, ReadStep, WriteStep, ReloadStep, RestartStep, OtherSteps DEF Next, Step

-----------------------------------------------------------------------------
\* Changing an account keeps an admin if the decision says so.
LEMMA WriteKeepsAdmin ==
  ASSUME Inv, NEW r \in Requests, Write(r), HasAdmin
  PROVE  HasAdmin'
<1> DEFINE op == req[r].op
           id == req[r].id
<1>0. /\ op \in Creation \cup Update \cup Deletion /\ MayWrite(op, id)
      /\ users \in [IDs -> User \cup {NoOne}] /\ created \in 0 .. MaxID /\ MaxID \in Nat
  BY Parameters DEF Inv, Types, Decided, Write
<1>1. PICK a \in IDs : IsAdmin(a)
  BY DEF HasAdmin
<1>2. ASSUME NEW b \in IDs, IsAdmin(b), users'[b] = users[b]
      PROVE  HasAdmin'
  BY <1>2 DEF HasAdmin, IsAdmin, Enabled, Exists
<1>3. CASE UNCHANGED db
  BY <1>1, <1>2, <1>3 DEF db
<1>4. ASSUME op.do \in {"update", "delete"}, NEW u, users' = [users EXCEPT ![id] = u],
             id \in IDs, KeepsAdmin(id, u), u \in User \cup {NoOne}
      PROVE  HasAdmin'
  <2>1. \A b \in IDs : b # id => users'[b] = users[b]
    BY <1>0, <1>4
  <2>2. CASE a # id
    BY <1>1, <1>2, <2>1, <2>2
  <2>3. CASE a = id /\ OtherAdmins(id) # {}
    BY <1>2, <2>1, <2>3 DEF OtherAdmins
  <2>4. CASE a = id /\ OtherAdmins(id) = {}
    <3>1. u # NoOne /\ u.role = "admin" /\ u.enabled
      BY <1>1, <1>4, <2>4 DEF KeepsAdmin
    <3>2. users'[id] = u
      BY <1>0, <1>4
    <3> QED BY <1>4, <3>1, <3>2 DEF HasAdmin, IsAdmin, Enabled, Exists
  <2> QED BY <2>2, <2>3, <2>4
<1>5. CASE op.do = "create" /\ created' = created + 1
             /\ users' = [users EXCEPT ![NewID] =
                            [name |-> op.name, role |-> op.role, enabled |-> op.enabled, gen |-> 0]]
  <2>1. CASE a # NewID
    <3>1. users'[a] = users[a]
      BY <1>0, <1>5, <2>1
    <3> QED BY <1>1, <1>2, <3>1
  <2>2. CASE a = NewID
    BY <1>1, <2>2, <1>0 DEF IsAdmin, Enabled, Exists, Inv, Unused, NewID
  <2> QED BY <2>1, <2>2
<1>6. CASE op.do = "update" /\ users' = [users EXCEPT ![id] = Changed(@, op.change)]
  <2>1. /\ id \in IDs /\ Changed(users[id], op.change) \in User
        /\ KeepsAdmin(id, Changed(users[id], op.change))
    BY <1>0, <1>6, SMTT(60) DEF MayWrite
  <2>2. users' = [users EXCEPT ![id] = Changed(users[id], op.change)]
    BY <1>0, <1>6, <2>1
  <2> QED BY <1>4, <1>6, <2>1, <2>2, Zenon
<1>7. CASE op.do = "delete" /\ users' = [users EXCEPT ![id] = NoOne]
  <2>1. id \in IDs /\ KeepsAdmin(id, NoOne)
    BY <1>0, <1>7 DEF MayWrite
  <2> QED BY <1>4, <1>7, <2>1, Zenon
<1>8. op.do \in {"create", "update", "delete"}
  BY <1>0, Kinds
<1> QED BY <1>3, <1>5, <1>6, <1>7, <1>8, Zenon DEF Write

\* Everything else leaves the table of users alone.
LEMMA OnlyWriteWrites ==
  ASSUME [Next]_vars
  PROVE  (\E r \in Requests : Write(r)) \/ (users' = users /\ created' = created)
<1>1. ASSUME NEW r \in Requests, Step(r), ~Write(r)
      PROVE  users' = users /\ created' = created
  <2>1. CASE Accept(r) \/ Read(r) \/ Reload(r)
    BY <2>1, ZenonT(30) DEF Accept, Read, Reload, db
  <2>2. ASSUME NEW op \in Ops, Handler(r, op)
        PROVE  users' = users /\ created' = created
    BY <2>2 DEF Handler, db
  <2>3. CASE EndSessions(r) \/ DeleteSession(r)
    BY <2>3 DEF EndSessions, DeleteSession, db
  <2>4. CASE Authenticate(r) \/ CreateSession(r)
    BY <2>4, ZenonT(30) DEF Authenticate, CreateSession, db
  <2> QED BY <1>1, <2>1, <2>2, <2>3, <2>4 DEF Step
<1>2. CASE \E b \in BOOLEAN : SetPassword(b)
  BY <1>2 DEF SetPassword, db
<1>3. CASE Restart \/ UNCHANGED vars
  BY <1>3, Zenon DEF Restart, vars, db
<1> QED BY <1>1, <1>2, <1>3 DEF Next

\* No step takes the last enabled admin away.
LEMMA AdminKept ==
  ASSUME Inv, [Next]_vars, HasAdmin
  PROVE  HasAdmin'
BY OnlyWriteWrites, WriteKeepsAdmin, SameUsers, Zenon

-----------------------------------------------------------------------------
(***************************************************************************)
(* Without a password in the configuration: if there are accounts, or were *)
(* when the cache was read, there is an admin, and whoever is about to     *)
(* create an account creates an admin if there is none.                    *)
(***************************************************************************)
Managed ==
  ~password =>
    /\ (\E id \in IDs : Exists(id)) => HasAdmin
    /\ cache # {} => HasAdmin
    /\ \A r \in Requests : req[r].pc \in {"lock", "write"} /\ req[r].op.do = "create" =>
         HasAdmin \/ (req[r].op.role = "admin" /\ req[r].op.enabled)

\* At the start somebody may manage the accounts.
LEMMA InitManaged == Init => Managed
<1> SUFFICES ASSUME Init PROVE Managed
  OBVIOUS
<1>1. (\E id \in IDs : Exists(id)) => HasAdmin
  BY Parameters DEF Init, IDs
<1>2. cache # {} => \E id \in IDs : Exists(id)
  BY DEF Init, Entries, Enabled
<1>3. \A r \in Requests : req[r].pc = "idle"
  BY IdleType DEF Init
<1> QED BY <1>1, <1>2, <1>3 DEF Managed

\* A request comes to change an account only through its handler.
LEMMA OpStays ==
  ASSUME Inv, [Next]_vars, NEW q \in Requests, req'[q].pc \in {"lock", "write"}
  PROVE  \/ req[q].pc \in {"lock", "write"} /\ req'[q].op = req[q].op
         \/ Handler(q, req'[q].op) /\ Allowed(q, req'[q].op)
<1>0. req \in [Requests -> Request] /\ \A r \in Requests : req[r] \in Request
  BY DEF Inv, Types
<1>1. ASSUME NEW r \in Requests, Step(r), r # q
      PROVE  req'[q] = req[q]
  BY <1>0, <1>1, ZenonT(30) DEF Step, Accept, Handler, Read, Write, Reload, EndSessions, DeleteSession,
       Authenticate, CreateSession, Goto, Finished
<1>2. CASE Finished(q)
  BY <1>0, <1>2, IdleType DEF Finished
<1>3. CASE Accept(q)
  <2>1. req'[q].pc = "handler"
    <3>1. CASE Goto(q, "handler")
      BY <1>0, <3>1 DEF Goto, Request
    <3>2. ASSUME NEW s, NEW a, req' = [req EXCEPT ![q] = [Idle EXCEPT !.pc = "handler", !.slot = s, !.account = a]]
          PROVE  req'[q].pc = "handler"
      BY <1>0, <3>2 DEF Idle
    <3> QED BY <1>3, <3>1, <3>2, ZenonT(30) DEF Accept
  <2> QED BY <2>1
<1>4. ASSUME NEW op \in Ops, Handler(q, op)
      PROVE  Handler(q, req'[q].op) /\ Allowed(q, req'[q].op)
  <2>1. req'[q].op = op /\ Allowed(q, op)
    BY <1>0, <1>2, <1>4, IdleType DEF Handler, Goto, Request, Finished
  <2> QED BY <1>4, <2>1
<1>5. CASE Read(q)
  BY <1>0, <1>2, <1>5 DEF Read, Goto, Request
<1>6. CASE Write(q)
  BY <1>0, <1>2, <1>6, Zenon DEF Write, Goto, Request
<1>7. CASE Reload(q)
  BY <1>0, <1>2, <1>7 DEF Reload, Request
<1>8. CASE EndSessions(q) \/ DeleteSession(q) \/ CreateSession(q)
  BY <1>2, <1>8, SMTT(60) DEF EndSessions, DeleteSession, CreateSession
<1>9. CASE Authenticate(q)
  <2>1. req'[q].pc = "login"
    <3>1. CASE Goto(q, "login")
      BY <1>0, <3>1 DEF Goto, Request
    <3>2. ASSUME NEW a, NEW g, req' = [req EXCEPT ![q] = [Idle EXCEPT !.pc = "login", !.account = a, !.gen = g]]
          PROVE  req'[q].pc = "login"
      BY <1>0, <3>2 DEF Idle
    <3> QED BY <1>9, <3>1, <3>2, ZenonT(30) DEF Authenticate
  <2> QED BY <2>1
<1>10. CASE Restart
  BY <1>10, IdleType DEF Restart
<1>11. CASE (\E b \in BOOLEAN : SetPassword(b)) \/ UNCHANGED vars
  BY <1>11 DEF SetPassword, vars
<1> QED BY <1>1, <1>3, <1>4, <1>5, <1>6, <1>7, <1>8, <1>9, <1>10, <1>11 DEF Next, Step

\* The role and the status of a new account are the ones that were asked for.
LEMMA FieldsOfUser ==
  ASSUME NEW user, NEW name, NEW role, NEW enabled,
         user = [name |-> name, role |-> role, enabled |-> enabled, gen |-> 0]
  PROVE  user.role = role /\ user.enabled = enabled
  OBVIOUS

\* Every step leaves somebody who may manage the accounts.
LEMMA NextManaged ==
  ASSUME MayClearPassword = FALSE, Inv, Managed, [Next]_vars
  PROVE  Managed'
<1> SUFFICES ASSUME ~password'
             PROVE  /\ (\E id \in IDs : Exists(id))' => HasAdmin'
                    /\ cache' # {} => HasAdmin'
                    /\ \A r \in Requests : req'[r].pc \in {"lock", "write"} /\ req'[r].op.do = "create" =>
                         HasAdmin' \/ (req'[r].op.role = "admin" /\ req'[r].op.enabled)
  BY DEF Managed
<1>1. ~password
  <2>1. ASSUME NEW r \in Requests, Step(r) PROVE password' = password
    <3>1. CASE Accept(r) \/ Read(r) \/ Write(r) \/ Reload(r)
      BY <3>1, ZenonT(30) DEF Accept, Read, Write, Reload
    <3>2. ASSUME NEW op \in Ops, Handler(r, op) PROVE password' = password
      BY <3>2 DEF Handler
    <3>3. CASE EndSessions(r) \/ DeleteSession(r)
      BY <3>3 DEF EndSessions, DeleteSession
    <3>4. CASE Authenticate(r) \/ CreateSession(r)
      BY <3>4, ZenonT(30) DEF Authenticate, CreateSession
    <3> QED BY <2>1, <3>1, <3>2, <3>3, <3>4 DEF Step
  <2>2. ASSUME NEW b \in BOOLEAN, SetPassword(b) PROVE ~password
    BY <2>2 DEF SetPassword
  <2>3. CASE Restart \/ UNCHANGED vars
    BY <2>3, Zenon DEF Restart, vars
  <2> QED BY <2>1, <2>2, <2>3 DEF Next
<1>2. HasAdmin => HasAdmin'
  BY AdminKept
<1>3. (\E id \in IDs : Exists(id)) => HasAdmin
  BY <1>1 DEF Managed
<1>4. cache # {} => HasAdmin
  BY <1>1 DEF Managed
<1>5. ASSUME NEW r \in Requests, req[r].pc \in {"lock", "write"}, req[r].op.do = "create"
      PROVE  HasAdmin \/ (req[r].op.role = "admin" /\ req[r].op.enabled)
  BY <1>1, <1>5 DEF Managed
<1>6. (\E id \in IDs : Exists(id))' => HasAdmin'
  <2>1. CASE users' = users
    BY <1>2, <1>3, <2>1 DEF Exists
  <2>2. ASSUME NEW r \in Requests, Write(r)
        PROVE  (\E id \in IDs : Exists(id))' => HasAdmin'
    <3> DEFINE op == req[r].op
               id == req[r].id
    <3>0. /\ op \in Creation \cup Update \cup Deletion /\ MayWrite(op, id) /\ req[r].pc = "write"
          /\ users \in [IDs -> User \cup {NoOne}] /\ created \in 0 .. MaxID /\ MaxID \in Nat
      BY <2>2, Parameters DEF Inv, Types, Decided, Write
    <3>1. CASE UNCHANGED db
      BY <2>1, <3>1 DEF db
    <3>2. CASE op.do = "create"
                 /\ users' = [users EXCEPT ![NewID] =
                                [name |-> op.name, role |-> op.role, enabled |-> op.enabled, gen |-> 0]]
      <4>1. CASE HasAdmin
        BY <1>2, <4>1
      <4>2. CASE op.role = "admin" /\ op.enabled
        <5>1. NewID \in IDs
          BY <3>0, <3>2 DEF MayWrite, NewID, IDs
        <5>2. users'[NewID] = [name |-> op.name, role |-> op.role, enabled |-> op.enabled, gen |-> 0]
          BY <3>0, <3>2, <5>1, SMTT(60)
        <5>3. [name |-> op.name, role |-> op.role, enabled |-> op.enabled, gen |-> 0] \in User
          BY <3>0, <3>2, Kinds, Parameters, SMTT(60) DEF User
        <5>4. users'[NewID] # NoOne
          BY <5>2, <5>3, Parameters, SMTT(60)
        <5>5. users'[NewID].role = "admin" /\ users'[NewID].enabled
          <6> HIDE DEF op
          <6> QED BY <4>2, <5>2, FieldsOfUser, ZenonT(30)
        <5> QED BY <5>1, <5>4, <5>5 DEF HasAdmin, IsAdmin, Enabled, Exists, NewID
      <4>3. req[r].pc \in {"lock", "write"} /\ req[r].op.do = "create"
        BY <3>0, <3>2
      <4>4. HasAdmin \/ (op.role = "admin" /\ op.enabled)
        BY <1>5, <4>3
      <4> QED BY <4>1, <4>2, <4>4
    <3>3. CASE op.do = "update"
      <4>1. id \in IDs /\ Exists(id)
        BY <3>0, <3>3 DEF MayWrite
      <4> QED BY <1>2, <1>3, <4>1
    <3>4. CASE op.do = "delete" /\ users' = [users EXCEPT ![id] = NoOne]
      <4>1. \A i \in IDs : users'[i] # NoOne => users[i] # NoOne
        BY <3>0, <3>4
      <4> QED BY <1>2, <1>3, <4>1 DEF Exists
    <3> QED BY <2>2, <3>0, <3>1, <3>2, <3>3, <3>4, Kinds, Zenon DEF Write
  <2> QED BY <2>1, <2>2, OnlyWriteWrites
<1>7. cache' # {} => HasAdmin'
  <2>1. cache' \in {cache, Entries, {}}
    <3>1. ASSUME NEW r \in Requests, Step(r) PROVE cache' \in {cache, Entries, {}}
      <4>1. CASE Accept(r) \/ Read(r) \/ Write(r)
        BY <4>1, ZenonT(30) DEF Accept, Read, Write
      <4>2. CASE Reload(r)
        BY <4>2 DEF Reload, Reloaded
      <4>3. ASSUME NEW op \in Ops, Handler(r, op) PROVE cache' = cache
        BY <4>3 DEF Handler
      <4>4. CASE EndSessions(r) \/ DeleteSession(r)
        BY <4>4, ZenonT(30) DEF EndSessions, DeleteSession
      <4>5. CASE Authenticate(r) \/ CreateSession(r)
        BY <4>5, ZenonT(30) DEF Authenticate, CreateSession
      <4> QED BY <3>1, <4>1, <4>2, <4>3, <4>4, <4>5 DEF Step
    <3>2. CASE \E b \in BOOLEAN : SetPassword(b)
      BY <3>2 DEF SetPassword
    <3>3. CASE Restart \/ UNCHANGED vars
      BY <3>3, Zenon DEF Restart, vars
    <3> QED BY <3>1, <3>2, <3>3 DEF Next
  <2>2. Entries # {} => \E id \in IDs : Exists(id)
    BY DEF Entries, Enabled
  <2> QED BY <1>2, <1>3, <1>4, <2>1, <2>2
<1>8. ASSUME NEW r \in Requests, req'[r].pc \in {"lock", "write"}, req'[r].op.do = "create"
      PROVE  HasAdmin' \/ (req'[r].op.role = "admin" /\ req'[r].op.enabled)
  <2>1. CASE req[r].pc \in {"lock", "write"} /\ req'[r].op = req[r].op
    BY <1>2, <1>5, <1>8, <2>1
  <2>2. CASE Handler(r, req'[r].op) /\ Allowed(r, req'[r].op)
    <3> DEFINE op == req'[r].op
    <3>1. op \in Creation
      BY <1>8, <2>2, Kinds, SMTT(60) DEF Allowed, Logout, Ending
    <3>2. MayCreate(r, op)
      BY <1>8, <2>2, <3>1, Kinds, SMTT(60) DEF Allowed, Logout, Ending
    <3>3. CASE cache = {}
      BY <1>1, <3>2, <3>3 DEF MayCreate, Open
    <3>4. CASE cache # {}
      BY <1>2, <1>4, <3>4
    <3> QED BY <3>3, <3>4
  <2> QED BY <1>8, <2>1, <2>2, OpStays, SMTT(60)
<1> QED BY <1>6, <1>7, <1>8, SMTT(60)

-----------------------------------------------------------------------------
\* The invariant holds in every state.
LEMMA Invariant == Spec => []Inv
<1>1. Inv /\ [Next]_vars => Inv'
  BY NextInv
<1> QED BY InitInv, <1>1, PTL DEF Spec

(***************************************************************************)
(* user_update() and user_delete() never take away the last enabled admin, *)
(* however requests interleave and whatever fails.                         *)
(***************************************************************************)
THEOREM LastAdminStays == Spec => AdminStays
<1>1. Inv /\ [Next]_vars => [HasAdmin => HasAdmin']_vars
  BY AdminKept
<1> QED BY <1>1, Invariant, PTL DEF Spec, AdminStays

(***************************************************************************)
(* Whenever users_lock is free and the last reload_cache() succeeded, the  *)
(* cache requests are checked against holds the enabled accounts.          *)
(***************************************************************************)
THEOREM CacheStaysCurrent == Spec => []CacheIsCurrent
<1>1. Inv => CacheIsCurrent
  BY Parameters DEF Inv, Types, CacheRead, HolderWrites, CacheIsCurrent, LockFree
<1> QED BY <1>1, Invariant, PTL

(***************************************************************************)
(* As long as the password of the configuration is not removed: without    *)
(* one, create_user() and the checks of user-table.c leave enabled         *)
(* accounts never without an admin among them.                             *)
(***************************************************************************)
THEOREM SomebodyManages ==
  ASSUME MayClearPassword = FALSE
  PROVE  Spec => []ManagersRemain
<1>1. Inv /\ Managed /\ [Next]_vars => Managed'
  BY NextManaged, Zenon
<1>2. Managed => ManagersRemain
  BY DEF Managed, ManagersRemain, Enabled
<1> QED BY <1>1, <1>2, Invariant, InitManaged, PTL DEF Spec
=============================================================================
