------------------------------ MODULE Accounts ------------------------------
(***************************************************************************)
(* The accounts of the API and their sessions: src/database/user-table.c,  *)
(* src/api/users.c, src/api/auth.c, src/database/session-table.c.          *)
(*                                                                         *)
(* Requests are served by the worker threads of the web server.  An        *)
(* account is changed in the steps of user_create(), user_update() and     *)
(* user_delete(): read and decide, write, read the cache again, all with   *)
(* users_lock, and afterwards end its sessions with auth_lock.  A request  *)
(* is checked against the cache, a login reads the database without the    *)
(* lock.  auth_lock is held for one step at a time, and users_lock is the  *)
(* only lock taken while it is held, so it needs no variable.              *)
(*                                                                         *)
(* Passwords are right or wrong and are not modelled; nor are CSRF tokens, *)
(* the two-factor authentication and rate limits, which only refuse.       *)
(***************************************************************************)
EXTENDS Naturals, Sequences, FiniteSets

CONSTANTS
  Names,            \* usernames, normalized
  Requests,         \* worker threads
  NoOne,            \* nobody holds the lock, no account, no value
  MaxID,            \* bound: accounts ever created
  MaxSID,           \* bound: sessions ever created
  MaxGeneration,    \* bound: how often the sessions of an account have to end
  max_sessions,     \* webserver.api.max_sessions
  MaxRestarts,      \* bound: restarts
  MaxServed,        \* bound: requests and logins
  Changes,          \* what a PUT may change
  Faults,           \* statements that may fail
  MayClearPassword  \* may the password of the configuration be removed?

Roles == {"admin", "viewer"}
IDs == 1 .. MaxID
Slots == 0 .. max_sessions - 1
User == [name : Names, role : Roles, enabled : BOOLEAN, gen : 0 .. MaxGeneration]
Change == [name : Names \cup {NoOne}, role : Roles \cup {NoOne},
           enabled : BOOLEAN \cup {NoOne}, password : BOOLEAN]
Session == [sid : 1 .. MaxSID, account : IDs \cup {NoOne}, gen : 0 .. MaxGeneration]

\* What a request asks for.
Creation == [do : {"create"}, name : Names, role : Roles, enabled : BOOLEAN]
Update == [do : {"update"}, name : Names, change : Changes]
Deletion == [do : {"delete"}, name : Names]
Logout == [do : {"logout"}]
Ending == [do : {"end"}, slot : Slots]
Ops == Creation \cup Update \cup Deletion \cup Logout \cup Ending

ASSUME Parameters ==
  /\ NoOne \notin Names /\ NoOne \notin Requests /\ NoOne \notin Roles
  /\ NoOne \notin BOOLEAN /\ NoOne \notin Nat /\ NoOne \notin User /\ NoOne \notin Session
  /\ {MaxID, MaxSID, MaxGeneration, max_sessions, MaxRestarts, MaxServed} \subseteq Nat
  /\ Changes \subseteq Change
  /\ Faults \subseteq {"write", "readback", "reload", "backup", "load", "delete"}
  /\ MayClearPassword \in BOOLEAN

VARIABLES
  users,        \* the table of users
  created,      \* accounts created so far: IDs are not used again
  cache,        \* of the enabled accounts
  users_lock,   \* the request that holds it
  sessions,     \* auth_data
  table,        \* the table of sessions in the database
  password,     \* is webserver.api.pwhash set?
  req,          \* what each request is doing
  sids,         \* sessions created so far
  restarts,     \* restarts so far
  served,       \* requests and logins so far
  stale,        \* history: the cache could not be read after the last change
  undeleted,    \* history: restored sessions could not be deleted from the table
  excused,      \* history: sessions which may outlive the reason for their end
  out           \* history: sessions that were ended

db == <<users, created>>
history == <<stale, undeleted, excused, out>>
vars == <<users, created, cache, users_lock, sessions, table, password, req, sids,
          restarts, served, stale, undeleted, excused, out>>

(* ---- accounts ---- *)

Exists(id) == users[id] # NoOne
Enabled(id) == Exists(id) /\ users[id].enabled
IsAdmin(id) == Enabled(id) /\ users[id].role = "admin"
HasAdmin == \E id \in IDs : IsAdmin(id)
Taken(name) == \E id \in IDs : Exists(id) /\ users[id].name = name

\* What reload_cache() reads.
Entries == {[id |-> id, role |-> users[id].role, name |-> users[id].name] :
            id \in {i \in IDs : Enabled(i)}}

\* mutant: the account itself is counted, too
OtherAdmins_All(id) == {i \in IDs : IsAdmin(i)}

\* count_enabled_admins()
OtherAdmins(id) == {i \in IDs : IsAdmin(i) /\ i # id}

\* The row user_update() writes.  gen counts the reasons to end the sessions of
\* the account: a new password, or that it was disabled.
Changed(u, c) ==
  [name |-> IF c.name = NoOne THEN u.name ELSE c.name,
   role |-> IF c.role = NoOne THEN u.role ELSE c.role,
   enabled |-> IF c.enabled = NoOne THEN u.enabled ELSE c.enabled,
   gen |-> IF c.enabled = FALSE \/ c.password THEN u.gen + 1 ELSE u.gen]

\* May the row of account id become u (NoOne: be deleted)?
KeepsAdmin(id, u) ==
  IsAdmin(id) /\ (IF u = NoOne THEN TRUE ELSE u.role # "admin" \/ ~u.enabled)
    => OtherAdmins(id) # {}

(* ---- requests ---- *)

Idle == [pc |-> "idle", op |-> NoOne, slot |-> NoOne, account |-> NoOne, id |-> NoOne,
         gen |-> 0, self |-> FALSE]

Goto(r, pc) == req' = [req EXCEPT ![r].pc = pc]
Finished(r) == req' = [req EXCEPT ![r] = Idle]

\* An account that is not in the cache is no account (users_enabled_count(),
\* user_cache_lookup()).  Everybody who reads the cache waits for users_lock.
LockFree == users_lock = NoOne
InCache(id) == \E e \in cache : e.id = id
Open == ~password /\ cache = {}

Used(s) == sessions[s] # NoOne

(* ---- accepting a request ---- *)

\* check_client_auth(): the API is open, or the session is known, has not
\* expired, and its account is in the cache.  The request gets a copy.  Time is
\* left out: a session has expired when somebody finds it so.
Accept(r) ==
  /\ req[r].pc = "idle" /\ served < MaxServed /\ served' = served + 1 /\ LockFree
  /\ \/ Open /\ Goto(r, "handler")
     \/ \E s \in Slots :
          /\ ~Open /\ Used(s)
          /\ sessions[s].account # NoOne => InCache(sessions[s].account)
          /\ req' = [req EXCEPT ![r] = [Idle EXCEPT !.pc = "handler", !.slot = s,
                                                   !.account = sessions[s].account]]
  /\ UNCHANGED <<db, cache, users_lock, sessions, table, password, sids, restarts, history>>

(***************************************************************************)
(* api_role_allows() and the checks of the handlers in users.c, which ask  *)
(* the cache for the account and its role.  The reads a handler makes one  *)
(* after the other are one step.                                           *)
(***************************************************************************)
Me(r) == {e \in cache : e.id = req[r].account}
ActsAsAdmin(r) == \A e \in Me(r) : e.role = "admin"
Self(r, name) == \E e \in Me(r) : e.name = name

\* mutant: the first account may have any role
MayCreate_Any(r, op) == ActsAsAdmin(r)

MayCreate(r, op) ==
  /\ ActsAsAdmin(r)
  /\ Open => op.role = "admin" /\ op.enabled

MayUpdate(r, op) ==
  LET c == op.change
      self == Self(r, op.name)
  IN
  /\ self \/ ActsAsAdmin(r)
  /\ ActsAsAdmin(r) \/ (c.role = NoOne /\ c.enabled = NoOne /\ c.name = NoOne)
  /\ ~(self /\ (c.enabled = FALSE \/ (c.role = "viewer" /\ ActsAsAdmin(r))))

MayDelete(r, op) == ActsAsAdmin(r) /\ ~Self(r, op.name)

Allowed(r, op) ==
  \/ op \in Creation /\ MayCreate(r, op)
  \/ op \in Update /\ MayUpdate(r, op)
  \/ op \in Deletion /\ MayDelete(r, op)
  \/ op \in Logout /\ req[r].slot # NoOne
  \/ op \in Ending /\ ActsAsAdmin(r)

\* A request for op; one that is not allowed ends without a change.
Handler(r, op) ==
  /\ req[r].pc = "handler" /\ LockFree
  /\ \/ ~Allowed(r, op) /\ Finished(r)
     \/ /\ Allowed(r, op) /\ op \in Creation \cup Update \cup Deletion
        /\ req' = [req EXCEPT ![r].pc = "lock", ![r].op = op, ![r].self = Self(r, op.name),
                              ![r].account = NoOne]
     \/ Allowed(r, op) /\ op \in Logout /\ Goto(r, "logout")
     \/ Allowed(r, op) /\ op \in Ending /\ req' = [req EXCEPT ![r].pc = "logout", ![r].slot = op.slot]
  /\ UNCHANGED <<db, cache, users_lock, sessions, table, password, sids, restarts, served, history>>

(* ---- changing an account, with users_lock ---- *)

\* read_by_name(), the check for a name that is taken and the check for the last
\* admin.  Nothing is changed and the request ends if one of them says no.
Read(r) ==
  LET op == req[r].op IN
  /\ req[r].pc = "lock" /\ LockFree
  /\ \/ /\ op.do = "create" /\ ~Taken(op.name) /\ created < MaxID
        /\ users_lock' = r /\ Goto(r, "write")
     \/ \E id \in IDs :
          /\ op.do # "create" /\ Exists(id) /\ users[id].name = op.name
          /\ op.do = "update" =>
               /\ Changed(users[id], op.change).gen <= MaxGeneration
               /\ op.change.name \notin {NoOne, op.name} => ~Taken(op.change.name)
          /\ KeepsAdmin(id, IF op.do = "update" THEN Changed(users[id], op.change) ELSE NoOne)
          /\ users_lock' = r /\ req' = [req EXCEPT ![r].pc = "write", ![r].id = id]
     \/ users_lock' = users_lock /\ Finished(r)
  /\ UNCHANGED <<db, cache, sessions, table, password, sids, restarts, served, history>>

\* AUTOINCREMENT
NewID == created + 1

\* INSERT, UPDATE or DELETE.
Write(r) ==
  LET op == req[r].op IN
  /\ req[r].pc = "write"
  /\ \/ /\ CASE op.do = "create" ->
                  /\ created' = created + 1
                  /\ users' = [users EXCEPT ![NewID] =
                                 [name |-> op.name, role |-> op.role, enabled |-> op.enabled, gen |-> 0]]
             [] op.do = "update" ->
                  users' = [users EXCEPT ![req[r].id] = Changed(@, op.change)] /\ created' = created
             [] op.do = "delete" ->
                  users' = [users EXCEPT ![req[r].id] = NoOne] /\ created' = created
        /\ Goto(r, "reload") /\ users_lock' = users_lock
     \/ "write" \in Faults /\ UNCHANGED db /\ Finished(r) /\ users_lock' = NoOne
  /\ UNCHANGED <<cache, sessions, table, password, sids, restarts, served, history>>

\* Do the sessions of the account have to end?
EndsSessions(op, id) ==
  \/ op.do = "delete"
  \/ op.do = "update" /\ (~users[id].enabled \/ op.change.password)

OfAccount(id) == {s \in Slots : Used(s) /\ sessions[s].account = id}

\* mutant: the cache is left alone when an account is deleted
Reloaded_NotDeleted(op) == IF op.do = "delete" THEN cache ELSE Entries

\* The cache after a change.
Reloaded(op) == Entries

\* The account is read once more for the answer, the cache is read again, and
\* the lock is released.  Without the account the handler reports an error, and
\* the sessions are not ended.  The session that asks for a new password of its
\* own account is to stay, which is remembered by its slot.
Reload(r) ==
  LET op == req[r].op
      id == req[r].id
  IN
  /\ req[r].pc = "reload"
  /\ \/ cache' = Reloaded(op) /\ stale' = FALSE
     \/ "reload" \in Faults /\ cache' = cache /\ stale' = TRUE
  /\ users_lock' = NoOne
  /\ \/ /\ excused' = excused
        /\ IF op.do # "create" /\ EndsSessions(op, id)
           THEN req' = [req EXCEPT ![r].pc = "sessions",
                          ![r].slot = IF req[r].self /\ Enabled(id) THEN @ ELSE NoOne]
           ELSE Finished(r)
     \/ /\ "readback" \in Faults /\ op.do # "delete" /\ Finished(r)
        /\ excused' = IF op.do = "update" THEN excused \cup {sessions[s].sid : s \in OfAccount(id)} ELSE excused
  /\ UNCHANGED <<db, sessions, table, password, sids, restarts, served, undeleted, out>>

(* ---- sessions, with auth_lock ---- *)

Sids(S) == {sessions[s].sid : s \in S}
Without(S) == [s \in Slots |-> IF s \in S THEN NoOne ELSE sessions[s]]

\* mutant: the session in the first slot is left out
delete_user_sessions_First(r) == OfAccount(req[r].id) \ {req[r].slot, 0}

\* The slots delete_user_sessions() clears.
delete_user_sessions(r) == OfAccount(req[r].id) \ {req[r].slot}

EndSessions(r) ==
  /\ req[r].pc = "sessions"
  /\ sessions' = Without(delete_user_sessions(r))
  /\ out' = out \cup Sids(delete_user_sessions(r))
  /\ excused' = excused \cup Sids(OfAccount(req[r].id) \cap {req[r].slot})
  /\ Finished(r)
  /\ UNCHANGED <<db, cache, users_lock, table, password, sids, restarts, served, stale, undeleted>>

\* delete_session(): by slot, whatever session it holds now.
DeleteSession(r) ==
  LET slot == req[r].slot IN
  /\ req[r].pc = "logout"
  /\ sessions' = Without({slot})
  /\ out' = out \cup Sids({slot} \cap {s \in Slots : Used(s)})
  /\ Finished(r)
  /\ UNCHANGED <<db, cache, users_lock, table, password, sids, restarts, served, stale, undeleted, excused>>

\* A login: authenticate() reads the account from the database and takes some
\* time to check the password; without a name it is the configured password.
Authenticate(r) ==
  /\ req[r].pc = "idle" /\ served < MaxServed /\ served' = served + 1 /\ sids < MaxSID
  /\ \/ LockFree /\ (password \/ Open) /\ Goto(r, "login")
     \/ \E id \in IDs :
          /\ Enabled(id)
          /\ req' = [req EXCEPT ![r] = [Idle EXCEPT !.pc = "login", !.account = id, !.gen = users[id].gen]]
  /\ UNCHANGED <<db, cache, users_lock, sessions, table, password, sids, restarts, history>>

\* A login gets the first slot that is unused or whose session has expired.
\* There is no session if there is none.
CreateSession(r) ==
  LET id == req[r].account
      late == id # NoOne /\ (IF Exists(id) THEN users[id].gen # req[r].gen ELSE TRUE)
  IN
  /\ req[r].pc = "login" /\ sids < MaxSID
  /\ \/ (\A s \in Slots : Used(s)) /\ UNCHANGED <<sessions, sids, excused, out>>
     \/ \E slot \in Slots :
          /\ \A s \in Slots : s < slot => Used(s)
          /\ sids' = sids + 1
          /\ sessions' = [sessions EXCEPT ![slot] = [sid |-> sids + 1, account |-> id, gen |-> req[r].gen]]
          /\ excused' = IF late THEN excused \cup {sids + 1} ELSE excused
          /\ out' = out \cup Sids({slot} \cap {s \in Slots : Used(s)})
  /\ Finished(r)
  /\ UNCHANGED <<db, cache, users_lock, table, password, restarts, served, stale, undeleted>>

\* The password of the configuration is set or removed: delete_all_sessions().
SetPassword(b) ==
  /\ b # password /\ (b \/ MayClearPassword)
  /\ password' = b
  /\ sessions' = [s \in Slots |-> NoOne]
  /\ out' = out \cup Sids({s \in Slots : Used(s)})
  /\ UNCHANGED <<db, cache, users_lock, table, req, sids, restarts, served, stale, undeleted, excused>>

(* ---- restart ---- *)

\* The sessions in use in the order of their slots.
InOrder == SelectSeq([i \in 1 .. max_sessions |-> sessions[i - 1]], LAMBDA x : x # NoOne)

\* What restore_db_sessions() puts into auth_data: rows whose account is in the
\* cache, as many as there are slots.
Restored(rows, entries) ==
  LET known == SelectSeq(rows, LAMBDA x : x.account # NoOne => \E e \in entries : e.id = x.account)
  IN [s \in Slots |-> IF s < Len(known) THEN known[s + 1] ELSE NoOne]

\* mutant: rows that were restored stay in the table
Kept_All(rows) == rows

\* The rows of the table after they were restored.
Kept(rows) == <<>>

\* The web server has stopped, free_api() stores the sessions (up to one that
\* fails), and the process starts again; or the process dies and starts again.
Restart ==
  /\ restarts < MaxRestarts /\ restarts' = restarts + 1
  /\ \E stored \in 0 .. Len(InOrder), loaded, deleted \in BOOLEAN :
       LET all == table \o SubSeq(InOrder, 1, stored)
           entries == IF loaded THEN Entries ELSE {}
       IN
       /\ \/ stored = 0
          \/ /\ \A r \in Requests : req[r] = Idle
             /\ stored < Len(InOrder) => "backup" \in Faults
       /\ loaded \/ "load" \in Faults
       /\ deleted \/ ("delete" \in Faults /\ all # <<>>)
       /\ cache' = entries /\ stale' = ~loaded
       /\ \E expired \in SUBSET {all[i].sid : i \in DOMAIN all} :
            LET rows == SelectSeq(all, LAMBDA x : x.sid \notin expired) IN
            /\ sessions' = Restored(rows, entries)
            /\ table' = IF deleted THEN Kept(rows) ELSE rows
       /\ undeleted' = (undeleted \/ ~deleted)
  /\ req' = [r \in Requests |-> Idle] /\ users_lock' = NoOne
  /\ UNCHANGED <<db, password, sids, served, excused, out>>

(* ---- specification ---- *)

Init ==
  /\ users \in [IDs -> {NoOne} \cup [name : Names, role : Roles, enabled : BOOLEAN, gen : {0}]]
  /\ created \in 0 .. MaxID /\ \A id \in IDs : Exists(id) <=> id <= created
  /\ \A i, j \in IDs : Exists(i) /\ Exists(j) /\ users[i].name = users[j].name => i = j
  /\ created > 0 => HasAdmin
  /\ cache = Entries /\ users_lock = NoOne
  /\ sessions = [s \in Slots |-> NoOne] /\ table = <<>>
  /\ password \in BOOLEAN
  /\ req = [r \in Requests |-> Idle]
  /\ sids = 0 /\ restarts = 0 /\ served = 0
  /\ stale = FALSE /\ undeleted = FALSE /\ excused = {} /\ out = {}

Step(r) ==
  \/ Accept(r)
  \/ \E op \in Ops : Handler(r, op)
  \/ Read(r)
  \/ Write(r)
  \/ Reload(r)
  \/ EndSessions(r)
  \/ DeleteSession(r)
  \/ Authenticate(r)
  \/ CreateSession(r)

Next ==
  \/ \E r \in Requests : Step(r)
  \/ \E b \in BOOLEAN : SetPassword(b)
  \/ Restart

Spec == Init /\ [][Next]_vars

(* ---- properties ---- *)

TypeOK ==
  /\ users \in [IDs -> User \cup {NoOne}] /\ created \in 0 .. MaxID
  /\ \A id \in IDs : Exists(id) => id <= created
  /\ cache \subseteq [id : IDs, role : Roles, name : Names]
  /\ users_lock \in Requests \cup {NoOne}
  /\ sessions \in [Slots -> Session \cup {NoOne}] /\ table \in Seq(Session)
  /\ password \in BOOLEAN /\ sids \in 0 .. MaxSID /\ restarts \in 0 .. MaxRestarts /\ served \in 0 .. MaxServed
  /\ req \in [Requests -> [pc : {"idle", "handler", "lock", "write", "reload", "sessions", "logout", "login"},
                           op : Ops \cup {NoOne}, slot : Slots \cup {NoOne},
                           account : IDs \cup {NoOne}, id : IDs \cup {NoOne},
                           gen : 0 .. MaxGeneration, self : BOOLEAN]]
  /\ stale \in BOOLEAN /\ undeleted \in BOOLEAN
  /\ excused \subseteq 1 .. sids /\ out \subseteq 1 .. sids

(***************************************************************************)
(* The last enabled admin stays: whatever requests to demote, disable,     *)
(* rename or delete accounts interleave, and whatever statement fails, no  *)
(* step leaves a database with an enabled admin without one                *)
(* (user_update(), user_delete()).                                         *)
(***************************************************************************)
AdminStays == [][HasAdmin => HasAdmin']_vars

(***************************************************************************)
(* Somebody can manage the accounts: when the configuration has no         *)
(* password, there are no enabled accounts (and the API is open) or one of *)
(* them is an admin (create_user()).                                       *)
(***************************************************************************)
ManagersRemain == ~password /\ (\E id \in IDs : Enabled(id)) => HasAdmin

(***************************************************************************)
(* The cache every request is checked against is the set of the enabled    *)
(* accounts whenever the lock is free, unless it could not be read after   *)
(* the last change (reload_cache(), user_cache_lookup()).                  *)
(***************************************************************************)
CacheIsCurrent == LockFree /\ ~stale => cache = Entries

\* An account whose sessions a request is about to end.
BeingEnded(id) == \E r \in Requests : req[r].pc \in {"reload", "sessions"} /\ req[r].id = id

(***************************************************************************)
(* A session ends with what it was created for: once a request that        *)
(* disables or deletes an account or changes its password is over, the     *)
(* sessions from before are gone, also after restarts.  Excused are the    *)
(* session that asked for its own new password, a login that overlaps with *)
(* the change, and a request that could not read the account back          *)
(* (update_user(), delete_user(), delete_user_sessions()).                 *)
(***************************************************************************)
SessionsEnd ==
  \A s \in Slots : Used(s) /\ sessions[s].account # NoOne /\ sessions[s].sid \notin excused /\ ~undeleted =>
    LET id == sessions[s].account IN
    (IF Exists(id) THEN users[id].gen = sessions[s].gen ELSE FALSE) \/ BeingEnded(id)

(***************************************************************************)
(* A session that was ended never comes back, and no two slots hold the    *)
(* same session, through any number of restarts - as long as the rows that *)
(* were restored could be deleted (backup_db_sessions(),                   *)
(* restore_db_sessions()).                                                 *)
(***************************************************************************)
EndedStaysEnded ==
  ~undeleted =>
    /\ \A s \in Slots : Used(s) => sessions[s].sid \notin out
    /\ \A s, t \in Slots : Used(s) /\ Used(t) /\ sessions[s].sid = sessions[t].sid => s = t
=============================================================================
