------------------------------ MODULE HostNames ------------------------------
(***************************************************************************)
(* The resolver thread, which looks up the host names of the clients in    *)
(* the table of RecycleTable.  It goes through the IDs, copies what it     *)
(* needs with the SHM lock held, waits for the name without the lock, and  *)
(* stores it with the lock held again, under the same ID.                  *)
(*                                                                         *)
(* Sources: src/src/resolve.c, events.c and the end of _findClientID() in  *)
(* datastructure.c.  A name is represented by the address it belongs to.   *)
(* The upstream servers, which are never recycled, and the alias clients,  *)
(* which are skipped, are left out.                                        *)
(***************************************************************************)
EXTENDS RecycleTable

CONSTANTS
  IPv6,         \* the clients with an IPv6 address
  RefreshNames  \* the values resolver.refreshNames may be given at run time

NoName == "no name"

ASSUME NamesAssumption ==
  /\ IPv6 \subseteq Keys /\ NoName \notin Keys
  /\ RefreshNames \subseteq {"IPV4_ONLY", "ALL", "UNKNOWN", "NONE"}

VARIABLES
  name,    \* per ID: the name in the record
  new,     \* per ID: client->flags.new
  events,  \* the events that are set, in the memory of the main process
  thread   \* the resolver thread and what it remembers while unlocked

table == <<key, refs, lookup, free, size>>
allvars == <<key, refs, lookup, free, size, name, new, events, thread>>

\* onlynew, force: the parameters of resolveClients(); id, upto: its loop.
Thread == [pc : {"check new", "check all", "count", "scan", "resolve", "no socket", "store"},
           onlynew : BOOLEAN, force : BOOLEAN, id : 0 .. MaxIDs, upto : 0 .. MaxIDs,
           ip : Keys \cup {NoKey}, result : Keys \cup {NoName, "failed"}]

NamesInit ==
  /\ Init
  /\ name = [i \in IDs |-> NoName]
  /\ new = [i \in IDs |-> FALSE]
  /\ events = {}
  /\ thread = [pc |-> "check new", onlynew |-> FALSE, force |-> FALSE, id |-> 0,
               upto |-> 0, ip |-> NoKey, result |-> NoName]

-----------------------------------------------------------------------------
(* The table changes *)

\* A client that is not known yet; in a TCP worker, set_event() reaches only
\* the memory of the worker.
ClientArrives(k, tcp) ==
  LET i == NextFreeID(free, size) IN
  /\ FindNew(k, 1)
  /\ name' = [name EXCEPT ![i] = NoName]
  /\ new' = [new EXCEPT ![i] = TRUE]
  /\ events' = IF tcp THEN events ELSE events \cup {"RESOLVE_NEW_HOSTNAMES"}
  /\ UNCHANGED thread

\* The memory of a recycled client is wiped.
ClientsGo(S) ==
  /\ Recycle(S)
  /\ name' = [i \in IDs |-> IF i \in S THEN NoName ELSE name[i]]
  /\ new' = [i \in IDs |-> IF i \in S THEN FALSE ELSE new[i]]
  /\ UNCHANGED <<events, thread>>

QueriesComeAndGo ==
  /\ \/ \E k \in Keys : FindExisting(k, 1)
     \/ \E i \in IDs : Unref(i)
  /\ UNCHANGED <<name, new, events, thread>>

\* The full hour, or the signal that asks for a refresh.
Ask(e) ==
  /\ events' = events \cup {e}
  /\ e \notin events
  /\ UNCHANGED <<table, name, new, thread>>

-----------------------------------------------------------------------------
(* DNSclient_thread() *)

Scan(onlynew, force) ==
  [thread EXCEPT !.pc = "count", !.onlynew = onlynew, !.force = force]

CheckNew ==
  /\ thread.pc = "check new"
  /\ thread' = IF "RESOLVE_NEW_HOSTNAMES" \in events THEN Scan(TRUE, FALSE)
               ELSE [thread EXCEPT !.pc = "check all"]
  /\ events' = events \ {"RESOLVE_NEW_HOSTNAMES"}
  /\ UNCHANGED <<table, name, new>>

CheckAll ==
  /\ thread.pc = "check all"
  /\ thread' = IF events \cap {"RERESOLVE_HOSTNAMES", "RERESOLVE_HOSTNAMES_FORCE"} # {}
               THEN Scan(FALSE, "RERESOLVE_HOSTNAMES_FORCE" \in events)
               ELSE [thread EXCEPT !.pc = "check new"]
  /\ events' = events \ {"RERESOLVE_HOSTNAMES", "RERESOLVE_HOSTNAMES_FORCE"}
  /\ UNCHANGED <<table, name, new>>

-----------------------------------------------------------------------------
(* resolveClients() *)

\* The number of clients is read with the lock held for a moment.
Count ==
  /\ thread.pc = "count"
  /\ thread' = [thread EXCEPT !.pc = "scan", !.id = 0, !.upto = size]
  /\ UNCHANGED <<table, name, new, events>>

NextClient == [thread EXCEPT !.pc = "scan", !.id = @ + 1]

EndOfScan ==
  /\ thread.pc = "scan" /\ thread.id >= thread.upto
  /\ thread' = [thread EXCEPT !.pc = IF thread.onlynew THEN "check all" ELSE "check new"]
  /\ UNCHANGED <<table, name, new, events>>

\* Is client i to be left alone?  recent: it was seen in the last two hours;
\* early: an IPv6 client of which the network table may not know enough yet;
\* refresh: the current value of resolver.refreshNames.
Skipped(i, recent, early, refresh) ==
  LET v6 == key[i] \in IPv6 IN
  \/ key[i] = NoKey
  \/ ~thread.force /\ ~thread.onlynew /\ ~recent
  \/ ~thread.force /\ thread.onlynew /\ ~new[i]
  \/ thread.onlynew /\ new[i] /\ v6 /\ early
  \/ /\ ~thread.onlynew /\ ~(new[i] /\ v6 /\ ~early)
     /\ \/ refresh = "NONE"
        \/ refresh = "IPV4_ONLY" /\ v6
        \/ refresh = "UNKNOWN" /\ name[i] # NoName

Look(recent, early, refresh) ==
  LET i == thread.id IN
  /\ thread.pc = "scan" /\ i < thread.upto
  /\ thread' = IF Skipped(i, recent, early, refresh) THEN NextClient
               ELSE [thread EXCEPT !.pc = "resolve", !.ip = key[i]]
  /\ UNCHANGED <<table, name, new, events>>

\* resolveAndAddHostname(), without the lock: the name, or the empty name where
\* names of such addresses are not wanted, or a failure to find one; without a
\* socket, the thread gives up on the other clients, too.
Resolve ==
  /\ thread.pc = "resolve"
  /\ \/ \E r \in {thread.ip, NoName, "failed"} :
          thread' = [thread EXCEPT !.pc = "store", !.result = r]
     \/ thread' = [thread EXCEPT !.pc = "no socket"]
  /\ UNCHANGED <<table, name, new, events>>

GiveUp ==
  /\ thread.pc = "no socket"
  /\ thread' = [thread EXCEPT !.pc = IF thread.onlynew THEN "check all" ELSE "check new"]
  /\ UNCHANGED <<table, name, new, events>>

\* Mutant: without a name, the client stays new.
Store_KeepsNew ==
  LET i == thread.id IN
  /\ thread.pc = "store"
  /\ IF key[i] = NoKey THEN UNCHANGED <<name, new>>
     ELSE /\ name' = IF thread.result = "failed" THEN name
                     ELSE [name EXCEPT ![i] = thread.result]
          /\ new' = [new EXCEPT ![i] = thread.result = "failed"]
  /\ thread' = NextClient
  /\ UNCHANGED <<table, events>>

\* Mutant: the record is written whatever has become of it.
Store_Unchecked ==
  LET i == thread.id IN
  /\ thread.pc = "store"
  /\ name' = IF thread.result = "failed" THEN name ELSE [name EXCEPT ![i] = thread.result]
  /\ new' = [new EXCEPT ![i] = FALSE]
  /\ thread' = NextClient
  /\ UNCHANGED <<table, events>>

\* The lock is held again and the record fetched by its ID.
Store ==
  LET i == thread.id IN
  /\ thread.pc = "store"
  /\ IF key[i] = NoKey THEN UNCHANGED <<name, new>>
     ELSE /\ name' = IF thread.result = "failed" THEN name
                     ELSE [name EXCEPT ![i] = thread.result]
          /\ new' = [new EXCEPT ![i] = FALSE]
  /\ thread' = NextClient
  /\ UNCHANGED <<table, events>>

Resolver ==
  \/ CheckNew \/ CheckAll \/ Count \/ EndOfScan \/ Resolve \/ GiveUp \/ Store
  \/ \E recent, early \in BOOLEAN, refresh \in RefreshNames : Look(recent, early, refresh)

NamesNext ==
  \/ \E k \in Keys, tcp \in BOOLEAN : ClientArrives(k, tcp)
  \/ \E S \in SUBSET IDs : ClientsGo(S)
  \/ QueriesComeAndGo
  \/ \E e \in {"RERESOLVE_HOSTNAMES", "RERESOLVE_HOSTNAMES_FORCE"} : Ask(e)
  \/ Resolver

\* The thread runs until the program ends.  That it sees the full hour is not
\* certain: it has to look at the clock in that very second.
NamesSpec == NamesInit /\ [][NamesNext]_allvars /\ WF_allvars(Resolver)

-----------------------------------------------------------------------------
\* The shape of the state.
NamesTypeOK ==
  /\ name \in [IDs -> Keys \cup {NoName}] /\ new \in [IDs -> BOOLEAN]
  /\ events \subseteq {"RESOLVE_NEW_HOSTNAMES", "RERESOLVE_HOSTNAMES",
                       "RERESOLVE_HOSTNAMES_FORCE"}
  /\ thread \in Thread

\* A record that is not in use has no name and is not new, so nothing of it
\* reaches the next client that gets the ID: resolveClients() writes to records
\* in use only.
WipedStaysWiped == \A i \in IDs : key[i] = NoKey => name[i] = NoName /\ ~new[i]

\* "we look host names up exactly once (when we first see a client)"
\* (config.c:994): once the event is set, a new IPv4 client does not stay new,
\* unless it is recycled, or no socket can be had.
NewClientsAreResolved ==
  \A k \in Keys \ IPv6, i \in IDs :
    key[i] = k /\ new[i] /\ "RESOLVE_NEW_HOSTNAMES" \in events
      ~> ~(key[i] = k /\ new[i]) \/ thread.pc = "no socket"

\* No "cross-client contamination" (network-table.c:852): the name in the record
\* of a client was looked up for the address of that client.
NameBelongsToClient == \A i \in IDs : key[i] # NoKey => name[i] \in {NoName, key[i]}
==============================================================================
