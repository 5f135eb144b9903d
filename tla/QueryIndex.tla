------------------------------ MODULE QueryIndex ------------------------------
(***************************************************************************)
(* How the hooks find the record of a query.  dnsmasq calls them with its  *)
(* own ID of the query; the record is in an array in shared memory that    *)
(* garbage collection shifts and that is compacted and enlarged whenever   *)
(* somebody takes the lock.  Each process remembers the index of its IDs   *)
(* in a small map of its own: the garbage collector, a thread of the main  *)
(* process, cannot clear the maps of the forked TCP workers.               *)
(*                                                                         *)
(* Sources: src/src/datastructure.c (query_id_map), shmem.c (the array),   *)
(* gc.c, dnsmasq_interface.c (_Lorentz_new_query) and the IDs in dnsmasq.  *)
(* The index of a query counts from the offset, as in getQuery().          *)
(***************************************************************************)
EXTENDS Integers, FiniteSets

CONSTANTS
  Workers,      \* slots for TCP workers
  Imported,     \* number of queries imported at the start
  MapSize,      \* QUERY_ID_MAP_SIZE
  MaxIter,      \* MAXITER: how far the fallback looks back
  Step,         \* by how much the array is enlarged
  TCPQueries,   \* TCP_MAX_QUERIES: queries on one connection
  MaxID         \* bound: IDs dnsmasq hands out

ASSUME IndexAssumption ==
  /\ Imported \in Nat /\ MaxIter \in Nat \ {0} /\ MapSize \in Nat \ {0}
  /\ Step \in Nat \ {0, 1} /\ TCPQueries \in Nat /\ MaxID \in Nat

Main == "main"
Processes == {Main} \cup Workers

VARIABLES
  shm,      \* the array of records, its size and the counters
  map,      \* per process: query_id_map
  log_id,   \* daemon->log_id of the main process
  worker    \* per slot: does it run, its log_id and its query_count

vars == <<shm, map, log_id, worker>>

\* magic: was the record filled in?  ours: by _Lorentz_new_query()?
Record == [magic : BOOLEAN, ours : BOOLEAN, id : Int]
Zero == [magic |-> FALSE, ours |-> FALSE, id |-> 0]
EmptyMap == [slot \in 0 .. MapSize - 1 |-> [id |-> 0, index |-> 0]]
Idle == [runs |-> FALSE, log_id |-> 0, count |-> 0]

\* All imported records have the same ID, the number of records.
Init ==
  /\ shm = [array |-> [i \in 0 .. Imported + Step - 1 |->
                         IF i < Imported
                         THEN [magic |-> TRUE, ours |-> FALSE, id |-> Imported]
                         ELSE Zero],
            max |-> Imported + Step, queries |-> Imported, offset |-> 0]
  /\ map = [p \in Processes |-> EmptyMap]
  /\ log_id = 0
  /\ worker = [w \in Workers |-> Idle]

-----------------------------------------------------------------------------
(* Taking the lock: shm_ensure_size() *)

\* The records move to the front, and as many are wiped behind them as were free
\* before them.
Compact(s) ==
  [array |-> [i \in 0 .. s.max - 1 |->
                CASE i < s.queries -> s.array[s.offset + i]
                  [] i >= s.queries /\ i < s.queries + s.offset -> Zero
                  [] i >= s.queries + s.offset -> s.array[i]],
   max |-> s.max, queries |-> s.queries, offset |-> 0]

Enlarge(s) ==
  [array |-> [i \in 0 .. s.max + Step - 1 |-> IF i < s.max THEN s.array[i] ELSE Zero],
   max |-> s.max + Step, queries |-> s.queries, offset |-> s.offset]

\* Mutant: memory is only looked for once the last record is in use.
Full_Late(s) == s.queries + s.offset >= s.max

\* Is at most one record left?
Full(s) == s.queries + s.offset >= s.max - 1

Compacts(s) == Full(s) /\ s.offset > 0

shm_ensure_size(s) ==
  LET t == IF Compacts(s) THEN Compact(s) ELSE s
  IN IF Full(t) THEN Enlarge(t) ELSE t

\* The compaction clears the map of the process that does it.
MapAfterLock(p) == IF Compacts(shm) THEN [map EXCEPT ![p] = EmptyMap] ELSE map

Runs(p) == p \in Workers => worker[p].runs

Lock(p) ==
  /\ Runs(p) /\ Full(shm)
  /\ shm' = shm_ensure_size(shm)
  /\ map' = MapAfterLock(p)
  /\ UNCHANGED <<log_id, worker>>

-----------------------------------------------------------------------------
(* findQueryID() *)

getQuery(i) == shm.array[shm.offset + i]
HasID(i, id) == getQuery(i).magic /\ getQuery(i).id = id

\* Mutant: the index in the map is not compared with the record.
CachedIndex_Trusted(p, id) ==
  LET entry == map[p][id % MapSize]
  IN IF entry.id = id /\ entry.index < shm.queries /\ getQuery(entry.index).magic
     THEN entry.index ELSE -1

CachedIndex(p, id) ==
  LET entry == map[p][id % MapSize]
  IN IF entry.id = id /\ entry.index < shm.queries /\ HasID(entry.index, id)
     THEN entry.index ELSE -1

\* The fallback looks at index 0 even when there is no query at all.
Window == (IF shm.queries > MaxIter THEN shm.queries - MaxIter ELSE 0)
          .. (IF shm.queries > 0 THEN shm.queries - 1 ELSE 0)

findQueryID(p, id) ==
  LET cached == CachedIndex(p, id)
      found == {i \in Window : HasID(i, id)}
  IN CASE cached # -1 -> cached
       [] cached = -1 /\ found # {} -> CHOOSE i \in found : \A j \in found : j <= i
       [] OTHER -> -1

-----------------------------------------------------------------------------
(* Queries and garbage collection *)

\* A record behind the last one.
AddRecord(s, id) ==
  [array |-> [s.array EXCEPT ![s.offset + s.queries] =
                               [magic |-> TRUE, ours |-> TRUE, id |-> id]],
   max |-> s.max, queries |-> s.queries + 1, offset |-> s.offset]

\* _Lorentz_new_query() in process p.  A query that is ignored, or exceeds the
\* rate limit of its client, is not recorded; its ID is used nevertheless.
NewQuery(p, id) ==
  LET s == shm_ensure_size(shm)
      m == MapAfterLock(p)
  IN \/ /\ shm' = s
        /\ map' = m
     \/ /\ shm' = AddRecord(s, id)
        /\ map' = [m EXCEPT ![p][id % MapSize] = [id |-> id, index |-> s.queries]]

NewUDPQuery ==
  /\ log_id < MaxID
  /\ log_id' = log_id + 1
  /\ NewQuery(Main, log_id')
  /\ UNCHANGED worker

NewTCPQuery(w) ==
  /\ worker[w].runs /\ worker[w].count < TCPQueries
  /\ worker' = [worker EXCEPT ![w].log_id = @ + 1, ![w].count = @ + 1]
  /\ NewQuery(w, -worker'[w].log_id)
  /\ UNCHANGED log_id

\* The worker starts with the memory of the main process, which leaves it as
\* many IDs as it may use.
Fork(w) ==
  /\ ~worker[w].runs /\ log_id + TCPQueries <= MaxID
  /\ worker' = [worker EXCEPT ![w] = [runs |-> TRUE, log_id |-> log_id, count |-> 0]]
  /\ map' = [map EXCEPT ![w] = map[Main]]
  /\ log_id' = log_id + TCPQueries
  /\ UNCHANGED shm

Exit(w) ==
  /\ worker[w].runs
  /\ worker' = [worker EXCEPT ![w] = Idle]
  /\ map' = [map EXCEPT ![w] = EmptyMap]
  /\ UNCHANGED <<shm, log_id>>

\* The oldest n records are dropped; they stay in the array for now.
DropRecords(s, n) ==
  [array |-> s.array, max |-> s.max, queries |-> s.queries - n, offset |-> s.offset + n]

\* runGC() removes the oldest n queries.
GarbageCollect(n) ==
  LET s == shm_ensure_size(shm) IN
  /\ n \in 1 .. s.queries
  /\ shm' = DropRecords(s, n)
  /\ map' = [map EXCEPT ![Main] = EmptyMap]
  /\ UNCHANGED <<log_id, worker>>

Next ==
  \/ \E p \in Processes : Lock(p)
  \/ NewUDPQuery
  \/ \E w \in Workers : NewTCPQuery(w) \/ Fork(w) \/ Exit(w)
  \/ \E n \in 1 .. Imported + MaxID : GarbageCollect(n)

Spec == Init /\ [][Next]_vars

-----------------------------------------------------------------------------
\* The shape of the state.
TypeOK ==
  /\ shm \in [array : [0 .. shm.max - 1 -> Record], max : Nat, queries : Nat, offset : Nat]
  /\ map \in [Processes -> [0 .. MapSize - 1 -> [id : Int, index : Nat]]]
  /\ log_id \in 0 .. MaxID
  /\ worker \in [Workers -> [runs : BOOLEAN, log_id : 0 .. MaxID, count : 0 .. TCPQueries]]

\* There is always a record behind the last one in use: the new query is written
\* within the array, findQueryID() may look at index 0 of an empty one, and the
\* test for `ID > MAXID' in check_range() never meets an index equal to MAXID.
RoomForOneMore == shm.queries + shm.offset < shm.max

\* The record behind the last one in use is empty, whatever garbage collection
\* and compaction have left in the array, so that index 0 of an empty array
\* never passes the test for the magic byte.
NothingBehindTheLast ==
  \A i \in 0 .. shm.max - 1 : i >= shm.offset + shm.queries => shm.array[i] = Zero

\* A hook finds the query it is called for if that is among the last MAXITER:
\* an index in the map of any process that garbage collection has made stale
\* never leads to another query, nor hides the right one.
FindsRecent ==
  \A p \in Processes, i \in Window :
    (Runs(p) /\ i < shm.queries /\ getQuery(i).magic /\ getQuery(i).ours)
      => findQueryID(p, getQuery(i).id) = i

\* "Check UUIDs of queries" (datastructure.c:176): what findQueryID() finds is the
\* query for which dnsmasq has used that ID, and never another one, with one
\* exception: the ID that all imported queries share.
FindsOnlyItsQuery ==
  \A p \in Processes, id \in (-log_id .. log_id) \ {0} :
    LET i == findQueryID(p, id)
    IN Runs(p) /\ i # -1 =>
         /\ i < shm.queries /\ getQuery(i).id = id
         /\ getQuery(i).ours \/ id = Imported
==============================================================================
