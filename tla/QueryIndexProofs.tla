--------------------------- MODULE QueryIndexProofs ---------------------------
(***************************************************************************)
(* For any number of TCP workers and of imported queries, any size of the  *)
(* maps, and any growth of the array: the array always has room for one    *)
(* more record, nothing is left behind its last record, and the hooks find *)
(* every recent query.                                                     *)
(***************************************************************************)
EXTENDS QueryIndex, WellFoundedInduction, TLAPS

\* What the array guarantees: TypeOK, RoomForOneMore and NothingBehindTheLast
\* for the array in s.
ArrayInv(s) ==
  /\ s \in [array : [0 .. s.max - 1 -> Record], max : Nat, queries : Nat, offset : Nat]
  /\ s.queries + s.offset < s.max
  /\ \A i \in 0 .. s.max - 1 : i >= s.offset + s.queries => s.array[i] = Zero

At(s, i) == s.array[s.offset + i]

Indices(s) == 0 .. s.queries - 1

LEMMA ZeroIsRecord == Zero \in Record
BY DEF Zero, Record

LEMMA CompactArray ==
  ASSUME NEW s, ArrayInv(s)
  PROVE  /\ ArrayInv(Compact(s))
         /\ Compact(s).queries = s.queries /\ Compact(s).max = s.max /\ Compact(s).offset = 0
         /\ \A i \in Indices(s) : At(Compact(s), i) = At(s, i)
<1> DEFINE t == Compact(s)
           a == [i \in 0 .. s.max - 1 |-> IF i < s.queries THEN s.array[s.offset + i] ELSE Zero]
<1>1. /\ s \in [array : [0 .. s.max - 1 -> Record], max : Nat, queries : Nat, offset : Nat]
      /\ s.queries + s.offset < s.max
      /\ s.max \in Nat /\ s.queries \in Nat /\ s.offset \in Nat
      /\ s.array \in [0 .. s.max - 1 -> Record]
  BY DEF ArrayInv
<1>2. t.array = a /\ t.max = s.max /\ t.queries = s.queries /\ t.offset = 0
      /\ t = [array |-> t.array, max |-> t.max, queries |-> t.queries, offset |-> t.offset]
  <2> DEFINE b == [i \in 0 .. s.max - 1 |->
                     CASE i < s.queries -> s.array[s.offset + i]
                       [] i >= s.queries /\ i < s.queries + s.offset -> Zero
                       [] i >= s.queries + s.offset -> s.array[i]]
  <2>1. t = [array |-> b, max |-> s.max, queries |-> s.queries, offset |-> 0]
    BY DEF Compact
  <2>2. ASSUME NEW i \in 0 .. s.max - 1 PROVE b[i] = a[i]
    <3>1. i >= s.queries + s.offset => s.array[i] = Zero
      BY <1>1 DEF ArrayInv
    <3>2. QED
      BY <1>1, <3>1
  <2>3. b = a
    BY <2>2, Zenon
  <2> HIDE DEF a, b, t
  <2>4. QED
    BY <2>1, <2>3
<1>3. a \in [0 .. s.max - 1 -> Record]
  BY <1>1, ZeroIsRecord
<1>4. t \in [array : [0 .. s.max - 1 -> Record], max : Nat, queries : Nat, offset : Nat]
  <2> HIDE DEF a, t
  <2>1. QED
    BY <1>1, <1>2, <1>3
<1>5. \A i \in 0 .. s.max - 1 : i >= s.queries => a[i] = Zero
  BY <1>1
<1>6. \A i \in Indices(s) : a[0 + i] = s.array[s.offset + i]
  BY <1>1 DEF Indices
<1> HIDE DEF t, a
<1>7. ArrayInv(t)
  BY <1>1, <1>2, <1>4, <1>5 DEF ArrayInv
<1>8. QED
  BY <1>2, <1>6, <1>7 DEF t, At

LEMMA EnlargeArray ==
  ASSUME NEW s, ArrayInv(s)
  PROVE  /\ ArrayInv(Enlarge(s))
         /\ Enlarge(s).queries = s.queries /\ Enlarge(s).offset = s.offset
         /\ Enlarge(s).max = s.max + Step
         /\ \A i \in Indices(s) : At(Enlarge(s), i) = At(s, i)
<1> DEFINE t == Enlarge(s)
           a == [i \in 0 .. s.max + Step - 1 |-> IF i < s.max THEN s.array[i] ELSE Zero]
<1>1. /\ s \in [array : [0 .. s.max - 1 -> Record], max : Nat, queries : Nat, offset : Nat]
      /\ s.queries + s.offset < s.max /\ Step \in Nat
      /\ s.max \in Nat /\ s.queries \in Nat /\ s.offset \in Nat
      /\ s.array \in [0 .. s.max - 1 -> Record]
      /\ \A i \in 0 .. s.max - 1 : i >= s.offset + s.queries => s.array[i] = Zero
  BY IndexAssumption DEF ArrayInv
<1>2. t.array = a /\ t.max = s.max + Step /\ t.queries = s.queries /\ t.offset = s.offset
  BY <1>1 DEF Enlarge
<1>3. a \in [0 .. s.max + Step - 1 -> Record]
  BY <1>1, ZeroIsRecord
<1>4. t \in [array : [0 .. s.max + Step - 1 -> Record], max : Nat, queries : Nat, offset : Nat]
  BY <1>1, <1>3 DEF Enlarge
<1>5. \A i \in 0 .. s.max + Step - 1 : i >= s.offset + s.queries => a[i] = Zero
  BY <1>1
<1>6. \A i \in Indices(s) : a[s.offset + i] = s.array[s.offset + i]
  BY <1>1 DEF Indices
<1> HIDE DEF t, a
<1>7. ArrayInv(t)
  BY <1>1, <1>2, <1>4, <1>5 DEF ArrayInv
<1>8. QED
  BY <1>2, <1>6, <1>7 DEF t, At

\* Taking the lock moves the records, changes none, and leaves room for two.
LEMMA LockKeepsRecords ==
  ASSUME NEW s, ArrayInv(s)
  PROVE  LET t == shm_ensure_size(s) IN
         /\ ArrayInv(t) /\ t.queries = s.queries
         /\ t.queries + t.offset < t.max - 1
         /\ \A i \in Indices(s) : At(t, i) = At(s, i)
<1> DEFINE c == IF Compacts(s) THEN Compact(s) ELSE s
           t == IF Full(c) THEN Enlarge(c) ELSE c
<1>1. ArrayInv(c) /\ c.queries = s.queries /\ \A i \in Indices(s) : At(c, i) = At(s, i)
  BY CompactArray
<1>2. Indices(c) = Indices(s)
  BY <1>1 DEF Indices
<1>3. /\ c.queries \in Nat /\ c.offset \in Nat /\ c.max \in Nat /\ Step \in Nat /\ Step > 1
      /\ c.queries + c.offset < c.max
  BY <1>1, IndexAssumption DEF ArrayInv
<1> HIDE DEF c
<1>4. /\ ArrayInv(t) /\ t.queries = c.queries /\ \A i \in Indices(c) : At(t, i) = At(c, i)
      /\ t.offset = c.offset /\ t.max = (IF Full(c) THEN c.max + Step ELSE c.max)
  BY <1>1, EnlargeArray
<1>5. t.queries + t.offset < t.max - 1
  BY <1>3, <1>4 DEF Full
<1>6. shm_ensure_size(s) = t
  BY DEF shm_ensure_size, c
<1> HIDE DEF t
<1>7. QED
  BY <1>1, <1>2, <1>4, <1>5, <1>6

\* A new record changes no other one.
LEMMA AddKeepsRecords ==
  ASSUME NEW s, ArrayInv(s), s.queries + s.offset < s.max - 1, NEW id \in Int
  PROVE  /\ ArrayInv(AddRecord(s, id)) /\ AddRecord(s, id).queries = s.queries + 1
         /\ \A i \in Indices(s) : At(AddRecord(s, id), i) = At(s, i)
         /\ At(AddRecord(s, id), s.queries) = [magic |-> TRUE, ours |-> TRUE, id |-> id]
<1> DEFINE t == AddRecord(s, id)
           r == [magic |-> TRUE, ours |-> TRUE, id |-> id]
           a == [s.array EXCEPT ![s.offset + s.queries] = r]
<1>1. /\ s \in [array : [0 .. s.max - 1 -> Record], max : Nat, queries : Nat, offset : Nat]
      /\ s.max \in Nat /\ s.queries \in Nat /\ s.offset \in Nat
      /\ s.array \in [0 .. s.max - 1 -> Record]
      /\ \A i \in 0 .. s.max - 1 : i >= s.offset + s.queries => s.array[i] = Zero
  BY DEF ArrayInv
<1>2. r \in Record
  BY DEF Record
<1>3. /\ a \in [0 .. s.max - 1 -> Record] /\ a[s.offset + s.queries] = r
      /\ \A i \in 0 .. s.max - 1 : i # s.offset + s.queries => a[i] = s.array[i]
  <2> HIDE DEF r
  <2> QED BY <1>1, <1>2
<1>4. t.array = a /\ t.max = s.max /\ t.queries = s.queries + 1 /\ t.offset = s.offset
  BY DEF AddRecord
<1>5. t \in [array : [0 .. s.max - 1 -> Record], max : Nat, queries : Nat, offset : Nat]
  BY <1>1, <1>3 DEF AddRecord
<1> HIDE DEF t, a, r
<1>6. ArrayInv(t)
  BY <1>1, <1>3, <1>4, <1>5 DEF ArrayInv
<1>7. \A i \in Indices(s) : At(t, i) = At(s, i)
  BY <1>1, <1>3, <1>4 DEF At, Indices
<1>8. QED
  BY <1>3, <1>4, <1>6, <1>7 DEF t, r, At

\* Dropping records shifts the indices of the others.
LEMMA DropKeepsRecords ==
  ASSUME NEW s, ArrayInv(s), NEW n \in 1 .. s.queries
  PROVE  /\ ArrayInv(DropRecords(s, n)) /\ DropRecords(s, n).queries = s.queries - n
         /\ \A i \in Indices(DropRecords(s, n)) : At(DropRecords(s, n), i) = At(s, i + n)
<1> DEFINE t == DropRecords(s, n)
<1>1. /\ s \in [array : [0 .. s.max - 1 -> Record], max : Nat, queries : Nat, offset : Nat]
      /\ s.max \in Nat /\ s.queries \in Nat /\ s.offset \in Nat /\ n \in Nat /\ n <= s.queries
      /\ s.queries + s.offset < s.max
      /\ \A i \in 0 .. s.max - 1 : i >= s.offset + s.queries => s.array[i] = Zero
  BY DEF ArrayInv
<1>2. t.array = s.array /\ t.max = s.max /\ t.queries = s.queries - n /\ t.offset = s.offset + n
  BY DEF DropRecords
<1>3. t \in [array : [0 .. s.max - 1 -> Record], max : Nat, queries : Nat, offset : Nat]
  BY <1>1 DEF DropRecords
<1> HIDE DEF t
<1>4. ArrayInv(t)
  BY <1>1, <1>2, <1>3 DEF ArrayInv
<1>5. \A i \in Indices(t) : At(t, i) = At(s, i + n)
  <2>1. TAKE i \in Indices(t)
  <2>2. s.offset + n + i = s.offset + (i + n)
    BY <1>1, <1>2 DEF Indices
  <2>3. QED
    BY <1>2, <2>2 DEF At
<1>6. QED
  BY <1>2, <1>4, <1>5 DEF t

-----------------------------------------------------------------------------
(* The inductive invariant *)

Slots == 0 .. MapSize - 1
MapType == [Processes -> [Slots -> [id : Int, index : Nat]]]
WorkerType == [Workers -> [runs : BOOLEAN, log_id : 0 .. MaxID, count : 0 .. TCPQueries]]

\* The records in use: imported ones first, with one ID; ours have different IDs.
RecordsInv(s) ==
  /\ \A i \in Indices(s) : At(s, i).magic
  /\ \A i, j \in Indices(s) : i <= j /\ At(s, i).ours => At(s, j).ours
  /\ \A i, j \in Indices(s) : At(s, i).ours /\ At(s, j).ours /\ At(s, i).id = At(s, j).id => i = j
  /\ \A i \in Indices(s) : At(s, i).ours \/ At(s, i).id = Imported

\* The last ID that worker w may use.
Last(k, w) == k[w].log_id + TCPQueries - k[w].count

\* The IDs in use are IDs that were handed out, and none that a worker may use
\* in the future.
UsedInv(s, n, k) ==
  \A i \in Indices(s) : At(s, i).ours =>
    /\ At(s, i).id # 0 /\ At(s, i).id <= n /\ -At(s, i).id <= n
    /\ \A w \in Workers : k[w].runs =>
         ~(k[w].log_id < -At(s, i).id /\ -At(s, i).id <= Last(k, w))

\* The IDs that are left to the workers are different ones.
WorkersInv(n, k) ==
  /\ \A w \in Workers : k[w].runs => Last(k, w) <= n
  /\ \A v, w \in Workers :
       k[v].runs /\ k[w].runs /\ v # w =>
         Last(k, v) <= k[w].log_id \/ Last(k, w) <= k[v].log_id

\* An index in a map may be stale, but from there on all records are ours.
MapsInv(s, m) ==
  \A p \in Processes, k \in Slots :
    m[p][k].id # 0 => \A j \in Indices(s) : j >= m[p][k].index => At(s, j).ours

Inv ==
  /\ ArrayInv(shm)
  /\ map \in MapType /\ log_id \in 0 .. MaxID /\ worker \in WorkerType
  /\ RecordsInv(shm) /\ UsedInv(shm, log_id, worker)
  /\ WorkersInv(log_id, worker) /\ MapsInv(shm, map)

LEMMA Constants ==
  /\ MapSize \in Nat /\ MapSize > 0 /\ MaxIter \in Nat /\ MaxIter > 0
  /\ TCPQueries \in Nat /\ MaxID \in Nat /\ Imported \in Nat
  /\ Step \in Nat /\ Step > 1 /\ Main \in Processes /\ Workers \subseteq Processes
BY IndexAssumption DEF Processes

LEMMA SlotInRange == \A id \in Int : id % MapSize \in Slots
BY Constants DEF Slots

\* An array with the same records satisfies the same conditions.
LEMMA SameRecords ==
  ASSUME NEW s, NEW t, t.queries = s.queries, \A i \in Indices(s) : At(t, i) = At(s, i),
         NEW m, NEW n, NEW k
  PROVE  /\ RecordsInv(s) => RecordsInv(t)
         /\ UsedInv(s, n, k) => UsedInv(t, n, k)
         /\ MapsInv(s, m) => MapsInv(t, m)
<1>1. Indices(t) = Indices(s)
  BY DEF Indices
<1>2. QED
  BY <1>1 DEF RecordsInv, UsedInv, MapsInv

LEMMA EmptyMapType == EmptyMap \in [Slots -> [id : Int, index : Nat]]
BY DEF EmptyMap, Slots

\* A map that is cleared satisfies everything.
LEMMA ClearMap ==
  ASSUME NEW s, NEW m \in MapType, MapsInv(s, m), NEW p \in Processes
  PROVE  /\ [m EXCEPT ![p] = EmptyMap] \in MapType
         /\ MapsInv(s, [m EXCEPT ![p] = EmptyMap])
<1> DEFINE m2 == [m EXCEPT ![p] = EmptyMap]
<1>1. m2 \in MapType /\ m2[p] = EmptyMap /\ \A q \in Processes : q # p => m2[q] = m[q]
  BY EmptyMapType DEF MapType
<1> HIDE DEF m2
<1>2. \A k \in Slots : EmptyMap[k].id = 0
  BY DEF EmptyMap, Slots
<1>3. MapsInv(s, m2)
  BY <1>1, <1>2 DEF MapsInv
<1>4. QED
  BY <1>1, <1>3 DEF m2

LEMMA InitInv == Init => Inv
<1>1. SUFFICES ASSUME Init PROVE Inv
  OBVIOUS
<1> DEFINE r == [magic |-> TRUE, ours |-> FALSE, id |-> Imported]
           a == [i \in 0 .. Imported + Step - 1 |-> IF i < Imported THEN r ELSE Zero]
<1>2. shm = [array |-> a, max |-> Imported + Step, queries |-> Imported, offset |-> 0]
  BY <1>1 DEF Init
<1>3. r \in Record /\ ~r.ours /\ r.magic /\ r.id = Imported
  BY Constants DEF Record
<1> HIDE DEF r
<1>4. /\ a \in [0 .. Imported + Step - 1 -> Record]
      /\ \A i \in 0 .. Imported + Step - 1 : i >= Imported => a[i] = Zero
      /\ \A i \in 0 .. Imported - 1 : a[i] = r
  BY <1>3, Constants, ZeroIsRecord
<1> HIDE DEF a
<1>5. ArrayInv(shm)
  BY <1>2, <1>4, Constants DEF ArrayInv
<1>6. \A i \in Indices(shm) : At(shm, i) = r
  BY <1>2, <1>4, Constants DEF Indices, At
<1>7. RecordsInv(shm) /\ UsedInv(shm, log_id, worker)
  BY <1>3, <1>6 DEF RecordsInv, UsedInv
<1>8. map \in MapType /\ MapsInv(shm, map)
  <2>1. \A p \in Processes, k \in Slots : map[p][k].id = 0
    BY <1>1 DEF Init, EmptyMap, Slots
  <2>2. map \in MapType
    BY <1>1, EmptyMapType DEF Init, MapType
  <2>3. QED
    BY <2>1, <2>2 DEF MapsInv
<1>9. log_id \in 0 .. MaxID /\ worker \in WorkerType /\ WorkersInv(log_id, worker)
  BY <1>1, Constants DEF Init, Idle, WorkerType, WorkersInv
<1>10. QED
  BY <1>5, <1>7, <1>8, <1>9 DEF Inv

\* The records that getQuery() returns have an ID.
LEMMA IDsAreInts ==
  ASSUME Inv, NEW i \in Indices(shm)
  PROVE  At(shm, i).id \in Int
<1>1. ArrayInv(shm)
  BY DEF Inv
<1>2. /\ shm.array \in [0..(shm.max - 1) -> Record]
      /\ shm.max \in Nat /\ shm.queries \in Nat /\ shm.offset \in Nat
      /\ shm.queries + shm.offset < shm.max
  BY <1>1 DEF ArrayInv
<1>3. shm.offset + i \in 0..(shm.max - 1)
  BY <1>2 DEF Indices
<1>4. At(shm, i) \in Record
  BY <1>2, <1>3 DEF At
<1>5. QED
  BY <1>4 DEF Record

\* What taking the lock leaves behind.
LEMMA AfterLock ==
  ASSUME Inv, NEW p \in Processes
  PROVE  LET s == shm_ensure_size(shm)
             m == MapAfterLock(p)
         IN /\ ArrayInv(s) /\ s.queries + s.offset < s.max - 1
            /\ m \in MapType /\ RecordsInv(s) /\ UsedInv(s, log_id, worker) /\ MapsInv(s, m)
            /\ s.queries = shm.queries
            /\ \A n, k : UsedInv(shm, n, k) => UsedInv(s, n, k)
<1> DEFINE s == shm_ensure_size(shm)
           m == MapAfterLock(p)
<1>1. /\ ArrayInv(s) /\ s.queries = shm.queries /\ s.queries + s.offset < s.max - 1
      /\ \A i \in Indices(shm) : At(s, i) = At(shm, i)
  BY LockKeepsRecords DEF Inv
<1>2. m \in MapType /\ MapsInv(shm, m)
  BY ClearMap DEF Inv, MapAfterLock
<1> HIDE DEF s, m
<1>3. RecordsInv(s) /\ UsedInv(s, log_id, worker) /\ MapsInv(s, m)
  BY <1>1, <1>2, SameRecords DEF Inv
<1>4. \A n, k : UsedInv(shm, n, k) => UsedInv(s, n, k)
  BY <1>1, SameRecords
<1>5. QED
  BY <1>1, <1>2, <1>3, <1>4 DEF s, m

\* A new query in process p, with an ID that no record has and no worker may
\* use any more; n and k are the IDs after it.
LEMMA NewQueryInv ==
  ASSUME Inv, NEW p \in Processes, NEW id \in Int, NewQuery(p, id),
         NEW n \in Nat, NEW k,
         UsedInv(shm, n, k),
         id # 0, id <= n, -id <= n,
         \A w \in Workers : k[w].runs => ~(k[w].log_id < -id /\ -id <= Last(k, w)),
         \A i \in Indices(shm) : At(shm, i).ours => At(shm, i).id # id
  PROVE  ArrayInv(shm') /\ map' \in MapType /\ RecordsInv(shm') /\ UsedInv(shm', n, k)
         /\ MapsInv(shm', map')
<1> DEFINE s == shm_ensure_size(shm)
           m == MapAfterLock(p)
<1>1. /\ ArrayInv(s) /\ s.queries + s.offset < s.max - 1
      /\ m \in MapType /\ RecordsInv(s) /\ UsedInv(s, n, k) /\ MapsInv(s, m)
      /\ s.queries = shm.queries
  BY AfterLock
<1>2. \A i \in Indices(shm) : At(s, i) = At(shm, i)
  BY LockKeepsRecords DEF Inv
<1>3. CASE shm' = s /\ map' = m
  BY <1>1, <1>3
<1>4. CASE /\ shm' = AddRecord(s, id)
           /\ map' = [m EXCEPT ![p][id % MapSize] = [id |-> id, index |-> s.queries]]
  <2> HIDE DEF s, m
  <2> DEFINE slot == id % MapSize
             e == [id |-> id, index |-> s.queries]
             r == [magic |-> TRUE, ours |-> TRUE, id |-> id]
  <2>1. /\ ArrayInv(shm') /\ shm'.queries = s.queries + 1
        /\ \A i \in Indices(s) : At(shm', i) = At(s, i)
        /\ At(shm', s.queries) = r
    BY <1>1, <1>4, AddKeepsRecords
  <2>2. s.queries \in Nat /\ Indices(shm') = Indices(s) \cup {s.queries}
    <3>1. s.queries \in Nat
      BY <1>1 DEF ArrayInv
    <3>2. shm'.queries = s.queries + 1
      BY <2>1
    <3>3. QED
      BY <3>1, <3>2, SMTT(30) DEF Indices
  <2>3. \A i \in Indices(s) : i \in Nat /\ i < s.queries
    BY <2>2 DEF Indices
  <2>4. \A i \in Indices(s) : At(s, i).ours => At(s, i).id # id
    BY <1>1, <1>2 DEF Indices
  <2>5. r.magic /\ r.ours /\ r.id = id
    OBVIOUS
  <2>6. slot \in Slots /\ e \in [id : Int, index : Nat] /\ e.index = s.queries
    BY <2>2, SlotInRange
  <2>7. map' = [m EXCEPT ![p][slot] = e]
    BY <1>4
  <2> HIDE DEF r, e, slot
  <2>8. RecordsInv(shm')
    <3>1. \A i \in Indices(shm') : At(shm', i).magic
      BY <1>1, <2>1, <2>2, <2>5 DEF RecordsInv
    <3>2. \A i, j \in Indices(shm') : i <= j /\ At(shm', i).ours => At(shm', j).ours
      BY <1>1, <2>1, <2>2, <2>3, <2>5 DEF RecordsInv
    <3>3. \A i, j \in Indices(shm') :
            At(shm', i).ours /\ At(shm', j).ours /\ At(shm', i).id = At(shm', j).id => i = j
      BY <1>1, <2>1, <2>2, <2>3, <2>4, <2>5 DEF RecordsInv
    <3>4. \A i \in Indices(shm') : At(shm', i).ours \/ At(shm', i).id = Imported
      BY <1>1, <2>1, <2>2, <2>5 DEF RecordsInv
    <3>5. QED
      BY <3>1, <3>2, <3>3, <3>4 DEF RecordsInv
  <2>9. UsedInv(shm', n, k)
    BY <1>1, <2>1, <2>2, <2>5 DEF UsedInv
  <2>10. /\ map' \in MapType /\ map'[p][slot] = e
         /\ \A q \in Processes, l \in Slots : q # p \/ l # slot => map'[q][l] = m[q][l]
    BY <1>1, <2>6, <2>7 DEF MapType
  <2>11. MapsInv(shm', map')
    <3>1. SUFFICES ASSUME NEW q \in Processes, NEW l \in Slots, map'[q][l].id # 0,
                          NEW j \in Indices(shm'), j >= map'[q][l].index
                   PROVE  At(shm', j).ours
      BY DEF MapsInv
    <3>2. CASE j = s.queries
      BY <2>1, <2>5, <3>2
    <3>3. CASE j \in Indices(s)
      <4>1. q # p \/ l # slot
        BY <2>3, <2>6, <2>10, <3>1, <3>3
      <4>2. At(s, j).ours
        BY <1>1, <2>10, <3>1, <3>3, <4>1 DEF MapsInv
      <4>3. QED
        BY <2>1, <3>3, <4>2
    <3>4. QED
      BY <2>2, <3>2, <3>3
  <2>12. QED
    BY <2>1, <2>8, <2>9, <2>10, <2>11
<1>5. QED
  BY <1>3, <1>4 DEF NewQuery

LEMMA NewUDPQueryInv ==
  ASSUME Inv, NewUDPQuery
  PROVE  Inv'
<1>1. /\ log_id \in Nat /\ log_id' = log_id + 1 /\ log_id' \in 0 .. MaxID
      /\ worker' = worker /\ NewQuery(Main, log_id') /\ worker \in WorkerType
  BY Constants DEF NewUDPQuery, Inv
<1>2. \A i \in Indices(shm) : At(shm, i).id \in Int
  BY IDsAreInts
<1>3. UsedInv(shm, log_id', worker)
  BY <1>1, <1>2 DEF Inv, UsedInv
<1>4. \A i \in Indices(shm) : At(shm, i).ours => At(shm, i).id # log_id'
  BY <1>1, <1>2 DEF Inv, UsedInv
<1>5. \A w \in Workers : worker[w].log_id \in Nat /\ ~(worker[w].log_id < -log_id')
  BY <1>1, Constants DEF WorkerType
<1>6. ArrayInv(shm') /\ map' \in MapType /\ RecordsInv(shm') /\ UsedInv(shm', log_id', worker)
      /\ MapsInv(shm', map')
  BY <1>1, <1>3, <1>4, <1>5, NewQueryInv, Constants
<1>7. WorkersInv(log_id', worker)
  BY <1>1, Constants DEF Inv, WorkersInv, Last, WorkerType
<1>8. QED
  BY <1>1, <1>6, <1>7 DEF Inv

LEMMA NewTCPQueryInv ==
  ASSUME Inv, NEW w \in Workers, NewTCPQuery(w)
  PROVE  Inv'
<1> DEFINE id == -worker'[w].log_id
<1>1. /\ log_id \in Nat /\ log_id \in 0 .. MaxID /\ log_id' = log_id /\ worker \in WorkerType
      /\ worker[w].runs /\ worker[w].count < TCPQueries /\ NewQuery(w, id)
      /\ worker' = [worker EXCEPT ![w].log_id = @ + 1, ![w].count = @ + 1]
  BY Constants DEF NewTCPQuery, Inv
<1>2. /\ \A v \in Workers : /\ worker[v].runs \in BOOLEAN
                            /\ worker[v].log_id \in Nat /\ worker[v].count \in Nat
                            /\ worker[v].count <= TCPQueries
      /\ \A v \in Workers : v # w => worker'[v] = worker[v]
      /\ worker'[w].runs /\ worker'[w].log_id = worker[w].log_id + 1
      /\ worker'[w].count = worker[w].count + 1
  BY <1>1, Constants DEF WorkerType
<1>3. worker'[w].log_id <= log_id /\ Last(worker, w) <= log_id
  BY <1>1, <1>2, Constants DEF Inv, WorkersInv, Last
<1>4. worker' \in WorkerType
  <2>1. worker'[w] \in [runs : BOOLEAN, log_id : 0 .. MaxID, count : 0 .. TCPQueries]
    BY <1>1, <1>2, <1>3, Constants DEF WorkerType
  <2>2. \A v \in Workers : worker'[v] \in [runs : BOOLEAN, log_id : 0 .. MaxID, count : 0 .. TCPQueries]
    BY <1>1, <1>2, <2>1 DEF WorkerType
  <2>3. worker' = [v \in Workers |-> worker'[v]]
    BY <1>1 DEF WorkerType
  <2>4. QED
    BY <2>2, <2>3 DEF WorkerType
<1>5. \A v \in Workers : Last(worker', v) = Last(worker, v)
  BY <1>2, Constants DEF Last
<1>6. \A i \in Indices(shm) : At(shm, i).id \in Int
  BY IDsAreInts
<1>7. id \in Int /\ id # 0 /\ id <= log_id /\ -id <= log_id /\ -id = worker[w].log_id + 1
  BY <1>1, <1>2, <1>3
<1>8. worker[w].log_id < -id /\ -id <= Last(worker, w)
  BY <1>1, <1>2, <1>7, Constants DEF Last
<1> HIDE DEF id
<1>9. \A i \in Indices(shm) : At(shm, i).ours => At(shm, i).id # id
  BY <1>1, <1>8 DEF Inv, UsedInv
<1>10. UsedInv(shm, log_id, worker')
  <2>1. SUFFICES ASSUME NEW i \in Indices(shm), At(shm, i).ours,
                        NEW v \in Workers, worker'[v].runs,
                        worker'[v].log_id < -At(shm, i).id, -At(shm, i).id <= Last(worker', v)
                 PROVE  FALSE
    BY DEF Inv, UsedInv
  <2>2. worker[v].runs /\ worker[v].log_id < -At(shm, i).id
    <3>1. CASE v # w
      BY <1>2, <2>1, <3>1
    <3>2. CASE v = w
      <4>1. worker[w].log_id \in Nat /\ worker[w].log_id + 1 < -At(shm, i).id
        BY <1>2, <2>1, <3>2
      <4>2. QED
        BY <1>1, <1>6, <3>2, <4>1
    <3>3. QED
      BY <3>1, <3>2
  <2>3. QED
    BY <1>5, <2>1, <2>2 DEF Inv, UsedInv
<1>11. \A v \in Workers : worker'[v].runs =>
         ~(worker'[v].log_id < -id /\ -id <= Last(worker', v))
  <2>1. SUFFICES ASSUME NEW v \in Workers, worker'[v].runs, v # w
                 PROVE  ~(worker[v].log_id < -id /\ -id <= Last(worker, v))
    BY <1>2, <1>5, <1>7
  <2>2. Last(worker, v) <= worker[w].log_id \/ Last(worker, w) <= worker[v].log_id
    BY <1>1, <1>2, <2>1 DEF Inv, WorkersInv
  <2>3. Last(worker, v) \in Int /\ Last(worker, w) \in Int
    BY <1>2, Constants DEF Last
  <2>4. QED
    BY <1>2, <1>7, <1>8, <2>2, <2>3
<1>12. ArrayInv(shm') /\ map' \in MapType /\ RecordsInv(shm') /\ UsedInv(shm', log_id, worker')
       /\ MapsInv(shm', map')
  BY <1>1, <1>7, <1>9, <1>10, <1>11, NewQueryInv, Constants, Zenon
<1>13. WorkersInv(log_id, worker')
  <2>1. \A v \in Workers : worker'[v].runs => worker[v].runs /\ Last(worker', v) = Last(worker, v)
    BY <1>1, <1>2, <1>5, Zenon
  <2>2. \A v \in Workers : worker'[v].log_id >= worker[v].log_id /\ worker'[v].log_id \in Nat
                           /\ Last(worker, v) \in Int
    BY <1>2, Constants DEF Last
  <2>3. QED
    BY <1>2, <2>1, <2>2 DEF Inv, WorkersInv
<1>14. QED
  BY <1>1, <1>4, <1>12, <1>13 DEF Inv

LEMMA ForkInv ==
  ASSUME Inv, NEW w \in Workers, Fork(w)
  PROVE  Inv'
<1> DEFINE f == [runs |-> TRUE, log_id |-> log_id, count |-> 0]
<1>1. /\ log_id \in 0 .. MaxID /\ worker \in WorkerType /\ map \in MapType /\ shm' = shm
      /\ log_id + TCPQueries <= MaxID /\ log_id' = log_id + TCPQueries
      /\ worker' = [worker EXCEPT ![w] = f] /\ map' = [map EXCEPT ![w] = map[Main]]
  BY DEF Fork, Inv
<1>2. f \in [runs : BOOLEAN, log_id : 0 .. MaxID, count : 0 .. TCPQueries]
  BY <1>1, Constants
<1>3. f.runs /\ f.log_id = log_id /\ f.count = 0
  OBVIOUS
<1> HIDE DEF f
<1>4. /\ worker' \in WorkerType /\ worker'[w] = f
      /\ \A v \in Workers : v # w => worker'[v] = worker[v]
  BY <1>1, <1>2 DEF WorkerType
<1>5. \A v \in Workers : worker[v].log_id \in Nat /\ worker[v].count \in Nat
  BY <1>1, Constants DEF WorkerType
<1>6. /\ Last(worker', w) = log_id + TCPQueries
      /\ \A v \in Workers : v # w => Last(worker', v) = Last(worker, v)
      /\ \A v \in Workers : Last(worker, v) \in Int
  BY <1>1, <1>3, <1>4, <1>5, Constants DEF Last
<1>7. \A i \in Indices(shm) : At(shm, i).id \in Int
  BY IDsAreInts
<1>8. UsedInv(shm, log_id', worker')
  <2>1. SUFFICES ASSUME NEW i \in Indices(shm), At(shm, i).ours
                 PROVE  /\ At(shm, i).id # 0 /\ At(shm, i).id <= log_id' /\ -At(shm, i).id <= log_id'
                        /\ \A v \in Workers : worker'[v].runs =>
                             ~(worker'[v].log_id < -At(shm, i).id /\ -At(shm, i).id <= Last(worker', v))
    BY DEF UsedInv
  <2>2. /\ At(shm, i).id # 0 /\ At(shm, i).id <= log_id /\ -At(shm, i).id <= log_id
        /\ \A v \in Workers : worker[v].runs =>
             ~(worker[v].log_id < -At(shm, i).id /\ -At(shm, i).id <= Last(worker, v))
    BY <2>1 DEF Inv, UsedInv
  <2> DEFINE id == At(shm, i).id
  <2>3. id \in Int
    BY <1>7
  <2> HIDE DEF id
  <2>4. id <= log_id' /\ -id <= log_id'
    BY <1>1, <2>2, <2>3, Constants DEF id
  <2>5. ~(worker'[w].log_id < -id)
    BY <1>1, <1>3, <1>4, <2>2, <2>3 DEF id
  <2>6. QED
    BY <1>4, <1>6, <2>2, <2>4, <2>5 DEF id
<1>9. WorkersInv(log_id', worker')
  <2>1. \A v \in Workers : worker[v].runs => Last(worker, v) <= log_id
    BY DEF Inv, WorkersInv
  <2>2. \A v \in Workers : v # w /\ worker[v].runs => Last(worker', v) <= worker'[w].log_id
    BY <1>3, <1>4, <1>6, <2>1
  <2>3. \A v \in Workers : worker'[v].runs => Last(worker', v) <= log_id'
    <3>1. TAKE v \in Workers
    <3>2. CASE v = w
      BY <1>1, <1>6, <3>2, Constants
    <3>3. CASE v # w
      <4>1. worker'[v].runs => Last(worker', v) <= log_id /\ Last(worker', v) \in Int
        BY <1>4, <1>6, <2>1, <3>3
      <4>2. QED
        BY <1>1, <4>1, Constants
    <3>4. QED
      BY <3>2, <3>3
  <2>4. \A u, v \in Workers :
          worker'[u].runs /\ worker'[v].runs /\ u # v =>
            Last(worker', u) <= worker'[v].log_id \/ Last(worker', v) <= worker'[u].log_id
    <3>1. TAKE u, v \in Workers
    <3>2. CASE u # w /\ v # w
      BY <1>4, <1>6, <3>2 DEF Inv, WorkersInv
    <3>3. CASE u = w \/ v = w
      BY <1>4, <2>2, <3>3
    <3>4. QED
      BY <3>2, <3>3
  <2>5. QED
    BY <2>3, <2>4 DEF WorkersInv
<1>10. /\ map' \in MapType /\ map'[w] = map[Main]
       /\ \A p \in Processes : p # w => map'[p] = map[p]
  BY <1>1, Constants DEF MapType
<1>11. MapsInv(shm, map')
  BY <1>10, Constants DEF Inv, MapsInv
<1>12. log_id' \in 0 .. MaxID
  BY <1>1, Constants
<1>13. QED
  BY <1>1, <1>4, <1>8, <1>9, <1>10, <1>11, <1>12 DEF Inv

LEMMA ExitInv ==
  ASSUME Inv, NEW w \in Workers, Exit(w)
  PROVE  Inv'
<1>1. /\ worker \in WorkerType /\ map \in MapType /\ UNCHANGED <<shm, log_id>>
      /\ worker' = [worker EXCEPT ![w] = Idle] /\ map' = [map EXCEPT ![w] = EmptyMap]
  BY DEF Exit, Inv
<1>2. Idle \in [runs : BOOLEAN, log_id : 0 .. MaxID, count : 0 .. TCPQueries] /\ ~Idle.runs
  BY Constants DEF Idle
<1>3. /\ worker' \in WorkerType /\ ~worker'[w].runs
      /\ \A v \in Workers : v # w => worker'[v] = worker[v]
  BY <1>1, <1>2 DEF WorkerType
<1>4. UsedInv(shm, log_id, worker') /\ WorkersInv(log_id, worker')
  BY <1>3 DEF Inv, UsedInv, WorkersInv, Last
<1>5. map' \in MapType /\ MapsInv(shm, map')
  BY <1>1, ClearMap, Constants, Zenon DEF Inv
<1>6. QED
  BY <1>1, <1>3, <1>4, <1>5 DEF Inv

LEMMA LockInv ==
  ASSUME Inv, NEW p \in Processes, Lock(p)
  PROVE  Inv'
BY AfterLock DEF Lock, Inv

LEMMA GarbageCollectInv ==
  ASSUME Inv, NEW n, GarbageCollect(n)
  PROVE  Inv'
<1> DEFINE s == shm_ensure_size(shm)
<1>1. /\ ArrayInv(s) /\ RecordsInv(s) /\ UsedInv(s, log_id, worker)
  BY AfterLock, Constants
<1>2. MapsInv(s, map)
  <2>1. s.queries = shm.queries /\ \A i \in Indices(shm) : At(s, i) = At(shm, i)
    BY LockKeepsRecords DEF Inv
  <2> HIDE DEF s
  <2>2. QED
    BY <2>1, SameRecords DEF Inv
<1>3. n \in 1 .. s.queries /\ shm' = DropRecords(s, n) /\ UNCHANGED <<log_id, worker>>
      /\ map' = [map EXCEPT ![Main] = EmptyMap]
  BY DEF GarbageCollect
<1> HIDE DEF s
<1>4. /\ ArrayInv(shm') /\ shm'.queries = s.queries - n
      /\ \A i \in Indices(shm') : At(shm', i) = At(s, i + n)
  BY <1>1, <1>3, DropKeepsRecords
<1>5. n \in Nat /\ s.queries \in Nat /\ \A i \in Indices(shm') : i \in Nat /\ i + n \in Indices(s)
  BY <1>1, <1>3, <1>4, SMTT(60) DEF ArrayInv, Indices
<1>6. RecordsInv(shm')
  <2>1. /\ \A i \in Indices(shm') : At(shm', i).magic
        /\ \A i \in Indices(shm') : At(shm', i).ours \/ At(shm', i).id = Imported
    BY <1>1, <1>4, <1>5 DEF RecordsInv
  <2>2. \A i, j \in Indices(shm') : i <= j /\ At(shm', i).ours => At(shm', j).ours
    <3>1. TAKE i, j \in Indices(shm')
    <3>2. i <= j => i + n <= j + n
      BY <1>5
    <3>3. QED
      BY <1>1, <1>4, <1>5, <3>2 DEF RecordsInv
  <2>3. \A i, j \in Indices(shm') :
          At(shm', i).ours /\ At(shm', j).ours /\ At(shm', i).id = At(shm', j).id => i = j
    <3>1. TAKE i, j \in Indices(shm')
    <3>2. i + n = j + n => i = j
      BY <1>5
    <3>3. QED
      BY <1>1, <1>4, <1>5, <3>2 DEF RecordsInv
  <2>4. QED
    BY <2>1, <2>2, <2>3 DEF RecordsInv
<1>7. UsedInv(shm', log_id, worker)
  BY <1>1, <1>4, <1>5 DEF UsedInv
<1>8. MapsInv(shm', map)
  <2>1. SUFFICES ASSUME NEW p \in Processes, NEW k \in Slots, map[p][k].id # 0,
                        NEW j \in Indices(shm'), j >= map[p][k].index
                 PROVE  At(shm', j).ours
    BY DEF MapsInv
  <2>2. map[p][k].index \in Nat
    BY DEF Inv, MapType
  <2>3. j + n >= map[p][k].index
    BY <1>5, <2>1, <2>2
  <2>4. QED
    BY <1>2, <1>4, <1>5, <2>1, <2>3 DEF MapsInv
<1>9. map' \in MapType /\ MapsInv(shm', map')
  BY <1>3, <1>8, ClearMap, Constants, Zenon DEF Inv
<1>10. QED
  BY <1>3, <1>4, <1>6, <1>7, <1>9 DEF Inv

LEMMA NextInv == Inv /\ [Next]_vars => Inv'
<1>1. SUFFICES ASSUME Inv, [Next]_vars PROVE Inv'
  OBVIOUS
<1>2. CASE UNCHANGED vars
  BY <1>1, <1>2 DEF Inv, vars
<1>3. QED
  BY <1>1, <1>2, LockInv, NewUDPQueryInv, NewTCPQueryInv, ForkInv, ExitInv, GarbageCollectInv
  DEF Next

\* The strengthened invariant holds in every state.
THEOREM Invariance == Spec => []Inv
<1>1. QED
  BY InitInv, NextInv, PTL DEF Spec

\* The array, the maps and the IDs keep their types.
THEOREM TypeCorrect == Spec => []TypeOK
<1>1. Inv => TypeOK
  BY DEF Inv, TypeOK, ArrayInv, MapType, WorkerType, Slots
<1>2. QED
  BY <1>1, Invariance, PTL

\* No hook and no new query reads or writes beyond the array of queries.
THEOREM AlwaysRoomForOneMore == Spec => []RoomForOneMore
<1>1. Inv => RoomForOneMore
  BY DEF Inv, RoomForOneMore, ArrayInv
<1>2. QED
  BY <1>1, Invariance, PTL

\* What is behind the last record is empty, also after a compaction.
THEOREM NothingIsLeftBehind == Spec => []NothingBehindTheLast
<1>1. Inv => NothingBehindTheLast
  BY DEF Inv, NothingBehindTheLast, ArrayInv
<1>2. QED
  BY <1>1, Invariance, PTL

\* A set of indices that is not empty has a largest element.
LEMMA LastOfIndices ==
  ASSUME NEW n \in Nat, NEW S, S \subseteq 0 .. n - 1, S # {}
  PROVE  \E x \in S : \A y \in S : y <= x
<1> DEFINE T == {n - x : x \in S}
<1>1. T \subseteq Nat /\ T # {}
  OBVIOUS
<1>2. PICK t \in T : \A u \in T : ~(<<u, t>> \in OpToRel(<, Nat))
  BY <1>1, WFMin, NatLessThanWellFounded, Zenon
<1>3. \A u \in T : t <= u
  <2>1. TAKE u \in T
  <2>2. u \in Nat /\ t \in Nat
    BY <1>1
  <2>3. ~(u < t)
    BY <1>2, <2>2, Zenon DEF OpToRel
  <2>4. QED
    BY <2>2, <2>3
<1>4. PICK x \in S : t = n - x
  OBVIOUS
<1>5. \A y \in S : y <= x
  <2>1. TAKE y \in S
  <2>2. n - x <= n - y
    BY <1>3, <1>4
  <2>3. QED
    BY <2>2
<1>6. QED
  BY <1>5

\* What findQueryID() sees of the array and of the maps.
LEMMA ViewOfHooks ==
  ASSUME Inv
  PROVE  /\ shm.queries \in Nat /\ -1 \notin Nat
         /\ \A i : getQuery(i) = At(shm, i)
         /\ \A p \in Processes, id \in Int : map[p][id % MapSize].index \in Nat
         /\ \A i \in Indices(shm) : getQuery(i).id \in Int
         /\ \A i \in Window : i \in Nat /\ (shm.queries > 0 => i \in Indices(shm))
                                        /\ (shm.queries = 0 => i = 0)
<1>1. shm.queries \in Nat /\ MaxIter \in Nat /\ MaxIter > 0
  BY Constants DEF Inv, ArrayInv
<1>2. \A p \in Processes, id \in Int : map[p][id % MapSize].index \in Nat
  BY SlotInRange DEF Inv, MapType
<1>3. \A i \in Indices(shm) : At(shm, i).id \in Int
  BY IDsAreInts
<1>4. \A i \in Window : i \in Nat /\ (shm.queries > 0 => i \in Indices(shm))
                                  /\ (shm.queries = 0 => i = 0)
  BY <1>1 DEF Window, Indices
<1>5. QED
  BY <1>1, <1>2, <1>3, <1>4 DEF getQuery, At

\* A hook finds its query if that is among the last MAXITER ones, however stale
\* the map of its process is.
THEOREM HooksFindRecentQueries == Spec => []FindsRecent
<1>1. Inv => FindsRecent
  <2>1. SUFFICES ASSUME Inv, NEW p \in Processes, NEW i \in Window, i < shm.queries,
                        getQuery(i).magic, getQuery(i).ours
                 PROVE  findQueryID(p, getQuery(i).id) = i
    BY DEF FindsRecent
  <2> DEFINE id == getQuery(i).id
             c == map[p][id % MapSize].index
             found == {j \in Window : HasID(j, id)}
  <2>2. shm.queries > 0 /\ i \in Indices(shm) /\ id \in Int
    BY <2>1, ViewOfHooks
  <2>3. id # 0
    BY <2>1, <2>2, ViewOfHooks DEF Inv, UsedInv
  <2>4. \A j \in Indices(shm) : HasID(j, id) /\ getQuery(j).ours => j = i
    BY <2>1, <2>2, ViewOfHooks, SMTT(60) DEF Inv, RecordsInv, HasID
  <2>5. CachedIndex(p, id) \in {-1, i}
    <3>1. CASE /\ map[p][id % MapSize].id = id /\ c < shm.queries /\ HasID(c, id)
      <4>1. c \in Indices(shm)
        BY <2>1, <2>2, <3>1, ViewOfHooks DEF Indices
      <4>2. getQuery(c).ours
        BY <2>1, <2>2, <2>3, <3>1, <4>1, ViewOfHooks, SlotInRange, SMTT(60) DEF Inv, MapsInv, Indices
      <4>3. QED
        BY <2>4, <3>1, <4>1, <4>2, SMTT(60) DEF CachedIndex
    <3>2. QED
      BY <3>1, SMTT(60) DEF CachedIndex
  <2>6. i \in found /\ \A j \in found : j <= i
    <3>1. i \in found
      BY <2>1 DEF HasID
    <3>2. ASSUME NEW j \in found PROVE j <= i
      <4>1. j \in Indices(shm) /\ HasID(j, id) /\ j \in Nat /\ i \in Nat
        BY <2>1, <2>2, <3>2, ViewOfHooks
      <4>2. CASE i <= j
        <5>1. getQuery(j).ours
          BY <2>1, <2>2, <4>1, <4>2, ViewOfHooks, SMTT(60) DEF Inv, RecordsInv
        <5>2. QED
          BY <2>4, <4>1, <5>1
      <4>3. QED
        BY <4>1, <4>2
    <3>3. QED
      BY <3>1, <3>2
  <2>7. \A x \in found : (\A j \in found : j <= x) => x = i
    BY <2>1, <2>6, ViewOfHooks
  <2> HIDE DEF found
  <2>8. (CHOOSE x \in found : \A j \in found : j <= x) = i
    BY <2>6, <2>7
  <2>9. i # -1
    BY <2>1, ViewOfHooks
  <2>10. QED
    BY <2>5, <2>6, <2>8, <2>9 DEF findQueryID, found
<1>2. QED
  BY <1>1, Invariance, PTL

\* A hook never finds the record of another query, unless it is called with the
\* ID that the imported queries share.
THEOREM HooksFindTheirQuery == Spec => []FindsOnlyItsQuery
<1>1. Inv => FindsOnlyItsQuery
  <2>1. SUFFICES ASSUME Inv, NEW p \in Processes, NEW id \in (-log_id .. log_id) \ {0},
                        findQueryID(p, id) # -1
                 PROVE  LET i == findQueryID(p, id)
                        IN /\ i < shm.queries /\ getQuery(i).id = id
                           /\ getQuery(i).ours \/ id = Imported
    BY DEF FindsOnlyItsQuery
  <2> DEFINE i == findQueryID(p, id)
             found == {j \in Window : HasID(j, id)}
  <2>2. id \in Int
    BY <2>1 DEF Inv
  <2>3. \A j \in Indices(shm) : getQuery(j).ours \/ getQuery(j).id = Imported
    BY <2>1, ViewOfHooks, SMTT(60) DEF Inv, RecordsInv
  <2>4. SUFFICES i \in Indices(shm) /\ HasID(i, id)
    BY <2>1, <2>3, ViewOfHooks DEF HasID, Indices
  <2>5. CASE CachedIndex(p, id) # -1
    <3>1. i = CachedIndex(p, id)
      BY <2>5 DEF findQueryID
    <3>2. QED
      BY <2>1, <2>2, <2>5, <3>1, ViewOfHooks DEF CachedIndex, Indices
  <2>6. CASE CachedIndex(p, id) = -1
    <3>1. found # {} /\ i = CHOOSE x \in found : \A j \in found : j <= x
      BY <2>1, <2>6 DEF findQueryID
    <3>2. shm.queries > 0
      <4>1. SUFFICES ASSUME shm.queries = 0 PROVE FALSE
        BY <2>1, ViewOfHooks
      <4>2. ~getQuery(0).magic
        BY <2>1, <4>1 DEF Inv, ArrayInv, getQuery, Zero
      <4>3. QED
        BY <2>1, <3>1, <4>1, <4>2, ViewOfHooks DEF HasID
    <3>3. \E x \in found : \A j \in found : j <= x
      <4>1. found \subseteq 0 .. shm.queries - 1
        BY <2>1, <3>2, ViewOfHooks DEF Indices
      <4>2. QED
        BY <2>1, <3>1, <4>1, ViewOfHooks, LastOfIndices
    <3>4. i \in found
      BY <3>1, <3>3
    <3>5. QED
      BY <2>1, <3>2, <3>4, ViewOfHooks
  <2>7. QED
    BY <2>5, <2>6
<1>2. QED
  BY <1>1, Invariance, PTL
==============================================================================
