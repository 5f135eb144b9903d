----------------------------- MODULE LookupTable -----------------------------
(***************************************************************************)
(* A lookup table: the entries [id, hash] of the clients, the domains or   *)
(* the DNS cache, sorted by hash, with a binary search that also finds the *)
(* place for a new entry.  Entries with the same hash are next to each     *)
(* other in any order.                                                     *)
(*                                                                         *)
(* Source: src/src/lookup-table.c.  Every pass of a loop is a step; there  *)
(* is one call at a time, as the callers hold the SHM lock.                *)
(***************************************************************************)
EXTENDS Integers

CONSTANTS
  IDs,        \* IDs of records
  Zero,       \* memory that holds no entry
  MaxHash,    \* the hashes are 0 .. MaxHash
  Capacity    \* bound: entries the table may hold

Hashes == 0 .. MaxHash
Entries == [id : IDs, hash : Hashes]

ASSUME LookupAssumption ==
  /\ IDs # {} /\ MaxHash \in Nat /\ Capacity \in Nat
  /\ Zero \notin Entries


VARIABLES
  table,    \* the array
  size,     \* its number of entries
  request,  \* the function that was called and its arguments
  answer,   \* what it returned
  pc,       \* where it is
  base,     \* binsearch(): the part of the array that is left,
  left,     \*   its first index and its number of entries
  pos       \* the index `try' points to

vars == <<table, size, request, answer, pc, base, left, pos>>

Init ==
  /\ table = [i \in 0 .. Capacity - 1 |-> Zero]
  /\ size = 0
  /\ request = [op |-> "find", entry |-> CHOOSE e \in Entries : TRUE]
  /\ answer = "no"
  /\ pc = "idle"
  /\ base = 0 /\ left = 0 /\ pos = 0

Contents == {table[i] : i \in 0 .. size - 1}
hash == request.entry.hash

\* A new entry has an ID that is not in the table, see RecycleTable, and
\* memory has been reserved for it.
Call(op, e) ==
  /\ pc = "idle"
  /\ op = "insert" => size < Capacity /\ \A f \in Contents : f.id # e.id
  /\ request' = [op |-> op, entry |-> e]
  /\ pc' = "search"
  /\ base' = 0 /\ left' = size /\ pos' = 0
  /\ UNCHANGED <<table, size, answer>>

\* The local variables go away.
Return(result) ==
  /\ answer' = result
  /\ pc' = "idle"
  /\ base' = 0 /\ left' = 0 /\ pos' = 0

-----------------------------------------------------------------------------
(* binsearch() *)

\* After the search: an insertion takes the place that was found.
Hit == IF request.op = "insert" THEN "place" ELSE "first"
Miss == IF request.op = "insert" THEN "place" ELSE "absent"

\* Mutant: the part that is left does not shrink.
GoRight_Stays(mid) == UNCHANGED <<base, left>>

GoRight(mid) ==
  /\ base' = base + mid
  /\ left' = left - mid

\* Only entry i is left, and it is not the one.
LastPlace(i) == IF hash > table[i].hash THEN i + 1 ELSE i

Search ==
  LET mid == left \div 2
      i == base + mid
  IN
  /\ pc = "search"
  /\ \/ /\ left = 0
        /\ pc' = Miss
        /\ UNCHANGED <<base, left, pos>>
     \/ /\ left > 0 /\ hash = table[i].hash
        /\ pos' = i
        /\ pc' = Hit
        /\ UNCHANGED <<base, left>>
     \/ /\ left = 1 /\ hash # table[i].hash
        /\ pos' = LastPlace(i)
        /\ pc' = Miss
        /\ UNCHANGED <<base, left>>
     \/ /\ left > 1 /\ hash < table[i].hash
        /\ left' = mid
        /\ pos' = i
        /\ UNCHANGED <<pc, base>>
     \/ /\ left > 1 /\ hash > table[i].hash
        /\ GoRight(mid)
        /\ pos' = i
        /\ UNCHANGED pc
  /\ UNCHANGED <<table, size, request, answer>>

-----------------------------------------------------------------------------
(* lookup_insert(), lookup_remove(), lookup_find_id() *)

Place ==
  /\ pc = "place"
  /\ table' = [i \in 0 .. Capacity - 1 |->
                 IF i < pos \/ i > size THEN table[i]
                 ELSE IF i = pos THEN request.entry ELSE table[i - 1]]
  /\ size' = size + 1
  /\ Return("yes")
  /\ UNCHANGED request

\* lookup_remove() warns about it and returns true nevertheless; "no" stands for
\* the warning.
Absent ==
  /\ pc = "absent"
  /\ Return("no")
  /\ UNCHANGED <<table, size, request>>

\* Mutant: the walk goes on from where the search ended.
WalkLeft_Never == FALSE

WalkLeft == pos > 0 /\ table[pos - 1].hash = hash

\* To the first entry with the hash.
First ==
  /\ pc = "first"
  /\ IF WalkLeft THEN pos' = pos - 1 /\ UNCHANGED pc
                 ELSE pc' = "walk" /\ UNCHANGED pos
  /\ UNCHANGED <<table, size, request, answer, base, left>>

\* Over the entries with the hash.
Walk ==
  /\ pc = "walk"
  /\ pos < size /\ table[pos].hash = hash /\ table[pos].id # request.entry.id
  /\ pos' = pos + 1
  /\ UNCHANGED <<table, size, request, answer, pc, base, left>>

NotThere ==
  /\ pc = "walk"
  /\ ~(pos < size /\ table[pos].hash = hash)
  /\ Return("no")
  /\ UNCHANGED <<table, size, request>>

Removed ==
  [i \in 0 .. Capacity - 1 |->
     IF i < pos \/ i >= size THEN table[i]
     ELSE IF i < size - 1 THEN table[i + 1] ELSE Zero]

There ==
  /\ pc = "walk"
  /\ pos < size /\ table[pos].hash = hash /\ table[pos].id = request.entry.id
  /\ \/ /\ request.op = "remove"
        /\ table' = Removed
        /\ size' = size - 1
     \/ /\ request.op = "find"
        /\ UNCHANGED <<table, size>>
  /\ Return("yes")
  /\ UNCHANGED request

Step == Search \/ Place \/ Absent \/ First \/ Walk \/ NotThere \/ There

Next ==
  \/ \E op \in {"insert", "remove", "find"}, e \in Entries : Call(op, e)
  \/ Step

Spec == Init /\ [][Next]_vars

\* A call that was made is carried on with.
FairSpec == Spec /\ WF_vars(Step)

-----------------------------------------------------------------------------
\* The shape of the state: every index a step uses is within the table.
TypeOK ==
  /\ table \in [0 .. Capacity - 1 -> Entries \cup {Zero}]
  /\ size \in 0 .. Capacity
  /\ request \in [op : {"insert", "remove", "find"}, entry : Entries]
  /\ answer \in {"yes", "no"}
  /\ pc \in {"idle", "search", "place", "absent", "first", "walk"}
  /\ base \in Nat /\ left \in Nat /\ pos \in 0 .. size
  /\ base + left <= size
  /\ \A i \in 0 .. Capacity - 1 : table[i] = Zero <=> i >= size

\* "This is really an error as, when the array is not sorted, the binary search
\* algorithm will not be able to find elements" (lookup-table.c:450): insertions
\* and removals keep the entries sorted by hash.
TableSorted ==
  \A i, j \in 0 .. size - 1 : i <= j => table[i].hash <= table[j].hash

\* The binary search never throws away the half with the entry: what is to the
\* left of the part that remains is smaller, what is to the right is greater.
SearchKeepsHash ==
  pc = "search" =>
    /\ \A i \in 0 .. base - 1 : table[i].hash < hash
    /\ \A i \in base + left .. size - 1 : table[i].hash > hash

\* No ID is in the table twice.
IDsAreUnique ==
  \A i, j \in 0 .. size - 1 : table[i].id = table[j].id => i = j

\* The table is a set of entries: whatever is inserted, in whichever order and
\* with whatever collisions of hashes, can be found and removed until it is
\* removed, and nothing else can.
Set == INSTANCE LookupSet WITH
         set <- Contents,
         answer <- IF pc = "idle" THEN answer ELSE "pending"
IsASet == Set!Spec

\* Every call returns: the loops end.
CallsReturn == pc # "idle" ~> pc = "idle"
==============================================================================
