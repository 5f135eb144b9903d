----------------------------- MODULE RecycleTable -----------------------------
(***************************************************************************)
(* One of the three tables of records with IDs (clients, domains, DNS      *)
(* cache): an array in shared memory, the lookup table that finds the ID   *)
(* of a key, the counter of the array, and the recycler, a stack of the    *)
(* IDs that garbage collection has released.                               *)
(*                                                                         *)
(* Sources: src/src/datastructure.c (find*ID), shmem.c (recycler), gc.c    *)
(* (recycle).  The lookup table is the set of the IDs it holds, in any     *)
(* order; LookupTable models its hashes and the binary search.             *)
(***************************************************************************)
EXTENDS Integers, Sequences

CONSTANTS
  Keys,
  NoKey,
  RecycleLen,   \* RECYCLE_ARRAY_LEN
  MaxIDs,       \* bound: IDs that can be handed out
  MaxRefs       \* bound: references to a record

ASSUME TableAssumption ==
  /\ NoKey \notin Keys
  /\ RecycleLen \in Nat /\ MaxIDs \in Nat /\ MaxRefs \in Nat \ {0}

IDs == 0 .. MaxIDs - 1

VARIABLES
  key,      \* per ID: the key in the record; NoKey once it was wiped
  refs,     \* per ID: the count that keeps the record from being recycled
  lookup,   \* the IDs in the lookup table
  free,     \* the recycler: a stack of IDs
  size      \* counters->clients, ->domains or ->dns_cache_size

vars == <<key, refs, lookup, free, size>>

Init ==
  /\ key = [i \in IDs |-> NoKey]
  /\ refs = [i \in IDs |-> 0]
  /\ lookup = {}
  /\ free = <<>>
  /\ size = 0

\* get_next_recycled_ID(): take the ID that was added last.
Pop(s) == SubSeq(s, 1, Len(s) - 1)

\* Mutant: a recycled ID is only taken when the stack is full.
NextFreeID_Size(s, n) == IF Len(s) > 1 THEN s[Len(s)] ELSE IF n = 0 THEN 0 ELSE n - 1

NextFreeID(s, n) == IF s # <<>> THEN s[Len(s)] ELSE n

\* The key is found: one more reference, or just a look.
FindExisting(k, n) ==
  \E i \in lookup :
    /\ key[i] = k
    /\ refs[i] + n <= MaxRefs
    /\ refs' = [refs EXCEPT ![i] = @ + n]
    /\ UNCHANGED <<key, lookup, free, size>>

\* A new record, with a recycled ID if there is one.  The counter is increased
\* in either case.
FindNew(k, n) ==
  LET i == NextFreeID(free, size) IN
  /\ \A j \in lookup : key[j] # k
  /\ i \in IDs /\ size < MaxIDs
  /\ key' = [key EXCEPT ![i] = k]
  /\ refs' = [refs EXCEPT ![i] = n]
  /\ lookup' = lookup \cup {i}
  /\ free' = Pop(free)
  /\ size' = size + 1

\* A query that refers to the record is removed.
Unref(i) ==
  /\ refs[i] > 0
  /\ refs' = [refs EXCEPT ![i] = @ - 1]
  /\ UNCHANGED <<key, lookup, free, size>>

\* All ways to go through the IDs in S.
Orders(S) ==
  {o \in UNION {[1 .. n -> S] : n \in 0 .. MaxIDs} :
     /\ \A i, j \in DOMAIN o : i # j => o[i] # o[j]
     /\ \A i \in S : \E j \in DOMAIN o : o[j] = i}

\* set_next_recycled_ID() for each ID of o: those that do not fit are lost.
Push(s, o) ==
  LET room == RecycleLen - Len(s)
  IN s \o SubSeq(o, 1, IF Len(o) < room THEN Len(o) ELSE room)

Unreferenced == {i \in lookup : refs[i] <= 0}

\* recycle(): wipe the records in S, all of them not referenced.  Alias
\* clients and domains asked for in the last 24 hours are not in S.
Recycle(S) ==
  /\ S # {} /\ S \subseteq Unreferenced
  /\ key' = [i \in IDs |-> IF i \in S THEN NoKey ELSE key[i]]
  /\ refs' = [i \in IDs |-> IF i \in S THEN 0 ELSE refs[i]]
  /\ lookup' = lookup \ S
  /\ \E o \in Orders(S) : free' = Push(free, o)
  /\ UNCHANGED size

Next ==
  \/ \E k \in Keys, n \in {0, 1} : FindExisting(k, n) \/ FindNew(k, n)
  \/ \E i \in IDs : Unref(i)
  \/ \E S \in SUBSET IDs : Recycle(S)

Spec == Init /\ [][Next]_vars

-----------------------------------------------------------------------------
\* The shape of the state.
TypeOK ==
  /\ key \in [IDs -> Keys \cup {NoKey}]
  /\ refs \in [IDs -> 0 .. MaxRefs]
  /\ lookup \subseteq IDs
  /\ free \in Seq(IDs) /\ Len(free) <= RecycleLen
  /\ size \in 0 .. MaxIDs

\* The recycler never hands out an ID that is in use, nor the same ID twice:
\* the IDs on its stack are distinct, were handed out before and have no
\* record, no record is in use at or beyond the counter, where the next new ID
\* is taken, the records in use are those in the lookup table, and only those
\* are referenced.
RecyclerSound ==
  /\ \A i, j \in 1 .. Len(free) : i # j => free[i] # free[j]
  /\ \A i \in 1 .. Len(free) : key[free[i]] = NoKey /\ free[i] < size
  /\ \A i \in IDs : i >= size => key[i] = NoKey
  /\ \A i \in IDs : i \in lookup <=> key[i] # NoKey
  /\ \A i \in IDs : key[i] = NoKey => refs[i] = 0

\* A key has at most one ID: find*ID() never creates a second record for a
\* client, a domain or a cache entry it already has.
OneIDPerKey ==
  \A i, j \in IDs : key[i] # NoKey /\ key[i] = key[j] => i = j

\* An ID that some query refers to keeps denoting the same key.
ReferencedKeepsKey == [][\A i \in IDs : refs[i] > 0 => key'[i] = key[i]]_vars

\* The table keeps the promise of IDTable.
Promise == INSTANCE IDTable WITH held <- key
KeepsPromise == Promise!Spec
==============================================================================
