-------------------------- MODULE RecycleTableProofs --------------------------
(***************************************************************************)
(* Proofs about RecycleTable, for any set of keys and any bounds: the      *)
(* recycler is sound, a key has one ID, a referenced ID keeps its key, and *)
(* the table implements IDTable.  The inductive invariant is TypeOK,       *)
(* RecyclerSound and OneIDPerKey together: that a fresh ID is free needs   *)
(* RecyclerSound, and that the key of a new record has no other ID needs   *)
(* the lookup table to hold all records in use.                            *)
(***************************************************************************)
EXTENDS RecycleTable, TLAPS

Inv == TypeOK /\ RecyclerSound /\ OneIDPerKey

\* Popping an ID off the stack leaves the other ones where they are.
LEMMA PopFacts ==
  ASSUME NEW T, NEW s \in Seq(T)
  PROVE  /\ Pop(s) \in Seq(T)
         /\ Len(Pop(s)) <= Len(s)
         /\ s # <<>> => Len(Pop(s)) = Len(s) - 1
         /\ \A i \in 1 .. Len(Pop(s)) : i \in 1 .. Len(s) /\ Pop(s)[i] = s[i]
         /\ s # <<>> => \A i \in 1 .. Len(Pop(s)) : i < Len(s)
<1>1. CASE s = <<>>
  BY <1>1 DEF Pop
<1>2. CASE s # <<>>
  <2>1. Len(s) \in Nat /\ Len(s) >= 1
    BY <1>2
  <2>2. Pop(s) = [i \in 1 .. Len(s) - 1 |-> s[i]]
    BY <2>1 DEF Pop
  <2> QED BY <1>2, <2>1, <2>2
<1> QED BY <1>1, <1>2

\* What is on the stack after a push was there before, or was pushed; a pushed
\* ID is at its own place of the order, and the stack does not outgrow its array.
LEMMA PushFacts ==
  ASSUME NEW T, NEW s \in Seq(T), NEW o \in Seq(T),
         RecycleLen \in Nat, Len(s) <= RecycleLen
  PROVE  /\ Push(s, o) \in Seq(T)
         /\ Len(Push(s, o)) <= RecycleLen
         /\ Len(Push(s, o)) >= Len(s)
         /\ \A i \in 1 .. Len(Push(s, o)) :
              \/ i \in 1 .. Len(s) /\ Push(s, o)[i] = s[i]
              \/ /\ i > Len(s) /\ i - Len(s) \in 1 .. Len(o)
                 /\ Push(s, o)[i] = o[i - Len(s)]
<1> DEFINE n == IF Len(o) < RecycleLen - Len(s) THEN Len(o) ELSE RecycleLen - Len(s)
           t == SubSeq(o, 1, n)
<1>1. n \in Nat /\ n <= Len(o) /\ Len(s) + n <= RecycleLen
  OBVIOUS
<1>2. t = [i \in 1 .. n |-> o[i]]
  BY <1>1
<1>3. t \in Seq(T) /\ Len(t) = n
  BY <1>1, <1>2
<1>4. Push(s, o) = s \o t
  BY DEF Push
<1> HIDE DEF n, t
<1>5. s \o t \in Seq(T) /\ Len(s \o t) = Len(s) + n
  BY <1>1, <1>3
<1>6. \A i \in 1 .. Len(s) + n :
         (s \o t)[i] = IF i <= Len(s) THEN s[i] ELSE t[i - Len(s)]
  BY <1>1, <1>3
<1>7. \A i \in 1 .. Len(s) + n : i > Len(s) => t[i - Len(s)] = o[i - Len(s)]
  BY <1>1, <1>2
<1> QED BY <1>1, <1>4, <1>5, <1>6, <1>7

-----------------------------------------------------------------------------
\* Initially nothing is in use.
LEMMA InitInv == Init => Inv
BY TableAssumption DEF Init, Inv, TypeOK, RecyclerSound, OneIDPerKey, IDs

\* The ID of a new record is not in use, and leaves the stack.
LEMMA FreshID ==
  ASSUME Inv, NEW k \in Keys, NEW n \in {0, 1}, FindNew(k, n)
  PROVE  /\ NextFreeID(free, size) \in IDs
         /\ key[NextFreeID(free, size)] = NoKey
         /\ NextFreeID(free, size) <= size
         /\ \A i \in 1 .. Len(free') : free'[i] # NextFreeID(free, size)
<1> DEFINE x == NextFreeID(free, size)
<1>1. x \in IDs /\ free' = Pop(free)
  BY DEF FindNew
<1>2. CASE free = <<>>
  BY <1>1, <1>2 DEF NextFreeID, Pop, Inv, TypeOK, RecyclerSound, IDs
<1>3. CASE free # <<>>
  <2>1. Len(free) \in 1 .. Len(free) /\ x = free[Len(free)]
    BY <1>3 DEF NextFreeID, Inv, TypeOK
  <2>2. key[x] = NoKey /\ x < size
    BY <2>1 DEF Inv, RecyclerSound
  <2>3. \A i \in 1 .. Len(free') : i \in 1 .. Len(free) /\ i # Len(free) /\ free'[i] = free[i]
    BY <1>1, <1>3, PopFacts, SMTT(60) DEF Inv, TypeOK
  <2>4. \A i \in 1 .. Len(free') : free'[i] # x
    BY <2>1, <2>3 DEF Inv, RecyclerSound
  <2> QED BY <1>1, <2>2, <2>4 DEF Inv, TypeOK, IDs
<1> QED BY <1>2, <1>3

\* A new record preserves the invariant.
LEMMA FindNewInv ==
  ASSUME Inv, NEW k \in Keys, NEW n \in {0, 1}, FindNew(k, n)
  PROVE  Inv'
<1> DEFINE x == NextFreeID(free, size)
<1>1. x \in IDs /\ key[x] = NoKey /\ x <= size
  BY FreshID
<1>2. \A i \in 1 .. Len(free') : free'[i] # x
  BY FreshID
<1>3. /\ key' = [key EXCEPT ![x] = k] /\ refs' = [refs EXCEPT ![x] = n]
      /\ lookup' = lookup \cup {x} /\ free' = Pop(free) /\ size' = size + 1
      /\ size < MaxIDs /\ \A j \in lookup : key[j] # k
  BY DEF FindNew
<1> HIDE DEF x
<1>4. /\ free' \in Seq(IDs) /\ Len(free') <= Len(free)
      /\ \A i \in 1 .. Len(free') : i \in 1 .. Len(free) /\ free'[i] = free[i]
  BY <1>3, PopFacts, SMTT(60) DEF Inv, TypeOK
<1>5. \A i \in 1 .. Len(free) : free[i] \in IDs
  BY DEF Inv, TypeOK
<1>6. TypeOK'
  BY <1>1, <1>3, <1>4, TableAssumption DEF Inv, TypeOK
<1>7. RecyclerSound'
  <2>1. \A i, j \in 1 .. Len(free') : i # j => free'[i] # free'[j]
    BY <1>4 DEF Inv, RecyclerSound
  <2>2. \A i \in 1 .. Len(free') : key'[free'[i]] = NoKey /\ free'[i] < size'
    <3> SUFFICES ASSUME NEW i \in 1 .. Len(free')
                 PROVE  key'[free'[i]] = NoKey /\ free'[i] < size'
      OBVIOUS
    <3>1. free'[i] = free[i] /\ i \in 1 .. Len(free) /\ free[i] \in IDs /\ free[i] # x
      BY <1>2, <1>4, <1>5
    <3>2. key[free[i]] = NoKey /\ free[i] < size
      BY <3>1 DEF Inv, RecyclerSound
    <3> QED BY <1>3, <3>1, <3>2 DEF Inv, TypeOK, IDs
  <2>3. \A i \in IDs : i >= size' => key'[i] = NoKey
    BY <1>1, <1>3 DEF Inv, TypeOK, RecyclerSound, IDs
  <2>4. \A i \in IDs : i \in lookup' <=> key'[i] # NoKey
    BY <1>1, <1>3, TableAssumption DEF Inv, TypeOK, RecyclerSound
  <2>5. \A i \in IDs : key'[i] = NoKey => refs'[i] = 0
    BY <1>1, <1>3, TableAssumption DEF Inv, TypeOK, RecyclerSound
  <2> QED BY <2>1, <2>2, <2>3, <2>4, <2>5 DEF RecyclerSound
<1>8. OneIDPerKey'
  BY <1>1, <1>3 DEF Inv, TypeOK, RecyclerSound, OneIDPerKey
<1> QED BY <1>6, <1>7, <1>8 DEF Inv

\* Garbage collection preserves the invariant.
LEMMA RecycleInv ==
  ASSUME Inv, NEW S \in SUBSET IDs, Recycle(S)
  PROVE  Inv'
<1>1. /\ key' = [i \in IDs |-> IF i \in S THEN NoKey ELSE key[i]]
      /\ refs' = [i \in IDs |-> IF i \in S THEN 0 ELSE refs[i]]
      /\ lookup' = lookup \ S /\ size' = size /\ S \subseteq lookup
  BY DEF Recycle, Unreferenced
<1>2. PICK o \in Orders(S) : free' = Push(free, o)
  BY DEF Recycle
<1>3. \A i \in S : key[i] # NoKey /\ i < size
  BY <1>1 DEF Inv, TypeOK, RecyclerSound, IDs
<1>4. o \in Seq(IDs)
      /\ (\A i \in 1 .. Len(o) : o[i] \in S)
      /\ (\A i, j \in 1 .. Len(o) : i # j => o[i] # o[j])
  <2>1. PICK n \in 0 .. MaxIDs : o \in [1 .. n -> S]
    BY DEF Orders
  <2>2. \A i, j \in DOMAIN o : i # j => o[i] # o[j]
    BY DEF Orders
  <2> QED BY <2>1, <2>2, TableAssumption
<1>5. /\ free' \in Seq(IDs) /\ Len(free') <= RecycleLen
      /\ \A i \in 1 .. Len(free') :
           \/ i \in 1 .. Len(free) /\ free'[i] = free[i]
           \/ /\ i > Len(free) /\ i - Len(free) \in 1 .. Len(o)
              /\ free'[i] = o[i - Len(free)]
  <2>1. free \in Seq(IDs) /\ o \in Seq(IDs) /\ RecycleLen \in Nat /\ Len(free) <= RecycleLen
    BY <1>4, TableAssumption DEF Inv, TypeOK
  <2>2. /\ Push(free, o) \in Seq(IDs) /\ Len(Push(free, o)) <= RecycleLen
        /\ \A i \in 1 .. Len(Push(free, o)) :
             \/ i \in 1 .. Len(free) /\ Push(free, o)[i] = free[i]
             \/ /\ i > Len(free) /\ i - Len(free) \in 1 .. Len(o)
                /\ Push(free, o)[i] = o[i - Len(free)]
    BY <2>1, PushFacts, Zenon
  <2> QED BY <1>2, <2>2, Zenon
<1>6. \A i \in 1 .. Len(free) : free[i] \in IDs /\ key[free[i]] = NoKey /\ free[i] < size
  BY DEF Inv, TypeOK, RecyclerSound
<1>7. TypeOK'
  BY <1>1, <1>5, TableAssumption DEF Inv, TypeOK
<1>8. \A i, j \in 1 .. Len(free') : i # j => free'[i] # free'[j]
  <2> SUFFICES ASSUME NEW i \in 1 .. Len(free'), NEW j \in 1 .. Len(free'), i # j
               PROVE  free'[i] # free'[j]
    OBVIOUS
  <2>1. CASE i \in 1 .. Len(free) /\ j \in 1 .. Len(free)
    BY <1>5, <2>1 DEF Inv, RecyclerSound
  <2>2. CASE i > Len(free) /\ j > Len(free)
    <3>1. i - Len(free) \in 1 .. Len(o) /\ j - Len(free) \in 1 .. Len(o)
          /\ i - Len(free) # j - Len(free)
      BY <1>5, <2>2 DEF Inv, TypeOK
    <3>2. free'[i] = o[i - Len(free)] /\ free'[j] = o[j - Len(free)]
      BY <1>5, <2>2, SMTT(60)
    <3>3. o[i - Len(free)] # o[j - Len(free)]
      BY <1>4, <3>1
    <3> QED BY <3>2, <3>3
  <2>3. CASE i \in 1 .. Len(free) /\ j > Len(free)
    <3>1. j - Len(free) \in 1 .. Len(o) /\ free'[j] = o[j - Len(free)]
      BY <1>5, <2>3, SMTT(60)
    <3>2. key[free'[j]] # NoKey
      BY <1>3, <1>4, <3>1
    <3>3. key[free'[i]] = NoKey
      BY <1>5, <1>6, <2>3
    <3> QED BY <3>2, <3>3
  <2>4. CASE i > Len(free) /\ j \in 1 .. Len(free)
    <3>1. i - Len(free) \in 1 .. Len(o) /\ free'[i] = o[i - Len(free)]
      BY <1>5, <2>4, SMTT(60)
    <3>2. key[free'[i]] # NoKey
      BY <1>3, <1>4, <3>1
    <3>3. key[free'[j]] = NoKey
      BY <1>5, <1>6, <2>4
    <3> QED BY <3>2, <3>3
  <2> QED BY <1>5, <2>1, <2>2, <2>3, <2>4
<1>9. \A i \in 1 .. Len(free') : key'[free'[i]] = NoKey /\ free'[i] < size'
  BY <1>1, <1>3, <1>4, <1>5, <1>6, SMTT(60)
<1>10. RecyclerSound'
  BY <1>1, <1>8, <1>9 DEF Inv, TypeOK, RecyclerSound
<1>11. OneIDPerKey'
  BY <1>1 DEF Inv, OneIDPerKey
<1> QED BY <1>7, <1>10, <1>11 DEF Inv

\* Every step preserves the invariant.
LEMMA NextInv == Inv /\ [Next]_vars => Inv'
<1> SUFFICES ASSUME Inv, [Next]_vars PROVE Inv'
  OBVIOUS
<1>1. ASSUME NEW k \in Keys, NEW n \in {0, 1}, FindExisting(k, n) PROVE Inv'
  BY <1>1, TableAssumption DEF FindExisting, Inv, TypeOK, RecyclerSound, OneIDPerKey, IDs
<1>2. ASSUME NEW k \in Keys, NEW n \in {0, 1}, FindNew(k, n) PROVE Inv'
  BY <1>2, FindNewInv
<1>3. ASSUME NEW i \in IDs, Unref(i) PROVE Inv'
  BY <1>3, TableAssumption, SMTT(60) DEF Unref, Inv, TypeOK, RecyclerSound, OneIDPerKey, IDs
<1>4. ASSUME NEW S \in SUBSET IDs, Recycle(S) PROVE Inv'
  BY <1>4, RecycleInv
<1>5. CASE UNCHANGED vars
  BY <1>5 DEF vars, Inv, TypeOK, RecyclerSound, OneIDPerKey
<1> QED BY <1>1, <1>2, <1>3, <1>4, <1>5 DEF Next

\* The inductive invariant holds in every behaviour of the table.
THEOREM Invariance == Spec => []Inv
BY InitInv, NextInv, PTL DEF Spec

\* The state keeps its shape; in particular the recycler stays within its array.
THEOREM TypeCorrect == Spec => []TypeOK
BY Invariance, PTL DEF Inv

\* get_next_recycled_ID() never returns an ID that is in use, nor does the
\* counter, and no ID is on the stack twice.
THEOREM RecyclerIsSound == Spec => []RecyclerSound
BY Invariance, PTL DEF Inv

\* find*ID() never gives a key a second ID.
THEOREM KeysAreUnique == Spec => []OneIDPerKey
BY Invariance, PTL DEF Inv

\* recycle() and find*ID() never change what a referenced ID denotes.
THEOREM ReferencedIDsAreStable == Spec => ReferencedKeepsKey
<1>1. Inv /\ [Next]_vars => [\A i \in IDs : refs[i] > 0 => key'[i] = key[i]]_vars
  <2> SUFFICES ASSUME Inv, Next, NEW j \in IDs, refs[j] > 0 PROVE key'[j] = key[j]
    BY DEF vars
  <2>1. ASSUME NEW k \in Keys, NEW n \in {0, 1}, FindExisting(k, n) PROVE key'[j] = key[j]
    BY <2>1 DEF FindExisting
  <2>2. ASSUME NEW k \in Keys, NEW n \in {0, 1}, FindNew(k, n) PROVE key'[j] = key[j]
    <3>1. key[NextFreeID(free, size)] = NoKey /\ NextFreeID(free, size) \in IDs
      BY <2>2, FreshID
    <3>2. j # NextFreeID(free, size)
      BY <3>1 DEF Inv, TypeOK, RecyclerSound
    <3> QED BY <2>2, <3>2 DEF FindNew, Inv, TypeOK
  <2>3. ASSUME NEW i \in IDs, Unref(i) PROVE key'[j] = key[j]
    BY <2>3 DEF Unref
  <2>4. ASSUME NEW S \in SUBSET IDs, Recycle(S) PROVE key'[j] = key[j]
    BY <2>4 DEF Recycle, Unreferenced, Inv, TypeOK
  <2> QED BY <2>1, <2>2, <2>3, <2>4 DEF Next
<1> QED BY <1>1, Invariance, PTL DEF Spec, ReferencedKeepsKey

-----------------------------------------------------------------------------
\* Every step of the table is a step of IDTable or leaves the keys alone.
LEMMA StepImplements ==
  ASSUME Inv, [Next]_vars
  PROVE  [Promise!Next]_key
<1>1. ASSUME NEW k \in Keys, NEW n \in {0, 1}, FindExisting(k, n) PROVE UNCHANGED key
  BY <1>1 DEF FindExisting
<1>2. ASSUME NEW k \in Keys, NEW n \in {0, 1}, FindNew(k, n) PROVE Promise!Next
  <2> DEFINE x == NextFreeID(free, size)
  <2>1. x \in IDs /\ key[x] = NoKey
    BY <1>2, FreshID
  <2>2. \A j \in IDs : key[j] # k
    BY <1>2, TableAssumption DEF FindNew, Inv, RecyclerSound
  <2>3. Promise!Acquire(k, x)
    BY <1>2, <2>1, <2>2 DEF FindNew, Promise!Acquire
  <2> QED BY <2>1, <2>3 DEF Promise!Next
<1>3. ASSUME NEW i \in IDs, Unref(i) PROVE UNCHANGED key
  BY <1>3 DEF Unref
<1>4. ASSUME NEW S \in SUBSET IDs, Recycle(S) PROVE Promise!Next
  <2>1. \A i \in S : key[i] # NoKey
    BY <1>4 DEF Recycle, Unreferenced, Inv, RecyclerSound
  <2>2. Promise!Release(S)
    BY <1>4, <2>1 DEF Recycle, Promise!Release
  <2> QED BY <2>2 DEF Promise!Next
<1>5. CASE UNCHANGED vars
  BY <1>5 DEF vars
<1> QED BY <1>1, <1>2, <1>3, <1>4, <1>5 DEF Next

\* The array, the lookup table, the recycler and the counter together implement
\* IDTable: what the other parts of Lorentz are promised about IDs holds.
THEOREM TableKeepsPromise == Spec => KeepsPromise
<1>1. Init => Promise!Init
  BY DEF Init, Promise!Init
<1>2. Inv /\ [Next]_vars => [Promise!Next]_key
  BY StepImplements
<1> QED BY <1>1, <1>2, Invariance, PTL DEF Spec, KeepsPromise, Promise!Spec
==============================================================================
