-------------------------- MODULE LookupTableProofs --------------------------
(***************************************************************************)
(* For any set of IDs, any hashes and any capacity, the lookup table is a  *)
(* set of entries, and its binary search is right.                         *)
(***************************************************************************)
EXTENDS LookupTable, TLAPS

Indices == 0 .. size - 1

\* What holds at each place of a call.
CallInv ==
  /\ pc = "idle" => base = 0 /\ left = 0 /\ pos = 0
  /\ request.op = "insert" /\ pc # "idle" =>
       size < Capacity /\ \A i \in Indices : table[i].id # request.entry.id
  /\ pc = "search" /\ left = 0 => size = 0 /\ pos = 0
  /\ pc = "place" =>
       /\ request.op = "insert"
       /\ \A i \in Indices : i < pos => table[i].hash <= hash
       /\ \A i \in Indices : i >= pos => table[i].hash >= hash
  /\ pc \in {"absent", "first", "walk"} => request.op # "insert"
  /\ pc = "absent" => \A i \in Indices : table[i].hash # hash
  /\ pc = "first" => pos < size /\ table[pos].hash = hash
  /\ pc = "walk" =>
       /\ \A i \in Indices : i < pos => table[i] # request.entry
       /\ \A i \in Indices : i >= pos => table[i].hash >= hash

\* The inductive invariant.
Inv == TypeOK /\ TableSorted /\ IDsAreUnique /\ SearchKeepsHash /\ CallInv

USE DEF Hashes, Entries, hash, Indices

\* The entries in use are records, with natural numbers as hashes.
LEMMA EntryTypes ==
  ASSUME TypeOK
  PROVE  /\ \A i \in Indices : table[i] \in Entries /\ table[i].hash \in Nat
                               /\ table[i].hash \in Hashes /\ table[i].id \in IDs
         /\ hash \in Nat /\ request.entry \in Entries
         /\ size \in Nat /\ Capacity \in Nat /\ size <= Capacity
         /\ pos \in Nat /\ base \in Nat /\ left \in Nat
<1>1. MaxHash \in Nat /\ Capacity \in Nat
  BY LookupAssumption
<1>2. size \in Nat /\ size <= Capacity /\ pos \in Nat /\ base \in Nat /\ left \in Nat
  BY <1>1 DEF TypeOK
<1>3. request.entry \in Entries /\ hash \in Nat
  BY <1>1 DEF TypeOK
<1>4. \A i \in Indices : table[i] \in Entries
  <2>1. TAKE i \in Indices
  <2>2. i \in 0 .. Capacity - 1 /\ ~(i >= size)
    BY <1>1, <1>2
  <2>3. table[i] \in Entries \cup {Zero} /\ table[i] # Zero
    BY <2>2 DEF TypeOK
  <2>4. QED
    BY <2>3
<1>5. \A i \in Indices : table[i].hash \in Nat /\ table[i].hash \in Hashes /\ table[i].id \in IDs
  BY <1>1, <1>4
<1>6. QED
  BY <1>1, <1>2, <1>3, <1>4, <1>5

LEMMA InitInv == Init => Inv
<1>1. SUFFICES ASSUME Init PROVE Inv
  OBVIOUS
<1>2. Capacity \in Nat /\ MaxHash \in Nat /\ Zero \notin Entries
  BY LookupAssumption
<1>3. PICK i \in IDs : TRUE
  BY LookupAssumption
<1>4. [id |-> i, hash |-> 0] \in Entries
  BY <1>2
<1> DEFINE first == CHOOSE e \in Entries : TRUE
<1>5. first \in Entries
  BY <1>4
<1>6. /\ table = [j \in 0 .. Capacity - 1 |-> Zero]
      /\ size = 0 /\ request = [op |-> "find", entry |-> first]
      /\ answer = "no" /\ pc = "idle" /\ base = 0 /\ left = 0 /\ pos = 0
  BY <1>1 DEF Init
<1> HIDE DEF first
<1>7. TypeOK
  BY <1>2, <1>5, <1>6 DEF TypeOK
<1>8. TableSorted /\ IDsAreUnique /\ SearchKeepsHash /\ CallInv
  BY <1>2, <1>6 DEF TableSorted, IDsAreUnique, SearchKeepsHash, CallInv
<1>9. QED
  BY <1>7, <1>8 DEF Inv

LEMMA CallPreserves ==
  ASSUME Inv, NEW op \in {"insert", "remove", "find"}, NEW e \in Entries, Call(op, e)
  PROVE  Inv'
<1>1. TypeOK'
  BY EntryTypes DEF Inv, TypeOK, Call
<1>2. TableSorted' /\ IDsAreUnique'
  BY DEF Inv, TableSorted, IDsAreUnique, Call
<1>3. SearchKeepsHash'
  BY EntryTypes DEF Inv, SearchKeepsHash, Call
<1>4. CallInv'
  BY EntryTypes DEF Inv, CallInv, Call, Contents, TypeOK
<1>5. QED
  BY <1>1, <1>2, <1>3, <1>4 DEF Inv

\* The binary search: each of the five ways to go on.
LEMMA SearchPreserves ==
  ASSUME Inv, Search
  PROVE  Inv'
<1> DEFINE mid == left \div 2
           i == base + mid
<1>1. /\ pc = "search" /\ UNCHANGED <<table, size, request, answer>>
      /\ TypeOK /\ TableSorted /\ IDsAreUnique /\ SearchKeepsHash /\ CallInv
  BY DEF Search, Inv
<1>2. /\ mid \in Nat /\ 2 * mid <= left /\ left <= 2 * mid + 1
      /\ left > 0 => mid < left
      /\ left > 1 => mid > 0
      /\ left = 1 => mid = 0
  <2>1. left \in Nat
    BY EntryTypes, <1>1
  <2>2. QED
    BY <2>1
<1>3. /\ \A k \in Indices : table[k] \in Entries /\ table[k].hash \in Nat
      /\ hash \in Nat /\ size \in Nat /\ pos \in Nat /\ base \in Nat /\ left \in Nat
      /\ base + left <= size
  BY EntryTypes, <1>1 DEF TypeOK
<1>4. left > 0 => i \in Indices
  BY <1>2, <1>3
<1>5. /\ \A k \in Indices : k < base => table[k].hash < hash
      /\ \A k \in Indices : k >= base + left => table[k].hash > hash
  BY <1>1, <1>3 DEF SearchKeepsHash
<1>6. \A j, k \in Indices : j <= k => table[j].hash <= table[k].hash
  BY <1>1 DEF TableSorted
<1>7. /\ TableSorted' /\ IDsAreUnique'
      /\ request.op = "insert" =>
           size < Capacity /\ \A k \in Indices : table[k].id # request.entry.id
  BY <1>1 DEF TableSorted, IDsAreUnique, CallInv
<1> HIDE DEF mid, i
<1>8. CASE left = 0 /\ pc' = Miss /\ UNCHANGED <<base, left, pos>>
  <2>1. size = 0 /\ pos = 0
    BY <1>1, <1>8 DEF CallInv
  <2>2. TypeOK'
    BY <1>1, <1>8 DEF TypeOK, Miss
  <2>3. QED
    BY <1>1, <1>7, <1>8, <2>1, <2>2 DEF Inv, Miss, SearchKeepsHash, CallInv, TypeOK
<1>9. CASE left > 0 /\ hash = table[i].hash /\ pos' = i /\ pc' = Hit /\ UNCHANGED <<base, left>>
  <2>1. i \in Indices
    BY <1>4, <1>9
  <2>2. TypeOK'
    BY <1>1, <1>3, <1>9, <2>1 DEF TypeOK, Hit
  <2>3. /\ \A k \in Indices : k < i => table[k].hash <= hash
        /\ \A k \in Indices : k >= i => table[k].hash >= hash
    BY <1>3, <1>6, <1>9, <2>1
  <2>4. QED
    BY <1>1, <1>3, <1>7, <1>9, <2>1, <2>2, <2>3
       DEF Inv, Hit, SearchKeepsHash, CallInv, TypeOK
<1>10. CASE left = 1 /\ hash # table[i].hash /\ pos' = LastPlace(i) /\ pc' = Miss
            /\ UNCHANGED <<base, left>>
  <2>1. i = base /\ i \in Indices
    BY <1>2, <1>3, <1>4, <1>10 DEF i
  <2>2. pos' \in 0 .. size
    BY <1>3, <1>10, <2>1 DEF LastPlace
  <2>3. TypeOK'
    BY <1>1, <1>10, <2>2 DEF TypeOK, Miss
  <2>4. /\ \A k \in Indices : k < pos' => table[k].hash < hash
        /\ \A k \in Indices : k >= pos' => table[k].hash > hash
    BY <1>3, <1>5, <1>10, <2>1 DEF LastPlace
  <2>5. QED
    BY <1>1, <1>3, <1>7, <1>10, <2>3, <2>4
       DEF Inv, Miss, SearchKeepsHash, CallInv, TypeOK
<1>11. CASE left > 1 /\ hash < table[i].hash /\ left' = mid /\ pos' = i /\ UNCHANGED <<pc, base>>
  <2>1. i \in Indices /\ mid > 0 /\ i = base + mid
    BY <1>2, <1>3, <1>4, <1>11 DEF i
  <2>2. TypeOK'
    BY <1>1, <1>2, <1>3, <1>11, <2>1 DEF TypeOK
  <2>3. \A k \in Indices : k >= base + mid => table[k].hash > hash
    BY <1>3, <1>6, <1>11, <2>1
  <2>4. SearchKeepsHash'
    BY <1>1, <1>3, <1>5, <1>11, <2>3, <1>2 DEF SearchKeepsHash
  <2>5. QED
    BY <1>1, <1>2, <1>7, <1>11, <2>1, <2>2, <2>4 DEF Inv, CallInv
<1>12. CASE left > 1 /\ hash > table[i].hash /\ GoRight(mid) /\ pos' = i /\ UNCHANGED pc
  <2>1. i \in Indices /\ mid > 0 /\ i = base + mid
    BY <1>2, <1>3, <1>4, <1>12 DEF i
  <2>2. base' = base + mid /\ left' = left - mid /\ left' > 0 /\ base' + left' = base + left
    BY <1>2, <1>3, <1>12 DEF GoRight
  <2>3. TypeOK'
    BY <1>1, <1>2, <1>3, <1>12, <2>1, <2>2 DEF TypeOK
  <2>4. \A k \in Indices : k < base + mid => table[k].hash < hash
    BY <1>3, <1>6, <1>12, <2>1
  <2>5. SearchKeepsHash'
    BY <1>1, <1>3, <1>5, <1>12, <2>2, <2>4, <1>2 DEF SearchKeepsHash
  <2>6. QED
    BY <1>1, <1>2, <1>3, <1>7, <1>12, <2>1, <2>2, <2>3, <2>5 DEF Inv, CallInv
<1>13. QED
  BY <1>8, <1>9, <1>10, <1>11, <1>12 DEF Search, mid, i

LEMMA PlacePreserves ==
  ASSUME Inv, Place
  PROVE  Inv' /\ Contents' = Contents \cup {request.entry}
<1>1. /\ TypeOK /\ TableSorted /\ IDsAreUnique /\ CallInv
      /\ request.op = "insert" /\ size < Capacity
      /\ \A i \in Indices : table[i].id # request.entry.id
      /\ \A i \in Indices : i < pos => table[i].hash <= hash
      /\ \A i \in Indices : i >= pos => table[i].hash >= hash
  BY DEF Inv, Place, CallInv
<1>2. /\ \A k \in Indices : table[k] \in Entries /\ table[k].hash \in Nat
      /\ hash \in Nat /\ size \in Nat /\ Capacity \in Nat /\ request.entry \in Entries
      /\ pos \in 0 .. size /\ Zero \notin Entries
  BY EntryTypes, <1>1, LookupAssumption DEF TypeOK
<1>3. /\ pc' = "idle" /\ answer' = "yes" /\ request' = request
      /\ size' = size + 1 /\ base' = 0 /\ left' = 0 /\ pos' = 0
  BY DEF Place, Return
<1>4. \A i \in 0 .. Capacity - 1 :
        table'[i] = IF i < pos \/ i > size THEN table[i]
                    ELSE IF i = pos THEN request.entry ELSE table[i - 1]
  BY DEF Place
<1>5. TypeOK'
  <2>1. table' \in [0 .. Capacity - 1 -> Entries \cup {Zero}]
    BY <1>1, <1>2 DEF Place, TypeOK
  <2>2. \A i \in 0 .. Capacity - 1 : table'[i] = Zero <=> i >= size'
    BY <1>1, <1>2, <1>3, <1>4 DEF TypeOK
  <2>3. QED
    BY <1>1, <1>2, <1>3, <2>1, <2>2 DEF TypeOK
<1>6. TableSorted'
  BY <1>1, <1>2, <1>3, <1>4 DEF TableSorted
<1>7. IDsAreUnique'
  BY <1>1, <1>2, <1>3, <1>4 DEF IDsAreUnique
<1>8. SearchKeepsHash' /\ CallInv'
  BY <1>3 DEF SearchKeepsHash, CallInv
<1>9. Contents' = Contents \cup {request.entry}
  <2>1. ASSUME NEW x \in Contents' PROVE x \in Contents \cup {request.entry}
    <3>1. PICK k \in 0 .. size : x = table'[k]
      BY <1>2, <1>3, <2>1 DEF Contents
    <3>2. x = IF k < pos THEN table[k] ELSE IF k = pos THEN request.entry ELSE table[k - 1]
      BY <1>1, <1>2, <1>4, <3>1
    <3>3. (k < pos => k \in Indices) /\ (k > pos => k - 1 \in Indices)
      BY <1>2, <3>1
    <3>4. QED
      BY <1>2, <3>1, <3>2, <3>3 DEF Contents
  <2>2. request.entry \in Contents'
    BY <1>1, <1>2, <1>3, <1>4 DEF Contents
  <2>3. ASSUME NEW x \in Contents PROVE x \in Contents'
    <3>1. PICK k \in Indices : x = table[k]
      BY <2>3 DEF Contents
    <3>2. CASE k < pos
      <4>1. k \in 0 .. size' - 1 /\ table'[k] = x
        BY <1>1, <1>2, <1>3, <1>4, <3>1, <3>2
      <4>2. QED
        BY <4>1 DEF Contents
    <3>3. CASE k >= pos
      <4>1. k + 1 \in 0 .. size' - 1 /\ table'[k + 1] = x
        BY <1>1, <1>2, <1>3, <1>4, <3>1, <3>3
      <4>2. QED
        BY <4>1 DEF Contents
    <3>4. QED
      BY <1>2, <3>2, <3>3
  <2>4. QED
    BY <2>1, <2>2, <2>3
<1>10. QED
  BY <1>5, <1>6, <1>7, <1>8, <1>9 DEF Inv

\* The steps that only look.
LEMMA LookPreserves ==
  ASSUME Inv, Absent \/ First \/ Walk \/ NotThere
  PROVE  Inv'
<1>1. /\ TypeOK /\ TableSorted /\ IDsAreUnique /\ CallInv /\ UNCHANGED <<table, size, request>>
      /\ pc # "search" /\ pc # "idle" /\ pc' # "search" /\ pc' # "place"
  BY DEF Inv, Absent, First, Walk, NotThere, Return
<1>2. /\ \A k \in Indices : table[k] \in Entries /\ table[k].hash \in Nat
      /\ hash \in Nat /\ size \in Nat /\ pos \in Nat
  BY EntryTypes, <1>1
<1>3. TableSorted' /\ IDsAreUnique' /\ SearchKeepsHash'
  BY <1>1 DEF TableSorted, IDsAreUnique, SearchKeepsHash
<1>4. TypeOK'
  BY <1>1, <1>2 DEF TypeOK, Absent, First, Walk, NotThere, Return, WalkLeft, CallInv
<1>5. CallInv'
  <2>1. CASE Absent \/ NotThere
    BY <1>1, <2>1 DEF CallInv, Absent, NotThere, Return
  <2>2. CASE First
    <3>1. pos < size /\ table[pos].hash = hash /\ request.op # "insert"
      BY <1>1, <2>2 DEF CallInv, First
    <3>2. CASE WalkLeft
      BY <1>1, <1>2, <2>2, <3>1, <3>2 DEF CallInv, First, WalkLeft
    <3>3. CASE ~WalkLeft
      <4>1. \A i \in Indices : i >= pos => table[i].hash >= hash
        BY <1>1, <1>2, <3>1 DEF TableSorted
      <4>2. \A i \in Indices : i < pos => table[i].hash # hash
        <5>1. SUFFICES ASSUME NEW i \in Indices, i < pos PROVE table[i].hash < hash
          BY <1>2
        <5>2. pos - 1 \in Indices /\ table[pos - 1].hash # hash /\ i <= pos - 1
          BY <1>2, <3>1, <3>3, <5>1 DEF WalkLeft
        <5>3. table[i].hash <= table[pos - 1].hash /\ table[pos - 1].hash <= table[pos].hash
          BY <1>1, <1>2, <3>1, <5>1, <5>2 DEF TableSorted
        <5>4. QED
          BY <1>2, <3>1, <5>2, <5>3
      <4>3. \A i \in Indices : i < pos => table[i] # request.entry
        BY <4>2
      <4>4. QED
        BY <1>1, <2>2, <3>1, <3>3, <4>1, <4>3 DEF CallInv, First
    <3>4. QED
      BY <3>2, <3>3
  <2>3. CASE Walk
    BY <1>1, <1>2, <2>3 DEF CallInv, Walk
  <2>4. QED
    BY <2>1, <2>2, <2>3
<1>6. QED
  BY <1>3, <1>4, <1>5 DEF Inv

LEMMA TherePreserves ==
  ASSUME Inv, There
  PROVE  /\ Inv'
         /\ request.entry \in Contents
         /\ request.op = "remove" => Contents' = Contents \ {request.entry}
         /\ request.op = "find" => Contents' = Contents
<1>1. TypeOK /\ TableSorted /\ IDsAreUnique /\ CallInv
  BY DEF Inv
<1>2. /\ \A k \in Indices : table[k] \in Entries /\ table[k].hash \in Nat
      /\ hash \in Nat /\ size \in Nat /\ Capacity \in Nat /\ size <= Capacity
      /\ request.entry \in Entries /\ Zero \notin Entries /\ pos \in Indices
  BY EntryTypes, <1>1, LookupAssumption DEF TypeOK, There
<1>3. table[pos] = request.entry
  BY <1>2 DEF There
<1>4. /\ pc' = "idle" /\ answer' = "yes" /\ request' = request
      /\ base' = 0 /\ left' = 0 /\ pos' = 0
  BY DEF There, Return
<1>5. SearchKeepsHash' /\ CallInv'
  BY <1>4 DEF SearchKeepsHash, CallInv
<1>6. CASE request.op = "find"
  <2>1. UNCHANGED <<table, size>>
    BY <1>6 DEF There
  <2>2. TypeOK' /\ TableSorted' /\ IDsAreUnique'
    BY <1>1, <1>2, <1>4, <2>1 DEF TypeOK, TableSorted, IDsAreUnique
  <2>3. QED
    BY <1>2, <1>3, <1>5, <1>6, <2>1, <2>2 DEF Inv, Contents
<1>7. CASE request.op = "remove"
  <2>1. size' = size - 1 /\ table' = Removed
    BY <1>7 DEF There
  <2>2. \A i \in 0 .. Capacity - 1 :
          table'[i] = IF i < pos \/ i >= size THEN table[i]
                      ELSE IF i < size - 1 THEN table[i + 1] ELSE Zero
    BY <2>1 DEF Removed
  <2>3. TypeOK'
    <3>1. table' \in [0 .. Capacity - 1 -> Entries \cup {Zero}]
      BY <1>1, <1>2, <2>1 DEF Removed, TypeOK
    <3>2. \A i \in 0 .. Capacity - 1 : table'[i] = Zero <=> i >= size'
      BY <1>1, <1>2, <2>1, <2>2 DEF TypeOK
    <3>3. QED
      BY <1>1, <1>2, <1>4, <2>1, <3>1, <3>2 DEF TypeOK
  <2>4. TableSorted'
    BY <1>1, <1>2, <2>1, <2>2 DEF TableSorted
  <2>5. IDsAreUnique'
    BY <1>1, <1>2, <2>1, <2>2 DEF IDsAreUnique
  <2>6. \A k \in 0 .. size' - 1 :
          table'[k] = table[IF k < pos THEN k ELSE k + 1]
    BY <1>2, <2>1, <2>2
  <2>7. Contents' = Contents \ {request.entry}
    <3>1. ASSUME NEW x \in Contents' PROVE x \in Contents /\ x # request.entry
      <4>1. PICK k \in 0 .. size' - 1 : x = table'[k]
        BY <3>1 DEF Contents
      <4>2. PICK j \in Indices : x = table[j] /\ j # pos
        BY <1>2, <2>1, <2>6, <4>1
      <4>3. QED
        BY <1>1, <1>2, <1>3, <4>2 DEF Contents, IDsAreUnique
    <3>2. ASSUME NEW x \in Contents, x # request.entry PROVE x \in Contents'
      <4>1. PICK j \in Indices : x = table[j] /\ j # pos
        BY <1>3, <3>2 DEF Contents
      <4>2. CASE j < pos
        <5>1. j \in 0 .. size' - 1 /\ table'[j] = x
          BY <1>2, <2>1, <2>6, <4>1, <4>2
        <5>2. QED
          BY <5>1 DEF Contents
      <4>3. CASE j > pos
        <5>1. j - 1 \in 0 .. size' - 1 /\ table'[j - 1] = x
          BY <1>2, <2>1, <2>6, <4>1, <4>3
        <5>2. QED
          BY <5>1 DEF Contents
      <4>4. QED
        BY <1>2, <4>1, <4>2, <4>3
    <3>3. QED
      BY <3>1, <3>2
  <2>8. request.entry \in Contents
    BY <1>2, <1>3 DEF Contents
  <2>9. QED
    BY <1>5, <1>7, <2>3, <2>4, <2>5, <2>7, <2>8 DEF Inv
<1>8. QED
  BY <1>6, <1>7 DEF There

LEMMA NextPreserves == Inv /\ [Next]_vars => Inv'
<1>1. SUFFICES ASSUME Inv, [Next]_vars PROVE Inv'
  OBVIOUS
<1>2. CASE UNCHANGED vars
  BY <1>1, <1>2 DEF vars, Inv, TypeOK, TableSorted, IDsAreUnique, SearchKeepsHash, CallInv
<1>3. QED
  BY <1>1, <1>2, CallPreserves, SearchPreserves, PlacePreserves, LookPreserves,
     TherePreserves DEF Next, Step

\* The strengthened invariant holds in every state of every call.
THEOREM Invariance == Spec => []Inv
<1>1. QED
  BY InitInv, NextPreserves, PTL DEF Spec

\* No function of lookup-table.c leaves the array: all indices are in range.
THEOREM TypeCorrect == Spec => []TypeOK
<1>1. Inv => TypeOK
  BY DEF Inv
<1>2. QED
  BY <1>1, Invariance, PTL

\* The entries are sorted by hash whatever is inserted and removed.
THEOREM StaysSorted == Spec => []TableSorted
<1>1. Inv => TableSorted
  BY DEF Inv
<1>2. QED
  BY <1>1, Invariance, PTL

\* binsearch() never drops the half in which the hash is.
THEOREM SearchIsSound == Spec => []SearchKeepsHash
<1>1. Inv => SearchKeepsHash
  BY DEF Inv
<1>2. QED
  BY <1>1, Invariance, PTL

\* A step of the table is a step of the set, or none that its callers see.
LEMMA StepImplements ==
  ASSUME Inv, [Next]_vars
  PROVE  [Set!Next]_<<Contents, request, IF pc = "idle" THEN answer ELSE "pending">>
<1>1. TypeOK /\ answer # "pending"
  BY DEF Inv, TypeOK
<1>2. ASSUME NEW op \in {"insert", "remove", "find"}, NEW e \in Entries, Call(op, e)
      PROVE  Set!Call
  BY <1>1, <1>2 DEF Call, Set!Call, Contents
<1>3. CASE Search \/ First \/ Walk
  <2>1. pc # "idle" /\ pc' # "idle" /\ UNCHANGED <<table, size, request>>
    BY <1>3 DEF Search, First, Walk, Hit, Miss
  <2>2. QED
    BY <2>1 DEF Contents
<1>4. CASE Place
  <2>1. /\ pc = "place" /\ pc' = "idle" /\ answer' = "yes" /\ request' = request
        /\ request.op = "insert" /\ Contents' = Contents \cup {request.entry}
    BY <1>4, PlacePreserves DEF Place, Return, Inv, CallInv
  <2>2. Set!Return
    BY <2>1 DEF Set!Return
  <2>3. QED
    BY <2>2 DEF Set!Next
<1>5. CASE Absent \/ NotThere
  <2>1. /\ pc # "idle" /\ pc' = "idle" /\ answer' = "no" /\ UNCHANGED <<table, size, request>>
        /\ request.op \in {"remove", "find"}
    BY <1>1, <1>5 DEF Absent, NotThere, Return, Inv, CallInv, TypeOK
  <2>2. \A i \in Indices : table[i] # request.entry
    <3>1. CASE Absent
      BY <3>1 DEF Absent, Inv, CallInv
    <3>2. CASE NotThere
      <4>1. /\ \A i \in Indices : i < pos => table[i] # request.entry
            /\ \A i \in Indices : i >= pos => table[i].hash >= hash
            /\ TableSorted
        BY <3>2 DEF NotThere, Inv, CallInv
      <4>2. /\ \A k \in Indices : table[k].hash \in Nat
            /\ hash \in Nat /\ size \in Nat /\ pos \in Nat
        BY EntryTypes, <1>1
      <4>3. \A i \in Indices : i >= pos => table[i].hash # hash
        <5>1. CASE pos >= size
          BY <4>2, <5>1
        <5>2. CASE pos < size
          <6>1. pos \in Indices /\ table[pos].hash > hash
            BY <3>2, <4>1, <4>2, <5>2 DEF NotThere
          <6>2. QED
            BY <4>1, <4>2, <6>1 DEF TableSorted
        <5>3. QED
          BY <4>2, <5>1, <5>2
      <4>4. QED
        BY <4>1, <4>2, <4>3
    <3>3. QED
      BY <1>5, <3>1, <3>2
  <2>3. request.entry \notin Contents /\ Contents' = Contents
    BY <2>1, <2>2 DEF Contents
  <2>4. Set!Return
    BY <2>1, <2>3 DEF Set!Return
  <2>5. QED
    BY <2>4 DEF Set!Next
<1>6. CASE There
  <2>1. /\ pc # "idle" /\ pc' = "idle" /\ answer' = "yes" /\ request' = request
        /\ request.op \in {"remove", "find"}
    BY <1>6 DEF There, Return
  <2>2. Set!Return
    BY <1>6, <2>1, TherePreserves DEF Set!Return
  <2>3. QED
    BY <2>2 DEF Set!Next
<1>7. CASE UNCHANGED vars
  BY <1>7 DEF vars, Contents
<1>8. QED
  BY <1>2, <1>3, <1>4, <1>5, <1>6, <1>7 DEF Next, Step, Set!Next

\* The lookup table implements the set its callers rely on: find and remove
\* succeed exactly for the entries that were inserted and not removed since.
THEOREM TableIsASet == Spec => IsASet
<1>1. Init => Set!Init
  <2>1. SUFFICES ASSUME Init PROVE Set!Init
    OBVIOUS
  <2>2. Contents = {}
    BY <2>1 DEF Init, Contents
  <2>3. QED
    BY <2>1, <2>2 DEF Init, Set!Init
<1>2. Inv /\ [Next]_vars
        => [Set!Next]_<<Contents, request, IF pc = "idle" THEN answer ELSE "pending">>
  BY StepImplements
<1>3. QED
  BY <1>1, <1>2, Invariance, PTL DEF Spec, IsASet, Set!Spec
==============================================================================
