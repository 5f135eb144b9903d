--------------------------- MODULE ShmLockProofs ---------------------------
(***************************************************************************)
(* Proofs about the lock of the shared memory, for any number of threads,  *)
(* workers and regions and whoever dies: it excludes, its recorded owner   *)
(* is right, and whoever holds it has the mappings the counters speak of.  *)
(***************************************************************************)
EXTENDS ShmLock, TLAPS

Mutex == [by : Threads \cup {NoThread}, state : {"ok", "died"}]
Live == alive \cup {Main}

\* The places where a region is being enlarged, and those behind the check for changes.
Growing == {"count", "map", "max", "point"}
Current == {"ensure", "cs", "clear", "release"} \cup Growing

Types ==
  /\ outer \in Mutex /\ inner \in Mutex
  /\ pc \in [Threads -> Holding \cup {"idle", "outer"}]
  /\ region \in [Threads -> Nat]
  /\ file \in [Regions -> Nat] /\ max \in [Regions -> Nat] /\ global_shm_counter \in Nat
  /\ local_shm_counter \in [Processes -> Nat]
  /\ mapped \in [Processes -> [Regions -> Nat]]
  /\ fresh \in [Processes -> [Regions -> BOOLEAN]]
  /\ alive \subseteq Workers

\* Who holds what.  Only workers that exist are anywhere but outside.
Locks ==
  /\ \A t \in Threads : outer.by = t <=> pc[t] \in Holding
  /\ \A t \in Threads : inner.by = t <=> pc[t] = "cs"
  /\ \A t \in Threads : owner = t <=> pc[t] \in Holding \ {"owner", "release"}
  /\ \A w \in Workers : pc[w] # "idle" => w \in alive

\* A mapping is as large as the counters say if its process knows of all changes, but for
\* the region that is being enlarged; of that change nobody else knows.
Sizes ==
  /\ \A r \in Regions : max[r] <= file[r]
  /\ \A p \in Live : local_shm_counter[p] <= global_shm_counter
  /\ \A p \in Live, r \in Regions : mapped[p][r] <= file[r]
  /\ \A p \in Live, r \in Regions :
       local_shm_counter[p] = global_shm_counter
         => \/ mapped[p][r] = max[r]
            \/ \E t \in Threads : pc[t] = "max" /\ region[t] = r

\* What a thread that holds the lock has done so far.
DoneBy(t) ==
  LET p == Process(t)
      r == region[t]
  IN  /\ pc[t] \in Growing => r \in Regions
      /\ pc[t] \in Current => local_shm_counter[p] = global_shm_counter
      /\ pc[t] = "remapped" => mapped[p] = max
      /\ pc[t] \in {"count", "map"} => mapped[p][r] < file[r]
      /\ pc[t] = "max" => mapped[p][r] = max[r] + 1
      /\ pc[t] \in {"map", "max"} =>
           \A q \in Live : q # p => local_shm_counter[q] < global_shm_counter

Done == \A t \in Threads : DoneBy(t)

\* A pointer points to its mapping unless it is about to be set.
Pointers ==
  \A p \in Live, r \in Regions :
    \/ fresh[p][r]
    \/ \E t \in Threads : /\ Process(t) = p
                          /\ \/ pc[t] = "remapped"
                             \/ pc[t] \in {"max", "point"} /\ region[t] = r

Memory == Sizes /\ Done /\ Pointers
Inv == Types /\ Locks /\ (~torn => Memory)
-----------------------------------------------------------------------------
\* The process of a thread; that of a thread that is in lock_shm() is there.
LEMMA ProcessType ==
  ASSUME NEW t \in Threads
  PROVE  /\ Process(t) \in Processes
         /\ Types /\ Locks /\ pc[t] # "idle" => Process(t) \in Live
  BY DEF Process, Processes, Threads, Live, Locks

\* What processes there are.
LEMMA LiveType == Types => Live \subseteq Processes
  BY DEF Types, Live, Processes

\* In the beginning nobody holds anything and all mappings are as created.
LEMMA InitInv == Init => Inv
<1> SUFFICES ASSUME Init PROVE Inv
  OBVIOUS
<1>1. Types
  BY DEF Init, Types, Mutex
<1>2. \A t \in Threads : pc[t] = "idle" /\ t # NoThread
  BY NamesAssumption DEF Init
<1>3. Locks
  BY <1>2 DEF Init, Locks, Holding, Threads
<1>4. \A p \in Live : p \in Processes
  BY <1>1, LiveType
<1>5. Sizes
  BY <1>4 DEF Init, Sizes
<1>6. Done
  BY <1>2 DEF Done, DoneBy, Growing, Current
<1>7. Pointers
  BY <1>4 DEF Init, Pointers
<1>8. QED
  BY <1>1, <1>3, <1>5, <1>6, <1>7 DEF Inv, Memory

\* At most one thread holds the lock.
LEMMA Alone ==
  ASSUME Types, Locks, NEW t \in Threads, pc[t] \in Holding
  PROVE  \A u \in Threads : u # t => pc[u] \in {"idle", "outer"}
  BY DEF Types, Locks

\* Locking and unlocking a mutex, and the end of its holder.
LEMMA MutexOps ==
  ASSUME NEW m \in Mutex, NEW t \in Threads
  PROVE  /\ Locked(m, t) \in Mutex /\ Locked(m, t).by = t
         /\ Released(m, t) \in Mutex
         /\ m.by = t => Released(m, t).by = NoThread
         /\ Left(m, t) \in Mutex
         /\ Left(m, t).by = IF m.by = t THEN NoThread ELSE m.by
  BY DEF Mutex, Locked, Acquired, Released, Left
-----------------------------------------------------------------------------
\* A step that leaves memory alone, by a thread that is not changing it.
Quiet(t) ==
  /\ UNCHANGED <<shared, private, torn>>
  /\ alive' \subseteq alive
  /\ pc' \in [Threads -> Holding \cup {"idle", "outer"}]
  /\ \A u \in Threads : u # t => pc'[u] = pc[u] /\ region'[u] = region[u]
  /\ {pc[t], pc'[t]} \cap (Growing \cup {"remapped"}) = {}
  /\ pc'[t] \in Current =>
       pc[t] \in Current \/ local_shm_counter[Process(t)] = global_shm_counter

\* Such a step keeps what is known of the memory.
LEMMA QuietStep ==
  ASSUME Memory, NEW t \in Threads, Quiet(t)
  PROVE  Memory'
<1>1. UNCHANGED <<file, max, global_shm_counter, local_shm_counter, mapped, fresh>>
  BY DEF Quiet, shared, private
<1>2. Live' \subseteq Live
  BY DEF Quiet, Live
<1>3. Sizes'
  <2>1. \A u \in Threads : pc[u] = "max" => pc'[u] = "max" /\ region'[u] = region[u]
    BY ZenonT(30) DEF Quiet, Growing
  <2>2. QED
    BY <1>1, <1>2, <2>1 DEF Memory, Sizes
<1>4. Done'
  <2> SUFFICES ASSUME NEW u \in Threads PROVE DoneBy(u)'
    BY DEF Done
  <2>1. CASE u = t
    BY <1>1, <2>1, ZenonT(30) DEF Quiet, Memory, Done, DoneBy, Growing, Process
  <2>2. CASE u # t
    BY <1>1, <1>2, <2>2 DEF Quiet, Memory, Done, DoneBy, Process
  <2>3. QED
    BY <2>1, <2>2
<1>5. Pointers'
  <2>1. \A u \in Threads : pc[u] \in {"remapped", "max", "point"} => pc'[u] = pc[u] /\ region'[u] = region[u]
    BY ZenonT(30) DEF Quiet, Growing
  <2>2. QED
    BY <1>1, <1>2, <2>1 DEF Memory, Pointers, Process
<1>6. QED
  BY <1>3, <1>4, <1>5 DEF Memory

\* The steps of this kind outside of the mutexes: a thread begins, a worker terminates.
LEMMA OutsideSteps ==
  ASSUME Inv, NEW t \in Threads, Begin(t) \/ (t \in Workers /\ Terminate(t))
  PROVE  Inv'
<1>1. pc[t] = "idle" /\ pc' = [pc EXCEPT ![t] = "outer"]
  BY DEF Begin, Terminate, Goes, Inv, Locks, Holding
<1>2. UNCHANGED <<mutexes, region, shared, private, alive, torn>> /\ (t \in Workers => t \in alive)
  BY DEF Begin, Terminate, Running, life
<1>3. Types'
  BY <1>1, <1>2 DEF Inv, Types, mutexes, shared, private, Holding
<1>4. Locks'
  BY <1>1, <1>2 DEF Inv, Types, Locks, mutexes, Holding
<1>5. Quiet(t)
  BY <1>1, <1>2 DEF Inv, Types, Quiet, Growing, Current, Holding
<1>6. QED
  BY <1>2, <1>3, <1>4, <1>5, QuietStep DEF Inv

\* What has to be shown of a step by the only thread that holds the lock before or after it.
OneHolds(t) ==
  /\ \A u \in Threads : u # t => /\ pc'[u] = pc[u] /\ pc[u] \in {"idle", "outer"}
                                 /\ outer'.by # u /\ inner'.by # u /\ owner' # u
  /\ outer'.by = t <=> pc'[t] \in Holding
  /\ inner'.by = t <=> pc'[t] = "cs"
  /\ owner' = t <=> pc'[t] \in Holding \ {"owner", "release"}
  /\ \A w \in alive : w # t => w \in alive'
  /\ pc'[t] # "idle" => pc[t] # "idle" /\ (t \in alive => t \in alive')

\* Such a step keeps what is known of the mutexes.
LEMMA OneHoldsStep ==
  ASSUME Types, Locks, NEW t \in Threads, OneHolds(t)
  PROVE  Locks'
<1>1. \A w \in Workers : w \in Threads
  BY DEF Threads
<1>2. \A w \in Workers : pc'[w] # "idle" => w \in alive'
  BY <1>1 DEF OneHolds, Locks
<1>3. \A u \in Threads : u # t => pc'[u] \notin Holding /\ pc'[u] # "cs"
  BY DEF OneHolds, Holding
<1>4. QED
  BY <1>2, <1>3 DEF OneHolds, Locks

\* The mutexes are locked and unlocked, and the owner is recorded and removed.
LEMMA LockSteps ==
  ASSUME Inv, NEW t \in Threads,
         \/ LockOuter(t) \/ SetOwner(t) \/ LockInner(t)
         \/ UnlockInner(t) \/ ClearOwner(t) \/ UnlockOuter(t)
  PROVE  Inv'
<1>0. /\ outer \in Mutex /\ inner \in Mutex /\ \A u \in Threads : u # NoThread
      /\ pc \in [Threads -> Holding \cup {"idle", "outer"}] /\ region \in [Threads -> Nat]
  BY NamesAssumption DEF Inv, Types
<1>1. PICK x \in Holding \cup {"idle"} : pc' = [pc EXCEPT ![t] = x]
  BY DEF LockOuter, SetOwner, LockInner, UnlockInner, ClearOwner, UnlockOuter, Goes, Holding
<1>2. UNCHANGED <<shared, private, torn>> /\ alive' \subseteq alive
  BY DEF LockOuter, SetOwner, LockInner, UnlockInner, ClearOwner, UnlockOuter, life
<1>3. region' \in [Threads -> Nat] /\ \A u \in Threads : u # t => region'[u] = region[u]
  <2>1. region' = region \/ region' = [region EXCEPT ![t] = 1]
    BY DEF LockOuter, SetOwner, LockInner, UnlockInner, ClearOwner, UnlockOuter
  <2>2. QED
    BY <1>0, <2>1
<1>4. outer' \in Mutex /\ inner' \in Mutex
  BY <1>0, MutexOps, SMTT(60) DEF LockOuter, SetOwner, LockInner, UnlockInner, ClearOwner, UnlockOuter
<1>5. Types'
  BY <1>0, <1>1, <1>2, <1>3, <1>4, ZenonT(30) DEF Inv, Types, shared, private
<1>6. \A u \in Threads : u # t => pc'[u] = pc[u]
  BY <1>0, <1>1
<1>7. OneHolds(t)
  <2>1. CASE LockOuter(t)
    <3>1. outer'.by = t /\ outer.by = NoThread /\ UNCHANGED <<inner, owner, alive>>
      BY <1>0, <2>1, MutexOps, SMTT(60) DEF LockOuter, Free, life
    <3>2. pc[t] = "outer" /\ pc'[t] = "owner"
      BY <1>0, <2>1 DEF LockOuter, Goes
    <3>3. \A u \in Threads : pc[u] \notin Holding
      BY <1>0, <3>1 DEF Inv, Locks
    <3>4. \A u \in Threads : inner.by # u /\ owner # u /\ pc[u] \in {"idle", "outer"}
      BY <1>0, <3>3 DEF Inv, Locks, Holding
    <3>5. QED
      BY <1>6, <3>1, <3>2, <3>4 DEF OneHolds, Holding
  <2>2. CASE ~LockOuter(t)
    <3>1. pc[t] \in Holding
      BY <2>2 DEF SetOwner, LockInner, UnlockInner, ClearOwner, UnlockOuter, Holding
    <3>2. /\ outer.by = t
          /\ \A u \in Threads : u # t => pc[u] \in {"idle", "outer"} /\ inner.by # u /\ owner # u
      BY <3>1, Alone DEF Inv, Locks, Holding
    <3>3. CASE SetOwner(t)
      <4>1. /\ pc[t] = "owner" /\ owner' = t /\ pc'[t] = "remap" /\ inner.by # t
            /\ UNCHANGED <<outer, inner, alive>>
        BY <1>0, <3>3 DEF SetOwner, Goes, life, Inv, Locks
      <4>2. QED
        BY <1>6, <3>2, <4>1 DEF OneHolds, Holding
    <3>4. CASE LockInner(t)
      <4>1. pc[t] = "ensure" /\ owner = t
        BY <3>4 DEF LockInner, Inv, Locks, Holding
      <4>2. inner'.by = t /\ pc'[t] = "cs" /\ UNCHANGED <<outer, owner, alive>>
        BY <1>0, <3>4, MutexOps, SMTT(60) DEF LockInner, Goes, life
      <4>3. QED
        BY <1>6, <3>2, <4>1, <4>2 DEF OneHolds, Holding
    <3>5. CASE UnlockInner(t)
      <4>1. pc[t] = "cs" /\ inner.by = t /\ owner = t
        BY <3>5 DEF UnlockInner, Inv, Locks, Holding
      <4>2. inner'.by = NoThread /\ pc'[t] = "clear" /\ UNCHANGED <<outer, owner, alive>>
        BY <1>0, <3>5, <4>1, MutexOps, SMTT(60) DEF UnlockInner, Goes, life
      <4>3. QED
        BY <1>0, <1>6, <3>2, <4>1, <4>2 DEF OneHolds, Holding
    <3>6. CASE ClearOwner(t)
      <4>1. /\ pc[t] = "clear" /\ owner' = NoThread /\ pc'[t] = "release" /\ inner.by # t
            /\ UNCHANGED <<outer, inner, alive>>
        BY <1>0, <3>6 DEF ClearOwner, Cleared, Goes, life, Inv, Locks
      <4>2. QED
        BY <1>0, <1>6, <3>2, <4>1 DEF OneHolds, Holding
    <3>7. CASE UnlockOuter(t)
      <4>1. pc[t] = "release" /\ inner.by # t /\ pc'[t] = "idle"
        BY <1>0, <3>7 DEF UnlockOuter, Goes, Inv, Locks
      <4>2. /\ outer'.by = NoThread /\ UNCHANGED <<inner, owner>>
            /\ \A w \in alive : w # t => w \in alive'
        BY <1>0, <3>2, <3>7, MutexOps, SMTT(60) DEF UnlockOuter
      <4>3. owner # t
        BY <4>1 DEF Inv, Locks
      <4>4. QED
        BY <1>0, <1>6, <3>2, <4>1, <4>2, <4>3 DEF OneHolds, Holding
    <3>8. QED
      BY <2>2, <3>3, <3>4, <3>5, <3>6, <3>7
  <2>3. QED
    BY <2>1, <2>2
<1>8. Quiet(t)
  <2>1. pc' \in [Threads -> Holding \cup {"idle", "outer"}]
    BY <1>0, <1>1
  <2>2. /\ {pc[t], pc'[t]} \cap (Growing \cup {"remapped"}) = {}
        /\ pc'[t] \in Current => pc[t] \in Current
    BY <1>0 DEF LockOuter, SetOwner, LockInner, UnlockInner, ClearOwner, UnlockOuter, Goes, Growing, Current
  <2>3. QED
    BY <1>2, <1>3, <1>6, <2>1, <2>2 DEF Quiet
<1>9. QED
  BY <1>2, <1>5, <1>7, <1>8, QuietStep, OneHoldsStep DEF Inv
-----------------------------------------------------------------------------
\* Between the recording of the owner and the inner mutex, a thread moves without touching
\* the mutexes.
Within == {"remap", "remapped", "ensure"} \cup Growing
Moves(t, x) ==
  /\ pc[t] \in Within /\ x \in Within
  /\ pc' = [pc EXCEPT ![t] = x]
  /\ UNCHANGED <<mutexes, life>>

\* Where the threads are then: nobody else is in between.
LEMMA Places ==
  ASSUME Inv, NEW t \in Threads, NEW x, Moves(t, x)
  PROVE  /\ pc' \in [Threads -> Holding \cup {"idle", "outer"}] /\ pc'[t] = x
         /\ \A u \in Threads : u # t => pc'[u] = pc[u] /\ pc[u] \in {"idle", "outer"}
         /\ Process(t) \in Live /\ Live' = Live /\ Live \subseteq Processes
<1>1. pc \in [Threads -> Holding \cup {"idle", "outer"}] /\ pc[t] \in Holding /\ x \in Holding
  BY DEF Inv, Types, Moves, Within, Growing, Holding
<1>2. pc[t] # "idle"
  BY DEF Moves, Within, Growing
<1>3. Live' = Live
  BY DEF Moves, life, Live
<1>4. QED
  BY <1>1, <1>2, <1>3, Alone, ProcessType, LiveType DEF Moves, Inv

\* These steps keep what is known of the mutexes.
LEMMA MovesLocks ==
  ASSUME Inv, NEW t \in Threads, NEW x, Moves(t, x)
  PROVE  Locks'
<1>1. /\ pc'[t] = x /\ x \in Within /\ pc[t] \in Within
      /\ \A u \in Threads : u # t => pc'[u] = pc[u] /\ pc[u] \in {"idle", "outer"}
  BY Places, ZenonT(30) DEF Moves
<1>2. outer.by = t /\ inner.by # t /\ owner = t
  BY <1>1 DEF Inv, Locks, Within, Growing, Holding
<1>3. \A u \in Threads : u # t => outer.by # u /\ inner.by # u /\ owner # u
  BY <1>1 DEF Inv, Locks, Holding
<1>4. UNCHANGED <<outer, inner, owner, alive>>
  BY DEF Moves, mutexes, life
<1>5. OneHolds(t)
  BY <1>1, <1>2, <1>3, <1>4 DEF OneHolds, Within, Growing, Holding
<1>6. QED
  BY <1>5, OneHoldsStep DEF Inv

\* With nobody else in between, only what this thread has done counts.
LEMMA DoneAlone ==
  ASSUME NEW t \in Threads, \A u \in Threads : u # t => pc'[u] \in {"idle", "outer"}, DoneBy(t)'
  PROVE  Done'
<1>1. ASSUME NEW u \in Threads, u # t PROVE DoneBy(u)'
  BY <1>1 DEF DoneBy, Growing, Current
<1>2. QED
  BY <1>1 DEF Done

\* A process that is behind maps everything again.
LEMMA RemapStep ==
  ASSUME Inv, ~torn, NEW t \in Threads, Moves(t, "remapped"), pc[t] = "remap",
         mapped' = [mapped EXCEPT ![Process(t)] = max],
         fresh' = [fresh EXCEPT ![Process(t)] = [r \in Regions |-> FALSE]],
         UNCHANGED <<shared, local_shm_counter, region>>,
         local_shm_counter[Process(t)] # global_shm_counter
  PROVE  Memory'
<1> DEFINE p == Process(t)
<1>1. /\ pc'[t] = "remapped" /\ p \in Live /\ Live' = Live /\ Live \subseteq Processes
      /\ \A u \in Threads : u # t => pc'[u] = pc[u] /\ pc[u] \in {"idle", "outer"}
      /\ p' = p
  BY Places DEF Process
<1>2. UNCHANGED <<file, max, global_shm_counter, local_shm_counter>>
  BY DEF shared
<1>3. /\ \A q \in Live : q # p => mapped'[q] = mapped[q] /\ fresh'[q] = fresh[q]
      /\ mapped'[p] = max
  BY <1>1 DEF Inv, Types
<1> HIDE DEF p
<1>4. Sizes'
  BY <1>1, <1>2, <1>3 DEF Inv, Memory, Sizes, p
<1>5. Done'
  <2>1. DoneBy(t)'
    BY <1>1, <1>2, <1>3 DEF DoneBy, p, Growing, Current
  <2>2. QED
    BY <1>1, <2>1, DoneAlone
<1>6. Pointers'
  BY <1>1, <1>3 DEF Inv, Memory, Pointers, p, Process
<1>7. QED
  BY <1>4, <1>5, <1>6 DEF Memory

\* It sets its pointers and knows of all changes.
LEMMA RemappedStep ==
  ASSUME Inv, ~torn, NEW t \in Threads, Moves(t, "ensure"), Remapped(t)
  PROVE  Memory'
<1> DEFINE p == Process(t)
<1>1. /\ pc'[t] = "ensure" /\ p \in Live /\ Live' = Live /\ Live \subseteq Processes
      /\ \A u \in Threads : u # t => pc'[u] = pc[u] /\ pc[u] \in {"idle", "outer"}
      /\ p' = p
  BY Places DEF Process
<1>2. UNCHANGED <<file, max, global_shm_counter, mapped, region>> /\ pc[t] = "remapped"
  BY DEF shared, Remapped
<1>3. /\ \A q \in Live : q # p => local_shm_counter'[q] = local_shm_counter[q] /\ fresh'[q] = fresh[q]
      /\ local_shm_counter'[p] = global_shm_counter /\ global_shm_counter \in Nat
      /\ \A r \in Regions : fresh'[p][r]
  BY <1>1 DEF Inv, Types, Remapped
<1>3a. mapped[p] = max
  BY <1>2 DEF Inv, Memory, Done, DoneBy
<1> HIDE DEF p
<1>4. Sizes'
  BY <1>1, <1>2, <1>3, <1>3a DEF Inv, Memory, Sizes
<1>5. Done'
  <2>1. DoneBy(t)'
    BY <1>1, <1>2, <1>3 DEF DoneBy, p, Growing, Current
  <2>2. QED
    BY <1>1, <2>1, DoneAlone
<1>6. Pointers'
  BY <1>1, <1>2, <1>3 DEF Inv, Memory, Pointers, p, Process
<1>7. QED
  BY <1>4, <1>5, <1>6 DEF Memory

\* The file of a region that is full is enlarged.
LEMMA EnlargeStep ==
  ASSUME Inv, ~torn, NEW t \in Threads, NEW r \in Regions, Moves(t, "count"), Enlarge(t, r)
  PROVE  Memory'
<1> DEFINE p == Process(t)
<1>1. /\ pc'[t] = "count" /\ p \in Live /\ Live' = Live /\ Live \subseteq Processes
      /\ \A u \in Threads : u # t => pc'[u] = pc[u] /\ pc[u] \in {"idle", "outer"}
      /\ p' = p
  BY Places DEF Process
<1>2. /\ UNCHANGED <<max, global_shm_counter, local_shm_counter, mapped, fresh>> /\ pc[t] = "ensure"
      /\ region' = [region EXCEPT ![t] = r] /\ file' = [file EXCEPT ![r] = Allocated(t, r)]
  BY DEF private, Enlarge
<1>3. /\ mapped[p][r] \in Nat /\ file[r] \in Nat /\ Allocated(t, r) \in Nat
      /\ Allocated(t, r) >= file[r] /\ Allocated(t, r) > mapped[p][r]
  BY <1>1 DEF Inv, Types, Allocated, NewSize
<1>3a. /\ file' \in [Regions -> Nat] /\ file'[r] > mapped[p][r] /\ region'[t] = r
       /\ \A s \in Regions : file'[s] >= file[s]
  BY <1>2, <1>3 DEF Inv, Types
<1>3b. local_shm_counter[p] = global_shm_counter
  BY <1>2 DEF Inv, Memory, Done, DoneBy, Current
<1> HIDE DEF p
<1>4. Sizes'
  BY <1>1, <1>2, <1>3a, SMTT(60) DEF Inv, Types, Memory, Sizes
<1>5. Done'
  <2>1. DoneBy(t)'
    BY <1>1, <1>2, <1>3a, <1>3b DEF DoneBy, p, Growing, Current
  <2>2. QED
    BY <1>1, <2>1, DoneAlone
<1>6. Pointers'
  BY <1>1, <1>2 DEF Inv, Memory, Pointers, p, Process
<1>7. QED
  BY <1>4, <1>5, <1>6 DEF Memory

\* Everybody else is told.
LEMMA CountStep ==
  ASSUME Inv, ~torn, NEW t \in Threads, Moves(t, "map"), Count(t)
  PROVE  Memory'
<1> DEFINE p == Process(t)
<1>1. /\ pc'[t] = "map" /\ p \in Live /\ Live' = Live /\ Live \subseteq Processes
      /\ \A u \in Threads : u # t => pc'[u] = pc[u] /\ pc[u] \in {"idle", "outer"}
      /\ p' = p
  BY Places DEF Process
<1>2. /\ UNCHANGED <<max, file, mapped, fresh, region>> /\ pc[t] = "count"
      /\ global_shm_counter' = global_shm_counter + 1
  BY DEF Count, Told
<1>3. local_shm_counter[p] = global_shm_counter /\ region[t] \in Regions /\ mapped[p][region[t]] < file[region[t]]
  BY <1>2 DEF Inv, Memory, Done, DoneBy, Current, Growing
<1>3a. /\ local_shm_counter'[p] = local_shm_counter[p] + 1 /\ global_shm_counter \in Nat
       /\ \A q \in Live : q # p => local_shm_counter'[q] = local_shm_counter[q]
       /\ local_shm_counter \in [Processes -> Nat]
  BY <1>1 DEF Inv, Types, Count
<1> HIDE DEF p
<1>3b. \A q \in Live : q # p => local_shm_counter'[q] < global_shm_counter'
  BY <1>1, <1>2, <1>3a DEF Inv, Memory, Sizes
<1>4. Sizes'
  BY <1>1, <1>2, <1>3, <1>3a, <1>3b DEF Inv, Memory, Sizes
<1>5. Done'
  <2>1. DoneBy(t)'
    BY <1>1, <1>2, <1>3, <1>3a, <1>3b DEF DoneBy, p, Growing, Current
  <2>2. QED
    BY <1>1, <2>1, DoneAlone
<1>6. Pointers'
  BY <1>1, <1>2 DEF Inv, Memory, Pointers, p, Process
<1>7. QED
  BY <1>4, <1>5, <1>6 DEF Memory

\* The region is mapped with its new size.
LEMMA MapStep ==
  ASSUME Inv, ~torn, NEW t \in Threads, Moves(t, "max"), Map(t)
  PROVE  Memory'
<1> DEFINE p == Process(t)
<1>1. /\ pc'[t] = "max" /\ p \in Live /\ Live' = Live /\ Live \subseteq Processes
      /\ \A u \in Threads : u # t => pc'[u] = pc[u] /\ pc[u] \in {"idle", "outer"}
      /\ p' = p
  BY Places DEF Process
<1> DEFINE s == region[t]
<1>2. /\ UNCHANGED <<max, file, global_shm_counter, local_shm_counter, region>> /\ pc[t] = "map"
      /\ mapped' = [mapped EXCEPT ![p] = [mapped[p] EXCEPT ![s] = mapped[p][s] + 1]]
      /\ fresh' = [fresh EXCEPT ![p] = [fresh[p] EXCEPT ![s] = FALSE]]
  BY DEF Map, shared, NewSize
<1>3. /\ local_shm_counter[p] = global_shm_counter /\ s \in Regions /\ mapped[p][s] < file[s]
      /\ \A q \in Live : q # p => local_shm_counter[q] < global_shm_counter
  BY <1>2 DEF Inv, Memory, Done, DoneBy, Current, Growing
<1>3a. /\ mapped'[p][s] = mapped[p][s] + 1 /\ mapped[p][s] \in Nat /\ file[s] \in Nat
       /\ \A r \in Regions : r # s => mapped'[p][r] = mapped[p][r] /\ fresh'[p][r] = fresh[p][r]
       /\ \A q \in Live : q # p => mapped'[q] = mapped[q] /\ fresh'[q] = fresh[q]
  BY <1>1, <1>2, <1>3 DEF Inv, Types
<1>3b. mapped[p][s] = max[s]
  BY <1>1, <1>2, <1>3 DEF Inv, Memory, Sizes
<1> HIDE DEF p
<1>4. Sizes'
  BY <1>1, <1>2, <1>3, <1>3a DEF Inv, Memory, Sizes
<1>5. Done'
  <2>1. DoneBy(t)'
    BY <1>1, <1>2, <1>3, <1>3a, <1>3b DEF DoneBy, p, Growing, Current
  <2>2. QED
    BY <1>1, <2>1, DoneAlone
<1>6. Pointers'
  BY <1>1, <1>2, <1>3, <1>3a DEF Inv, Memory, Pointers, p, Process
<1>7. QED
  BY <1>4, <1>5, <1>6 DEF Memory

\* The counter takes the new size.
LEMMA MaxStep ==
  ASSUME Inv, ~torn, NEW t \in Threads, Moves(t, "point"), Max(t)
  PROVE  Memory'
<1> DEFINE p == Process(t)
<1>1. /\ pc'[t] = "point" /\ p \in Live /\ Live' = Live /\ Live \subseteq Processes
      /\ \A u \in Threads : u # t => pc'[u] = pc[u] /\ pc[u] \in {"idle", "outer"}
      /\ p' = p
  BY Places DEF Process
<1> DEFINE s == region[t]
<1>2. /\ UNCHANGED <<file, global_shm_counter, local_shm_counter, mapped, fresh, region>>
      /\ pc[t] = "max" /\ max' = [max EXCEPT ![s] = max[s] + 1]
  BY DEF Max, private
<1>3. /\ local_shm_counter[p] = global_shm_counter /\ s \in Regions /\ mapped[p][s] = max[s] + 1
      /\ \A q \in Live : q # p => local_shm_counter[q] < global_shm_counter
  BY <1>2 DEF Inv, Memory, Done, DoneBy, Current, Growing
<1>3a. /\ max'[s] = mapped[p][s] /\ \A r \in Regions : r # s => max'[r] = max[r]
       /\ \A q \in Live : local_shm_counter[q] \in Nat
  BY <1>1, <1>2, <1>3 DEF Inv, Types
<1>3b. \A r \in Regions : r # s => mapped[p][r] = max[r]
  BY <1>1, <1>3 DEF Inv, Memory, Sizes
<1> HIDE DEF p
<1>4. Sizes'
  BY <1>1, <1>2, <1>3, <1>3a, <1>3b DEF Inv, Types, Memory, Sizes
<1>5. Done'
  <2>1. DoneBy(t)'
    BY <1>1, <1>2, <1>3 DEF DoneBy, p, Growing, Current
  <2>2. QED
    BY <1>1, <2>1, DoneAlone
<1>6. Pointers'
  BY <1>1, <1>2 DEF Inv, Memory, Pointers, p, Process
<1>7. QED
  BY <1>4, <1>5, <1>6 DEF Memory

\* The pointer is set.
LEMMA PointStep ==
  ASSUME Inv, ~torn, NEW t \in Threads, Moves(t, "ensure"), Point(t)
  PROVE  Memory'
<1> DEFINE p == Process(t)
<1>1. /\ pc'[t] = "ensure" /\ p \in Live /\ Live' = Live /\ Live \subseteq Processes
      /\ \A u \in Threads : u # t => pc'[u] = pc[u] /\ pc[u] \in {"idle", "outer"}
      /\ p' = p
  BY Places DEF Process
<1> DEFINE s == region[t]
<1>2. /\ UNCHANGED <<max, file, global_shm_counter, local_shm_counter, mapped>> /\ pc[t] = "point"
      /\ fresh' = [fresh EXCEPT ![p] = [fresh[p] EXCEPT ![s] = TRUE]]
  BY DEF Point, shared
<1>3. local_shm_counter[p] = global_shm_counter /\ s \in Regions
  BY <1>2 DEF Inv, Memory, Done, DoneBy, Current, Growing
<1>3a. /\ fresh'[p][s] /\ \A r \in Regions : r # s => fresh'[p][r] = fresh[p][r]
       /\ \A q \in Live : q # p => fresh'[q] = fresh[q]
       /\ \A u \in Threads : u # t => region'[u] = region[u]
  BY <1>1, <1>2, <1>3 DEF Inv, Types, Point
<1> HIDE DEF p
<1>4. Sizes'
  BY <1>1, <1>2 DEF Inv, Memory, Sizes
<1>5. Done'
  <2>1. DoneBy(t)'
    BY <1>1, <1>2, <1>3 DEF DoneBy, p, Growing, Current
  <2>2. QED
    BY <1>1, <2>1, DoneAlone
<1>6. Pointers'
  BY <1>1, <1>2, <1>3, <1>3a DEF Inv, Memory, Pointers, p, Process
<1>7. QED
  BY <1>4, <1>5, <1>6 DEF Memory

\* A function that is changed at a place keeps its type.
LEMMA ExceptType ==
  ASSUME NEW S, NEW T, NEW g \in [S -> T], NEW x, NEW v, x \in S => v \in T
  PROVE  [g EXCEPT ![x] = v] \in [S -> T]
<1>1. CASE x \in S
  BY <1>1
<1>2. CASE x \notin S
  BY <1>2, ZenonT(30)
<1>3. QED
  BY <1>1, <1>2

\* All steps between the recording of the owner and the inner mutex, but for the failure of
\* mremap().
LEMMA MemorySteps ==
  ASSUME Inv, NEW t \in Threads, ~Leave(t),
         \/ Remap(t) \/ Remapped(t) \/ Count(t) \/ Map(t) \/ Max(t) \/ Point(t)
         \/ \E r \in Regions : Enlarge(t, r)
  PROVE  Inv'
<1> DEFINE p == Process(t)
<1>0. /\ pc \in [Threads -> Holding \cup {"idle", "outer"}] /\ region \in [Threads -> Nat]
      /\ p \in Processes
  BY ProcessType DEF Inv, Types
<1>1. CASE Remap(t) /\ pc' = [pc EXCEPT ![t] = "ensure"]
  <2>1. /\ pc[t] = "remap" /\ Moves(t, "ensure") /\ UNCHANGED <<region, shared, private>>
        /\ local_shm_counter[p] = global_shm_counter
    <3>1. pc'[t] = "ensure"
      BY <1>0, <1>1
    <3>2. pc[t] = "remap"
      BY <1>1 DEF Remap
    <3>3. QED
      BY <1>0, <1>1, <3>1, <3>2 DEF Remap, Goes, Moves, Within, Behind
  <2>2. Quiet(t)
    BY <1>0, <2>1, Places, ZenonT(30) DEF Quiet, Moves, Growing, life
  <2>3. Types'
    BY <2>1, Places, ZenonT(30) DEF Inv, Types, Moves, mutexes, life, shared, private
  <2>4. torn' = torn
    BY <2>1 DEF Moves, life
  <2>5. QED
    BY <2>1, <2>2, <2>3, <2>4, QuietStep, MovesLocks DEF Inv
<1>2. CASE Remap(t) /\ pc' # [pc EXCEPT ![t] = "ensure"]
  <2>1. /\ pc[t] = "remap" /\ Moves(t, "remapped")
        /\ mapped' = [mapped EXCEPT ![p] = max]
        /\ fresh' = [fresh EXCEPT ![p] = [r \in Regions |-> FALSE]]
        /\ UNCHANGED <<shared, local_shm_counter, region>>
        /\ local_shm_counter[p] # global_shm_counter
    BY <1>2 DEF Remap, Goes, Moves, Within, Behind
  <2>2. Types'
    BY <1>0, <2>1, Places, ZenonT(30) DEF Inv, Types, Moves, mutexes, life, shared
  <2>3. torn' = torn
    BY <2>1 DEF Moves, life
  <2>4. QED
    BY <2>1, <2>2, <2>3, RemapStep, MovesLocks, ZenonT(30) DEF Inv
<1>3. CASE Remapped(t)
  <2>1. Moves(t, "ensure")
    BY <1>3 DEF Remapped, Goes, Moves, Within
  <2>2. Types'
    BY <1>0, <1>3, <2>1, Places, ZenonT(30) DEF Inv, Types, Moves, mutexes, life, shared, Remapped
  <2>3. torn' = torn
    BY <2>1 DEF Moves, life
  <2>4. QED
    BY <1>3, <2>1, <2>2, <2>3, RemappedStep, MovesLocks DEF Inv
<1>4. CASE Count(t)
  <2>1. Moves(t, "map")
    BY <1>4 DEF Count, Goes, Moves, Within, Growing
  <2>2. local_shm_counter' \in [Processes -> Nat] /\ global_shm_counter' \in Nat
    BY <1>0, <1>4, SMTT(60) DEF Inv, Types, Count, Told
  <2>3. Types'
    BY <1>4, <2>1, <2>2, Places, ZenonT(30) DEF Inv, Types, Moves, mutexes, life, Count
  <2>4. torn' = torn
    BY <2>1 DEF Moves, life
  <2>5. QED
    BY <1>4, <2>1, <2>3, <2>4, CountStep, MovesLocks DEF Inv
<1>5. CASE Map(t)
  <2>1. Moves(t, "max")
    BY <1>5 DEF Map, Goes, Moves, Within, Growing
  <2>2. mapped' \in [Processes -> [Regions -> Nat]] /\ fresh' \in [Processes -> [Regions -> BOOLEAN]]
    <3>1. mapped[p] \in [Regions -> Nat] /\ fresh[p] \in [Regions -> BOOLEAN]
      BY <1>0, SMTT(60) DEF Inv, Types
    <3>2. region[t] \in Regions => mapped[p][region[t]] + 1 \in Nat
      BY <3>1
    <3>3. /\ [mapped[p] EXCEPT ![region[t]] = mapped[p][region[t]] + 1] \in [Regions -> Nat]
          /\ [fresh[p] EXCEPT ![region[t]] = FALSE] \in [Regions -> BOOLEAN]
      BY <3>1, <3>2, ExceptType
    <3>4. QED
      BY <1>0, <1>5, <3>3, ExceptType, SMTT(60) DEF Inv, Types, Map, NewSize
  <2>3. Types'
    BY <1>0, <1>5, <2>1, <2>2, Places, ZenonT(30) DEF Inv, Types, Moves, mutexes, life, shared, Map
  <2>4. torn' = torn
    BY <2>1 DEF Moves, life
  <2>5. QED
    BY <1>5, <2>1, <2>3, <2>4, MapStep, MovesLocks DEF Inv
<1>6. CASE Max(t)
  <2>1. Moves(t, "point")
    BY <1>6 DEF Max, Goes, Moves, Within, Growing
  <2>2. max' \in [Regions -> Nat]
    <3>1. max \in [Regions -> Nat] /\ (region[t] \in Regions => max[region[t]] + 1 \in Nat)
      BY DEF Inv, Types
    <3>2. QED
      BY <1>6, <3>1, ExceptType, SMTT(60) DEF Max
  <2>3. Types'
    BY <1>0, <1>6, <2>1, <2>2, Places, ZenonT(30) DEF Inv, Types, Moves, mutexes, life, private, Max
  <2>4. torn' = torn
    BY <2>1 DEF Moves, life
  <2>5. QED
    BY <1>6, <2>1, <2>3, <2>4, MaxStep, MovesLocks DEF Inv
<1>7. CASE Point(t)
  <2>1. Moves(t, "ensure")
    BY <1>7 DEF Point, Goes, Moves, Within, Growing
  <2>2. fresh' \in [Processes -> [Regions -> BOOLEAN]] /\ region' \in [Threads -> Nat]
    <3>1. fresh[p] \in [Regions -> BOOLEAN]
      BY <1>0, SMTT(60) DEF Inv, Types
    <3>2. [fresh[p] EXCEPT ![region[t]] = TRUE] \in [Regions -> BOOLEAN]
      BY <3>1, ExceptType
    <3>3. region[t] + 1 \in Nat
      BY <1>0
    <3>4. QED
      BY <1>0, <1>7, <3>2, <3>3, ExceptType, SMTT(60) DEF Inv, Types, Point
  <2>3. Types'
    BY <1>0, <1>7, <2>1, <2>2, Places, ZenonT(30) DEF Inv, Types, Moves, mutexes, life, shared, Point
  <2>4. torn' = torn
    BY <2>1 DEF Moves, life
  <2>5. QED
    BY <1>7, <2>1, <2>3, <2>4, PointStep, MovesLocks DEF Inv
<1>8. CASE \E r \in Regions : Enlarge(t, r)
  <2>1. PICK r \in Regions : Enlarge(t, r)
    BY <1>8
  <2>2. Moves(t, "count")
    BY <2>1 DEF Enlarge, Goes, Moves, Within, Growing
  <2>3. Allocated(t, r) \in Nat /\ r \in Nat
    BY <1>0, <2>1, BoundsAssumption, SMTT(60) DEF Inv, Types, Allocated, NewSize, Regions
  <2>4. file' \in [Regions -> Nat] /\ region' \in [Threads -> Nat]
    BY <1>0, <2>1, <2>3, SMTT(60) DEF Inv, Types, Enlarge
  <2>5. Types'
    BY <1>0, <2>1, <2>2, <2>4, Places, ZenonT(30) DEF Inv, Types, Moves, mutexes, life, private, Enlarge
  <2>6. torn' = torn
    BY <2>2 DEF Moves, life
  <2>7. QED
    BY <2>1, <2>2, <2>5, <2>6, EnlargeStep, MovesLocks DEF Inv
<1>9. QED
  BY <1>1, <1>2, <1>3, <1>4, <1>5, <1>6, <1>7, <1>8
-----------------------------------------------------------------------------
\* A process that ends leaves the mutexes to others.
LEMMA LeaveLocks ==
  ASSUME Inv, NEW t \in Threads, Leave(t), UNCHANGED <<shared, private>>
  PROVE  /\ Types' /\ Locks' /\ pc'[t] = "idle" /\ alive' = alive \ {t}
         /\ \A u \in Threads : u # t => pc'[u] = pc[u] /\ region'[u] = region[u]
<1>1. /\ pc' = [pc EXCEPT ![t] = "idle"] /\ region' = [region EXCEPT ![t] = 1]
      /\ alive' = alive \ {t} /\ owner' = IF owner = t THEN NoThread ELSE owner
      /\ outer' = Left(outer, t) /\ inner' = Left(inner, t)
  BY DEF Leave
<1>2. /\ outer \in Mutex /\ inner \in Mutex /\ \A u \in Threads : u # NoThread
      /\ pc \in [Threads -> Holding \cup {"idle", "outer"}] /\ region \in [Threads -> Nat]
  BY NamesAssumption DEF Inv, Types
<1>3. /\ outer' \in Mutex /\ outer'.by = IF outer.by = t THEN NoThread ELSE outer.by
      /\ inner' \in Mutex /\ inner'.by = IF inner.by = t THEN NoThread ELSE inner.by
  BY <1>1, <1>2, MutexOps, ZenonT(30)
<1>4. /\ pc'[t] = "idle" /\ pc' \in [Threads -> Holding \cup {"idle", "outer"}]
      /\ region' \in [Threads -> Nat]
      /\ \A u \in Threads : u # t => pc'[u] = pc[u] /\ region'[u] = region[u]
  BY <1>1, <1>2
<1>5. Types'
  BY <1>1, <1>3, <1>4 DEF Inv, Types, shared, private
<1>6. Locks'
  <2>1. \A u \in Threads : u # t => (outer'.by = u <=> outer.by = u) /\ (inner'.by = u <=> inner.by = u)
                                    /\ (owner' = u <=> owner = u)
    BY <1>1, <1>2, <1>3
  <2>2. outer'.by # t /\ inner'.by # t /\ owner' # t
    BY <1>1, <1>2, <1>3
  <2>3. "idle" \notin Holding /\ "idle" # "cs"
    BY DEF Holding
  <2>4. \A w \in Workers : pc'[w] # "idle" => w \in alive'
    BY <1>1, <1>4 DEF Inv, Locks, Threads
  <2>5. QED
    BY <1>4, <2>1, <2>2, <2>3, <2>4 DEF Inv, Locks
<1>7. QED
  BY <1>1, <1>4, <1>5, <1>6

\* A worker may end wherever it is: of a change that it has announced but not made, nobody
\* knows, and everybody will map the regions again.
LEMMA DieStep ==
  ASSUME Inv, NEW w \in Workers, Die(w)
  PROVE  Inv'
<1>1. w \in Threads /\ w # Main /\ Process(w) = w /\ w \in Live
  BY NamesAssumption DEF Threads, Process, Die, Live
<1>2. /\ Types' /\ Locks' /\ pc'[w] = "idle" /\ alive' = alive \ {w}
      /\ \A u \in Threads : u # w => pc'[u] = pc[u] /\ region'[u] = region[u]
  BY <1>1, LeaveLocks DEF Die
<1>3. UNCHANGED <<file, max, global_shm_counter, local_shm_counter, mapped, fresh, torn>>
  BY DEF Die, shared, private
<1>4. ASSUME ~torn PROVE Memory'
  <2>1. Live' = Live \ {w} /\ Memory /\ Live \subseteq Processes
    BY <1>1, <1>2, <1>4, LiveType DEF Inv, Live
  <2>2. Sizes'
    <3>1. \A q \in Live : /\ local_shm_counter[q] \in Nat /\ global_shm_counter \in Nat
                          /\ pc[w] = "max" /\ q # w => local_shm_counter[q] < global_shm_counter
      BY <1>1, <2>1 DEF Memory, Done, DoneBy, Inv, Types
    <3>2. QED
      BY <1>1, <1>2, <1>3, <2>1, <3>1, SMTT(60) DEF Memory, Sizes
  <2>3. Done'
    <3> SUFFICES ASSUME NEW u \in Threads PROVE DoneBy(u)'
      BY DEF Done
    <3>1. CASE u = w
      BY <1>2, <3>1, SMTT(60) DEF DoneBy, Growing, Current
    <3>2. CASE u # w
      BY <1>2, <1>3, <2>1, <3>2, ZenonT(30) DEF Memory, Done, DoneBy, Process
    <3>3. QED
      BY <3>1, <3>2
  <2>4. Pointers'
    <3>1. \A u \in Threads : Process(u) # w => u # w
      BY <1>1
    <3>2. QED
      BY <1>2, <1>3, <2>1, <3>1, SMTT(60) DEF Memory, Pointers
  <2>5. QED
    BY <2>2, <2>3, <2>4 DEF Memory
<1>5. QED
  BY <1>2, <1>3, <1>4 DEF Inv

\* mremap() fails only with a pointer that is not the one of the mapping, which takes a
\* worker that was forked in the middle of realloc_shm().
LEMMA GiveUpStep ==
  ASSUME Inv, NEW t \in Threads, Remap(t), Leave(t)
  PROVE  Inv'
<1>1. pc[t] = "remap" /\ pc \in [Threads -> Holding \cup {"idle", "outer"}]
  BY DEF Remap, Inv, Types
<1>2. pc'[t] = "idle"
  BY <1>1 DEF Leave
<1>3. UNCHANGED <<shared, private, torn>> /\ \E r \in Regions : ~fresh[Process(t)][r]
  <2>1. ~Goes(t, "ensure") /\ ~Goes(t, "remapped")
    BY <1>1, <1>2 DEF Goes
  <2>2. QED
    BY <2>1 DEF Remap
<1>4. torn
  <2>1. SUFFICES ASSUME ~torn PROVE FALSE
    OBVIOUS
  <2>2. \A u \in Threads : u # t => pc[u] \in {"idle", "outer"}
    BY <1>1, Alone DEF Inv, Holding
  <2>3. Process(t) \in Live
    BY <1>1, ProcessType DEF Inv
  <2>4. QED
    BY <1>1, <1>3, <2>1, <2>2, <2>3, ZenonT(30) DEF Inv, Memory, Pointers
<1>5. QED
  BY <1>1, <1>3, <1>4, LeaveLocks, ZenonT(30) DEF Inv, Holding

\* A worker that is forked knows what the main process knows.
LEMMA ForkStep ==
  ASSUME Inv, NEW w \in Workers, Fork(w)
  PROVE  Inv'
<1>1. /\ w \in Threads /\ w \in Processes /\ Main \in Processes /\ w # Main
      /\ Process(w) = w /\ w \notin alive /\ alive' = alive \cup {w}
  BY NamesAssumption DEF Threads, Processes, Process, Fork
<1>2. UNCHANGED <<outer, inner, owner, pc, region, file, max, global_shm_counter>>
  BY DEF Fork, mutexes, shared
<1>3. /\ local_shm_counter'[w] = local_shm_counter[Main]
      /\ mapped'[w] = mapped[Main] /\ fresh'[w] = fresh[Main]
      /\ \A q \in Processes : q # w => /\ local_shm_counter'[q] = local_shm_counter[q]
                                       /\ mapped'[q] = mapped[q] /\ fresh'[q] = fresh[q]
  BY <1>1 DEF Fork, Inv, Types
<1>4. Types'
  BY <1>1, <1>2 DEF Fork, Inv, Types
<1>5. Locks'
  BY <1>1, <1>2 DEF Inv, Locks
<1>6. ASSUME ~torn' PROVE Memory'
  <2>1. ~torn /\ \A t \in MainThreads : pc[t] \notin Resizing
    BY <1>6, ZenonT(30) DEF Fork
  <2>2. Memory /\ Live \subseteq Processes /\ Main \in Live /\ w \notin Live
    BY <1>1, <2>1, LiveType DEF Inv, Live
  <2>3. Live' = Live \cup {w}
    BY <1>1 DEF Live
  <2>4. \A t \in Threads : pc[t] \in Resizing => Process(t) # Main /\ t # w /\ Process(t) # w
    <3>1. \A t \in Threads : pc[t] \in Resizing => t \in Workers /\ pc[t] # "idle"
      BY <2>1 DEF Threads, Resizing
    <3>2. QED
      BY <1>1, <3>1, NamesAssumption DEF Inv, Locks, Process
  <2>5. Sizes'
    BY <1>2, <1>3, <2>2, <2>3, SMTT(60) DEF Memory, Sizes
  <2>6. Done'
    <3> SUFFICES ASSUME NEW u \in Threads PROVE DoneBy(u)'
      BY DEF Done
    <3>1. CASE u = w
      <4>1. pc'[w] = "idle"
        BY <1>1, <1>2 DEF Inv, Locks
      <4>2. QED
        BY <3>1, <4>1, SMTT(60) DEF DoneBy, Growing, Current
    <3>2. CASE u # w
      <4>1. Process(u) # w /\ Process(u) \in Processes
        BY <1>1, <3>2, ProcessType DEF Process
      <4>2. pc[u] \in {"map", "max"} => Process(u) # Main
        BY <2>4 DEF Resizing
      <4>3. QED
        BY <1>2, <1>3, <2>2, <2>3, <4>1, <4>2, SMTT(60) DEF Memory, Done, DoneBy, Process
    <3>3. QED
      BY <3>1, <3>2
  <2>7. Pointers'
    <3>1. \A r \in Regions : fresh[Main][r]
      BY <2>2, <2>4 DEF Memory, Pointers, Resizing
    <3>2. QED
      BY <1>2, <1>3, <2>2, <2>3, <3>1, SMTT(60) DEF Memory, Pointers, Process
  <2>8. QED
    BY <2>5, <2>6, <2>7 DEF Memory
<1>7. QED
  BY <1>4, <1>5, <1>6 DEF Inv
-----------------------------------------------------------------------------
\* Every step keeps the invariant.
LEMMA NextInv == Inv /\ [Next]_vars => Inv'
<1> SUFFICES ASSUME Inv, [Next]_vars PROVE Inv'
  OBVIOUS
<1>1. ASSUME NEW t \in Threads, Begin(t) \/ LockOuter(t) \/ Step(t) PROVE Inv'
  <2>1. CASE Begin(t)
    BY <2>1, OutsideSteps
  <2>2. CASE LockOuter(t)
    BY <2>2, LockSteps
  <2>3. CASE Step(t)
    <3>1. CASE SetOwner(t) \/ LockInner(t) \/ UnlockInner(t) \/ ClearOwner(t) \/ UnlockOuter(t)
      BY <3>1, LockSteps
    <3>2. CASE /\ \/ Remap(t) \/ Remapped(t) \/ Count(t) \/ Map(t) \/ Max(t) \/ Point(t)
                  \/ \E r \in Regions : Enlarge(t, r)
               /\ ~(Remap(t) /\ Leave(t))
      <4>1. ~Leave(t)
        <5>1. CASE Remap(t)
          BY <3>2, <5>1
        <5>2. CASE ~Remap(t)
          <6>1. pc'[t] # "idle"
            BY <3>2, <5>2, SMTT(60) DEF Remapped, Count, Map, Max, Point, Enlarge, Goes, Inv, Types
          <6>2. QED
            BY <6>1 DEF Leave, Inv, Types
        <5>3. QED
          BY <5>1, <5>2
      <4>2. QED
        BY <3>2, <4>1, MemorySteps
    <3>3. CASE Remap(t) /\ Leave(t)
      BY <3>3, GiveUpStep
    <3>4. QED
      BY <2>3, <3>1, <3>2, <3>3 DEF Step
  <2>4. QED
    BY <1>1, <2>1, <2>2, <2>3
<1>2. ASSUME NEW w \in Workers, Fork(w) \/ Terminate(w) \/ Die(w) PROVE Inv'
  <2>1. w \in Threads
    BY DEF Threads
  <2>2. QED
    BY <1>2, <2>1, ForkStep, DieStep, OutsideSteps
<1>3. ASSUME UNCHANGED vars PROVE Inv'
  <2>1. /\ UNCHANGED <<outer, inner, owner, pc, region, file, max, global_shm_counter>>
        /\ UNCHANGED <<local_shm_counter, mapped, fresh, alive, torn>>
    BY <1>3 DEF vars, mutexes, shared, private, life
  <2>2. Types' /\ Locks'
    BY <2>1 DEF Inv, Types, Locks
  <2>3. Memory => Memory'
    <3>1. Sizes => Sizes'
      BY <2>1 DEF Sizes, Live
    <3>2. Done => Done'
      BY <2>1 DEF Done, DoneBy, Live
    <3>3. Pointers => Pointers'
      BY <2>1 DEF Pointers, Live
    <3> QED BY <3>1, <3>2, <3>3 DEF Memory
  <2>4. QED
    BY <2>1, <2>2, <2>3 DEF Inv
<1>4. QED
  BY <1>1, <1>2, <1>3 DEF Next

\* The invariant of the lock.
LEMMA Invariant == Spec => []Inv
  BY InitInv, NextInv, PTL DEF Spec
-----------------------------------------------------------------------------
\* The lock excludes: no two threads are between lock_shm() and unlock_shm(), whichever
\* workers have died with it.
THEOREM LockExcludes == Spec => []Exclusive
<1>1. Inv => Exclusive
  BY DEF Inv, Locks, Exclusive
<1>2. QED
  BY <1>1, Invariant, PTL

\* is_our_lock() is right at any moment, for any number of threads.
THEOREM OwnerIsKnown == Spec => []OwnerIsRight
<1>1. Inv => OwnerIsRight
  BY DEF Inv, Locks, OwnerIsRight, Holding
<1>2. QED
  BY <1>1, Invariant, PTL

\* Whoever holds the lock has mapped all that others have enlarged, however many regions,
\* workers and deaths there are, if none was forked in the middle of realloc_shm().
THEOREM MappingsAreCurrent == Spec => []NothingStale
<1>1. Inv => NothingStale
  <2> SUFFICES ASSUME Inv, ~torn, NEW t \in Threads, pc[t] = "cs", NEW r \in Regions
               PROVE  mapped[Process(t)][r] = max[r] /\ fresh[Process(t)][r]
    BY DEF NothingStale
  <2>1. \A u \in Threads : u # t => pc[u] \in {"idle", "outer"}
    BY Alone DEF Inv, Holding
  <2>2. Process(t) \in Live
    BY ProcessType DEF Inv
  <2>3. local_shm_counter[Process(t)] = global_shm_counter
    BY DEF Inv, Memory, Done, DoneBy, Current
  <2>4. QED
    BY <2>1, <2>2, <2>3 DEF Inv, Memory, Sizes, Pointers
<1>2. QED
  BY <1>1, Invariant, PTL

\* What may be used is there: no mapping is larger than its file, wherever a worker died.
THEOREM MappingsAreBacked == Spec => []Backed
<1>1. Inv => Backed
  BY DEF Inv, Memory, Sizes, Backed, Live
<1>2. QED
  BY <1>1, Invariant, PTL
=============================================================================
