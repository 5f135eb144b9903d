------------------------------ MODULE ShmLock ------------------------------
(***************************************************************************)
(* The lock of the shared memory, a pair of robust mutexes, and what a     *)
(* process does between them: it maps again what others have enlarged and  *)
(* enlarges what is full.  Threads of the main process share its mappings; *)
(* a TCP worker starts with a copy of them and may end at any moment.      *)
(***************************************************************************)
EXTENDS Integers

CONSTANTS
  Main,         \* the main process
  Loop,         \* the thread of it that runs dnsmasq and forks
  Others,       \* its other threads
  Workers,      \* TCP workers, each a process with one thread
  NoThread,     \* the PID/TID that nobody has
  NRegions,     \* the regions, in the order in which shm_ensure_size() looks at them
  MaxSize,      \* bound: size of a region
  MaxResizes    \* bound: global_shm_counter

MainThreads == {Loop} \cup Others
Threads == MainThreads \cup Workers
Processes == {Main} \cup Workers
Regions == 1..NRegions

ASSUME NamesAssumption ==
  /\ NoThread \notin Threads /\ Main \notin Workers
  /\ MainThreads \cap Workers = {}
ASSUME BoundsAssumption == {NRegions, MaxSize, MaxResizes} \subseteq Nat

VARIABLES
  outer, inner,        \* the mutexes: who holds them, and in which state they are
  owner,               \* shmLock->owner
  pc,                  \* where each thread is in lock_shm() and unlock_shm()
  region,              \* the region that shm_ensure_size() has come to
  file, max,           \* for each region its size, and the size the counters say
  global_shm_counter,
  local_shm_counter,   \* per process
  mapped,              \* per process and region: the size of the mapping
  fresh,               \* ... and whether the pointer points to it
  alive,               \* the workers there are
  ending,              \* workers in Lorentz_TCP_worker_terminating()
  torn                 \* not in the program: see Fork

mutexes == <<outer, inner, owner>>
shared == <<file, max, global_shm_counter>>
private == <<local_shm_counter, mapped, fresh>>
life == <<alive, ending, torn>>
vars == <<mutexes, pc, region, shared, private, life>>

Process(t) == IF t \in Workers THEN t ELSE Main
Holding == {"owner", "remap", "remapped", "ensure", "count", "map", "max", "point", "cs",
            "clear", "release"}
Resizing == {"remapped", "map", "max", "point"}

TypeOK ==
  /\ {outer, inner} \subseteq [by : Threads \cup {NoThread},
                               state : {"ok", "died", "inconsistent", "lost"}]
  /\ owner \in Threads \cup {NoThread}
  /\ pc \in [Threads -> Holding \cup {"idle", "outer"}]
  /\ region \in [Threads -> 1..(NRegions + 1)]
  /\ file \in [Regions -> 1..MaxSize] /\ max \in [Regions -> 1..MaxSize]
  /\ global_shm_counter \in 0..MaxResizes
  /\ local_shm_counter \in [Processes -> 0..MaxResizes]
  /\ mapped \in [Processes -> [Regions -> 1..MaxSize]]
  /\ fresh \in [Processes -> [Regions -> BOOLEAN]]
  /\ ending \subseteq alive /\ alive \subseteq Workers
  /\ torn \in BOOLEAN

-----------------------------------------------------------------------------
(* Robust, error checking mutexes as POSIX has them.                       *)

Free(m) == m.by = NoThread

Acquired(m, t) ==
  IF m.state = "lost" THEN m
  ELSE [by |-> t, state |-> IF m.state = "died" THEN "inconsistent" ELSE "ok"]

Released(m, t) ==
  IF m.by # t THEN m
  ELSE [by |-> NoThread, state |-> IF m.state = "inconsistent" THEN "lost" ELSE "ok"]

\* Nobody unlocks for a process that ends; create_mutex() makes the mutexes robust.
Left(m, t) == IF m.by = t THEN [by |-> NoThread, state |-> "died"] ELSE m

\* EOWNERDEAD is answered by pthread_mutex_consistent().
Locked_AsFound(m, t) == Acquired(m, t)
Locked(m, t) ==
  LET a == Acquired(m, t)
  IN  IF a.state = "inconsistent" THEN [by |-> a.by, state |-> "ok"] ELSE a

-----------------------------------------------------------------------------
(* lock_shm()                                                              *)

Goes(t, place) == pc' = [pc EXCEPT ![t] = place]

Running(t) == t \in Workers => t \in alive

Begin(t) ==
  /\ pc[t] = "idle" /\ Running(t) /\ t \notin ending
  /\ Goes(t, "outer")
  /\ UNCHANGED <<mutexes, region, shared, private, life>>

LockOuter(t) ==
  /\ pc[t] = "outer" /\ Free(outer)
  /\ outer' = Locked(outer, t)
  /\ Goes(t, "owner")
  /\ UNCHANGED <<inner, owner, region, shared, private, life>>

SetOwner(t) ==
  /\ pc[t] = "owner"
  /\ owner' = t
  /\ Goes(t, "remap")
  /\ UNCHANGED <<outer, inner, region, shared, private, life>>

\* What the end of a process does to the mutexes it holds.  The recorded owner stays what it
\* was, a process that is gone: nobody takes it for their own.
Leave(t) ==
  /\ outer' = Left(outer, t) /\ inner' = Left(inner, t)
  /\ owner' = IF owner = t THEN NoThread ELSE owner
  /\ pc' = [pc EXCEPT ![t] = "idle"] /\ region' = [region EXCEPT ![t] = 1]
  /\ alive' = alive \ {t} /\ ending' = ending \ {t}

\* remap_shm(), if another process has enlarged a region.  mremap() fails with a pointer that
\* is not the one of the mapping, and the process ends.
Behind_Never(p) == FALSE
Behind(p) == local_shm_counter[p] # global_shm_counter
Remap(t) ==
  LET p == Process(t)
  IN  /\ pc[t] = "remap"
      /\ \/ /\ ~Behind(p)
            /\ Goes(t, "ensure")
            /\ UNCHANGED <<mutexes, region, shared, private, life>>
         \/ /\ Behind(p) /\ \A r \in Regions : fresh[p][r]
            /\ mapped' = [mapped EXCEPT ![p] = max]
            /\ fresh' = [fresh EXCEPT ![p] = [r \in Regions |-> FALSE]]
            /\ Goes(t, "remapped")
            /\ UNCHANGED <<mutexes, region, shared, local_shm_counter, life>>
         \/ /\ Behind(p) /\ \E r \in Regions : ~fresh[p][r]
            /\ Leave(t)
            /\ UNCHANGED <<shared, private, torn>>

Remapped_Again(t) ==
  LET p == Process(t)
  IN  /\ pc[t] = "remapped"
      /\ fresh' = [fresh EXCEPT ![p] = [r \in Regions |-> TRUE]]
      /\ Goes(t, "remap")
      /\ UNCHANGED <<mutexes, region, shared, local_shm_counter, mapped, life>>

Remapped(t) ==
  LET p == Process(t)
  IN  /\ pc[t] = "remapped"
      /\ fresh' = [fresh EXCEPT ![p] = [r \in Regions |-> TRUE]]
      /\ local_shm_counter' = [local_shm_counter EXCEPT ![p] = global_shm_counter]
      /\ Goes(t, "ensure")
      /\ UNCHANGED <<mutexes, region, shared, mapped, life>>

\* shm_ensure_size(): any of the regions may be full.  A file only grows.
NewSize(t, r) == mapped[Process(t)][r] + 1
Allocated_Not(t, r) == file[r]
Allocated(t, r) == IF file[r] < NewSize(t, r) THEN NewSize(t, r) ELSE file[r]
Enlarge(t, r) ==
  /\ pc[t] = "ensure" /\ r \in region[t]..NRegions
  /\ NewSize(t, r) <= MaxSize /\ max[r] < MaxSize /\ global_shm_counter < MaxResizes
  /\ region' = [region EXCEPT ![t] = r]
  /\ file' = [file EXCEPT ![r] = Allocated(t, r)]
  /\ Goes(t, "count")
  /\ UNCHANGED <<mutexes, max, global_shm_counter, private, life>>

\* realloc_shm() tells the others before it maps the region itself.
Told == global_shm_counter + 1
Count(t) ==
  LET p == Process(t)
  IN  /\ pc[t] = "count"
      /\ global_shm_counter' = Told
      /\ local_shm_counter' = [local_shm_counter EXCEPT ![p] = @ + 1]
      /\ Goes(t, "map")
      /\ UNCHANGED <<mutexes, region, file, max, mapped, fresh, life>>

Map(t) ==
  LET p == Process(t)
      r == region[t]
  IN  /\ pc[t] = "map"
      /\ mapped' = [mapped EXCEPT ![p] = [mapped[p] EXCEPT ![r] = NewSize(t, r)]]
      /\ fresh' = [fresh EXCEPT ![p] = [fresh[p] EXCEPT ![r] = FALSE]]
      /\ Goes(t, "max")
      /\ UNCHANGED <<mutexes, region, shared, local_shm_counter, life>>

\* enlarge_shmem_struct(): *size += allocation_step, and the pointer is returned.
Max(t) ==
  /\ pc[t] = "max"
  /\ max' = [max EXCEPT ![region[t]] = @ + 1]
  /\ Goes(t, "point")
  /\ UNCHANGED <<mutexes, region, file, global_shm_counter, private, life>>

Point(t) ==
  LET p == Process(t)
      r == region[t]
  IN  /\ pc[t] = "point"
      /\ fresh' = [fresh EXCEPT ![p] = [fresh[p] EXCEPT ![r] = TRUE]]
      /\ region' = [region EXCEPT ![t] = r + 1]
      /\ Goes(t, "ensure")
      /\ UNCHANGED <<mutexes, shared, local_shm_counter, mapped, life>>

LockInner(t) ==
  /\ pc[t] = "ensure" /\ Free(inner)
  /\ inner' = Locked(inner, t)
  /\ Goes(t, "cs")
  /\ region' = [region EXCEPT ![t] = 1]
  /\ UNCHANGED <<outer, owner, shared, private, life>>

-----------------------------------------------------------------------------
(* unlock_shm()                                                            *)

UnlockInner(t) ==
  /\ pc[t] = "cs"
  /\ inner' = Released(inner, t)
  /\ Goes(t, "clear")
  /\ UNCHANGED <<outer, owner, region, shared, private, life>>

Cleared(t) == NoThread
ClearOwner(t) ==
  /\ pc[t] = "clear"
  /\ owner' = Cleared(t)
  /\ Goes(t, "release")
  /\ UNCHANGED <<outer, inner, region, shared, private, life>>

\* The last thing a worker does.
UnlockOuter(t) ==
  /\ pc[t] = "release"
  /\ outer' = Released(outer, t)
  /\ Goes(t, "idle")
  /\ alive' = IF t \in ending THEN alive \ {t} ELSE alive
  /\ ending' = ending \ {t}
  /\ UNCHANGED <<inner, owner, region, shared, private, torn>>

-----------------------------------------------------------------------------
(* The life of a worker.                                                   *)

\* fork(): the worker has the memory of the main process as it is at this moment, whatever
\* its other threads are doing with it; "torn" records that one was in realloc_shm().
Fork(w) ==
  /\ w \in Workers \ alive /\ pc[Loop] = "idle"
  /\ alive' = alive \cup {w}
  /\ local_shm_counter' = [local_shm_counter EXCEPT ![w] = local_shm_counter[Main]]
  /\ mapped' = [mapped EXCEPT ![w] = mapped[Main]]
  /\ fresh' = [fresh EXCEPT ![w] = fresh[Main]]
  /\ torn' = (torn \/ \E t \in MainThreads : pc[t] \in Resizing)
  /\ UNCHANGED <<mutexes, pc, region, shared, ending>>

\* Lorentz_TCP_worker_terminating(): it takes the lock unless it has it already.
Terminate(w) ==
  /\ w \in alive \ ending /\ pc[w] = "idle"
  /\ ending' = ending \cup {w}
  /\ Goes(w, IF owner = w THEN "cs" ELSE "outer")
  /\ UNCHANGED <<mutexes, region, shared, private, alive, torn>>

\* SIGALRM after CHILD_LIFETIME, or any other end of a worker, wherever it is.
Die(w) ==
  /\ w \in alive
  /\ Leave(w)
  /\ UNCHANGED <<shared, private, torn>>

-----------------------------------------------------------------------------
Init ==
  /\ outer = [by |-> NoThread, state |-> "ok"] /\ inner = outer
  /\ owner = NoThread
  /\ pc = [t \in Threads |-> "idle"] /\ region = [t \in Threads |-> 1]
  /\ file = [r \in Regions |-> 1] /\ max = file
  /\ global_shm_counter = 0
  /\ local_shm_counter = [p \in Processes |-> 0]
  /\ mapped = [p \in Processes |-> max]
  /\ fresh = [p \in Processes |-> [r \in Regions |-> TRUE]]
  /\ alive = {} /\ ending = {} /\ torn = FALSE

\* The steps of a thread that holds the outer mutex.
Step(t) ==
  \/ SetOwner(t) \/ Remap(t) \/ Remapped(t) \/ Count(t) \/ Map(t) \/ Max(t) \/ Point(t)
  \/ LockInner(t) \/ UnlockInner(t) \/ ClearOwner(t) \/ UnlockOuter(t)
  \/ \E r \in Regions : Enlarge(t, r)

Next ==
  \/ \E t \in Threads : Begin(t) \/ LockOuter(t) \/ Step(t)
  \/ \E w \in Workers : Fork(w) \/ Terminate(w) \/ Die(w)

\* A thread that holds the lock goes on, and a free mutex is given to some thread that waits
\* for it, though not to each of them.
Fairness ==
  /\ \A t \in Threads : WF_vars(Step(t))
  /\ WF_vars(\E t \in Threads : LockOuter(t))

Spec == Init /\ [][Next]_vars /\ Fairness

-----------------------------------------------------------------------------
\* At most one thread is between the two calls, whoever has died in between before
\* (PTHREAD_MUTEX_ROBUST, pthread_mutex_consistent()).
Exclusive == \A t, u \in Threads : pc[t] \in Holding /\ pc[u] \in Holding => t = u

\* is_our_lock() is right: who is recorded as owner holds the mutex, and who is between
\* lock_shm() and unlock_shm() is recorded.
OwnerIsRight ==
  \A t \in Threads : /\ owner = t => pc[t] \in Holding
                     /\ pc[t] = "cs" => owner = t

\* With the lock held, the mappings of the process are those the counters speak of and the
\* pointers point to them, unless a worker was forked in the middle of realloc_shm()
\* (_lock_shm(), remap_shm(), shm_ensure_size()).
NothingStale ==
  ~torn => \A t \in Threads : pc[t] = "cs" =>
             \A r \in Regions : mapped[Process(t)][r] = max[r] /\ fresh[Process(t)][r]

\* No mapping is larger than its file, whoever has died while a region was enlarged: what
\* the counters say may be used is there (realloc_shm(), enlarge_shmem_struct()).
Backed ==
  ~torn => \A r \in Regions : /\ max[r] <= file[r]
                              /\ \A p \in alive \cup {Main} : mapped[p][r] <= file[r]

\* Whoever dies, the lock is not lost: while somebody waits for it somebody gets it, and a
\* thread of the main process that has got it gets through and gives it back (_lock_shm()).
Waiting == \E t \in Threads : pc[t] = "outer"
Held == \E t \in Threads : pc[t] \in Holding
LockIsRecovered ==
  /\ Waiting ~> (~Waiting \/ Held)
  /\ \A t \in MainThreads : (pc[t] \in Holding) ~> (pc[t] = "idle")
=============================================================================
