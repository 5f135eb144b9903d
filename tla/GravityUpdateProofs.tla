------------------------ MODULE GravityUpdateProofs ------------------------
(***************************************************************************)
(* Proofs about the update of the blocklists, for any number of lists and  *)
(* of requests: one run at a time, no run is cut in half, a list keeps its *)
(* domains, and no update goes unnoticed.                                  *)
(***************************************************************************)
EXTENDS GravityUpdate, TLAPS

\* The places between gravity_running = 1 and gravity_running = 0, and those where the
\* database is worked on.
Guarded == {"open", "lists", "store", "read", "write", "leave"}
Working == {"open", "lists", "store", "read", "write"}

\* What is known of a caller.
Run == [at : Places, list : Nat, updated : BOOLEAN, failed : SUBSET Nat, opened : BOOLEAN,
        content : BOOLEAN, stamp : Int, allowed : BOOLEAN]

Types ==
  /\ info \in Int
  /\ run \in [Callers -> Run]
  /\ ending \in {"no", "wanted", "granted", "killed"}
  /\ ghost \in [unfinished : BOOLEAN, missed : SUBSET Nat]

\* Once a termination was granted, only runs that began afterwards are at work.
Granted ==
  ending \in {"granted", "killed"} =>
    \A c \in Callers : run[c].at \in Working => ~run[c].allowed

\* A run that has stored domains will announce them: its time stamp is ahead, or a reload
\* that covers them is due already.
Announces ==
  (stale /\ ~ghost.unfinished /\ ~killed) =>
     \/ event \/ reloading
     \/ looked /\ info > 0
     \/ \E c \in Callers : run[c].updated /\ run[c].at \in {"lists", "store", "read", "write"}

Ahead ==
  (stale /\ ~ghost.unfinished) =>
     \A c \in Callers : run[c].at = "write" => (looked /\ run[c].stamp > 0) \/ event \/ reloading

Inv == Types /\ OneRunAtATime /\ Granted /\ Announces /\ Ahead
-----------------------------------------------------------------------------
\* A caller that is not in a run.
LEMMA IdleType == NotRunning \in Run
  BY DEF NotRunning, Run, Places

\* A process starts without a run and without stored domains it has not loaded.
LEMMA InitInv == Init => Inv
<1> SUFFICES ASSUME Init PROVE Inv
  OBVIOUS
<1>1. Types
  BY IdleType DEF Init, Types
<1>2. \A c \in Callers : run[c].at = "idle"
  BY DEF Init, NotRunning
<1>3. OneRunAtATime /\ Granted /\ Announces /\ Ahead
  BY <1>2 DEF Init, OneRunAtATime, Granted, Announces, Ahead, InRun, Working
<1>4. QED
  BY <1>1, <1>3 DEF Inv

\* Nobody else is in a run that is at one of the places behind the exchange.
LEMMA Alone ==
  ASSUME Inv, NEW c \in Callers, run[c].at \in Guarded \cup {"enter", "release"}
  PROVE  /\ running
         /\ \A d \in Callers : d # c => run[d].at \in {"idle", "called"}
  BY DEF Inv, OneRunAtATime, InRun, Guarded

\* A step of one caller that changes nothing but its own place, within a run.
Moves(c) ==
  /\ UNCHANGED <<stored, info, looked, event, reloading, stale, running, gravity_running,
                 retry, ending, ghost>>
  /\ run' \in [Callers -> Run]
  /\ \A d \in Callers : d # c => run'[d] = run[d]
  /\ run[c].at \in Guarded /\ run'[c].at \in Guarded \ {"write"}
  /\ run'[c].allowed = run[c].allowed /\ run'[c].updated = run[c].updated
  /\ run'[c].at \in Working => run[c].at \in Working
  /\ (run[c].updated /\ ~killed /\ run[c].at \in {"lists", "store", "read", "write"})
       => run'[c].at \in {"lists", "store", "read", "write"}

\* Such a step keeps the invariant.
LEMMA MoveStep ==
  ASSUME Inv, NEW c \in Callers, Moves(c)
  PROVE  Inv'
<1>1. Types'
  BY DEF Moves, Inv, Types
<1>2. \A d \in Callers : d # c => run[d].at \in {"idle", "called"}
  BY Alone DEF Moves
<1>3. OneRunAtATime'
  BY <1>2 DEF Moves, Inv, OneRunAtATime, InRun, Guarded
<1>4. Granted'
  BY <1>2 DEF Moves, Inv, Granted, Working
<1>5. Ahead'
  BY <1>2 DEF Moves, Inv, Ahead
<1>6. Announces'
  BY <1>2 DEF Moves, Inv, Announces, killed
<1>7. QED
  BY <1>1, <1>3, <1>4, <1>5, <1>6 DEF Inv

\* Opening the database is such a step, whether it succeeds or not.
LEMMA OpenMoves ==
  ASSUME Inv, NEW c \in Callers, NEW ok \in BOOLEAN, Open(c, ok)
  PROVE  Moves(c)
<1>1. run[c] \in Run /\ run[c].at = "open"
  BY DEF Inv, Types, Open
<1>2. run'[c] = [run[c] EXCEPT !.at = IF ok THEN "lists" ELSE "leave", !.opened = ok]
  BY DEF Inv, Types, Open
<1>3. \A d \in Callers : d # c => run'[d] = run[d]
  BY DEF Inv, Types, Open
<1>4. run'[c] \in Run /\ run'[c].at \in {"lists", "leave"}
  BY <1>1, <1>2, Zenon DEF Run, Places
<1>5. run'[c].allowed = run[c].allowed /\ run'[c].updated = run[c].updated
  BY <1>1, <1>2 DEF Run
<1>6. run' \in [Callers -> Run]
  BY <1>4 DEF Inv, Types, Open
<1>7. QED
  BY <1>1, <1>3, <1>4, <1>5, <1>6 DEF Moves, Open, Guarded, Working

\* A list that fails.
LEMMA FailedType ==
  ASSUME NEW r \in Run
  PROVE  /\ Failed(r) \in Run
         /\ Failed(r).at = "lists"
         /\ Failed(r).allowed = r.allowed /\ Failed(r).updated = r.updated
<1>1. r.list \in Nat /\ r.list + 1 \in Nat /\ r.failed \in SUBSET Nat
  BY DEF Run
<1>2. r.failed \cup {r.list} \in SUBSET Nat
  BY <1>1
<1> DEFINE n == r.list + 1
           f == r.failed \cup {r.list}
<1>3. Failed(r) = [r EXCEPT !.at = "lists", !.list = n, !.failed = f, !.content = FALSE]
  BY DEF Failed, Run
<1>4. n \in Nat /\ f \in SUBSET Nat
  BY <1>1, <1>2
<1> HIDE DEF n, f
<1>5. QED
  BY <1>3, <1>4, Zenon DEF Run, Places

\* A list that was stored.
LEMMA UpdatedType ==
  ASSUME NEW r \in Run
  PROVE  /\ Updated(r) \in Run
         /\ Updated(r).at = "lists" /\ Updated(r).updated
         /\ Updated(r).allowed = r.allowed
<1> DEFINE n == r.list + 1
<1>1. Updated(r) = [r EXCEPT !.at = "lists", !.list = n, !.updated = TRUE, !.content = FALSE]
  BY DEF Updated, Run
<1>2. n \in Nat
  BY DEF Run
<1> HIDE DEF n
<1>3. QED
  BY <1>1, <1>2, Zenon DEF Run, Places

\* So is a download.
LEMMA DownloadMoves ==
  ASSUME Inv, NEW c \in Callers, Download(c)
  PROVE  Moves(c)
<1>1. run[c] \in Run /\ run[c].at = "lists"
  BY Zenon DEF Inv, Types, Download
<1>2. PICK r \in Run : /\ run' = [run EXCEPT ![c] = r]
                       /\ r.at \in {"lists", "store"}
                       /\ r.allowed = run[c].allowed /\ r.updated = run[c].updated
  <2>1. CASE run' = [run EXCEPT ![c] = Failed(@)]
    BY <1>1, <2>1, FailedType, Zenon DEF Inv, Types
  <2>2. ASSUME NEW domains \in BOOLEAN,
               run' = [run EXCEPT ![c] = [@ EXCEPT !.at = "store", !.content = domains]]
        PROVE  \E r \in Run : /\ run' = [run EXCEPT ![c] = r]
                              /\ r.at \in {"lists", "store"}
                              /\ r.allowed = run[c].allowed /\ r.updated = run[c].updated
    <3> DEFINE r == [run[c] EXCEPT !.at = "store", !.content = domains]
    <3>1. r \in Run /\ r.at = "store" /\ r.allowed = run[c].allowed /\ r.updated = run[c].updated
      BY <1>1, Zenon DEF Run, Places
    <3>2. run' = [run EXCEPT ![c] = r]
      BY <2>2 DEF Inv, Types
    <3>3. QED
      BY <3>1, <3>2, Zenon
  <2>3. QED
    BY <2>1, <2>2, Zenon DEF Download
<1>3. run'[c] = r /\ run' \in [Callers -> Run] /\ \A d \in Callers : d # c => run'[d] = run[d]
  BY <1>2 DEF Inv, Types
<1>4. QED
  BY <1>1, <1>2, <1>3, Zenon DEF Moves, Download, Guarded, Working

\* So is the end of the loop over the lists.
LEMMA EndLoopMoves ==
  ASSUME Inv, NEW c \in Callers, EndLoop(c)
  PROVE  Moves(c)
<1> DEFINE to == IF ~killed /\ (run[c].updated \/ NLists = 0) THEN "read" ELSE "leave"
           r == [run[c] EXCEPT !.at = to]
<1>1. run[c] \in Run /\ run[c].at = "lists"
  BY DEF Inv, Types, EndLoop
<1>2. to \in {"read", "leave"} /\ (run[c].updated /\ ~killed => to = "read")
  OBVIOUS
<1> HIDE DEF to
<1>3. r \in Run /\ r.at = to /\ r.allowed = run[c].allowed /\ r.updated = run[c].updated
  BY <1>1, <1>2 DEF Run, Places
<1>4. run' = [run EXCEPT ![c] = r]
  BY DEF Inv, Types, EndLoop, to
<1> HIDE DEF r
<1>5. run'[c] = r /\ run' \in [Callers -> Run] /\ \A d \in Callers : d # c => run'[d] = run[d]
  BY <1>3, <1>4 DEF Inv, Types
<1>6. QED
  BY <1>1, <1>2, <1>3, <1>5 DEF Moves, EndLoop, Guarded, Working

\* A list is stored, or the transaction rolled back.
LEMMA StoreStep ==
  ASSUME Inv, NEW c \in Callers, NEW ok \in BOOLEAN, Store(c, ok)
  PROVE  Inv'
<1>1. run[c] \in Run /\ run[c].at = "store"
  BY DEF Inv, Types, Store
<1>2. UNCHANGED <<info, looked, event, reloading, running, gravity_running, retry, ending, ghost>>
  BY DEF Store
<1>3. CASE ok /\ Accepts(run[c])
  <2> DEFINE r == Updated(run[c])
  <2>1. r \in Run /\ r.at = "lists" /\ r.updated /\ r.allowed = run[c].allowed
    BY <1>1, UpdatedType
  <2>2. run' = [run EXCEPT ![c] = r]
    BY <1>3 DEF Inv, Types, Store
  <2> HIDE DEF r
  <2>3. run'[c] = r /\ run' \in [Callers -> Run] /\ \A d \in Callers : d # c => run'[d] = run[d]
    BY <2>1, <2>2 DEF Inv, Types
  <2>4. \A d \in Callers : d # c => run[d].at \in {"idle", "called"}
    BY <1>1, Alone DEF Guarded
  <2>5. Types'
    BY <1>2, <2>3 DEF Inv, Types
  <2>6. OneRunAtATime'
    BY <1>1, <1>2, <2>1, <2>3, <2>4 DEF Inv, OneRunAtATime, InRun
  <2>7. Granted'
    BY <1>1, <1>2, <2>1, <2>3, <2>4 DEF Inv, Granted, Working
  <2>8. Ahead'
    BY <2>1, <2>3, <2>4 DEF Ahead
  <2>9. Announces'
    BY <2>1, <2>3 DEF Announces
  <2>10. QED
    BY <2>5, <2>6, <2>7, <2>8, <2>9 DEF Inv
<1>4. CASE ~(ok /\ Accepts(run[c]))
  <2>1. run' = [run EXCEPT ![c] = Failed(run[c])] /\ UNCHANGED <<stored, stale>>
    BY <1>4 DEF Inv, Types, Store
  <2>2. /\ run'[c] = Failed(run[c]) /\ run' \in [Callers -> Run]
        /\ \A d \in Callers : d # c => run'[d] = run[d]
    BY <1>1, <2>1, FailedType DEF Inv, Types
  <2>3. Moves(c)
    BY <1>1, <1>2, <2>1, <2>2, FailedType DEF Moves, Guarded, Working
  <2>4. QED
    BY <2>3, MoveStep
<1>5. QED
  BY <1>3, <1>4

\* The time stamp is chosen: it is ahead of what the database thread has seen.
LEMMA FinishReadStep ==
  ASSUME Inv, NEW c \in Callers, FinishRead(c)
  PROVE  Inv'
<1>1. run[c] \in Run /\ run[c].at = "read"
  BY DEF Inv, Types, FinishRead
<1>2. PICK s \in Stamps : run' = [run EXCEPT ![c] = [@ EXCEPT !.at = "write", !.stamp = s]]
  BY Zenon DEF FinishRead
<1>3. s \in Int /\ (looked => s > 0)
  BY BoundsAssumption DEF Stamps
<1> DEFINE r == [run[c] EXCEPT !.at = "write", !.stamp = s]
<1>4. /\ r \in Run /\ r.at = "write" /\ r.stamp = s
      /\ r.updated = run[c].updated /\ r.allowed = run[c].allowed
  BY <1>1, <1>3, Zenon DEF Run, Places
<1>5. run' = [run EXCEPT ![c] = r]
  BY <1>2 DEF Inv, Types
<1> HIDE DEF r
<1>6. run'[c] = r /\ run' \in [Callers -> Run] /\ \A d \in Callers : d # c => run'[d] = run[d]
  BY <1>4, <1>5 DEF Inv, Types
<1>7. \A d \in Callers : d # c => run[d].at \in {"idle", "called"}
  BY <1>1, Alone DEF Guarded
<1>8. UNCHANGED <<stored, info, looked, event, reloading, stale, running, gravity_running,
                  retry, ending>>
  BY DEF FinishRead
<1>9. /\ ghost' \in [unfinished : BOOLEAN, missed : SUBSET Nat]
      /\ ghost'.unfinished <=> (ghost.unfinished \/ ~looked)
  BY Zenon DEF Inv, Types, FinishRead
<1>10. Types'
  BY <1>6, <1>8, <1>9 DEF Inv, Types
<1>11. OneRunAtATime'
  BY <1>1, <1>4, <1>6, <1>7, <1>8 DEF Inv, OneRunAtATime, InRun
<1>12. Granted'
  BY <1>1, <1>4, <1>6, <1>7, <1>8 DEF Inv, Granted, Working
<1>13. Ahead'
  BY <1>3, <1>4, <1>6, <1>7, <1>8, <1>9 DEF Ahead
<1>14. Announces'
  BY <1>1, <1>4, <1>6, <1>7, <1>8, <1>9 DEF Inv, Announces, killed
<1>15. QED
  BY <1>10, <1>11, <1>12, <1>13, <1>14 DEF Inv

\* The time stamp is written, or the statement fails.
LEMMA FinishWriteStep ==
  ASSUME Inv, NEW c \in Callers, NEW ok \in BOOLEAN, FinishWrite(c, ok)
  PROVE  Inv'
<1>1. run[c] \in Run /\ run[c].at = "write"
  BY DEF Inv, Types, FinishWrite
<1> DEFINE r == [run[c] EXCEPT !.at = "leave", !.stamp = 0]
<1>2. r \in Run /\ r.at = "leave"
  <2>1. ASSUME NEW z \in Int
        PROVE  LET q == [run[c] EXCEPT !.at = "leave", !.stamp = z]
               IN  q \in Run /\ q.at = "leave"
    BY <1>1, Zenon DEF Run, Places
  <2>2. 0 \in Int
    OBVIOUS
  <2>3. QED
    BY <2>1, <2>2, Zenon
<1>3. run' = [run EXCEPT ![c] = r]
  BY DEF Inv, Types, FinishWrite
<1> HIDE DEF r
<1>4. run'[c] = r /\ run' \in [Callers -> Run] /\ \A d \in Callers : d # c => run'[d] = run[d]
  BY <1>2, <1>3 DEF Inv, Types
<1>5. \A d \in Callers : d # c => run[d].at \in {"idle", "called"}
  BY <1>1, Alone DEF Guarded
<1>6. UNCHANGED <<stored, looked, event, reloading, stale, running, gravity_running, retry, ending>>
  BY DEF FinishWrite
<1>7. /\ ghost' \in [unfinished : BOOLEAN, missed : SUBSET Nat]
      /\ ghost'.unfinished <=> (ghost.unfinished \/ ~ok)
  BY Zenon DEF Inv, Types, FinishWrite
<1>8. info' \in Int /\ (ok => info' = run[c].stamp)
  BY <1>1 DEF Inv, Types, FinishWrite, Run
<1>9. Types'
  BY <1>4, <1>6, <1>7, <1>8 DEF Inv, Types
<1>10. OneRunAtATime'
  BY <1>1, <1>2, <1>4, <1>5, <1>6 DEF Inv, OneRunAtATime, InRun
<1>11. Granted'
  BY <1>2, <1>4, <1>5, <1>6 DEF Inv, Granted, Working
<1>12. Ahead'
  BY <1>2, <1>4, <1>5 DEF Ahead
<1>13. Announces'
  BY <1>1, <1>6, <1>7, <1>8 DEF Inv, Announces, Ahead, killed
<1>14. QED
  BY <1>9, <1>10, <1>11, <1>12, <1>13 DEF Inv

\* How a caller's place and the two flags change outside of the guarded part.
Outside(c, r) ==
  \/ run[c].at = "idle" /\ r.at = "called" /\ UNCHANGED <<running, gravity_running>>
  \/ run[c].at = "called" /\ r.at = "idle" /\ running /\ running' /\ UNCHANGED gravity_running
  \/ run[c].at = "called" /\ r.at = "enter" /\ ~running /\ running' /\ UNCHANGED gravity_running
  \/ /\ run[c].at = "enter" /\ r.at = "open" /\ gravity_running' /\ UNCHANGED running
     /\ r.allowed => ending \in {"no", "wanted"}
  \/ run[c].at = "leave" /\ r.at = "release" /\ UNCHANGED running
  \/ run[c].at = "release" /\ r.at = "idle" /\ ~running' /\ UNCHANGED gravity_running

\* Steps outside of the guarded part: a call, the exchange, gravity_running = 0 and the end.
LEMMA OutsideStep ==
  ASSUME Inv, NEW c \in Callers,
         Call(c) \/ (c = Scheduler /\ Schedule) \/ Exchange(c) \/ Enter(c) \/ Leave(c) \/ Release(c)
  PROVE  Inv'
<1>1. run[c] \in Run /\ ghost \in [unfinished : BOOLEAN, missed : SUBSET Nat]
  BY DEF Inv, Types
<1>2. PICK r \in Run : run' = [run EXCEPT ![c] = r] /\ Outside(c, r)
  <2>1. CASE Call(c) \/ (c = Scheduler /\ Schedule)
    <3> DEFINE r == [run[c] EXCEPT !.at = "called"]
    <3>1. r \in Run /\ r.at = "called"
      BY <1>1 DEF Run, Places
    <3>2. run' = [run EXCEPT ![c] = r]
      BY <2>1 DEF Inv, Types, Call, Schedule
    <3>3. run[c].at = "idle" /\ UNCHANGED <<running, gravity_running>>
      BY <2>1 DEF Call, Schedule
    <3>4. QED
      BY <3>1, <3>2, <3>3, Zenon DEF Outside
  <2>2. CASE Exchange(c) /\ ~running
    <3> DEFINE r == [run[c] EXCEPT !.at = "enter"]
    <3>1. r \in Run /\ r.at = "enter"
      BY <1>1 DEF Run, Places
    <3>2. run' = [run EXCEPT ![c] = r]
      BY <2>2 DEF Inv, Types, Exchange, Taken
    <3>3. run[c].at = "called" /\ running' /\ UNCHANGED gravity_running
      BY <2>2 DEF Exchange
    <3>4. QED
      BY <2>2, <3>1, <3>2, <3>3, Zenon DEF Outside
  <2>3. CASE (Exchange(c) /\ running) \/ Release(c)
    <3>1. run' = [run EXCEPT ![c] = NotRunning]
      BY <2>3 DEF Inv, Types, Exchange, Taken, Release
    <3>2. NotRunning.at = "idle"
      BY DEF NotRunning
    <3>3. \/ run[c].at = "called" /\ running /\ running' /\ UNCHANGED gravity_running
          \/ run[c].at = "release" /\ ~running' /\ UNCHANGED gravity_running
      BY <2>3 DEF Exchange, Release
    <3>4. QED
      BY <3>1, <3>2, <3>3, IdleType, Zenon DEF Outside
  <2>4. CASE Enter(c)
    <3> DEFINE a == ending \in {"no", "wanted"}
               r == [run[c] EXCEPT !.at = "open", !.allowed = a]
    <3>1. a \in BOOLEAN
      OBVIOUS
    <3>2. run' = [run EXCEPT ![c] = r]
      BY <2>4 DEF Inv, Types, Enter
    <3>3. a => ending \in {"no", "wanted"}
      OBVIOUS
    <3> HIDE DEF a
    <3>4. r \in Run /\ r.at = "open" /\ r.allowed = a
      BY <1>1, <3>1, Zenon DEF Run, Places
    <3>5. run[c].at = "enter" /\ gravity_running' /\ UNCHANGED running
      BY <2>4 DEF Enter
    <3>6. QED
      BY <3>2, <3>3, <3>4, <3>5, Zenon DEF Outside
  <2>5. CASE Leave(c)
    <3> DEFINE r == [run[c] EXCEPT !.at = "release"]
    <3>1. r \in Run /\ r.at = "release"
      BY <1>1 DEF Run, Places
    <3>2. run' = [run EXCEPT ![c] = r]
      BY <2>5 DEF Inv, Types, Leave
    <3>3. run[c].at = "leave" /\ UNCHANGED running
      BY <2>5 DEF Leave
    <3>4. QED
      BY <3>1, <3>2, <3>3, Zenon DEF Outside
  <2>6. QED
    BY <2>1, <2>2, <2>3, <2>4, <2>5
<1>3. run'[c] = r /\ run' \in [Callers -> Run] /\ \A d \in Callers : d # c => run'[d] = run[d]
  BY <1>2 DEF Inv, Types
<1>4. UNCHANGED <<info, looked, event, reloading, stale, ending>>
  BY DEF Call, Schedule, Exchange, Enter, Leave, Release
<1>5. /\ ghost' \in [unfinished : BOOLEAN, missed : SUBSET Nat]
      /\ ghost'.unfinished = ghost.unfinished
  <2>1. CASE ghost' = ghost
    BY <1>1, <2>1
  <2>2. CASE Release(c)
    <3> DEFINE m == IF c = Scheduler THEN run[c].failed ELSE ghost.missed
    <3>1. m \in SUBSET Nat
      BY <1>1 DEF Run
    <3>2. ghost' = [ghost EXCEPT !.missed = m]
      BY <1>1, <2>2 DEF Release
    <3> HIDE DEF m
    <3>3. QED
      BY <1>1, <3>1, <3>2
  <2>3. QED
    BY <2>1, <2>2 DEF Call, Schedule, Exchange, Enter, Leave
<1>6. Types'
  BY <1>3, <1>4, <1>5 DEF Inv, Types
<1>7. OneRunAtATime'
  <2>1. CASE run[c].at \in {"enter", "leave", "release"}
    <3>1. \A d \in Callers : d # c => run[d].at \in {"idle", "called"}
      BY <2>1, Alone DEF Guarded
    <3>2. QED
      BY <1>2, <1>3, <2>1, <3>1 DEF Inv, OneRunAtATime, InRun, Outside
  <2>2. CASE run[c].at \in {"idle", "called"}
    BY <1>2, <1>3, <2>2 DEF Inv, OneRunAtATime, InRun, Outside
  <2>3. QED
    BY <1>2, <2>1, <2>2 DEF Outside
<1>8. Granted'
  BY <1>2, <1>3, <1>4 DEF Inv, Granted, Outside, Working
<1>9. Ahead'
  BY <1>2, <1>3, <1>4, <1>5 DEF Inv, Ahead, Outside
<1>10. Announces'
  BY <1>2, <1>3, <1>4, <1>5 DEF Inv, Announces, Outside, killed
<1>11. QED
  BY <1>6, <1>7, <1>8, <1>9, <1>10 DEF Inv

\* gravity_updated(): a time stamp that has grown becomes the event.
LEMMA LookStep ==
  ASSUME Inv, Look
  PROVE  Inv'
<1> DEFINE d == IF ~looked \/ Grown THEN info ELSE 0
           Clip(x) == IF x - d < -MaxAhead THEN -MaxAhead ELSE IF x - d > MaxAhead THEN MaxAhead ELSE x - d
<1>1. d \in Int /\ info' = info - d /\ \A x \in Int : Clip(x) \in Int
  BY BoundsAssumption DEF Inv, Types, Look
<1>2. \A c \in Callers :
        /\ run'[c] \in Run
        /\ run'[c].at = run[c].at /\ run'[c].allowed = run[c].allowed
        /\ run'[c].updated = run[c].updated
        /\ run[c].at = "write" => run'[c].stamp = Clip(run[c].stamp)
  <2> SUFFICES ASSUME NEW c \in Callers
               PROVE  /\ run'[c] \in Run
                      /\ run'[c].at = run[c].at /\ run'[c].allowed = run[c].allowed
                      /\ run'[c].updated = run[c].updated
                      /\ run[c].at = "write" => run'[c].stamp = Clip(run[c].stamp)
    OBVIOUS
  <2>1. run[c] \in Run /\ run[c].stamp \in Int
    BY DEF Inv, Types, Run
  <2>2. CASE run[c].at # "write"
    BY <2>1, <2>2 DEF Look
  <2>3. CASE run[c].at = "write"
    <3> DEFINE y == Clip(run[c].stamp)
    <3>1. y \in Int
      BY <1>1, <2>1
    <3>2. run'[c] = [run[c] EXCEPT !.stamp = y]
      BY <2>1, <2>3 DEF Look, Run
    <3> HIDE DEF y
    <3>3. run'[c] \in Run /\ run'[c].stamp = y
      BY <2>1, <3>1, <3>2 DEF Run
    <3>4. /\ run'[c].at = run[c].at /\ run'[c].allowed = run[c].allowed
          /\ run'[c].updated = run[c].updated
      BY <2>1, <3>2 DEF Run
    <3>5. QED
      BY <3>3, <3>4 DEF y
  <2>4. QED
    BY <2>2, <2>3
<1>3. run' \in [Callers -> Run]
  <2>1. run' = [c \in Callers |-> run'[c]]
    BY DEF Look
  <2>2. QED
    BY <1>2, <2>1
<1>4. /\ looked' /\ ~reloading /\ ~killed /\ (event' <=> (event \/ (looked /\ info > 0)))
      /\ UNCHANGED <<reloading, stale, running, gravity_running, ending, ghost>>
  BY Zenon DEF Look, Grown
<1>5. Types'
  BY <1>1, <1>3, <1>4 DEF Inv, Types
<1>6. OneRunAtATime' /\ Granted'
  BY <1>2, <1>4 DEF Inv, OneRunAtATime, InRun, Granted
<1>7. Announces'
  <2>1. CASE looked /\ ~Grown
    <3>1. info' = info
      BY <1>1, <2>1 DEF Inv, Types
    <3>2. QED
      BY <1>2, <1>4, <2>1, <3>1 DEF Inv, Announces, killed, Grown
  <2>2. CASE ~looked \/ Grown
    BY <1>2, <1>4, <2>2 DEF Inv, Announces, killed, Grown
  <2>3. QED
    BY <2>1, <2>2
<1>8. Ahead'
  <2> SUFFICES ASSUME stale, ~ghost.unfinished, ~event', NEW c \in Callers, run[c].at = "write"
               PROVE  run'[c].stamp > 0
    BY <1>2, <1>4 DEF Ahead
  <2>1. looked /\ run[c].stamp > 0 /\ ~(info > 0)
    BY <1>4 DEF Inv, Ahead
  <2>2. run[c].stamp \in Int /\ run'[c].stamp = Clip(run[c].stamp)
    BY <1>2 DEF Inv, Types, Run
  <2>3. d = 0
    BY <2>1 DEF Grown
  <2>4. QED
    BY <2>1, <2>2, <2>3, BoundsAssumption
<1>9. QED
  BY <1>5, <1>6, <1>7, <1>8 DEF Inv

\* The event is taken, the lists are reloaded, a termination is asked for, granted and takes
\* place: no caller moves.
LEMMA OtherStep ==
  ASSUME Inv, TakeEvent \/ Reload \/ Want \/ Grant \/ Kill
  PROVE  Inv'
<1>1. UNCHANGED <<info, looked, running, gravity_running, run>>
  BY DEF TakeEvent, Reload, Want, Grant, Kill
<1>2. OneRunAtATime'
  BY <1>1 DEF Inv, OneRunAtATime, InRun
<1>3. CASE TakeEvent
  <2>1. UNCHANGED <<ending, ghost, stale>> /\ reloading'
    BY <1>3 DEF TakeEvent
  <2>2. QED
    BY <1>1, <1>2, <2>1 DEF Inv, Types, Granted, Announces, Ahead, killed
<1>4. CASE Reload
  <2>1. UNCHANGED ending /\ ~stale' /\ ghost' = [ghost EXCEPT !.unfinished = FALSE]
    BY <1>4 DEF Reload
  <2>2. ghost' \in [unfinished : BOOLEAN, missed : SUBSET Nat]
    BY <2>1, Zenon DEF Inv, Types
  <2>3. QED
    BY <1>1, <1>2, <2>1, <2>2 DEF Inv, Types, Granted, Announces, Ahead
<1>5. CASE Want \/ Grant \/ Kill
  <2>1. UNCHANGED <<event, reloading, stale, ghost>>
    BY <1>5 DEF Want, Grant, Kill
  <2>2. ending' \in {"wanted", "granted", "killed"} /\ ~killed
    BY <1>5 DEF Want, Grant, Kill, killed
  <2>3. Types' /\ Ahead' /\ Announces'
    BY <1>1, <2>1, <2>2 DEF Inv, Types, Ahead, Announces, killed
  <2>4. Granted'
    <3>1. CASE Want
      BY <1>1, <3>1 DEF Want, Granted
    <3>2. CASE Grant
      <4>1. ~gravity_running
        BY <3>2 DEF Grant, Free
      <4>2. QED
        BY <1>1, <4>1 DEF Inv, OneRunAtATime, Granted, Working
    <3>3. CASE Kill
      BY <1>1, <3>3 DEF Kill, Inv, Granted
    <3>4. QED
      BY <1>5, <3>1, <3>2, <3>3
  <2>5. QED
    BY <1>2, <2>3, <2>4 DEF Inv
<1>6. QED
  BY <1>3, <1>4, <1>5

\* Every step keeps the invariant.
LEMMA NextInv == Inv /\ [Next]_vars => Inv'
<1> SUFFICES ASSUME Inv, [Next]_vars PROVE Inv'
  OBVIOUS
<1>1. CASE UNCHANGED vars
  BY <1>1 DEF vars, Inv, Types, OneRunAtATime, InRun, Granted, Announces, Ahead, killed
<1>2. ASSUME NEW c \in Callers, Step(c) PROVE Inv'
  <2>1. CASE Exchange(c) \/ Enter(c) \/ Leave(c) \/ Release(c)
    BY <2>1, OutsideStep
  <2>2. CASE Download(c)
    BY <2>2, DownloadMoves, MoveStep
  <2>3. CASE EndLoop(c)
    BY <2>3, EndLoopMoves, MoveStep
  <2>4. CASE FinishRead(c)
    BY <2>4, FinishReadStep
  <2>5. ASSUME NEW ok \in BOOLEAN, Open(c, ok) PROVE Inv'
    BY <2>5, OpenMoves, MoveStep
  <2>6. ASSUME NEW ok \in BOOLEAN, Store(c, ok) PROVE Inv'
    BY <2>6, StoreStep
  <2>7. ASSUME NEW ok \in BOOLEAN, FinishWrite(c, ok) PROVE Inv'
    BY <2>7, FinishWriteStep
  <2>8. QED
    BY <1>2, <2>1, <2>2, <2>3, <2>4, <2>5, <2>6, <2>7 DEF Step
<1>3. ASSUME NEW c \in Requests, Call(c) PROVE Inv'
  BY <1>3, OutsideStep DEF Callers
<1>4. CASE Schedule
  BY <1>4, OutsideStep DEF Callers
<1>5. CASE Look
  BY <1>5, LookStep
<1>6. CASE TakeEvent \/ Reload \/ Want \/ Grant \/ Kill
  BY <1>6, OtherStep
<1>7. CASE Restart
  <2>1. Types'
    BY <1>7, IdleType DEF Restart, Started, Inv, Types
  <2>2. \A c \in Callers : run'[c].at = "idle"
    BY <1>7 DEF Restart, Started, NotRunning
  <2>3. OneRunAtATime' /\ Granted' /\ Announces' /\ Ahead'
    BY <1>7, <2>2 DEF Restart, Started, OneRunAtATime, Granted, Announces, Ahead, InRun, Working
  <2>4. QED
    BY <2>1, <2>3 DEF Inv
<1>8. QED
  BY <1>1, <1>2, <1>3, <1>4, <1>5, <1>6, <1>7 DEF Next

\* The invariant holds in every state.
LEMMA Invariant == Spec => []Inv
  BY InitInv, NextInv, PTL DEF Spec

-----------------------------------------------------------------------------
\* However many requests arrive, at most one run is going on: the exchange of the flag
\* "running" in gravity_update_run() decides, not the test in api_action_gravity().
THEOREM RunsExclude == Spec => []OneRunAtATime
<1>1. Inv => OneRunAtATime
  BY DEF Inv
<1>2. QED
  BY <1>1, Invariant, PTL

\* check_if_want_terminate() never cuts a run in half that was going on when it looked.
THEOREM RunsAreFinished == Spec => []NotCutInHalf
<1>1. Inv => NotCutInHalf
  BY DEF Inv, Granted, NotCutInHalf, killed, Working
<1>2. QED
  BY <1>1, Invariant, PTL

\* What a run has stored is announced to the database thread, wherever the clock jumps:
\* finish() writes a time stamp that gravity_updated() has to find larger than the last one.
THEOREM NoUpdateIsMissed == Spec => []UpdatesAreNoticed
<1>1. Inv => UpdatesAreNoticed
  BY DEF Inv, Announces, UpdatesAreNoticed, InRun
<1>2. QED
  BY <1>1, Invariant, PTL

\* No step of anybody takes the domains of a list away: store_list() replaces them only by a
\* download that has some.
THEOREM ListsKeepDomains == Spec => DomainsAreKept
<1> DEFINE Kept == stored \in [Lists -> BOOLEAN]
<1>1. Init => Kept
  BY DEF Init
<1>2. Kept /\ [Next]_vars => Kept' /\ \A l \in Lists : stored[l] => stored'[l]
  <2> SUFFICES ASSUME Kept, [Next]_vars PROVE Kept' /\ \A l \in Lists : stored[l] => stored'[l]
    OBVIOUS
  <2>1. CASE UNCHANGED stored
    BY <2>1
  <2>2. ASSUME NEW c \in Callers, NEW ok \in BOOLEAN, Store(c, ok), stored' # stored
        PROVE  Kept' /\ \A l \in Lists : stored[l] => stored'[l]
    <3>1. run[c].content /\ stored' = [stored EXCEPT ![run[c].list] = run[c].content]
      BY <2>2 DEF Store, Accepts
    <3>2. run[c].content = TRUE
      BY <3>1
    <3>3. stored' = [stored EXCEPT ![run[c].list] = TRUE]
      BY <3>1, <3>2
    <3>4. QED
      BY <3>3, Zenon
  <2>3. UNCHANGED stored \/ \E c \in Callers, ok \in BOOLEAN : Store(c, ok)
    BY Zenon DEF Next, Step, vars, Exchange, Enter, Download, EndLoop, FinishRead, Leave, Release,
           Open, FinishWrite, Call, Schedule, Look, TakeEvent, Reload, Want, Grant, Kill, Restart
  <2>4. QED
    BY <2>1, <2>2, <2>3
<1>3. QED
  BY <1>1, <1>2, PTL DEF Spec, DomainsAreKept
=============================================================================
