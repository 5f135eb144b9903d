--------------------------- MODULE GravityUpdate ---------------------------
(***************************************************************************)
(* The update of the blocklists: runs which a request or the schedule      *)
(* starts, the replacement of the domains of one list after the other, and *)
(* how the database thread learns that it has to reload.  A termination    *)
(* may be asked for at any time; the process may also just end.            *)
(***************************************************************************)
EXTENDS Integers

CONSTANTS
  Scheduler,   \* gravity_update_thread()
  Requests,    \* threads of the web server that serve /action/gravity
  NLists,      \* number of enabled lists, updated in this order
  MaxAhead     \* bound: by how much a time stamp is ahead of last_updated

ASSUME BoundsAssumption == NLists \in Nat /\ MaxAhead \in Nat \ {0}

VARIABLES
  stored,           \* for each list, whether domains of it are stored
  info,             \* "updated" in the table info, relative to last_updated
  looked,           \* last_updated # -1: the database thread has looked at it
  event,            \* RELOAD_GRAVITY
  reloading,        \* the database thread has taken the event
  stale,            \* domains were stored since the last reload
  running,          \* the flag that keeps a second run out
  gravity_running,  \* the flag that defers a termination
  run,              \* where each caller is in gravity_update_run()
  retry,            \* the schedule tries again soon
  ending,           \* how far a termination is: no, wanted, granted, killed
  ghost             \* not in the program: see below

vars == <<stored, info, looked, event, reloading, stale, running, gravity_running, run,
          retry, ending, ghost>>

Lists == 1..NLists
Callers == {Scheduler} \cup Requests
killed == ending = "killed"

\* ghost.unfinished: the result of a run could not be stored, or its time stamp was chosen
\* before the database thread looked for the first time; ghost.missed: the lists that
\* failed in the last run of the schedule.
NotRunning == [at |-> "idle", list |-> 1, updated |-> FALSE, failed |-> {}, opened |-> FALSE,
               content |-> FALSE, stamp |-> 0, allowed |-> FALSE]

Places == {"idle", "called", "enter", "open", "lists", "store", "read", "write", "leave", "release"}
InRun(c) == run[c].at \notin {"idle", "called"}

TypeOK ==
  /\ stored \in [Lists -> BOOLEAN]
  /\ info \in -MaxAhead..MaxAhead
  /\ {looked, event, reloading, stale, running, gravity_running, retry} \subseteq BOOLEAN
  /\ run \in [Callers -> [at : Places, list : 1..(NLists + 1), updated : BOOLEAN,
                          failed : SUBSET Lists, opened : BOOLEAN, content : BOOLEAN,
                          stamp : -MaxAhead..MaxAhead, allowed : BOOLEAN]]
  /\ ending \in {"no", "wanted", "granted", "killed"}
  /\ ghost \in [unfinished : BOOLEAN, missed : SUBSET Lists]

\* A process that has just started; the first reload is due.
Started ==
  /\ looked' = FALSE /\ event' = TRUE /\ reloading' = FALSE /\ stale' = FALSE
  /\ running' = FALSE /\ gravity_running' = FALSE
  /\ run' = [c \in Callers |-> NotRunning]
  /\ retry' = FALSE /\ ending' = "no"
  /\ ghost' = [unfinished |-> FALSE, missed |-> {}]

Init ==
  /\ stored = [l \in Lists |-> FALSE] /\ info = 0
  /\ looked = FALSE /\ event = TRUE /\ reloading = FALSE /\ stale = FALSE
  /\ running = FALSE /\ gravity_running = FALSE
  /\ run = [c \in Callers |-> NotRunning]
  /\ retry = FALSE /\ ending = "no"
  /\ ghost = [unfinished |-> FALSE, missed |-> {}]

-----------------------------------------------------------------------------
(* Who starts a run.                                                       *)

\* api_action_gravity() turns a request away while a run is going on.
Call(c) ==
  /\ c \in Requests /\ run[c].at = "idle" /\ ~killed
  /\ ~running
  /\ run' = [run EXCEPT ![c] = [@ EXCEPT !.at = "called"]]
  /\ UNCHANGED <<stored, info, looked, event, reloading, stale, running, gravity_running,
                 retry, ending, ghost>>

\* gravity_update_thread(): the interval is over, or lists have to be tried again.
Schedule ==
  /\ run[Scheduler].at = "idle" /\ ~killed /\ looked
  /\ run' = [run EXCEPT ![Scheduler] = [@ EXCEPT !.at = "called"]]
  /\ UNCHANGED <<stored, info, looked, event, reloading, stale, running, gravity_running,
                 retry, ending, ghost>>

-----------------------------------------------------------------------------
(* gravity_update_run()                                                    *)

\* atomic_exchange(&running, true): the caller that finds it set gives up.
Taken_Never == FALSE
Taken == running
Exchange(c) ==
  /\ run[c].at = "called"
  /\ running' = TRUE
  /\ run' = [run EXCEPT ![c] = IF Taken THEN NotRunning ELSE [@ EXCEPT !.at = "enter"]]
  /\ retry' = (retry \/ (c = Scheduler /\ Taken))
  /\ UNCHANGED <<stored, info, looked, event, reloading, stale, gravity_running, ending, ghost>>

\* gravity_running = 1.  The field "allowed" records whether a termination had been granted
\* before.
Enter(c) ==
  /\ run[c].at = "enter"
  /\ gravity_running' = TRUE
  /\ run' = [run EXCEPT ![c] = [@ EXCEPT !.at = "open", !.allowed = ending \in {"no", "wanted"}]]
  /\ UNCHANGED <<stored, info, looked, event, reloading, stale, running, retry, ending, ghost>>

\* The database is opened and the lists are read, or it cannot be opened.
Open(c, ok) ==
  /\ run[c].at = "open"
  /\ run' = [run EXCEPT ![c] = [@ EXCEPT !.at = IF ok THEN "lists" ELSE "leave", !.opened = ok]]
  /\ UNCHANGED <<stored, info, looked, event, reloading, stale, running, gravity_running,
                 retry, ending, ghost>>

\* update_list(): the download fails, or it has content with or without domains.
Failed(r) == [r EXCEPT !.at = "lists", !.list = @ + 1, !.failed = @ \cup {r.list},
                       !.content = FALSE]
More(r) == r.list <= NLists
Download(c) ==
  /\ run[c].at = "lists" /\ More(run[c]) /\ ~killed
  /\ \/ run' = [run EXCEPT ![c] = Failed(@)]
     \/ \E domains \in BOOLEAN :
          run' = [run EXCEPT ![c] = [@ EXCEPT !.at = "store", !.content = domains]]
  /\ UNCHANGED <<stored, info, looked, event, reloading, stale, running, gravity_running,
                 retry, ending, ghost>>

\* store_list(): the transaction is committed, or rolled back because a statement failed or
\* there are no domains.
Updated(r) == [r EXCEPT !.at = "lists", !.list = @ + 1, !.updated = TRUE, !.content = FALSE]
Accepts_Any(r) == TRUE
Accepts(r) == r.content
Store(c, ok) ==
  /\ run[c].at = "store"
  /\ IF ok /\ Accepts(run[c])
       THEN /\ stored' = [stored EXCEPT ![run[c].list] = run[c].content]
            /\ stale' = TRUE
            /\ run' = [run EXCEPT ![c] = Updated(@)]
       ELSE /\ run' = [run EXCEPT ![c] = Failed(@)]
            /\ UNCHANGED <<stored, stale>>
  /\ UNCHANGED <<info, looked, event, reloading, running, gravity_running, retry, ending, ghost>>

\* The end of the loop: without a list that was updated there is nothing to tell.
EndLoop(c) ==
  /\ run[c].at = "lists" /\ (~More(run[c]) \/ killed)
  /\ run' = [run EXCEPT ![c] = [@ EXCEPT !.at =
               IF ~killed /\ (run[c].updated \/ NLists = 0) THEN "read" ELSE "leave"]]
  /\ UNCHANGED <<stored, info, looked, event, reloading, stale, running, gravity_running,
                 retry, ending, ghost>>

\* finish(): the time stamp is later than last_updated, whatever the clock says.  Before the
\* first look last_updated is -1 and the clock alone decides.
Stamps == IF looked THEN 1..MaxAhead ELSE -MaxAhead..MaxAhead
FinishRead(c) ==
  /\ run[c].at = "read"
  /\ \E s \in Stamps : run' = [run EXCEPT ![c] = [@ EXCEPT !.at = "write", !.stamp = s]]
  /\ ghost' = [ghost EXCEPT !.unfinished = @ \/ ~looked]
  /\ UNCHANGED <<stored, info, looked, event, reloading, stale, running, gravity_running,
                 retry, ending>>

FinishWrite(c, ok) ==
  /\ run[c].at = "write"
  /\ info' = IF ok THEN run[c].stamp ELSE info
  /\ ghost' = [ghost EXCEPT !.unfinished = @ \/ ~ok]
  /\ run' = [run EXCEPT ![c] = [@ EXCEPT !.at = "leave", !.stamp = 0]]
  /\ UNCHANGED <<stored, looked, event, reloading, stale, running, gravity_running, retry, ending>>

\* gravity_running = 0, and only then running = false; the schedule remembers whether it has
\* to try again.
Leave(c) ==
  /\ run[c].at = "leave"
  /\ gravity_running' = FALSE
  /\ run' = [run EXCEPT ![c] = [@ EXCEPT !.at = "release"]]
  /\ UNCHANGED <<stored, info, looked, event, reloading, stale, running, retry, ending, ghost>>

Retry_NotPartial(r) == ~r.opened \/ (r.failed # {} /\ ~r.updated)
Retry(r) == ~r.opened \/ r.failed # {} \/ killed
Release(c) ==
  /\ run[c].at = "release"
  /\ running' = FALSE
  /\ run' = [run EXCEPT ![c] = NotRunning]
  /\ retry' = IF c = Scheduler THEN Retry(run[c]) ELSE retry
  /\ ghost' = [ghost EXCEPT !.missed = IF c = Scheduler THEN run[c].failed ELSE @]
  /\ UNCHANGED <<stored, info, looked, event, reloading, stale, gravity_running, ending>>

-----------------------------------------------------------------------------
(* The database thread.                                                    *)

\* gravity_updated(), once per second: the first look only remembers the time stamp, a later
\* one sets the event when it has grown.  Time stamps are relative to last_updated, so
\* that it is they that move.
Grown_ByTwo == info > 1
Grown == info > 0
Look ==
  /\ ~reloading /\ ~killed
  /\ looked' = TRUE
  /\ LET d == IF ~looked \/ Grown THEN info ELSE 0
     IN /\ info' = info - d
        /\ run' = [c \in Callers |->
                     IF run[c].at # "write" THEN run[c]
                     ELSE [run[c] EXCEPT !.stamp = IF @ - d < -MaxAhead THEN -MaxAhead
                                                   ELSE IF @ - d > MaxAhead THEN MaxAhead
                                                   ELSE @ - d]]
  /\ event' = (event \/ (looked /\ Grown))
  /\ UNCHANGED <<stored, reloading, stale, running, gravity_running, retry, ending, ghost>>

\* get_and_clear_event(RELOAD_GRAVITY) and Lorentz_reload_all_domainlists().
TakeEvent ==
  /\ event /\ ~reloading /\ ~killed
  /\ event' = FALSE /\ reloading' = TRUE
  /\ UNCHANGED <<stored, info, looked, stale, running, gravity_running, run, retry, ending, ghost>>

Reload ==
  /\ reloading
  /\ reloading' = FALSE
  /\ stale' = FALSE
  /\ ghost' = [ghost EXCEPT !.unfinished = FALSE]
  /\ UNCHANGED <<stored, info, looked, event, running, gravity_running, run, retry, ending>>

-----------------------------------------------------------------------------
(* Termination: a signal asks for it, check_if_want_terminate() grants it   *)
(* when no run is going on, and dnsmasq's loop ends the threads later.      *)

Want ==
  /\ ending = "no"
  /\ ending' = "wanted"
  /\ UNCHANGED <<stored, info, looked, event, reloading, stale, running, gravity_running, run,
                 retry, ghost>>

Free_Any == TRUE
Free == ~gravity_running
Grant ==
  /\ ending = "wanted" /\ Free
  /\ ending' = "granted"
  /\ UNCHANGED <<stored, info, looked, event, reloading, stale, running, gravity_running, run,
                 retry, ghost>>

Kill ==
  /\ ending = "granted"
  /\ ending' = "killed"
  /\ UNCHANGED <<stored, info, looked, event, reloading, stale, running, gravity_running, run,
                 retry, ghost>>

\* The process has ended, after a termination or at any other moment, and is started again.
Restart == Started /\ UNCHANGED <<stored, info>>

-----------------------------------------------------------------------------
Step(c) ==
  \/ Exchange(c) \/ Enter(c) \/ Download(c) \/ EndLoop(c) \/ FinishRead(c) \/ Leave(c) \/ Release(c)
  \/ \E ok \in BOOLEAN : Open(c, ok) \/ Store(c, ok) \/ FinishWrite(c, ok)

Next ==
  \/ \E c \in Callers : Step(c)
  \/ \E c \in Requests : Call(c)
  \/ Schedule \/ Look \/ TakeEvent \/ Reload \/ Want \/ Grant \/ Kill \/ Restart

\* The threads go on; a download ends, because it has a timeout.
Fairness ==
  /\ \A c \in Callers : WF_vars(Step(c))
  /\ WF_vars(Schedule /\ retry)
  /\ WF_vars(Look) /\ WF_vars(TakeEvent) /\ WF_vars(Reload)

Spec == Init /\ [][Next]_vars /\ Fairness

-----------------------------------------------------------------------------
\* At most one caller is inside of gravity_update_run(), and gravity_running is set for as
\* long as it works on the database (atomic_exchange(&running)).
OneRunAtATime ==
  /\ \A c, d \in Callers : InRun(c) /\ InRun(d) => c = d
  /\ running <=> \E c \in Callers : InRun(c)
  /\ \A c \in Callers : run[c].at \in {"open", "lists", "store", "read", "write", "leave"}
                          => gravity_running

\* A run that began before a termination was granted is not cut in half
\* (gravity_running, check_if_want_terminate()).
NotCutInHalf ==
  killed => \A c \in Callers : run[c].at \in {"open", "lists", "store", "read", "write"}
                                 => ~run[c].allowed

\* Domains that were stored by a run are loaded, or a reload is due: the event is set, the
\* database thread is about to find a time stamp that has grown, or the run goes on.  The
\* exceptions are a result that could not be stored, a run that ended before the first
\* look, and the end of the process (finish(), gravity_updated()).
UpdatesAreNoticed ==
  (stale /\ ~ghost.unfinished /\ ~killed) =>
     \/ event \/ reloading
     \/ looked /\ info > 0
     \/ \E c \in Callers : InRun(c) /\ run[c].at \notin {"leave", "release"}

\* A list that has domains keeps them, whatever is downloaded later (store_list()).
DomainsAreKept == [][\A l \in Lists : stored[l] => stored'[l]]_vars

\* An update that was announced is loaded (DB_thread()).
UpdatesAreLoaded == (stale /\ looked /\ info > 0) ~> (~stale \/ killed)

\* After a scheduled run in which a list failed, the lists are tried again, by the schedule
\* or by a request that comes first (gravity_update_thread()).
FailuresAreRetried ==
  (ghost.missed # {}) ~> ((\E c \in Callers : InRun(c)) \/ ghost.missed = {} \/ killed)
=============================================================================
