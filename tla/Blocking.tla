------------------------------ MODULE Blocking ------------------------------
(***************************************************************************)
(* How a change of the lists, or of the blocking status, reaches the       *)
(* queries.  Whether a domain is blocked is looked up once and memorized   *)
(* in the DNS cache in shared memory, for all processes; a reload by the   *)
(* database thread resets the cache.  The main process and every TCP       *)
(* worker have their own connection to the gravity database, their own     *)
(* copy of the compiled regular expressions, of the configuration, and of  *)
(* which lists are empty and need not be asked.  A timer may switch        *)
(* blocking back after some time.                                          *)
(*                                                                         *)
(* The model follows one client and one domain: one entry of the cache.    *)
(***************************************************************************)
EXTENDS Naturals, FiniteSets

CONSTANTS
  Main, Workers,   \* the main process and the TCP workers it may fork
  Others,          \* the lists, "deny" or "allow", that have an entry for some other domain
  Hit, Miss,       \* a regular expression that matches the domain, and one that does not
  BusyReplies,     \* values of dns.replyWhenBusy: TRUE is ALLOW, FALSE any other
  MaxDelay,        \* how often the timer ticks before it expires
  MaxChanges       \* bound: changes of the lists and of the status, and failed statements

VARIABLES
  db,        \* the gravity database: what its lists say, its regular expressions
  changing,  \* somebody changed the lists and has not yet set the event
  event,     \* RELOAD_GRAVITY
  sighup,    \* dnsmasq has not yet handled a SIGHUP
  reloading, \* the database thread has cleared the event and not yet reloaded
  alive,     \* the processes
  active,    \* config.dns.blocking.active in each process
  conn,      \* its connection: whether it is open, and which lists had entries at that time
  regex,     \* the regular expressions each process has compiled
  current,   \* the processes whose regex_change equals counters->regex_change
  entry,     \* the entry in the DNS cache: blocking_status and flags.allowed
  query,     \* the query each process has let pass and not yet forwarded or answered
  timer,     \* timer_delay, timer_target_status, and where the timer's thread is
  request,   \* a request that has set the status and not yet the timer
  changes,   \* bound
  ghost      \* not in the program: see below

vars == <<db, changing, event, sighup, reloading, alive, active, conn, regex, current,
          entry, query, timer, request, changes, ghost>>

Processes == {Main} \cup Workers
Verdicts == {"none", "deny", "allow"}
Statuses == {"unknown", "deny", "regex", "pass"}

\* Why a verdict may differ from what the lists say although it was memorized after the last
\* reload: the query was checked before that reload, or while the database was not
\* available, or by a worker that was forked while blocking was disabled, or with regular
\* expressions, or with lists taken as empty, that differ from the database.
Reasons == {"late", "busy", "off", "copy"}
None == "none"   \* no such reason

\* ghost.why belongs to the verdict in the entry and ghost.flag to its flag, ghost.blind are
\* the processes whose last attempt to read the regular expressions failed, ghost.temporary
\* is TRUE when the last request disabled blocking for some time, ghost.raced when it came
\* while the timer's thread was about to write timer_delay.
NoQuery == [open |-> FALSE, why |-> None]
Off == MaxDelay + 1     \* timer_delay = -1: no timer
NoRequest == [open |-> FALSE, disable |-> FALSE, delay |-> Off, target |-> TRUE]

TypeOK ==
  /\ db \in [lists : Verdicts, regex : SUBSET {Hit, Miss}]
  /\ {changing, event, sighup, reloading} \subseteq BOOLEAN
  /\ alive \subseteq Processes /\ Main \in alive
  /\ active \in [Processes -> BOOLEAN]
  /\ conn \in [Processes -> [open : BOOLEAN, lists : SUBSET {"deny", "allow"}]]
  /\ regex \in [Processes -> SUBSET {Hit, Miss}]
  /\ current \subseteq Processes
  /\ entry \in [status : Statuses, allowed : BOOLEAN]
  /\ query \in [Processes -> [open : BOOLEAN, why : Reasons \cup {None}]]
  /\ timer \in [delay : 0..Off, target : BOOLEAN, read : 0..MaxDelay,
                at : {"loop", "tick", "expire", "clear"}]
  /\ request \in [open : BOOLEAN, disable : BOOLEAN, delay : 0..Off, target : BOOLEAN]
  /\ changes \in 0..MaxChanges
  /\ ghost \in [why : Reasons \cup {None}, flag : Reasons \cup {None}, blind : SUBSET Processes,
                temporary : BOOLEAN, raced : BOOLEAN]

\* The lists that have entries.
Present == Others \cup ({db.lists} \ {"none"})
Closed == [open |-> FALSE, lists |-> {}]

Init ==
  /\ db \in [lists : {"none", "deny"}, regex : {{}, {Hit}}]
  /\ changing = FALSE /\ event = FALSE /\ sighup = FALSE /\ reloading = FALSE
  /\ alive = {Main}
  /\ active = [p \in Processes |-> TRUE]
  /\ conn = [p \in Processes |-> IF p = Main THEN [open |-> TRUE, lists |-> Present]
                                 ELSE Closed]
  /\ regex = [p \in Processes |-> IF p = Main THEN db.regex ELSE {}]
  /\ current = {Main}
  /\ entry = [status |-> "unknown", allowed |-> FALSE]
  /\ query = [p \in Processes |-> NoQuery]
  /\ timer = [delay |-> Off, target |-> TRUE, read |-> 0, at |-> "loop"]
  /\ request = NoRequest
  /\ changes = 0
  /\ ghost = [why |-> None, flag |-> None, blind |-> {}, temporary |-> FALSE, raced |-> FALSE]

\* The bound on what happens to the system.
Spend(n) == changes + n <= MaxChanges /\ changes' = changes + n

-----------------------------------------------------------------------------
(* Connections and regular expressions.                                    *)

\* gravityDB_open(): without a fault the process learns which lists have entries; otherwise
\* it stays without a connection, or takes all lists for empty (gravity_check_list_presence()).
Opens(faults) ==
  IF faults = 0 THEN {[open |-> TRUE, lists |-> Present]}
                ELSE {Closed, [open |-> TRUE, lists |-> {}]}

\* Whoever needs the database next tries to open it.
Reopen(p, faults) ==
  /\ p \in alive /\ ~conn[p].open
  /\ Spend(faults)
  /\ \E c \in Opens(faults) : conn' = [conn EXCEPT ![p] = c]
  /\ UNCHANGED <<db, changing, event, sighup, reloading, alive, active, regex, current, entry,
                 query, timer, request, ghost>>

\* read_regex_from_database(), where ok tells whether the database answers.  The counter is
\* incremented once for every row; without a row, nobody is told.
Rows(ok) == IF ok THEN db.regex ELSE {}
Signal_Not(p, ok) == current
Signal(p, ok) == IF Rows(ok) = {} THEN current ELSE {p}
Blind(p, ok) == IF ok THEN ghost.blind \ {p} ELSE ghost.blind \cup {p}

-----------------------------------------------------------------------------
(* Queries.                                                                *)

\* What the lists and these regular expressions say of the domain.
Verdict(lists, rx) ==
  CASE lists = "allow"                -> "pass"
    [] lists = "deny"                 -> "deny"
    [] lists = "none" /\ Hit \in rx   -> "regex"
    [] lists = "none" /\ Hit \notin rx -> "pass"

\* Why a verdict may be different from that of the database: a list did not answer, or the
\* process has other regular expressions, or skips a list that was empty.
Doubt(lists, rx, busy) ==
  CASE lists = db.lists /\ Verdict(lists, rx) = Verdict(lists, db.regex) -> None
    [] lists # db.lists /\ "allow" \in busy -> "busy"
    [] OTHER -> "copy"

\* in_allowlist(), in_denylist(): a list that was empty is not asked.
Shown(p) == IF db.lists \in conn[p].lists THEN db.lists ELSE "none"

LetPass(p, why) == query' = [query EXCEPT ![p] = [open |-> TRUE, why |-> why]]

\* Lorentz_check_blocking() returns early: blocking is disabled, or the verdict is known.  (A
\* query that is known as blocked changes nothing here.)
CheckKnown(p) ==
  /\ p \in alive /\ ~query[p].open
  /\ \/ /\ ~active[p]
        /\ LetPass(p, "off")
     \/ /\ active[p] /\ entry.status = "pass"
        /\ LetPass(p, ghost.why)
  /\ UNCHANGED <<db, changing, event, sighup, reloading, alive, active, conn, regex, current,
                 entry, timer, request, changes, ghost>>

\* The lists have to be asked, and those in busy, the allow list or all the others, do not
\* answer.  match_regex() first reads the regular expressions again when another process
\* has; it is not called for a domain that is on the exact allow list.
Ask(p, busy, okRegex) ==
  LET allowed == Shown(p) = "allow" /\ "allow" \notin busy
      lists == IF Shown(p) = "allow" /\ ~allowed THEN "none" ELSE Shown(p)
      ok == allowed \/ "rest" \notin busy
      read == p \notin current /\ ~allowed
      rx == IF read THEN Rows(okRegex) ELSE regex[p]
      verdict == Verdict(lists, rx)
      doubt == Doubt(lists, rx, busy)
      faults == Cardinality(busy) + Cardinality({x \in {1} : read /\ ~okRegex})
  IN /\ p \in alive /\ ~query[p].open /\ active[p] /\ entry.status = "unknown"
     /\ \/ conn[p].open /\ Spend(faults)
        \/ ~conn[p].open /\ busy = {"allow", "rest"} /\ ~okRegex /\ UNCHANGED changes
     /\ regex' = [regex EXCEPT ![p] = rx]
     /\ current' = IF read THEN Signal(p, okRegex) ELSE current
     /\ \/ /\ ok
           /\ entry' = [status |-> IF verdict = "pass" THEN "unknown" ELSE verdict,
                        allowed |-> IF verdict = "pass" THEN allowed ELSE entry.allowed]
           /\ IF verdict = "pass" THEN LetPass(p, doubt) ELSE UNCHANGED query
        \/ /\ ~ok
           /\ UNCHANGED entry
           /\ \E allow \in BusyReplies :
                IF allow THEN LetPass(p, "busy") ELSE UNCHANGED query
     /\ ghost' = [ghost EXCEPT !.blind = IF read THEN Blind(p, okRegex) ELSE @,
                               !.why = IF entry'.status = "unknown" THEN @ ELSE doubt,
                               !.flag = IF ok /\ verdict = "pass" THEN doubt ELSE @]
     /\ UNCHANGED <<db, changing, event, sighup, reloading, alive, active, conn, timer, request>>

\* Lorentz_forwarded() and the hooks for an answer: query_set_status() memorizes FORWARDED or
\* CACHE, whatever the check was based on.
Memorized(p) == [entry EXCEPT !.status = "pass"]
Answer(p) ==
  /\ query[p].open
  /\ query' = [query EXCEPT ![p] = NoQuery]
  /\ entry' = Memorized(p)
  /\ ghost' = [ghost EXCEPT !.why = IF entry.status = "pass" THEN @ ELSE query[p].why]
  /\ UNCHANGED <<db, changing, event, sighup, reloading, alive, active, conn, regex, current,
                 timer, request, changes>>

\* fork() for a TCP connection, whose worker opens the database anew, and its end.
Fork(w, faults) ==
  /\ w \in Workers \ alive
  /\ Spend(faults)
  /\ \E c \in Opens(faults) : conn' = [conn EXCEPT ![w] = c]
  /\ alive' = alive \cup {w}
  /\ active' = [active EXCEPT ![w] = active[Main]]
  /\ regex' = [regex EXCEPT ![w] = regex[Main]]
  /\ current' = IF Main \in current THEN current \cup {w} ELSE current \ {w}
  /\ ghost' = [ghost EXCEPT !.blind = IF Main \in @ THEN @ \cup {w} ELSE @ \ {w}]
  /\ UNCHANGED <<db, changing, event, sighup, reloading, entry, query, timer, request>>

Exit(w) ==
  /\ w \in alive \cap Workers
  /\ alive' = alive \ {w}
  /\ query' = [query EXCEPT ![w] = NoQuery]
  /\ active' = [active EXCEPT ![w] = TRUE]
  /\ conn' = [conn EXCEPT ![w] = Closed]
  /\ regex' = [regex EXCEPT ![w] = {}]
  /\ current' = current \ {w}
  /\ ghost' = [ghost EXCEPT !.blind = @ \ {w}]
  /\ UNCHANGED <<db, changing, event, sighup, reloading, entry, timer, request, changes>>

-----------------------------------------------------------------------------
(* Changes and the reload.                                                 *)

\* A request changes an entry of the lists in the database, and sets the event afterwards.
Change ==
  /\ Spend(1)
  /\ ~changing
  /\ \/ \E v \in Verdicts \ {db.lists} : db' = [db EXCEPT !.lists = v]
     \/ \E r \in db.regex : db' = [db EXCEPT !.regex = @ \ {r}]
     \/ \E r \in {Hit, Miss} \ db.regex : db' = [db EXCEPT !.regex = @ \cup {r}]
  /\ changing' = TRUE
  /\ UNCHANGED <<event, sighup, reloading, alive, active, conn, regex, current, entry, query, timer,
                 request, ghost>>

SetEvent ==
  /\ changing
  /\ changing' = FALSE /\ event' = TRUE
  /\ UNCHANGED <<db, sighup, reloading, alive, active, conn, regex, current, entry, query, timer,
                 request, changes, ghost>>

\* dnsmasq handles SIGHUP: Lorentz_dnsmasq_reload().
HandleSighup_Silent ==
  /\ sighup
  /\ sighup' = FALSE
  /\ UNCHANGED <<db, changing, event, reloading, alive, active, conn, regex, current, entry, query,
                 timer, request, changes, ghost>>
HandleSighup ==
  /\ sighup
  /\ sighup' = FALSE /\ event' = TRUE
  /\ UNCHANGED <<db, changing, reloading, alive, active, conn, regex, current, entry, query, timer,
                 request, changes, ghost>>

\* DB_thread() takes the event, ...
TakeEvent ==
  /\ event /\ ~reloading
  /\ event' = FALSE /\ reloading' = TRUE
  /\ UNCHANGED <<db, changing, sighup, alive, active, conn, regex, current, entry, query, timer,
                 request, changes, ghost>>

\* Lorentz_reset_per_client_domain_data()
Reset_Blocked == [entry EXCEPT !.status = IF @ = "pass" THEN "pass" ELSE "unknown"]
Reset == [entry EXCEPT !.status = "unknown"]

\* ... and reloads with the lock held.
Reload(faults, ok) ==
  /\ reloading
  /\ reloading' = FALSE
  /\ \E c \in Opens(faults) :
       /\ conn' = [conn EXCEPT ![Main] = c]
       /\ ok => c.open
       /\ Spend(IF ok \/ ~c.open THEN faults ELSE faults + 1)
  /\ regex' = [regex EXCEPT ![Main] = Rows(ok)]
  /\ current' = Signal(Main, ok)
  /\ entry' = Reset
  /\ query' = [p \in Processes |->
                 IF query[p].open /\ query[p].why = None THEN [query[p] EXCEPT !.why = "late"]
                 ELSE query[p]]
  /\ ghost' = [ghost EXCEPT !.why = None, !.blind = Blind(Main, ok)]
  /\ UNCHANGED <<db, changing, event, sighup, alive, active, timer, request>>

-----------------------------------------------------------------------------
(* The blocking status and its timer.  Requests hold the lock; the timer's *)
(* thread does not, and nothing else protects timer_delay.                 *)

\* set_blockingstatus(): dnsmasq is sent a SIGHUP.
SetStatus(s) ==
  /\ active' = [active EXCEPT ![Main] = s]
  /\ sighup' = TRUE

\* set_blocking(): the status is set if it differs, the timer switches to the other one.
Target(s) == IF s = active[Main] THEN TRUE ELSE ~s

Request(s, delay) ==
  /\ Spend(1)
  /\ ~request.open
  /\ request' = [open |-> TRUE, disable |-> ~s, delay |-> delay, target |-> Target(s)]
  /\ IF s = active[Main] THEN UNCHANGED <<active, sighup>> ELSE SetStatus(s)
  /\ ghost' = [ghost EXCEPT !.temporary = FALSE, !.raced = FALSE]
  /\ UNCHANGED <<db, changing, event, reloading, alive, conn, regex, current, entry, query, timer>>

\* set_blockingmode_timer()
SetTimer ==
  /\ request.open
  /\ timer' = [timer EXCEPT !.delay = request.delay, !.target = request.target]
  /\ request' = NoRequest
  /\ ghost' = [ghost EXCEPT !.temporary = request.disable /\ request.delay # Off,
                            !.raced = timer.at # "loop" \/ active[Main] = request.disable]
  /\ UNCHANGED <<db, changing, event, sighup, reloading, alive, active, conn, regex, current, entry,
                 query, changes>>

\* timer(): it reads timer_delay, decrements what it has read, and writes it back; ...
Running == timer.delay \in 1..MaxDelay
Elapsed_Never == timer.delay < 0
Elapsed == timer.delay = 0

TimerLook ==
  /\ timer.at = "loop" /\ (Running \/ Elapsed)
  /\ timer' = [timer EXCEPT !.at = IF Running THEN "tick" ELSE "expire",
                            !.read = IF Running THEN timer.delay ELSE @]
  /\ UNCHANGED <<db, changing, event, sighup, reloading, alive, active, conn, regex, current, entry,
                 query, request, changes, ghost>>

TimerTick ==
  /\ timer.at = "tick"
  /\ timer' = [timer EXCEPT !.at = "loop", !.delay = timer.read - 1, !.read = 0]
  /\ UNCHANGED <<db, changing, event, sighup, reloading, alive, active, conn, regex, current, entry,
                 query, request, changes, ghost>>

\* ... when it has elapsed, the status is set first and the timer deleted afterwards.
TimerExpire ==
  /\ timer.at = "expire"
  /\ SetStatus(timer.target)
  /\ timer' = [timer EXCEPT !.at = "clear"]
  /\ UNCHANGED <<db, changing, event, reloading, alive, conn, regex, current, entry, query, request,
                 changes, ghost>>

TimerClear ==
  /\ timer.at = "clear"
  /\ timer' = [timer EXCEPT !.at = "loop", !.delay = Off]
  /\ UNCHANGED <<db, changing, event, sighup, reloading, alive, active, conn, regex, current, entry,
                 query, request, changes, ghost>>

-----------------------------------------------------------------------------
TimerStep == TimerLook \/ TimerTick \/ TimerExpire \/ TimerClear

Next ==
  \/ \E p \in Processes : CheckKnown(p) \/ Answer(p)
  \/ \E p \in Processes, busy \in SUBSET {"allow", "rest"}, okRegex \in BOOLEAN :
       Ask(p, busy, okRegex)
  \/ \E p \in Processes, faults \in 0..1 : Reopen(p, faults)
  \/ \E w \in Workers : Exit(w) \/ \E faults \in 0..1 : Fork(w, faults)
  \/ Change \/ SetEvent \/ HandleSighup \/ TakeEvent
  \/ \E faults \in 0..1, ok \in BOOLEAN : Reload(faults, ok)
  \/ \E s \in BOOLEAN, delay \in {MaxDelay, Off} : Request(s, delay)
  \/ SetTimer \/ TimerStep

\* dnsmasq's loop, the threads and a request that has begun go on.
Fairness ==
  /\ WF_vars(SetEvent) /\ WF_vars(HandleSighup) /\ WF_vars(TakeEvent)
  /\ WF_vars(\E faults \in 0..1, ok \in BOOLEAN : Reload(faults, ok))
  /\ WF_vars(SetTimer) /\ WF_vars(TimerStep)

Spec == Init /\ [][Next]_vars /\ Fairness

-----------------------------------------------------------------------------
\* No change of the lists or of the status is waiting for a reload.
Settled == ~changing /\ ~event /\ ~sighup /\ ~reloading

\* When no reload is due, a memorized verdict is that of the lists in the database, and the
\* flag that exempts the domain from CNAME inspection is set exactly for allowed domains;
\* the only exceptions are those listed in Reasons (Lorentz_reload_all_domainlists()).
VerdictsAreCurrent ==
  (Settled /\ active[Main] /\ entry.status # "unknown" /\ ghost.why = None) =>
     /\ entry.status = Verdict(db.lists, db.regex)
     /\ (entry.status = "pass" /\ ghost.flag = None) => entry.allowed = (db.lists = "allow")

\* When no reload is due, every process that does not know better has compiled the regular
\* expressions of the database, unless it could not read them, the main process could not,
\* or there is none left; and the main process knows which lists have entries, unless it
\* takes all for empty after a fault (match_regex(), read_regex_table(), gravityDB_open()).
CopiesAreCurrent ==
  Settled =>
     /\ (Main \notin ghost.blind /\ db.regex # {}) =>
          \A p \in (alive \cap current) \ ghost.blind : regex[p] = db.regex
     /\ conn[Main].lists \in {{}, Present}

\* A change of the lists is followed by a reload: a later one is not lost while an earlier
\* one is being reloaded (DB_thread()).
ChangesTakeEffect == (changing \/ sighup) ~> reloading

\* Blocking that was disabled for some time is enabled again (set_blocking(), timer()),
\* unless the request met the timer's thread in the act.
BlockingResumes == ghost.temporary ~> (active[Main] \/ ~ghost.temporary \/ ghost.raced)

\* "As we set db_okay to false, this allowing here does not enter the DNS cache so this domain
\* will be rechecked on the next query" (check_domain_blocked()).
BusyIsRechecked == entry.status = "pass" => ghost.why # "busy"
=============================================================================
