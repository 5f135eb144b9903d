------------------------------ MODULE OverTime ------------------------------
(***************************************************************************)
(* The statistics per interval (src/overTime.c), the garbage collection    *)
(* that moves them on (runGC() and GC_thread() in src/gc.c), and the       *)
(* counters of clients and alias-clients that go with them                 *)
(* (change_clientcount() in src/datastructure.c, src/database/             *)
(* aliasclients.c).                                                        *)
(*                                                                         *)
(* Time is an integer; one unit stands for GCdelay.  The garbage collector *)
(* runs GCdelay before a full interval, subtracts what is too old under    *)
(* the SHM lock, deletes rows without it, and then, under the lock again,  *)
(* drops the queries, recycles clients and moves the slots.                *)
(*                                                                         *)
(* A client is its ID: recycled IDs and lookups are in RecycleTable and    *)
(* QueryStore.  Statuses are reduced to the kinds that have a counter per  *)
(* slot.  The prefix of the array reserved for the import is free of holes *)
(* here (QueryStore has them).                                             *)
(***************************************************************************)
EXTENDS Integers, Sequences, FiniteSets, FiniteSetsExt, SequencesExt

CONSTANTS
  Clients,            \* IDs of clients, natural numbers (the order matters)
  Aliases,            \* alias-clients
  NoAlias,            \* aliasclient_id = -1
  Kinds,              \* statuses with a counter per slot: blocked, cached, ...
  OVERTIME_SLOTS, OVERTIME_INTERVAL,
  GCinterval, GCdelay,
  maxHistory,         \* webserver.api.maxHistory
  UINT,               \* number of values of an unsigned int
  Starts,             \* times at which the process may be started
  Duration,           \* bound: how long it is watched
  MaxQueries,         \* bound: queries in memory
  Rows,               \* bound: queries imported from the database
  Reassignments,      \* bound: changes of the database of alias-clients
  FlushDuringGC       \* may a flush come while the collector deletes rows?

ASSUME Parameters ==
  /\ Clients \subseteq Nat /\ NoAlias \notin Aliases
  /\ {OVERTIME_SLOTS, OVERTIME_INTERVAL, GCinterval, GCdelay} \subseteq Nat \ {0}
  /\ OVERTIME_INTERVAL % 2 = 0 /\ GCdelay < GCinterval
  /\ {maxHistory, UINT, Duration, MaxQueries, Rows, Reassignments} \subseteq Nat
  /\ FlushDuringGC \in BOOLEAN

VARIABLES
  now,          \* time(NULL)
  started,      \* time of the start
  lastGCrun,    \* of GC_thread
  imported,     \* db_import_done
  skipped,      \* history: was a collection skipped because it was FALSE?
  rows,         \* queries imported so far
  queries,      \* the array of queries
  gc,           \* "idle", or "deleting": between the two locked parts of runGC
  mintime,      \* the local variable of runGC
  removed,      \* queries runGC has subtracted, still in the array
  overTime,     \* the slots
  client,       \* the clients
  alias,        \* the alias-clients
  network,      \* the database: which alias-client a client belongs to
  reassigned    \* changes of it so far

vars == <<now, started, lastGCrun, imported, skipped, rows, queries, gc, mintime, removed,
          overTime, client, alias, network, reassigned>>

Slots == 0 .. OVERTIME_SLOTS - 1
Zeros == [i \in Slots |-> 0]
Statuses == Kinds \cup {"unknown"}

(* ---- integers of C ---- *)

\* Division and remainder of C truncate.
Quot(a, b) == IF a >= 0 THEN a \div b ELSE -((-a) \div b)
Rem(a, b) == a - b * Quot(a, b)

\* The middle of the interval of a time.
Centre(t) == t - Rem(t, OVERTIME_INTERVAL) + OVERTIME_INTERVAL \div 2

(* ---- slots ---- *)

initSlot(timestamp) == [timestamp |-> timestamp, total |-> 0, of |-> [k \in Kinds |-> 0]]

initOverTime(t) ==
  LET newest == t - (t % GCinterval) + GCinterval - OVERTIME_INTERVAL \div 2
      oldest == newest - (OVERTIME_SLOTS - 1) * OVERTIME_INTERVAL
  IN [i \in Slots |-> initSlot(oldest + OVERTIME_INTERVAL * i)]

\* mutant: the slot is computed from the start of the interval
getOverTimeID_Uncentred(t) ==
  LET id == Quot(t - overTime[0].timestamp, OVERTIME_INTERVAL)
  IN IF id < 0 THEN 0 ELSE IF id >= OVERTIME_SLOTS THEN OVERTIME_SLOTS - 1 ELSE id

getOverTimeID(t) ==
  LET id == Quot(Centre(t) - overTime[0].timestamp, OVERTIME_INTERVAL)
  IN IF id < 0 THEN 0 ELSE IF id >= OVERTIME_SLOTS THEN OVERTIME_SLOTS - 1 ELSE id

\* The number of slots to move, and whether moveOverTimeMemory() moves them.
Move(slots, from) == Quot(Centre(from) - slots[0].timestamp, OVERTIME_INTERVAL)
Moves(slots, from) == Move(slots, from) > 0 /\ Move(slots, from) < OVERTIME_SLOTS

moveOverTimeMemory(slots, from) ==
  IF ~Moves(slots, from) THEN slots ELSE
  LET rest == OVERTIME_SLOTS - Move(slots, from)
      last == slots[OVERTIME_SLOTS - 1].timestamp
  IN [i \in Slots |-> IF i < rest THEN slots[i + Move(slots, from)]
                      ELSE initSlot(last + (i - rest + 1) * OVERTIME_INTERVAL)]

\* mutant: the slots of the clients stay where they are
MovedCounts_Not(counts, slots, from) == counts

\* What the same move does to the array of one client.
MovedCounts(counts, slots, from) ==
  IF ~Moves(slots, from) THEN counts ELSE
  [i \in Slots |-> IF i < OVERTIME_SLOTS - Move(slots, from)
                   THEN counts[i + Move(slots, from)] ELSE 0]


(* ---- counters ---- *)

NoClient == [exists |-> FALSE, count |-> 0, overTime |-> Zeros, alias |-> NoAlias]
NoCounts == [count |-> 0, overTime |-> Zeros]

Known == {c \in Clients : client[c].exists}

\* The counts of a set of clients taken together.
SumOf(S, of) == [count |-> MapThenSumSet(LAMBDA c : of[c].count, S),
                 overTime |-> [i \in Slots |-> MapThenSumSet(LAMBDA c : of[c].overTime[i], S)]]

\* recompute_aliasclient() over the clients "of".
recompute_aliasclient(a, of) == SumOf({c \in Clients : of[c].exists /\ of[c].alias = a}, of)

\* change_clientcount() for a client or its alias-client, by "sign" times the
\* number of queries each slot gains.
Changed(counts, sign, n) ==
  [counts EXCEPT !.count = @ + sign * MapThenSumSet(LAMBDA i : n[i], Slots),
                 !.overTime = [i \in Slots |-> @[i] + sign * n[i]]]

\* mutant: the alias-client of a known client is forgotten
CountQuery_NoAlias(c, t, s) ==
  LET id == getOverTimeID(t)
      one == [i \in Slots |-> IF i = id THEN 1 ELSE 0]
      a == IF client[c].exists THEN client[c].alias ELSE network[c]
      new == [client EXCEPT ![c] = [Changed(@, 1, one) EXCEPT !.exists = TRUE, !.alias = a]]
  IN /\ client' = new
     /\ alias' = IF a = NoAlias \/ client[c].exists THEN alias
                 ELSE [alias EXCEPT ![a] = recompute_aliasclient(a, new)]
     /\ overTime' = [overTime EXCEPT ![id] =
                       [@ EXCEPT !.total = @ + 1,
                                 !.of = [k \in Kinds |-> @[k] + (IF k = s THEN 1 ELSE 0)]]]

(***************************************************************************)
(* One query more, of client c at time t with status s: findClientID()     *)
(* (which creates the client and recomputes its alias-client, or counts    *)
(* it and its alias-client), and change_clientcount() for the slot.        *)
(***************************************************************************)
CountQuery(c, t, s) ==
  LET id == getOverTimeID(t)
      one == [i \in Slots |-> IF i = id THEN 1 ELSE 0]
      a == IF client[c].exists THEN client[c].alias ELSE network[c]
      new == [client EXCEPT ![c] = [Changed(@, 1, one) EXCEPT !.exists = TRUE, !.alias = a]]
  IN /\ client' = new
     /\ alias' = IF a = NoAlias THEN alias
                 ELSE [alias EXCEPT ![a] = IF client[c].exists THEN Changed(@, 1, one)
                                           ELSE recompute_aliasclient(a, new)]
     /\ overTime' = [overTime EXCEPT ![id] =
                       [@ EXCEPT !.total = @ + 1,
                                 !.of = [k \in Kinds |-> @[k] + (IF k = s THEN 1 ELSE 0)]]]

(* ---- DNS ---- *)

Init ==
  /\ started \in Starts /\ now = started
  /\ lastGCrun = now - (now % GCinterval)
  /\ imported = FALSE /\ skipped = FALSE /\ rows = 0 /\ queries = <<>>
  /\ gc = "idle" /\ mintime = 0 /\ removed = 0
  /\ overTime = initOverTime(now)
  /\ client = [c \in Clients |-> NoClient]
  /\ alias = [a \in Aliases |-> NoCounts]
  /\ network \in [Clients -> Aliases \cup {NoAlias}] /\ reassigned = 0

\* A new query from client c (_Lorentz_new_query()).
NewQuery(c) ==
  /\ Len(queries) < MaxQueries
  /\ queries' = Append(queries, [timestamp |-> now, client |-> c, status |-> "unknown"])
  /\ CountQuery(c, now, "unknown")
  /\ UNCHANGED <<now, started, lastGCrun, imported, skipped, rows, gc, mintime, removed, network, reassigned>>

\* query_set_status() while the answer may still come: dnsmasq gives up on a
\* query long before an interval has passed.
SetStatus(j, s) ==
  LET old == queries[j].status
      id == getOverTimeID(queries[j].timestamp)
  IN /\ now - queries[j].timestamp <= GCdelay /\ s # old
     /\ queries' = [queries EXCEPT ![j].status = s]
     /\ overTime' = [overTime EXCEPT ![id].of = [k \in Kinds |->
                       @[k] - (IF k = old THEN 1 ELSE 0) + (IF k = s THEN 1 ELSE 0)]]
     /\ UNCHANGED <<now, started, lastGCrun, imported, skipped, rows, gc, mintime, removed,
                    client, alias, network, reassigned>>


(* ---- import from the database ---- *)

\* One row of the history that DB_read_queries() reads, in the order of time,
\* into the part of the array reserved for it before the first new query.
ImportQuery(c, t, s) ==
  /\ ~imported /\ rows < Rows /\ Len(queries) < MaxQueries
  /\ t \in started - maxHistory .. started /\ t >= 0
  /\ rows > 0 => t >= queries[rows].timestamp
  /\ rows' = rows + 1
  /\ queries' = InsertAt(queries, rows + 1, [timestamp |-> t, client |-> c, status |-> s])
  /\ CountQuery(c, t, s)
  /\ UNCHANGED <<now, started, lastGCrun, imported, skipped, gc, mintime, removed, network, reassigned>>

ImportDone ==
  /\ ~imported /\ imported' = TRUE
  /\ UNCHANGED <<now, started, lastGCrun, skipped, rows, queries, gc, mintime, removed,
                 overTime, client, alias, network, reassigned>>

(* ---- garbage collection ---- *)

\* mintime of a scheduled run: GCdelay and maxHistory are unsigned.
MinTime ==
  LET m == now - ((maxHistory - GCdelay) % UINT) IN m - Rem(m, GCinterval)

\* mutant: the loop looks at the newest query first
Expired_Newest(limit) ==
  IF queries # <<>> /\ Last(queries).timestamp <= limit THEN Len(queries) ELSE 0

\* The queries the loop of runGC() removes: up to the first newer one.
Expired(limit) ==
  Max({n \in 0 .. Len(queries) : \A j \in 1 .. n : queries[j].timestamp <= limit})

\* How many of the queries in J are in each slot.
InSlots(J) ==
  [i \in Slots |-> Cardinality({j \in J : getOverTimeID(queries[j].timestamp) = i})]

\* Counters without the first n queries.
SlotsWithout(n) ==
  LET all == InSlots(1 .. n)
      of == [k \in Kinds |-> InSlots({j \in 1 .. n : queries[j].status = k})]
  IN [i \in Slots |-> [overTime[i] EXCEPT !.total = @ - all[i],
                                          !.of = [k \in Kinds |-> @[k] - of[k][i]]]]

ClientsWithout(n) ==
  [c \in Clients |-> Changed(client[c], -1, InSlots({j \in 1 .. n : queries[j].client = c}))]

AliasesWithout(n) ==
  [a \in Aliases |-> Changed(alias[a], -1, InSlots({j \in 1 .. n : client[queries[j].client].alias = a}))]

\* recycle(): clients without queries are wiped, alias-clients are kept.
recycle(of) == [c \in Clients |-> IF of[c].exists /\ of[c].count = 0 THEN NoClient ELSE of[c]]

\* The last part of runGC(): n queries leave, clients are recycled, slots move.
Finish(n, slots, of, aliases, from) ==
  LET Moved(r) == [r EXCEPT !.overTime = MovedCounts(@, slots, from)]
  IN /\ queries' = SubSeq(queries, n + 1, Len(queries))
     /\ overTime' = moveOverTimeMemory(slots, from)
     /\ client' = [c \in Clients |-> Moved(recycle(of)[c])]
     /\ alias' = [a \in Aliases |-> Moved(aliases[a])]
     /\ rows' = Max({0, rows - n})

Due(t) == t + GCdelay - lastGCrun >= GCinterval

\* GC_thread() finds a run due; runGC() up to its unlock_shm().
GCStart ==
  /\ gc = "idle" /\ Due(now)
  /\ lastGCrun' = now + GCdelay - ((now + GCdelay) % GCinterval)
  /\ IF ~imported THEN UNCHANGED <<gc, mintime, removed, queries, overTime, client, alias>>
     ELSE LET n == Expired(MinTime)
          IN /\ gc' = "deleting" /\ mintime' = MinTime /\ removed' = n
             /\ queries' = [j \in DOMAIN queries |->
                             IF j <= n THEN [queries[j] EXCEPT !.status = "unknown"] ELSE queries[j]]
             /\ overTime' = SlotsWithout(n)
             /\ client' = ClientsWithout(n)
             /\ alias' = AliasesWithout(n)
  /\ skipped' = (skipped \/ ~imported)
  /\ UNCHANGED <<now, started, imported, rows, network, reassigned>>

\* runGC() after delete_old_queries_from_db(), with the lock again.
GCEnd ==
  /\ gc = "deleting"
  /\ Finish(removed, overTime, client, alias, mintime)
  /\ gc' = "idle" /\ mintime' = 0 /\ removed' = 0
  /\ UNCHANGED <<now, started, lastGCrun, imported, skipped, network, reassigned>>

\* flush_dnsmasq_log() runs runGC() for everything up to now under one lock.
Flush ==
  /\ imported /\ queries # <<>>
  /\ gc = "idle" \/ FlushDuringGC
  /\ LET n == Expired(now)
     IN Finish(n, SlotsWithout(n), ClientsWithout(n), AliasesWithout(n), now)
  /\ UNCHANGED <<now, started, lastGCrun, imported, skipped, gc, mintime, removed, network, reassigned>>

(* ---- alias-clients ---- *)

\* The network table of the database assigns client c to another alias-client.
Assign(c, a) ==
  /\ reassigned < Reassignments /\ network[c] # a
  /\ network' = [network EXCEPT ![c] = a] /\ reassigned' = reassigned + 1
  /\ UNCHANGED <<now, started, lastGCrun, imported, skipped, rows, queries, gc, mintime, removed,
                 overTime, client, alias>>

\* What reimport_aliasclients() leaves in alias-client a.  It resets all of them
\* and then looks clients up in the order of their IDs, each of which recomputes
\* its own alias-client: the last one decides, and those behind it are taken
\* with the alias-client they had before.
Reimported(a) ==
  LET own == {c \in Known : network[c] = a}
  IN IF own = {} THEN NoCounts
     ELSE SumOf({c \in Known : IF c <= Max(own) THEN network[c] = a ELSE client[c].alias = a}, client)

reimport_aliasclients ==
  /\ client' = [c \in Clients |-> IF c \in Known THEN [client[c] EXCEPT !.alias = network[c]] ELSE client[c]]
  /\ alias' = [a \in Aliases |-> Reimported(a)]
  /\ UNCHANGED <<now, started, lastGCrun, imported, skipped, rows, queries, gc, mintime, removed,
                 overTime, network, reassigned>>

(* ---- time ---- *)

\* Time passes.  The collector is done before the interval it prepares for
\* begins: it starts GCdelay earlier and wakes up every second.  The import
\* is over before a second collection finds it unfinished.
Tick ==
  /\ now < started + Duration
  /\ skipped /\ ~imported => ~Due(now + 1)
  /\ (now + 1) % GCinterval = 0 => gc = "idle" /\ ~Due(now)
  /\ now' = now + 1
  /\ UNCHANGED <<started, lastGCrun, imported, skipped, rows, queries, gc, mintime, removed,
                 overTime, client, alias, network, reassigned>>

Next ==
  \/ \E c \in Clients : NewQuery(c)
  \/ \E j \in DOMAIN queries, s \in Kinds : SetStatus(j, s)
  \/ \E c \in Clients, t \in 0 .. started, s \in Kinds : ImportQuery(c, t, s)
  \/ ImportDone
  \/ GCStart
  \/ GCEnd
  \/ Flush
  \/ \E c \in Clients, a \in Aliases \cup {NoAlias} : Assign(c, a)
  \/ reimport_aliasclients
  \/ Tick

Spec == Init /\ [][Next]_vars

(* ---- properties ---- *)

TypeOK ==
  /\ now \in Nat /\ started \in Starts /\ lastGCrun \in Nat
  /\ imported \in BOOLEAN /\ skipped \in BOOLEAN /\ rows \in 0 .. Len(queries)
  /\ queries \in Seq([timestamp : Nat, client : Clients, status : Statuses])
  /\ Len(queries) <= MaxQueries
  /\ gc \in {"idle", "deleting"} /\ mintime \in Int /\ removed \in 0 .. Len(queries)
  /\ overTime \in [Slots -> [timestamp : Int, total : Int, of : [Kinds -> Int]]]
  /\ client \in [Clients -> [exists : BOOLEAN, count : Nat, overTime : [Slots -> Int],
                              alias : Aliases \cup {NoAlias}]]
  /\ alias \in [Aliases -> [count : Nat, overTime : [Slots -> Int]]]
  /\ network \in [Clients -> Aliases \cup {NoAlias}] /\ reassigned \in 0 .. Reassignments

\* The queries still counted.
Live == removed + 1 .. Len(queries)

(***************************************************************************)
(* There is a slot for the present, and every slot counts exactly the      *)
(* queries of its own interval, in total and per status: what overTime.c   *)
(* shows for ten minutes is what happened in them, however new queries,    *)
(* imports, collections, flushes and moves of the slots interleave -       *)
(* unless the import of the history was still going on at a collection:    *)
(* runGC() then does nothing for one interval, and the queries of that     *)
(* interval are counted in the last slot there is.                         *)
(***************************************************************************)
SlotsExact ==
  ~skipped => overTime[OVERTIME_SLOTS - 1].timestamp >= Centre(now) /\ \A i \in Slots :
    LET Own(j) == Centre(queries[j].timestamp) = overTime[i].timestamp
    IN /\ overTime[i].total = Cardinality({j \in Live : Own(j)})
       /\ \A k \in Kinds :
            overTime[i].of[k] = Cardinality({j \in Live : Own(j) /\ queries[j].status = k})

(***************************************************************************)
(* The clients share out the slots: what change_clientcount() has counted  *)
(* for the clients of a slot adds up to the total of the slot, and a       *)
(* client's own count is the number of its queries, so that recycle()      *)
(* takes no client with queries.  (The first only if no collection was     *)
(* skipped, see SlotsExact.)                                               *)
(***************************************************************************)
ClientsAddUp ==
  /\ ~skipped => \A i \in Slots : SumOf(Clients, client).overTime[i] = overTime[i].total
  /\ \A c \in Clients : client[c].count = Cardinality({j \in Live : queries[j].client = c})

(***************************************************************************)
(* An alias-client never shows less than its members together, in count    *)
(* and in every slot (change_clientcount(), recompute_aliasclient()).      *)
(***************************************************************************)
AliasCoversMembers ==
  \A a \in Aliases :
    LET members == SumOf({c \in Known : client[c].alias = a}, client)
    IN /\ alias[a].count >= members.count
       /\ ~skipped => \A i \in Slots : alias[a].overTime[i] >= members.overTime[i]

(***************************************************************************)
(* History expires: a query leaves the memory at the latest one collection *)
(* interval after it has become older than maxHistory.  A skipped          *)
(* collection (see SlotsExact) costs one more interval.                    *)
(***************************************************************************)
HistoryExpires ==
  \A j \in Live : queries[j].timestamp >
                   now - maxHistory - GCinterval - (IF skipped THEN GCinterval ELSE 0)
=============================================================================
