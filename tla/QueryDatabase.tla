---------------------------- MODULE QueryDatabase ----------------------------
(***************************************************************************)
(* The way of a query into the databases: from the array in shared memory  *)
(* into the in-memory database once per second (queries_to_database(), in  *)
(* three phases of which the middle one runs without the lock of the       *)
(* shared memory), from there into the file on disk at intervals and once  *)
(* more at shutdown (export_queries_to_disk()), and back after a restart   *)
(* (init_memory_database(), DB_read_queries()).                            *)
(*                                                                         *)
(* The database thread, the garbage collector, the DNS server (the main    *)
(* process and its TCP workers), a request that flushes the history and    *)
(* the shutdown of main() interleave.  All of them use one connection to   *)
(* the in-memory database, hence one transaction.                          *)
(*                                                                         *)
(* A row holds which query it is of (q), the timestamp and the version of  *)
(* the query's data (ver): every hook that changes a query makes a new     *)
(* version.  Linking tables are left out.                                  *)
(***************************************************************************)
EXTENDS Integers, Sequences, SequencesExt, FiniteSetsExt, FiniteSets, Functions, TLC

CONSTANTS ReplyTimeout, \* REPLY_TIMEOUT, in ticks of the clock
          History,      \* webserver.api.maxHistory
          Retention,    \* database.maxDBdays
          LockWait,     \* how long a query may wait for the lock (bound)
          Faults,       \* the statements that may fail
          MaxTime, MaxQueries, MaxVersion,
          MaxMishaps    \* restarts, flushes and failed statements (bounds)

ASSUME DatabaseAssumption ==
  /\ {ReplyTimeout, History, Retention, LockWait, MaxTime, MaxQueries, MaxVersion,
      MaxMishaps} \subseteq Nat
  /\ ReplyTimeout < History /\ History <= Retention
  /\ Faults \subseteq {"begin", "step", "end", "insert", "delete"}

VARIABLES now,      \* the clock, and when the process was started
          queries,  \* the array in shared memory
          removed,  \* queries_removed of gc.c
          mem,      \* query_storage of the in-memory database, by id
          disk,     \* the file: query_storage by id, the total of all queries
          tx,       \* the transaction of the connection to the in-memory database
          maxid,    \* memdb_queries_maxid
          newTotal, \* new_total
          db,       \* the database thread
          gc,       \* the garbage collector
          main,     \* what main() does
          flush,    \* a flush that still has to delete from the file, and when it began
          history,  \* what happened: queries born, stored, exported, cut off
          mishaps   \* the number of restarts, flushes and failed statements

vars == <<now, queries, removed, mem, disk, tx, maxid, newTotal, db, gc, main, flush, history,
          mishaps>>

shm == <<queries, removed>>
sql == <<mem, tx, maxid, newTotal>>
counts == <<history, mishaps>>

Row(q) == [q |-> q.q, ts |-> q.ts, ver |-> q.ver]
IDs(rows) == DOMAIN rows
MaxID(rows) == Max(IDs(rows) \cup {-1})
Without(rows, gone(_)) == Restrict(rows, {id \in IDs(rows) : ~ gone(rows[id])})

NoTx == [kind |-> "none", mem |-> << >>, disk |-> << >>]
Open(kind) == [kind |-> kind, mem |-> mem, disk |-> disk]

NoDB == [pc |-> "import", before |-> 0, snaps |-> << >>, removed |-> 0, stored |-> 0]
NoGC == [pc |-> "idle", mintime |-> 0, removed |-> 0]

Hole == [kind |-> "hole", q |-> 0, ts |-> 0, ver |-> 0, db |-> -1, changed |-> FALSE]

ImportDone == db.pc # "import"

Mishap == mishaps < MaxMishaps /\ mishaps' = mishaps + 1
NoMishap == UNCHANGED mishaps
Fails(statement) == statement \in Faults /\ Mishap

Init ==
  /\ now = [time |-> 0, start |-> 0]
  /\ queries = << >> /\ removed = 0
  /\ mem = << >> /\ disk = [rows |-> << >>, total |-> 0]
  /\ tx = NoTx /\ maxid = -1 /\ newTotal = 0
  /\ db = NoDB /\ gc = NoGC
  /\ main = "run" /\ flush = -1
  /\ history = [born |-> 0, stored |-> 0, exported |-> {}, cut |-> {}]
  /\ mishaps = 0

-----------------------------------------------------------------------------
(* The DNS server *)

\* The timestamp is taken before the lock is waited for.
NewQuery(ts) ==
  /\ main = "run"
  /\ history.born < MaxQueries
  /\ queries' = Append(queries, [kind |-> "new", q |-> history.born + 1, ts |-> ts, ver |-> 0,
                                 db |-> -1, changed |-> TRUE])
  /\ history' = [history EXCEPT !.born = @ + 1]
  /\ UNCHANGED <<now, removed, sql, disk, db, gc, main, flush, mishaps>>

\* Every hook that changes a query marks it as changed.
UpdateQuery(p) ==
  /\ main = "run"
  /\ queries[p].kind = "new" /\ queries[p].ver < MaxVersion
  /\ queries' = [queries EXCEPT ![p].ver = @ + 1, ![p].changed = TRUE]
  /\ UNCHANGED <<now, removed, sql, disk, db, gc, main, flush, counts>>

-----------------------------------------------------------------------------
(* queries_to_database() *)

\* The scan from the newest query down to the second one stops behind the
\* first query that is too old or imported.
Stops == {p \in 2..Len(queries) :
            \/ queries[p].kind # "new"
            \/ queries[p].ts < now.time - ReplyTimeout}
FirstToStore == Max(Stops \cup {0}) + 1

\* The scan, or the loop over the window, meets a position that holds no query.
MeetsHole ==
  LET p == Max(Stops \cup {1}) IN p <= Len(queries) /\ queries[p].kind = "hole"

\* The changed queries of the window, and how many of the first k are new.
Changed == SelectSeq([p \in 1..Len(queries) |-> p],
                     LAMBDA p : p >= FirstToStore /\ queries[p].changed)
NewAmong(k) == Cardinality({j \in 1..k : queries[Changed[j]].db = -1})

Snapshots ==
  [k \in 1..Len(Changed) |->
    LET q == queries[Changed[k]]
    IN  [pos |-> Changed[k], row |-> Row(q), new |-> q.db = -1,
         idx |-> IF q.db = -1 THEN maxid + NewAmong(k) ELSE q.db]]

\* Mutant: the position is not rebased.
Rebased_Not(snap) == snap.pos

\* get_snapshot_query(): where the query of a snapshot is now, 0 or less when
\* it is gone.
Rebased(snap) == snap.pos - (removed - db.removed)
Present(snap) == Rebased(snap) \in 1..Len(queries) /\ queries[Rebased(snap)].kind # "hole"

\* The snapshot of the query at position p among those with these numbers.
SnapsOf(p, K) == {k \in K : Present(db.snaps[k]) /\ Rebased(db.snaps[k]) = p}

Requeue(K) ==
  [p \in 1..Len(queries) |->
    IF SnapsOf(p, K) # {} THEN [queries[p] EXCEPT !.changed = TRUE] ELSE queries[p]]

AllSnaps == 1..Len(db.snaps)
Idle == [db EXCEPT !.pc = "idle", !.snaps = << >>, !.removed = 0, !.stored = 0]

\* Once per second.  Nothing to store, a hole in the array, or no transaction.
StoreNothing ==
  /\ db.pc = "idle" /\ main = "run" /\ db.before < now.time
  /\ \/ /\ FirstToStore > Len(queries) \/ MeetsHole \/ tx.kind # "none"
        /\ NoMishap
     \/ Fails("begin") \/ Fails("end")
  /\ db' = [db EXCEPT !.before = now.time]
  /\ UNCHANGED <<now, shm, sql, disk, gc, main, flush, history>>

\* Phase 1, with the lock: a transaction for the linking tables, in which the
\* snapshots are taken and the flags cleared.  A failed statement for a linking
\* table leads to the requeue at the end, a failed END requeues at once, which
\* leaves everything as it was.
StoreSnapshot ==
  /\ db.pc = "idle" /\ main = "run" /\ db.before < now.time
  /\ FirstToStore <= Len(queries) /\ ~ MeetsHole
  /\ tx.kind = "none"
  /\ \E pc \in {"linked", "fail"} :
       /\ IF pc = "linked" THEN NoMishap ELSE Fails("step")
       /\ db' = [pc |-> pc, before |-> now.time, snaps |-> Snapshots, removed |-> removed,
                 stored |-> 0]
  /\ queries' = [p \in 1..Len(queries) |->
                  IF p >= FirstToStore THEN [queries[p] EXCEPT !.changed = FALSE]
                  ELSE queries[p]]
  /\ UNCHANGED <<now, removed, sql, disk, gc, main, flush, history>>

\* Phase 2, without the lock: REPLACE INTO query_storage for the snapshots up
\* to the first that fails.
Stored(n) ==
  LET k(id) == Max({j \in 1..n : db.snaps[j].idx = id})
  IN  [id \in IDs(mem) \cup {db.snaps[j].idx : j \in 1..n} |->
        IF \E j \in 1..n : db.snaps[j].idx = id THEN db.snaps[k(id)].row ELSE mem[id]]

StoreWrite ==
  /\ db.pc = "linked" /\ main = "run"
  /\ \/ /\ tx.kind = "none"
        /\ \E n \in 0..Len(db.snaps) :
             /\ IF n = Len(db.snaps) THEN NoMishap ELSE Fails("step")
             /\ mem' = Stored(n)
             /\ db' = [db EXCEPT !.pc = "write", !.stored = n]
        /\ tx' = Open("store")
     \/ /\ (tx.kind # "none" /\ NoMishap) \/ Fails("begin")
        /\ db' = [db EXCEPT !.pc = "fail"]
        /\ UNCHANGED <<mem, tx>>
  /\ UNCHANGED <<now, shm, disk, maxid, newTotal, gc, main, flush, history>>

StoreCommit ==
  /\ db.pc = "write" /\ main = "run"
  /\ tx' = NoTx
  /\ \/ /\ db' = [db EXCEPT !.pc = "written"]
        /\ UNCHANGED <<mem, mishaps>>
     \/ /\ Fails("end")
        /\ mem' = tx.mem
        /\ db' = [db EXCEPT !.pc = "fail"]
  /\ UNCHANGED <<now, shm, disk, maxid, newTotal, gc, main, flush, history>>

\* The new rows of snapshots whose query is still there.
Added == {k \in 1..db.stored : db.snaps[k].new /\ Present(db.snaps[k])}
Committed == {db.snaps[k].idx : k \in {j \in 1..db.stored : db.snaps[j].new}}

WrittenBack(p) ==
  IF SnapsOf(p, Added) # {}
  THEN [queries[p] EXCEPT !.db = db.snaps[Max(SnapsOf(p, Added))].idx]
  ELSE IF SnapsOf(p, AllSnaps \ (1..db.stored)) # {}
  THEN [queries[p] EXCEPT !.changed = TRUE]
  ELSE queries[p]

NextMaxID == IF Added = {} THEN maxid ELSE Max(Committed \cup {maxid})

\* Phase 3, with the lock: what was not stored is requeued, the ids are
\* written back.
StoreWriteBack ==
  /\ db.pc = "written" /\ main = "run"
  /\ queries' = [p \in 1..Len(queries) |-> WrittenBack(p)]
  /\ maxid' = NextMaxID
  /\ newTotal' = newTotal + Cardinality(Added)
  /\ history' = [history EXCEPT !.stored = @ + Cardinality(Added)]
  /\ db' = Idle
  /\ UNCHANGED <<now, removed, mem, disk, tx, gc, main, flush, mishaps>>

StoreFail ==
  /\ db.pc = "fail" /\ main = "run"
  /\ queries' = Requeue(AllSnaps)
  /\ db' = Idle
  /\ UNCHANGED <<now, removed, sql, disk, gc, main, flush, counts>>

-----------------------------------------------------------------------------
(* export_queries_to_disk() *)

\* Mutant: one id too many is taken for exported.
ToExport_OneMore(final) ==
  {id \in IDs(mem) : /\ id > MaxID(disk.rows) + 1
                     /\ final \/ mem[id].ts < now.time - ReplyTimeout}

\* Mutant: the final export has the limit of the others.
ToExport_NeverFinal(final) ==
  {id \in IDs(mem) : id > MaxID(disk.rows) /\ mem[id].ts < now.time - ReplyTimeout}

\* The final export has no limit but the present, which is past every timestamp.
ToExport(final) ==
  {id \in IDs(mem) : /\ id > MaxID(disk.rows)
                     /\ final \/ mem[id].ts < now.time - ReplyTimeout}

\* Mutant: new_total is not reset.
NewTotalAfter_Kept(counted) == newTotal

NewTotalAfter(counted) == IF counted THEN 0 ELSE newTotal

InFile == {<<id, disk.rows[id]>> : id \in IDs(disk.rows)}

\* The INSERT and the counters.  When the INSERT fails, the number of changes
\* is the one of an earlier statement, so the counters may be updated or not.
ExportRows(final) ==
  /\ tx.kind = "none"
  /\ tx' = Open("export")
  /\ \E fails \in BOOLEAN, counted \in BOOLEAN :
       /\ IF fails THEN Fails("insert") ELSE counted = (ToExport(final) # {}) /\ NoMishap
       /\ disk' = [rows |-> Restrict(mem, IF fails THEN {} ELSE ToExport(final)) @@ disk.rows,
                   total |-> disk.total + IF counted THEN newTotal ELSE 0]
       /\ newTotal' = NewTotalAfter(counted)
  /\ UNCHANGED <<now, shm, mem, maxid, gc, flush, history>>

ExportEnd ==
  /\ tx' = NoTx
  /\ \/ /\ UNCHANGED <<mem, disk, mishaps>>
        /\ history' = [history EXCEPT !.exported = @ \cup InFile]
     \/ /\ Fails("end")
        /\ mem' = tx.mem /\ disk' = tx.disk
        /\ UNCHANGED history
  /\ UNCHANGED <<now, shm, maxid, newTotal, gc, flush>>

\* The database thread at database.DBinterval.
PeriodicExport ==
  /\ db.pc = "idle" /\ main = "run"
  /\ ExportRows(FALSE)
  /\ db' = [db EXCEPT !.pc = "export"]
  /\ UNCHANGED main

PeriodicExportEnd ==
  /\ db.pc = "export"
  /\ ExportEnd
  /\ db' = Idle
  /\ UNCHANGED main

\* Old rows of the file, once a day.
PurgeDisk ==
  /\ db.pc = "idle" /\ main = "run"
  /\ tx.kind # "export"
  /\ LET Old(r) == r.ts <= now.time - Retention IN
     /\ \E id \in IDs(disk.rows) : Old(disk.rows[id])
     /\ disk' = [disk EXCEPT !.rows = Without(@, Old)]
  /\ UNCHANGED <<now, shm, sql, db, gc, main, flush, counts>>

-----------------------------------------------------------------------------
(* runGC() and flush_dnsmasq_log() *)

\* How many queries are removed: the loop skips holes, and stops at the first
\* query that is too new.
Expired(mintime) ==
  LET Newer == {p \in 1..Len(queries) : queries[p].kind # "hole" /\ queries[p].ts > mintime}
      end == Min(Newer \cup {Len(queries) + 1}) - 1
  IN  Cardinality({p \in 1..end : queries[p].kind # "hole"})

DeleteFromMem(mintime) == LET Old(r) == r.ts <= mintime IN Without(mem, Old)

\* The first n queries go.  The snapshots of some may be on their way.
InFlight(p) == db.pc # "idle" /\ SnapsOf(p, AllSnaps) # {}
CutOff(n) ==
  [history EXCEPT !.cut = @ \cup {queries[p].q : p \in {i \in 1..n : InFlight(i)}}]

GCBegin ==
  /\ gc.pc = "idle" /\ ImportDone /\ main = "run"
  /\ Expired(now.time - History) > 0
  /\ gc' = [pc |-> "delete", mintime |-> now.time - History,
            removed |-> Expired(now.time - History)]
  /\ UNCHANGED <<now, shm, sql, disk, db, main, flush, counts>>

\* The lock is released for this.
GCDelete ==
  /\ gc.pc = "delete" /\ main = "run"
  /\ \/ mem' = DeleteFromMem(gc.mintime) /\ NoMishap
     \/ Fails("delete") /\ UNCHANGED mem
  /\ gc' = [gc EXCEPT !.pc = "remove"]
  /\ UNCHANGED <<now, shm, disk, tx, maxid, newTotal, db, main, flush, history>>

\* No query is removed: only rows whose query is not in the array go.
GCDeleteOnly ==
  /\ gc.pc = "idle" /\ ImportDone /\ main = "run"
  /\ Expired(now.time - History) = 0
  /\ mem' = DeleteFromMem(now.time - History)
  /\ UNCHANGED <<now, shm, disk, tx, maxid, newTotal, db, gc, main, flush, counts>>

GCRemove ==
  /\ gc.pc = "remove" /\ main = "run"
  /\ queries' = SubSeq(queries, gc.removed + 1, Len(queries))
  /\ removed' = removed + gc.removed
  /\ gc' = NoGC
  /\ history' = CutOff(gc.removed)
  /\ UNCHANGED <<now, sql, disk, db, main, flush, mishaps>>

\* All queries up to the current second, which began at or before this tick.
\* runGC() does nothing before the import is done.  (A flush between the two
\* parts of a collection is the subject of QueryStore.)
FlushHistory(mintime) ==
  /\ flush = -1 /\ gc.pc = "idle" /\ main = "run"
  /\ flush' = now.time /\ Mishap
  /\ IF ImportDone
     THEN /\ queries' = SubSeq(queries, Expired(mintime) + 1, Len(queries))
          /\ removed' = removed + Expired(mintime)
          /\ mem' = DeleteFromMem(mintime)
          /\ history' = CutOff(Expired(mintime))
     ELSE UNCHANGED <<shm, mem, history>>
  /\ UNCHANGED <<now, disk, tx, maxid, newTotal, db, gc, main>>

FlushDisk ==
  /\ flush # -1 /\ main = "run" /\ tx.kind # "export"
  /\ LET Old(r) == r.ts <= flush IN
     \/ disk' = [disk EXCEPT !.rows = Without(@, Old)] /\ NoMishap
     \/ Fails("delete") /\ UNCHANGED disk
  /\ flush' = -1
  /\ UNCHANGED <<now, shm, sql, db, gc, main, history>>

-----------------------------------------------------------------------------
(* main(): the end of the process, and the next one *)

\* The memory of the process is gone.
Ended ==
  /\ main' = "down"
  /\ queries' = << >> /\ removed' = 0
  /\ mem' = << >> /\ tx' = NoTx /\ maxid' = -1 /\ newTotal' = 0
  /\ db' = NoDB /\ gc' = NoGC /\ flush' = -1

\* The process is asked to end, and main() exports.  What other threads do to
\* the memory from here on is lost and left out.
FinalExport ==
  /\ main = "run" /\ ImportDone
  /\ ExportRows(TRUE)
  /\ main' = "export"
  /\ UNCHANGED db

FinalExportEnd ==
  /\ main = "export"
  /\ \/ /\ history' = [history EXCEPT !.exported = @ \cup InFile]
        /\ UNCHANGED <<disk, mishaps>>
     \/ Fails("end") /\ disk' = tx.disk /\ UNCHANGED history
  /\ Ended
  /\ UNCHANGED now

\* The process is killed, or main() does not export: the import is not done, or
\* there is a transaction already or none can be begun.  An open transaction is
\* rolled back.
NoFinalExport ==
  /\ main # "down"
  /\ disk' = IF tx.kind = "export" THEN tx.disk ELSE disk
  /\ Ended
  /\ UNCHANGED <<now, counts>>

\* Mutant: the ids start over.
FirstID_Zero(rows) == -1

\* init_disk_db_idx()
FirstID(rows) == MaxID(rows)

ToImport(rows) == {id \in IDs(rows) : rows[id].ts \in (now.time - History)..now.time}

\* The next process.  count_queries_on_disk() reserves places in the array for
\* the rows to import.
Restart ==
  /\ main = "down" /\ Mishap
  /\ main' = "run"
  /\ maxid' = FirstID(disk.rows)
  /\ queries' = [p \in 1..Cardinality(ToImport(disk.rows)) |-> Hole]
  /\ now' = [now EXCEPT !.start = now.time]
  /\ UNCHANGED <<removed, mem, disk, tx, newTotal, db, gc, flush, history>>

\* DB_read_queries(): the rows of the time that was counted go into the
\* in-memory database, and those that are well-formed into the places
\* reserved, which are more when rows were deleted or are skipped.
Reserved == {p \in 1..Len(queries) : queries[p].kind = "hole"}

Imported(id) == [kind |-> "imported", q |-> disk.rows[id].q, ts |-> disk.rows[id].ts,
                 ver |-> disk.rows[id].ver, db |-> 0, changed |-> FALSE]

Import ==
  /\ db.pc = "import" /\ main = "run"
  /\ LET ids == {id \in IDs(disk.rows) :
                   disk.rows[id].ts \in (now.start - History)..now.start}
     IN  \E S \in SUBSET ids :
           /\ Cardinality(S) <= Cardinality(Reserved)
           /\ LET rows == SetToSortSeq(S, <) IN
              queries' = [p \in 1..Len(queries) |->
                           IF p <= Len(rows) THEN Imported(rows[p]) ELSE queries[p]]
           /\ mem' = Restrict(disk.rows, ids)
  /\ db' = [db EXCEPT !.pc = "idle", !.before = now.time]
  /\ UNCHANGED <<now, removed, disk, tx, maxid, newTotal, gc, main, flush, counts>>

-----------------------------------------------------------------------------
\* The database thread has tried to store before the clock moves on, unless it
\* is still storing, exporting or importing.  (Other work of its loop, such as
\* ANALYZE or the neighbor cache, is like an export that finds nothing.)
Tick ==
  /\ now.time < MaxTime /\ main # "export"
  /\ db.pc = "idle" => db.before = now.time
  /\ now' = [now EXCEPT !.time = @ + 1]
  /\ UNCHANGED <<shm, sql, disk, db, gc, main, flush, counts>>

Serve ==
  \/ \E ts \in (now.time - LockWait)..now.time : ts >= now.start /\ NewQuery(ts)
  \/ \E p \in 1..Len(queries) : UpdateQuery(p)

Store ==
  \/ StoreNothing \/ StoreSnapshot \/ StoreWrite \/ StoreCommit
  \/ StoreWriteBack \/ StoreFail

DBThread == Store \/ PeriodicExport \/ PeriodicExportEnd \/ PurgeDisk \/ Import

Collect ==
  \/ GCBegin \/ GCDelete \/ GCDeleteOnly \/ GCRemove \/ FlushDisk
  \/ \E mintime \in {now.time - 1, now.time} : FlushHistory(mintime)

End == FinalExport \/ NoFinalExport \/ FinalExportEnd \/ Restart

Next == Serve \/ DBThread \/ Collect \/ End \/ Tick

Spec == Init /\ [][Next]_vars

-----------------------------------------------------------------------------
Rows == [q : 1..MaxQueries, ts : 0..MaxTime, ver : 0..MaxVersion]
Table(rows) == /\ IDs(rows) \subseteq Nat
               /\ \A id \in IDs(rows) : rows[id] \in Rows

\* The type invariant.
TypeOK ==
  /\ now.time \in 0..MaxTime /\ now.start \in 0..now.time
  /\ \A p \in 1..Len(queries) :
       /\ queries[p].kind \in {"hole", "imported", "new"}
       /\ queries[p].kind # "hole" => Row(queries[p]) \in Rows
       /\ queries[p].db \in Nat \cup {-1}
  /\ Table(mem) /\ Table(disk.rows) /\ disk.total \in Nat
  /\ tx.kind \in {"none", "store", "export"}
  /\ maxid \in Nat \cup {-1} /\ newTotal \in Nat
  /\ db.pc \in {"import", "idle", "linked", "write", "written", "fail", "export"}
  /\ gc.pc \in {"idle", "delete", "remove"}
  /\ main \in {"run", "export", "down"}

\* A query whose changed flag is not set has been stored as it is: the id it
\* has names its row, and the row holds its present data.  The flag is cleared
\* before the rows are written, the queries move in the array while they are,
\* statements fail, and hooks change the queries at any time (phases 1 to 3 of
\* queries_to_database(), requeue_snapshots(), get_snapshot_query()).  The row
\* may be gone already when the query is about to be.
UnchangedIsStored ==
  \A p \in 1..Len(queries) :
    queries[p].kind = "new" /\ ~ queries[p].changed /\ ~ InFlight(p) =>
      /\ queries[p].db # -1
      /\ queries[p].db \in IDs(mem) => mem[queries[p].db] = Row(queries[p])

\* An id names one query in both databases, also when the process has been
\* restarted in between (memdb_queries_maxid, init_disk_db_idx()).  The
\* exception are queries that were removed from the shared memory while they
\* were being stored.
IDNamesOneQuery ==
  \A id \in IDs(mem) \cap IDs(disk.rows) :
    \/ mem[id].q = disk.rows[id].q
    \/ disk.rows[id].q \in history.cut

\* An export passes over a row for good only when a row with a higher id, but
\* an older timestamp, went to the file before it: the export takes the ids
\* above the highest one of the file (queries_to_disk_stmt).  Other rows of the
\* history that are not in the file have been there.
OnlyOvertakenAreSkipped ==
  \A id \in IDs(mem) \ IDs(disk.rows) :
    id < MaxID(disk.rows) /\ mem[id].ts > now.time - History =>
      \E e \in history.exported \cup InFile :
        \/ e[2].q = mem[id].q
        \/ e[1] > id /\ e[2].ts < mem[id].ts

\* The total of the file counts no query twice, whichever statements fail and
\* whenever the process dies (new_total, db_update_disk_counter()).
CountedOnce == disk.total + newTotal <= history.stored

\* A final export that stored rows leaves none behind that the next export
\* would have taken: together with OnlyOvertakenAreSkipped, all rows are in the
\* file but those passed over before
\* (export_queries_to_disk(true)).
FinalExportIsComplete ==
  [][main = "export" /\ main' = "down" /\ disk'.rows # tx.disk.rows =>
       \A id \in IDs(mem) : id <= MaxID(disk'.rows)]_vars

\* "queries are retained in here until the next try. This ensures we cannot
\* loose queries" (DB_thread()): a query that was never stored is still in the
\* window of the next try.
RetainedUntilStored ==
  \A p \in 1..Len(queries) :
    queries[p].kind = "new" /\ queries[p].db = -1 /\ ~ InFlight(p) => p >= FirstToStore
=============================================================================
