----------------------------- MODULE QueryStore -----------------------------
(***************************************************************************)
(* The life of the queries in the store of Lorentz: the import of the      *)
(* history, the handlers dnsmasq calls while it works on a query, and the  *)
(* garbage collector that expires queries and recycles what nothing        *)
(* references any more.                                                    *)
(*                                                                         *)
(* Sources: src/src/dnsmasq_interface.c, gc.c, log.c (flush) and           *)
(* database/query-table.c (import); the operators are in QueryTables.      *)
(*                                                                         *)
(* Every handler runs with the SHM lock held from its first access to its  *)
(* last one, so it is one atomic step.  The three places where the lock is *)
(* released half way are separate steps: find_mac() in a new query, the    *)
(* deletion from the in-memory database in runGC(), and the gap between    *)
(* two calls of Lorentz_multiple_replies().                                *)
(*                                                                         *)
(* Time is left out: which queries are old enough for the garbage          *)
(* collector, which unreferenced domains were last asked for more than 24  *)
(* hours ago, and which cache records have expired, is a free choice.      *)
(***************************************************************************)
EXTENDS QueryTables

CONSTANTS
  Rows,         \* bound: rows the import counts in the database
  MaxQueries,   \* bound: positions ever used, imported ones included
  HolesExpire,  \* does garbage collection meet slots the import left empty?
  FlushDuringGC,\* may a flush happen while runGC() has released the lock?
  CacheTTL,     \* is dns.cache.upstreamBlockedTTL greater than zero?
  Processes     \* bound: dnsmasq processes, 1 is the main one, more TCP workers

\* Where dnsmasq stands with a query: looking up the MAC address inside
\* Lorentz_new_query(), looking for a local answer, waiting for an upstream,
\* reading its reply, about to send the blocking answer, or finished with it.
Phases == {"mac", "asked", "fwd", "reply", "blocked", "done"}

ASSUME StoreAssumption ==
  /\ Rows \in Nat /\ MaxQueries \in Nat /\ Rows <= MaxQueries
  /\ {HolesExpire, FlushDuringGC, CacheTTL} \subseteq BOOLEAN
  /\ Processes \in Nat

VARIABLES
  shm,      \* the shared memory, a record (see TypeOK)
  rows,     \* import: the rows counted in the database, and those still to be read
  gc,       \* the garbage collector thread: its position and its locals
  phase,    \* per position: where dnsmasq stands with the query
  frec,     \* per domain: the queries waiting for the same upstream answer
  multi     \* the loop around Lorentz_multiple_replies()

vars == <<shm, rows, gc, phase, frec, multi>>

-----------------------------------------------------------------------------
(* Initial state *)

Idle == [pc |-> "idle", upto |-> 0, removed |-> 0]
NoLoop == [todo |-> <<>>, first |-> -1, src |-> 0]

\* The import has counted its rows before the first query can arrive.
Init ==
  /\ rows \in {[counted |-> n, left |-> n] : n \in 0 .. Rows}
  /\ shm = [queries   |-> [p \in 1 .. rows.counted |-> Hole],
            offset    |-> 0,
            clients   |-> [c \in Clients |-> NoClient],
            domains   |-> [d \in Domains |-> NoDomainData],
            upstreams |-> [u \in Upstreams |-> 0],
            caches    |-> [k \in Clients \X Domains |-> NoCache],
            status    |-> [st \in Statuses |-> 0],
            reply     |-> [r \in Replies |-> 0]]
  /\ gc = Idle
  /\ phase = [p \in 1 .. rows.counted |-> "done"]
  /\ frec = [d \in Domains |-> <<>>]
  /\ multi = NoLoop

-----------------------------------------------------------------------------
(* The import of the history: DB_read_queries() *)

\* The next free slot among those reserved for the import.
ImportSlot == 1 + Cardinality({p \in 1 .. rows.counted : shm.queries[p].magic})

\* The kinds of rows: forwarded, answered from cache, on a list (with the ID
\* of the list in additional_info), blocked because of a CNAME.
ImportedRecords(c, d) ==
  LET q == [NewRecord(c, d) EXCEPT !.reply = "ANSWER", !.complete = TRUE,
                                   !.answered = TRUE]
  IN {[q EXCEPT !.status = "CACHE"], [q EXCEPT !.status = "GRAVITY", !.cached = TRUE]}
     \cup {[q EXCEPT !.status = "FORWARDED", !.upstream = u, !.counted = TRUE] :
             u \in Upstreams}
     \cup {[q EXCEPT !.status = "GRAVITY_CNAME", !.cname = e] : e \in Domains \ {d}}

ImportRow ==
  /\ rows.left > 0
  /\ \E c \in Clients, d \in Domains : \E q \in ImportedRecords(c, d) :
       shm' = ImportQuery(shm, ImportSlot, q)
  /\ rows' = [rows EXCEPT !.left = @ - 1]
  /\ UNCHANGED <<gc, phase, frec, multi>>

\* A row the code does not want to keep (an invalid value, ignoreLocalhost).
ImportSkip ==
  /\ rows.left > 0
  /\ rows' = [rows EXCEPT !.left = @ - 1]
  /\ UNCHANGED <<shm, gc, phase, frec, multi>>

-----------------------------------------------------------------------------
(* New queries: _Lorentz_new_query() *)

\* A process is busy with a query until it has answered it, dropped it or
\* left it waiting for an upstream, and with the loop that hands out answers.
Busy == Cardinality({p \in DOMAIN phase : phase[p] \in {"mac", "asked", "reply", "blocked"}})
        + (IF multi = NoLoop THEN 0 ELSE 1)

Accepts == Len(shm.queries) < MaxQueries /\ Busy < Processes

\* Has the cache record expired?  The test compares with the time at which
\* the query arrived, so once it has passed it passes for the same query.
MayExpire(x, st) == IF CacheTTL THEN x => st # "UNKNOWN" ELSE x

\* The blocking check that ends Lorentz_new_query().
CheckNewQuery(s, p, v, expired) ==
  /\ MayExpire(expired, s.caches[CacheKey(s, p)].status)
  /\ LET r == Lorentz_check_blocking(s, p, s.queries[p].domain, v, expired)
     IN /\ shm' = r.shm
        /\ phase' = [q \in DOMAIN s.queries |->
             IF q # p THEN phase[q] ELSE IF r.block THEN "blocked" ELSE "asked"]

NewQuery(c, d) ==
  /\ Accepts
  /\ \E v \in Verdicts, x \in BOOLEAN :
       CheckNewQuery(RecordQuery(shm, c, d), Len(shm.queries) + 1, v, x)
  /\ UNCHANGED <<rows, gc, frec, multi>>

\* The MAC address of the client is not known: the lock is released while
\* find_mac() asks the kernel.
NewQueryFindMAC(c, d) ==
  /\ Accepts
  /\ shm' = RecordQuery(shm, c, d)
  /\ phase' = Append(phase, "mac")
  /\ UNCHANGED <<rows, gc, frec, multi>>

\* The lock is taken again and the query looked up by its ID.
FoundMAC(p) ==
  /\ phase[p] = "mac"
  /\ IF p \in Live(shm)
     THEN \E v \in Verdicts, x \in BOOLEAN : CheckNewQuery(shm, p, v, x)
     ELSE /\ phase' = [phase EXCEPT ![p] = "asked"]
          /\ UNCHANGED shm
  /\ UNCHANGED <<rows, gc, frec, multi>>

NewQueryRejected(c) ==
  /\ Accepts
  /\ shm' = RejectQuery(shm, c)
  /\ UNCHANGED <<rows, gc, phase, frec, multi>>

-----------------------------------------------------------------------------
(* What dnsmasq reports about a query it has accepted *)

\* Every handler begins with findQueryID() and returns if that fails.
Report(p, s) == shm' = IF p \in Live(shm) THEN s ELSE shm

Become(p, ph) == phase' = [phase EXCEPT ![p] = ph]

Waiting == UNION {{frec[d][i] : i \in DOMAIN frec[d]} : d \in Domains}

\* The domain of a query, known to dnsmasq whether or not it is in the store.
DomainOf(p) == shm.queries[p].domain

\* Query p is the one in whose name the reply of an upstream is reported.  The
\* process that reads the reply does nothing else until the answer is sent.
Leads(p) == /\ \/ phase[p] = "fwd" /\ Busy < Processes
               \/ phase[p] = "reply"
            /\ frec[DomainOf(p)] # <<>> /\ frec[DomainOf(p)][1] = p

\* A reply from the cache.  It may turn out to be only the beginning of the
\* answer, when a CNAME is cached and its target is not, and a stale reply is
\* followed by a query that refreshes the cache.
AnswerFromCache(p, qs) ==
  /\ phase[p] = "asked"
  /\ Report(p, ReplyCached(shm, p, qs))
  /\ \/ Become(p, "done")
     \/ shm.queries[p].reply = "UNKNOWN" /\ UNCHANGED phase
  /\ UNCHANGED <<rows, gc, frec, multi>>

\* The blocking answer is logged as a reply from /etc/hosts.
AnswerBlocked(p) ==
  /\ phase[p] = "blocked"
  /\ Report(p, ReplyCached(shm, p, "CACHE"))
  /\ IF p \in Waiting
     THEN shm.queries[p].reply = "UNKNOWN" /\ UNCHANGED phase
     ELSE Become(p, "done")
  /\ UNCHANGED <<rows, gc, frec, multi>>

\* A blocked query that is configured to get no reply at all.
DropBlocked(p) ==
  /\ phase[p] = "blocked" /\ p \notin Waiting
  /\ Become(p, "done")
  /\ UNCHANGED <<shm, rows, gc, frec, multi>>

\* Nowhere to forward the query to.
RefuseLocally(p) ==
  /\ phase[p] = "asked"
  /\ Report(p, Lorentz_upstream_error(shm, p, NoUpstream))
  /\ Become(p, "done")
  /\ UNCHANGED <<rows, gc, frec, multi>>

\* A CNAME record in an upstream reply, or an address record that has been
\* found in the cache and logged: there, d may be the domain of the query.
InspectCNAME(p, d) ==
  /\ \/ phase[p] = "asked" /\ shm.queries[p].reply # "UNKNOWN"
     \/ Leads(p) /\ d # DomainOf(p)
  /\ IF p \in Live(shm)
     THEN \E v \in Verdicts :
            LET r == LORENTZ_CNAME(shm, p, d, v, ~CacheTTL)
            IN /\ shm' = r.shm
               /\ Become(p, IF r.block THEN "blocked"
                            ELSE IF phase[p] = "fwd" THEN "reply" ELSE phase[p])
     ELSE UNCHANGED <<shm, phase>>
  /\ UNCHANGED <<rows, gc, frec, multi>>

-----------------------------------------------------------------------------
(* Forwarding: dnsmasq combines identical queries into one (struct frec) *)

Forward(p, u) ==
  /\ phase[p] = "asked" /\ frec[DomainOf(p)] = <<>>
  /\ Report(p, Lorentz_forwarded(shm, p, u))
  /\ frec' = [frec EXCEPT ![DomainOf(p)] = <<p>>]
  /\ Become(p, "fwd")
  /\ UNCHANGED <<rows, gc, multi>>

\* A new source is added right after the first one.
AddSource(p) ==
  frec' = [frec EXCEPT ![DomainOf(p)] = <<@[1], p>> \o Tail(@)]

CanJoin(p) ==
  /\ phase[p] = "asked"
  /\ frec[DomainOf(p)] # <<>> /\ phase[frec[DomainOf(p)][1]] = "fwd"

Join(p) ==
  /\ CanJoin(p)
  /\ AddSource(p)
  /\ Report(p, Lorentz_query_in_progress(shm, p))
  /\ Become(p, "fwd")
  /\ UNCHANGED <<rows, gc, multi>>

\* Sending the query once more, on behalf of p: two handlers in a row.
ResentFor(p, head, u) ==
  LET s == Lorentz_forwarding_retried(shm, head, p)
  IN shm' = IF p \in Live(s) THEN Lorentz_forwarded(s, p, u) ELSE s

\* The query under way was sent two seconds ago or more.
JoinAndResend(p, u) ==
  /\ CanJoin(p)
  /\ AddSource(p)
  /\ ResentFor(p, frec[DomainOf(p)][1], u)
  /\ Become(p, "fwd")
  /\ UNCHANGED <<rows, gc, multi>>

\* A source asks again.  Its new query takes the place of the old one before
\* Lorentz_forwarding_retried() compares the two (dnsmasq/forward.c:227).
Resend(p, i, u) ==
  LET d == DomainOf(p) IN
  /\ CanJoin(p) /\ i \in DOMAIN frec[d]
  /\ shm.queries[frec[d][i]].client = shm.queries[p].client
  /\ frec' = [frec EXCEPT ![d][i] = p]
  /\ ResentFor(p, frec'[d][1], u)
  /\ phase' = [phase EXCEPT ![p] = "fwd", ![frec[d][i]] = "done"]
  /\ UNCHANGED <<rows, gc, multi>>

UpstreamReply(p, u, kind) ==
  /\ Leads(p)
  /\ Report(p, ReplyUpstream(shm, p, u, kind))
  /\ Become(p, "reply")
  /\ UNCHANGED <<rows, gc, frec, multi>>

UpstreamError(p, u) ==
  /\ Leads(p)
  /\ Report(p, Lorentz_upstream_error(shm, p, u))
  /\ Become(p, "reply")
  /\ UNCHANGED <<rows, gc, frec, multi>>

\* DNSSEC validation has failed.
NotSecure(p) ==
  /\ Leads(p)
  /\ Report(p, Lorentz_dnssec(shm, p))
  /\ Become(p, "reply")
  /\ UNCHANGED <<rows, gc, frec, multi>>

BlockedByHeader(p) ==
  /\ Leads(p)
  /\ Report(p, Lorentz_blocked_upstream_by_header(shm, p))
  /\ Become(p, "blocked")
  /\ UNCHANGED <<rows, gc, frec, multi>>

BlockedByAddr(p, st) ==
  /\ Leads(p)
  /\ Report(p, Lorentz_blocked_upstream_by_addr(shm, p, st))
  /\ Become(p, IF st = "EXTERNAL_BLOCKED_IP" THEN "reply" ELSE "blocked")
  /\ UNCHANGED <<rows, gc, frec, multi>>

-----------------------------------------------------------------------------
(* Handing out the answer *)

Sources(d) == {frec[d][i] : i \in DOMAIN frec[d]}

\* The answer is sent to all sources, or none has come in time.  No handler
\* is called in either case.
Release(d) ==
  /\ frec[d] # <<>>
  /\ frec' = [frec EXCEPT ![d] = <<>>]
  /\ phase' = [p \in DOMAIN phase |-> IF p \in Sources(d) THEN "done" ELSE phase[p]]
  /\ UNCHANGED <<shm, rows, gc, multi>>

IsBefore(p, q, s) == \E i, j \in DOMAIN s : i < j /\ s[i] = p /\ s[j] = q

\* The answer does not fit the packet size of the sources in T: they get a
\* truncated one, in a loop that calls Lorentz_multiple_replies() for each, in
\* the order of the sources.
ReleaseTruncated(d, T) ==
  /\ frec[d] # <<>> /\ multi = NoLoop
  /\ Leads(frec[d][1]) \/ phase[frec[d][1]] = "blocked"
  /\ \E todo \in [1 .. Cardinality(T) -> T] :
       /\ \A i, j \in DOMAIN todo : i < j => IsBefore(todo[i], todo[j], frec[d])
       /\ multi' = [NoLoop EXCEPT !.todo = todo]
  /\ frec' = [frec EXCEPT ![d] = <<>>]
  /\ phase' = [p \in DOMAIN phase |->
                 CASE p \in T -> "fwd" [] p \in Sources(d) \ T -> "done"
                   [] p \notin Sources(d) -> phase[p]]
  /\ UNCHANGED <<shm, rows, gc>>

\* *firstID: -1 at first, -2 once the lookup of a query has failed, else the
\* logical index of the first query (and src, which no code sees, its name).
\* dnsmasq numbers the queries it receives from 1.
Lorentz_multiple_replies(s, loop, p) ==
  LET id == p - rows.counted
      q  == loop.first + s.offset + 1
  IN CASE loop.first \in {id, -2} -> [shm |-> s, loop |-> loop]
       [] loop.first \notin {id, -2} /\ p \notin Live(s) ->
            [shm |-> s, loop |-> [loop EXCEPT !.first = -2]]
       [] loop.first = -1 /\ p \in Live(s) ->
            [shm |-> s, loop |-> [loop EXCEPT !.first = p - s.offset - 1, !.src = p]]
       [] loop.first \notin {id, -1, -2} /\ p \in Live(s) ->
            [shm |-> IF q \in Live(s) THEN CopyReply(s, p, q) ELSE s, loop |-> loop]

ReplyToNext ==
  /\ multi.todo # <<>>
  /\ LET r == Lorentz_multiple_replies(shm, multi, Head(multi.todo))
     IN /\ shm' = r.shm
        /\ multi' = IF Len(multi.todo) = 1 THEN NoLoop
                    ELSE [r.loop EXCEPT !.todo = Tail(@)]
  /\ Become(Head(multi.todo), "done")
  /\ UNCHANGED <<rows, gc, frec>>

-----------------------------------------------------------------------------
(* The garbage collector, the flush of the history, a reload of the lists *)

\* The collector only takes queries that are older than webserver.api.maxHistory
\* (a day by default); dnsmasq gives up on a query after ten seconds.
OldEnough(p) == phase[p] = "done" /\ p # multi.src

MeetsNoHole(upto) ==
  HolesExpire \/ \A p \in shm.offset + 1 .. upto : shm.queries[p].magic

\* runGC(), up to the point where it releases the lock in order to delete the
\* same queries from the in-memory database.
GCBegin(upto) ==
  /\ gc.pc = "idle" /\ rows.left = 0 /\ MeetsNoHole(upto)
  /\ LET R == Expired(shm, upto)
     IN /\ \A p \in R : OldEnough(p)
        /\ shm' = SubtractQueries(shm, R)
        /\ gc' = [pc |-> "unlocked", upto |-> upto, removed |-> Cardinality(R)]
  /\ UNCHANGED <<rows, phase, frec, multi>>

\* runGC() with the lock held again.
GCEnd(old) ==
  /\ gc.pc = "unlocked"
  /\ shm' = recycle(ShiftQueries(shm, gc.removed), old)
  /\ gc' = Idle
  /\ UNCHANGED <<rows, phase, frec, multi>>

\* flush_dnsmasq_log() keeps the lock while it calls runGC(), which removes
\* everything up to the current second.
FlushHistory(upto, old) ==
  /\ rows.left = 0 /\ MeetsNoHole(upto)
  /\ gc.pc = "idle" \/ FlushDuringGC
  /\ LET R == Expired(shm, upto)
     IN shm' = recycle(ShiftQueries(SubtractQueries(shm, R), Cardinality(R)), old)
  /\ UNCHANGED <<rows, gc, phase, frec, multi>>

\* Lorentz_reset_per_client_domain_data().
Reload ==
  /\ shm' = [shm EXCEPT !.caches = [k \in Clients \X Domains |->
                                      [@[k] EXCEPT !.status = "UNKNOWN"]]]
  /\ UNCHANGED <<rows, gc, phase, frec, multi>>

-----------------------------------------------------------------------------
(* Next-state relation *)

Import == ImportRow \/ ImportSkip

Arrive ==
  \/ \E c \in Clients, d \in Domains : NewQuery(c, d) \/ NewQueryFindMAC(c, d)
  \/ \E c \in Clients : NewQueryRejected(c)
  \/ \E p \in DOMAIN phase : FoundMAC(p)

AnswerLocally ==
  \E p \in DOMAIN phase :
    \/ AnswerBlocked(p) \/ DropBlocked(p) \/ RefuseLocally(p)
    \/ \E qs \in {"CACHE", "CACHE_STALE"} : AnswerFromCache(p, qs)
    \/ \E d \in Domains : InspectCNAME(p, d)

AskUpstream ==
  \E p \in DOMAIN phase :
    \/ Join(p)
    \/ \E u \in Upstreams :
         \/ Forward(p, u) \/ JoinAndResend(p, u)
         \/ \E i \in 1 .. MaxQueries : Resend(p, i, u)

HearUpstream ==
  \E p \in DOMAIN phase :
    \/ NotSecure(p) \/ BlockedByHeader(p)
    \/ \E st \in {"EXTERNAL_BLOCKED", "EXTERNAL_BLOCKED_IP"} : BlockedByAddr(p, st)
    \/ \E u \in Upstreams \cup {NoUpstream} :
         \/ UpstreamError(p, u)
         \/ \E kind \in {"exact", "ptr", "other"} : UpstreamReply(p, u, kind)

HandOut ==
  \/ \E d \in Domains :
       Release(d) \/ \E T \in SUBSET Sources(d) \ {{}} : ReleaseTruncated(d, T)
  \/ ReplyToNext

Collect ==
  \/ \E upto \in shm.offset .. Len(shm.queries) : GCBegin(upto)
  \/ \E old \in SUBSET Domains : GCEnd(old)
  \/ \E upto \in shm.offset .. Len(shm.queries), old \in SUBSET Domains :
       FlushHistory(upto, old)

Next == Import \/ Arrive \/ AnswerLocally \/ AskUpstream \/ HearUpstream
        \/ HandOut \/ Collect \/ Reload

Spec == Init /\ [][Next]_vars

\* dnsmasq finishes what it has begun with query p: it answers it, drops it,
\* or forwards it.
Advance(p) ==
  /\ p \in DOMAIN phase /\ phase[p] \in {"mac", "asked", "blocked"}
  /\ Arrive \/ AnswerLocally \/ AskUpstream
  /\ phase'[p] # phase[p]

\* The garbage collector takes at least one query.
GCProgress == \E upto \in shm.offset + 1 .. Len(shm.queries) : GCBegin(upto)

\* dnsmasq handles a query to its end before it accepts more work, and frees
\* the record of a forwarded query when it times out.  Every query is old
\* enough for the garbage collector one day, and the collector's thread runs
\* until the program ends.
Fairness ==
  /\ \A p \in 1 .. MaxQueries : WF_vars(Advance(p))
  /\ \A d \in Domains : WF_vars(Release(d))
  /\ WF_vars(ReplyToNext) /\ WF_vars(Import)
  /\ SF_vars(GCProgress) /\ WF_vars(\E old \in SUBSET Domains : GCEnd(old))
  /\ WF_vars(GCBegin(shm.offset))

FairSpec == Spec /\ Fairness

-----------------------------------------------------------------------------
(* Properties *)

\* The shape of the state; all counters are integers and the number of
\* removed queries never exceeds the number of recorded ones.
TypeOK ==
  /\ shm.queries \in Seq(QueryRecord \cup {Hole}) /\ Len(shm.queries) <= MaxQueries
  /\ shm.offset \in 0 .. Len(shm.queries)
  /\ shm.clients \in [Clients -> [used : BOOLEAN, count : Int, blocked : Int]]
  /\ shm.domains \in [Domains -> [used : BOOLEAN, count : Int, blocked : Int, cname : Int]]
  /\ shm.upstreams \in [Upstreams -> Int]
  /\ shm.caches \in [Clients \X Domains ->
                       [used : BOOLEAN, ref : Int, cname : Domains \cup {NoDomain},
                        status : Statuses, allowed : BOOLEAN]]
  /\ shm.status \in [Statuses -> Int] /\ shm.reply \in [Replies -> Int]
  /\ rows \in [counted : 0 .. Rows, left : 0 .. Rows] /\ rows.left <= rows.counted
  /\ gc \in [pc : {"idle", "unlocked"}, upto : 0 .. MaxQueries, removed : 0 .. MaxQueries]
  /\ phase \in Seq(Phases) /\ Len(phase) = Len(shm.queries)
  /\ frec \in [Domains -> Seq(1 .. MaxQueries)]
  /\ multi \in [todo : Seq(1 .. MaxQueries), first : -2 .. MaxQueries, src : 0 .. MaxQueries]

\* The queries the counters stand for: those in the store, without the ones
\* the garbage collector has taken out and not yet dropped.
Present == {p \in Live(shm) : gc.pc = "unlocked" => p > gc.upto}

PresentWith(f, x) == {p \in Present : shm.queries[p][f] = x}

\* The reference counts on which recycling relies (gc.c:80-82, 135-137) are
\* exact: client->count and domain->count are the numbers of queries of the
\* client and for the domain, cache->refcount the number of queries with that
\* cache entry, and domain->cname_refcount the number of queries and of cache
\* entries that name the domain as the CNAME they were blocked for.
ReferenceCountsExact ==
  /\ \A c \in Clients : shm.clients[c].count = Cardinality(PresentWith("client", c))
  /\ \A d \in Domains :
       /\ shm.domains[d].count = Cardinality(PresentWith("domain", d))
       /\ shm.domains[d].cname =
            Cardinality(PresentWith("cname", d))
            + Cardinality({k \in Clients \X Domains :
                             shm.caches[k].used /\ shm.caches[k].cname = d})
  /\ \A k \in Clients \X Domains :
       shm.caches[k].ref = Cardinality({p \in PresentWith("cached", TRUE) :
                                          CacheKey(shm, p) = k})

\* Every query in the store refers to records that are in use, and so does
\* every cache entry: recycle() never takes away what something still needs,
\* and leaves no entry behind that would be found for the next owner of an ID.
NothingDangles ==
  /\ \A p \in Present :
       LET q == shm.queries[p] IN
       /\ shm.clients[q.client].used /\ shm.domains[q.domain].used
       /\ q.cached => shm.caches[CacheKey(shm, p)].used
       /\ q.cname # NoDomain => shm.domains[q.cname].used
  /\ \A k \in Clients \X Domains :
       shm.caches[k].used =>
         /\ shm.clients[k[1]].used /\ shm.domains[k[2]].used
         /\ shm.caches[k].cname # NoDomain => shm.domains[shm.caches[k].cname].used

\* An upstream's count is the number of queries that hold a count on it, so
\* each count is returned exactly once (datastructure.h:56-59).
UpstreamCountsExact ==
  \A u \in Upstreams :
    shm.upstreams[u] = Cardinality(PresentWith("upstream", u) \cap PresentWith("counted", TRUE))

\* counters->status and counters->reply are the numbers of queries with each
\* status and reply type.
StatusCountsExact ==
  /\ \A st \in Statuses : shm.status[st] = Cardinality(PresentWith("status", st))
  /\ \A r \in Replies : shm.reply[r] = Cardinality(PresentWith("reply", r))

\* The bounded number of queries all expire one day, and no client or cache
\* entry stays in its table for good: garbage collection recycles it again and
\* again (a rejected query brings a client back, without a record).
EverythingIsRecycled ==
  /\ <>[](Live(shm) = {})
  /\ \A c \in Clients : []<>~shm.clients[c].used
  /\ \A k \in Clients \X Domains : []<>~shm.caches[k].used

=============================================================================
