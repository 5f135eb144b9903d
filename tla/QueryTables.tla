----------------------------- MODULE QueryTables -----------------------------
(***************************************************************************)
(* The tables in shared memory (queries, clients, domains, DNS cache,      *)
(* upstreams) with the counters that are maintained incrementally, and     *)
(* what each handler of Lorentz does to them.  The tables are one record   *)
(* s; an operator named after a C function takes s and returns the tables  *)
(* after that function.  QueryStore says who calls which of them when.     *)
(*                                                                         *)
(* Sources: src/src/datastructure.c, shmem.c, dnsmasq_interface.c, gc.c,   *)
(* database/query-table.c.                                                 *)
(*                                                                         *)
(* Abstractions.  A query is named by its absolute position: the logical   *)
(* index of the code is position - offset - 1, so positions never shift    *)
(* and compaction (shmem.c:1410-1421) is invisible.  A client or domain is *)
(* named by its key; RecycleTable shows that an ID denotes one key for as  *)
(* long as its record is in use.  Statuses and replies that the code       *)
(* treats alike are one, there is one query type, and the per-interval     *)
(* statistics are left to OverTime.                                        *)
(***************************************************************************)
EXTENDS Integers, Sequences, FiniteSets

CONSTANTS
  Clients,      \* client addresses
  Domains,      \* domain names
  Upstreams,    \* upstream servers
  Verdicts      \* what a look at the domain lists may answer

NoDomain == "no domain"
NoUpstream == "no upstream"

\* REGEX and DENYLIST stand with GRAVITY, the three _CNAME statuses are one,
\* NULL, NXRA and EDE15 are EXTERNAL_BLOCKED.
\* RETRIED_DNSSEC is never set: Lorentz_forwarding_retried() returns early
\* when both IDs agree, and for a DNSSEC retry they do (dnsmasq/forward.c:465).
Statuses == {"UNKNOWN", "GRAVITY", "GRAVITY_CNAME", "SPECIAL_DOMAIN",
             "DBBUSY", "EXTERNAL_BLOCKED_IP", "EXTERNAL_BLOCKED",
             "FORWARDED", "CACHE", "CACHE_STALE", "RETRIED", "IN_PROGRESS"}

is_blocked(st) == st \in {"GRAVITY", "GRAVITY_CNAME", "SPECIAL_DOMAIN",
                          "DBBUSY", "EXTERNAL_BLOCKED_IP", "EXTERNAL_BLOCKED"}

\* Reply types: not known yet, no reply at all, or any of the other ones.
Replies == {"UNKNOWN", "NONE", "ANSWER"}

ASSUME TablesAssumption ==
  /\ NoDomain \notin Domains /\ NoUpstream \notin Upstreams
  /\ IsFiniteSet(Clients) /\ IsFiniteSet(Domains)
  /\ Verdicts \subseteq {"disabled", "none", "allowed", "busy", "GRAVITY",
                         "SPECIAL_DOMAIN", "DBBUSY"}

\* A slot of the queries array that was never written has no magic byte.
Hole == [magic |-> FALSE]

\* A slot that holds a query.
QueryRecord ==
  [magic : {TRUE}, client : Clients, domain : Domains, cached : BOOLEAN,
   cname : Domains \cup {NoDomain}, upstream : Upstreams \cup {NoUpstream},
   counted : BOOLEAN, status : Statuses, reply : Replies,
   complete : BOOLEAN, answered : BOOLEAN, allowed : BOOLEAN]

NewRecord(c, d) ==
  [magic |-> TRUE, client |-> c, domain |-> d, cached |-> FALSE,
   cname |-> NoDomain, upstream |-> NoUpstream, counted |-> FALSE,
   status |-> "UNKNOWN", reply |-> "UNKNOWN", complete |-> FALSE,
   answered |-> FALSE, allowed |-> FALSE]

NewCache == [used |-> TRUE, ref |-> 0, cname |-> NoDomain,
             status |-> "UNKNOWN", allowed |-> FALSE]

\* Recycled and never used records are all zeros.
NoClient == [used |-> FALSE, count |-> 0, blocked |-> 0]
NoDomainData == [used |-> FALSE, count |-> 0, blocked |-> 0, cname |-> 0]
NoCache == [NewCache EXCEPT !.used = FALSE]

Positions(s) == (s.offset + 1) .. Len(s.queries)
Live(s) == {p \in Positions(s) : s.queries[p].magic}

-----------------------------------------------------------------------------
(* The tables: datastructure.c *)

change_clientcount(s, c, total, blocked) ==
  IF s.clients[c].used
  THEN [s EXCEPT !.clients[c] = [s.clients[c] EXCEPT !.count = @ + total,
                                                     !.blocked = @ + blocked]]
  ELSE s

findClientID(s, c) ==
  change_clientcount([s EXCEPT !.clients[c].used = TRUE], c, 1, 0)

\* Mutant: a look at a CNAME counts as a query for the domain.
findDomainID_CountsLookups(s, d, n) ==
  [s EXCEPT !.domains[d].used = TRUE, !.domains[d].count = @ + 1]

findDomainID(s, d, n) ==
  [s EXCEPT !.domains[d] = [s.domains[d] EXCEPT !.used = TRUE, !.count = @ + n]]

cname_refcount(s, d, n) ==
  IF d # NoDomain /\ s.domains[d].used
  THEN [s EXCEPT !.domains[d].cname = @ + n]
  ELSE s

\* Mutant: an entry that exists is initialised again.
findCacheID_Resets(s, k) == [s EXCEPT !.caches[k] = NewCache]

findCacheID(s, k) ==
  IF s.caches[k].used THEN s ELSE [s EXCEPT !.caches[k] = NewCache]

\* A query looks up its cache entry and counts itself there.
ReferToCache(s, k) == LET t == findCacheID(s, k) IN [t EXCEPT !.caches[k].ref = @ + 1]

CacheKey(s, p) == <<s.queries[p].client, s.queries[p].domain>>

\* The memo is not written for statuses that are subject to change.  A query
\* without a cache entry (an imported one) gets one here, without a reference.
MemorizeStatus(s, p, new) ==
  IF new \in {"UNKNOWN", "DBBUSY", "IN_PROGRESS", "RETRIED"} THEN s
  ELSE [findCacheID(s, CacheKey(s, p)) EXCEPT
          !.caches[CacheKey(s, p)].status = new]

\* Mutant: the old status keeps its count.
query_set_status_KeepsOld(s, p, new) ==
  [MemorizeStatus(s, p, new) EXCEPT !.status[new] = @ + 1, !.queries[p].status = new]

query_set_status(s, p, new) ==
  LET old  == s.queries[p].status
      less == [s.status EXCEPT ![old] = @ - 1]
  IN IF old = new THEN s
     ELSE [MemorizeStatus(s, p, new) EXCEPT !.status = [less EXCEPT ![new] = @ + 1],
                                            !.queries[p].status = new]

\* Reply counters always follow the reply type of a query.
ChangeReply(s, p, new) ==
  LET old == s.queries[p].reply
      less == [s.reply EXCEPT ![old] = @ - 1]
  IN [s EXCEPT !.reply = [less EXCEPT ![new] = @ + 1],
               !.queries[p].reply = new]

query_set_reply(s, p, new) ==
  [ChangeReply(s, p, new) EXCEPT !.queries[p].answered = TRUE]

\* Count query p against upstream u; the count moves along when it has one.
MoveUpstreamCount(s, p, u) ==
  LET q == s.queries[p]
      t == IF q.counted THEN [s EXCEPT !.upstreams[q.upstream] = @ - 1] ELSE s
  IN [t EXCEPT !.upstreams[u] = @ + 1]

query_blocked(s, p, d, new) ==
  LET q == s.queries[p]
      handback == q.status = "FORWARDED" /\ q.counted
      t == IF handback
           THEN [s EXCEPT !.upstreams[q.upstream] = @ - 1,
                          !.queries[p].counted = FALSE]
           ELSE s
      b == IF s.domains[d].used
           THEN [t EXCEPT !.domains[d].blocked = @ + 1] ELSE t
  IN IF ~handback /\ is_blocked(q.status) THEN s
     ELSE query_set_status(change_clientcount(b, q.client, 0, 1), p, new)

-----------------------------------------------------------------------------
(* The handlers: dnsmasq_interface.c *)

\* What the domain lists say (verdict v) of domain d for query p: the tests
\* of Lorentz_check_blocking() after the shortcut through the DNS cache.
CheckLists(s, p, d, v) ==
  LET k == CacheKey(s, p) IN
  CASE v = "busy" \/ s.queries[p].allowed -> [shm |-> s, block |-> FALSE]
    [] v \in {"none", "allowed"} /\ ~s.queries[p].allowed ->
         [shm |-> [s EXCEPT !.queries[p].allowed = (v = "allowed"),
                            !.caches[k].allowed = (v = "allowed")],
          block |-> FALSE]
    [] v = "SPECIAL_DOMAIN" /\ ~s.queries[p].allowed ->
         [shm |-> query_blocked([s EXCEPT !.caches[k].status = v], p, d, v),
          block |-> TRUE]
    [] v \in {"GRAVITY", "DBBUSY"} /\ ~s.queries[p].allowed ->
         [shm |-> query_blocked(s, p, d, v), block |-> TRUE]

\* The result of an earlier query of the same client for the same domain.
\* DBBUSY is never memorized, and a query that has just arrived is not yet
\* marked as allowed.
KnownResult(s, p, d, st) ==
  LET c == s.caches[CacheKey(s, p)] IN
  CASE st = "GRAVITY_CNAME" ->
         [shm |-> [cname_refcount(query_blocked(s, p, d, st), c.cname, 1)
                     EXCEPT !.queries[p].cname = c.cname],
          block |-> TRUE]
    [] is_blocked(st) /\ st # "GRAVITY_CNAME" ->
         [shm |-> query_blocked(s, p, d, st),
          block |-> st # "EXTERNAL_BLOCKED_IP"]
    [] ~is_blocked(st) ->
         [shm |-> [s EXCEPT !.queries[p].allowed = @ \/ c.allowed],
          block |-> FALSE]

\* expired: the cache record has expired, or caching is disabled.
Lorentz_check_blocking(s, p, d, v, expired) ==
  LET k  == CacheKey(s, p)
      t  == IF expired
            THEN [s EXCEPT !.caches[k] = [s.caches[k] EXCEPT !.status = "UNKNOWN",
                                                             !.allowed = FALSE]]
            ELSE s
      st == IF s.queries[p].domain = d THEN t.caches[k].status ELSE "UNKNOWN"
  IN IF v = "disabled" \/ ~s.caches[k].used THEN [shm |-> s, block |-> FALSE]
     ELSE IF st = "UNKNOWN" THEN CheckLists(t, p, d, v)
     ELSE KnownResult(t, p, d, st)

\* The query is recorded before anything is decided about it.
RecordQuery(s, c, d) ==
  LET t == ReferToCache(findDomainID(findClientID(s, c), d, 1), <<c, d>>)
  IN [t EXCEPT !.queries = Append(@, [NewRecord(c, d) EXCEPT !.cached = TRUE]),
               !.status["UNKNOWN"] = @ + 1,
               !.reply["UNKNOWN"] = @ + 1]

\* Mutant: the count findClientID() took is not returned.
RejectQuery_KeepsCount(s, c) == findClientID(s, c)

\* Turned away by the rate limit or by analyzeOnlyAandAAAA.
RejectQuery(s, c) == change_clientcount(findClientID(s, c), c, -1, 0)

\* The part of LORENTZ_CNAME() that follows once child d blocks the chain.
CNAMEBlocked(s, p, d) ==
  LET k == CacheKey(s, p)
      t == query_set_reply([s EXCEPT !.domains[s.queries[p].domain].blocked = @ + 1,
                                     !.queries[p].cname = d],
                           p, "ANSWER")
      r == cname_refcount(t, d, 1)
      m == IF s.caches[k].cname = d THEN r
           ELSE [cname_refcount(cname_refcount(r, s.caches[k].cname, -1), d, 1)
                   EXCEPT !.caches[k].cname = d]
  IN IF m.queries[p].status = "GRAVITY"
     THEN query_set_status(m, p, "GRAVITY_CNAME") ELSE m

LORENTZ_CNAME(s, p, d, v, expired) ==
  LET r == Lorentz_check_blocking(findDomainID(s, d, 0), p, d, v, expired)
  IN IF r.block THEN [r EXCEPT !.shm = CNAMEBlocked(@, p, d)] ELSE r

\* Mutant: nothing remembers that the query holds a count on its upstream.
Lorentz_forwarded_NoFlag(s, p, u) ==
  IF s.queries[p].complete THEN s
  ELSE query_set_status([MoveUpstreamCount(s, p, u) EXCEPT !.queries[p].upstream = u,
                                                           !.queries[p].complete = TRUE],
                        p, "FORWARDED")

Lorentz_forwarded(s, p, u) ==
  LET q == s.queries[p]
      wasCached == q.status = "CACHE"
      t == [MoveUpstreamCount(s, p, u) EXCEPT
              !.queries[p] = [q EXCEPT !.upstream = u,
                                       !.counted = TRUE,
                                       !.complete = ~wasCached,
                                       !.answered = @ /\ ~wasCached]]
  IN IF q.complete THEN s ELSE query_set_status(t, p, "FORWARDED")

\* u is the server dnsmasq heard from last, if any.
update_upstream(s, p, u) ==
  LET q == s.queries[p]
      t == IF q.counted THEN MoveUpstreamCount(s, p, u) ELSE s
  IN IF q.answered \/ u \in {NoUpstream, q.upstream} THEN s
     ELSE [t EXCEPT !.queries[p].upstream = u]

\* Lorentz_reply(): a reply from the cache, or the answer to a blocked query.
ReplyCached(s, p, qs) ==
  LET q == s.queries[p]
      t == IF is_blocked(q.status) THEN s ELSE query_set_status(s, p, qs)
  IN IF q.reply # "UNKNOWN" THEN [s EXCEPT !.queries[p].answered = TRUE]
     ELSE [query_set_reply(t, p, "ANSWER") EXCEPT !.queries[p].complete = TRUE]

\* Lorentz_reply(): a reply from upstream.  kind tells a record of the name
\* that was asked for, one of another name, and the answer to a PTR query.
\* (Replies with F_UPSTREAM and F_CONFIG or F_RCODE do not reach this code:
\* no caller in dnsmasq combines the former, and _Lorentz_hook() sends the
\* latter to Lorentz_upstream_error().)
ReplyUpstream(s, p, u, kind) ==
  LET t == [update_upstream(s, p, u) EXCEPT !.queries[p].answered = TRUE]
      q == t.queries[p]
  IN CASE q.reply # "UNKNOWN" \/ kind = "other" -> t
       [] q.reply = "UNKNOWN" /\ kind = "ptr" ->
            [query_set_reply(t, p, "ANSWER") EXCEPT !.queries[p].complete = TRUE]
       [] q.reply = "UNKNOWN" /\ kind = "exact" ->
            IF q.upstream = NoUpstream \/ q.status = "EXTERNAL_BLOCKED" THEN t
            ELSE query_set_reply(t, p, "ANSWER")

Lorentz_upstream_error(s, p, u) ==
  query_set_reply(update_upstream(s, p, u), p, "ANSWER")

Lorentz_dnssec(s, p) ==
  IF s.queries[p].reply = "UNKNOWN" THEN query_set_reply(s, p, "NONE") ELSE s

Lorentz_blocked_upstream_by_header(s, p) ==
  query_set_reply(query_blocked(s, p, s.queries[p].domain, "EXTERNAL_BLOCKED"),
                  p, "ANSWER")

Lorentz_blocked_upstream_by_addr(s, p, st) ==
  query_blocked(s, p, s.queries[p].domain, st)

Lorentz_forwarding_retried(s, old, new) ==
  IF old = new \/ old <= s.offset THEN s ELSE query_set_status(s, old, "RETRIED")

Lorentz_query_in_progress(s, p) == query_set_status(s, p, "IN_PROGRESS")

\* Copy what is known of query q over to its duplicate p.
CopyReply(s, p, q) ==
  LET src == s.queries[q]
      t == cname_refcount(ChangeReply(s, p, src.reply), src.cname, 1)
      m == [t EXCEPT !.queries[p] = [t.queries[p] EXCEPT !.complete = TRUE,
                                                         !.cname = src.cname]]
  IN IF src.status = "FORWARDED" THEN m ELSE query_set_status(m, p, src.status)

-----------------------------------------------------------------------------
(* The import: database/query-table.c *)

\* What the import does for a record q: the domain its CNAME refers to, its
\* cache entry, and the numbers of blocked and of forwarded queries.
ImportName(s, d) ==
  IF d = NoDomain THEN s ELSE cname_refcount(findDomainID(s, d, 0), d, 1)

ImportCache(s, q) == IF q.cached THEN ReferToCache(s, <<q.client, q.domain>>) ELSE s

ImportBlocked(s, q) ==
  IF is_blocked(q.status)
  THEN change_clientcount([s EXCEPT !.domains[q.domain].blocked = @ + 1], q.client, 0, 1)
  ELSE s

ImportUpstream(s, q) == IF q.counted THEN [s EXCEPT !.upstreams[q.upstream] = @ + 1] ELSE s

ImportReferences(s, q) ==
  ImportUpstream(
    ImportBlocked(
      ImportCache(
        ImportName(findClientID(findDomainID(s, q.domain, 1), q.client), q.cname), q), q), q)

ImportQuery(s, p, q) ==
  [ImportReferences(s, q) EXCEPT !.queries[p] = q,
                                 !.status[q.status] = @ + 1,
                                 !.reply[q.reply] = @ + 1]

-----------------------------------------------------------------------------
(* The garbage collector: gc.c *)

\* Take the queries in R out of all counters.  They keep their slots until
\* ShiftQueries, with status UNKNOWN and without an upstream count.
SubtractQueries(s, R) ==
  LET With(f, x) == {p \in R : s.queries[p][f] = x}
      Blocked == {p \in R : is_blocked(s.queries[p].status)}
  IN [s EXCEPT
        !.clients = [c \in Clients |->
           IF s.clients[c].used
           THEN [s.clients[c] EXCEPT
                   !.count = @ - Cardinality(With("client", c)),
                   !.blocked = @ - Cardinality(With("client", c) \cap Blocked)]
           ELSE s.clients[c]],
        !.domains = [d \in Domains |->
           IF s.domains[d].used
           THEN [s.domains[d] EXCEPT
                   !.count = @ - Cardinality(With("domain", d)),
                   !.blocked = @ - Cardinality(With("domain", d) \cap Blocked),
                   !.cname = @ - Cardinality(With("cname", d))]
           ELSE s.domains[d]],
        !.upstreams = [u \in Upstreams |->
           @[u] - Cardinality(With("upstream", u) \cap With("counted", TRUE))],
        !.caches = [k \in Clients \X Domains |->
           IF s.caches[k].used
           THEN [s.caches[k] EXCEPT
                   !.ref = @ - Cardinality({p \in With("cached", TRUE) : CacheKey(s, p) = k})]
           ELSE s.caches[k]],
        !.reply = [r \in Replies |-> @[r] - Cardinality(With("reply", r))],
        !.status = [st \in Statuses |-> @[st] - Cardinality(With("status", st))],
        !.queries = [p \in DOMAIN @ |->
           IF p \in R THEN [@[p] EXCEPT !.status = "UNKNOWN", !.counted = FALSE]
           ELSE @[p]]]

\* Slots before the offset are never read again.  Who asked for what is kept
\* for dnsmasq, which may still be busy with the query.
ShiftQueries(s, removed) ==
  [s EXCEPT !.offset = @ + removed,
            !.queries = [p \in DOMAIN @ |->
               IF p <= s.offset + removed /\ @[p].magic
               THEN NewRecord(@[p].client, @[p].domain) ELSE @[p]]]

\* Mutants: a client goes while it has one query left, or never goes.
RecycleClients_Early(s) ==
  [s EXCEPT !.clients = [c \in Clients |->
     IF @[c].used /\ @[c].count <= 1 THEN NoClient ELSE @[c]]]

RecycleClients_Never(s) ==
  [s EXCEPT !.clients = [c \in Clients |->
     IF @[c].used /\ @[c].count < 0 THEN NoClient ELSE @[c]]]

RecycleClients(s) ==
  [s EXCEPT !.clients = [c \in Clients |->
     IF @[c].used /\ @[c].count <= 0 THEN NoClient ELSE @[c]]]

\* old: the domains that were last asked for more than 24 hours ago.
RecycleDomains(s, old) ==
  [s EXCEPT !.domains = [d \in Domains |->
     IF @[d].used /\ @[d].count <= 0 /\ @[d].cname <= 0 /\ d \in old
     THEN NoDomainData ELSE @[d]]]

RecycleCaches(s) ==
  LET gone == {k \in Clients \X Domains : s.caches[k].used /\ s.caches[k].ref <= 0}
  IN [s EXCEPT
        !.caches = [k \in Clients \X Domains |->
                      IF k \in gone THEN NoCache ELSE @[k]],
        !.domains = [d \in Domains |->
           IF s.domains[d].used
           THEN [s.domains[d] EXCEPT
                   !.cname = @ - Cardinality({k \in gone : s.caches[k].cname = d})]
           ELSE s.domains[d]]]

recycle(s, old) == RecycleCaches(RecycleDomains(RecycleClients(s), old))

\* The queries a run removes: those with a record among the first ones.
Expired(s, upto) == {p \in Live(s) : p <= upto}
==============================================================================
