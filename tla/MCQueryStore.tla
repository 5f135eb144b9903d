---------------------------- MODULE MCQueryStore ----------------------------
(* Small instances of QueryStore for TLC. *)
EXTENDS QueryStore, TLC

AllVerdicts == {"disabled", "none", "allowed", "busy", "GRAVITY",
                "SPECIAL_DOMAIN", "DBBUSY"}
FewVerdicts == {"none", "GRAVITY"}

\* Clients, domains and upstreams are interchangeable.
Interchangeable ==
  Permutations(Clients) \cup Permutations(Domains) \cup Permutations(Upstreams)
=============================================================================
