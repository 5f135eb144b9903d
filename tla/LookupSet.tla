------------------------------ MODULE LookupSet ------------------------------
(***************************************************************************)
(* What a lookup table promises to its callers: it is a set of entries to  *)
(* which one adds, from which one removes, and in which one looks.         *)
(***************************************************************************)
CONSTANTS Entries

VARIABLES
  set,      \* the entries
  request,  \* the call that is being served, or was served last
  answer    \* "yes", "no" or "pending"

Init ==
  /\ set = {}
  /\ request = [op |-> "find", entry |-> CHOOSE e \in Entries : TRUE]
  /\ answer = "no"

Call ==
  /\ answer # "pending"
  /\ \E op \in {"insert", "remove", "find"}, e \in Entries :
       request' = [op |-> op, entry |-> e]
  /\ answer' = "pending"
  /\ UNCHANGED set

Return ==
  LET e == request.entry IN
  /\ answer = "pending"
  /\ \/ /\ request.op = "insert"
        /\ set' = set \cup {e}
        /\ answer' = "yes"
     \/ /\ request.op = "remove"
        /\ set' = set \ {e}
        /\ answer' = IF e \in set THEN "yes" ELSE "no"
     \/ /\ request.op = "find"
        /\ set' = set
        /\ answer' = IF e \in set THEN "yes" ELSE "no"
  /\ UNCHANGED request

Next == Call \/ Return

Spec == Init /\ [][Next]_<<set, request, answer>>
==============================================================================
