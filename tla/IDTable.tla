------------------------------- MODULE IDTable -------------------------------
(***************************************************************************)
(* What the tables of clients, domains and DNS cache entries promise to    *)
(* the rest of Lorentz: a key that is in use has one ID, the ID keeps      *)
(* denoting that key until the record is released, and only then may the   *)
(* ID denote another key.  RecycleTable implements this.                   *)
(***************************************************************************)
CONSTANTS
  Keys,      \* client addresses, domain names, or keys of the DNS cache
  NoKey,     \* the key of a record that is not in use
  IDs        \* indices of the array

VARIABLE held    \* the key each ID denotes

Init == held = [i \in IDs |-> NoKey]

\* A key that has no ID gets one that is free.
Acquire(k, i) ==
  /\ \A j \in IDs : held[j] # k
  /\ held[i] = NoKey
  /\ held' = [held EXCEPT ![i] = k]

\* Some IDs are given back at once.
Release(S) ==
  /\ \A i \in S : held[i] # NoKey
  /\ held' = [i \in IDs |-> IF i \in S THEN NoKey ELSE held[i]]

Next == \/ \E k \in Keys, i \in IDs : Acquire(k, i)
        \/ \E S \in SUBSET IDs : Release(S)

Spec == Init /\ [][Next]_held
==============================================================================
