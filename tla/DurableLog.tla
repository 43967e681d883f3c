----------------------------- MODULE DurableLog -----------------------------
(***************************************************************************)
(* What the archive promises: for every day a log of records, each at a    *)
(* position of its own, that only ever grows, by one record that is        *)
(* nowhere in the log yet, behind all the others.  There is no action for  *)
(* a failure, a restart or a rotation: they change nothing that was        *)
(* acknowledged, nor where it is.                                          *)
(***************************************************************************)
EXTENDS Integers

CONSTANTS Records, Days

VARIABLE log    \* [Days -> SUBSET [at : Nat, rec : Records]]

Logged == {entry.rec : entry \in UNION {log[d] : d \in Days}}

Init == log = [d \in Days |-> {}]

\* The position may be any that is behind the others.
Accept(r, d) ==
    /\ r \notin Logged
    /\ \E entry \in log'[d] :
          /\ entry.rec = r
          /\ \A earlier \in log[d] : earlier.at < entry.at
          /\ log' = [log EXCEPT ![d] = @ \union {entry}]

Next == \E r \in Records, d \in Days : Accept(r, d)

Spec == Init /\ [][Next]_log
=============================================================================
