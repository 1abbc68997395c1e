------------------------------ MODULE LoginLineage ------------------------------
(***************************************************************************)
(* What a login session promises: it is continued by one chain of refresh  *)
(* tokens, each the successor of the one before; it ends once, and what    *)
(* ended is never continued.                                               *)
(***************************************************************************)
EXTENDS Naturals

CONSTANT Logins

VARIABLES
    opened,   \* the logins there have been
    holder    \* holder[s]: the turns that can continue s: one, or none

vars == <<opened, holder>>

Init ==
    /\ opened = {}
    /\ holder = [s \in Logins |-> {}]

Ended(S) == [s \in Logins |-> IF s \in S THEN {} ELSE holder[s]]

(* A login opens; others may have to make room for it. *)
Open(s) ==
    /\ s \notin opened
    /\ opened' = opened \cup {s}
    /\ \E S \in SUBSET (Logins \ {s}) : holder' = [Ended(S) EXCEPT ![s] = {1}]

Continue(s) ==
    /\ \E n \in holder[s] : holder' = [holder EXCEPT ![s] = {n + 1}]
    /\ UNCHANGED opened

End(S) ==
    /\ holder' = Ended(S)
    /\ UNCHANGED opened

Next ==
    \/ \E s \in Logins : Open(s) \/ Continue(s)
    \/ \E S \in SUBSET Logins : End(S)

Spec == Init /\ [][Next]_vars
===============================================================================
