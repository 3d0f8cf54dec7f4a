---------------------------- MODULE IncidentLedger ----------------------------
(***************************************************************************)
(* What a correlator promises whoever counts on its counts                 *)
(* (services/correlator.py, "Replay safety"): every window is counted in   *)
(* exactly one case, once, however often it is delivered, and what a case  *)
(* has counted it keeps.                                                   *)
(***************************************************************************)
EXTENDS Naturals, FiniteSets

CONSTANTS
    Evidence,  \* window identities
    CaseIds    \* case identities

VARIABLES
    counted,   \* counted[c]: the windows case c has counted
    count      \* count[c]: the number it shows

vars == <<counted, count>>

Init == /\ counted = [c \in CaseIds |-> {}]
        /\ count = [c \in CaseIds |-> 0]

(* A window nobody has counted joins case c, new or old.                   *)
Count(c) ==
    /\ count' = [count EXCEPT ![c] = @ + 1]
    /\ \E e \in Evidence :
          /\ \A d \in CaseIds : e \notin counted[d]
          /\ counted' = [counted EXCEPT ![c] = @ \cup {e}]

Next == \E c \in CaseIds : Count(c)

Spec == Init /\ [][Next]_vars
=============================================================================
