---------------------------- MODULE WindowStream ----------------------------
(***************************************************************************)
(* What the scoring path promises, without its batches, buffers, offsets   *)
(* or loop: the flows of one source wait in the order they arrived, and    *)
(* each window reported for the source takes the next one to W of them.    *)
(* No flow is skipped, reported twice, or mixed with another source's.     *)
(***************************************************************************)
EXTENDS Naturals, Sequences

CONSTANTS Keys,     \* source addresses
          Flows,    \* what identifies a flow within its source
          W         \* flows in a full window

VARIABLES waiting,  \* waiting[k]: flows of k not yet reported, oldest first
          reported  \* every window reported so far

vars == <<waiting, reported>>

Init == /\ waiting = [k \in Keys |-> <<>>]
        /\ reported = {}

Arrive(k) == /\ \E f \in Flows : waiting' = [waiting EXCEPT ![k] = Append(@, f)]
             /\ UNCHANGED reported

(* One window of n flows: full (n = W), or partial when it waited too long. *)
Report(k, n) ==
    /\ n <= Len(waiting[k])
    /\ waiting' = [waiting EXCEPT ![k] = SubSeq(@, n + 1, Len(@))]
    /\ reported' = reported \cup {[key |-> k, recs |-> SubSeq(waiting[k], 1, n)]}

Next == \E k \in Keys : Arrive(k) \/ \E n \in 1..W : Report(k, n)

Spec == Init /\ [][Next]_vars
=============================================================================
