---------------------------- MODULE CheckOutcome ----------------------------
(***************************************************************************)
(* What main() and Harness know of a check: it comes to an end once, with  *)
(* a verdict unless a mount failed or the comparison threw, and only one   *)
(* that failed may have left a directory of the record device open.        *)
(***************************************************************************)
VARIABLES over, verdict, leaked

vars == <<over, verdict, leaked>>

Init == over = FALSE /\ verdict = "none" /\ leaked = FALSE

Outcome ==
    /\ ~over /\ over' = TRUE
    /\ \/ verdict' = "passed" /\ leaked' = FALSE
       \/ verdict' = "failed" /\ leaked' \in BOOLEAN
       \/ verdict' = "none" /\ leaked' = FALSE

Spec == Init /\ [][Outcome]_vars /\ WF_vars(Outcome)
=============================================================================
