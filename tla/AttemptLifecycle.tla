-------------------------- MODULE AttemptLifecycle --------------------------
(***************************************************************************)
(* What the append-only ledger promises about one attempt, seen through    *)
(* its latest row (AppendOnlyLedger.pending_experiments reads just that):  *)
(* an id is announced once, gets a verdict once, and a failure is final.   *)
(* A completed attempt may still be marked failed, because run_one's       *)
(* handlers cover the bookkeeping that follows the COMPLETED row; nothing  *)
(* ever makes a failed or completed attempt run again.                     *)
(***************************************************************************)
CONSTANT Experiments
VARIABLE phase

Init == phase = [e \in Experiments |-> "absent"]

Move(e, from, to) ==
    /\ phase[e] \in from
    /\ phase' = [phase EXCEPT ![e] = to]

Next == \E e \in Experiments :
    \/ Move(e, {"absent"}, "RUNNING")
    \/ Move(e, {"RUNNING"}, "COMPLETED")
    \/ Move(e, {"RUNNING", "COMPLETED"}, "FAILED")

Spec == Init /\ [][Next]_phase
=============================================================================
