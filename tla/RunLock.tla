------------------------------ MODULE RunLock ------------------------------
(***************************************************************************)
(* What the callers of run_action_lock rely on: a run has at most one      *)
(* owner at a time.  RunActionLock implements this for the environments    *)
(* it calls orderly.                                                       *)
(***************************************************************************)
CONSTANTS Proc, NoProc

VARIABLE owner

Init == owner = NoProc

Enter(p) == owner = NoProc /\ owner' = p

Exit(p) == owner = p /\ owner' = NoProc

Next == \E p \in Proc : Enter(p) \/ Exit(p)

Spec == Init /\ [][Next]_owner
=============================================================================
