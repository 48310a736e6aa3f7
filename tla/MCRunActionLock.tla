-------------------------- MODULE MCRunActionLock --------------------------
(***************************************************************************)
(* RunActionLock on two nodes.  LockProcs is the set of callers that take  *)
(* the lock; the user's risk reset does not take it.                       *)
(***************************************************************************)
EXTENDS RunActionLock, TLC

CONSTANTS n1, n2, monitor1, monitor2, flatten1, cancel2, reset2

MCNode == {n1, n2}
LockProcs == {monitor2, flatten1, cancel2}
MixedProcs == LockProcs \cup {reset2}
AllProcs == {monitor1, flatten1, reset2}

HomeOf(p) == IF p \in {monitor1, flatten1} THEN n1 ELSE n2

RoleOf(p) ==
    CASE p \in {monitor1, monitor2} -> "monitor"
      [] p = flatten1 -> "flatten"
      [] p = cancel2 -> "cancel"
      [] p = reset2 -> "reset"

MCNodeOf == [p \in Proc |-> HomeOf(p)]
MCRole == [p \in Proc |-> RoleOf(p)]

Env(o, f, c, r, callers) ==
    [outlived |-> o, flaps |-> f, crashes |-> c, redis |-> r, callers |-> callers]

OrderlyOnly == {Env(FALSE, FALSE, TRUE, TRUE, Proc)}
OrderlyLockers == Env(FALSE, FALSE, TRUE, TRUE, LockProcs)

\* When redis comes and goes the node that two callers share is what is left to
\* look at.
MCEnvironment ==
    {OrderlyLockers,
     Env(FALSE, FALSE, TRUE, TRUE, {flatten1, reset2}),    \* one caller does not lock
     Env(TRUE, FALSE, TRUE, TRUE, LockProcs),              \* the TTL is too short
     Env(FALSE, FALSE, TRUE, FALSE, LockProcs),            \* no redis at all
     Env(FALSE, TRUE, TRUE, TRUE, {monitor2, cancel2}),    \* redis comes and goes
     Env(FALSE, TRUE, TRUE, TRUE, {flatten1})}
=============================================================================
