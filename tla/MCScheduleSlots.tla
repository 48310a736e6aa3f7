-------------------------- MODULE MCScheduleSlots --------------------------
(***************************************************************************)
(* ScheduleSlots on two nodes.  MixedSlots: two opening slots that do not  *)
(* both fit into the capital and an exit-only slot.  HalfSlots: three      *)
(* opening slots of half the capital each.                                 *)
(***************************************************************************)
EXTENDS ScheduleSlots, TLC

CONSTANTS n1, n2, open, midday, late, exit

MixedSlots == {open, midday, exit}
MixedAgenda == <<open, midday, exit>>
HalfSlots == {open, midday, late}
HalfAgenda == <<open, midday, late>>
MCCap == [s \in Slot |-> 2]

Env(o, r, d, k) == [overrun |-> o, redis |-> r, drift |-> d, slots |-> k]

Plain == Env(FALSE, TRUE, FALSE, Len(Agenda))
Overrun == Env(TRUE, TRUE, FALSE, 1)
NoRedis == Env(FALSE, FALSE, FALSE, 1)
Drift == Env(FALSE, TRUE, TRUE, 2)
AllEnvironments == {Plain, Overrun, NoRedis, Drift}
PlainOnly == {Plain}
OverrunOnly == {Overrun}
=============================================================================
