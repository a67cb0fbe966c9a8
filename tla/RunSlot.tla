------------------------------ MODULE RunSlot -------------------------------
(***************************************************************************)
(* What the reservation service promises (ADR-0011): one running slot for  *)
(* music generation, taken by at most one run at a time.  A run takes the  *)
(* slot at most once, and once it has ended, or was refused, it never      *)
(* becomes active again.                                                   *)
(***************************************************************************)
CONSTANT Runs
VARIABLE life   \* "new", "active" or "ended"

Init == life = [r \in Runs |-> "new"]

Acquire(r) ==
  /\ life[r] = "new"
  /\ \A q \in Runs : life[q] # "active"
  /\ life' = [life EXCEPT ![r] = "active"]

Release(r) ==
  /\ life[r] = "active"
  /\ life' = [life EXCEPT ![r] = "ended"]

\* A cron slot with no approved plan is recorded without taking the slot.
Skip(r) ==
  /\ life[r] = "new"
  /\ life' = [life EXCEPT ![r] = "ended"]

Next == \E r \in Runs : Acquire(r) \/ Release(r) \/ Skip(r)

Spec == Init /\ [][Next]_life
=============================================================================
