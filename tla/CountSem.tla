------------------------------ MODULE CountSem ------------------------------
(***************************************************************************)
(* What a counting semaphore promises: every call of down or up takes      *)
(* effect in one step between its call and its return, and a down takes    *)
(* effect only when the count is positive.                                 *)
(***************************************************************************)
EXTENDS Integers

CONSTANT Thread

VARIABLES count, phase

Idle == \A t \in Thread : phase[t] = "idle"

CountInit == count = 0 /\ phase = [t \in Thread |-> "idle"]

\* csem_alloc() or csem_free(), while no call is in progress.
Reset == Idle /\ count' \in Nat /\ UNCHANGED phase

Call(t) ==
  /\ phase[t] = "idle"
  /\ \E c \in {"down", "up"} : phase' = [phase EXCEPT ![t] = c]
  /\ UNCHANGED count

EffectDown(t) ==
  /\ phase[t] = "down" /\ count > 0
  /\ count' = count - 1
  /\ phase' = [phase EXCEPT ![t] = "done"]

EffectUp(t) ==
  /\ phase[t] = "up"
  /\ count' = count + 1
  /\ phase' = [phase EXCEPT ![t] = "done"]

Return(t) ==
  /\ phase[t] = "done"
  /\ phase' = [phase EXCEPT ![t] = "idle"]
  /\ UNCHANGED count

CountNext ==
  \/ Reset
  \/ \E t \in Thread : Call(t) \/ EffectDown(t) \/ EffectUp(t) \/ Return(t)

CountSpec == CountInit /\ [][CountNext]_<<count, phase>>
=============================================================================
