------------------------------- MODULE BinSem -------------------------------
(***************************************************************************)
(* What the binary semaphores of kernel/proc.c promise: a table of entries *)
(* that are allocated and freed, and down and up as single steps.  Module  *)
(* Bsem implements it; module Csem is built on it.                         *)
(***************************************************************************)
EXTENDS Integers

CONSTANT MAX_BSEM       \* size of the semaphore table

ASSUME BinSemAssumption == MAX_BSEM \in Nat

VARIABLES used, unlocked

Sem == 0..(MAX_BSEM - 1)

BinInit ==
  /\ used = [b \in Sem |-> FALSE]
  /\ unlocked = [b \in Sem |-> FALSE]

\* bsem_alloc() returns b, the first unused entry, in the unlocked state.
Alloc(b) ==
  /\ b \in Sem /\ ~used[b] /\ \A a \in Sem : a < b => used[a]
  /\ used' = [used EXCEPT ![b] = TRUE]
  /\ unlocked' = [unlocked EXCEPT ![b] = TRUE]

\* bsem_alloc() returns -1.
AllocFails == (\A b \in Sem : used[b]) /\ UNCHANGED <<used, unlocked>>

Free(b) ==
  /\ b \in Sem /\ used[b]
  /\ used' = [used EXCEPT ![b] = FALSE]
  /\ UNCHANGED unlocked

\* bsem_down(b) returns.
Down(b) ==
  /\ b \in Sem /\ unlocked[b]
  /\ unlocked' = [unlocked EXCEPT ![b] = FALSE]
  /\ UNCHANGED used

Up(b) ==
  /\ b \in Sem
  /\ unlocked' = [unlocked EXCEPT ![b] = TRUE]
  /\ UNCHANGED used

BinNext == \E b \in Sem : Alloc(b) \/ Free(b) \/ Down(b) \/ Up(b)

BinSpec == BinInit /\ [][BinNext]_<<used, unlocked>>
=============================================================================
