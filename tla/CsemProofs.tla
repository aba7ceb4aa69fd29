----------------------------- MODULE CsemProofs -----------------------------
(***************************************************************************)
(* What holds of Csem in every reachable state, and that it implements     *)
(* CountSem, for every number of threads, every initial value and every    *)
(* size of the semaphore table.                                            *)
(***************************************************************************)
EXTENDS CsemInv

USE BinSemAssumption, CsemAssumption DEF Sem

\* Every step preserves IInv.
LEMMA NextInv == IInv /\ [Next]_vars => IInv'
<1> SUFFICES ASSUME IInv, [Next]_vars PROVE IInv'
  OBVIOUS
<1>1. ASSUME NEW t \in Thread, ThreadStep(t) PROVE IInv'
  BY <1>1, WaitSecondInv, WaitFirstInv, LoadInv, StoreInv, TestInv,
     UpSecondInv, UpFirstInv DEF ThreadStep
<1>2. CASE UNCHANGED vars
  <2>1. TypeOK'
    BY <1>2 DEF vars, semVars, IInv, TypeOK
  <2>2. AllocInv'
    BY <1>2 DEF vars, semVars, IInv, AllocInv, Mine
  <2>3. FirstInv'
    BY <1>2 DEF vars, semVars, IInv, FirstInv, InFirst
  <2>4. SecondInv'
    BY <1>2 DEF vars, semVars, IInv, SecondInv, HasSecond
  <2> QED
    BY <2>1, <2>2, <2>3, <2>4 DEF IInv
<1> QED
  BY <1>1, <1>2, AllocStepInv, OtherInv, EnterInv DEF Next

\* IInv is an invariant of the counting semaphore.
THEOREM Invariance == Spec => []IInv
  BY InitInv, NextInv, PTL DEF Spec

\* s2 is unlocked exactly when the value is positive, whenever no thread is
\* inside csem_down() or csem_up() with a semaphore taken.
THEOREM ValueTracked == Spec => []SecondTracksValue
<1>1. IInv => SecondTracksValue
  BY DEF IInv, TypeOK, SecondTracksValue, SecondInv, HasSecond
<1> QED
  BY Invariance, <1>1, PTL

\* Every step is a step of the abstract counting semaphore or leaves it alone.
LEMMA NextRefines ==
  ASSUME IInv, [Next]_vars
  PROVE  [Abstract!CountNext]_<<value, [t \in Thread |-> Phase(t)]>>
<1> DEFINE phase == [t \in Thread |-> Phase(t)]
<1> USE DEF Abstract!CountNext, DownPcs, UpPcs, AfterPcs
<1>1. ASSUME UNCHANGED pc PROVE UNCHANGED phase
  BY <1>1 DEF Phase
<1>2. CASE AllocStep \/ OtherAlloc \/ OtherFree
  <2>1. UNCHANGED pc
    BY <1>2 DEF AllocStep, AllocFirst, AllocSecond, AllocDown, AllocCheck,
       FreeValue, FreeFirst, FreeSecond, OtherAlloc, OtherFree
  <2>2. CASE UNCHANGED value
    BY <1>1, <2>1, <2>2
  <2>3. CASE ~UNCHANGED value
    <3>1. value' \in Nat /\ \A t \in Thread : pc[t] = "user"
      BY <1>2, <2>3 DEF AllocStep, AllocFirst, AllocSecond, AllocDown,
         AllocCheck, FreeValue, FreeFirst, FreeSecond, OtherAlloc, OtherFree,
         IInv, TypeOK, AllocInv
    <3>2. Abstract!Idle
      BY <3>1 DEF Abstract!Idle, Phase
    <3> QED
      BY <1>1, <2>1, <3>1, <3>2 DEF Abstract!Reset
  <2> QED
    BY <2>2, <2>3
<1>3. ASSUME NEW t \in Thread, Enter(t)
      PROVE  Abstract!Call(t)
  BY ZenonT(30), <1>3 DEF Enter, Step, IInv, TypeOK, Phase, Abstract!Call
<1>4. ASSUME NEW t \in Thread, Store(t)
      PROVE  Abstract!EffectDown(t) \/ Abstract!EffectUp(t)
  <2>1. apc = "ready" /\ tmp[t] = value
    BY <1>4, StepIsReady DEF ThreadStep, IInv, FirstInv, Store, Step
  <2>2. CASE pc[t] = "d_store"
    BY ZenonT(30), <1>4, <2>1, <2>2
    DEF Store, Step, IInv, TypeOK, SecondInv, HasSecond, Phase,
        Abstract!EffectDown
  <2>3. CASE pc[t] = "u_store"
    BY ZenonT(30), <1>4, <2>1, <2>3 DEF Store, Step, IInv, TypeOK, Phase,
       Abstract!EffectUp
  <2> QED
    BY <1>4, <2>2, <2>3 DEF Store, Step
<1>5. ASSUME NEW t \in Thread, UpFirst(t)
      PROVE  Abstract!Return(t)
  BY ZenonT(30), <1>5 DEF UpFirst, Step, IInv, TypeOK, Phase, Abstract!Return
<1>6. ASSUME NEW t \in Thread,
             WaitSecond(t) \/ WaitFirst(t) \/ Load(t) \/ Test(t) \/ UpSecond(t)
      PROVE  UNCHANGED <<value, phase>>
  BY <1>6 DEF WaitSecond, WaitFirst, Load, Test, UpSecond, Step, IInv, TypeOK,
     Phase
<1>7. CASE UNCHANGED vars
  BY <1>1, <1>7 DEF vars
<1> QED
  BY <1>2, <1>3, <1>4, <1>5, <1>6, <1>7 DEF Next, ThreadStep

\* csem_down() and csem_up() implement the atomic counting semaphore.
THEOREM Refinement == Spec => ImplementsCountSem
<1>1. Init => Abstract!CountInit
  BY DEF Init, Abstract!CountInit, Phase, DownPcs, UpPcs, AfterPcs
<1> QED
  BY <1>1, NextRefines, Invariance, PTL DEF Spec, ImplementsCountSem,
     Abstract!CountSpec
=============================================================================
