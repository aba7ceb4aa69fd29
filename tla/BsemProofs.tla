----------------------------- MODULE BsemProofs -----------------------------
(***************************************************************************)
(* What holds of Bsem in every reachable state, and that it implements     *)
(* BinSem, for every number of CPUs, processes, threads and semaphores.    *)
(***************************************************************************)
EXTENDS BsemCalls

USE BsemAssumption DEF Proc, Sem

\* Every step preserves IInv.
LEMMA NextInv == IInv /\ [Next]_vars => IInv'
<1> SUFFICES ASSUME IInv, [Next]_vars PROVE IInv'
  OBVIOUS
<1>1. ASSUME NEW c \in CPU, Scheduler(c) PROVE IInv'
  BY <1>1, SchedEnterInv, SchedNextInv, SchedLeaveInv DEF Scheduler
<1>2. ASSUME NEW c \in CPU, NEW t \in Thread, SyscallStep(c, t) PROVE IInv'
  BY <1>2, DownAcquireInv, DownSleepInv, DownTakeInv, SleepReleaseInv,
     SleepReturnInv, UpUnlockInv, WakeupProcInv, UpReturnInv DEF SyscallStep
<1>3. ASSUME NEW c \in CPU, NEW t \in Thread,
             SwitchStep(c, t) \/ yield(c, t)
      PROVE  IInv'
  BY <1>3, schedInv, YieldReturnInv, yieldInv DEF SwitchStep
<1>4. ASSUME NEW c \in CPU, NEW t \in Thread, User(c, t) PROVE IInv'
  BY <1>4, bsem_allocInv, bsem_freeInv, CallInv DEF User
<1>5. CASE UNCHANGED vars
  <2> USE <1>5 DEF vars, threadVars, IInv
  <2>1. TypeOK' /\ OneCpuPerThread'
    BY DEF TypeOK, OneCpuPerThread
  <2>2. LockInv'
    BY DEF LockInv
  <2>3. BsemLockInv' /\ SemInv'
    BY DEF BsemLockInv, SemInv
  <2>4. NoLostWakeup' /\ MutualExclusion'
    BY DEF NoLostWakeup, MutualExclusion
  <2> QED
    BY <2>1, <2>2, <2>3, <2>4
<1> QED
  BY <1>1, <1>2, <1>3, <1>4, <1>5 DEF Next

\* IInv is an invariant of the scheduler, sleep/wakeup and the semaphores.
THEOREM Invariance == Spec => []IInv
  BY InitInv, NextInv, PTL DEF Spec

\* Every variable keeps its type (proc.c: struct bsem, struct thread, locks).
THEOREM TypeCorrect == Spec => []TypeOK
<1>1. IInv => TypeOK
  BY DEF IInv
<1> QED
  BY Invariance, <1>1, PTL

\* No thread is ever on two CPUs (scheduler(), sched(), swtch()).
THEOREM SingleCpu == Spec => []OneCpuPerThread
<1>1. IInv => OneCpuPerThread
  BY DEF IInv
<1> QED
  BY Invariance, <1>1, PTL

\* sched() never panics for the callers yield() and sleep().
THEOREM NoSchedPanic == Spec => []SchedPanicsNever
<1>1. IInv => SchedPanicsNever
  BY DEF IInv, TypeOK, SchedPanicsNever, LockInv, BsemLockInv, Runs
<1> QED
  BY Invariance, <1>1, PTL

\* sleep() and wakeup() lose no wakeup of bsem_up().
THEOREM WakeupsReachSleepers == Spec => []NoLostWakeup
<1>1. IInv => NoLostWakeup
  BY DEF IInv
<1> QED
  BY Invariance, <1>1, PTL

\* A binary semaphore used as a mutex excludes.
THEOREM MutexExcludes == Spec => []MutualExclusion
<1>1. IInv => MutualExclusion
  BY DEF IInv
<1> QED
  BY Invariance, <1>1, PTL

\* Every step of a thread or a scheduler is a step of BinSem or leaves the
\* semaphore table alone.
LEMMA NextRefines ==
  ASSUME IInv, [Next]_vars
  PROVE  [Binary!BinNext]_<<used, unlocked>>
<1> USE DEF Binary!BinNext, Binary!Sem
<1>1. ASSUME NEW c \in CPU, Scheduler(c) PROVE UNCHANGED <<used, unlocked>>
  BY <1>1 DEF Scheduler, SchedLeave, SchedEnter, SchedNext, SwitchTo
<1>2. ASSUME NEW c \in CPU, NEW t \in Thread,
             SwitchStep(c, t) \/ yield(c, t)
      PROVE  UNCHANGED <<used, unlocked>>
  BY <1>2 DEF SwitchStep, sched, YieldReturn, yield
<1>3. ASSUME NEW c \in CPU, NEW t \in Thread, SyscallStep(c, t)
      PROVE  [Binary!BinNext]_<<used, unlocked>>
  <2>1. CASE DownTake(c, t)
    <3>1. arg[t] \in Sem
      BY <2>1 DEF DownTake, At, IInv, SemInv
    <3>2. Binary!Down(arg[t])
      BY <2>1, <3>1 DEF DownTake, Binary!Down
    <3> QED
      BY <3>1, <3>2
  <2>2. CASE UpUnlock(c, t)
    <3>1. arg[t] \in Sem
      BY <2>2 DEF UpUnlock, At, IInv, SemInv
    <3>2. Binary!Up(arg[t])
      BY <2>2, <3>1 DEF UpUnlock, Binary!Up
    <3> QED
      BY <3>1, <3>2
  <2>3. CASE ~DownTake(c, t) /\ ~UpUnlock(c, t)
    BY <1>3, <2>3 DEF SyscallStep, DownAcquire, DownSleep, SleepAcquire,
       SleepRelease, SleepReturn, WakeupProc, UpReturn
  <2> QED
    BY <2>1, <2>2, <2>3
<1>4. ASSUME NEW c \in CPU, NEW t \in Thread, User(c, t)
      PROVE  [Binary!BinNext]_<<used, unlocked>>
  BY <1>4 DEF User, bsem_alloc, bsem_free, Call, Binary!Alloc, Binary!Free
<1>5. CASE UNCHANGED vars
  BY <1>5 DEF vars
<1> QED
  BY <1>1, <1>2, <1>3, <1>4, <1>5 DEF Next

\* The kernel's binary semaphores implement the atomic ones of BinSem.
THEOREM Refinement == Spec => ImplementsBinSem
<1>1. Init => Binary!BinInit
  BY DEF Init, Binary!BinInit, Binary!Sem
<1> QED
  BY <1>1, NextRefines, Invariance, PTL DEF Spec, ImplementsBinSem,
     Binary!BinSpec
=============================================================================
