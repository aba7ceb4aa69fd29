----------------------------- MODULE BsemSleep ------------------------------
(***************************************************************************)
(* The steps of sleep(), wakeup(), bsem_alloc() and bsem_free() preserve   *)
(* the inductive invariant of Bsem.                                        *)
(***************************************************************************)
EXTENDS BsemInv

USE BsemAssumption DEF Proc, Sem

\* sleep() up to its sched() preserves IInv: the semaphore is still locked
\* when the thread becomes SLEEPING.
LEMMA SleepReleaseInv ==
  ASSUME NEW c \in CPU, NEW t \in Thread, IInv,
         SleepRelease(c, t)
  PROVE  IInv'
<1>0. /\ cthread[c] = t /\ ~saved[t] /\ ~intr[t] /\ pc[t] = "sleep_lk"
      /\ bsem_lock' = None
      /\ chan' = [chan EXCEPT ![t] = arg[t]]
      /\ state' = [state EXCEPT ![t] = "SLEEPING"]
      /\ pc' = [pc EXCEPT ![t] = "sleep"]
      /\ UNCHANGED <<arg, wp, intr, saved, cthread, plock, used, unlocked,
                     crit>>
  BY DEF SleepRelease, At, Runs
<1>1. TypeOK'
  BY <1>0 DEF IInv, TypeOK, PcValues
<1>2. OneCpuPerThread'
  BY <1>0 DEF IInv, OneCpuPerThread
<1>3. LockInv'
  BY <1>0 DEF IInv, TypeOK, OneCpuPerThread, LockInv, BsemLockInv
<1>4. BsemLockInv'
  BY <1>0 DEF IInv, TypeOK, OneCpuPerThread, LockInv, BsemLockInv
<1>5. SemInv'
  BY <1>0 DEF IInv, TypeOK, LockInv, SemInv
<1>6. NoLostWakeup'
  BY <1>0 DEF IInv, TypeOK, LockInv, SemInv, NoLostWakeup
<1>7. MutualExclusion'
  BY <1>0 DEF IInv, TypeOK, MutualExclusion
<1> QED
  BY <1>1, <1>2, <1>3, <1>4, <1>5, <1>6, <1>7 DEF IInv

\* The return of sched() in sleep() preserves IInv.
LEMMA SleepReturnInv ==
  ASSUME NEW c \in CPU, NEW t \in Thread, IInv,
         SleepReturn(c, t)
  PROVE  IInv'
<1>0. /\ cthread[c] = t /\ ~saved[t] /\ ~intr[t] /\ pc[t] = "sleep"
      /\ state[t] = "RUNNING"
      /\ chan' = [chan EXCEPT ![t] = None]
      /\ plock' = [plock EXCEPT ![ProcOf[t]] = None]
      /\ pc' = [pc EXCEPT ![t] = "reacquire"]
      /\ UNCHANGED <<state, arg, wp, intr, saved, cthread, bsem_lock, used,
                     unlocked, crit>>
  BY DEF SleepReturn, At, Runs
<1>1. TypeOK'
  BY <1>0 DEF IInv, TypeOK, PcValues
<1>2. OneCpuPerThread'
  BY <1>0 DEF IInv, OneCpuPerThread
<1>3. LockInv'
  BY SMTT(30), <1>0 DEF IInv, TypeOK, OneCpuPerThread, LockInv, BsemLockInv
<1>4. BsemLockInv'
  BY <1>0 DEF IInv, TypeOK, OneCpuPerThread, LockInv, BsemLockInv
<1>5. SemInv'
  BY <1>0 DEF IInv, TypeOK, LockInv, SemInv
<1>6. NoLostWakeup'
  BY <1>0 DEF IInv, TypeOK, LockInv, SemInv, NoLostWakeup
<1>7. MutualExclusion'
  BY <1>0 DEF IInv, TypeOK, MutualExclusion
<1> QED
  BY <1>1, <1>2, <1>3, <1>4, <1>5, <1>6, <1>7 DEF IInv

\* One process of wakeup()'s scan preserves IInv: no sleeper of that
\* process is left behind.
LEMMA WakeupProcInv ==
  ASSUME NEW c \in CPU, NEW t \in Thread, IInv,
         WakeupProc(c, t)
  PROVE  IInv'
<1>0. /\ cthread[c] = t /\ ~saved[t] /\ ~intr[t] /\ pc[t] = "wakeup"
      /\ wp[t] <= NPROC /\ plock[wp[t]] = None
      /\ state' = [u \in Thread |->
                    IF /\ u # t /\ ProcOf[u] = wp[t]
                       /\ state[u] = "SLEEPING" /\ chan[u] = arg[t]
                      THEN "RUNNABLE" ELSE state[u]]
      /\ wp' = [wp EXCEPT ![t] = wp[t] + 1]
      /\ UNCHANGED <<chan, pc, arg, intr, saved, cthread, plock, bsem_lock,
                     used, unlocked, crit>>
  BY DEF WakeupProc, At, Runs, Sleepers
<1>1. TypeOK'
  BY <1>0 DEF IInv, TypeOK, PcValues
<1>2. OneCpuPerThread'
  BY <1>0 DEF IInv, OneCpuPerThread
<1>3. LockInv'
  BY <1>0 DEF IInv, TypeOK, OneCpuPerThread, LockInv, BsemLockInv
<1>4. BsemLockInv'
  BY <1>0 DEF IInv, TypeOK, OneCpuPerThread, LockInv, BsemLockInv
<1>5. SemInv'
  BY <1>0 DEF IInv, TypeOK, LockInv, SemInv
<1>6. NoLostWakeup'
  BY <1>0 DEF IInv, TypeOK, LockInv, SemInv, NoLostWakeup
<1>7. MutualExclusion'
  BY <1>0 DEF IInv, TypeOK, SemInv, MutualExclusion
<1> QED
  BY <1>1, <1>2, <1>3, <1>4, <1>5, <1>6, <1>7 DEF IInv

\* bsem_alloc() preserves IInv: nobody sleeps on an unused semaphore.
LEMMA bsem_allocInv ==
  ASSUME NEW c \in CPU, NEW t \in Thread, IInv,
         bsem_alloc(c, t)
  PROVE  IInv'
<1> USE DEF IInv, bsem_alloc, At, Runs, threadVars
<1>1. TypeOK'
  BY DEF TypeOK, PcValues
<1>2. OneCpuPerThread'
  BY DEF TypeOK, OneCpuPerThread
<1>3. LockInv'
  BY DEF TypeOK, OneCpuPerThread, LockInv, BsemLockInv
<1>4. BsemLockInv'
  BY DEF TypeOK, OneCpuPerThread, LockInv, BsemLockInv
<1>5. SemInv'
  BY DEF TypeOK, OneCpuPerThread, LockInv, BsemLockInv, SemInv
<1>6. NoLostWakeup'
  BY DEF TypeOK, LockInv, SemInv, NoLostWakeup
<1>7. MutualExclusion'
  BY DEF TypeOK, SemInv, MutualExclusion
<1> QED
  BY <1>1, <1>2, <1>3, <1>4, <1>5, <1>6, <1>7

\* bsem_free() of a quiet semaphore preserves IInv.
LEMMA bsem_freeInv ==
  ASSUME NEW c \in CPU, NEW t \in Thread,
         NEW b \in Sem, IInv,
         bsem_free(c, t, b)
  PROVE  IInv'
<1>0. /\ \A u \in Thread : arg[u] # b /\ b \notin crit[u]
      /\ used' = [used EXCEPT ![b] = FALSE]
      /\ UNCHANGED <<state, chan, pc, arg, wp, intr, saved, cthread, plock,
                     bsem_lock, unlocked, crit>>
  BY DEF bsem_free, Quiet, threadVars
<1>1. TypeOK'
  BY <1>0 DEF IInv, TypeOK, PcValues
<1>2. OneCpuPerThread'
  BY <1>0 DEF IInv, OneCpuPerThread
<1>3. LockInv'
  BY <1>0 DEF IInv, TypeOK, OneCpuPerThread, LockInv, BsemLockInv
<1>4. BsemLockInv'
  BY <1>0 DEF IInv, TypeOK, OneCpuPerThread, LockInv, BsemLockInv
<1>5. SemInv'
  <2>1. \A a \in Sem : a # b => used'[a] = used[a]
    BY <1>0 DEF IInv, TypeOK
  <2>2. \A u \in Thread : pc[u] # "user" => used'[arg[u]]
    BY <1>0, <2>1 DEF IInv, SemInv
  <2>3. \A u \in Thread : \A a \in crit[u] : used'[a]
    BY <1>0, <2>1 DEF IInv, TypeOK, SemInv
  <2> QED
    BY <1>0, <2>2, <2>3 DEF IInv, SemInv
<1>6. NoLostWakeup'
  BY <1>0 DEF IInv, TypeOK, LockInv, SemInv, NoLostWakeup
<1>7. MutualExclusion'
  BY <1>0 DEF IInv, TypeOK, SemInv, MutualExclusion
<1> QED
  BY <1>1, <1>2, <1>3, <1>4, <1>5, <1>6, <1>7 DEF IInv
=============================================================================
