------------------------------ MODULE BsemInv -------------------------------
(***************************************************************************)
(* The inductive invariant of Bsem, for every number of CPUs, processes,   *)
(* threads and semaphores: it holds initially, and the steps of the        *)
(* scheduler, sched() and yield() preserve it.                             *)
(***************************************************************************)
EXTENDS Bsem, TLAPS

\* Who holds which spinlock, and what a switched-out thread looks like.
LockInv ==
  /\ \A t \in Thread : ~saved[t] => \E c \in CPU : cthread[c] = t
  /\ \A t \in Thread : state[t] = "RUNNING" => ~saved[t]
  /\ \A c \in CPU, t \in Thread :
       cthread[c] = t /\ (state[t] # "RUNNING" \/ intr[t]
                            \/ pc[t] \in {"sleep_lk", "sleep"})
         => plock[ProcOf[t]] = c
  /\ \A c \in CPU, p \in Proc :
       plock[p] = c =>
         /\ cthread[c] \in Thread /\ ProcOf[cthread[c]] = p
         /\ saved[cthread[c]] \/ intr[cthread[c]]
              \/ pc[cthread[c]] \in {"sleep_lk", "sleep"}
  /\ \A t \in Thread : intr[t] => pc[t] \in {"user", "down", "up", "reacquire"}
  /\ \A t \in Thread : state[t] = "RUNNABLE" => intr[t] \/ pc[t] = "sleep"
  /\ \A t \in Thread : saved[t] => intr[t] \/ pc[t] = "sleep"
  /\ \A t \in Thread : state[t] = "SLEEPING" => pc[t] = "sleep"

\* The thread that holds bsem_lock is between its acquire and its release.
BsemLockInv ==
  /\ \A c \in CPU : bsem_lock = c =>
       /\ cthread[c] \in Thread
       /\ pc[cthread[c]] \in {"test", "sleep_lk", "wakeup"}
       /\ ~saved[cthread[c]] /\ state[cthread[c]] = "RUNNING"
  /\ \A c \in CPU, t \in Thread :
       cthread[c] = t /\ pc[t] \in {"test", "sleep_lk", "wakeup"}
         => bsem_lock = c

\* What a call in progress, a sleeper and an owner know of the semaphore.
SemInv ==
  /\ \A t \in Thread : pc[t] # "user" => arg[t] \in Sem /\ used[arg[t]]
  /\ \A t \in Thread : state[t] = "SLEEPING" => chan[t] = arg[t]
  /\ \A t \in Thread : pc[t] = "sleep_lk" => ~unlocked[arg[t]]
  /\ \A t \in Thread : \A b \in crit[t] : used[b]
  /\ \A t \in Thread : OwnerUps /\ pc[t] = "up" => arg[t] \in crit[t]

IInv ==
  /\ TypeOK /\ OneCpuPerThread /\ LockInv /\ BsemLockInv /\ SemInv
  /\ NoLostWakeup /\ MutualExclusion

USE BsemAssumption DEF Proc, Sem

\* IInv holds initially.
LEMMA InitInv == Init => IInv
<1> SUFFICES ASSUME Init PROVE IInv
  OBVIOUS
<1>1. TypeOK
  BY DEF Init, TypeOK, PcValues
<1>2. OneCpuPerThread /\ LockInv /\ BsemLockInv
  BY DEF Init, OneCpuPerThread, LockInv, BsemLockInv
<1>3. SemInv /\ NoLostWakeup /\ MutualExclusion
  BY DEF Init, SemInv, NoLostWakeup, MutualExclusion
<1> QED
  BY <1>1, <1>2, <1>3 DEF IInv

\* The scheduler's first switch in a process preserves IInv: a RUNNABLE
\* thread whose p->lock is free is on no CPU.
LEMMA SchedEnterInv ==
  ASSUME NEW c \in CPU, NEW t \in Thread, IInv,
         SchedEnter(c, t)
  PROVE  IInv'
<1> USE DEF IInv, SchedEnter, SwitchTo, IsNextRunnable
<1>0. \A d \in CPU : cthread[d] # t
  <2>1. ASSUME NEW d \in CPU, cthread[d] = t PROVE FALSE
    <3>1. plock[ProcOf[t]] = d
      BY <2>1 DEF LockInv
    <3> QED
      BY <3>1
  <2> QED
    BY <2>1
<1>8. bsem_lock # c /\ pc[t] \notin {"test", "sleep_lk", "wakeup"}
  <2>1. bsem_lock # c
    BY DEF BsemLockInv
  <2>2. state[t] = "RUNNABLE"
    OBVIOUS
  <2>3. pc[t] \notin {"test", "sleep_lk", "wakeup"}
    BY <2>2 DEF LockInv
  <2> QED
    BY <2>1, <2>3
<1>1. TypeOK'
  BY <1>0 DEF TypeOK, PcValues
<1>2. OneCpuPerThread'
  BY <1>0 DEF TypeOK, OneCpuPerThread
<1>3. LockInv'
  BY <1>0 DEF TypeOK, OneCpuPerThread, LockInv, BsemLockInv
<1>4. BsemLockInv'
  BY SMTT(30), <1>0, <1>8 DEF TypeOK, OneCpuPerThread, LockInv, BsemLockInv
<1>5. SemInv'
  BY <1>0 DEF TypeOK, OneCpuPerThread, LockInv, BsemLockInv, SemInv
<1>6. NoLostWakeup'
  BY <1>0 DEF TypeOK, LockInv, SemInv, NoLostWakeup
<1>7. MutualExclusion'
  BY <1>0 DEF TypeOK, SemInv, MutualExclusion
<1> QED
  BY <1>1, <1>2, <1>3, <1>4, <1>5, <1>6, <1>7

\* The scheduler's later switches preserve IInv: the CPU holds p->lock, so
\* the RUNNABLE thread it picks is on no other CPU.
LEMMA SchedNextInv ==
  ASSUME NEW c \in CPU, NEW t \in Thread, IInv,
         SchedNext(c, t)
  PROVE  IInv'
<1> USE DEF IInv, SchedNext, SwitchTo, IsNextRunnable
<1>0. \A d \in CPU : cthread[d] # t
  <2> DEFINE s == cthread[c]
  <2>1. s \in Thread /\ plock[ProcOf[s]] = c /\ ProcOf[t] = ProcOf[s]
    BY DEF TypeOK, LockInv
  <2>2. t # s
    BY <2>1
  <2>3. ASSUME NEW d \in CPU, cthread[d] = t PROVE FALSE
    <3>1. plock[ProcOf[t]] = d
      BY <2>3 DEF LockInv
    <3> QED
      BY <3>1, <2>1, <2>2, <2>3
  <2> QED
    BY <2>3
<1>8. bsem_lock # c /\ pc[t] \notin {"test", "sleep_lk", "wakeup"}
  <2>1. bsem_lock # c
    BY DEF BsemLockInv
  <2>2. state[t] = "RUNNABLE"
    OBVIOUS
  <2>3. pc[t] \notin {"test", "sleep_lk", "wakeup"}
    BY <2>2 DEF LockInv
  <2> QED
    BY <2>1, <2>3
<1>1. TypeOK'
  BY <1>0 DEF TypeOK, PcValues
<1>2. OneCpuPerThread'
  BY <1>0 DEF TypeOK, OneCpuPerThread
<1>3. LockInv'
  BY SMTT(30), SMTT(20), <1>0 DEF TypeOK, OneCpuPerThread, LockInv, BsemLockInv
<1>4. BsemLockInv'
  BY SMTT(30), <1>0, <1>8 DEF TypeOK, OneCpuPerThread, LockInv, BsemLockInv
<1>5. SemInv'
  BY <1>0 DEF TypeOK, OneCpuPerThread, LockInv, BsemLockInv, SemInv
<1>6. NoLostWakeup'
  BY <1>0 DEF TypeOK, LockInv, SemInv, NoLostWakeup
<1>7. MutualExclusion'
  BY <1>0 DEF TypeOK, SemInv, MutualExclusion
<1> QED
  BY <1>1, <1>2, <1>3, <1>4, <1>5, <1>6, <1>7

\* The scheduler's release of p->lock preserves IInv.
LEMMA SchedLeaveInv ==
  ASSUME NEW c \in CPU, IInv,
         SchedLeave(c)
  PROVE  IInv'
<1> USE DEF IInv, SchedLeave, threadVars
<1>1. TypeOK'
  BY DEF TypeOK, PcValues
<1>2. OneCpuPerThread'
  BY DEF TypeOK, OneCpuPerThread
<1>3. LockInv'
  BY DEF TypeOK, OneCpuPerThread, LockInv, BsemLockInv
<1>4. BsemLockInv'
  BY SMTT(30) DEF TypeOK, OneCpuPerThread, LockInv, BsemLockInv
<1>5. SemInv'
  BY DEF TypeOK, OneCpuPerThread, LockInv, BsemLockInv, SemInv
<1>6. NoLostWakeup'
  BY DEF TypeOK, LockInv, SemInv, NoLostWakeup
<1>7. MutualExclusion'
  BY DEF TypeOK, SemInv, MutualExclusion
<1> QED
  BY <1>1, <1>2, <1>3, <1>4, <1>5, <1>6, <1>7

\* sched() preserves IInv.
LEMMA schedInv ==
  ASSUME NEW c \in CPU, NEW t \in Thread, IInv,
         sched(c, t)
  PROVE  IInv'
<1>0. /\ cthread[c] = t /\ ~saved[t] /\ state[t] # "RUNNING"
      /\ plock[ProcOf[t]] = c
      /\ saved' = [saved EXCEPT ![t] = TRUE]
      /\ UNCHANGED <<state, chan, pc, arg, wp, intr, cthread, plock,
                     bsem_lock, used, unlocked, crit>>
  BY DEF sched, Runs
<1>1. TypeOK'
  BY <1>0 DEF IInv, TypeOK, PcValues
<1>2. OneCpuPerThread'
  BY <1>0 DEF IInv, OneCpuPerThread
<1>3. LockInv'
  BY <1>0 DEF IInv, TypeOK, OneCpuPerThread, LockInv, BsemLockInv
<1>4. BsemLockInv'
  BY <1>0 DEF IInv, TypeOK, OneCpuPerThread, LockInv, BsemLockInv
<1>5. SemInv'
  BY <1>0 DEF IInv, TypeOK, LockInv, SemInv
<1>6. NoLostWakeup'
  BY <1>0 DEF IInv, TypeOK, LockInv, SemInv, NoLostWakeup
<1>7. MutualExclusion'
  BY <1>0 DEF IInv, TypeOK, MutualExclusion
<1> QED
  BY <1>1, <1>2, <1>3, <1>4, <1>5, <1>6, <1>7 DEF IInv

\* yield() up to its sched() preserves IInv.
LEMMA yieldInv ==
  ASSUME NEW c \in CPU, NEW t \in Thread, IInv,
         yield(c, t)
  PROVE  IInv'
<1>0. /\ cthread[c] = t /\ ~saved[t] /\ ~intr[t]
      /\ pc[t] \in {"user", "down", "up", "reacquire"}
      /\ plock[ProcOf[t]] = None
      /\ plock' = [plock EXCEPT ![ProcOf[t]] = c]
      /\ state' = [state EXCEPT ![t] = "RUNNABLE"]
      /\ intr' = [intr EXCEPT ![t] = TRUE]
      /\ UNCHANGED <<chan, pc, arg, wp, saved, cthread, bsem_lock, used,
                     unlocked, crit>>
  BY DEF yield, Runs
<1>1. TypeOK'
  BY SMTT(30), <1>0 DEF IInv, TypeOK, PcValues
<1>2. OneCpuPerThread'
  BY <1>0 DEF IInv, OneCpuPerThread
<1>3. LockInv'
  BY <1>0 DEF IInv, TypeOK, OneCpuPerThread, LockInv, BsemLockInv
<1>4. BsemLockInv'
  BY <1>0 DEF IInv, TypeOK, OneCpuPerThread, LockInv, BsemLockInv
<1>5. SemInv'
  BY <1>0 DEF IInv, TypeOK, LockInv, SemInv
<1>6. NoLostWakeup'
  BY <1>0 DEF IInv, TypeOK, LockInv, SemInv, NoLostWakeup
<1>7. MutualExclusion'
  BY <1>0 DEF IInv, TypeOK, MutualExclusion
<1> QED
  BY <1>1, <1>2, <1>3, <1>4, <1>5, <1>6, <1>7 DEF IInv

\* The end of yield() preserves IInv.
LEMMA YieldReturnInv ==
  ASSUME NEW c \in CPU, NEW t \in Thread, IInv,
         YieldReturn(c, t)
  PROVE  IInv'
<1>0. /\ cthread[c] = t /\ ~saved[t] /\ intr[t] /\ state[t] = "RUNNING"
      /\ plock[ProcOf[t]] = c
      /\ plock' = [plock EXCEPT ![ProcOf[t]] = None]
      /\ intr' = [intr EXCEPT ![t] = FALSE]
      /\ UNCHANGED <<state, chan, pc, arg, wp, saved, cthread, bsem_lock,
                     used, unlocked, crit>>
  BY DEF YieldReturn, Runs
<1>1. TypeOK'
  BY <1>0 DEF IInv, TypeOK, PcValues
<1>2. OneCpuPerThread'
  BY <1>0 DEF IInv, OneCpuPerThread
<1>3. LockInv'
  <2>1. pc[t] \in {"user", "down", "up", "reacquire"}
    BY <1>0 DEF IInv, LockInv
  <2>2. \A d \in CPU, u \in Thread :
          cthread[d] = u /\ u # t /\ ProcOf[u] = ProcOf[t]
            => plock[ProcOf[u]] # d
    BY <1>0 DEF IInv, TypeOK, OneCpuPerThread, LockInv
  <2> QED
    BY SMTT(30), <1>0, <2>1, <2>2 DEF IInv, TypeOK, OneCpuPerThread, LockInv
<1>4. BsemLockInv'
  BY <1>0 DEF IInv, TypeOK, OneCpuPerThread, LockInv, BsemLockInv
<1>5. SemInv'
  BY <1>0 DEF IInv, TypeOK, LockInv, SemInv
<1>6. NoLostWakeup'
  BY <1>0 DEF IInv, TypeOK, LockInv, SemInv, NoLostWakeup
<1>7. MutualExclusion'
  BY <1>0 DEF IInv, TypeOK, SemInv, MutualExclusion
<1> QED
  BY <1>1, <1>2, <1>3, <1>4, <1>5, <1>6, <1>7 DEF IInv
=============================================================================
