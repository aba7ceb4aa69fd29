----------------------------- MODULE BsemCalls ------------------------------
(***************************************************************************)
(* The steps of bsem_down() and bsem_up() preserve the inductive invariant *)
(* of Bsem.                                                                *)
(***************************************************************************)
EXTENDS BsemSleep

USE BsemAssumption DEF Proc, Sem

\* Entering bsem_down() or bsem_up() preserves IInv.
LEMMA CallInv ==
  ASSUME NEW c \in CPU, NEW t \in Thread, NEW op \in {"down", "up"},
         NEW b \in Sem, IInv,
         Call(c, t, op, b)
  PROVE  IInv'
<1>0. /\ cthread[c] = t /\ ~saved[t] /\ ~intr[t] /\ pc[t] = "user"
      /\ used[b] /\ (OwnerUps => (op = "up" <=> b \in crit[t]))
      /\ pc' = [pc EXCEPT ![t] = op]
      /\ arg' = [arg EXCEPT ![t] = b]
      /\ UNCHANGED <<state, chan, wp, intr, saved, cthread, plock, bsem_lock,
                     used, unlocked, crit>>
  BY DEF Call, At, Runs
<1>1. TypeOK'
  BY <1>0 DEF IInv, TypeOK, PcValues
<1>2. OneCpuPerThread'
  BY <1>0 DEF IInv, OneCpuPerThread
<1>3. LockInv'
  BY <1>0 DEF IInv, TypeOK, OneCpuPerThread, LockInv, BsemLockInv
<1>4. BsemLockInv'
  BY <1>0 DEF IInv, TypeOK, OneCpuPerThread, LockInv, BsemLockInv
<1>5. SemInv'
  BY <1>0 DEF IInv, TypeOK, LockInv, SemInv
<1>6. NoLostWakeup'
  BY <1>0 DEF IInv, TypeOK, LockInv, SemInv, NoLostWakeup
<1>7. MutualExclusion'
  BY <1>0 DEF IInv, TypeOK, MutualExclusion
<1> QED
  BY <1>1, <1>2, <1>3, <1>4, <1>5, <1>6, <1>7 DEF IInv

\* acquire(&bsem_lock) in bsem_down() preserves IInv.
LEMMA DownAcquireInv ==
  ASSUME NEW c \in CPU, NEW t \in Thread, IInv,
         DownAcquire(c, t)
  PROVE  IInv'
<1>0. /\ cthread[c] = t /\ ~saved[t] /\ ~intr[t]
      /\ pc[t] \in {"down", "reacquire"} /\ bsem_lock = None
      /\ bsem_lock' = c
      /\ pc' = [pc EXCEPT ![t] = "test"]
      /\ UNCHANGED <<state, chan, arg, wp, intr, saved, cthread, plock, used,
                     unlocked, crit>>
  BY DEF DownAcquire, At, Runs
<1>1. TypeOK'
  BY <1>0 DEF IInv, TypeOK, PcValues
<1>2. OneCpuPerThread'
  BY <1>0 DEF IInv, OneCpuPerThread
<1>3. LockInv'
  BY <1>0 DEF IInv, TypeOK, OneCpuPerThread, LockInv, BsemLockInv
<1>4. BsemLockInv'
  BY <1>0 DEF IInv, TypeOK, OneCpuPerThread, LockInv, BsemLockInv
<1>5. SemInv'
  BY <1>0 DEF IInv, TypeOK, LockInv, SemInv
<1>6. NoLostWakeup'
  BY <1>0 DEF IInv, TypeOK, LockInv, SemInv, NoLostWakeup
<1>7. MutualExclusion'
  BY <1>0 DEF IInv, TypeOK, MutualExclusion
<1> QED
  BY <1>1, <1>2, <1>3, <1>4, <1>5, <1>6, <1>7 DEF IInv

\* acquire(&p->lock) in sleep() preserves IInv.
LEMMA DownSleepInv ==
  ASSUME NEW c \in CPU, NEW t \in Thread, IInv,
         DownSleep(c, t)
  PROVE  IInv'
<1>0. /\ cthread[c] = t /\ ~saved[t] /\ ~intr[t] /\ pc[t] = "test"
      /\ ~unlocked[arg[t]] /\ plock[ProcOf[t]] = None
      /\ plock' = [plock EXCEPT ![ProcOf[t]] = c]
      /\ pc' = [pc EXCEPT ![t] = "sleep_lk"]
      /\ UNCHANGED <<state, chan, arg, wp, intr, saved, cthread, bsem_lock,
                     used, unlocked, crit>>
  BY DEF DownSleep, SleepAcquire, At, Runs
<1>1. TypeOK'
  BY <1>0 DEF IInv, TypeOK, PcValues
<1>2. OneCpuPerThread'
  BY <1>0 DEF IInv, OneCpuPerThread
<1>3. LockInv'
  BY <1>0 DEF IInv, TypeOK, OneCpuPerThread, LockInv, BsemLockInv
<1>4. BsemLockInv'
  BY <1>0 DEF IInv, TypeOK, OneCpuPerThread, LockInv, BsemLockInv
<1>5. SemInv'
  BY <1>0 DEF IInv, TypeOK, LockInv, SemInv
<1>6. NoLostWakeup'
  BY <1>0 DEF IInv, TypeOK, LockInv, SemInv, NoLostWakeup
<1>7. MutualExclusion'
  BY <1>0 DEF IInv, TypeOK, MutualExclusion
<1> QED
  BY <1>1, <1>2, <1>3, <1>4, <1>5, <1>6, <1>7 DEF IInv

\* Taking the semaphore preserves IInv.
LEMMA DownTakeInv ==
  ASSUME NEW c \in CPU, NEW t \in Thread, IInv,
         DownTake(c, t)
  PROVE  IInv'
<1>0. /\ cthread[c] = t /\ ~saved[t] /\ ~intr[t] /\ pc[t] = "test"
      /\ unlocked[arg[t]]
      /\ unlocked' = [unlocked EXCEPT ![arg[t]] = FALSE]
      /\ crit' = [crit EXCEPT ![t] = crit[t] \cup {arg[t]}]
      /\ bsem_lock' = None
      /\ pc' = [pc EXCEPT ![t] = "user"]
      /\ arg' = [arg EXCEPT ![t] = None]
      /\ UNCHANGED <<state, chan, wp, intr, saved, cthread, plock, used>>
  BY DEF DownTake, Return, At, Runs
<1>8. arg[t] \in Sem
  BY <1>0 DEF IInv, SemInv
<1>1. TypeOK'
  BY <1>0, <1>8 DEF IInv, TypeOK, PcValues
<1>2. OneCpuPerThread'
  BY <1>0 DEF IInv, OneCpuPerThread
<1>3. LockInv'
  BY <1>0 DEF IInv, TypeOK, OneCpuPerThread, LockInv, BsemLockInv
<1>4. BsemLockInv'
  BY <1>0 DEF IInv, TypeOK, OneCpuPerThread, LockInv, BsemLockInv
<1>5. SemInv'
  <2>1. state[t] # "SLEEPING" /\ used[arg[t]]
    BY <1>0 DEF IInv, LockInv, SemInv
  <2>2. \A u \in Thread : crit'[u] \subseteq crit[u] \cup {arg[t]}
    BY <1>0 DEF IInv, TypeOK
  <2>3. \A u \in Thread : \A b \in crit'[u] : used'[b]
    BY <1>0, <2>1, <2>2 DEF IInv, SemInv
  <2>4. \A u \in Thread : u # t => crit'[u] = crit[u] /\ arg'[u] = arg[u]
    BY <1>0 DEF IInv, TypeOK
  <2> QED
    BY <1>0, <1>8, <2>1, <2>3, <2>4 DEF IInv, TypeOK, SemInv
<1>6. NoLostWakeup'
  BY <1>0, <1>8 DEF IInv, TypeOK, LockInv, SemInv, NoLostWakeup
<1>7. MutualExclusion'
  BY <1>0, <1>8 DEF IInv, TypeOK, SemInv, MutualExclusion
<1> QED
  BY <1>1, <1>2, <1>3, <1>4, <1>5, <1>6, <1>7 DEF IInv

\* Unlocking the semaphore preserves IInv: wakeup()'s scan starts at the
\* first process.
LEMMA UpUnlockInv ==
  ASSUME NEW c \in CPU, NEW t \in Thread, IInv,
         UpUnlock(c, t)
  PROVE  IInv'
<1>0. /\ cthread[c] = t /\ ~saved[t] /\ ~intr[t] /\ pc[t] = "up"
      /\ bsem_lock = None
      /\ bsem_lock' = c
      /\ unlocked' = [unlocked EXCEPT ![arg[t]] = TRUE]
      /\ crit' = [crit EXCEPT ![t] = crit[t] \ {arg[t]}]
      /\ pc' = [pc EXCEPT ![t] = "wakeup"]
      /\ wp' = [wp EXCEPT ![t] = 1]
      /\ UNCHANGED <<state, chan, arg, intr, saved, cthread, plock, used>>
  BY DEF UpUnlock, At, Runs
<1>8. arg[t] \in Sem /\ \A u \in Thread : pc[u] # "sleep_lk"
  <2>1. \A u \in Thread : pc[u] = "sleep_lk" => ~saved[u]
    BY DEF IInv, LockInv
  <2>2. ASSUME NEW u \in Thread, pc[u] = "sleep_lk" PROVE FALSE
    <3>1. PICK d \in CPU : cthread[d] = u
      BY <2>1, <2>2 DEF IInv, LockInv
    <3>2. bsem_lock = d
      BY <2>2, <3>1 DEF IInv, BsemLockInv
    <3> QED
      BY <1>0, <3>2
  <2>3. arg[t] \in Sem
    BY <1>0 DEF IInv, SemInv
  <2> QED
    BY <2>2, <2>3
<1>1. TypeOK'
  BY <1>0, <1>8 DEF IInv, TypeOK, PcValues
<1>2. OneCpuPerThread'
  BY <1>0 DEF IInv, OneCpuPerThread
<1>3. LockInv'
  BY <1>0 DEF IInv, TypeOK, OneCpuPerThread, LockInv, BsemLockInv
<1>4. BsemLockInv'
  BY <1>0 DEF IInv, TypeOK, OneCpuPerThread, LockInv, BsemLockInv
<1>5. SemInv'
  BY <1>0, <1>8 DEF IInv, TypeOK, LockInv, SemInv
<1>6. NoLostWakeup'
  BY <1>0, <1>8 DEF IInv, TypeOK, LockInv, SemInv, NoLostWakeup
<1>7. MutualExclusion'
  BY <1>0, <1>8 DEF IInv, TypeOK, SemInv, MutualExclusion
<1> QED
  BY <1>1, <1>2, <1>3, <1>4, <1>5, <1>6, <1>7 DEF IInv

\* The end of bsem_up() preserves IInv: wakeup()'s scan is past every
\* process.
LEMMA UpReturnInv ==
  ASSUME NEW c \in CPU, NEW t \in Thread, IInv,
         UpReturn(c, t)
  PROVE  IInv'
<1>0. /\ pc[t] = "wakeup" /\ cthread[c] = t /\ ~intr[t] /\ bsem_lock' = None
      /\ pc' = [pc EXCEPT ![t] = "user"] /\ arg' = [arg EXCEPT ![t] = None]
      /\ UNCHANGED <<state, chan, intr, saved, cthread, plock, used, unlocked,
                     crit>>
  BY DEF UpReturn, At, Runs, Return
<1>1. TypeOK'
  BY DEF IInv, TypeOK, PcValues, UpReturn, Return
<1>2. OneCpuPerThread'
  BY <1>0 DEF IInv, OneCpuPerThread
<1>3. LockInv'
  BY <1>0 DEF IInv, TypeOK, LockInv
<1>4. BsemLockInv'
  BY <1>0 DEF IInv, TypeOK, OneCpuPerThread, BsemLockInv
<1>5. SemInv'
  BY <1>0 DEF IInv, TypeOK, SemInv, LockInv
<1>6. NoLostWakeup'
  BY DEF IInv, TypeOK, NoLostWakeup, UpReturn, At, Runs, Return
<1>7. MutualExclusion'
  BY <1>0 DEF IInv, MutualExclusion
<1> QED
  BY <1>1, <1>2, <1>3, <1>4, <1>5, <1>6, <1>7 DEF IInv
=============================================================================
