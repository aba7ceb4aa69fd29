-------------------------------- MODULE Bsem --------------------------------
(***************************************************************************)
(* Binary semaphores (kernel/proc.c, bsem_alloc .. bsem_up) together with  *)
(* the machinery they block on: sleep() and wakeup(), sched(), yield() and *)
(* the per-CPU scheduler() loop, at the granularity of the spinlocks       *)
(* bsem_lock and p->lock.  A spinlock records the CPU that holds it, as    *)
(* struct spinlock does, because p->lock is handed from a thread to the    *)
(* scheduler of its CPU, and back, across swtch().                         *)
(***************************************************************************)
EXTENDS Integers, FiniteSets

CONSTANTS
  NPROC,        \* size of the process table
  MAX_BSEM,     \* size of the semaphore table
  Thread,       \* the live kernel threads
  ProcOf,       \* ProcOf[t]: index of the process that t belongs to
  SlotOf,       \* SlotOf[t]: index of t in its process's thread table
  CPU,          \* the harts
  None,         \* a null pointer: no CPU, no thread, no channel
  OwnerUps      \* TRUE: threads only up a semaphore they downed (a mutex)

Proc == 1..NPROC
Sem == 0..(MAX_BSEM - 1)

ASSUME BsemAssumption ==
  /\ NPROC \in Nat /\ MAX_BSEM \in Nat
  /\ ProcOf \in [Thread -> Proc]
  /\ SlotOf \in [Thread -> Nat]
  /\ None \notin Thread /\ None \notin CPU /\ None \notin Sem
  /\ OwnerUps \in BOOLEAN

VARIABLES
  state,        \* t->state
  chan,         \* t->chan: the semaphore slept on
  pc,           \* where in bsem_down / sleep / bsem_up the thread is
  arg,          \* the bid argument of the call in progress
  wp,           \* wakeup()'s loop index into the process table
  intr,         \* the thread is inside yield(), called from a timer trap
  saved,        \* the thread is switched out: swtch() saved its context
  cthread,      \* c->thread: the thread the scheduler of c switched to
  plock,        \* the CPU holding p->lock
  bsem_lock,    \* the CPU holding bsem_lock
  used,         \* bsems[b].state
  unlocked,     \* bsems[b].unlocked
  crit          \* history: semaphores t has downed and not upped since

threadVars == <<state, chan, pc, arg, wp, intr, saved>>
vars == <<threadVars, cthread, plock, bsem_lock, used, unlocked, crit>>

PcValues == {"user", "down", "test", "sleep_lk", "sleep", "reacquire",
             "up", "wakeup"}

\* Every variable has its type.
TypeOK ==
  /\ state \in [Thread -> {"SLEEPING", "RUNNABLE", "RUNNING"}]
  /\ chan \in [Thread -> Sem \cup {None}]
  /\ pc \in [Thread -> PcValues]
  /\ arg \in [Thread -> Sem \cup {None}]
  /\ wp \in [Thread -> 1..(NPROC + 1)]
  /\ intr \in [Thread -> BOOLEAN]
  /\ saved \in [Thread -> BOOLEAN]
  /\ cthread \in [CPU -> Thread \cup {None}]
  /\ plock \in [Proc -> CPU \cup {None}]
  /\ bsem_lock \in CPU \cup {None}
  /\ used \in [Sem -> BOOLEAN]
  /\ unlocked \in [Sem -> BOOLEAN]
  /\ crit \in [Thread -> SUBSET Sem]

(* All threads are runnable at user level, every CPU is in its scheduler, *)
(* and the semaphore table is zeroed memory.                              *)
Init ==
  /\ state = [t \in Thread |-> "RUNNABLE"]
  /\ chan = [t \in Thread |-> None]
  /\ pc = [t \in Thread |-> "user"]
  /\ arg = [t \in Thread |-> None]
  /\ wp = [t \in Thread |-> 1]
  /\ intr = [t \in Thread |-> TRUE]
  /\ saved = [t \in Thread |-> TRUE]
  /\ cthread = [c \in CPU |-> None]
  /\ plock = [p \in Proc |-> None]
  /\ bsem_lock = None
  /\ used = [b \in Sem |-> FALSE]
  /\ unlocked = [b \in Sem |-> FALSE]
  /\ crit = [t \in Thread |-> {}]

-----------------------------------------------------------------------------
(* scheduler(), sched() and yield() *)

\* Thread t executes instructions on CPU c.
Runs(c, t) == cthread[c] = t /\ ~saved[t]

\* t executes on c, outside yield(): it may take the next step of its call.
At(c, t, l) == Runs(c, t) /\ ~intr[t] /\ pc[t] = l

\* The scheduler of c, holding p->lock, makes t RUNNING and switches to it.
SwitchTo(c, t) ==
  /\ state' = [state EXCEPT ![t] = "RUNNING"]
  /\ cthread' = [cthread EXCEPT ![c] = t]
  /\ saved' = [saved EXCEPT ![t] = FALSE]
  /\ UNCHANGED <<chan, pc, arg, wp, intr, bsem_lock, used, unlocked, crit>>

\* t is the first RUNNABLE thread of process p after slot i.
IsNextRunnable(p, i, t) ==
  /\ ProcOf[t] = p /\ state[t] = "RUNNABLE" /\ SlotOf[t] > i
  /\ \A u \in Thread :
       ProcOf[u] = p /\ state[u] = "RUNNABLE" /\ SlotOf[u] > i
         => SlotOf[t] <= SlotOf[u]

\* The scheduler of c reaches process p, takes p->lock and finds t RUNNABLE.
SchedEnter(c, t) ==
  /\ cthread[c] = None
  /\ plock[ProcOf[t]] = None
  /\ IsNextRunnable(ProcOf[t], -1, t)
  /\ plock' = [plock EXCEPT ![ProcOf[t]] = c]
  /\ SwitchTo(c, t)

\* swtch() came back to the scheduler from t; it still holds p->lock and goes
\* on with a later RUNNABLE thread of the same process.
SchedNext(c, t) ==
  /\ cthread[c] # None /\ saved[cthread[c]]
  /\ IsNextRunnable(ProcOf[cthread[c]], SlotOf[cthread[c]], t)
  /\ UNCHANGED plock
  /\ SwitchTo(c, t)

\* As SchedNext, but no later thread is RUNNABLE: release(&p->lock).
SchedLeave(c) ==
  /\ cthread[c] # None /\ saved[cthread[c]]
  /\ \A u \in Thread :
       ~IsNextRunnable(ProcOf[cthread[c]], SlotOf[cthread[c]], u)
  /\ cthread' = [cthread EXCEPT ![c] = None]
  /\ plock' = [plock EXCEPT ![ProcOf[cthread[c]]] = None]
  /\ UNCHANGED <<threadVars, bsem_lock, used, unlocked, crit>>

\* sched(): a thread that holds p->lock and has left RUNNING switches to the
\* scheduler of its CPU.
sched(c, t) ==
  /\ Runs(c, t) /\ state[t] # "RUNNING" /\ plock[ProcOf[t]] = c
  /\ saved' = [saved EXCEPT ![t] = TRUE]
  /\ UNCHANGED <<state, chan, pc, arg, wp, intr, cthread, plock, bsem_lock,
                 used, unlocked, crit>>

\* yield() from a timer trap.  Spinlocks keep interrupts off, so only a thread
\* that holds none can be preempted.
yield(c, t) ==
  /\ Runs(c, t) /\ ~intr[t]
  /\ pc[t] \in {"user", "down", "up", "reacquire"}
  /\ plock[ProcOf[t]] = None
  /\ plock' = [plock EXCEPT ![ProcOf[t]] = c]
  /\ state' = [state EXCEPT ![t] = "RUNNABLE"]
  /\ intr' = [intr EXCEPT ![t] = TRUE]
  /\ UNCHANGED <<chan, pc, arg, wp, saved, cthread, bsem_lock, used, unlocked,
                 crit>>

\* sched() returns in yield() (or a new thread starts in forkret()).
YieldReturn(c, t) ==
  /\ Runs(c, t) /\ intr[t] /\ state[t] = "RUNNING"
  /\ plock[ProcOf[t]] = c
  /\ plock' = [plock EXCEPT ![ProcOf[t]] = None]
  /\ intr' = [intr EXCEPT ![t] = FALSE]
  /\ UNCHANGED <<state, chan, pc, arg, wp, saved, cthread, bsem_lock, used,
                 unlocked, crit>>

-----------------------------------------------------------------------------
(* sleep() and wakeup() *)

\* sleep(): acquire(&p->lock) while still holding bsem_lock.
SleepAcquire(c, t) ==
  /\ plock[ProcOf[t]] = None
  /\ plock' = [plock EXCEPT ![ProcOf[t]] = c]
  /\ pc' = [pc EXCEPT ![t] = "sleep_lk"]
  /\ UNCHANGED <<state, chan, arg, wp, intr, saved, cthread, bsem_lock, used,
                 unlocked, crit>>

\* Mutant of SleepRelease: sleep() keeps lk.
SleepKeepsLock(c, t) ==
  /\ At(c, t, "sleep_lk")
  /\ chan' = [chan EXCEPT ![t] = arg[t]]
  /\ state' = [state EXCEPT ![t] = "SLEEPING"]
  /\ pc' = [pc EXCEPT ![t] = "sleep"]
  /\ UNCHANGED <<arg, wp, intr, saved, cthread, plock, bsem_lock, used,
                 unlocked, crit>>

\* sleep(): release(lk), then record the channel and become SLEEPING under
\* p->lock; sched() follows.
SleepRelease(c, t) ==
  /\ At(c, t, "sleep_lk")
  /\ bsem_lock' = None
  /\ chan' = [chan EXCEPT ![t] = arg[t]]
  /\ state' = [state EXCEPT ![t] = "SLEEPING"]
  /\ pc' = [pc EXCEPT ![t] = "sleep"]
  /\ UNCHANGED <<arg, wp, intr, saved, cthread, plock, used, unlocked, crit>>

\* sched() returns in sleep(): clear the channel and release(&p->lock).
SleepReturn(c, t) ==
  /\ At(c, t, "sleep") /\ state[t] = "RUNNING"
  /\ chan' = [chan EXCEPT ![t] = None]
  /\ plock' = [plock EXCEPT ![ProcOf[t]] = None]
  /\ pc' = [pc EXCEPT ![t] = "reacquire"]
  /\ UNCHANGED <<state, arg, wp, intr, saved, cthread, bsem_lock, used,
                 unlocked, crit>>

\* Mutant of Sleepers: the test p != myproc() of the original xv6 is kept.
SleepersElsewhere(t, b, p) ==
  {u \in Thread : /\ ProcOf[u] = p /\ p # ProcOf[t]
                  /\ state[u] = "SLEEPING" /\ chan[u] = b}

\* The threads of process p that wakeup(b), called by t, makes RUNNABLE.
Sleepers(t, b, p) ==
  {u \in Thread \ {t} : ProcOf[u] = p /\ state[u] = "SLEEPING" /\ chan[u] = b}

\* One iteration of wakeup()'s loop over the process table.
WakeupProc(c, t) ==
  /\ At(c, t, "wakeup") /\ wp[t] <= NPROC
  /\ plock[wp[t]] = None
  /\ state' = [u \in Thread |-> IF u \in Sleepers(t, arg[t], wp[t])
                                  THEN "RUNNABLE" ELSE state[u]]
  /\ wp' = [wp EXCEPT ![t] = @ + 1]
  /\ UNCHANGED <<chan, pc, arg, intr, saved, cthread, plock, bsem_lock, used,
                 unlocked, crit>>

-----------------------------------------------------------------------------
(* bsem_alloc, bsem_free, bsem_down, bsem_up *)

\* The system call returns to user level.
Return(t) ==
  /\ pc' = [pc EXCEPT ![t] = "user"]
  /\ arg' = [arg EXCEPT ![t] = None]

\* No thread is in a call on b: the assignment leaves freeing a semaphore
\* that threads are blocked on undefined, and callers must not do it.
Quiet(b) == \A t \in Thread : arg[t] # b /\ b \notin crit[t]

\* Mutant of bsem_alloc: b->unlocked keeps what an earlier user left in it.
BsemAllocStale(c, t) ==
  /\ At(c, t, "user") /\ bsem_lock = None
  /\ \E b \in Sem :
       /\ ~used[b] /\ \A a \in Sem : a < b => used[a]
       /\ used' = [used EXCEPT ![b] = TRUE]
  /\ UNCHANGED <<threadVars, cthread, plock, bsem_lock, unlocked, crit>>

\* bsem_alloc(): the first unused entry, unlocked; -1 (no change) if none.
bsem_alloc(c, t) ==
  /\ At(c, t, "user") /\ bsem_lock = None
  /\ \E b \in Sem :
       /\ ~used[b] /\ \A a \in Sem : a < b => used[a]
       /\ used' = [used EXCEPT ![b] = TRUE]
       /\ unlocked' = [unlocked EXCEPT ![b] = TRUE]
  /\ UNCHANGED <<threadVars, cthread, plock, bsem_lock, crit>>

\* bsem_free(b): only the state is reset.
bsem_free(c, t, b) ==
  /\ At(c, t, "user") /\ bsem_lock = None
  /\ used[b] /\ Quiet(b)
  /\ used' = [used EXCEPT ![b] = FALSE]
  /\ UNCHANGED <<threadVars, cthread, plock, bsem_lock, unlocked, crit>>

\* A thread enters bsem_down(b) or bsem_up(b) on an allocated semaphore.  A
\* mutex client neither downs what it holds nor ups what it does not hold.
Call(c, t, op, b) ==
  /\ At(c, t, "user") /\ used[b]
  /\ OwnerUps => (op = "up" <=> b \in crit[t])
  /\ pc' = [pc EXCEPT ![t] = op]
  /\ arg' = [arg EXCEPT ![t] = b]
  /\ UNCHANGED <<state, chan, wp, intr, saved, cthread, plock, bsem_lock, used,
                 unlocked, crit>>

\* acquire(&bsem_lock), first or again at the end of sleep().
DownAcquire(c, t) ==
  /\ At(c, t, "down") \/ At(c, t, "reacquire")
  /\ bsem_lock = None
  /\ bsem_lock' = c
  /\ pc' = [pc EXCEPT ![t] = "test"]
  /\ UNCHANGED <<state, chan, arg, wp, intr, saved, cthread, plock, used,
                 unlocked, crit>>

\* while(!b->unlocked) sleep(b, &bsem_lock)
DownSleep(c, t) ==
  /\ At(c, t, "test") /\ ~unlocked[arg[t]]
  /\ SleepAcquire(c, t)

\* b->unlocked = 0; release(&bsem_lock); return
DownTake(c, t) ==
  /\ At(c, t, "test") /\ unlocked[arg[t]]
  /\ unlocked' = [unlocked EXCEPT ![arg[t]] = FALSE]
  /\ crit' = [crit EXCEPT ![t] = @ \cup {arg[t]}]
  /\ bsem_lock' = None
  /\ Return(t)
  /\ UNCHANGED <<state, chan, wp, intr, saved, cthread, plock, used>>

\* Mutant of UpUnlock: wakeup(b) is not called.
UpNoWakeup(c, t) ==
  /\ At(c, t, "up") /\ bsem_lock = None
  /\ bsem_lock' = c
  /\ unlocked' = [unlocked EXCEPT ![arg[t]] = TRUE]
  /\ crit' = [crit EXCEPT ![t] = @ \ {arg[t]}]
  /\ pc' = [pc EXCEPT ![t] = "wakeup"]
  /\ wp' = [wp EXCEPT ![t] = NPROC + 1]
  /\ UNCHANGED <<state, chan, arg, intr, saved, cthread, plock, used>>

\* bsem_up: acquire(&bsem_lock); b->unlocked = 1; enter wakeup(b)
UpUnlock(c, t) ==
  /\ At(c, t, "up") /\ bsem_lock = None
  /\ bsem_lock' = c
  /\ unlocked' = [unlocked EXCEPT ![arg[t]] = TRUE]
  /\ crit' = [crit EXCEPT ![t] = @ \ {arg[t]}]
  /\ pc' = [pc EXCEPT ![t] = "wakeup"]
  /\ wp' = [wp EXCEPT ![t] = 1]
  /\ UNCHANGED <<state, chan, arg, intr, saved, cthread, plock, used>>

\* wakeup() has visited every process: release(&bsem_lock); return
UpReturn(c, t) ==
  /\ At(c, t, "wakeup") /\ wp[t] = NPROC + 1
  /\ bsem_lock' = None
  /\ wp' = [wp EXCEPT ![t] = 1]
  /\ Return(t)
  /\ UNCHANGED <<state, chan, intr, saved, cthread, plock, used, unlocked,
                 crit>>

-----------------------------------------------------------------------------
\* The next step of t's system call, on CPU c.
SyscallStep(c, t) ==
  \/ DownAcquire(c, t) \/ DownSleep(c, t) \/ DownTake(c, t)
  \/ SleepRelease(c, t) \/ SleepReturn(c, t)
  \/ UpUnlock(c, t) \/ WakeupProc(c, t) \/ UpReturn(c, t)

\* t switches to the scheduler, or returns from having been switched out.
SwitchStep(c, t) == sched(c, t) \/ YieldReturn(c, t)

\* What user code decides to do.
User(c, t) ==
  \/ bsem_alloc(c, t)
  \/ \E b \in Sem : bsem_free(c, t, b)
  \/ \E b \in Sem : Call(c, t, "down", b)
  \/ \E b \in Sem : Call(c, t, "up", b)

Scheduler(c) ==
  \/ SchedLeave(c)
  \/ \E t \in Thread : SchedEnter(c, t)
  \/ \E t \in Thread : SchedNext(c, t)

Next ==
  \/ \E c \in CPU : Scheduler(c)
  \/ \E c \in CPU, t \in Thread : SyscallStep(c, t) \/ SwitchStep(c, t)
  \/ \E c \in CPU, t \in Thread : yield(c, t)
  \/ \E c \in CPU, t \in Thread : User(c, t)

Spec == Init /\ [][Next]_vars

(* Fairness.  The kernel code of a running thread goes on; the scheduler's *)
(* round-robin scan reaches every RUNNABLE thread; timer interrupts keep   *)
(* coming; a client in its critical section finishes it.  Strong fairness  *)
(* where a step waits for a spinlock: the lock is only ever held for a     *)
(* bounded stretch of code with interrupts off, and the amoswap of a CPU   *)
(* that spins on it is assumed to win eventually.                          *)
FairSpec ==
  /\ Spec
  /\ \A c \in CPU : WF_vars(SchedLeave(c))
  /\ \A t \in Thread :
       /\ SF_vars(\E c \in CPU : SchedEnter(c, t) \/ SchedNext(c, t))
       /\ SF_vars(\E c \in CPU : SyscallStep(c, t))
       /\ WF_vars(\E c \in CPU : SwitchStep(c, t))
       /\ WF_vars(\E c \in CPU : yield(c, t))

-----------------------------------------------------------------------------
(* Properties *)

\* swtch() and the hand-over of p->lock: no two CPUs ever have the same thread
\* as their c->thread, so no kernel stack is used by two CPUs (scheduler(),
\* sched()).
OneCpuPerThread ==
  \A c, d \in CPU : cthread[c] = cthread[d] /\ cthread[c] # None => c = d

\* The panics of sched() cannot fire: a running thread that has left the state
\* RUNNING holds its p->lock and holds no other lock.
SchedPanicsNever ==
  \A c \in CPU, t \in Thread :
    Runs(c, t) /\ state[t] # "RUNNING" =>
      plock[ProcOf[t]] = c /\ bsem_lock # c

\* sleep()/wakeup(): when a semaphore is unlocked, a thread sleeping on it is
\* still ahead of some bsem_up's wakeup() scan of the process table; no
\* wakeup is lost between the test of b->unlocked and the sleep.
NoLostWakeup ==
  \A t \in Thread, b \in Sem :
    state[t] = "SLEEPING" /\ chan[t] = b /\ unlocked[b] =>
      \E u \in Thread :
        pc[u] = "wakeup" /\ arg[u] = b /\ wp[u] <= ProcOf[t]

\* Used as a mutex, a semaphore admits one thread at a time between the return
\* of bsem_down and the effect of bsem_up, and is locked meanwhile.
MutualExclusion ==
  OwnerUps =>
    \A t \in Thread : \A b \in crit[t] :
      ~unlocked[b] /\ \A u \in Thread \ {t} : b \notin crit[u]

Binary == INSTANCE BinSem

\* Under all the interleavings of sleep(), wakeup(), yield() and the CPUs,
\* bsem_alloc, bsem_free, bsem_down and bsem_up each take effect in one step,
\* and a down takes effect only on an unlocked semaphore.
ImplementsBinSem == Binary!BinSpec

\* Thread t is inside bsem_down(b).
InDown(t, b) ==
  arg[t] = b /\ pc[t] \in {"down", "test", "sleep_lk", "sleep", "reacquire"}

\* Deadlock freedom: when some thread is in bsem_down(b), some thread (not
\* necessarily the same: the semaphore is not starvation free) gets b.
DownSucceeds ==
  \A b \in Sem :
    (\E t \in Thread : InDown(t, b)) ~> (\E t \in Thread : b \in crit[t])
=============================================================================
