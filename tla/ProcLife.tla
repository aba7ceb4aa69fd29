------------------------------ MODULE ProcLife ------------------------------
(***************************************************************************)
(* The life of processes and kernel threads (kernel/proc.c, exec.c):       *)
(* fork, exit, wait, kthread_create, kthread_exit, kthread_join, the part  *)
(* of exec that stops the sibling threads, SIGKILL's handler, yield and    *)
(* the scheduler.                                                          *)
(*                                                                         *)
(* A CPU executes a context: the slot of the thread table whose kernel     *)
(* stack it uses, and a position in the code.  The two are kept apart from *)
(* the slot's record, because the code may free or reuse the record while  *)
(* a CPU still executes on its stack.  One action is one critical section: *)
(* what happens between acquire and release of wait_lock or of a p->lock,  *)
(* including the switch to the scheduler that sched() makes with p->lock   *)
(* held (module Bsem has that hand-over in detail).                        *)
(***************************************************************************)
EXTENDS Integers, FiniteSets, FiniteSetsExt

CONSTANTS
  NPROC, NTHREAD,   \* table sizes
  CPU,              \* the harts
  None,             \* a null pointer
  MaxId,            \* bound on nextpid and nexttid
  Loads             \* workloads: the operations programs make, the harts
                    \* that were started, and how much of the tables is used

Proc == 1..NPROC
initproc == 1
Slot == Proc \X (0..(NTHREAD - 1))

AllOps == {"fork", "exit", "wait", "create", "kexit", "join", "exec", "kill",
           "oom"}

ASSUME ProcLifeAssumption ==
  /\ NPROC \in Nat \ {0} /\ NTHREAD \in Nat \ {0} /\ MaxId \in Nat \ {0}
  /\ Loads \subseteq [ops : SUBSET AllOps, harts : SUBSET CPU,
                      procs : Proc, threads : 1..NTHREAD]

VARIABLES
  pstate, pid, parent, pkilled,         \* struct proc
  tstate, tid, chan, tkilled, saved,    \* struct thread; saved is its context
  cur,                                  \* c->thread
  run,                                  \* the code position of each CPU
  nextpid, nexttid,
  load,                                 \* the workload of this behaviour
  panicked                              \* panic() was called

procVars == <<pstate, pid, parent, pkilled>>
threadVars == <<tstate, tid, chan, tkilled, saved>>
cpuVars == <<cur, run>>
idVars == <<nextpid, nexttid, load>>
vars == <<procVars, threadVars, cpuVars, idVars, panicked>>

\* A position in the kernel code (or in user code), with its local variable.
K(l, x) == [pc |-> l, a |-> x]
UserPos == K("user", None)
Idle == K("scheduler", None)
Dead == K("dead", None)      \* after the last sched() of exit or kthread_exit

PcValues == {"user", "scheduler", "dead", "fork", "fork_parent", "fork_run",
             "fork_free", "exit", "exit_io", "wait", "create", "create_ret",
             "kexit", "kexit_wakeup", "kexit_sched", "join", "exec",
             "exec_spin"}
States == {"UNUSED", "USED", "SLEEPING", "RUNNABLE", "RUNNING", "ZOMBIE"}

\* Every variable has its type.
TypeOK ==
  /\ pstate \in [Proc -> States] /\ pid \in [Proc -> 0..MaxId]
  /\ parent \in [Proc -> Proc \cup {None}] /\ pkilled \in [Proc -> BOOLEAN]
  /\ tstate \in [Slot -> States] /\ tid \in [Slot -> 0..MaxId]
  /\ tkilled \in [Slot -> BOOLEAN]
  /\ DOMAIN chan = Slot /\ DOMAIN saved = Slot
  /\ \A s \in Slot : saved[s].pc \in PcValues
  /\ cur \in [CPU -> Slot \cup {None}]
  /\ DOMAIN run = CPU /\ \A c \in CPU : run[c].pc \in PcValues
  /\ nextpid \in 1..(MaxId + 1) /\ nexttid \in 1..(MaxId + 1)
  /\ load \in Loads /\ panicked \in BOOLEAN

\* userinit(): process 1 exists with one RUNNABLE thread.
Init ==
  /\ pstate = [p \in Proc |-> IF p = initproc THEN "RUNNABLE" ELSE "UNUSED"]
  /\ pid = [p \in Proc |-> IF p = initproc THEN 1 ELSE 0]
  /\ parent = [p \in Proc |-> None]
  /\ pkilled = [p \in Proc |-> FALSE]
  /\ tstate = [s \in Slot |-> IF s = <<initproc, 0>> THEN "RUNNABLE"
                                                     ELSE "UNUSED"]
  /\ tid = [s \in Slot |-> IF s = <<initproc, 0>> THEN 1 ELSE 0]
  /\ chan = [s \in Slot |-> None]
  /\ tkilled = [s \in Slot |-> FALSE]
  /\ saved = [s \in Slot |-> UserPos]
  /\ cur = [c \in CPU |-> None]
  /\ run = [c \in CPU |-> Idle]
  /\ nextpid = 2 /\ nexttid = 2
  /\ load \in Loads /\ panicked = FALSE

-----------------------------------------------------------------------------
(* Helpers *)

\* CPU c executes slot s at position l; panic() stops every CPU.
At(c, s, l) == cur[c] = s /\ run[c].pc = l /\ ~panicked

\* The code running on c goes on at position k.
Goto(c, k) == run' = [run EXCEPT ![c] = k] /\ UNCHANGED cur

\* sched(): c saves its position in its slot and returns to the scheduler.
Leave(c, s, k) ==
  /\ saved' = [saved EXCEPT ![s] = k]
  /\ cur' = [cur EXCEPT ![c] = None]
  /\ run' = [run EXCEPT ![c] = Idle]

\* freethread() cleared t->tproc together with t->id; code that goes on to use
\* the pointer faults in the kernel.
NullProc(s) == tid[s] = 0

\* sleep(ch, lk): it takes p->lock of t->tproc, releases lk, and switches away.
Sleep(c, s, ch, k) ==
  /\ tstate' = [tstate EXCEPT ![s] = "SLEEPING"]
  /\ chan' = [chan EXCEPT ![s] = ch]
  /\ panicked' = NullProc(s)
  /\ Leave(c, s, k)

\* The state of every thread after wakeup(ch), called by s.
AfterWakeup(st, s, ch) ==
  [u \in Slot |-> IF u # s /\ st[u] = "SLEEPING" /\ chan[u] = ch
                    THEN "RUNNABLE" ELSE st[u]]

ProcChan(p) == <<"proc", p>>
SlotChan(s) == <<"slot", s>>
IoChan == <<"io", None>>

ThreadsOf(p) == {s \in Slot : s[1] = p /\ s[2] < load.threads}

\* The first slot of p in state UNUSED, if there is one.
IsFirstUnused(p, s) ==
  /\ s \in ThreadsOf(p) /\ tstate[s] = "UNUSED"
  /\ \A u \in ThreadsOf(p) : tstate[u] = "UNUSED" => s[2] <= u[2]

\* freethread() of the slots in S.
FreeThreads(S) ==
  /\ tstate' = [s \in Slot |-> IF s \in S THEN "UNUSED" ELSE tstate[s]]
  /\ tid' = [s \in Slot |-> IF s \in S THEN 0 ELSE tid[s]]
  /\ chan' = [s \in Slot |-> IF s \in S THEN None ELSE chan[s]]
  /\ tkilled' = [s \in Slot |-> s \notin S /\ tkilled[s]]

\* freeproc(p): it skips the threads that are RUNNING.
freeproc(p) ==
  /\ FreeThreads({s \in ThreadsOf(p) : tstate[s] \notin {"UNUSED", "RUNNING"}})
  /\ pstate' = [pstate EXCEPT ![p] = "UNUSED"]
  /\ pid' = [pid EXCEPT ![p] = 0]
  /\ parent' = [parent EXCEPT ![p] = None]
  /\ pkilled' = [pkilled EXCEPT ![p] = FALSE]

\* allocthread(): slot s gets a new id and a context that starts in forkret.
\* t->killed keeps the value it has.
allocthread(s, st) ==
  /\ nexttid <= MaxId
  /\ nexttid' = nexttid + 1
  /\ tid' = [tid EXCEPT ![s] = nexttid]
  /\ tstate' = [tstate EXCEPT ![s] = st]
  /\ saved' = [saved EXCEPT ![s] = UserPos]
  /\ UNCHANGED <<chan, tkilled>>

-----------------------------------------------------------------------------
(* The scheduler, yield, and traps of killed threads *)

\* scheduler(): switch to a RUNNABLE thread.  sched() returns in it; if that
\* was the last sched() of exit or kthread_exit, the next statement is panic.
\* sleep() clears t->chan.
Schedule(c, s) ==
  /\ ~panicked
  /\ c \in load.harts /\ cur[c] = None
  /\ tstate[s] = "RUNNABLE" /\ pstate[s[1]] # "UNUSED"
  /\ tstate' = [tstate EXCEPT ![s] = "RUNNING"]
  /\ chan' = [chan EXCEPT ![s] = None]
  /\ cur' = [cur EXCEPT ![c] = s]
  /\ run' = [run EXCEPT ![c] = saved[s]]
  /\ panicked' = (saved[s] = Dead)
  /\ UNCHANGED <<procVars, tid, tkilled, saved, idVars>>

\* yield() from a timer interrupt: usertrap() calls it whatever t->state is,
\* unless the process or thread is killed; kerneltrap() only if it is RUNNING.
yield(c, s) ==
  /\ cur[c] = s /\ ~panicked
  /\ \/ run[c].pc = "user" /\ ~pkilled[s[1]] /\ ~tkilled[s]
     \/ run[c].pc # "user" /\ tstate[s] = "RUNNING"
  /\ tstate' = [tstate EXCEPT ![s] = "RUNNABLE"]
  /\ Leave(c, s, run[c])
  /\ UNCHANGED <<procVars, tid, chan, tkilled, idVars, panicked>>

\* usertrap(): a killed process exits, a killed thread calls kthread_exit.
TrapKilled(c, s) ==
  /\ At(c, s, "user") /\ (pkilled[s[1]] \/ tkilled[s])
  /\ Goto(c, K(IF pkilled[s[1]] THEN "exit" ELSE "kexit", None))
  /\ UNCHANGED <<procVars, threadVars, idVars, panicked>>

\* usertrap(): an exception (a bad address, an illegal instruction) marks the
\* process and this thread killed, and the process exits.
TrapFault(c, s) ==
  /\ At(c, s, "user") /\ "kill" \in load.ops /\ s[1] # initproc
  /\ pkilled' = [pkilled EXCEPT ![s[1]] = TRUE]
  /\ tkilled' = [tkilled EXCEPT ![s] = TRUE]
  /\ Goto(c, K("exit", None))
  /\ UNCHANGED <<pstate, pid, parent, tstate, tid, chan, saved, idVars,
                 panicked>>

\* usertrap(): a program makes system call op.  Neither a killed process nor a
\* killed thread gets this far, but the flags may be set before the call's own
\* code starts.  init only forks and waits.
Syscall(c, s, op, x) ==
  /\ At(c, s, "user") /\ op \in load.ops
  /\ ~pkilled[s[1]] /\ ~tkilled[s]
  /\ s[1] = initproc => op \in {"fork", "wait"}
  /\ Goto(c, K(op, x))
  /\ UNCHANGED <<procVars, threadVars, idVars, panicked>>

\* sigKillHandler(), run on the way back to user space: every slot of the
\* process is marked killed, used or not, and its sleepers are woken.
sigKillHandler(c, s) ==
  /\ At(c, s, "user") /\ "kill" \in load.ops /\ s[1] # initproc
  /\ pkilled' = [pkilled EXCEPT ![s[1]] = TRUE]
  /\ tkilled' = [u \in Slot |-> u \in ThreadsOf(s[1]) \/ tkilled[u]]
  /\ tstate' = [u \in Slot |->
                  IF u \in ThreadsOf(s[1]) /\ tstate[u] = "SLEEPING"
                    THEN "RUNNABLE" ELSE tstate[u]]
  /\ UNCHANGED <<pstate, pid, parent, tid, chan, saved, cpuVars, idVars,
                 panicked>>

-----------------------------------------------------------------------------
(* fork, exit, wait *)

\* fork(): allocproc() and the copying of the parent, under np->lock.
fork(c, s, np) ==
  /\ At(c, s, "fork") /\ pstate[np] = "UNUSED" /\ nextpid <= MaxId
  /\ nextpid' = nextpid + 1
  /\ pid' = [pid EXCEPT ![np] = nextpid]
  /\ pstate' = [pstate EXCEPT ![np] = "USED"]
  /\ \E nt \in ThreadsOf(np) :
       /\ IsFirstUnused(np, nt)
       /\ allocthread(nt, "USED")
       /\ Goto(c, K("fork_parent", nt))
  /\ UNCHANGED <<parent, pkilled, load, panicked>>

\* fork(): there is no free process (or the bound on ids is reached).
ForkFull(c, s) ==
  /\ At(c, s, "fork")
  /\ (\A p \in 1..load.procs : pstate[p] # "UNUSED") \/ nextpid > MaxId \/ nexttid > MaxId
  /\ Goto(c, UserPos)
  /\ UNCHANGED <<procVars, threadVars, idVars, panicked>>

\* fork(): a page for the trapframes, the page table or the user memory cannot
\* be had; freeproc(np) under np->lock.  The pid, perhaps a tid, is spent.
ForkUndone(c, s, np) ==
  /\ At(c, s, "fork") /\ "oom" \in load.ops
  /\ pstate[np] = "UNUSED" /\ nextpid <= MaxId /\ nexttid <= MaxId
  /\ nextpid' = nextpid + 1 /\ nexttid' \in {nexttid, nexttid + 1}
  /\ freeproc(np)
  /\ Goto(c, UserPos)
  /\ UNCHANGED <<saved, load, panicked>>

\* allocthread() has no memory, or no slot because old threads of np are still
\* RUNNING: it releases np->lock, after freeproc(np) in the first case, and the
\* pid and the tid are spent.  allocproc() then goes on to its own freeproc(np).
ForkNoMemory(c, s, np) ==
  /\ At(c, s, "fork")
  /\ "oom" \in load.ops \/ \A u \in ThreadsOf(np) : tstate[u] # "UNUSED"
  /\ pstate[np] = "UNUSED" /\ nextpid <= MaxId /\ nexttid <= MaxId
  /\ nextpid' = nextpid + 1 /\ nexttid' = nexttid + 1
  /\ freeproc(np)
  /\ Goto(c, K("fork_free", np))
  /\ UNCHANGED <<saved, load, panicked>>

\* allocproc(): freeproc(np) again, now without np->lock.
ForkFreeAgain(c, s) ==
  /\ At(c, s, "fork_free")
  /\ freeproc(run[c].a)
  /\ Goto(c, UserPos)
  /\ UNCHANGED <<saved, idVars, panicked>>

\* fork(): np->parent = p under wait_lock.
ForkParent(c, s) ==
  /\ At(c, s, "fork_parent")
  /\ parent' = [parent EXCEPT ![run[c].a[1]] = s[1]]
  /\ Goto(c, K("fork_run", run[c].a))
  /\ UNCHANGED <<pstate, pid, pkilled, threadVars, idVars, panicked>>

\* fork(): np and its thread become RUNNABLE under np->lock.
ForkRun(c, s) ==
  /\ At(c, s, "fork_run")
  /\ pstate' = [pstate EXCEPT ![run[c].a[1]] = "RUNNABLE"]
  /\ tstate' = [tstate EXCEPT ![run[c].a] = "RUNNABLE"]
  /\ Goto(c, UserPos)
  /\ UNCHANGED <<pid, parent, pkilled, tid, chan, tkilled, saved, idVars,
                 panicked>>

\* exit(): closing the files and the working directory (fileclose, begin_op,
\* iput) may put the thread to sleep.
ExitIo(c, s) ==
  /\ At(c, s, "exit")
  /\ Sleep(c, s, IoChan, K("exit_io", None))
  /\ UNCHANGED <<procVars, tid, tkilled, idVars>>

\* The disk or the log wakes a thread that sleeps in ExitIo.
IoWakeup(s) ==
  /\ tstate[s] = "SLEEPING" /\ chan[s] = IoChan /\ ~panicked
  /\ tstate' = [tstate EXCEPT ![s] = "RUNNABLE"]
  /\ UNCHANGED <<procVars, tid, chan, tkilled, saved, cpuVars, idVars, panicked>>

\* Mutants of exit: what it does to parent, to the threads and to its CPU.
ExitVariant(c, s, adopts, wakes, tst) ==
  /\ At(c, s, "exit") \/ At(c, s, "exit_io")
  /\ parent' = [q \in Proc |-> IF adopts /\ parent[q] = s[1] THEN initproc
                                                            ELSE parent[q]]
  /\ pstate' = [pstate EXCEPT ![s[1]] = "ZOMBIE"]
  /\ tstate' = [(IF wakes THEN AfterWakeup(tstate, s, ProcChan(parent[s[1]]))
                          ELSE tstate) EXCEPT ![s] = tst]
  /\ UNCHANGED <<pid, pkilled, tid, chan, tkilled, idVars, panicked>>

\* reparent(p) is not called.
ExitNoReparent(c, s) ==
  ExitVariant(c, s, FALSE, TRUE, "ZOMBIE") /\ Leave(c, s, Dead)

\* wakeup(p->parent) is not called.
ExitNoWakeup(c, s) ==
  ExitVariant(c, s, TRUE, FALSE, "ZOMBIE") /\ Leave(c, s, Dead)

\* Both locks are released before the last sched().
ExitEarlyRelease(c, s) ==
  /\ ExitVariant(c, s, TRUE, TRUE, "ZOMBIE")
  /\ Goto(c, K("kexit_sched", None)) /\ UNCHANGED saved

\* exit(), from acquire(&wait_lock) to the last sched(): children go to init,
\* parent and init are woken, every thread of the process becomes a ZOMBIE.
exit(c, s) ==
  LET p == s[1]
      kids == {q \in Proc : parent[q] = p}
      woken == IF kids = {} THEN tstate
               ELSE AfterWakeup(tstate, s, ProcChan(initproc))
      woken2 == IF parent[p] = None THEN woken
                ELSE AfterWakeup(woken, s, ProcChan(parent[p]))
  IN
  /\ At(c, s, "exit") \/ At(c, s, "exit_io")
  /\ parent' = [q \in Proc |-> IF q \in kids THEN initproc ELSE parent[q]]
  /\ pstate' = [pstate EXCEPT ![p] = "ZOMBIE"]
  /\ tstate' = [u \in Slot |-> IF u \in ThreadsOf(p) /\ woken2[u] # "UNUSED"
                                 THEN "ZOMBIE" ELSE woken2[u]]
  /\ Leave(c, s, Dead)
  /\ UNCHANGED <<pid, pkilled, tid, chan, tkilled, idVars, panicked>>

Kids(p) == {q \in Proc : parent[q] = p}
ZombieKids(p) == {q \in Kids(p) : pstate[q] = "ZOMBIE"}

\* wait(): the first exited child is freed.
WaitReap(c, s) ==
  /\ At(c, s, "wait") /\ ZombieKids(s[1]) # {}
  /\ freeproc(Min(ZombieKids(s[1])))
  /\ Goto(c, UserPos)
  /\ UNCHANGED <<saved, idVars, panicked>>

\* wait(): no children, or killed: return -1.
WaitNone(c, s) ==
  /\ At(c, s, "wait") /\ ZombieKids(s[1]) = {}
  /\ Kids(s[1]) = {} \/ pkilled[s[1]]
  /\ Goto(c, UserPos)
  /\ UNCHANGED <<procVars, threadVars, idVars, panicked>>

\* wait(): the exit status cannot be copied to the address given: return -1,
\* and the child stays.  init passes address 0.
WaitBadAddr(c, s) ==
  /\ At(c, s, "wait") /\ ZombieKids(s[1]) # {} /\ s[1] # initproc
  /\ Goto(c, UserPos)
  /\ UNCHANGED <<procVars, threadVars, idVars, panicked>>

\* wait(): sleep(p, &wait_lock), then scan again.
WaitSleep(c, s) ==
  /\ At(c, s, "wait") /\ ZombieKids(s[1]) = {}
  /\ Kids(s[1]) # {} /\ ~pkilled[s[1]]
  /\ Sleep(c, s, ProcChan(s[1]), K("wait", None))
  /\ UNCHANGED <<procVars, tid, tkilled, idVars>>

-----------------------------------------------------------------------------
(* kthread_create, kthread_exit, kthread_join, exec *)

\* kthread_create(), up to release(&p->lock).
kthread_create(c, s) ==
  /\ At(c, s, "create")
  /\ \E nt \in ThreadsOf(s[1]) :
       /\ IsFirstUnused(s[1], nt)
       /\ allocthread(nt, "RUNNABLE")
       /\ Goto(c, K("create_ret", <<nt, nexttid>>))
  /\ UNCHANGED <<procVars, nextpid, load, panicked>>

\* kthread_create(): return nt->id, read after the release.
CreateReturn(c, s) ==
  /\ At(c, s, "create_ret")
  /\ Goto(c, UserPos)
  /\ UNCHANGED <<procVars, threadVars, idVars, panicked>>

\* kthread_create(): no UNUSED slot (or the bound on ids is reached).
CreateFull(c, s) ==
  /\ At(c, s, "create")
  /\ (\A u \in ThreadsOf(s[1]) : tstate[u] # "UNUSED") \/ nexttid > MaxId
  /\ Goto(c, UserPos)
  /\ UNCHANGED <<procVars, threadVars, idVars, panicked>>

\* allocthread() fails in kthread_create(): freeproc() of the caller's process.
CreateNoMemory(c, s) ==
  /\ At(c, s, "create") /\ "oom" \in load.ops /\ nexttid <= MaxId
  /\ \E nt \in ThreadsOf(s[1]) : tstate[nt] = "UNUSED"
  /\ nexttid' = nexttid + 1
  /\ freeproc(s[1])
  /\ Goto(c, UserPos)
  /\ UNCHANGED <<saved, nextpid, load, panicked>>

\* Mutant of kthread_exit: siblings that are ZOMBIE count as running.
KexitCountsZombies(c, s) ==
  LET others == {u \in ThreadsOf(s[1]) \ {s} : tstate[u] # "UNUSED"} IN
  /\ At(c, s, "kexit")
  /\ tstate' = [tstate EXCEPT ![s] = "ZOMBIE"]
  /\ Goto(c, K(IF others = {} THEN "exit" ELSE "kexit_wakeup", None))
  /\ panicked' = NullProc(s)
  /\ UNCHANGED <<procVars, tid, chan, tkilled, saved, idVars>>

\* kthread_exit(): ZOMBIE under p->lock; the last thread goes on to exit().
kthread_exit(c, s) ==
  LET others == {u \in ThreadsOf(s[1]) \ {s} :
                   tstate[u] \notin {"UNUSED", "ZOMBIE"}} IN
  /\ At(c, s, "kexit")
  /\ tstate' = [tstate EXCEPT ![s] = "ZOMBIE"]
  /\ Goto(c, K(IF others = {} THEN "exit" ELSE "kexit_wakeup", None))
  /\ panicked' = NullProc(s)
  /\ UNCHANGED <<procVars, tid, chan, tkilled, saved, idVars>>

\* Mutant of KexitWakeup: the process is woken in place of the thread.
KexitWakeupProc(c, s) ==
  /\ At(c, s, "kexit_wakeup")
  /\ tstate' = AfterWakeup(tstate, s, ProcChan(s[1]))
  /\ Goto(c, K("kexit_sched", None))
  /\ UNCHANGED <<procVars, tid, chan, tkilled, saved, idVars, panicked>>

\* kthread_exit(): wakeup(myt) under wait_lock.
KexitWakeup(c, s) ==
  /\ At(c, s, "kexit_wakeup")
  /\ tstate' = AfterWakeup(tstate, s, SlotChan(s))
  /\ Goto(c, K("kexit_sched", None))
  /\ UNCHANGED <<procVars, tid, chan, tkilled, saved, idVars, panicked>>

\* kthread_exit(): acquire(&p->lock); sched(), which panics if RUNNING.
KexitSched(c, s) ==
  /\ At(c, s, "kexit_sched")
  /\ panicked' = (tstate[s] = "RUNNING")
  /\ Leave(c, s, Dead)
  /\ UNCHANGED <<procVars, tstate, tid, chan, tkilled, idVars>>

\* The threads of s's process with the id that kthread_join was given.
Joined(c, s) == {u \in ThreadsOf(s[1]) : tid[u] = run[c].a}

\* kthread_join(): the thread has exited and is freed.
JoinFree(c, s) ==
  /\ At(c, s, "join") /\ run[c].a # tid[s]
  /\ \E u \in Joined(c, s) : tstate[u] = "ZOMBIE" /\ FreeThreads({u})
  /\ Goto(c, UserPos)
  /\ panicked' = NullProc(s)
  /\ UNCHANGED <<procVars, saved, idVars>>

\* kthread_join(): the caller itself, or an exited thread whose status cannot be
\* copied out, or no such thread, or the caller is killed: return -1.
JoinFail(c, s) ==
  /\ At(c, s, "join")
  /\ \/ run[c].a = tid[s]
     \/ \E u \in Joined(c, s) : tstate[u] = "ZOMBIE"
     \/ Joined(c, s) = {} \/ tkilled[s]
  /\ Goto(c, UserPos)
  /\ panicked' = NullProc(s)
  /\ UNCHANGED <<procVars, threadVars, idVars>>

\* kthread_join(): sleep(found_t, &wait_lock), then scan again.
JoinSleep(c, s) ==
  /\ At(c, s, "join") /\ run[c].a # tid[s] /\ ~tkilled[s]
  /\ \A u \in Joined(c, s) : tstate[u] # "ZOMBIE"
  /\ \E u \in Joined(c, s) : Sleep(c, s, SlotChan(u), run[c])
  /\ UNCHANGED <<procVars, tid, tkilled, idVars>>

\* exec(): mark the sibling threads killed and wake those that sleep.
ExecKill(c, s) ==
  LET others == {u \in ThreadsOf(s[1]) \ {s} : tstate[u] # "UNUSED"} IN
  /\ At(c, s, "exec")
  /\ tkilled' = [u \in Slot |-> u \in others \/ tkilled[u]]
  /\ tstate' = [u \in Slot |-> IF u \in others /\ tstate[u] = "SLEEPING"
                                 THEN "RUNNABLE" ELSE tstate[u]]
  /\ Goto(c, K("exec_spin", None))
  /\ panicked' = NullProc(s)
  /\ UNCHANGED <<procVars, tid, chan, saved, idVars>>

\* exec(): the loop ends when every sibling is UNUSED or ZOMBIE; the new image
\* is then installed.
ExecDone(c, s) ==
  /\ At(c, s, "exec_spin")
  /\ \A u \in ThreadsOf(s[1]) \ {s} : tstate[u] \in {"UNUSED", "ZOMBIE"}
  /\ Goto(c, UserPos)
  /\ UNCHANGED <<procVars, threadVars, idVars, panicked>>

-----------------------------------------------------------------------------
\* A step of the kernel code that s is executing on c.
KernelStep(c, s) ==
  \/ TrapKilled(c, s)
  \/ \E np \in 1..load.procs :
       fork(c, s, np) \/ ForkUndone(c, s, np) \/ ForkNoMemory(c, s, np)
  \/ ForkFull(c, s) \/ ForkFreeAgain(c, s) \/ ForkParent(c, s) \/ ForkRun(c, s)
  \/ ExitIo(c, s) \/ exit(c, s)
  \/ WaitReap(c, s) \/ WaitBadAddr(c, s) \/ WaitNone(c, s) \/ WaitSleep(c, s)
  \/ kthread_create(c, s) \/ CreateNoMemory(c, s)
  \/ CreateFull(c, s) \/ CreateReturn(c, s)
  \/ kthread_exit(c, s) \/ KexitWakeup(c, s) \/ KexitSched(c, s)
  \/ JoinFree(c, s) \/ JoinFail(c, s) \/ JoinSleep(c, s)
  \/ ExecKill(c, s) \/ ExecDone(c, s)

\* What a user program, or a signal sent to it, starts.
UserStep(c, s) ==
  \/ sigKillHandler(c, s) \/ TrapFault(c, s)
  \/ \E op \in load.ops \ {"join", "kill", "oom"} : Syscall(c, s, op, None)
  \/ \E id \in 1..MaxId : Syscall(c, s, "join", id)

Next ==
  \/ \E c \in CPU, s \in Slot : Schedule(c, s)
  \/ \E c \in CPU, s \in Slot : yield(c, s)
  \/ \E s \in Slot : IoWakeup(s)
  \/ \E c \in CPU, s \in Slot : KernelStep(c, s)
  \/ \E c \in CPU, s \in Slot : UserStep(c, s)

Spec == Init /\ [][Next]_vars

-----------------------------------------------------------------------------
(* Properties *)

\* A thread slot is not freed while a CPU still executes on it.
NoFreedSlotRuns ==
  \A c \in CPU : cur[c] # None => tstate[cur[c]] # "UNUSED"

\* The programs have one thread each.
SingleThreaded == load.threads = 1

\* The same for programs of one thread, where exit() keeps p->lock until its
\* CPU has left the stack that wait() gives back; and so neither the panics
\* of sched() and exit() nor a null t->tproc is reached.
NoFreedProcRuns == SingleThreaded => NoFreedSlotRuns /\ ~panicked

\* exit() and wait() under wait_lock: no parent sleeps in wait() while it has
\* a child that has exited, also when the child came to it by reparent().
WaitSeesExit ==
  \A s \in Slot :
    tstate[s] = "SLEEPING" /\ chan[s] = ProcChan(s[1]) => ZombieKids(s[1]) = {}

\* reparent(): once fork() has set it, the parent of a process is a process
\* that has not exited, so some process can always reap it, in programs of
\* one thread.
ParentIsAlive ==
  SingleThreaded => \A p \in Proc :
    parent[p] # None => pstate[parent[p]] \notin {"UNUSED", "ZOMBIE"}

\* freeproc(): a process that is running is not freed under it.
LiveProcNotFreed ==
  [][\A p \in Proc : pstate[p] = "RUNNABLE" => pstate'[p] # "UNUSED"]_vars

\* An exited process stays a ZOMBIE until wait() frees it, and its threads
\* never run again.
ExitIsFinal ==
  [][\A p \in Proc : pstate[p] = "ZOMBIE" =>
       /\ pstate'[p] \in {"ZOMBIE", "UNUSED"}
       /\ \A s \in ThreadsOf(p) : tstate'[s] \in {"ZOMBIE", "UNUSED"}]_vars

\* The programs end their threads with kthread_exit() only.
OnlyKthreadExit == load.ops \cap {"exit", "kill", "exec", "oom"} = {}

\* kthread_exit(): when the last thread of a process has become a ZOMBIE, one
\* of them is in exit() or the process has exited, in programs that end their
\* threads with kthread_exit() only.
LastThreadExits ==
  OnlyKthreadExit => \A p \in Proc :
    pstate[p] \notin {"UNUSED", "USED"} /\ (\A s \in ThreadsOf(p) :
                                  tstate[s] \in {"UNUSED", "ZOMBIE"})
      => \/ pstate[p] = "ZOMBIE"
         \/ \E c \in CPU : \E s \in ThreadsOf(p) :
              At(c, s, "exit") \/ At(c, s, "exit_io")

\* kthread_join(): a joiner does not sleep on a thread that has exited, unless
\* that thread's wakeup(myt) is still to come, in the same programs.
JoinSeesExit ==
  OnlyKthreadExit => \A s, u \in Slot :
    tstate[s] = "SLEEPING" /\ chan[s] = SlotChan(u) /\ tstate[u] # "RUNNABLE"
      => \/ tstate[u] \in {"RUNNING", "SLEEPING"}
         \/ \E c \in CPU : At(c, u, "kexit_wakeup")

=============================================================================
