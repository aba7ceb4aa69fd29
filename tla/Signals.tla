------------------------------ MODULE Signals -------------------------------
(***************************************************************************)
(* Signals of one process (kernel/proc.c, trap.c, exec.c): kill, sigaction,*)
(* sigprocmask, sigret, handle_pendding_sinals and userhandler on the way  *)
(* back to user space, the reset in exec, and the reuse of the process's   *)
(* slot by a later fork.  One action is one critical section of p->lock;   *)
(* the code releases the lock in the middle of handling a signal, and      *)
(* those places are positions of their own.  A trapframe is reduced to     *)
(* where it resumes, the stack pointer and register a0.                    *)
(***************************************************************************)
EXTENDS Integers, FiniteSets, FiniteSetsExt

CONSTANTS
  Thread,     \* the thread slots of the process
  First,      \* the slot a new process starts in
  Sig,        \* the signal numbers in use
  Loads       \* workloads: the signals sent, the masks and handlers that
              \* programs install, and their other operations

SIG_DFL == 0
SIG_IGN == 1
SIGKILL == 9
SIGSTOP == 17
SIGCONT == 19
UserFn == 64            \* the address of a handler function
Handlers == {SIG_DFL, SIG_IGN, SIGKILL, SIGSTOP, SIGCONT, UserFn}
AllOps == {"sigprocmask", "exec", "block", "fork", "create", "exit"}

ASSUME SignalsAssumption ==
  /\ First \in Thread
  /\ Sig \subseteq 0..31
  /\ Loads \subseteq [sigs : SUBSET Sig, masks : SUBSET SUBSET Sig,
                     actions : SUBSET Handlers, ops : SUBSET AllOps]

VARIABLES
  pending, mask, handler, hmask,  \* pendding_signals, signal_mask, ...
  frozen, flag, backup, killed,   \* signal_handling_flag, signal_mask_backup
  live,                           \* the process has not exited
  pc, sig,                        \* where each thread is, and with what signal
  tf, tfb,                        \* trapframe, user_trap_frame_backup
  umask,                          \* history: the mask the program chose
  load                            \* the workload of this behaviour

procVars == <<mask, handler, hmask, frozen, flag, backup, killed, live>>
threadVars == <<pc, sig, tf, tfb>>
vars == <<pending, procVars, threadVars, umask, load>>

\* Stack addresses in units of the two things pushed: a trapframe, and the
\* code that calls sigret.  There is room for two handlers, one in the other.
MainSp == 4
Frame(e, s, a) == [epc |-> e, sp |-> s, a0 |-> a]
MainFrame == Frame("main", MainSp, "user")
Frames == [epc : {"main", "handler"}, sp : 0..MainSp,
           a0 : {"user", "signum", "zero"}]
PcValues == {"none", "user", "ret", "handle", "frozen", "cont", "cont_clear",
             "stop", "cont_sig", "clear", "deliver", "blocked"}

\* Every variable has its type.
TypeOK ==
  /\ pending \subseteq Sig /\ mask \subseteq Sig /\ backup \subseteq Sig
  /\ handler \in [Sig -> Handlers] /\ hmask \in [Sig -> SUBSET Sig]
  /\ frozen \in BOOLEAN /\ flag \in BOOLEAN /\ killed \in BOOLEAN
  /\ live \in BOOLEAN
  /\ pc \in [Thread -> PcValues] /\ sig \in [Thread -> Sig \cup {-1}]
  /\ tf \in [Thread -> Frames] /\ tfb \in [Thread -> Frames]
  /\ umask \subseteq Sig
  /\ load \in Loads

\* A first process in the slot, in user space.
Init ==
  /\ pending = {} /\ mask = {} /\ backup = {}
  /\ handler = [i \in Sig |-> SIG_DFL] /\ hmask = [i \in Sig |-> {}]
  /\ frozen = FALSE /\ flag = FALSE /\ killed = FALSE /\ live = TRUE
  /\ pc = [t \in Thread |-> IF t = First THEN "user" ELSE "none"]
  /\ sig = [t \in Thread |-> -1]
  /\ tf = [t \in Thread |-> MainFrame] /\ tfb = [t \in Thread |-> MainFrame]
  /\ umask = {}
  /\ load \in Loads

-----------------------------------------------------------------------------
(* Handling signals on the way to user space *)

Goto(t, l) == pc' = [pc EXCEPT ![t] = l] /\ UNCHANGED sig
GotoWith(t, l, i) == pc' = [pc EXCEPT ![t] = l] /\ sig' = [sig EXCEPT ![t] = i]
ToUser(t) == GotoWith(t, "user", -1)


\* The signals in pend that the for loop acts on.
Eligible(pend) ==
  {i \in pend : ~flag /\ (i \in {SIGKILL, SIGSTOP} \/ i \notin mask)}

\* The for loop of handle_pendding_sinals(), over the pending signals pend,
\* from the end of the while loop to the release of p->lock.
ScanSignals(t, pend) ==
  LET i == Min(Eligible(pend)) IN
  \/ /\ Eligible(pend) = {}
     /\ pending' = pend /\ ToUser(t) /\ UNCHANGED killed
  \/ /\ Eligible(pend) # {}
     /\ i = SIGKILL \/ (i # SIGSTOP /\ handler[i] \in {SIGKILL, SIG_DFL})
     /\ killed' = TRUE
     /\ pending' = pend \ {i} /\ ToUser(t)
  \/ /\ Eligible(pend) # {}
     /\ i = SIGSTOP \/ (i # SIGKILL /\ handler[i] = SIGSTOP)
     /\ pending' = pend /\ GotoWith(t, "stop", i) /\ UNCHANGED killed
  \/ /\ Eligible(pend) # {}
     /\ i \notin {SIGKILL, SIGSTOP} /\ handler[i] = SIG_IGN
     /\ pending' = pend \ {i} /\ ToUser(t) /\ UNCHANGED killed
  \/ /\ Eligible(pend) # {}
     /\ i \notin {SIGKILL, SIGSTOP} /\ handler[i] = SIGCONT
     /\ pending' = pend /\ GotoWith(t, "cont_sig", i) /\ UNCHANGED killed
  \/ /\ Eligible(pend) # {}
     /\ i \notin {SIGKILL, SIGSTOP} /\ handler[i] = UserFn
     /\ pending' = pend /\ GotoWith(t, "deliver", i) /\ UNCHANGED killed

\* Mutant of FrozenLoop: a blocked SIGCONT does not end it.
FrozenLoopMasked(t, pend) ==
  \/ /\ frozen /\ SIGCONT \notin pend \ mask
     /\ pending' = pend /\ Goto(t, "frozen") /\ UNCHANGED killed
  \/ /\ frozen /\ SIGCONT \in pend \ mask
     /\ pending' = pend /\ Goto(t, "cont") /\ UNCHANGED killed
  \/ /\ ~frozen
     /\ ScanSignals(t, pend)

\* The test of the while loop, with p->lock held.
FrozenLoop(t, pend) ==
  \/ /\ frozen /\ SIGCONT \notin pend
     /\ pending' = pend /\ Goto(t, "frozen") /\ UNCHANGED killed
  \/ /\ frozen /\ SIGCONT \in pend
     /\ pending' = pend /\ Goto(t, "cont") /\ UNCHANGED killed
  \/ /\ ~frozen
     /\ ScanSignals(t, pend)

\* usertrapret(): the flag is tested without p->lock.
usertrapret(t) ==
  /\ pc[t] = "ret" /\ live
  /\ Goto(t, IF flag THEN "user" ELSE "handle")
  /\ UNCHANGED <<pending, procVars, tf, tfb, umask, load>>

\* handle_pendding_sinals(): the trapframe is saved and the loops start.
handle_pendding_sinals(t) ==
  /\ pc[t] = "handle"
  /\ tfb' = [tfb EXCEPT ![t] = tf[t]]
  /\ FrozenLoop(t, pending)
  /\ UNCHANGED <<mask, handler, hmask, frozen, flag, backup, live, tf,
                 umask, load>>

\* The while loop again, after yield().
FrozenAgain(t) ==
  /\ pc[t] = "frozen"
  /\ FrozenLoop(t, pending)
  /\ UNCHANGED <<mask, handler, hmask, frozen, flag, backup, live, tf, tfb,
                 umask, load>>

\* sigContHandler() and sigStopHandler(), called with p->lock released.
SetFrozen(t, from, value, to) ==
  /\ pc[t] = from
  /\ frozen' = value
  /\ Goto(t, to)
  /\ UNCHANGED <<pending, mask, handler, hmask, flag, backup, killed, live, tf,
                 tfb, umask, load>>

\* sigContHandler() of the while loop, or of a signal with that action.
sigContHandler(t) ==
  \/ SetFrozen(t, "cont", FALSE, "cont_clear")
  \/ SetFrozen(t, "cont_sig", FALSE, "clear")

sigStopHandler(t) == SetFrozen(t, "stop", TRUE, "clear")

\* After sigContHandler() in the while loop: discard SIGCONT and loop.
ContClear(t) ==
  /\ pc[t] = "cont_clear"
  /\ FrozenLoop(t, pending \ {SIGCONT})
  /\ UNCHANGED <<mask, handler, hmask, frozen, flag, backup, live, tf, tfb,
                 umask, load>>

\* After a stop or continue action of the for loop: clear the signal, return.
ClearSignal(t) ==
  /\ pc[t] = "clear"
  /\ pending' = pending \ {sig[t]}
  /\ ToUser(t)
  /\ UNCHANGED <<procVars, tf, tfb, umask, load>>

\* userhandler(i): switch masks, set the flag, copy the trapframe and the
\* sigret code to the user stack, and aim the trapframe at the handler.
userhandler(t) ==
  LET sp == tf[t].sp - 2 IN
  /\ pc[t] = "deliver" /\ sp >= 0
  /\ backup' = mask
  /\ mask' = hmask[sig[t]]
  /\ flag' = TRUE
  /\ tf' = [tf EXCEPT ![t] = Frame("handler", sp, "signum")]
  /\ pending' = pending \ {sig[t]}
  /\ ToUser(t)
  /\ UNCHANGED <<handler, hmask, frozen, killed, live, tfb, umask, load>>

-----------------------------------------------------------------------------
(* System calls and traps *)

InHandler(t) == tf[t].epc = "handler"

\* usertrap(), entered from user space in a process that is not killed; the
\* registers are the program's.
Trap(t) ==
  /\ pc[t] = "user" /\ live /\ ~killed
  /\ tf' = [tf EXCEPT ![t].a0 = "user"]

\* usertrap() with p->killed set, or a call of exit(): the process exits.
exit(t) ==
  /\ pc[t] \in {"user", "ret"} /\ live
  /\ killed \/ "exit" \in load.ops
  /\ live' = FALSE
  /\ pc' = [u \in Thread |-> "none"]
  /\ sig' = [u \in Thread |-> -1]
  /\ UNCHANGED <<pending, mask, handler, hmask, frozen, flag, backup, killed,
                 tf, tfb, umask, load>>

\* A timer interrupt, or a system call that does not touch signals.
Interrupt(t) ==
  /\ Trap(t) /\ Goto(t, "ret")
  /\ UNCHANGED <<pending, procVars, tfb, umask, load>>

\* A system call that sleeps (pipe, wait, ...), and its return.
Block(t) ==
  /\ Trap(t) /\ "block" \in load.ops /\ Goto(t, "blocked")
  /\ UNCHANGED <<pending, procVars, tfb, umask, load>>

Unblock(t) ==
  /\ pc[t] = "blocked" /\ Goto(t, "ret")
  /\ UNCHANGED <<pending, procVars, tf, tfb, umask, load>>

sigprocmask(t, m) ==
  /\ Trap(t) /\ "sigprocmask" \in load.ops /\ Goto(t, "ret")
  /\ mask' = m
  /\ umask' = IF InHandler(t) THEN umask ELSE m
  /\ UNCHANGED <<pending, handler, hmask, frozen, flag, backup, killed, live,
                 tfb, load>>

\* sigaction(): -1, and no change, for SIGKILL and SIGSTOP.
sigaction(t, i, h, m) ==
  /\ Trap(t) /\ i \notin {SIGKILL, SIGSTOP} /\ Goto(t, "ret")
  /\ handler' = [handler EXCEPT ![i] = h]
  /\ hmask' = [hmask EXCEPT ![i] = m]
  /\ UNCHANGED <<pending, mask, frozen, flag, backup, killed, live, tfb,
                 umask, load>>

\* Mutant of sigret: the mask is not restored.
SigretKeepsMask(t) ==
  /\ pc[t] = "user" /\ live /\ ~killed /\ InHandler(t)
  /\ tf' = [tf EXCEPT ![t] = [tfb[t] EXCEPT !.a0 = "zero"]]
  /\ flag' = FALSE
  /\ Goto(t, "ret")
  /\ UNCHANGED <<pending, mask, handler, hmask, frozen, backup, killed, live,
                 tfb, umask, load>>

\* The handler returns to the code on the stack: sigret(), after which
\* syscall() stores sys_sigret()'s return value 0 in a0.
sigret(t) ==
  /\ pc[t] = "user" /\ live /\ ~killed /\ InHandler(t)
  /\ tf' = [tf EXCEPT ![t] = [tfb[t] EXCEPT !.a0 = "zero"]]
  /\ mask' = backup
  /\ flag' = FALSE
  /\ Goto(t, "ret")
  /\ UNCHANGED <<pending, handler, hmask, frozen, backup, killed, live, tfb,
                 umask, load>>

\* exec(), with no sibling thread left.  The condition of the loop over the
\* handlers compares addresses of table entries, and is always true.
exec(t) ==
  /\ pc[t] = "user" /\ live /\ ~killed /\ "exec" \in load.ops
  /\ \A u \in Thread \ {t} : pc[u] = "none"
  /\ handler' = [i \in Sig |-> SIG_DFL]
  /\ hmask' = [i \in Sig |-> {}]
  /\ tf' = [tf EXCEPT ![t] = MainFrame]
  /\ Goto(t, "ret")
  /\ UNCHANGED <<pending, mask, frozen, flag, backup, killed, live, tfb,
                 umask, load>>

\* kthread_create() by thread t: slot u starts on its own stack.
kthread_create(t, u) ==
  /\ pc[t] = "user" /\ live /\ ~killed /\ "create" \in load.ops /\ pc[u] = "none"
  /\ tf' = [tf EXCEPT ![t].a0 = "user", ![u] = MainFrame]
  /\ pc' = [pc EXCEPT ![t] = "ret", ![u] = "ret"]
  /\ UNCHANGED <<pending, procVars, sig, tfb, umask, load>>

\* kill(pid, i) by another process.  An exited process keeps its pid until
\* wait() frees it, so its slot is still found.
kill(i) ==
  /\ pending' = pending \cup {i}
  /\ UNCHANGED <<procVars, threadVars, umask, load>>

\* wait() frees the slot and a fork() takes it: freeproc(), allocproc() and
\* fork() give it the parent's mask and handlers (the defaults, here).
fork ==
  /\ ~live /\ "fork" \in load.ops
  /\ mask' = {} /\ umask' = {}
  /\ handler' = [i \in Sig |-> SIG_DFL] /\ hmask' = [i \in Sig |-> {}]
  /\ frozen' = FALSE /\ flag' = FALSE /\ killed' = FALSE /\ live' = TRUE
  /\ pc' = [pc EXCEPT ![First] = "ret"]
  /\ tf' = [tf EXCEPT ![First] = MainFrame]
  /\ UNCHANGED <<pending, backup, sig, tfb, load>>

-----------------------------------------------------------------------------
\* Kernel code that a thread has entered.
KernelStep(t) ==
  \/ usertrapret(t) \/ handle_pendding_sinals(t) \/ FrozenAgain(t)
  \/ sigContHandler(t) \/ sigStopHandler(t) \/ ContClear(t) \/ ClearSignal(t)
  \/ userhandler(t)

\* What the program does.
UserStep(t) ==
  \/ Block(t) \/ Unblock(t)
  \/ \E m \in load.masks : sigprocmask(t, m)
  \/ \E i \in load.sigs, h \in load.actions, m \in load.masks :
       sigaction(t, i, h, m)
  \/ exec(t)
  \/ \E u \in Thread : kthread_create(t, u)

Next ==
  \/ \E t \in Thread : KernelStep(t)
  \/ \E t \in Thread : exit(t) \/ Interrupt(t) \/ sigret(t)
  \/ \E t \in Thread : UserStep(t)
  \/ \E i \in load.sigs : kill(i)
  \/ fork

Spec == Init /\ [][Next]_vars

(* Fairness: threads are scheduled and timer interrupts keep coming, so     *)
(* kernel code goes on, user code is interrupted, and a killed process that *)
(* traps exits.  A handler that runs comes to its end.                      *)
FairSpec ==
  /\ Spec
  /\ \A t \in Thread :
       /\ WF_vars(KernelStep(t))
       /\ WF_vars(Interrupt(t))
       /\ WF_vars(killed /\ exit(t))
       /\ SF_vars(sigret(t))

-----------------------------------------------------------------------------
(* Properties *)

\* The process has one thread.
OneThread == "create" \notin load.ops

\* userhandler() and sigret() set and restore the mask: outside a handler the
\* mask is the one the program chose last outside a handler, in a process with
\* one thread.
MaskRestored == OneThread /\ live /\ ~flag => mask = umask

\* signal_handling_flag: user-level handlers are not nested, neither in one
\* thread nor in two, and the frame to return to is that of the main program.
OneHandlerInProcess ==
  live =>
    /\ \A t, u \in Thread :
         /\ pc[t] # "none" /\ InHandler(t) /\ pc[u] # "none" /\ InHandler(u)
           => t = u
         /\ pc[t] # "none" /\ InHandler(t)
           => flag /\ tfb[t].epc = "main"


\* SIGKILL takes effect on every process.
KillAlwaysTakesEffect == (live /\ SIGKILL \in pending) ~> ~live


\* The while loop of handle_pendding_sinals() reacts to a pending SIGCONT, in
\* whatever order it, SIGSTOP and other signals came.
ContUnfreezes == (live /\ frozen /\ SIGCONT \in pending) ~> (~live \/ ~frozen)

\* fork(): a new process does not start with pending signals.
NewProcNoPending == [][~live /\ live' => pending' = {}]_vars

\* exec() keeps the signals that are ignored: where sigaction() is only used
\* to ignore signals, an ignored signal stays ignored.
ExecKeepsIgn ==
  [][live /\ live' /\ load.actions = {SIG_IGN} =>
       \A i \in Sig : handler[i] = SIG_IGN => handler'[i] = SIG_IGN]_vars

=============================================================================
