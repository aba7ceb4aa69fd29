------------------------------ MODULE MCSignals ------------------------------
(* Instances of Signals for TLC.  Signals 2, 3 and 20 stand for those with   *)
(* no kernel meaning.                                                      *)
EXTENDS Signals

Load(sigs, masks, actions, ops) ==
  [sigs |-> sigs, masks |-> masks, actions |-> actions, ops |-> ops]

\* Handlers and masks in a slot that is reused, with sleeping system calls;
\* SIGKILL against masks and handlers; stop and continue; two threads and exec.
LoadsAll ==
  { Load({2, 3, SIGKILL}, {{}, {2}, {2, 3}}, {SIG_DFL, SIG_IGN, UserFn},
         {"sigprocmask", "exit", "fork", "block"}),
    Load({SIGKILL, 20}, {{}, {SIGKILL, 20}}, {SIG_IGN, UserFn},
         {"sigprocmask"}),
    Load({2, SIGSTOP, SIGCONT}, {{}, {2, SIGCONT}}, {SIGCONT, UserFn},
         {"sigprocmask", "exit"}),
    Load({2}, {{}}, {SIGSTOP, SIGCONT, UserFn}, {"exec", "create", "exit"}) }

\* Workloads in which a property fails.
LoadTwo == {Load({2}, {{}, {2}}, {UserFn}, {"create"})}
LoadStopKill == {Load({SIGSTOP, SIGKILL}, {{}}, {}, {})}
LoadBlockKill == {Load({SIGKILL}, {{}}, {}, {"block"})}
LoadFork == {Load({2}, {{}}, {}, {"fork", "exit"})}
LoadExecIgn == {Load({2}, {{}}, {SIG_IGN}, {"exec"})}
=============================================================================
