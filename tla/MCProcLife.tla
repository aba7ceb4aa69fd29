----------------------------- MODULE MCProcLife -----------------------------
(* Instances of ProcLife for TLC; the .cfg files choose the table sizes and  *)
(* the workloads.  CPUs are interchangeable: no definition orders them.      *)
EXTENDS ProcLife, TLC

CpuSymmetry == Permutations(CPU)

\* Workloads on all harts, and on one, for n processes of m threads.
AllHarts(ops, n, m) ==
  {[ops |-> ops, harts |-> CPU, procs |-> n, threads |-> m]}
OneHart(ops, n, m) ==
  {[ops |-> ops, harts |-> {c}, procs |-> n, threads |-> m] : c \in CPU}

LoadFork == AllHarts({"fork", "exit", "wait"}, 3, 1)
LoadKill == AllHarts({"fork", "exit", "wait", "kill"}, 2, 1)
LoadThreads == AllHarts({"fork", "create", "kexit", "join"}, 2, 2)
LoadMixed == OneHart({"fork", "exit", "wait", "create", "exec", "oom"}, 2, 2)
LoadAll == LoadFork \cup LoadKill \cup LoadThreads \cup LoadMixed

\* Workloads in which a property fails.
LoadExit == AllHarts({"fork", "create", "exit", "wait"}, 2, 2)
LoadCreateNoMemory == AllHarts({"fork", "create", "oom"}, 2, 2)
=============================================================================
