----------------------------- MODULE AtomicDisk -----------------------------
(***************************************************************************)
(* What the logging layer promises to the file system (the comment at the  *)
(* head of kernel/log.c): writes of the operations between begin_op() and  *)
(* end_op() reach the disk all at once, when no operation is in progress,  *)
(* and a crash goes back to what the disk last held.                       *)
(***************************************************************************)
EXTENDS Naturals

CONSTANTS Block, Data, Zero

VARIABLES
  mem,      \* the contents of the blocks that system calls see
  disk,     \* what a crash would leave
  active    \* number of operations in progress

DiskInit ==
  mem = [b \in Block |-> Zero] /\ disk = [b \in Block |-> Zero] /\ active = 0

Begin == active' = active + 1 /\ UNCHANGED <<mem, disk>>

Write(b, v) ==
  active > 0 /\ mem' = [mem EXCEPT ![b] = v] /\ UNCHANGED <<disk, active>>

End == active > 0 /\ active' = active - 1 /\ UNCHANGED <<mem, disk>>

Commit == active = 0 /\ disk' = mem /\ UNCHANGED <<mem, active>>

Crash == mem' = disk /\ active' = 0 /\ UNCHANGED disk

DiskNext ==
  \/ Begin \/ End \/ Commit \/ Crash
  \/ \E b \in Block, v \in Data : Write(b, v)

DiskSpec == DiskInit /\ [][DiskNext]_<<mem, disk, active>>
=============================================================================
