-------------------------------- MODULE Log ---------------------------------
(***************************************************************************)
(* The logging layer (kernel/log.c) over the buffer cache (kernel/bio.c)   *)
(* and the disk: group commit, log absorption, pinned buffers, and         *)
(* recovery after a crash at any point, recovery included.  A block that   *)
(* is written to the disk is written whole.                                *)
(***************************************************************************)
EXTENDS Integers, FiniteSets, SequencesExt

CONSTANTS
  Op,           \* threads that execute file system calls
  Block,        \* disk blocks outside the log
  Data,         \* contents of a block
  Zero,         \* the contents mkfs wrote
  None,         \* the block is not in the buffer cache
  MAXOPBLOCKS, LOGSIZE,
  NLOG,         \* sb->nlog: blocks of the on-disk log, its header included
  OpBlocks,     \* how many different blocks a system call writes
  ExitKills     \* TRUE: exit() of a sibling may stop a thread in its call

ASSUME LogAssumption ==
  /\ Zero \in Data /\ None \notin Data
  /\ {MAXOPBLOCKS, LOGSIZE, NLOG, OpBlocks} \subseteq Nat
  /\ ExitKills \in BOOLEAN

VARIABLES
  home,         \* disk: the blocks at their own place
  logblk,       \* disk: the data blocks of the log
  hdr,          \* disk: the block numbers in the log header
  cache,        \* valid buffers
  pinned,       \* buffers with a reference of the log
  lh,           \* log.lh: block numbers
  outstanding, committing,
  pc,           \* per thread: idle, begin, asleep, in, commit or dead
  wrote,        \* blocks the system call has written so far
  cpc, tail,    \* position in commit() or recover_from_log()
  panicked

diskVars == <<home, logblk, hdr>>
memVars == <<cache, pinned, lh, outstanding, committing>>
vars == <<diskVars, memVars, pc, wrote, cpc, tail, panicked>>

CommitPcs == {"none", "write_log", "write_head", "install", "clear", "done"}
RecoverPcs == {"r_head", "r_install", "r_clear"}

\* Every variable has its type, and the log never holds a block twice.
TypeOK ==
  /\ home \in [Block -> Data]
  /\ logblk \in [1..(NLOG - 1) -> Data]
  /\ hdr \in Seq(Block) /\ lh \in Seq(Block) /\ IsInjective(lh)
  /\ cache \in [Block -> Data \cup {None}]
  /\ pinned \subseteq Block
  /\ outstanding \in 0..Cardinality(Op) /\ committing \in BOOLEAN
  /\ pc \in [Op -> {"idle", "begin", "asleep", "in", "commit", "dead"}]
  /\ wrote \in [Op -> SUBSET Block]
  /\ cpc \in CommitPcs \cup RecoverPcs /\ tail \in 1..NLOG
  /\ panicked \in BOOLEAN

\* The first boot of a file system made by mkfs.
Init ==
  /\ home = [b \in Block |-> Zero]
  /\ logblk = [i \in 1..(NLOG - 1) |-> Zero]
  /\ hdr = <<>>
  /\ cache = [b \in Block |-> None] /\ pinned = {} /\ lh = <<>>
  /\ outstanding = 0 /\ committing = FALSE
  /\ pc = [o \in Op |-> "idle"] /\ wrote = [o \in Op |-> {}]
  /\ cpc = "r_head" /\ tail = 1 /\ panicked = FALSE

\* What bread(b) returns.
Cur(b) == IF cache[b] = None THEN home[b] ELSE cache[b]

Up == cpc \notin RecoverPcs /\ ~panicked

\* wakeup(&log)
Wakeup(pcs) == [o \in Op |-> IF pcs[o] = "asleep" THEN "begin" ELSE pcs[o]]

-----------------------------------------------------------------------------
(* begin_op, log_write, end_op *)

Call(o) ==
  /\ Up /\ pc[o] = "idle"
  /\ pc' = [pc EXCEPT ![o] = "begin"]
  /\ UNCHANGED <<diskVars, memVars, wrote, cpc, tail, panicked>>


\* The operation might exhaust the log.
NoSpace == Len(lh) + (outstanding + 1) * MAXOPBLOCKS > LOGSIZE

BeginSleep(o) ==
  /\ Up /\ pc[o] = "begin" /\ (committing \/ NoSpace)
  /\ pc' = [pc EXCEPT ![o] = "asleep"]
  /\ UNCHANGED <<diskVars, memVars, wrote, cpc, tail, panicked>>

begin_op(o) ==
  /\ Up /\ pc[o] = "begin" /\ ~committing /\ ~NoSpace
  /\ outstanding' = outstanding + 1
  /\ pc' = [pc EXCEPT ![o] = "in"]
  /\ wrote' = [wrote EXCEPT ![o] = {}]
  /\ UNCHANGED <<diskVars, cache, pinned, lh, committing, cpc, tail, panicked>>

\* bread(b), a change of its data, log_write(b) and brelse(b), under b's lock.
log_write(o, b, v) ==
  /\ Up /\ pc[o] = "in"
  /\ Cardinality(wrote[o] \cup {b}) <= OpBlocks
  /\ IF Len(lh) >= LOGSIZE \/ Len(lh) >= NLOG - 1 \/ outstanding < 1
       THEN panicked' = TRUE /\ UNCHANGED <<memVars, wrote>>
       ELSE /\ cache' = [cache EXCEPT ![b] = v]
            /\ lh' = IF b \in ToSet(lh) THEN lh ELSE Append(lh, b)
            /\ pinned' = pinned \cup {b}
            /\ wrote' = [wrote EXCEPT ![o] = @ \cup {b}]
            /\ UNCHANGED <<outstanding, committing, panicked>>
  /\ UNCHANGED <<diskVars, pc, cpc, tail>>

\* Mutant of end_op: the last operation leaves the commit to a waiting one.
EndOpLeavesCommit(o) ==
  /\ Up /\ pc[o] = "in"
  /\ outstanding' = outstanding - 1
  /\ panicked' = committing
  /\ \/ /\ outstanding = 1 /\ \A q \in Op : pc[q] # "asleep"
        /\ committing' = TRUE
        /\ pc' = [pc EXCEPT ![o] = "commit"]
        /\ cpc' = IF lh = <<>> THEN "done" ELSE "write_log"
     \/ /\ outstanding # 1 \/ \E q \in Op : pc[q] = "asleep"
        /\ pc' = Wakeup([pc EXCEPT ![o] = "idle"])
        /\ UNCHANGED <<committing, cpc>>
  /\ UNCHANGED <<diskVars, cache, pinned, lh, wrote, tail>>

\* end_op() up to the release of log.lock, and into commit().
end_op(o) ==
  /\ Up /\ pc[o] = "in"
  /\ outstanding' = outstanding - 1
  /\ panicked' = committing
  /\ \/ /\ outstanding = 1
        /\ committing' = TRUE
        /\ pc' = [pc EXCEPT ![o] = "commit"]
        /\ cpc' = IF lh = <<>> THEN "done" ELSE "write_log"
     \/ /\ outstanding # 1
        /\ pc' = Wakeup([pc EXCEPT ![o] = "idle"])
        /\ UNCHANGED <<committing, cpc>>
  /\ UNCHANGED <<diskVars, cache, pinned, lh, wrote, tail>>

\* exit() by another thread of the process marks this one, asleep inside its
\* system call, ZOMBIE: it never runs again.
ExitSibling(o) ==
  /\ ExitKills /\ Up /\ pc[o] = "in"
  /\ pc' = [pc EXCEPT ![o] = "dead"]
  /\ UNCHANGED <<diskVars, memVars, wrote, cpc, tail, panicked>>

-----------------------------------------------------------------------------
(* commit() and recover_from_log() *)

\* Mutant of write_log: the loop stops one block early.
WriteLogShort ==
  /\ cpc = "write_log"
  /\ logblk' = [logblk EXCEPT ![tail] = Cur(lh[tail])]
  /\ \/ tail < Len(lh) - 1 /\ tail' = tail + 1 /\ UNCHANGED cpc
     \/ tail >= Len(lh) - 1 /\ tail' = 1 /\ cpc' = "write_head"
  /\ UNCHANGED <<home, hdr, memVars, pc, wrote, panicked>>

\* One iteration of write_log().
write_log ==
  /\ cpc = "write_log"
  /\ logblk' = [logblk EXCEPT ![tail] = Cur(lh[tail])]
  /\ \/ tail < Len(lh) /\ tail' = tail + 1 /\ UNCHANGED cpc
     \/ tail = Len(lh) /\ tail' = 1 /\ cpc' = "write_head"
  /\ UNCHANGED <<home, hdr, memVars, pc, wrote, panicked>>

\* write_head(): the transaction commits.
write_head ==
  /\ cpc = "write_head"
  /\ hdr' = lh
  /\ cpc' = "install"
  /\ UNCHANGED <<home, logblk, memVars, pc, wrote, tail, panicked>>

\* One iteration of install_trans().
InstallBlock(recovering) ==
  /\ home' = [home EXCEPT ![lh[tail]] = logblk[tail]]
  /\ cache' = [cache EXCEPT ![lh[tail]] = logblk[tail]]
  /\ pinned' = IF recovering THEN pinned ELSE pinned \ {lh[tail]}
  /\ UNCHANGED <<logblk, hdr, lh, outstanding, committing, pc, wrote, panicked>>

install_trans ==
  /\ cpc = "install"
  /\ InstallBlock(FALSE)
  /\ \/ tail < Len(lh) /\ tail' = tail + 1 /\ UNCHANGED cpc
     \/ tail = Len(lh) /\ tail' = 1 /\ cpc' = "clear"

\* log.lh.n = 0; write_head()
ClearHead(from, to) ==
  /\ cpc = from
  /\ lh' = <<>> /\ hdr' = <<>>
  /\ cpc' = to
  /\ UNCHANGED <<home, logblk, cache, pinned, outstanding, committing, pc,
                 wrote, tail, panicked>>

commit == write_log \/ write_head \/ install_trans \/ ClearHead("clear", "done")

\* Mutant of EndCommit: no wakeup(&log).
EndCommitNoWakeup(o) ==
  /\ pc[o] = "commit" /\ cpc = "done"
  /\ committing' = FALSE
  /\ cpc' = "none"
  /\ pc' = [pc EXCEPT ![o] = "idle"]
  /\ UNCHANGED <<diskVars, cache, pinned, lh, outstanding, wrote, tail,
                 panicked>>

\* The end of end_op() after commit().
EndCommit(o) ==
  /\ pc[o] = "commit" /\ cpc = "done"
  /\ committing' = FALSE
  /\ cpc' = "none"
  /\ pc' = Wakeup([pc EXCEPT ![o] = "idle"])
  /\ UNCHANGED <<diskVars, cache, pinned, lh, outstanding, wrote, tail,
                 panicked>>

read_head ==
  /\ cpc = "r_head"
  /\ lh' = hdr
  /\ cpc' = IF hdr = <<>> THEN "r_clear" ELSE "r_install"
  /\ UNCHANGED <<diskVars, cache, pinned, outstanding, committing, pc, wrote,
                 tail, panicked>>

RecoverInstall ==
  /\ cpc = "r_install"
  /\ InstallBlock(TRUE)
  /\ \/ tail < Len(lh) /\ tail' = tail + 1 /\ UNCHANGED cpc
     \/ tail = Len(lh) /\ tail' = 1 /\ cpc' = "r_clear"

recover_from_log == read_head \/ RecoverInstall \/ ClearHead("r_clear", "none")

-----------------------------------------------------------------------------
(* bread() of a reader, recycling of a buffer by bget(), power failure *)

bread(b) ==
  /\ Up /\ cache[b] = None
  /\ cache' = [cache EXCEPT ![b] = home[b]]
  /\ UNCHANGED <<diskVars, pinned, lh, outstanding, committing, pc, wrote, cpc,
                 tail, panicked>>

\* bget() reuses a buffer with refcnt 0 for another block.
Recycle(b) ==
  /\ Up /\ cache[b] # None /\ b \notin pinned
  /\ cache' = [cache EXCEPT ![b] = None]
  /\ UNCHANGED <<diskVars, pinned, lh, outstanding, committing, pc, wrote, cpc,
                 tail, panicked>>

\* Memory is lost; the next boot starts with recover_from_log().
Crash ==
  /\ cache' = [b \in Block |-> None] /\ pinned' = {} /\ lh' = <<>>
  /\ outstanding' = 0 /\ committing' = FALSE
  /\ pc' = [o \in Op |-> "idle"] /\ wrote' = [o \in Op |-> {}]
  /\ cpc' = "r_head" /\ tail' = 1 /\ panicked' = FALSE
  /\ UNCHANGED diskVars

Next ==
  \/ \E o \in Op :
       \/ Call(o) \/ BeginSleep(o) \/ begin_op(o) \/ end_op(o) \/ EndCommit(o)
       \/ ExitSibling(o)
  \/ \E o \in Op, b \in Block, v \in Data : log_write(o, b, v)
  \/ commit \/ recover_from_log
  \/ \E b \in Block : bread(b) \/ Recycle(b)
  \/ Crash

Spec == Init /\ [][Next]_vars

(* Fairness: the disk answers, a thread in the kernel goes on, and a file  *)
(* system call ends.  Crashes are never required.                          *)
FairSpec ==
  /\ Spec
  /\ WF_vars(commit) /\ WF_vars(recover_from_log)
  /\ \A o \in Op :
       /\ WF_vars(BeginSleep(o) \/ begin_op(o))
       /\ WF_vars(end_op(o)) /\ WF_vars(EndCommit(o))

-----------------------------------------------------------------------------
(* Properties *)

\* The disk as recovery would leave it.
Durable ==
  [b \in Block |-> IF b \in ToSet(hdr)
                     THEN logblk[CHOOSE i \in DOMAIN hdr : hdr[i] = b]
                     ELSE home[b]]

Abstract == INSTANCE AtomicDisk WITH
              mem <- IF cpc \in RecoverPcs THEN Durable
                                           ELSE [b \in Block |-> Cur(b)],
              disk <- Durable,
              active <- outstanding

\* Crash safety: transactions reach the disk atomically, only while no system
\* call is active, and a crash at any point loses nothing else; reads between
\* crashes see every write.
ImplementsAtomicDisk == Abstract!DiskSpec

\* When no file system call is in progress and none is committing, everything
\* written so far would survive a crash.
QuietIsDurable ==
  Up /\ outstanding = 0 /\ ~committing => \A b \in Block : Cur(b) = Durable[b]

\* The reservation of begin_op() keeps log_write() and end_op() from panicking.
NoPanic == ~panicked

\* No wakeup of begin_op() is lost: while a thread sleeps in it, some thread is
\* still to end its system call or its commit, or was stopped by exit() in it.
SleeperHasWaker ==
  \A o \in Op : pc[o] = "asleep" =>
    \E q \in Op : pc[q] \in {"in", "commit", "dead"}

\* No wakeup of begin_op() is lost: a thread that waits for the log does not
\* wait for ever while no system call is active.
BeginSucceeds ==
  \A o \in Op :
    (pc[o] \in {"begin", "asleep"}) ~>
      (cpc \in RecoverPcs \/ \E q \in Op : pc[q] = "in")
=============================================================================
