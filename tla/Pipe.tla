-------------------------------- MODULE Pipe --------------------------------
(***************************************************************************)
(* One pipe (kernel/pipe.c): pipewrite, piperead and pipeclose by threads  *)
(* of several processes, with pi->lock, sleep() on &pi->nread and          *)
(* &pi->nwrite, and 32-bit counters that wrap.  Every loop iteration is a  *)
(* step, so that p->killed can change between two of them.                 *)
(***************************************************************************)
EXTENDS Integers

CONSTANTS
  Reader, Writer,   \* threads with the read, the write end open
  Byte,
  PIPESIZE,
  Word,             \* the counters are modulo Word (2^32 in the code)
  MaxN,             \* bound on the size of one read or write
  None,
  Killable,         \* threads whose process a signal may kill
  SiblingCloses     \* TRUE: a sibling may close a descriptor that is in use

Thread == Reader \cup Writer

ASSUME PipeAssumption ==
  /\ PIPESIZE \in Nat \ {0} /\ Word \in Nat /\ MaxN \in Nat
  /\ PIPESIZE < Word /\ Word % PIPESIZE = 0
  /\ None \notin Thread /\ Reader \cap Writer = {} /\ Killable \subseteq Thread

VARIABLES
  data, nread, nwrite, readopen, writeopen,     \* struct pipe
  freed,        \* kfree(pi) has been called
  lock,         \* the thread that holds pi->lock
  pc,           \* idle, acquire, loop, copy or asleep
  left,         \* bytes the call has still to transfer
  open,         \* the process of t has its end open
  killed        \* p->killed

pipeVars == <<data, nread, nwrite>>
endVars == <<readopen, writeopen, freed, open>>
vars == <<pipeVars, endVars, lock, pc, left, killed>>

\* Every variable has its type.
TypeOK ==
  /\ data \in [0..(PIPESIZE - 1) -> Byte]
  /\ nread \in 0..(Word - 1) /\ nwrite \in 0..(Word - 1)
  /\ readopen \in BOOLEAN /\ writeopen \in BOOLEAN /\ freed \in BOOLEAN
  /\ lock \in Thread \cup {None}
  /\ pc \in [Thread -> {"idle", "acquire", "loop", "copy", "asleep"}]
  /\ left \in [Thread -> 0..MaxN]
  /\ open \in [Thread -> BOOLEAN] /\ killed \in [Thread -> BOOLEAN]

\* pipealloc(); the page holds arbitrary bytes.
Init ==
  /\ data \in [0..(PIPESIZE - 1) -> Byte]
  /\ nread = 0 /\ nwrite = 0
  /\ readopen = TRUE /\ writeopen = TRUE /\ freed = FALSE
  /\ lock = None
  /\ pc = [t \in Thread |-> "idle"] /\ left = [t \in Thread |-> 0]
  /\ open = [t \in Thread |-> TRUE] /\ killed = [t \in Thread |-> FALSE]

Empty == nread = nwrite
\* Mutant of Full: one byte too many fits.
FullLate == nwrite = (nread + PIPESIZE + 1) % Word

Full == nwrite = (nread + PIPESIZE) % Word

\* t, holding pi->lock, is at l.
At(t, l) == lock = t /\ pc[t] = l

\* t goes to l, releasing pi->lock, after wakeup() of the sleepers of S.
Leave(t, l, S) ==
  /\ lock' = None
  /\ pc' = [u \in Thread |->
              IF u = t THEN l
              ELSE IF u \in S /\ pc[u] = "asleep" THEN "acquire" ELSE pc[u]]

\* A read or a write of n bytes enters the kernel.
Call(t, n) ==
  /\ pc[t] = "idle" /\ open[t]
  /\ pc' = [pc EXCEPT ![t] = "acquire"]
  /\ left' = [left EXCEPT ![t] = n]
  /\ UNCHANGED <<pipeVars, endVars, lock, killed>>

\* acquire(&pi->lock), at the start or at the end of sleep().
Acquire(t) ==
  /\ pc[t] = "acquire" /\ lock = None
  /\ lock' = t
  /\ pc' = [pc EXCEPT ![t] = "loop"]
  /\ UNCHANGED <<pipeVars, endVars, left, killed>>

-----------------------------------------------------------------------------
(* pipewrite *)

\* The reader is gone, or the process was killed: return -1.
WriteFail(t) ==
  /\ At(t, "loop") /\ left[t] > 0 /\ (~readopen \/ killed[t])
  /\ Leave(t, "idle", {})
  /\ left' = [left EXCEPT ![t] = 0]
  /\ UNCHANGED <<pipeVars, endVars, killed>>

\* Mutant of WriteSleep: no wakeup(&pi->nread) before sleeping.
WriteSleepQuietly(t) ==
  /\ At(t, "loop") /\ left[t] > 0 /\ readopen /\ ~killed[t] /\ Full
  /\ Leave(t, "asleep", {})
  /\ UNCHANGED <<pipeVars, endVars, left, killed>>

WriteSleep(t) ==
  /\ At(t, "loop") /\ left[t] > 0 /\ readopen /\ ~killed[t] /\ Full
  /\ Leave(t, "asleep", Reader)
  /\ UNCHANGED <<pipeVars, endVars, left, killed>>

\* pi->data[pi->nwrite++ % PIPESIZE] = ch
WriteByte(t) ==
  /\ At(t, "loop") /\ left[t] > 0 /\ readopen /\ ~killed[t] /\ ~Full
  /\ \E ch \in Byte : data' = [data EXCEPT ![nwrite % PIPESIZE] = ch]
  /\ nwrite' = (nwrite + 1) % Word
  /\ left' = [left EXCEPT ![t] = @ - 1]
  /\ UNCHANGED <<nread, endVars, lock, pc, killed>>

\* The loop is over, or copyin() failed: wakeup(&pi->nread); return i
WriteDone(t) ==
  /\ At(t, "loop")
  /\ left[t] = 0 \/ (readopen /\ ~killed[t] /\ ~Full)
  /\ Leave(t, "idle", Reader)
  /\ left' = [left EXCEPT ![t] = 0]
  /\ UNCHANGED <<pipeVars, endVars, killed>>

-----------------------------------------------------------------------------
(* piperead *)

ReadFail(t) ==
  /\ At(t, "loop") /\ Empty /\ writeopen /\ killed[t]
  /\ Leave(t, "idle", {})
  /\ left' = [left EXCEPT ![t] = 0]
  /\ UNCHANGED <<pipeVars, endVars, killed>>

ReadSleep(t) ==
  /\ At(t, "loop") /\ Empty /\ writeopen /\ ~killed[t]
  /\ Leave(t, "asleep", {})
  /\ UNCHANGED <<pipeVars, endVars, left, killed>>

ReadStart(t) ==
  /\ At(t, "loop") /\ ~(Empty /\ writeopen)
  /\ pc' = [pc EXCEPT ![t] = "copy"]
  /\ UNCHANGED <<pipeVars, endVars, lock, left, killed>>

\* ch = pi->data[pi->nread++ % PIPESIZE].  When copyout() fails, the byte is
\* gone and the loop ends.
ReadByte(t) ==
  /\ At(t, "copy") /\ left[t] > 0 /\ ~Empty
  /\ nread' = (nread + 1) % Word
  /\ \E n \in {left[t] - 1, 0} : left' = [left EXCEPT ![t] = n]
  /\ UNCHANGED <<data, nwrite, endVars, lock, pc, killed>>

\* wakeup(&pi->nwrite); return i
ReadDone(t) ==
  /\ At(t, "copy") /\ (left[t] = 0 \/ Empty)
  /\ Leave(t, "idle", Writer)
  /\ left' = [left EXCEPT ![t] = 0]
  /\ UNCHANGED <<pipeVars, endVars, killed>>

-----------------------------------------------------------------------------
(* pipeclose, and the signal that sets p->killed *)

\* Mutant of pipeclose: the page is freed when one end is closed.
PipecloseEarly(t) ==
  /\ open[t] /\ lock = None /\ (pc[t] = "idle" \/ SiblingCloses)
  /\ open' = [open EXCEPT ![t] = FALSE]
  /\ readopen' = \E u \in Reader : open'[u]
  /\ writeopen' = \E u \in Writer : open'[u]
  /\ pc' = [u \in Thread |->
              IF /\ pc[u] = "asleep"
                 /\ \/ u \in Reader /\ writeopen /\ ~writeopen'
                    \/ u \in Writer /\ readopen /\ ~readopen'
                THEN "acquire" ELSE pc[u]]
  /\ freed' = (~readopen' \/ ~writeopen')
  /\ UNCHANGED <<pipeVars, lock, left, killed>>

\* fileclose(); the last one of an end calls pipeclose().
pipeclose(t) ==
  /\ open[t] /\ lock = None /\ (pc[t] = "idle" \/ SiblingCloses)
  /\ open' = [open EXCEPT ![t] = FALSE]
  /\ readopen' = \E u \in Reader : open'[u]
  /\ writeopen' = \E u \in Writer : open'[u]
  /\ pc' = [u \in Thread |->
              IF /\ pc[u] = "asleep"
                 /\ \/ u \in Reader /\ writeopen /\ ~writeopen'
                    \/ u \in Writer /\ readopen /\ ~readopen'
                THEN "acquire" ELSE pc[u]]
  /\ freed' = (~readopen' /\ ~writeopen')
  /\ UNCHANGED <<pipeVars, lock, left, killed>>

Kill(t) ==
  /\ t \in Killable /\ ~killed[t]
  /\ killed' = [killed EXCEPT ![t] = TRUE]
  /\ UNCHANGED <<pipeVars, endVars, lock, pc, left>>

pipewrite(t) ==
  Acquire(t) \/ WriteFail(t) \/ WriteSleep(t) \/ WriteByte(t) \/ WriteDone(t)

piperead(t) ==
  \/ Acquire(t) \/ ReadFail(t) \/ ReadSleep(t) \/ ReadStart(t) \/ ReadByte(t)
  \/ ReadDone(t)

Next ==
  \/ \E t \in Thread, n \in 0..MaxN : Call(t, n)
  \/ \E t \in Writer : pipewrite(t)
  \/ \E t \in Reader : piperead(t)
  \/ \E t \in Thread : pipeclose(t) \/ Kill(t)

Spec == Init /\ [][Next]_vars

(* Fairness: a thread that is awake in the kernel goes on; a spinlock that *)
(* is free again and again is obtained.                                    *)
FairSpec ==
  /\ Spec
  /\ \A t \in Writer : SF_vars(pipewrite(t))
  /\ \A t \in Reader : SF_vars(piperead(t))

-----------------------------------------------------------------------------
(* Properties *)

Contents ==
  [i \in 1..((nwrite - nread) % Word) |-> data[(nread + i - 1) % PIPESIZE]]

Queue == INSTANCE ByteQueue WITH q <- Contents

\* Bytes leave the pipe in the order in which they came, none is overwritten
\* and none is read twice, also when the counters wrap.
ImplementsQueue == Queue!QueueSpec

\* The page of the pipe is freed only when no thread is inside piperead() or
\* pipewrite().
NoUseAfterFree == freed => \A t \in Thread : pc[t] = "idle"

\* What a thread that sleeps waits for.
MustWait(t) ==
  IF t \in Reader THEN Empty /\ writeopen ELSE Full /\ readopen

\* No wakeup is lost: a thread asleep in piperead() or pipewrite() wakes up
\* once there is something to do for it, or finds the pipe as it was, unless
\* a writer was killed (it leaves without a wakeup).
SleepersWoken ==
  \A t \in Thread :
    (pc[t] = "asleep" /\ ~MustWait(t)) ~>
      (pc[t] # "asleep" \/ MustWait(t) \/ \E u \in Writer : killed[u])
=============================================================================
