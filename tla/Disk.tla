-------------------------------- MODULE Disk --------------------------------
(***************************************************************************)
(* The buffer cache (kernel/bio.c) with its sleep-locks                    *)
(* (kernel/sleeplock.c) over the virtio disk driver                        *)
(* (kernel/virtio_disk.c): threads that get, read, change, write, pin and  *)
(* release buffers, the device, and the disk interrupt.  What runs under   *)
(* bcache.lock or a sleep-lock's spinlock is one step.                     *)
(***************************************************************************)
EXTENDS Integers, FiniteSets, FiniteSetsExt, SequencesExt

CONSTANTS
  Thread, Block, Data,
  Zero,         \* what mkfs wrote
  None,
  NBUF,
  NUM,          \* descriptors of the virtio queue
  MaxPinned     \* how many buffers the log may pin

Buf == 1..NBUF
Desc == 0..(NUM - 1)

ASSUME DiskAssumption ==
  /\ NBUF \in Nat /\ NUM \in Nat /\ MaxPinned \in Nat
  /\ Zero \in Data /\ None \notin Block \cup Thread \cup Buf

VARIABLES
  blockno, refcnt, valid, data,     \* struct buf
  owner,        \* the thread that holds b->lock
  ondisk,       \* b->disk: the disk owns the buffer
  lru,          \* the list of buffers, the most recently used first
  pinned,       \* buffers that log_write() has pinned
  disk,         \* the blocks of the device
  free,         \* disk.free[]: the free descriptors
  req,          \* head of a chain -> its buffer, direction and descriptors
  avail, used,  \* heads in the avail ring, and in the used ring
  irq,          \* the device asks for an interrupt
  intr,         \* virtio_disk_intr() holds vdisk_lock
  pc, buf, head, write,             \* per thread
  last,         \* history: what was last put into each block
  panicked

bufVars == <<blockno, refcnt, valid, lru, pinned>>
devVars == <<disk, avail, used, irq, intr>>
thrVars == <<pc, buf, head, write>>
vars == <<bufVars, data, owner, ondisk, devVars, free, req, thrVars, last,
          panicked>>

Sleeping == {"locksleep", "descsleep", "iosleep"}
Pcs == {"idle", "lock", "locked", "rw", "io", "have", "put"} \cup Sleeping

\* Every variable has its type.
TypeOK ==
  /\ blockno \in [Buf -> Block \cup {None}] /\ refcnt \in [Buf -> Nat]
  /\ valid \in [Buf -> BOOLEAN] /\ data \in [Buf -> Data]
  /\ owner \in [Buf -> Thread \cup {None}] /\ ondisk \subseteq Buf
  /\ ToSet(lru) = Buf /\ Len(lru) = NBUF /\ pinned \subseteq Buf
  /\ disk \in [Block -> Data] /\ free \subseteq Desc
  /\ DOMAIN req \subseteq Desc /\ avail \subseteq Desc /\ used \in Seq(Desc)
  /\ irq \in BOOLEAN /\ intr \in BOOLEAN
  /\ pc \in [Thread -> Pcs] /\ buf \in [Thread -> Buf \cup {None}]
  /\ head \in [Thread -> Desc \cup {None}]
  /\ write \in [Thread -> BOOLEAN] /\ last \in [Block -> Data]

\* After binit() and virtio_disk_init().
Init ==
  /\ blockno = [b \in Buf |-> None] /\ refcnt = [b \in Buf |-> 0]
  /\ valid = [b \in Buf |-> FALSE] /\ data = [b \in Buf |-> Zero]
  /\ owner = [b \in Buf |-> None] /\ ondisk = {}
  /\ lru = [i \in Buf |-> NBUF + 1 - i] /\ pinned = {}
  /\ disk = [n \in Block |-> Zero] /\ last = disk
  /\ free = Desc /\ req = << >> /\ avail = {} /\ used = <<>>
  /\ irq = FALSE /\ intr = FALSE
  /\ pc = [t \in Thread |-> "idle"] /\ buf = [t \in Thread |-> None]
  /\ head = [t \in Thread |-> None] /\ write = [t \in Thread |-> FALSE]
  /\ panicked = FALSE

\* t goes to l after wakeup() of the threads of S, which go to w.
Goto(t, l, S, w) ==
  pc' = [u \in Thread |-> IF u = t THEN l ELSE IF u \in S THEN w ELSE pc[u]]

-----------------------------------------------------------------------------
(* bget, acquiresleep, bread *)

\* t has found its buffer and goes on to acquiresleep().
Found(t, b) ==
  /\ buf' = [buf EXCEPT ![t] = b]
  /\ pc' = [pc EXCEPT ![t] = "lock"]

Cached(n) == {b \in Buf : blockno[b] = n}

\* Positions in the list of the buffers that can be recycled.
Recyclable == {i \in Buf : refcnt[lru[i]] = 0}

\* Mutant of BgetRecycle: valid is not reset.
BgetRecycleValid(t, n) ==
  LET b == lru[Max(Recyclable)] IN
    /\ blockno' = [blockno EXCEPT ![b] = n]
    /\ refcnt' = [refcnt EXCEPT ![b] = 1]
    /\ Found(t, b)
    /\ UNCHANGED valid

\* The least recently used buffer without references is given to block n.
BgetRecycle(t, n) ==
  LET b == lru[Max(Recyclable)] IN
    /\ blockno' = [blockno EXCEPT ![b] = n]
    /\ valid' = [valid EXCEPT ![b] = FALSE]
    /\ refcnt' = [refcnt EXCEPT ![b] = 1]
    /\ Found(t, b)

\* bget() up to the release of bcache.lock.
bget(t, n) ==
  /\ pc[t] = "idle"
  /\ \/ \E b \in Cached(n) :
          /\ refcnt' = [refcnt EXCEPT ![b] = @ + 1]
          /\ Found(t, b)
          /\ UNCHANGED <<blockno, valid, panicked>>
     \/ /\ Cached(n) = {} /\ Recyclable # {}
        /\ BgetRecycle(t, n)
        /\ UNCHANGED panicked
     \/ /\ Cached(n) = {} /\ Recyclable = {}
        /\ panicked' = TRUE
        /\ UNCHANGED <<blockno, refcnt, valid, buf, pc>>
  /\ write' = [write EXCEPT ![t] = FALSE]
  /\ UNCHANGED <<lru, pinned, data, owner, ondisk, devVars, free, req, head,
                 last>>

acquiresleep(t) ==
  /\ pc[t] = "lock"
  /\ LET b == buf[t] IN
       \/ /\ owner[b] = None
          /\ owner' = [owner EXCEPT ![b] = t]
          /\ pc' = [pc EXCEPT ![t] = "locked"]
       \/ /\ owner[b] # None
          /\ pc' = [pc EXCEPT ![t] = "locksleep"]
          /\ UNCHANGED owner
  /\ UNCHANGED <<bufVars, data, ondisk, devVars, free, req, buf, head, write,
                 last, panicked>>

\* bread() with the lock held: the block is read unless it is valid.
bread(t) ==
  /\ pc[t] = "locked"
  /\ pc' = [pc EXCEPT ![t] = IF valid[buf[t]] THEN "have" ELSE "rw"]
  /\ UNCHANGED <<bufVars, data, owner, ondisk, devVars, free, req, buf, head,
                 write, last, panicked>>

-----------------------------------------------------------------------------
(* virtio_disk_rw and virtio_disk_intr *)

\* The descriptors alloc3_desc() finds: the three free ones of lowest index.
Alloc3 == {d \in free : Cardinality({e \in free : e < d}) < 3}

DescSleepers == {u \in Thread : pc[u] = "descsleep"}

\* Mutant of alloc3_desc: what was allocated before the failure is kept.
Alloc3DescLeaks(t) ==
  /\ Cardinality(free) < 3
  /\ free' = {}
  /\ Goto(t, "descsleep", IF free = {} THEN {} ELSE DescSleepers, "rw")

\* alloc3_desc() fails.  It gives back what it got, one free_desc() each,
\* which wakes the others that wait for descriptors; then t sleeps.
alloc3_desc(t) ==
  /\ Cardinality(free) < 3
  /\ Goto(t, "descsleep", IF free = {} THEN {} ELSE DescSleepers, "rw")
  /\ UNCHANGED free

DiskFull(t) ==
  /\ pc[t] = "rw" /\ ~intr
  /\ alloc3_desc(t)
  /\ UNCHANGED <<bufVars, data, owner, ondisk, devVars, req, buf, head, write,
                 last, panicked>>

\* The request is put into the avail ring and t sleeps until it is done.
Submit(t) ==
  /\ pc[t] = "rw" /\ ~intr /\ Cardinality(free) >= 3
  /\ LET h == Min(Alloc3) IN
       /\ req' = [d \in DOMAIN req \cup {h} |->
                    IF d = h THEN [buf |-> buf[t], write |-> write[t],
                                   chain |-> Alloc3]
                    ELSE req[d]]
       /\ avail' = avail \cup {h}
       /\ head' = [head EXCEPT ![t] = h]
  /\ free' = free \ Alloc3
  /\ ondisk' = ondisk \cup {buf[t]}
  /\ pc' = [pc EXCEPT ![t] = "iosleep"]
  /\ UNCHANGED <<bufVars, data, owner, disk, used, irq, intr, buf, write, last,
                 panicked>>

\* The device carries out a request, in any order.
Device(h) ==
  /\ h \in avail
  /\ LET b == req[h].buf IN
       IF req[h].write
         THEN disk' = [disk EXCEPT ![blockno[b]] = data[b]] /\ UNCHANGED data
         ELSE data' = [data EXCEPT ![b] = disk[blockno[b]]] /\ UNCHANGED disk
  /\ avail' = avail \ {h}
  /\ used' = Append(used, h)
  /\ irq' = TRUE
  /\ UNCHANGED <<bufVars, owner, ondisk, intr, free, req, thrVars, last,
                 panicked>>

\* virtio_disk_intr() takes vdisk_lock and acknowledges the interrupt.
IntrAck ==
  /\ irq /\ ~intr
  /\ irq' = FALSE /\ intr' = TRUE
  /\ UNCHANGED <<bufVars, data, owner, ondisk, disk, avail, used, free, req,
                 thrVars, last, panicked>>

IoSleepers(b) == {u \in Thread : pc[u] = "iosleep" /\ buf[u] = b}

\* One round of the loop over the used ring, which the device may extend
\* meanwhile, or its end.
virtio_disk_intr ==
  /\ intr
  /\ \/ /\ used # <<>>
        /\ ondisk' = ondisk \ {req[Head(used)].buf}
        /\ Goto(None, "idle", IoSleepers(req[Head(used)].buf), "io")
        /\ used' = Tail(used)
        /\ UNCHANGED intr
     \/ used = <<>> /\ intr' = FALSE /\ UNCHANGED <<ondisk, pc, used>>
  /\ UNCHANGED <<bufVars, data, owner, disk, avail, irq, free, req, buf, head,
                 write, last, panicked>>

\* Mutant of free_chain: no wakeup(&disk.free[0]).
FreeChainQuiet(t, l) ==
  /\ panicked' = (req[head[t]].chain \cap free # {})
  /\ free' = free \cup req[head[t]].chain
  /\ Goto(t, l, {}, "rw")

free_chain(t, l) ==
  /\ panicked' = (req[head[t]].chain \cap free # {})
  /\ free' = free \cup req[head[t]].chain
  /\ Goto(t, l, DescSleepers, "rw")

\* The woken thread finds its request done, frees the chain and returns.
RwDone(t) ==
  /\ pc[t] = "io" /\ ~intr /\ buf[t] \notin ondisk
  /\ free_chain(t, "have")
  /\ req' = [d \in DOMAIN req \ {head[t]} |-> req[d]]
  /\ head' = [head EXCEPT ![t] = None]
  /\ valid' = [valid EXCEPT ![buf[t]] = TRUE]
  /\ UNCHANGED <<blockno, refcnt, lru, pinned, data, owner, ondisk, devVars,
                 buf, write, last>>

\* while(b->disk == 1) sleep(b, &disk.vdisk_lock)
RwAgain(t) ==
  /\ pc[t] = "io" /\ ~intr /\ buf[t] \in ondisk
  /\ pc' = [pc EXCEPT ![t] = "iosleep"]
  /\ UNCHANGED <<bufVars, data, owner, ondisk, devVars, free, req, buf, head,
                 write, last, panicked>>

-----------------------------------------------------------------------------
(* What the holder of a buffer does with it *)

\* Its contents are changed and it is written: bwrite().
bwrite(t, v) ==
  /\ pc[t] = "have" /\ ~write[t]
  /\ data' = [data EXCEPT ![buf[t]] = v]
  /\ last' = [last EXCEPT ![blockno[buf[t]]] = v]
  /\ write' = [write EXCEPT ![t] = TRUE]
  /\ pc' = [pc EXCEPT ![t] = "rw"]
  /\ UNCHANGED <<bufVars, owner, ondisk, devVars, free, req, buf, head,
                 panicked>>

\* Its contents are changed and log_write() pins it, if it is not yet in
\* the log.
bpin(t, v) ==
  /\ pc[t] = "have" /\ ~write[t]
  /\ buf[t] \in pinned \/ Cardinality(pinned) < MaxPinned
  /\ data' = [data EXCEPT ![buf[t]] = v]
  /\ last' = [last EXCEPT ![blockno[buf[t]]] = v]
  /\ pinned' = pinned \cup {buf[t]}
  /\ refcnt' = IF buf[t] \in pinned THEN refcnt
               ELSE [refcnt EXCEPT ![buf[t]] = @ + 1]
  /\ UNCHANGED <<blockno, valid, lru, owner, ondisk, devVars, free, req,
                 thrVars, panicked>>

\* install_trans() unpins the buffer it has written.
bunpin(t) ==
  /\ pc[t] = "have" /\ write[t] /\ buf[t] \in pinned
  /\ pinned' = pinned \ {buf[t]}
  /\ refcnt' = [refcnt EXCEPT ![buf[t]] = @ - 1]
  /\ UNCHANGED <<blockno, valid, lru, data, owner, ondisk, devVars, free, req,
                 thrVars, last, panicked>>

releasesleep(t) ==
  /\ owner' = [owner EXCEPT ![buf[t]] = None]
  /\ Goto(t, "put",
          {u \in Thread : pc[u] = "locksleep" /\ buf[u] = buf[t]}, "lock")

\* brelse() up to releasesleep().  A pinned buffer that was changed, or one
\* that was not, need not be written first.
BrelseUnlock(t) ==
  /\ pc[t] = "have"
  /\ releasesleep(t)
  /\ UNCHANGED <<bufVars, data, ondisk, devVars, free, req, buf, head, write,
                 last, panicked>>

\* The rest of brelse(): the reference is dropped under bcache.lock.
brelse(t) ==
  /\ pc[t] = "put"
  /\ refcnt' = [refcnt EXCEPT ![buf[t]] = @ - 1]
  /\ lru' = IF refcnt[buf[t]] = 1
            THEN <<buf[t]>> \o SelectSeq(lru, LAMBDA b : b # buf[t]) ELSE lru
  /\ buf' = [buf EXCEPT ![t] = None]
  /\ pc' = [pc EXCEPT ![t] = "idle"]
  /\ UNCHANGED <<blockno, valid, pinned, data, owner, ondisk, devVars, free,
                 req, head, write, last, panicked>>

ThreadStep(t) ==
  \/ \E n \in Block : bget(t, n)
  \/ acquiresleep(t) \/ bread(t)
  \/ DiskFull(t) \/ Submit(t) \/ RwDone(t) \/ RwAgain(t)
  \/ \E v \in Data : bwrite(t, v) \/ bpin(t, v)
  \/ bunpin(t) \/ BrelseUnlock(t) \/ brelse(t)

Next ==
  /\ ~panicked
  /\ \/ \E t \in Thread : ThreadStep(t)
     \/ \E h \in Desc : Device(h)
     \/ IntrAck \/ virtio_disk_intr

Spec == Init /\ [][Next]_vars

-----------------------------------------------------------------------------
(* Properties *)

\* Whoever holds a locked buffer sees what was last put into the block,
\* by whichever thread, also after the buffer was recycled and read again.
HolderSeesLastWrite ==
  \A t \in Thread :
    pc[t] = "have" => data[buf[t]] = last[blockno[buf[t]]]

\* Every descriptor is either free or in one chain of a request in progress;
\* none is freed twice, and bget() finds a buffer: no panic is reached.
DescriptorsAccounted ==
  /\ free \cup UNION {req[h].chain : h \in DOMAIN req} = Desc
  /\ Cardinality(free) + 3 * Cardinality(DOMAIN req) = NUM
  /\ ~panicked

\* Nobody sleeps for ever: for each sleeper there is a holder of the lock, a
\* request that is not complete, or one whose owner will free its chain.
SleepersHaveWaker ==
  \A t \in Thread :
    /\ pc[t] = "locksleep" => owner[buf[t]] \notin {None, t}
    /\ pc[t] = "iosleep" => /\ head[t] \in avail \cup ToSet(used)
                            /\ used # <<>> => irq \/ intr
    /\ pc[t] = "descsleep" => Cardinality(free) < 3 /\ DOMAIN req # {}
=============================================================================
