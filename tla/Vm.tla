--------------------------------- MODULE Vm ---------------------------------
(***************************************************************************)
(* Physical pages and user address spaces: kernel/kalloc.c, kernel/vm.c,   *)
(* and their users growproc(), fork(), exec() and freeproc(), which run    *)
(* out of memory at any page and must then give back what they took.       *)
(*                                                                         *)
(* A page table is the set of its nodes: <<0, va>> is a mapped page,       *)
(* <<l, i>> a page-table page of level l - 1, and <<3, 0>> the root.  Which *)
(* physical page a node is in is left out, so the allocator is the number  *)
(* of free pages.  Addresses are in bytes, va in pages.                    *)
(*                                                                         *)
(* kalloc() is atomic under kmem.lock, and what a process does to its own  *)
(* page table is not seen by others, so one page of a loop is one step.    *)
(***************************************************************************)
EXTENDS Integers, FiniteSets, FiniteSetsExt, Sequences, TLC

CONSTANTS
  NPROC, NTHREAD,
  NPAGES,       \* physical pages
  PGSIZE,       \* bytes of a page
  FAN,          \* entries of a page-table page
  Word,         \* one more than the largest uint
  Sbrk,         \* the arguments of sbrk()
  Programs      \* executables: the end addresses of their segments

Proc == 1..NPROC
Thread == Proc \X (1..NTHREAD)
initproc == 1
MAXVA == FAN * FAN * FAN
TRAMPOLINE == MAXVA - 1
TRAPFRAME == MAXVA - 2
Root == <<3, 0>>
PGROUNDUP(sz) == ((sz + PGSIZE - 1) \div PGSIZE) * PGSIZE
Pages(sz) == PGROUNDUP(sz) \div PGSIZE

ASSUME VmAssumption ==
  /\ {NPROC, NTHREAD, NPAGES, PGSIZE, Word} \subseteq Nat \ {0}
  /\ FAN \in Nat /\ FAN > 1 /\ Sbrk \subseteq Int
  /\ Programs \subseteq Seq(Nat)
  \* Memory ends before the address space and the numbers do.
  /\ NPAGES < TRAPFRAME /\ NPAGES * PGSIZE < Word

VARIABLES
  free,     \* length of kmem.freelist
  proc,     \* per process: state, sz, pt, user (the pages with PTE_U) and
            \* kpages (the trapframe page, user_trap_frame_backup)
  th,       \* per thread: the call in progress
  panic     \* a panic() was reached

vars == <<free, proc, th, panic>>

NoTable == [pt |-> {}, user |-> {}]
Unused == [state |-> "unused", sz |-> 0, kpages |-> 0] @@ NoTable
Idle == [pc |-> "idle", op |-> "none", old |-> 0, new |-> 0, a |-> 0,
         segs |-> <<>>] @@ NoTable

\* Every variable has its type.
TypeOK ==
  /\ free \in 0..NPAGES /\ panic \in BOOLEAN
  /\ \A p \in Proc :
       /\ proc[p].state \in {"unused", "used", "run", "zombie"}
       /\ proc[p].sz \in 0..(Word - 1)
       /\ proc[p].user \subseteq 0..(MAXVA - 1)
  /\ \A t \in Thread :
       th[t].pc \in {"idle", "alloc", "setsz", "copy", "seg", "commit"}

-----------------------------------------------------------------------------
(* kalloc(), kfree() and page tables.  m is the memory as a call sees it:  *)
(* the free pages, the table, whether the call fails, whether it panics.   *)

Mem(n, table) == [free |-> n, ok |-> TRUE, panic |-> FALSE] @@ table

\* kalloc() for the node n of the table.
Take(m, n) ==
  CASE ~m.ok     -> m
    [] m.free = 0 -> [m EXCEPT !.ok = FALSE]
    [] OTHER      -> [m EXCEPT !.free = @ - 1, !.pt = @ \cup {n}]

\* kfree() of n pages.
kfree(m, n) == [m EXCEPT !.free = @ + n]

\* walk() with alloc: the page-table pages on the way to va.
walk(m, va) ==
  LET Level(x, l) == IF <<l, va \div FAN^l>> \in x.pt
                       THEN x ELSE Take(x, <<l, va \div FAN^l>>)
  IN  Level(Level(m, 2), 1)

\* walk() without: is there an entry?
Mapped(pt, va) ==
  {Root, <<2, va \div FAN^2>>, <<1, va \div FAN>>, <<0, va>>} \subseteq pt

\* One page at va, which the caller has allocated.
mappages(m, va) ==
  LET w == walk(m, va)
  IN  CASE ~w.ok            -> w
        [] <<0, va>> \in w.pt -> [w EXCEPT !.panic = TRUE]    \* "remap"
        [] OTHER            -> [w EXCEPT !.pt = @ \cup {<<0, va>>}]

\* The pages vas; those that are freed are do_free.
uvmunmap(m, vas, do_free) ==
  [kfree(m, IF do_free THEN Cardinality(vas) ELSE 0) EXCEPT
     !.panic = @ \/ \E va \in vas : ~Mapped(m.pt, va),
     !.pt    = @ \ {<<0, va>> : va \in vas},
     !.user  = @ \ vas]

\* The page-table pages, once no page is mapped ("freewalk: leaf").
freewalk(m) ==
  [kfree(m, Cardinality({n \in m.pt : n[1] > 0})) EXCEPT
     !.panic = @ \/ \E n \in m.pt : n[1] = 0, !.pt = {}, !.user = {}]

uvmfree(m, sz) == freewalk(uvmunmap(m, 0..(Pages(sz) - 1), TRUE))

\* Mutant: the new size is rounded down.
UvmdeallocDown(m, oldsz, newsz) ==
  IF newsz >= oldsz THEN m
  ELSE uvmunmap(m, (newsz \div PGSIZE)..(Pages(oldsz) - 1), TRUE)

\* newsz >= oldsz changes nothing.
uvmdealloc(m, oldsz, newsz) ==
  IF newsz >= oldsz THEN m
                    ELSE uvmunmap(m, Pages(newsz)..(Pages(oldsz) - 1), TRUE)

\* Mutant: the page is lost when there is no memory for the table.
NewPageLost(m, va) ==
  IF m.free = 0 THEN [m EXCEPT !.ok = FALSE]
  ELSE LET w == mappages([m EXCEPT !.free = @ - 1], va)
       IN  IF w.ok THEN [w EXCEPT !.user = @ \cup {va}] ELSE w

\* One page of uvmalloc() or uvmcopy(): kalloc(), then mappages(); the page is
\* given back if there is no memory for the table.
NewPage(m, va) ==
  IF m.free = 0 THEN [m EXCEPT !.ok = FALSE]
  ELSE LET w == mappages([m EXCEPT !.free = @ - 1], va)
       IN  IF w.ok THEN [w EXCEPT !.user = @ \cup {va}]
                   ELSE kfree(w, 1)

\* Mutant: the pages copied before the failure stay mapped.
UncopyNothing(m, va) == m

\* err: the pages copied before page va are unmapped.
Uncopy(m, va) == uvmunmap(m, 0..(va - 1), TRUE)

\* An empty table in n free pages.
uvmcreate(n) == Take(Mem(n, NoTable), Root)

\* A table with the trampoline and the trapframe, or none.
proc_pagetable(n) ==
  LET m0 == uvmcreate(n)
      m1 == mappages(m0, TRAMPOLINE)
      m2 == mappages(m1, TRAPFRAME)
  IN  CASE ~m0.ok -> m0
        [] m0.ok /\ ~m1.ok -> [uvmfree(m1, 0) EXCEPT !.ok = FALSE]
        [] m1.ok /\ ~m2.ok ->
             [uvmfree(uvmunmap(m2, {TRAMPOLINE}, FALSE), 0) EXCEPT !.ok = FALSE]
        [] OTHER -> m2

proc_freepagetable(m, sz) ==
  uvmfree(uvmunmap(m, {TRAMPOLINE, TRAPFRAME}, FALSE), sz)

\* allocproc(): the trapframe page, the page table, the thread's backup page;
\* freeproc() when one fails.  The result has the process in q.  (When there
\* is no backup page, freeproc() is called a second time without the lock,
\* which a second fork() could meet: module ProcLife.)
allocproc ==
  LET m == proc_pagetable(free - 1)
  IN  CASE free = 0 -> [free |-> free, q |-> Unused, panic |-> FALSE]
        [] free > 0 /\ (~m.ok \/ m.free = 0) ->
             LET f == IF m.ok THEN proc_freepagetable(m, 0) ELSE m
             IN  [free |-> f.free + 1, q |-> Unused, panic |-> f.panic]
        [] OTHER ->
             [free |-> m.free - 1, panic |-> m.panic,
              q |-> [Unused EXCEPT !.state = "used", !.kpages = 2,
                                   !.pt = m.pt]]

-----------------------------------------------------------------------------
(* Copies between the kernel and user addresses, in chunks within a page *)

\* Mutant: the offset in the page is forgotten.
ChunkWhole(a, n) == Min({n, PGSIZE})

\* How many of n bytes at address a are in its page.
Chunk(a, n) == Min({n, PGSIZE - (a % PGSIZE)})

\* A page that walkaddr() finds.
walkaddr(q, va) == va < MAXVA /\ Mapped(q.pt, va) /\ va \in q.user

\* copyin(), copyout(): do they succeed for len bytes at the address va?
copyout(q, va, len) ==
  LET ok[n \in 0..len] ==
        LET a == va + len - n
        IN  n > 0 => /\ walkaddr(q, a \div PGSIZE)
                     /\ ok[n - Chunk(a, n)]
  IN  ok[len]

\* copyinstr(), of a string of k bytes before its NUL.
copyinstr(q, va, max, k) ==
  LET ok[n \in 0..max] ==
        LET a == va + max - n
        IN  /\ n > 0 /\ walkaddr(q, a \div PGSIZE)
            /\ va + k < a + Chunk(a, n) \/ ok[n - Chunk(a, n)]
  IN  ok[max]

-----------------------------------------------------------------------------
Table(r) == [pt |-> r.pt, user |-> r.user]

\* The memory of the process of t, and of the table that t builds.
Own(t) == Mem(free, Table(proc[t[1]]))
New(t) == Mem(free, Table(th[t]))

\* m is the memory now; the process has the table of m.
SetOwn(t, m) ==
  /\ free' = m.free /\ panic' = (panic \/ m.panic)
  /\ proc' = [proc EXCEPT ![t[1]] = Table(m) @@ @]

\* The same for a table that is not the process's yet.
SetNew(t, m, r) ==
  /\ free' = m.free /\ panic' = (panic \/ m.panic)
  /\ th' = [th EXCEPT ![t] = r @@ Table(m) @@ @]

Goto(t, r) == th' = [th EXCEPT ![t] = r @@ @]
Return(t) == th' = [th EXCEPT ![t] = Idle]

At(t, l) == proc[t[1]].state = "run" /\ th[t].pc = l /\ ~panic

\* userinit(): the first process has one page.
Init ==
  LET q == NewPage(proc_pagetable(NPAGES - 2), 0)
  IN  /\ free = q.free
      /\ proc = [p \in Proc |->
           IF p = initproc
             THEN [state |-> "run", sz |-> PGSIZE, kpages |-> 2] @@ Table(q)
             ELSE Unused]
      /\ th = [t \in Thread |-> Idle]
      /\ panic = FALSE

\* p->sz is read, without the lock.  The sum is a uint: below zero or past
\* the end it wraps, and nothing changes.
growproc(t, n) ==
  LET sz == proc[t[1]].sz
      newsz == (sz + n) % Word
  IN  \/ /\ n > 0 /\ newsz >= sz
         /\ Goto(t, [pc |-> "alloc", op |-> "grow", old |-> PGROUNDUP(sz),
                     a |-> PGROUNDUP(sz), new |-> newsz])
         /\ UNCHANGED <<free, proc, panic>>
      \/ /\ n <= 0
         /\ SetOwn(t, uvmdealloc(Own(t), sz, newsz))
         /\ Goto(t, [pc |-> "setsz", new |-> IF newsz >= sz THEN sz ELSE newsz])

sys_sbrk(t) == At(t, "idle") /\ \E n \in Sbrk : growproc(t, n)

\* uvmalloc(), one page, for growproc() or for the table of exec(); without
\* memory, uvmdealloc() of what it had allocated.
uvmalloc(t) ==
  LET grow == th[t].op = "grow"
      m == IF grow THEN Own(t) ELSE New(t)
      w == NewPage(m, th[t].a \div PGSIZE)
      d == uvmdealloc(w, th[t].a, th[t].old)
  IN  /\ At(t, "alloc") /\ th[t].a < th[t].new
      /\ \/ /\ w.ok /\ grow
            /\ SetOwn(t, w) /\ Goto(t, [a |-> th[t].a + PGSIZE])
         \/ /\ w.ok /\ ~grow
            /\ SetNew(t, w, [a |-> th[t].a + PGSIZE]) /\ UNCHANGED proc
         \/ ~w.ok /\ grow /\ SetOwn(t, d) /\ Return(t)
         \/ /\ ~w.ok /\ ~grow    \* bad: the table is freed
            /\ LET f == proc_freepagetable(d, th[t].old)
               IN  SetNew(t, f, Idle)
            /\ UNCHANGED proc

\* All pages are there.
UvmallocDone(t) ==
  /\ At(t, "alloc") /\ th[t].a >= th[t].new
  /\ Goto(t, [pc |-> CASE th[t].op = "grow"  -> "setsz"
                       [] th[t].op = "exec"  -> "seg"
                       [] th[t].op = "stack" -> "commit"])
  /\ UNCHANGED <<free, proc, panic>>

\* p->sz = sz, under the lock.
GrowDone(t) ==
  /\ At(t, "setsz")
  /\ proc' = [proc EXCEPT ![t[1]].sz = th[t].new]
  /\ Return(t) /\ UNCHANGED <<free, panic>>

-----------------------------------------------------------------------------
(* fork(), exit() and wait() *)

\* allocproc() of an unused process, which the caller holds locked.
fork(t) ==
  /\ At(t, "idle")
  /\ \E p \in Proc :
       /\ proc[p].state = "unused"
       /\ free' = allocproc.free /\ panic' = (panic \/ allocproc.panic)
       /\ proc' = [proc EXCEPT ![p] = allocproc.q]
       /\ IF allocproc.q = Unused THEN UNCHANGED th
          ELSE Goto(t, [pc |-> "copy", op |-> "fork", a |-> 0, new |-> p])

\* uvmcopy(), one page; without memory the pages copied so far are unmapped,
\* and freeproc() frees the child, whose sz is still 0.
uvmcopy(t) ==
  LET c == th[t].new
      va == th[t].a
      w == NewPage(Mem(free, Table(proc[c])), va)
      u == proc_freepagetable(Uncopy(w, va), proc[c].sz)
  IN  /\ At(t, "copy") /\ va < Pages(proc[t[1]].sz)
      /\ \/ /\ w.ok
            /\ free' = w.free
            /\ panic' = (panic \/ w.panic \/ ~Mapped(proc[t[1]].pt, va))
            /\ proc' = [proc EXCEPT ![c] = Table(
                 [w EXCEPT !.user = IF va \in proc[t[1]].user
                                      THEN @ ELSE @ \ {va}]) @@ @]
            /\ Goto(t, [a |-> va + 1])
         \/ /\ ~w.ok
            /\ free' = u.free + proc[c].kpages
            /\ panic' = (panic \/ u.panic)
            /\ proc' = [proc EXCEPT ![c] = Unused]
            /\ Return(t)

\* np->sz = p->sz; the child is runnable.
ForkDone(t) ==
  /\ At(t, "copy") /\ th[t].a >= Pages(proc[t[1]].sz)
  /\ proc' = [proc EXCEPT ![th[t].new].sz = proc[t[1]].sz,
                          ![th[t].new].state = "run"]
  /\ Return(t) /\ UNCHANGED <<free, panic>>

\* exit() of a process with one thread, which init does not call.
exit(t) ==
  /\ At(t, "idle") /\ t[1] # initproc /\ NTHREAD = 1
  /\ proc' = [proc EXCEPT ![t[1]].state = "zombie"]
  /\ UNCHANGED <<free, th, panic>>

\* wait(): freeproc() of a zombie.
freeproc(t) ==
  /\ At(t, "idle")
  /\ \E p \in Proc :
       LET m == proc_freepagetable(Mem(free, Table(proc[p])), proc[p].sz)
       IN  /\ proc[p].state = "zombie"
           /\ free' = m.free + proc[p].kpages
           /\ panic' = (panic \/ m.panic)
           /\ proc' = [proc EXCEPT ![p] = Unused]
  /\ UNCHANGED th

-----------------------------------------------------------------------------
(* exec() *)

\* proc_pagetable() for a program whose header was read.
exec(t) ==
  /\ At(t, "idle")
  /\ \E s \in Programs :
       LET m == proc_pagetable(free)
       IN  IF m.ok THEN SetNew(t, m, [pc |-> "seg", op |-> "exec", new |-> 0,
                                      segs |-> s])
                   ELSE SetNew(t, m, Idle)
  /\ UNCHANGED proc

\* bad: the table and its pages are freed.
ExecBad(t, sz) == SetNew(t, proc_freepagetable(New(t), sz), Idle)

\* The next segment: uvmalloc() up to its end, unless it cannot be read.  A
\* segment that ends below the size so far allocates nothing.
ExecSegment(t) ==
  LET sz == th[t].new
      newsz == Head(th[t].segs)
  IN  /\ At(t, "seg") /\ th[t].segs # <<>>
      /\ \/ ExecBad(t, sz)
         \/ /\ newsz >= sz /\ newsz > 0
            /\ Goto(t, [pc |-> "alloc", old |-> PGROUNDUP(sz),
                        a |-> PGROUNDUP(sz), new |-> newsz,
                        segs |-> Tail(th[t].segs)])
            /\ UNCHANGED <<free, panic>>
         \/ /\ newsz < sz /\ newsz >= 0
            /\ Goto(t, [segs |-> Tail(th[t].segs)])
            /\ UNCHANGED <<free, panic>>
      /\ UNCHANGED proc

\* Two pages at the next page boundary.
ExecStack(t) ==
  /\ At(t, "seg") /\ th[t].segs = <<>>
  /\ LET sz == PGROUNDUP(th[t].new)
     IN  Goto(t, [pc |-> "alloc", op |-> "stack", old |-> sz, a |-> sz,
                  new |-> sz + 2 * PGSIZE])
  /\ UNCHANGED <<free, proc, panic>>

\* PTE_U is taken from the page va.
uvmclear(user, va) == user \ {va}

\* The page below the stack becomes a guard; the arguments may not fit.  Then
\* the image is committed and the old one freed.
ExecCommit(t) ==
  LET sz == th[t].new
      guard == (sz \div PGSIZE) - 2
      old == proc_freepagetable(Own(t), proc[t[1]].sz)
  IN  /\ At(t, "commit")
      /\ \/ ExecBad(t, sz) /\ UNCHANGED proc
         \/ /\ free' = old.free
            /\ panic' = (panic \/ old.panic)
            /\ proc' = [proc EXCEPT
                 ![t[1]] = [pt |-> th[t].pt, user |-> uvmclear(th[t].user, guard),
                            sz |-> sz] @@ @]
            /\ Return(t)

-----------------------------------------------------------------------------
Step(t) ==
  \/ sys_sbrk(t) \/ uvmalloc(t) \/ UvmallocDone(t) \/ GrowDone(t)
  \/ fork(t) \/ uvmcopy(t) \/ ForkDone(t) \/ exit(t) \/ freeproc(t)
  \/ exec(t) \/ ExecSegment(t) \/ ExecStack(t) \/ ExecCommit(t)

Next == \E t \in Thread : Step(t)

Spec == Init /\ [][Next]_vars

-----------------------------------------------------------------------------
(* Properties *)

\* Page-table pages and user pages of a table; the trampoline and the
\* trapframe are mapped but not the table's.
Used(table) == Cardinality(table.pt \ {<<0, TRAMPOLINE>>, <<0, TRAPFRAME>>})

\* kalloc(), kfree(): every page is free or belongs to one process, whichever
\* step of growproc(), fork() or exec() finds no memory; a failed call leaks
\* nothing, and nothing is freed twice.
PagesAccounted ==
  NPAGES = free + MapThenSumSet(LAMBDA p : Used(proc[p]) + proc[p].kpages, Proc)
                + MapThenSumSet(LAMBDA t : Used(th[t]), Thread)

\* mappages(), uvmunmap(), freewalk(), uvmcopy(): none of "remap", "uvmunmap:
\* not mapped", "freewalk: leaf" and "uvmcopy: page not present" is reached.
NoPanic == ~panic

\* p->sz: while no call changes it, the process has exactly the pages below
\* its size, which uvmfree() and uvmcopy() rely on.
SizeIsMapped ==
  \A p \in Proc :
    (\A i \in 1..NTHREAD : th[<<p, i>>].op # "grow" /\ th[<<p, i>>].pc # "setsz")
      /\ proc[p].state \in {"run", "zombie"} =>
      {va \in 0..(MAXVA - 3) : Mapped(proc[p].pt, va)}
        = 0..(Pages(proc[p].sz) - 1)

\* copyin(), copyout(), copyinstr(): a copy succeeds exactly when every byte
\* it touches is in a page that the user may access, at every alignment and
\* across page boundaries, around the end of the memory and the guard page.
CopyChecksEveryPage ==
  \A p \in Proc : proc[p].state = "run" =>
    \A va \in Max({0, proc[p].sz - 2 * PGSIZE - 1})..(proc[p].sz + 1) :
      LET User(n) == \A a \in va..(va + n - 1) :
                       walkaddr(proc[p], a \div PGSIZE)
      IN  \A len \in 0..(2 * PGSIZE) :
            /\ copyout(proc[p], va, len) <=> User(len)
            /\ \A k \in 0..len :
                 copyinstr(proc[p], va, len, k) <=> k < len /\ User(k + 1)
=============================================================================
