-------------------------------- MODULE Csem --------------------------------
(***************************************************************************)
(* The counting semaphore library (user/Csemaphore.c), for the threads of  *)
(* one process, over the binary semaphores of module BinSem.  Loads and    *)
(* stores of sem->value are separate steps.  Other processes allocate and  *)
(* free entries of the same system-wide table.                             *)
(***************************************************************************)
EXTENDS BinSem

CONSTANTS
  Thread,       \* the threads that use the semaphore
  Initials,     \* the initial values that programs ask for
  MaxValue      \* bound on sem->value

ASSUME CsemAssumption == Initials \subseteq Nat /\ MaxValue \in Nat

VARIABLES
  s1, s2, value,    \* struct counting_semaphore
  apc, initial_value,   \* the thread that calls csem_alloc and csem_free
  pc, tmp,          \* the other threads: position, and the value loaded
  theirs,           \* entries allocated by other processes
  wild              \* bsem_down() was called with an index out of range

semVars == <<used, unlocked>>
vars == <<semVars, s1, s2, value, apc, initial_value, pc, tmp, theirs, wild>>

APcValues == {"none", "alloc2", "alloc_down", "alloc_check", "ready", "free1",
              "free2", "stuck"}
DownPcs == {"d_s2", "d_s1", "d_load", "d_store"}
UpPcs == {"u_s1", "u_load", "u_store"}
AfterPcs == {"d_test", "d_up2", "d_up1", "u_test", "u_up2", "u_up1"}

\* Every variable has its type.
TypeOK ==
  /\ used \in [Sem -> BOOLEAN] /\ unlocked \in [Sem -> BOOLEAN]
  /\ s1 \in Sem \cup {-1} /\ s2 \in Sem \cup {-1}
  /\ value \in Int
  /\ apc \in APcValues /\ initial_value \in Nat
  /\ pc \in [Thread -> {"user"} \cup DownPcs \cup UpPcs \cup AfterPcs]
  /\ tmp \in [Thread -> Int]
  /\ theirs \subseteq Sem /\ wild \in BOOLEAN

Init ==
  /\ BinInit
  /\ s1 = -1 /\ s2 = -1 /\ value = 0
  /\ apc = "none" /\ initial_value = 0
  /\ pc = [t \in Thread |-> "user"] /\ tmp = [t \in Thread |-> 0]
  /\ theirs = {} /\ wild = FALSE

-----------------------------------------------------------------------------
(* csem_alloc and csem_free *)

\* s1 = bsem_alloc()
AllocFirst ==
  /\ apc = "none"
  /\ \/ \E b \in Sem : Alloc(b) /\ s1' = b
     \/ AllocFails /\ s1' = -1
  /\ apc' = "alloc2" /\ initial_value' \in Initials
  /\ UNCHANGED <<s2, value, pc, tmp, theirs, wild>>

\* s2 = bsem_alloc()
AllocSecond ==
  /\ apc = "alloc2"
  /\ \/ \E b \in Sem : Alloc(b) /\ s2' = b
     \/ AllocFails /\ s2' = -1
  /\ apc' = "alloc_down"
  /\ UNCHANGED <<s1, value, pc, tmp, initial_value, theirs, wild>>

\* if(initial_value == 0) bsem_down(s2).  Index -1 is memory before the table,
\* where the call may find anything: it sleeps or goes on.
AllocDown ==
  /\ apc = "alloc_down"
  /\ \/ initial_value # 0 /\ apc' = "alloc_check" /\ UNCHANGED <<semVars, wild>>
     \/ initial_value = 0 /\ Down(s2) /\ apc' = "alloc_check" /\ UNCHANGED wild
     \/ /\ initial_value = 0 /\ s2 = -1
        /\ wild' = TRUE /\ apc' \in {"alloc_check", "stuck"}
        /\ UNCHANGED semVars
  /\ UNCHANGED <<s1, s2, value, initial_value, pc, tmp, theirs>>

\* The test of s1 and s2, and the assignments to *sem.  After a failure the
\* program may call csem_alloc again.
AllocCheck ==
  /\ apc = "alloc_check"
  /\ \/ /\ s1 < 0 \/ s2 < 0
        /\ apc' = "none" /\ UNCHANGED value
     \/ /\ s1 >= 0 /\ s2 >= 0
        /\ apc' = "ready" /\ value' = initial_value
  /\ initial_value' = 0
  /\ UNCHANGED <<semVars, s1, s2, pc, tmp, theirs, wild>>

\* csem_free(), called when no thread is inside csem_down or csem_up.
FreeValue ==
  /\ apc = "ready" /\ \A t \in Thread : pc[t] = "user"
  /\ value' = 0
  /\ apc' = "free1"
  /\ UNCHANGED <<semVars, s1, s2, pc, tmp, initial_value, theirs, wild>>

FreeFirst ==
  /\ apc = "free1" /\ Free(s1)
  /\ apc' = "free2"
  /\ UNCHANGED <<s1, s2, value, pc, tmp, initial_value, theirs, wild>>

FreeSecond ==
  /\ apc = "free2" /\ Free(s2)
  /\ apc' = "none"
  /\ UNCHANGED <<s1, s2, value, pc, tmp, initial_value, theirs, wild>>

-----------------------------------------------------------------------------
(* csem_down and csem_up *)

Step(t, from, to) == pc[t] = from /\ pc' = [pc EXCEPT ![t] = to]

Enter(t) ==
  /\ apc = "ready"
  /\ Step(t, "user", "d_s2") \/ (value < MaxValue /\ Step(t, "user", "u_s1"))
  /\ UNCHANGED <<semVars, s1, s2, value, apc, tmp, initial_value, theirs, wild>>

\* bsem_down(sem->s2) in csem_down
WaitSecond(t) ==
  /\ Step(t, "d_s2", "d_s1") /\ Down(s2)
  /\ UNCHANGED <<s1, s2, value, apc, tmp, initial_value, theirs, wild>>

\* Mutant of WaitFirst: csem_up does not take s1.
WaitFirstDownOnly(t) ==
  /\ \/ Step(t, "d_s1", "d_load") /\ Down(s1)
     \/ Step(t, "u_s1", "u_load") /\ UNCHANGED semVars
  /\ UNCHANGED <<s1, s2, value, apc, tmp, initial_value, theirs, wild>>

\* bsem_down(sem->s1)
WaitFirst(t) ==
  /\ Step(t, "d_s1", "d_load") \/ Step(t, "u_s1", "u_load")
  /\ Down(s1)
  /\ UNCHANGED <<s1, s2, value, apc, tmp, initial_value, theirs, wild>>

Load(t) ==
  /\ Step(t, "d_load", "d_store") \/ Step(t, "u_load", "u_store")
  /\ tmp' = [tmp EXCEPT ![t] = value]
  /\ UNCHANGED <<semVars, s1, s2, value, apc, initial_value, theirs, wild>>

\* sem->value-- and sem->value++
Store(t) ==
  /\ \/ Step(t, "d_store", "d_test") /\ value' = tmp[t] - 1
     \/ Step(t, "u_store", "u_test") /\ value' = tmp[t] + 1
  /\ UNCHANGED <<semVars, s1, s2, apc, tmp, initial_value, theirs, wild>>

\* Mutant of Test: csem_down tests sem->value > 1.
TestAboveOne(t) ==
  /\ \/ Step(t, "d_test", IF value > 1 THEN "d_up2" ELSE "d_up1")
     \/ Step(t, "u_test", IF value = 1 THEN "u_up2" ELSE "u_up1")
  /\ UNCHANGED <<semVars, s1, s2, value, apc, tmp, initial_value, theirs, wild>>

\* if(sem->value > 0) in csem_down, if(sem->value == 1) in csem_up
Test(t) ==
  /\ \/ Step(t, "d_test", IF value > 0 THEN "d_up2" ELSE "d_up1")
     \/ Step(t, "u_test", IF value = 1 THEN "u_up2" ELSE "u_up1")
  /\ UNCHANGED <<semVars, s1, s2, value, apc, tmp, initial_value, theirs, wild>>

\* bsem_up(sem->s2)
UpSecond(t) ==
  /\ Step(t, "d_up2", "d_up1") \/ Step(t, "u_up2", "u_up1")
  /\ Up(s2)
  /\ UNCHANGED <<s1, s2, value, apc, tmp, initial_value, theirs, wild>>

\* bsem_up(sem->s1), and return
UpFirst(t) ==
  /\ Step(t, "d_up1", "user") \/ Step(t, "u_up1", "user")
  /\ Up(s1)
  /\ UNCHANGED <<s1, s2, value, apc, tmp, initial_value, theirs, wild>>

-----------------------------------------------------------------------------
(* Other processes *)

OtherAlloc ==
  /\ \E b \in Sem : Alloc(b) /\ theirs' = theirs \cup {b}
  /\ UNCHANGED <<s1, s2, value, apc, pc, tmp, initial_value, wild>>

OtherFree ==
  /\ \E b \in theirs : Free(b) /\ theirs' = theirs \ {b}
  /\ UNCHANGED <<s1, s2, value, apc, pc, tmp, initial_value, wild>>

AllocStep ==
  \/ AllocFirst \/ AllocSecond \/ AllocDown \/ AllocCheck
  \/ FreeValue \/ FreeFirst \/ FreeSecond

ThreadStep(t) ==
  \/ WaitSecond(t) \/ WaitFirst(t) \/ Load(t) \/ Store(t) \/ Test(t)
  \/ UpSecond(t) \/ UpFirst(t)

Next ==
  \/ AllocStep
  \/ \E t \in Thread : Enter(t)
  \/ \E t \in Thread : ThreadStep(t)
  \/ OtherAlloc \/ OtherFree

Spec == Init /\ [][Next]_vars

(* Fairness: threads that are not blocked go on.  A binary semaphore that   *)
(* is unlocked while threads wait for it goes to one of them (DownSucceeds  *)
(* of module Bsem), not to any given one.                                   *)
FairSpec ==
  /\ Spec
  /\ \A t \in Thread :
       WF_vars(Load(t) \/ Store(t) \/ Test(t) \/ UpSecond(t) \/ UpFirst(t))
  /\ WF_vars(\E t \in Thread : WaitSecond(t))
  /\ WF_vars(\E t \in Thread : WaitFirst(t))

-----------------------------------------------------------------------------
(* Properties *)

\* The abstract phase of a thread: a call takes effect at the store.
Phase(t) ==
  CASE pc[t] \in DownPcs -> "down"
    [] pc[t] \in UpPcs -> "up"
    [] pc[t] \in AfterPcs -> "done"
    [] OTHER -> "idle"

Abstract == INSTANCE CountSem WITH
              count <- value, phase <- [t \in Thread |-> Phase(t)]

\* csem_down and csem_up implement a counting semaphore: each call takes effect
\* in one step, and no down takes effect while the value is 0.
ImplementsCountSem == Abstract!CountSpec

\* s2 is unlocked exactly when the value is positive and no thread is busy
\* with it: the value and s2 cannot drift apart over any sequence of calls.
SecondTracksValue ==
  apc = "ready" /\ (\A t \in Thread : pc[t] \in {"user", "d_s2", "u_s1"}) =>
    (unlocked[s2] <=> value > 0)

\* No wakeup is lost: while the value is positive and a thread waits in
\* csem_down, some csem_down gets through.
DownGetsThrough ==
  (value > 0 /\ \E t \in Thread : pc[t] = "d_s2") ~>
    (value = 0 \/ \E t \in Thread : pc[t] \in {"d_load", "d_store", "d_test"})

\* csem_alloc() never calls bsem_down() with the failure value of bsem_alloc().
DownsValidIndex == ~wild
=============================================================================
