------------------------------ MODULE CsemInv -------------------------------
(***************************************************************************)
(* The inductive invariant of Csem, for every number of threads, every     *)
(* initial value and every size of the semaphore table.                    *)
(***************************************************************************)
EXTENDS Csem, TLAPS

\* t is between bsem_down(s1) and bsem_up(s1).
InFirst(t) ==
  pc[t] \in {"d_load", "d_store", "d_test", "d_up2", "d_up1",
             "u_load", "u_store", "u_test", "u_up2", "u_up1"}

\* t has taken s2, or is about to unlock it.
HasSecond(t) ==
  \/ pc[t] \in {"d_s1", "d_load", "d_store", "d_up2", "u_up2"}
  \/ pc[t] = "d_test" /\ value > 0
  \/ pc[t] = "u_test" /\ value = 1

\* b is an allocated entry that no other process uses.
Mine(b) == b \in Sem /\ used[b] /\ b \notin theirs

\* The entries the semaphore is made of, while it is allocated and freed.
AllocInv ==
  /\ apc # "ready" => \A t \in Thread : pc[t] = "user"
  /\ \A b \in theirs : used[b]
  /\ apc \in {"alloc2", "alloc_down", "alloc_check"} /\ s1 # -1 =>
       Mine(s1) /\ unlocked[s1]
  /\ apc \in {"alloc_down", "alloc_check"} /\ s2 # -1 => Mine(s2) /\ s1 # s2
  /\ apc = "alloc_down" /\ s2 # -1 => unlocked[s2]
  /\ apc = "alloc_check" /\ s2 # -1 => (unlocked[s2] <=> initial_value > 0)
  /\ apc \in {"ready", "free1"} => Mine(s1) /\ Mine(s2) /\ s1 # s2
  /\ apc = "free2" => Mine(s2)

\* s1 is the mutex of the threads between their two calls on it.
FirstInv ==
  apc = "ready" =>
    /\ \A t, u \in Thread : InFirst(t) /\ InFirst(u) => t = u
    /\ unlocked[s1] => \A t \in Thread : ~InFirst(t)
    /\ \A t \in Thread : pc[t] \in {"d_store", "u_store"} => tmp[t] = value

\* There is one token for s2 when the value is positive, and none otherwise.
SecondInv ==
  apc = "ready" =>
    /\ value >= 0
    /\ \A t, u \in Thread : HasSecond(t) /\ HasSecond(u) => t = u
    /\ unlocked[s2] => value > 0 /\ \A t \in Thread : ~HasSecond(t)
    /\ \A t \in Thread : HasSecond(t) => value > 0
    /\ value > 0 => unlocked[s2] \/ \E t \in Thread : HasSecond(t)

IInv == TypeOK /\ AllocInv /\ FirstInv /\ SecondInv

USE BinSemAssumption, CsemAssumption DEF Sem

\* IInv holds initially.
LEMMA InitInv == Init => IInv
<1> SUFFICES ASSUME Init PROVE IInv
  OBVIOUS
<1> USE DEF Init, BinInit
<1>1. TypeOK
  <2>1. used \in [Sem -> BOOLEAN] /\ unlocked \in [Sem -> BOOLEAN]
    OBVIOUS
  <2>2. pc \in [Thread -> {"user"} \cup DownPcs \cup UpPcs \cup AfterPcs]
    OBVIOUS
  <2>3. tmp \in [Thread -> Int] /\ value \in Int /\ apc \in APcValues
    BY DEF APcValues
  <2> QED
    BY ZenonT(30), <2>1, <2>2, <2>3 DEF TypeOK
<1>2. AllocInv /\ FirstInv /\ SecondInv
  BY DEF AllocInv, FirstInv, SecondInv
<1> QED
  BY <1>1, <1>2 DEF IInv

\* csem_alloc() and csem_free() preserve IInv: bsem_alloc() returns an entry
\* that nobody has.
LEMMA AllocStepInv ==
  ASSUME IInv, AllocStep
  PROVE  IInv'
<1> USE DEF IInv, TypeOK, AllocInv, FirstInv, SecondInv, Mine, APcValues,
            semVars, InFirst, HasSecond
<1>1. CASE AllocFirst
  BY ZenonT(30), <1>1 DEF AllocFirst, Alloc, AllocFails
<1>2. CASE AllocSecond
  <2>1. TypeOK' /\ apc' = "alloc_down" /\ pc' = pc
    BY ZenonT(30), <1>2 DEF AllocSecond, Alloc, AllocFails
  <2>2. AllocInv'
    BY <1>2, <2>1 DEF AllocSecond, Alloc, AllocFails
  <2> QED
    BY <2>1, <2>2
<1>3. CASE AllocDown
  <2>1. TypeOK' /\ apc' # "ready" /\ pc' = pc
    BY ZenonT(30), <1>3 DEF AllocDown, Down
  <2>2. AllocInv'
    BY <1>3, <2>1 DEF AllocDown, Down
  <2> QED
    BY <2>1, <2>2
<1>4. CASE AllocCheck
  BY <1>4 DEF AllocCheck
<1>5. CASE FreeValue
  BY <1>5 DEF FreeValue
<1>6. CASE FreeFirst
  BY <1>6 DEF FreeFirst, Free
<1>7. CASE FreeSecond
  <2>1. TypeOK' /\ apc' = "none" /\ pc' = pc
    BY <1>7 DEF FreeSecond, Free
  <2>2. AllocInv'
    BY <1>7, <2>1 DEF FreeSecond, Free
  <2> QED
    BY <2>1, <2>2
<1> QED
  BY ZenonT(30), <1>1, <1>2, <1>3, <1>4, <1>5, <1>6, <1>7 DEF AllocStep

\* Other processes preserve IInv: they neither get nor free the entries of the
\* semaphore.
LEMMA OtherInv ==
  ASSUME IInv, OtherAlloc \/ OtherFree
  PROVE  IInv'
<1> USE DEF IInv, TypeOK, AllocInv, FirstInv, SecondInv, Mine, APcValues,
            InFirst, HasSecond
<1>1. CASE OtherAlloc
  BY <1>1 DEF OtherAlloc, Alloc
<1>2. CASE OtherFree
  BY <1>2 DEF OtherFree, Free
<1> QED
  BY <1>1, <1>2

\* A call of csem_down() or csem_up() preserves IInv.
LEMMA EnterInv ==
  ASSUME NEW t \in Thread, IInv, Enter(t)
  PROVE  IInv'
<1> USE DEF IInv, Enter, Step, TypeOK, semVars, DownPcs, UpPcs, AfterPcs
<1>1. TypeOK' /\ AllocInv'
  BY SMTT(30) DEF AllocInv, Mine
<1>2. FirstInv'
  <2>1. \A u \in Thread : InFirst(u)' <=> InFirst(u)
    BY DEF InFirst
  <2> QED
    BY <2>1 DEF FirstInv
<1>3. SecondInv'
  <2>1. \A u \in Thread : HasSecond(u)' <=> HasSecond(u)
    BY DEF HasSecond
  <2> QED
    BY <2>1 DEF SecondInv
<1> QED
  BY <1>1, <1>2, <1>3

\* Only a thread of an allocated semaphore takes a step.
LEMMA StepIsReady ==
  ASSUME NEW t \in Thread, IInv, ThreadStep(t)
  PROVE  apc = "ready" /\ s1 \in Sem /\ s2 \in Sem /\ s1 # s2
  BY DEF IInv, AllocInv, Mine, ThreadStep, WaitSecond, WaitFirst, Load, Store,
     Test, UpSecond, UpFirst, Step

\* Taking s2 preserves IInv: the token goes from s2 to the thread.
LEMMA WaitSecondInv ==
  ASSUME NEW t \in Thread, IInv, WaitSecond(t)
  PROVE  IInv'
<1> USE DEF IInv, WaitSecond, Down, Step, TypeOK, DownPcs, UpPcs, AfterPcs
<1>0. apc = "ready" /\ s1 # s2
  BY ZenonT(30), StepIsReady DEF ThreadStep
<1>1. TypeOK' /\ AllocInv'
  BY <1>0 DEF AllocInv, Mine
<1>2. FirstInv'
  BY <1>0 DEF FirstInv, InFirst
<1>3. SecondInv'
  BY <1>0 DEF SecondInv, HasSecond
<1> QED
  BY <1>1, <1>2, <1>3

\* Taking s1 preserves IInv.
LEMMA WaitFirstInv ==
  ASSUME NEW t \in Thread, IInv, WaitFirst(t)
  PROVE  IInv'
<1> USE DEF IInv, WaitFirst, Down, Step, TypeOK, DownPcs, UpPcs, AfterPcs
<1>0. apc = "ready" /\ s1 # s2
  BY ZenonT(30), StepIsReady DEF ThreadStep
<1>1. TypeOK' /\ AllocInv'
  BY ZenonT(30), <1>0 DEF AllocInv, Mine
<1>2. FirstInv'
  BY <1>0 DEF FirstInv, InFirst
<1>3. SecondInv'
  <2>1. \A u \in Thread : HasSecond(u)' <=> HasSecond(u)
    BY DEF HasSecond
  <2> QED
    BY <1>0, <2>1 DEF SecondInv
<1> QED
  BY <1>1, <1>2, <1>3

\* Loading the value preserves IInv.
LEMMA LoadInv ==
  ASSUME NEW t \in Thread, IInv, Load(t)
  PROVE  IInv'
<1> USE DEF IInv, Load, Step, TypeOK, semVars, DownPcs, UpPcs, AfterPcs
<1>0. apc = "ready"
  BY ZenonT(30), StepIsReady DEF ThreadStep
<1>1. TypeOK' /\ AllocInv'
  BY ZenonT(30), <1>0 DEF AllocInv, Mine
<1>2. FirstInv'
  <2>1. \A u \in Thread : InFirst(u)' <=> InFirst(u)
    BY DEF InFirst
  <2>2. \A u \in Thread : pc'[u] \in {"d_store", "u_store"} => tmp'[u] = value
    BY <1>0 DEF FirstInv
  <2> QED
    BY <1>0, <2>1, <2>2 DEF FirstInv
<1>3. SecondInv'
  <2>1. \A u \in Thread : HasSecond(u)' <=> HasSecond(u)
    BY DEF HasSecond
  <2> QED
    BY <1>0, <2>1 DEF SecondInv
<1> QED
  BY <1>1, <1>2, <1>3

\* Storing the value preserves IInv: a decrement to 0 drops the token of s2,
\* an increment to 1 makes one.
LEMMA StoreInv ==
  ASSUME NEW t \in Thread, IInv, Store(t)
  PROVE  IInv'
<1> USE DEF IInv, Store, Step, TypeOK, semVars, DownPcs, UpPcs, AfterPcs
<1>0. apc = "ready" /\ tmp[t] = value /\ value' \in {value - 1, value + 1}
  BY StepIsReady DEF ThreadStep, FirstInv
<1>1. TypeOK' /\ AllocInv'
  BY SMTT(30), <1>0 DEF AllocInv, Mine
<1>2. \A u \in Thread \ {t} : ~InFirst(u)
  BY <1>0 DEF FirstInv, InFirst
<1>3. \A u \in Thread : InFirst(u)' <=> InFirst(u)
  BY DEF InFirst
<1>4. FirstInv'
  <2>1. \A u \in Thread : pc'[u] \notin {"d_store", "u_store"}
    BY ZenonT(30), <1>2 DEF InFirst
  <2> QED
    BY <1>0, <1>3, <2>1 DEF FirstInv
<1>5. \A u \in Thread \ {t} : HasSecond(u)' <=> HasSecond(u)
  BY <1>2 DEF HasSecond, InFirst
<1>6. SecondInv'
  <2>1. CASE pc[t] = "d_store"
    <3>1. HasSecond(t) /\ (HasSecond(t)' <=> value' > 0) /\ value' = value - 1
      BY <1>0, <2>1 DEF HasSecond
    <3> QED
      BY <1>0, <1>5, <3>1 DEF SecondInv
  <2>2. CASE pc[t] = "u_store"
    <3>1. ~HasSecond(t) /\ (HasSecond(t)' <=> value' = 1) /\ value' = value + 1
      BY <1>0, <2>2 DEF HasSecond
    <3> QED
      BY <1>0, <1>5, <3>1 DEF SecondInv
  <2> QED
    BY <2>1, <2>2
<1> QED
  BY <1>1, <1>4, <1>6

\* The test of the value preserves IInv.
LEMMA TestInv ==
  ASSUME NEW t \in Thread, IInv, Test(t)
  PROVE  IInv'
<1> USE DEF IInv, Test, Step, TypeOK, semVars, DownPcs, UpPcs, AfterPcs
<1>0. apc = "ready"
  BY ZenonT(30), StepIsReady DEF ThreadStep
<1>1. TypeOK' /\ AllocInv'
  BY <1>0 DEF AllocInv, Mine
<1>2. FirstInv'
  <2>1. \A u \in Thread : InFirst(u)' <=> InFirst(u)
    BY DEF InFirst
  <2> QED
    BY <1>0, <2>1 DEF FirstInv
<1>3. SecondInv'
  <2>1. \A u \in Thread : HasSecond(u)' <=> HasSecond(u)
    BY DEF HasSecond
  <2> QED
    BY <1>0, <2>1 DEF SecondInv
<1> QED
  BY <1>1, <1>2, <1>3

\* Unlocking s2 preserves IInv: the token goes from the thread to s2.
LEMMA UpSecondInv ==
  ASSUME NEW t \in Thread, IInv, UpSecond(t)
  PROVE  IInv'
<1> USE DEF IInv, UpSecond, Up, Step, TypeOK, DownPcs, UpPcs, AfterPcs
<1>0. apc = "ready" /\ s1 # s2
  BY SMTT(30), StepIsReady DEF ThreadStep
<1>1. TypeOK' /\ AllocInv'
  BY <1>0 DEF AllocInv, Mine
<1>2. FirstInv'
  <2>1. \A u \in Thread : InFirst(u)' <=> InFirst(u)
    BY DEF InFirst
  <2> QED
    BY <1>0, <2>1 DEF FirstInv
<1>3. SecondInv'
  <2>1. HasSecond(t) /\ ~HasSecond(t)'
    BY DEF HasSecond
  <2>2. \A u \in Thread \ {t} : HasSecond(u)' <=> HasSecond(u)
    BY DEF HasSecond
  <2> QED
    BY ZenonT(30), <1>0, <2>1, <2>2 DEF SecondInv
<1> QED
  BY <1>1, <1>2, <1>3

\* Unlocking s1 preserves IInv.
LEMMA UpFirstInv ==
  ASSUME NEW t \in Thread, IInv, UpFirst(t)
  PROVE  IInv'
<1> USE DEF IInv, UpFirst, Up, Step, TypeOK, DownPcs, UpPcs, AfterPcs
<1>0. apc = "ready" /\ s1 # s2
  BY SMTT(30), StepIsReady DEF ThreadStep
<1>1. TypeOK' /\ AllocInv'
  BY ZenonT(30), <1>0 DEF AllocInv, Mine
<1>2. FirstInv'
  <2>1. InFirst(t) /\ ~InFirst(t)'
    BY DEF InFirst
  <2>2. \A u \in Thread \ {t} : InFirst(u)' <=> InFirst(u)
    BY DEF InFirst
  <2>3. \A u \in Thread :
          pc'[u] \in {"d_store", "u_store"} => pc[u] \in {"d_store", "u_store"}
    OBVIOUS
  <2> QED
    BY ZenonT(30), <1>0, <2>1, <2>2, <2>3 DEF FirstInv
<1>3. SecondInv'
  <2>1. \A u \in Thread : HasSecond(u)' <=> HasSecond(u)
    BY DEF HasSecond
  <2> QED
    BY <1>0, <2>1 DEF SecondInv
<1> QED
  BY <1>1, <1>2, <1>3
=============================================================================
