--------------------------- MODULE StoreLockProofs ---------------------------
(***************************************************************************)
(* Mutual exclusion and freedom from leaks of the catalog lock, for any    *)
(* number of handles and calls, and its refinement of the abstract mutex.  *)
(***************************************************************************)
EXTENDS StoreLock, TLAPS

\* Every step of the lock protocol keeps the invariant; the store's actions,
\* which contain these steps, cite it.
LEMMA LockStep == LockInv /\ [LockNext]_lockVars => LockInv'
<1> SUFFICES ASSUME LockInv, [LockNext]_lockVars
             PROVE  LockInv'
  OBVIOUS
<1> USE LockAssumption
<1> USE DEF LockInv, LockTypeOK, NoLeakedLock, Inside, Stages
<1>1. ASSUME NEW w \in Workers, Request(w) PROVE LockInv'
  BY <1>1 DEF Request
<1>2. ASSUME NEW w \in Workers, AcquireMu(w) PROVE LockInv'
  BY <1>2 DEF AcquireMu
<1>3. ASSUME NEW w \in Workers, AbandonMu(w) PROVE LockInv'
  BY <1>3 DEF AbandonMu
<1>4. ASSUME NEW w \in Workers, AcquireFlock(w) PROVE LockInv'
  BY <1>4 DEF AcquireFlock
<1>5. ASSUME NEW w \in Workers, AbandonFlock(w) PROVE LockInv'
  BY <1>5 DEF AbandonFlock
<1>6. ASSUME NEW w \in Workers, UnlockFlock(w) PROVE LockInv'
  BY <1>6 DEF UnlockFlock
<1>7. ASSUME NEW w \in Workers, UnlockMu(w) PROVE LockInv'
  BY <1>7 DEF UnlockMu
<1>8. ASSUME NEW h \in Handles, Die(h) PROVE LockInv'
  BY <1>8 DEF Die
<1>9. CASE UNCHANGED lockVars
  BY <1>9 DEF lockVars
<1>10. QED
  BY <1>1, <1>2, <1>3, <1>4, <1>5, <1>6, <1>7, <1>8, <1>9 DEF LockNext, Step

LEMMA LockStart == LockInit => LockInv
BY LockAssumption DEF LockInit, LockInv, LockTypeOK, NoLeakedLock, Inside, Stages

\* Two calls inside own the same file lock, hence share a handle, hence its
\* channel slot, hence are one call.
LEMMA InsideIsOne == LockInv => MutualExclusion
BY LockAssumption DEF LockInv, MutualExclusion, Inside

\* withCatalogLock: the invariant of the two locks and of the calls between them.
THEOREM LockInvariant == LockSpec => []LockInv
<1>1. QED
  BY LockStart, LockStep, PTL DEF LockSpec

\* At most one call runs its fn, on any handle of any process.
THEOREM Exclusion == LockSpec => []MutualExclusion
BY LockInvariant, InsideIsOne, PTL

\* No lock stays taken without a call that will release it.
THEOREM NoLeak == LockSpec => []NoLeakedLock
<1>1. LockInv => NoLeakedLock
  BY DEF LockInv
<1>2. QED
  BY LockInvariant, <1>1, PTL

\* The lock protocol implements the abstract mutex.
THEOREM Refinement == LockSpec => ImplementsMutex
<1>1. LockInit => Abstract!Init
  BY DEF LockInit, Abstract!Init, Inside
<1>2. LockInv /\ [LockNext]_lockVars => [Abstract!Next]_Inside
  <2> SUFFICES ASSUME LockInv, [LockNext]_lockVars
               PROVE  [Abstract!Next]_Inside
    OBVIOUS
  <2> USE LockAssumption
  <2>1. ASSUME NEW w \in Workers, AcquireFlock(w) PROVE Abstract!Enter(w)
    <3>1. Inside = {}
      BY <2>1 DEF AcquireFlock, LockInv, LockTypeOK, Inside
    <3>2. Inside' = {w}
      BY <2>1, <3>1 DEF AcquireFlock, LockInv, LockTypeOK, Inside
    <3>3. QED
      BY <3>1, <3>2 DEF Abstract!Enter
  <2>2. ASSUME NEW w \in Workers, UnlockFlock(w) PROVE Abstract!Exit
    <3>1. Inside = {w}
      BY <2>2, InsideIsOne DEF UnlockFlock, MutualExclusion, Inside
    <3>2. Inside' = {}
      BY <2>2, <3>1 DEF UnlockFlock, LockInv, LockTypeOK, Inside
    <3>3. QED
      BY <3>1, <3>2 DEF Abstract!Exit
  <2>3. ASSUME NEW h \in Handles, Die(h) PROVE Abstract!Exit \/ Inside' = Inside
    <3>1. CASE \E w \in Inside : HandleOf[w] = h
      <4>1. PICK w \in Inside : HandleOf[w] = h
        BY <3>1
      <4>2. Inside = {w}
        BY <4>1, InsideIsOne DEF MutualExclusion
      <4>3. Inside' = {}
        BY <2>3, <4>1, <4>2 DEF Die, Inside
      <4>4. QED
        BY <4>2, <4>3 DEF Abstract!Exit
    <3>2. CASE \A w \in Inside : HandleOf[w] # h
      BY <2>3, <3>2 DEF Die, Inside
    <3>3. QED
      BY <3>1, <3>2
  <2>4. ASSUME NEW w \in Workers,
               Request(w) \/ AcquireMu(w) \/ AbandonMu(w) \/ AbandonFlock(w) \/ UnlockMu(w)
        PROVE  Inside' = Inside
    BY <2>4 DEF Request, AcquireMu, AbandonMu, AbandonFlock, UnlockMu, LockInv, LockTypeOK, Inside
  <2>5. CASE UNCHANGED lockVars
    BY <2>5 DEF lockVars, Inside
  <2>6. QED
    BY <2>1, <2>2, <2>3, <2>4, <2>5 DEF LockNext, Step, Abstract!Next
<1>3. QED
  BY <1>1, <1>2, LockInvariant, PTL DEF LockSpec, ImplementsMutex, Abstract!Spec
==============================================================================
