------------------------------ MODULE StoreLock ------------------------------
(***************************************************************************)
(* Store.withCatalogLock (store/store.go:112-154): the two locks every     *)
(* mutation of a store goes through.                                       *)
(*                                                                         *)
(* A worker is one call (Commit, Remove, Prune or Verify) running in some  *)
(* goroutine; HandleOf[w] is the *Store it was made on.  A handle owns an  *)
(* in-process lock, the one-slot channel lockMu, and a flock.Flock on      *)
(* locks/catalog.lock; the operating system grants that file lock to one   *)
(* handle at a time.  flock.Flock itself is external: its TryLock succeeds *)
(* at once when the same Flock already holds the file, so the file lock    *)
(* alone cannot separate two goroutines of one handle, and its Unlock      *)
(* releases whatever the handle holds.                                     *)
(***************************************************************************)
CONSTANTS Workers,   \* calls that may be in progress
          Handles,   \* opened *Store values, each in a process of its own
          HandleOf,  \* the handle a call is made on
          NoWorker,  \* an empty lockMu channel
          NoHandle   \* an unlocked locks/catalog.lock

ASSUME LockAssumption ==
  /\ HandleOf \in [Workers -> Handles]
  /\ NoWorker \notin Workers
  /\ NoHandle \notin Handles

VARIABLES
  stage,   \* stage[w]: how far w is in withCatalogLock
  lockMu,  \* lockMu[h]: the call whose token is in handle h's channel
  flock    \* the handle that holds locks/catalog.lock

lockVars == <<stage, lockMu, flock>>

Stages == {"out",        \* not in withCatalogLock
           "waitMu",     \* in the select on lockMu and ctx.Done
           "waitFlock",  \* polling TryLockContext, lockMu taken
           "held",       \* both locks taken, running fn
           "unlocked"}   \* file lock released, lockMu still taken

LockTypeOK ==
  /\ stage \in [Workers -> Stages]
  /\ lockMu \in [Handles -> Workers \cup {NoWorker}]
  /\ flock \in Handles \cup {NoHandle}

LockInit ==
  /\ stage = [w \in Workers |-> "out"]
  /\ lockMu = [h \in Handles |-> NoWorker]
  /\ flock = NoHandle

------------------------------------------------------------------------------
\* One action per step of withCatalogLock.

Request(w) ==
  /\ stage[w] = "out"
  /\ stage' = [stage EXCEPT ![w] = "waitMu"]
  /\ UNCHANGED <<lockMu, flock>>

\* Mutant: the in-process lock is left out.
AcquireMuAnyway(w) ==
  /\ stage[w] = "waitMu"
  /\ stage' = [stage EXCEPT ![w] = "waitFlock"]
  /\ UNCHANGED <<lockMu, flock>>

AcquireMu(w) ==
  /\ stage[w] = "waitMu"
  /\ lockMu[HandleOf[w]] = NoWorker
  /\ lockMu' = [lockMu EXCEPT ![HandleOf[w]] = w]
  /\ stage' = [stage EXCEPT ![w] = "waitFlock"]
  /\ UNCHANGED flock

\* ctx is done while the channel is full, or wins the select: ErrLocked.
AbandonMu(w) ==
  /\ stage[w] = "waitMu"
  /\ stage' = [stage EXCEPT ![w] = "out"]
  /\ UNCHANGED <<lockMu, flock>>

\* Mutant: every handle is granted the file lock.
AcquireFlockShared(w) ==
  /\ stage[w] = "waitFlock"
  /\ flock' = HandleOf[w]
  /\ stage' = [stage EXCEPT ![w] = "held"]
  /\ UNCHANGED lockMu

\* One successful TryLock of the poll; the Flock is per handle (external).
AcquireFlock(w) ==
  /\ stage[w] = "waitFlock"
  /\ flock \in {NoHandle, HandleOf[w]}
  /\ flock' = HandleOf[w]
  /\ stage' = [stage EXCEPT ![w] = "held"]
  /\ UNCHANGED lockMu

\* Mutant: the token stays in the channel.
AbandonFlockKeepingMu(w) ==
  /\ stage[w] = "waitFlock"
  /\ stage' = [stage EXCEPT ![w] = "out"]
  /\ UNCHANGED <<lockMu, flock>>

\* Mutant: the context is looked at only once the file lock can be had.
AbandonFlockLate(w) ==
  /\ stage[w] = "waitFlock"
  /\ flock \in {NoHandle, HandleOf[w]}
  /\ stage' = [stage EXCEPT ![w] = "out"]
  /\ lockMu' = [lockMu EXCEPT ![HandleOf[w]] = NoWorker]
  /\ UNCHANGED flock

\* ctx is done before the file lock is free, or the lock file cannot be used:
\* the call returns and its deferred receive empties the channel.
AbandonFlock(w) ==
  /\ stage[w] = "waitFlock"
  /\ stage' = [stage EXCEPT ![w] = "out"]
  /\ lockMu' = [lockMu EXCEPT ![HandleOf[w]] = NoWorker]
  /\ UNCHANGED flock

\* Mutant: the file is never unlocked.
UnlockFlockForgotten(w) ==
  /\ stage[w] = "held"
  /\ stage' = [stage EXCEPT ![w] = "unlocked"]
  /\ UNCHANGED <<lockMu, flock>>

\* The deferred calls run last-in first-out: the file lock goes first.
UnlockFlock(w) ==
  /\ stage[w] = "held"
  /\ flock' = IF flock = HandleOf[w] THEN NoHandle ELSE flock
  /\ stage' = [stage EXCEPT ![w] = "unlocked"]
  /\ UNCHANGED lockMu

UnlockMu(w) ==
  /\ stage[w] = "unlocked"
  /\ lockMu' = [lockMu EXCEPT ![HandleOf[w]] = NoWorker]
  /\ stage' = [stage EXCEPT ![w] = "out"]
  /\ UNCHANGED flock

\* The process of handle h dies: its calls and its channel are gone, and the
\* operating system drops its file lock (external).
Die(h) ==
  /\ stage' = [w \in Workers |-> IF HandleOf[w] = h THEN "out" ELSE stage[w]]
  /\ lockMu' = [lockMu EXCEPT ![h] = NoWorker]
  /\ flock' = IF flock = h THEN NoHandle ELSE flock

Step(w) == \/ AcquireMu(w) \/ AbandonMu(w)
           \/ AcquireFlock(w) \/ AbandonFlock(w)
           \/ UnlockFlock(w) \/ UnlockMu(w)

LockNext == \/ \E w \in Workers : Request(w) \/ Step(w)
            \/ \E h \in Handles : Die(h)

LockSpec == LockInit /\ [][LockNext]_lockVars

\* A goroutine that can take a lock or return does so.  Nothing obliges a
\* caller to give its context a deadline, so Abandon* is not fair.
LockFairness ==
  \A w \in Workers : /\ WF_lockVars(AcquireMu(w))
                     /\ WF_lockVars(AcquireFlock(w))
                     /\ WF_lockVars(UnlockFlock(w))
                     /\ WF_lockVars(UnlockMu(w))

FairLockSpec == LockSpec /\ LockFairness

------------------------------------------------------------------------------
Inside == {w \in Workers : stage[w] = "held"}

\* No two calls, on one handle or on two, run their fn at the same time.
MutualExclusion == \A v, w \in Inside : v = w

\* No lock outlives the call that took it: a full channel belongs to a call that
\* is past it, and a locked file to a call that is inside.  With a leak, every
\* later call on the store would end in ErrLocked.
NoLeakedLock ==
  /\ \A h \in Handles : lockMu[h] # NoWorker =>
       /\ HandleOf[lockMu[h]] = h
       /\ stage[lockMu[h]] \in {"waitFlock", "held", "unlocked"}
  /\ flock # NoHandle => \E w \in Inside : HandleOf[w] = flock

\* What makes both inductive: a call past the channel owns its slot, and a call
\* inside owns the file lock as well.
LockInv ==
  /\ LockTypeOK
  /\ \A w \in Workers :
       stage[w] \in {"waitFlock", "held", "unlocked"} => lockMu[HandleOf[w]] = w
  /\ \A w \in Inside : flock = HandleOf[w]
  /\ NoLeakedLock

\* The lock implements the abstract mutex: a call enters only an empty section,
\* and the section empties before the next one enters, deaths included.
Abstract == INSTANCE Mutex WITH holders <- Inside
ImplementsMutex == Abstract!Spec

\* While a call polls for the file lock, some call gets inside, or the polling
\* ends.  It says nothing of one given call: the file lock is polled without a
\* queue, so a call whose context has no deadline may starve.
PollingIsNotStuck ==
  \A w \in Workers : stage[w] = "waitFlock" ~> Inside # {} \/ stage[w] # "waitFlock"

\* A deadline of its own is enough for a call to return, whatever the others do
\* ("honoring ctx's cancellation while waiting for it", store.go:113).
HasDeadline(w) == WF_lockVars(AbandonMu(w)) /\ WF_lockVars(AbandonFlock(w))
DeadlineSuffices ==
  \A w \in Workers : HasDeadline(w) => (stage[w] # "out" ~> stage[w] = "out")
==============================================================================
