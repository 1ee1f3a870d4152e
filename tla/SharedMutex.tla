----------------------------- MODULE SharedMutex -----------------------------
(***************************************************************************)
(* __shared_mutex_base, shared_mutex and shared_timed_mutex: the state     *)
(* word is a "write entered" bit and a number of readers.  Readers and     *)
(* writers that find a writer entered wait at gate 1; the writer that has  *)
(* entered waits at gate 2 for the readers inside.  Everything happens     *)
(* under one mutex, so a critical section is one step.                     *)
(***************************************************************************)
EXTENDS Naturals, FiniteSets

CONSTANTS Thread,
  Readers,      \* __n_readers_, the greatest number of readers
  Calls         \* bound: locking calls the threads make together

ReadersAssumption == Readers \in Nat \ {0} /\ Calls \in Nat

VARIABLES
  entered, readers,   \* __state_
  pc,                 \* "out", "writing", "reading", or at a gate
  kind,               \* kind[t]: what t is waiting for, "write" or "read"
  timed,              \* timed[t]: t is in one of the _for and _until calls
  calls

vars == <<entered, readers, pc, kind, timed, calls>>

Init ==
  /\ entered = FALSE /\ readers = 0
  /\ pc = [t \in Thread |-> "out"]
  /\ kind = [t \in Thread |-> "read"]
  /\ timed = [t \in Thread |-> FALSE]
  /\ calls = Calls

Go(t, l) == pc' = [pc EXCEPT ![t] = l]

(* The condition at gate 1. *)
MayEnter(k) == ~entered /\ (k = "read" => readers < Readers)

(* Mutant: the writer does not wait for the readers inside. *)
WriterWaitsNever == FALSE

WriterWaits == readers > 0

(* Past gate 1. *)
Enter(t, k) ==
  IF k = "write"
    THEN /\ entered' = TRUE /\ UNCHANGED readers
         /\ Go(t, IF WriterWaits THEN "gate2" ELSE "writing")
    ELSE readers' = readers + 1 /\ Go(t, "reading") /\ UNCHANGED entered

(* lock, lock_shared and the _for and _until calls up to the first wait. *)
Lock(t) ==
  /\ pc[t] = "out" /\ calls > 0
  /\ calls' = calls - 1
  /\ \E k \in {"write", "read"}, b \in BOOLEAN :
       /\ kind' = [kind EXCEPT ![t] = k]
       /\ timed' = [timed EXCEPT ![t] = b]
       /\ IF MayEnter(k) THEN Enter(t, k)
          ELSE Go(t, "gate1") /\ UNCHANGED <<entered, readers>>

(* try_lock and try_lock_shared where they succeed. *)
TryLock(t) ==
  /\ pc[t] = "out" /\ calls > 0
  /\ calls' = calls - 1
  /\ ~entered /\ readers = 0
  /\ entered' = TRUE /\ Go(t, "writing")
  /\ UNCHANGED <<readers, kind, timed>>

TryLockShared(t) ==
  /\ pc[t] = "out" /\ calls > 0
  /\ calls' = calls - 1
  /\ ~entered /\ readers # Readers
  /\ readers' = readers + 1 /\ Go(t, "reading")
  /\ UNCHANGED <<entered, kind, timed>>

(* A thread notified at a gate, or woken for no reason, tests again. *)
Retry(t) ==
  /\ \/ /\ pc[t] = "woken1"
        /\ IF MayEnter(kind[t]) THEN Enter(t, kind[t])
           ELSE Go(t, "gate1") /\ UNCHANGED <<entered, readers>>
     \/ /\ pc[t] = "woken2"
        /\ Go(t, IF WriterWaits THEN "gate2" ELSE "writing")
        /\ UNCHANGED <<entered, readers>>
  /\ UNCHANGED <<kind, timed, calls>>

SpuriousWake(t) ==
  /\ \/ pc[t] = "gate1" /\ Go(t, "woken1")
     \/ pc[t] = "gate2" /\ Go(t, "woken2")
  /\ UNCHANGED <<entered, readers, kind, timed, calls>>

AtGate1 == {t \in Thread : pc[t] = "gate1"}
AtGate2 == {t \in Thread : pc[t] = "gate2"}

NotifyAllGate1(others) == [t \in Thread |-> IF t \in AtGate1 THEN "woken1" ELSE others[t]]

(* Mutant: a writer that gives up leaves the others where they are. *)
GivesUpSilently(others) == others

GivesUp(others) == NotifyAllGate1(others)

(* The time is up, perhaps of a thread that was notified as well; the      *)
(* condition is tested first.  A writer that gives up at gate 2 takes its  *)
(* bit back and opens gate 1.                                              *)
TimeOut(t) ==
  /\ timed[t]
  /\ \/ /\ pc[t] \in {"gate1", "woken1"}
        /\ IF MayEnter(kind[t]) THEN Enter(t, kind[t])
           ELSE Go(t, "out") /\ UNCHANGED <<entered, readers>>
     \/ /\ pc[t] \in {"gate2", "woken2"}
        /\ IF readers = 0
             THEN Go(t, "writing") /\ UNCHANGED entered
             ELSE entered' = FALSE /\ pc' = GivesUp([pc EXCEPT ![t] = "out"])
        /\ UNCHANGED readers
  /\ UNCHANGED <<kind, timed, calls>>

Unlock(t) ==
  /\ pc[t] = "writing"
  /\ entered' = FALSE /\ readers' = 0
  /\ pc' = NotifyAllGate1([pc EXCEPT ![t] = "out"])
  /\ UNCHANGED <<kind, timed, calls>>

NotifyOne(asleep, awake, others) ==
  IF asleep = {} THEN pc' = others
  ELSE \E u \in asleep : pc' = [others EXCEPT ![u] = awake]

LastReader == readers' = 0

(* unlock_shared: the last reader lets the writer in; without a writer the *)
(* one that was over the limit makes room for another reader.              *)
UnlockShared(t) ==
  /\ pc[t] = "reading"
  /\ readers' = readers - 1
  /\ LET others == [pc EXCEPT ![t] = "out"] IN
       \/ entered /\ LastReader /\ NotifyOne(AtGate2, "woken2", others)
       \/ entered /\ ~LastReader /\ pc' = others
       \/ ~entered /\ readers' = Readers - 1 /\ NotifyOne(AtGate1, "woken1", others)
       \/ ~entered /\ readers' # Readers - 1 /\ pc' = others
  /\ UNCHANGED <<entered, kind, timed, calls>>

ThreadStep(t) == Retry(t) \/ Unlock(t) \/ UnlockShared(t)

Next == \E t \in Thread :
  Lock(t) \/ TryLock(t) \/ TryLockShared(t) \/ SpuriousWake(t) \/ TimeOut(t) \/ ThreadStep(t)

Spec == Init /\ [][Next]_vars

(* Threads are scheduled and whoever holds the lock lets it go. *)
FairSpec == Spec /\ \A t \in Thread : WF_vars(ThreadStep(t))

-----------------------------------------------------------------------------
(* The word says who is inside, and a writer is inside alone: the bit is   *)
(* set by exactly the one writer that is in or waits at gate 2, the count  *)
(* is the number of readers.                                               *)
Exclusion ==
  /\ readers = Cardinality({t \in Thread : pc[t] = "reading"})
  /\ Cardinality({t \in Thread : pc[t] \in {"gate2", "woken2", "writing"}}) = (IF entered THEN 1 ELSE 0)
  /\ (\E t \in Thread : pc[t] = "writing") => readers = 0

(* A writer asleep at gate 2 still has readers before it. *)
WriterNotForgotten == AtGate2 # {} => readers > 0

(* Who sleeps at gate 1 while he might enter has somebody awake before     *)
(* him at the gate: no opening of the gate goes unannounced.               *)
NoneForgotten ==
  \A t \in AtGate1 : MayEnter(kind[t]) => \E u \in Thread : pc[u] = "woken1"

(* Every locking call returns, if every owner lets go. *)
CallReturns == \A t \in Thread :
  pc[t] \in {"gate1", "woken1", "gate2", "woken2"} ~> pc[t] \in {"out", "writing", "reading"}

=============================================================================
