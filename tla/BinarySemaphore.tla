--------------------------- MODULE BinarySemaphore ---------------------------
(***************************************************************************)
(* binary_semaphore: __atomic_semaphore_base<_Sco, 1>, the flag            *)
(* __available.  A permit is taken by exchange(0) and given by store(1).   *)
(*                                                                         *)
(* Both overwrite what is there: an attempt that fails writes the 0 it     *)
(* found, and release does not look.                                       *)
(*                                                                         *)
(* Client: the semaphore guards a resource; who holds the permit releases  *)
(* it; the first release of a semaphore constructed with 0 is another      *)
(* thread's.                                                               *)
(***************************************************************************)
EXTENDS Integers, FiniteSets

CONSTANTS
  Thread,
  Initial,     \* 0 or 1
  Remaining,   \* the times a timed call may be left with when it starts to poll
  Calls        \* bound: acquisitions the threads attempt together

ThreadAssumption == IsFiniteSet(Thread) /\ Thread # {}
InitialAssumption == Initial \in {0, 1}
RemainingAssumption == Remaining \subseteq {"zero", "nonzero"}
CallsAssumption == Calls \in Nat

VARIABLES
  available,   \* __available
  pc, kind, left, calls,
  holders,     \* history: the threads that hold a permit
  opened,      \* history: the initial permit exists
  empty        \* history, empty[t]: __available was 0 at some moment of t's call

vars == <<available, pc, kind, left, calls, holders, opened, empty>>

Init ==
  /\ available = Initial
  /\ pc = [t \in Thread |-> "idle"]
  /\ kind = [t \in Thread |-> "acquire"]
  /\ left = [t \in Thread |-> "zero"]
  /\ calls = Calls
  /\ holders = {}
  /\ opened = (Initial = 1)
  /\ empty = [t \in Thread |-> FALSE]

Watch ==
  empty' = [t \in Thread |->
              IF pc'[t] \in {"idle", "held"} THEN FALSE
              ELSE (pc[t] # "idle" /\ empty[t]) \/ available' = 0]

Goto(t, l) == pc' = [pc EXCEPT ![t] = l]

-----------------------------------------------------------------------------
Call(t, k) ==
  /\ pc[t] = "idle" /\ calls > 0
  /\ Goto(t, "try")
  /\ kind' = [kind EXCEPT ![t] = k]
  /\ calls' = calls - 1
  /\ \E r \in IF k = "timed" THEN Remaining ELSE {"zero"} : left' = [left EXCEPT ![t] = r]
  /\ UNCHANGED <<available, holders, opened>>
  /\ Watch

(* Where an unsuccessful attempt goes on. *)
Fail(t) ==
  \/ kind[t] = "try" /\ Goto(t, "idle") /\ UNCHANGED kind
  \/ kind[t] = "acquire" /\ Goto(t, "asleep") /\ UNCHANGED kind
  \/ kind[t] = "timed" /\ Goto(t, "try") /\ kind' = [kind EXCEPT ![t] = "polling"]
  \/ kind[t] = "polling" /\ Goto(t, "clock") /\ UNCHANGED kind

(* Mutant: the attempt loads the flag and leaves it. *)
LeaveFlag(v) == v

(* What an attempt leaves in __available: exchange(0). *)
Exchanged(v) == 0

(* try_acquire: 1 == __available.exchange(0) *)
TryAcquire(t) ==
  /\ pc[t] = "try"
  /\ available' = Exchanged(available)
  /\ IF available = 1
       THEN Goto(t, "held") /\ holders' = holders \cup {t} /\ UNCHANGED kind
       ELSE Fail(t) /\ UNCHANGED holders
  /\ UNCHANGED <<left, calls, opened>>
  /\ Watch

(* __available.wait(0) returns when it sees another value. *)
Wakes(t) == available # 0

Wake(t) ==
  /\ pc[t] = "asleep"
  /\ Wakes(t)
  /\ Goto(t, "try")
  /\ UNCHANGED <<available, kind, left, calls, holders, opened>>
  /\ Watch

(* As for the counting semaphore, a time of zero is no limit. *)
Timeout(t) ==
  /\ pc[t] = "clock"
  /\ left[t] # "zero"
  /\ Goto(t, "idle")
  /\ UNCHANGED <<available, kind, left, calls, holders, opened>>
  /\ Watch

PollAgain(t) ==
  /\ pc[t] = "clock"
  /\ Goto(t, "try")
  /\ UNCHANGED <<available, kind, left, calls, holders, opened>>
  /\ Watch

(* release: store(1) *)
Released == 1

Release(t) ==
  /\ pc[t] = "held"
  /\ holders' = holders \ {t}
  /\ available' = Released
  /\ Goto(t, "idle")
  /\ UNCHANGED <<kind, left, calls, opened>>
  /\ Watch

(* The first release of a semaphore constructed with 0. *)
Open ==
  /\ ~opened
  /\ opened' = TRUE
  /\ available' = Released
  /\ UNCHANGED <<pc, kind, left, calls, holders>>
  /\ Watch

ThreadStep(t) == TryAcquire(t) \/ Wake(t) \/ Timeout(t) \/ PollAgain(t)

Next ==
  \/ Open
  \/ \E t \in Thread :
       \/ \E k \in {"acquire", "try", "timed"} : Call(t, k)
       \/ ThreadStep(t)
       \/ Release(t)

Spec == Init /\ [][Next]_vars

(* Threads inside a call are scheduled, time passes, a permit held is      *)
(* given back, and a semaphore constructed with 0 is released at first.    *)
FairSpec ==
  /\ Spec
  /\ WF_vars(Open)
  /\ \A t \in Thread : WF_vars(ThreadStep(t)) /\ SF_vars(Timeout(t)) /\ WF_vars(Release(t))

-----------------------------------------------------------------------------
(* The flag is 0 or 1 and every local has its type. *)
TypeOK ==
  /\ available \in {0, 1}
  /\ pc \in [Thread -> {"idle", "try", "asleep", "clock", "held"}]
  /\ kind \in [Thread -> {"acquire", "try", "timed", "polling"}]
  /\ left \in [Thread -> {"zero", "nonzero"}]
  /\ calls \in 0..Calls
  /\ holders \subseteq Thread /\ opened \in BOOLEAN /\ empty \in [Thread -> BOOLEAN]

(* One permit exists from the first release on: it is in the flag or in    *)
(* the hands of exactly one thread.  No exchange of a thread that fails    *)
(* swallows it, and no store of a release duplicates it.                   *)
OnePermit ==
  IF opened THEN available + Cardinality(holders) = 1 ELSE available = 0 /\ holders = {}

(* Every call returns: with a bounded number of calls nobody starves.      *)
CallReturns ==
  \A t \in Thread : (pc[t] \notin {"idle", "held"}) ~> pc[t] \in {"idle", "held"}

ModeOf(t) == IF pc[t] \in {"idle", "held"} THEN "out"
             ELSE IF kind[t] = "acquire" THEN "blocking" ELSE "trying"
Abs == INSTANCE AbstractSemaphore
         WITH permits <- available, mode <- [t \in Thread |-> ModeOf(t)], MaxCount <- 1

(* The flag implements a semaphore with max() = 1. *)
Implements == Abs!SemSpec

=============================================================================
