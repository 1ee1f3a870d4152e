-------------------------- MODULE CountingSemaphore --------------------------
(***************************************************************************)
(* counting_semaphore: __atomic_semaphore_base with one atomic __count.    *)
(*                                                                         *)
(* A permit is taken by a load of __count and a loop of compare_exchange;  *)
(* acquire goes to sleep in __wait_slow between two attempts, the timed    *)
(* calls poll.  The notifications of release do nothing in the HIP build,  *)
(* where __count.wait polls.  A compare_exchange_weak that fails without a *)
(* reason leaves __old as it was: a step that changes nothing.             *)
(*                                                                         *)
(* Client: release keeps the count within max().                           *)
(***************************************************************************)
EXTENDS Integers, FiniteSets

CONSTANTS
  Thread,
  Initial,     \* the desired count of the constructor
  MaxCount,    \* max(), bounded
  Batch,       \* the arguments of release
  Remaining,   \* the times a timed call may be left with when it starts to poll
  Calls        \* bound: calls the threads make together

ASSUME ThreadAssumption == IsFiniteSet(Thread) /\ Thread # {}
ASSUME CountAssumption == MaxCount \in Nat /\ Initial \in 0..MaxCount
ASSUME BatchAssumption == Batch \subseteq Nat \ {0}
ASSUME RemainingAssumption == Remaining \subseteq {"zero", "nonzero"}
ASSUME CallsAssumption == Calls \in Nat

VARIABLES
  count,     \* __count
  pc,
  kind,      \* kind[t]: which operation t is in
  old,       \* old[t]: __old
  left,      \* left[t]: __rel_time of a timed call
  calls,     \* calls the threads may still make
  empty      \* history, empty[t]: __count was 0 at some moment of t's call

vars == <<count, pc, kind, old, left, calls, empty>>

Kinds == {"acquire", "try", "timed", "polling"}
Labels == {"idle", "load", "cas", "waitload", "asleep", "poll", "clock"}

Init ==
  /\ count = Initial
  /\ pc = [t \in Thread |-> "idle"]
  /\ kind = [t \in Thread |-> "acquire"]
  /\ old = [t \in Thread |-> 0]
  /\ left = [t \in Thread |-> "zero"]
  /\ calls = Calls
  /\ empty = [t \in Thread |-> FALSE]

(* The history of a step: a call under way watches __count. *)
Watch ==
  empty' = [t \in Thread |->
              IF pc'[t] = "idle" THEN FALSE
              ELSE (pc[t] # "idle" /\ empty[t]) \/ count' = 0]

Goto(t, l) == pc' = [pc EXCEPT ![t] = l] /\ UNCHANGED kind

(* The call returns and its locals are gone. *)
Return(t) ==
  /\ pc' = [pc EXCEPT ![t] = "idle"]
  /\ kind' = [kind EXCEPT ![t] = "acquire"]
  /\ old' = [old EXCEPT ![t] = 0]
  /\ left' = [left EXCEPT ![t] = "zero"]

-----------------------------------------------------------------------------
(* The call of acquire, try_acquire or a timed acquire: it starts with     *)
(* __fetch_sub_if.                                                         *)
Call(t, k) ==
  /\ pc[t] = "idle" /\ calls > 0
  /\ pc' = [pc EXCEPT ![t] = "load"]
  /\ kind' = [kind EXCEPT ![t] = k]
  /\ calls' = calls - 1
  /\ \E r \in IF k = "timed" THEN Remaining ELSE {"zero"} : left' = [left EXCEPT ![t] = r]
  /\ UNCHANGED <<count, old>>
  /\ Watch

(* An attempt that found the semaphore empty: try_acquire returns false,   *)
(* acquire waits, a timed call begins or goes on to poll.                  *)
Fail(t) ==
  \/ kind[t] = "try" /\ Return(t)
  \/ /\ kind[t] # "try"
     /\ pc' = [pc EXCEPT ![t] = CASE kind[t] = "acquire" -> "waitload"
                                  [] kind[t] = "timed" -> "poll"
                                  [] kind[t] = "polling" -> "clock"]
     /\ kind' = [kind EXCEPT ![t] = IF @ = "timed" THEN "polling" ELSE @]
     /\ old' = [old EXCEPT ![t] = 0]
     /\ UNCHANGED left

Empty(v) == v = 0

(* Go on with the value v read or returned by a compare_exchange. *)
With(t, v) ==
  IF Empty(v) THEN Fail(t)
  ELSE Goto(t, "cas") /\ old' = [old EXCEPT ![t] = v] /\ UNCHANGED left

(* The load of __fetch_sub_if, or of the polled function. *)
LoadCount(t) ==
  /\ pc[t] \in {"load", "poll"}
  /\ With(t, count)
  /\ UNCHANGED <<count, calls>>
  /\ Watch

(* Mutant: a plain store instead of a compare_exchange. *)
StoreBlindly(t) == TRUE

CasMatches(t) == count = old[t]

CasSucceeds(t) ==
  /\ pc[t] = "cas"
  /\ CasMatches(t)
  /\ count' = old[t] - 1
  /\ Return(t)
  /\ UNCHANGED calls
  /\ Watch

(* Mutant: an attempt gives up as soon as another thread interferes. *)
GivesUp(t) == Fail(t)

(* __fetch_sub_if_slow goes on with the value it found. *)
Retries(t) == With(t, count)

CasFails(t) ==
  /\ pc[t] = "cas"
  /\ ~CasMatches(t)
  /\ Retries(t)
  /\ UNCHANGED <<count, calls>>
  /\ Watch

(* Mutant: __wait_slow sleeps whatever it finds. *)
SleepsAlways(t) == TRUE

(* if(__old != 0) break *)
Sleeps(t) == count = 0

(* __wait_slow: the load, and back to try_acquire or to sleep. *)
WaitLoad(t) ==
  /\ pc[t] = "waitload"
  /\ Goto(t, IF Sleeps(t) THEN "asleep" ELSE "load")
  /\ old' = [old EXCEPT ![t] = count]
  /\ UNCHANGED <<count, left, calls>>
  /\ Watch

(* __count.wait(__old) returns when it sees another value. *)
Wake(t) ==
  /\ pc[t] = "asleep"
  /\ count # old[t]
  /\ Goto(t, "waitload")
  /\ UNCHANGED <<count, old, left, calls>>
  /\ Watch

(* __libcpp_thread_poll_with_backoff: the time is compared only if it is   *)
(* not zero, which is also the default argument for "no limit".            *)
HasLimit(t) == left[t] # "zero"

Timeout(t) ==
  /\ pc[t] = "clock"
  /\ HasLimit(t)
  /\ Return(t)
  /\ UNCHANGED <<count, calls>>
  /\ Watch

PollAgain(t) ==
  /\ pc[t] = "clock"
  /\ Goto(t, "poll")
  /\ UNCHANGED <<count, old, left, calls>>
  /\ Watch

(* release(n): the fetch_add; the notifications change nothing here. *)
Release(t, n) ==
  /\ pc[t] = "idle" /\ calls > 0
  /\ count + n <= MaxCount
  /\ count' = count + n
  /\ calls' = calls - 1
  /\ UNCHANGED <<pc, kind, old, left>>
  /\ Watch

ThreadStep(t) ==
  \/ LoadCount(t)
  \/ CasSucceeds(t)
  \/ CasFails(t)
  \/ WaitLoad(t)
  \/ Wake(t)
  \/ PollAgain(t)
  \/ Timeout(t)

Next ==
  \E t \in Thread :
    \/ \E k \in {"acquire", "try", "timed"} : Call(t, k)
    \/ \E n \in Batch : Release(t, n)
    \/ ThreadStep(t)

Spec == Init /\ [][Next]_vars

(* A thread inside a call is scheduled again, and time passes. *)
FairSpec ==
  /\ Spec
  /\ \A t \in Thread : WF_vars(ThreadStep(t)) /\ SF_vars(Timeout(t))

-----------------------------------------------------------------------------
Acquiring == {t \in Thread : pc[t] # "idle" /\ kind[t] = "acquire"}

(* The count never becomes negative or exceeds max(). *)
TypeOK ==
  /\ count \in 0..MaxCount
  /\ pc \in [Thread -> Labels] /\ kind \in [Thread -> Kinds]
  /\ old \in [Thread -> 0..MaxCount]
  /\ left \in [Thread -> {"zero", "nonzero"}]
  /\ calls \in 0..Calls
  /\ empty \in [Thread -> BOOLEAN]

(* The history: a call watches __count from its beginning to its end. *)
EmptyIsSeen ==
  \A t \in Thread : IF pc[t] = "idle" THEN ~empty[t] ELSE count = 0 => empty[t]

(* "fail only if not __available": a call that has given an attempt up has *)
(* met an empty semaphore, whatever the other threads did meanwhile; so    *)
(* try_acquire does not fail because of contention alone, and acquire      *)
(* sleeps on nothing but zero.                                             *)
GivesUpOnlyWhenEmpty ==
  /\ EmptyIsSeen
  /\ \A t \in Thread :
       /\ pc[t] \in {"waitload", "asleep"} => empty[t] /\ kind[t] = "acquire"
       /\ pc[t] \in {"poll", "clock"} => empty[t] /\ kind[t] = "polling"
       /\ pc[t] = "cas" => old[t] > 0
       /\ pc[t] = "asleep" => old[t] = 0

(* The count stays within 0..max() and no attempt is given up without the  *)
(* semaphore having been empty: the inductive invariant of the proofs.     *)
CountInv == TypeOK /\ GivesUpOnlyWhenEmpty

(* A permit and a thread in acquire do not stay with each other for ever:  *)
(* the callers cannot all be asleep, or keep each other from taking it.    *)
PermitIsTaken ==
  (count > 0 /\ Acquiring # {}) ~> (count = 0 \/ Acquiring = {})

(* try_acquire, try_acquire_for and try_acquire_until return. *)
TimedReturns ==
  \A t \in Thread : (pc[t] # "idle" /\ kind[t] # "acquire") ~> pc[t] = "idle"

ModeOf(t) == IF pc[t] = "idle" THEN "out"
             ELSE IF kind[t] = "acquire" THEN "blocking" ELSE "trying"
Abs == INSTANCE AbstractSemaphore WITH permits <- count, mode <- [t \in Thread |-> ModeOf(t)]

(* The loop of compare_exchange takes permits as if in one step. *)
Implements == Abs!SemSpec

=============================================================================
