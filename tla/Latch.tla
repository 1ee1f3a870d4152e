-------------------------------- MODULE Latch --------------------------------
(***************************************************************************)
(* latch: __latch_base, one atomic __counter that only goes down.          *)
(*                                                                         *)
(* wait is a loop: load the counter, return if it is zero, otherwise sleep *)
(* until it differs from the value loaded, which an intermediate           *)
(* count_down changes as well as the last one.  The notification of        *)
(* count_down does nothing in the HIP build, where the wait polls.         *)
(*                                                                         *)
(* Client: the threads share the expected count out among themselves and   *)
(* each counts down no more than its share, in any number of calls.        *)
(***************************************************************************)
EXTENDS Integers, FiniteSets

CONSTANTS Thread, Expected

ThreadAssumption == IsFiniteSet(Thread) /\ Thread # {}
ExpectedAssumption == Expected \in Nat

VARIABLES
  counter,   \* __counter
  pc,
  seen,      \* seen[t]: __current of a thread in wait
  share      \* share[t]: what t has still to count down

vars == <<counter, pc, seen, share>>

(* The arrivals that are still to come, one by one. *)
Owed == Cardinality({a \in Thread \X (1..Expected) : a[2] <= share[a[1]]})

Init ==
  /\ counter = Expected
  /\ pc = [t \in Thread |-> "idle"]
  /\ seen = [t \in Thread |-> 0]
  /\ share \in [Thread -> 0..Expected]
  /\ Owed = Expected

Lowered(n) == counter - n

(* count_down(n): the fetch_sub. *)
CountDown(t, n) ==
  /\ pc[t] = "idle"
  /\ n \in 1..share[t]
  /\ counter' = Lowered(n)
  /\ share' = [share EXCEPT ![t] = @ - n]
  /\ UNCHANGED <<pc, seen>>

(* wait, or the second half of arrive_and_wait.  A thread that still has   *)
(* to count down would wait for itself.                                    *)
CallWait(t) ==
  /\ pc[t] = "idle"
  /\ share[t] = 0
  /\ pc' = [pc EXCEPT ![t] = "wait"]
  /\ UNCHANGED <<counter, seen, share>>

(* Mutant: the last arrival is not waited for. *)
IsOpenEarly(v) == v <= 1

IsOpen(v) == v = 0

(* The load of wait. *)
LoadCounter(t) ==
  /\ pc[t] = "wait"
  /\ pc' = [pc EXCEPT ![t] = IF IsOpen(counter) THEN "passed" ELSE "asleep"]
  /\ seen' = [seen EXCEPT ![t] = counter]
  /\ UNCHANGED <<counter, share>>

(* Mutant: the thread sleeps while the counter has not grown. *)
SleepsOnLower(t) == counter <= seen[t]

(* __counter.wait(__current) goes on while the value is the one seen. *)
Sleeps(t) == counter = seen[t]

Wake(t) ==
  /\ pc[t] = "asleep"
  /\ ~Sleeps(t)
  /\ pc' = [pc EXCEPT ![t] = "wait"]
  /\ UNCHANGED <<counter, seen, share>>

(* try_wait, after which a thread that saw the latch open goes on. *)
TryWait(t) ==
  /\ pc[t] = "idle"
  /\ IsOpen(counter)
  /\ pc' = [pc EXCEPT ![t] = "passed"]
  /\ UNCHANGED <<counter, seen, share>>

Finished ==
  /\ \A t \in Thread : pc[t] = "passed"
  /\ UNCHANGED vars

ThreadStep(t) ==
  \/ \E n \in 1..Expected : CountDown(t, n)
  \/ CallWait(t)
  \/ LoadCounter(t)
  \/ Wake(t)
  \/ TryWait(t)

Next == (\E t \in Thread : ThreadStep(t)) \/ Finished

Spec == Init /\ [][Next]_vars
FairSpec == Spec /\ \A t \in Thread : WF_vars(ThreadStep(t))

-----------------------------------------------------------------------------
(* The assertion __old >= __update of count_down, as long as the threads   *)
(* together count down what they agreed on: the counter does not underflow. *)
TypeOK ==
  /\ counter \in 0..Expected
  /\ pc \in [Thread -> {"idle", "wait", "asleep", "passed"}]
  /\ seen \in [Thread -> 0..Expected]
  /\ share \in [Thread -> 0..Expected]

(* wait and try_wait let a thread through only after every arrival, and    *)
(* the latch stays open.                                                   *)
PassedMeansZero == \A t \in Thread : pc[t] = "passed" => \A u \in Thread : share[u] = 0

(* Every wait returns: a thread asleep on an intermediate value is not     *)
(* left behind.                                                            *)
WaitReturns == \A t \in Thread : pc[t] = "wait" ~> pc[t] = "passed"

=============================================================================
