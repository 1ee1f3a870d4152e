----------------------------- MODULE AtomicWait -----------------------------
(***************************************************************************)
(* wait and notify of atomics on hosts where a thread can sleep.  A thread *)
(* announces itself in the entry of the contention table the address maps  *)
(* to, tests the value once more and sleeps; a notifier looks whether      *)
(* anyone is announced before it makes the system call.  Three variants:   *)
(*   "version": a futex on a version number in the entry                   *)
(*   "native":  a futex on the atomic itself, which has the futex' type    *)
(*   "condvar": a mutex and a condition variable in the entry              *)
(* Other atomics may map to the same entry, so a notification may come     *)
(* without a store to this one.                                            *)
(***************************************************************************)
EXTENDS Naturals, FiniteSets

CONSTANTS
  Waiter, Notifier,
  Variant,
  Timed,       \* the futex wait of "version" has its time limit
  Value,       \* the values of the atomic
  NoThread,
  Waits,       \* bound: calls of wait
  Notifies     \* bound: calls of notify_one and notify_all

VariantAssumption == Variant \in {"version", "native", "condvar"} /\ Timed \in BOOLEAN
ThreadAssumption == Waiter \cap Notifier = {} /\ NoThread \notin Waiter \cup Notifier
BoundAssumption == Waits \in Nat /\ Notifies \in Nat

VARIABLES
  a,          \* the value of the atomic
  announced,  \* __waiters, or __credit of "condvar"
  version,    \* __version
  lock,       \* the thread that holds __mutex
  pc,
  val,        \* val[w]: the value w waits to see replaced
  ver,        \* ver[w]: the version w has read
  left        \* [waits, notifies] that may still be called

vars == <<a, announced, version, lock, pc, val, ver, left>>

Init ==
  /\ a \in Value
  /\ announced = 0 /\ version = 0 /\ lock = NoThread
  /\ pc = [t \in Waiter \cup Notifier |-> "idle"]
  /\ val = [w \in Waiter |-> a]
  /\ ver = [w \in Waiter |-> 0]
  /\ left = [waits |-> Waits, notifies |-> Notifies]

Go(t, l) == pc' = [pc EXCEPT ![t] = l]

-----------------------------------------------------------------------------
(* The waiting side. *)

Wait(w) ==
  /\ pc[w] = "idle" /\ left.waits > 0
  /\ \E v \in Value : val' = [val EXCEPT ![w] = v]
  /\ left' = [left EXCEPT !.waits = @ - 1]
  /\ Go(w, "test")
  /\ UNCHANGED <<a, announced, version, lock, ver>>

(* Polling, then the test of the loop around __cxx_atomic_try_wait_slow. *)
Test(w) ==
  /\ pc[w] = "test"
  /\ Go(w, IF a # val[w] THEN "idle" ELSE IF Variant = "condvar" THEN "lock" ELSE "announce")
  /\ UNCHANGED <<a, announced, version, lock, val, ver, left>>

Lock(w) ==
  /\ pc[w] = "lock" /\ lock = NoThread
  /\ lock' = w
  /\ Go(w, "announce")
  /\ UNCHANGED <<a, announced, version, val, ver, left>>

Announced == IF Variant = "native" THEN announced + 1 ELSE 1

Announce(w) ==
  /\ pc[w] = "announce"
  /\ announced' = Announced
  /\ Go(w, CASE Variant = "version" -> "version"
             [] Variant = "native"  -> "sleep"
             [] Variant = "condvar" -> "check")
  /\ UNCHANGED <<a, version, lock, val, ver, left>>

LoadVersion(w) ==
  /\ pc[w] = "version"
  /\ ver' = [ver EXCEPT ![w] = version]
  /\ Go(w, "check")
  /\ UNCHANGED <<a, announced, version, lock, val, left>>

(* Mutant: the thread does not look again. *)
StillThereUnread(w) == TRUE

StillThere(w) == a = val[w]

(* The test between announcement and sleep.  With the condition variable   *)
(* going to sleep gives the mutex up in the same step.                     *)
Check(w) ==
  /\ pc[w] = "check"
  /\ IF Variant = "condvar"
       THEN lock' = NoThread /\ Go(w, IF StillThere(w) THEN "asleep" ELSE "test")
       ELSE Go(w, IF StillThere(w) THEN "sleep" ELSE "test") /\ UNCHANGED lock
  /\ UNCHANGED <<a, announced, version, val, ver, left>>

(* The futex call sleeps only if the word has the value it is given. *)
FutexWait(w) ==
  /\ pc[w] = "sleep"
  /\ LET same == IF Variant = "version" THEN version = ver[w] ELSE a = val[w]
     IN  Go(w, IF same THEN "asleep" ELSE "woken")
  /\ UNCHANGED <<a, announced, version, lock, val, ver, left>>

Expires == Timed /\ Variant = "version"

TimeOut(w) ==
  /\ Expires /\ pc[w] = "asleep"
  /\ Go(w, "woken")
  /\ UNCHANGED <<a, announced, version, lock, val, ver, left>>

(* After the sleep: "native" withdraws its announcement, "condvar" takes   *)
(* and gives up the mutex.                                                 *)
Woken(w) ==
  /\ pc[w] = "woken"
  /\ Variant = "condvar" => lock = NoThread
  /\ announced' = IF Variant = "native" THEN announced - 1 ELSE announced
  /\ Go(w, "test")
  /\ UNCHANGED <<a, version, lock, val, ver, left>>

-----------------------------------------------------------------------------
(* The notifying side. *)

(* A store with its notification, or one on behalf of another atomic. *)
Notify(n) ==
  /\ pc[n] = "idle" /\ left.notifies > 0
  /\ a' \in Value
  /\ left' = [left EXCEPT !.notifies = @ - 1]
  /\ Go(n, IF Variant = "version" THEN "bump" ELSE "look")
  /\ UNCHANGED <<announced, version, lock, val, ver>>

Bump(n) ==
  /\ pc[n] = "bump"
  /\ version' = version + 1
  /\ Go(n, "take")
  /\ UNCHANGED <<a, announced, lock, val, ver, left>>

(* The load of __waiters ("native") or __credit. *)
Look(n) ==
  /\ pc[n] = "look"
  /\ Go(n, IF announced = 0 THEN "idle" ELSE IF Variant = "native" THEN "wake" ELSE "take")
  /\ UNCHANGED <<a, announced, version, lock, val, ver, left>>

(* Mutant: the mutex is not taken between exchange and broadcast. *)
AfterTakeAtOnce == "wake"

AfterTake == IF Variant = "condvar" THEN "barrier" ELSE "wake"

(* The exchange with 0. *)
Take(n) ==
  /\ pc[n] = "take"
  /\ announced' = 0
  /\ Go(n, IF announced = 0 THEN "idle" ELSE AfterTake)
  /\ UNCHANGED <<a, version, lock, val, ver, left>>

(* Lock and unlock: a thread that is announced is asleep afterwards. *)
LockUnlock(n) ==
  /\ pc[n] = "barrier" /\ lock = NoThread
  /\ Go(n, "wake")
  /\ UNCHANGED <<a, announced, version, lock, val, ver, left>>

Asleep == {w \in Waiter : pc[w] = "asleep"}

(* All threads that sleep on the entry or the atomic are woken.  (The      *)
(* notify_one of "native" wakes one of them; with one thread to wake that  *)
(* is the same.)                                                           *)
Wake(n) ==
  /\ pc[n] = "wake"
  /\ pc' = [t \in DOMAIN pc |-> IF t = n THEN "idle" ELSE IF t \in Asleep THEN "woken" ELSE pc[t]]
  /\ UNCHANGED <<a, announced, version, lock, val, ver, left>>

-----------------------------------------------------------------------------
WaiterStep(w) ==
  \/ Test(w) \/ Lock(w) \/ Announce(w) \/ LoadVersion(w) \/ Check(w) \/ FutexWait(w) \/ TimeOut(w) \/ Woken(w)

NotifierStep(n) == Bump(n) \/ Look(n) \/ Take(n) \/ LockUnlock(n) \/ Wake(n)

Next ==
  \/ \E w \in Waiter : Wait(w) \/ WaiterStep(w)
  \/ \E n \in Notifier : Notify(n) \/ NotifierStep(n)

Spec == Init /\ [][Next]_vars

(* Threads are scheduled and time limits expire. *)
FairSpec ==
  /\ Spec
  /\ \A w \in Waiter : WF_vars(WaiterStep(w))
  /\ \A n \in Notifier : WF_vars(NotifierStep(n))

-----------------------------------------------------------------------------
(* __waiters of the native variant counts the threads between announcement *)
(* and withdrawal; the mutex is held by a thread that is inside.           *)
TypeOK ==
  /\ a \in Value /\ val \in [Waiter -> Value]
  /\ version \in 0..Notifies /\ \A w \in Waiter : ver[w] \in 0..version
  /\ announced = IF Variant = "native"
                   THEN Cardinality({w \in Waiter : pc[w] \in {"sleep", "asleep", "woken"}})
                   ELSE IF announced = 0 THEN 0 ELSE 1
  /\ Variant = "condvar" => \A w \in Waiter : (lock = w) <=> pc[w] \in {"announce", "check"}

(* Once every notification is over, no thread sleeps whose value is gone:  *)
(* the wake-up was not lost between the test and the sleep.                *)
NoneForgotten ==
  (\A n \in Notifier : pc[n] = "idle") => \A w \in Asleep : a = val[w]

(* "version": the version is counted up after the store and read before    *)
(* the last test, so that a thread does not go to sleep on a value that is *)
(* gone with the version of now in its hands.  (One that sleeps on an      *)
(* older version may have been left out by the notifier.)                  *)
VersionTells ==
  (\A n \in Notifier : pc[n] # "bump") =>
    \A w \in Waiter : pc[w] \in {"sleep", "asleep"} /\ ver[w] = version => a = val[w]

(* wait returns if the value it waits for is replaced and stays replaced.  *)
WaitReturns ==
  \A w \in Waiter : (pc[w] # "idle" /\ a # val[w]) ~> (pc[w] = "idle" \/ a = val[w])

=============================================================================
