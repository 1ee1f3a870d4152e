----------------------------- MODULE TimedMutex -----------------------------
(***************************************************************************)
(* timed_mutex and recursive_timed_mutex: a flag, or a count and an owner, *)
(* under an inner mutex, and a condition variable to sleep on.  Everything *)
(* is read and written with the inner mutex held, so a critical section    *)
(* is one step.                                                            *)
(***************************************************************************)
EXTENDS Naturals, FiniteSets

CONSTANTS Thread, NoThread,
  Recursive,    \* recursive_timed_mutex
  MaxCount,     \* the greatest value of __count_
  Calls         \* bound: locking calls the threads make together

CountAssumption == MaxCount \in Nat \ {0} /\ Calls \in Nat
KindAssumption == Recursive \in BOOLEAN /\ (~Recursive => MaxCount = 1) /\ NoThread \notin Thread

VARIABLES
  count,    \* __count_, or __locked_ as 0 and 1
  id,       \* __id_
  pc,
  timed,    \* timed[t]: t is in try_lock_for or try_lock_until
  holds,    \* history: how often t has locked and not unlocked
  calls

vars == <<count, id, pc, timed, holds, calls>>

Init ==
  /\ count = 0 /\ id = NoThread
  /\ pc = [t \in Thread |-> "out"]
  /\ timed = [t \in Thread |-> FALSE]
  /\ holds = [t \in Thread |-> 0]
  /\ calls = Calls

Go(t, l) == pc' = [pc EXCEPT ![t] = l]
SetTimed(t, b) == timed' = [timed EXCEPT ![t] = b]

Mine(t) == Recursive /\ id = t

Take(t) ==
  /\ count' = count + 1
  /\ id' = IF Recursive THEN t ELSE id
  /\ holds' = [holds EXCEPT ![t] = @ + 1]

(* lock, try_lock_for and try_lock_until up to their first wait.  (With    *)
(* timed_mutex the owner does not lock again.)                             *)
Lock(t) ==
  /\ pc[t] = "out" /\ calls > 0
  /\ ~Recursive => holds[t] = 0
  /\ calls' = calls - 1
  /\ \/ /\ Mine(t) /\ count < MaxCount
        /\ Take(t)
        /\ UNCHANGED <<pc, timed>>
     \/ /\ Mine(t) /\ count = MaxCount          \* EAGAIN, or false
        /\ UNCHANGED <<count, id, pc, timed, holds>>
     \/ /\ ~Mine(t) /\ count = 0
        /\ Take(t)
        /\ UNCHANGED <<pc, timed>>
     \/ /\ ~Mine(t) /\ count # 0
        /\ Go(t, "asleep")
        /\ \E b \in BOOLEAN : SetTimed(t, b)
        /\ UNCHANGED <<count, id, holds>>

(* try_lock.  Its failures, also the one to get the inner mutex, change    *)
(* nothing.                                                                *)
TryLock(t) ==
  /\ pc[t] = "out" /\ calls > 0
  /\ calls' = calls - 1
  /\ count = 0 \/ Mine(t)
  /\ count < MaxCount
  /\ Take(t)
  /\ UNCHANGED <<pc, timed>>

Free == count = 0

(* The inner mutex is back: the condition of the loop, once more. *)
Retry(t) ==
  /\ pc[t] = "woken"
  /\ IF Free
       THEN Take(t) /\ Go(t, "out") /\ SetTimed(t, FALSE)
       ELSE Go(t, "asleep") /\ UNCHANGED <<count, id, timed, holds>>
  /\ UNCHANGED calls

SpuriousWake(t) ==
  /\ pc[t] = "asleep"
  /\ Go(t, "woken")
  /\ UNCHANGED <<count, id, timed, holds, calls>>

(* Mutant: a thread whose time is up does not look at the lock again. *)
TakesLateNever == FALSE

TakesLate == count = 0

(* The time is up, perhaps of a thread that was notified as well: the lock *)
(* is taken if it is free.                                                 *)
TimeOut(t) ==
  /\ pc[t] \in {"asleep", "woken"} /\ timed[t]
  /\ IF TakesLate THEN Take(t) ELSE UNCHANGED <<count, id, holds>>
  /\ Go(t, "out") /\ SetTimed(t, FALSE)
  /\ UNCHANGED calls

Asleep == {t \in Thread : pc[t] = "asleep"}

(* notify_one: any sleeping thread, or nobody. *)
NotifyOne(others) ==
  IF Asleep = {} THEN pc' = others
  ELSE \E u \in Asleep : pc' = [others EXCEPT ![u] = "woken"]

Forgets == count = 1

(* unlock.  timed_mutex notifies with the inner mutex held, the recursive  *)
(* one after it has been freed, and only when the last hold is gone.       *)
Unlock(t) ==
  /\ pc[t] = "out" /\ holds[t] > 0
  /\ count' = count - 1
  /\ holds' = [holds EXCEPT ![t] = @ - 1]
  /\ IF Recursive
       THEN /\ id' = IF Forgets THEN NoThread ELSE id
            /\ IF count = 1 THEN Go(t, "notify") ELSE UNCHANGED pc
       ELSE NotifyOne(pc) /\ UNCHANGED id
  /\ UNCHANGED <<timed, calls>>

Notify(t) ==
  /\ pc[t] = "notify"
  /\ NotifyOne([pc EXCEPT ![t] = "out"])
  /\ UNCHANGED <<count, id, timed, holds, calls>>

ThreadStep(t) == Retry(t) \/ Unlock(t) \/ Notify(t)

Next == \E t \in Thread : Lock(t) \/ TryLock(t) \/ SpuriousWake(t) \/ TimeOut(t) \/ ThreadStep(t)

Spec == Init /\ [][Next]_vars

(* Threads are scheduled and whoever holds the lock lets it go. *)
FairSpec == Spec /\ \A t \in Thread : WF_vars(ThreadStep(t))

-----------------------------------------------------------------------------
(* One thread at a time holds the lock, as often as the count says, and    *)
(* the recursive mutex knows which.                                        *)
OneOwner ==
  /\ count \in 0..MaxCount
  /\ Cardinality({t \in Thread : holds[t] > 0}) = (IF count = 0 THEN 0 ELSE 1)
  /\ \A t \in Thread : holds[t] > 0 => holds[t] = count
  /\ Recursive => \A t \in Thread : (id = t) <=> (holds[t] > 0)

(* With the lock free, a thread that sleeps is not the only one to know:   *)
(* another is awake for it, or a notification is on the way.  One notify   *)
(* for each unlock is enough although it may reach a thread whose time is  *)
(* up, or one that finds the lock taken by somebody who never slept.       *)
NoneForgotten ==
  count = 0 /\ Asleep # {} => \E t \in Thread : pc[t] \in {"woken", "notify"}

(* lock returns, if every owner unlocks. *)
LockReturns == \A t \in Thread : pc[t] # "out" ~> pc[t] = "out"

=============================================================================
