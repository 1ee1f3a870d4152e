--------------------------- MODULE NativeSemaphore ---------------------------
(***************************************************************************)
(* The semaphore of builds with _LIBCUDACXX_USE_NATIVE_SEMAPHORES: a       *)
(* system semaphore, a front buffer that keeps permits and the number of   *)
(* waiting threads in one word, and a back buffer that spares a large      *)
(* release the system calls: the threads it wakes post the rest, two each. *)
(***************************************************************************)
EXTENDS Integers, FiniteSets

CONSTANTS
  Thread,
  MaxCount,    \* max()
  Initial,     \* what the semaphore is constructed with
  Amounts,     \* what the client releases at a time
  Kinds,       \* the acquisitions the client uses: with a time limit or not
  Overlap,     \* a release may add to the back buffer inside a backfill
  Calls        \* bound: calls the threads make together

CountAssumption == MaxCount \in Nat \ {0} /\ Calls \in Nat
AmountAssumption ==
  Initial \subseteq 0..MaxCount /\ Amounts \subseteq 1..MaxCount /\ Kinds \subseteq BOOLEAN /\ Overlap \in BOOLEAN

VARIABLES
  front,      \* __frontbuffer: [permits: upper half, waiters: lower half]
  back,       \* __backbuffer
  sem,        \* the value of __semaphore
  pc,
  old,        \* old[t]: __old
  timed,      \* timed[t]: t is in try_acquire, try_acquire_for or _until
  ok,         \* ok[t]: __success of __try_done
  due,        \* due[t]: posts t has still to make
  owed,       \* owed[t]: what t puts back in the back buffer after them
  balance,    \* history: permits given and not yet taken
  calls

vars == <<front, back, sem, pc, old, timed, ok, due, owed, balance, calls>>

Word(p, w) == [permits |-> p, waiters |-> w]
None == Word(0, 0)

Init ==
  /\ \E n \in Initial : front = Word(n, 0) /\ balance = n
  /\ back = 0 /\ sem = 0
  /\ pc = [t \in Thread |-> "idle"]
  /\ old = [t \in Thread |-> None]
  /\ timed = [t \in Thread |-> FALSE]
  /\ ok = [t \in Thread |-> FALSE]
  /\ due = [t \in Thread |-> 0]
  /\ owed = [t \in Thread |-> 0]
  /\ calls = Calls

Go(t, l) == pc' = [pc EXCEPT ![t] = l]
Return(t) == Go(t, "idle") /\ timed' = [timed EXCEPT ![t] = FALSE] /\ ok' = [ok EXCEPT ![t] = FALSE]

Acquire(t) ==
  /\ pc[t] = "idle" /\ calls > 0
  /\ \E b \in Kinds : timed' = [timed EXCEPT ![t] = b]
  /\ Go(t, "poll")
  /\ calls' = calls - 1
  /\ UNCHANGED <<front, back, sem, old, ok, due, owed, balance>>

(* The poll ends with permits in sight or after five microseconds. *)
Poll(t) ==
  /\ pc[t] = "poll"
  /\ old' = [old EXCEPT ![t] = front]
  /\ Go(t, "steal")
  /\ UNCHANGED <<front, back, sem, timed, ok, due, owed, balance, calls>>

(* "Always steal if you can": the compare_exchange loop before and after   *)
(* the thread is recorded as waiting ("restealing").                       *)
StealSucceeds(t) ==
  /\ pc[t] \in {"steal", "resteal"}
  /\ old[t].permits > 0 /\ front = old[t]
  /\ front' = [front EXCEPT !.permits = @ - 1]
  /\ balance' = balance - 1
  /\ old' = [old EXCEPT ![t] = None]
  /\ IF pc[t] = "steal" THEN Return(t)
     ELSE Go(t, "leave") /\ ok' = [ok EXCEPT ![t] = TRUE] /\ UNCHANGED timed
  /\ UNCHANGED <<back, sem, due, owed, calls>>

StealFails(t) ==
  /\ pc[t] \in {"steal", "resteal"}
  /\ old[t].permits > 0 /\ front # old[t]
  /\ old' = [old EXCEPT ![t] = front]
  /\ UNCHANGED <<front, back, sem, pc, timed, ok, due, owed, balance, calls>>

(* Record that the thread is waiting. *)
Enter(t) ==
  /\ pc[t] = "steal" /\ old[t].permits = 0
  /\ old' = [old EXCEPT ![t] = front]
  /\ front' = [front EXCEPT !.waiters = @ + 1]
  /\ Go(t, "resteal")
  /\ UNCHANGED <<back, sem, timed, ok, due, owed, balance, calls>>

BeginWait(t) ==
  /\ pc[t] = "resteal" /\ old[t].permits = 0
  /\ old' = [old EXCEPT ![t] = None]
  /\ Go(t, "asleep")
  /\ UNCHANGED <<front, back, sem, timed, ok, due, owed, balance, calls>>

(* sem_wait and sem_timedwait. *)
SemTake(t) ==
  /\ pc[t] = "asleep" /\ sem > 0
  /\ sem' = sem - 1
  /\ balance' = balance - 1
  /\ ok' = [ok EXCEPT ![t] = TRUE]
  /\ Go(t, "leave")
  /\ UNCHANGED <<front, back, old, timed, due, owed, calls>>

SemTimeout(t) ==
  /\ pc[t] = "asleep" /\ timed[t]
  /\ Go(t, "leave")
  /\ UNCHANGED <<front, back, sem, old, timed, ok, due, owed, balance, calls>>

Left(t) == front.waiters - 1

(* __try_done: the thread is not waiting any more. *)
Leave(t) ==
  /\ pc[t] = "leave"
  /\ front' = [front EXCEPT !.waiters = Left(t)]
  /\ IF ok[t] THEN Go(t, "backfill") /\ UNCHANGED <<timed, ok>> ELSE Return(t)
  /\ UNCHANGED <<back, sem, old, due, owed, balance, calls>>

(* Mutant: the threads a release wakes do not post for it. *)
ToPostNone(amount) == 0

(* How many of the two permits taken out of the back buffer were there. *)
ToPost(amount) == IF amount > 1 THEN 2 ELSE IF amount > 0 THEN 1 ELSE 0

PutBack(amount) == 2 - ToPost(amount)

(* __backfill: two out of the back buffer, at once and unseen. *)
TakeTwo(t) ==
  /\ pc[t] = "backfill"
  /\ back' = back - 2
  /\ due' = [due EXCEPT ![t] = ToPost(back)]
  /\ owed' = [owed EXCEPT ![t] = PutBack(back)]
  /\ Go(t, "post")
  /\ UNCHANGED <<front, sem, old, timed, ok, balance, calls>>

Post(t) ==
  /\ pc[t] = "post" /\ due[t] > 0
  /\ sem' = sem + 1
  /\ due' = [due EXCEPT ![t] = @ - 1]
  /\ UNCHANGED <<front, back, pc, old, timed, ok, owed, balance, calls>>

(* Put back what was not posted, if anything, and return. *)
Settle(t) ==
  /\ pc[t] = "post" /\ due[t] = 0
  /\ back' = back + owed[t]
  /\ owed' = [owed EXCEPT ![t] = 0]
  /\ Return(t)
  /\ UNCHANGED <<front, sem, old, due, balance, calls>>

InBackfill(t) == pc[t] = "post" /\ owed[t] > 0

(* 0 == (__old & ~0ul), with a long of 64 bits: neither waiters nor        *)
(* permits, which is also what the compare_exchange expects.               *)
Uncontended == front = None

(* What a slow release leaves for the threads it wakes. *)
Rest(n) == IF n > 2 THEN n - 2 ELSE 0

(* release(n): the compare_exchange of the front buffer, or the first      *)
(* fetch_add of __release_slow.                                            *)
Release(t) ==
  /\ pc[t] = "idle" /\ calls > 0
  /\ \E n \in Amounts :
       /\ balance + n <= MaxCount
       /\ balance' = balance + n
       /\ IF Uncontended
            THEN /\ front' = [front EXCEPT !.permits = @ + n]
                 /\ UNCHANGED <<pc, due>>
            ELSE /\ due' = [due EXCEPT ![t] = n]
                 /\ Go(t, "slow")
                 /\ UNCHANGED front
  /\ calls' = calls - 1
  /\ UNCHANGED <<back, sem, old, timed, ok, owed>>

ReleaseSlow(t) ==
  /\ pc[t] = "slow"
  /\ Overlap \/ Rest(due[t]) = 0 \/ \A u \in Thread : ~InBackfill(u)
  /\ back' = back + Rest(due[t])
  /\ due' = [due EXCEPT ![t] = IF @ > 2 THEN 2 ELSE @]
  /\ Go(t, "post")
  /\ UNCHANGED <<front, sem, old, timed, ok, owed, balance, calls>>

ThreadStep(t) ==
  \/ Poll(t) \/ StealSucceeds(t) \/ StealFails(t) \/ Enter(t) \/ BeginWait(t)
  \/ SemTake(t) \/ Leave(t) \/ TakeTwo(t) \/ Post(t) \/ Settle(t) \/ ReleaseSlow(t)

Next == \E t \in Thread : Acquire(t) \/ Release(t) \/ SemTimeout(t) \/ ThreadStep(t)

Spec == Init /\ [][Next]_vars

-----------------------------------------------------------------------------
(* The largest number of posts one thread has to make.                     *)
MostDue == MaxCount + 2

(* The waiters half counts the threads between fetch_add and fetch_sub,    *)
(* never goes below zero and so never borrows from the permits.            *)
TypeOK ==
  /\ front.permits \in 0..MaxCount
  /\ front.waiters = Cardinality({t \in Thread : pc[t] \in {"resteal", "asleep", "leave"}})
  /\ sem \in Nat /\ back \in Int /\ calls \in 0..Calls /\ balance \in 0..MaxCount
  /\ pc \in [Thread -> {"idle", "poll", "steal", "resteal", "asleep", "leave", "backfill", "slow", "post"}]
  /\ due \in [Thread -> 0..MostDue] /\ owed \in [Thread -> 0..2]

(* What the threads of a function have together, one by one. *)
Total(f) == Cardinality({u \in Thread \X (1..MostDue) : u[2] <= f[u[1]]})

(* No permit is lost or made: both buffers, the system semaphore and what  *)
(* threads are about to post or put back add up to what was given.         *)
Conserved == balance = front.permits + back + sem + Total(due) + Total(owed)

(* A thread never goes to sleep in the system semaphore with permits in    *)
(* the front buffer, where no post would tell it of them.                  *)
SleepsOnlyWhenFrontEmpty == \A t \in Thread : pc[t] = "asleep" => front.permits = 0

(* When every thread is idle or asleep in acquire and one is asleep, no    *)
(* permit is left anywhere: a release wakes as many threads as it frees,   *)
(* unless it comes inside the backfill of another.                         *)
NoneStranded ==
  (/\ ~Overlap
   /\ \A t \in Thread : pc[t] \in {"idle", "asleep"}
   /\ \E t \in Thread : pc[t] = "asleep"
   /\ sem = 0) => balance = 0

=============================================================================
