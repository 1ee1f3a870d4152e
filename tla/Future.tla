------------------------------- MODULE Future -------------------------------
(***************************************************************************)
(* The associated state of promise, future, shared_future and async: bits  *)
(* and an exception under a mutex with a condition variable, a count of    *)
(* owners, and the list of states a thread makes ready when it exits.      *)
(*                                                                         *)
(* Owner holds the first reference: the promise, or the __h of             *)
(* __make_deferred_assoc_state and __make_async_assoc_state.  Runner is    *)
(* the detached thread of launch::async, which holds none.  The members of *)
(* Waiter share the future.                                                *)
(***************************************************************************)
EXTENDS Integers, FiniteSets

CONSTANTS Waiter, Owner, Runner,
  Kind,         \* "promise", "deferred" or "async"
  Waits         \* bound: waiting calls

KindAssumption == Kind \in {"promise", "deferred", "async"}
WaitsAssumption == Waits \in Nat

Party == Waiter \cup {Owner, Runner}
Outcome == {"value", "exception", "broken"}
None == "none"

VARIABLES
  has,        \* what is constructed or stored in __exception_, or None
  ready, deferred, attached,     \* bits of __state_
  owners,     \* __shared_owners_, one less than the owners
  freed,      \* deleted
  pc,
  refs,       \* the threads that own a reference of the future
  atExit,     \* the state is in the at-exit list of the owner's thread
  got,        \* got[t]: what t's last wait returned
  runs,       \* history: executions begun of the deferred or async function
  waits

bits == <<has, ready, deferred, attached>>
vars == <<bits, owners, freed, pc, refs, atExit, got, runs, waits>>

Init ==
  /\ has = None /\ ready = FALSE /\ attached = FALSE
  /\ deferred = (Kind = "deferred")
  /\ owners = 0 /\ freed = FALSE
  /\ pc = [t \in Party |-> CASE t = Owner -> IF Kind = "async" THEN "launch" ELSE "open"
                              [] t = Runner -> "absent"
                              [] OTHER -> "idle"]
  /\ refs = {} /\ atExit = FALSE
  /\ got = [t \in Party |-> None]
  /\ runs = 0 /\ waits = Waits

Go(t, l) == pc' = [pc EXCEPT ![t] = l]

Asleep == {t \in Party : pc[t] \in {"asleep", "timedwait", "zeroasleep"}}
Woken(l) == CASE l = "asleep" -> "woken" [] l = "timedwait" -> "timedwoken" [] l = "zeroasleep" -> "zero"

NotifyAll(others) == [t \in Party |-> IF t \in Asleep THEN Woken(pc[t]) ELSE others[t]]

(* __add_shared *)
AddShared == owners + 1

-----------------------------------------------------------------------------
(* What makes the state ready. *)

HasValue == has # None

ReadyNow(atexit) == ~atexit

(* set_value, set_exception and their at_thread_exit forms, called by t,   *)
(* which goes on at l.                                                     *)
Set(t, o, atexit, l) ==
  /\ ~HasValue
  /\ has' = o
  /\ ready' = (ready \/ ReadyNow(atexit))
  /\ atExit' = (atExit \/ atexit)
  /\ owners' = IF atexit THEN AddShared ELSE owners
  /\ pc' = IF ReadyNow(atexit) THEN NotifyAll([pc EXCEPT ![t] = l]) ELSE [pc EXCEPT ![t] = l]
  /\ UNCHANGED <<deferred, attached>>

(* Mutant: deleting an async state does not wait for the function. *)
ZeroWaitsNever == FALSE

ZeroWaits == Kind = "async"

(* __release_shared by t, which goes on at l unless it was the last owner: *)
(* __on_zero_shared deletes the state, that of async after wait().         *)
Release(t, l) ==
  /\ owners' = owners - 1
  /\ IF owners' = -1
       THEN IF ZeroWaits THEN Go(t, "zero") /\ UNCHANGED freed
            ELSE Go(t, l) /\ freed' = TRUE
       ELSE Go(t, l) /\ UNCHANGED freed

(* wait() of __on_zero_shared, then the delete. *)
Zero(t) ==
  /\ pc[t] = "zero"
  /\ IF ready THEN freed' = TRUE /\ Go(t, "gone")
              ELSE Go(t, "zeroasleep") /\ UNCHANGED freed
  /\ UNCHANGED <<bits, owners, refs, atExit, got, runs, waits>>

-----------------------------------------------------------------------------
(* The owner. *)

(* thread(&__execute, __h.get()).detach(); when it throws, __h is released.*)
Launch ==
  /\ pc[Owner] = "launch"
  /\ \/ pc' = [pc EXCEPT ![Owner] = "open", ![Runner] = "running"] /\ runs' = runs + 1
     \/ Go(Owner, "release") /\ UNCHANGED runs
  /\ UNCHANGED <<bits, owners, freed, refs, atExit, got, waits>>

(* promise::get_future, or the future of async, handed to w. *)
GetFuture ==
  /\ pc[Owner] = "open" /\ ~attached
  /\ \E w \in Waiter : refs' = {w}
  /\ attached' = TRUE /\ owners' = AddShared
  /\ Go(Owner, IF Kind = "promise" THEN "open" ELSE "release")
  /\ UNCHANGED <<has, ready, deferred, freed, atExit, got, runs, waits>>

SetResult ==
  /\ pc[Owner] = "open" /\ Kind = "promise"
  /\ \E o \in {"value", "exception"}, atexit \in BOOLEAN : Set(Owner, o, atexit, "open")
  /\ UNCHANGED <<freed, refs, got, runs, waits>>

(* Mutant: a promise without a result just goes away. *)
BreaksNever == FALSE

Breaks == ~HasValue /\ owners + 1 > 1

(* ~promise: the test, without the mutex. *)
DestroyPromise ==
  /\ pc[Owner] = "open" /\ Kind = "promise"
  /\ Go(Owner, IF Breaks THEN "break" ELSE "release")
  /\ UNCHANGED <<bits, owners, freed, refs, atExit, got, runs, waits>>

BreakPromise ==
  /\ pc[Owner] = "break"
  /\ Set(Owner, "broken", FALSE, "release")
  /\ UNCHANGED <<freed, refs, got, runs, waits>>

ReleaseFirst ==
  /\ pc[Owner] = "release"
  /\ Release(Owner, "gone")
  /\ UNCHANGED <<bits, refs, atExit, got, runs, waits>>

(* ~__thread_struct_imp, when the thread that made the promise exits:      *)
(* __make_ready, then __release_shared.                                    *)
MakeReady ==
  /\ pc[Owner] = "gone" /\ atExit
  /\ ready' = TRUE
  /\ pc' = NotifyAll([pc EXCEPT ![Owner] = "exit"])
  /\ UNCHANGED <<has, deferred, attached, owners, freed, refs, atExit, got, runs, waits>>

ReleaseAtExit ==
  /\ pc[Owner] = "exit"
  /\ atExit' = FALSE
  /\ Release(Owner, "exited")
  /\ UNCHANGED <<bits, refs, got, runs, waits>>

OwnerStep ==
  \/ Launch \/ GetFuture \/ SetResult \/ DestroyPromise \/ BreakPromise
  \/ ReleaseFirst \/ MakeReady \/ ReleaseAtExit

(* __execute of the async or the deferred state: the function, then        *)
(* set_value or set_exception.                                             *)
Execute(t) ==
  /\ pc[t] = "running"
  /\ \E o \in {"value", "exception"} : Set(t, o, FALSE, IF t = Runner THEN "gone" ELSE "read")
  /\ UNCHANGED <<freed, refs, got, runs, waits>>

-----------------------------------------------------------------------------
(* The futures. *)

CopyFuture(w) ==
  /\ pc[w] = "idle" /\ w \in refs
  /\ owners' = AddShared
  /\ \E u \in Waiter \ refs : pc[u] = "idle" /\ refs' = refs \cup {u}
  /\ UNCHANGED <<bits, freed, pc, atExit, got, runs, waits>>

Returns(t) == got' = [got EXCEPT ![t] = has] /\ Go(t, "idle")

(* Mutant: the deferred bit stays while the function runs. *)
DeferredKept == deferred

DeferredCleared == FALSE

(* get and wait: __sub_wait.  Whoever finds the deferred bit runs the      *)
(* function, with the mutex free.                                          *)
SubWait(w) ==
  /\ pc[w] = "idle" /\ w \in refs /\ waits > 0
  /\ waits' = waits - 1
  /\ \/ ready /\ Returns(w) /\ UNCHANGED <<bits, runs>>
     \/ /\ ~ready /\ deferred
        /\ deferred' = DeferredCleared
        /\ Go(w, "running") /\ runs' = runs + 1
        /\ UNCHANGED <<has, ready, attached, got>>
     \/ ~ready /\ ~deferred /\ Go(w, "asleep") /\ UNCHANGED <<bits, got, runs>>
  /\ UNCHANGED <<owners, freed, refs, atExit>>

(* The wait is over, or was for nothing. *)
Wake(w) ==
  /\ pc[w] = "woken"
  /\ IF ready THEN Returns(w) ELSE Go(w, "asleep") /\ UNCHANGED got
  /\ UNCHANGED <<bits, owners, freed, refs, atExit, runs, waits>>

(* The thread that ran the function reads the result, without the mutex. *)
Read(w) ==
  /\ pc[w] = "read"
  /\ Returns(w)
  /\ UNCHANGED <<bits, owners, freed, refs, atExit, runs, waits>>

(* wait_until and wait_for up to the first wait. *)
WaitUntil(w) ==
  /\ pc[w] = "idle" /\ w \in refs /\ waits > 0
  /\ waits' = waits - 1
  /\ Go(w, IF deferred \/ ready THEN "idle" ELSE "timedwait")
  /\ UNCHANGED <<bits, owners, freed, refs, atExit, got, runs>>

(* Notified or not, a timed wait may end with its time. *)
TimedWake(w) ==
  /\ pc[w] \in {"timedwait", "timedwoken"}
  /\ \/ Go(w, "idle")
     \/ pc[w] = "timedwoken" /\ ~ready /\ Go(w, "timedwait")
  /\ UNCHANGED <<bits, owners, freed, refs, atExit, got, runs, waits>>

SpuriousWake(t) ==
  /\ t \in Asleep
  /\ Go(t, Woken(pc[t]))
  /\ UNCHANGED <<bits, owners, freed, refs, atExit, got, runs, waits>>

(* ~future, ~shared_future. *)
Drop(w) ==
  /\ pc[w] = "idle" /\ w \in refs
  /\ refs' = refs \ {w}
  /\ Release(w, "idle")
  /\ UNCHANGED <<bits, atExit, got, runs, waits>>

WaiterStep(w) == Wake(w) \/ Read(w) \/ TimedWake(w) \/ Execute(w) \/ Zero(w)

Next ==
  \/ OwnerStep \/ Execute(Runner) \/ Zero(Owner)
  \/ \E w \in Waiter : CopyFuture(w) \/ SubWait(w) \/ WaitUntil(w) \/ Drop(w) \/ WaiterStep(w)
  \/ \E t \in Party : SpuriousWake(t)

Spec == Init /\ [][Next]_vars

(* Threads are scheduled, functions end, and a promise does not live for   *)
(* ever.                                                                   *)
FairSpec ==
  /\ Spec
  /\ WF_vars(OwnerStep) /\ WF_vars(Execute(Runner)) /\ WF_vars(Zero(Owner))
  /\ \A w \in Waiter : WF_vars(WaiterStep(w))

-----------------------------------------------------------------------------
InCall(t) == t # Runner /\ pc[t] \in {"asleep", "woken", "timedwait", "timedwoken", "running", "read"}

FirstRef == pc[Owner] \in {"launch", "open", "break", "release"}

(* __shared_owners_ counts the futures, the promise and the at-exit list,  *)
(* and the state is deleted once, after the last of them.                  *)
OwnersCounted ==
  owners + 1 = Cardinality(refs) + (IF FirstRef THEN 1 ELSE 0) + (IF atExit THEN 1 ELSE 0)

(* Nobody touches a deleted state: no thread is in a wait on it, is about  *)
(* to make it ready, or still runs the function inside it.                 *)
NoUseAfterFree ==
  freed => /\ refs = {} /\ ~atExit /\ ~FirstRef
           /\ pc[Runner] # "running"
           /\ \A t \in Party : ~InCall(t) /\ pc[t] \notin {"zero", "zeroasleep"}

(* Every wait that returns, returns the one result the state ever has, and *)
(* the function runs once however many threads wait.                       *)
OneResult ==
  /\ runs <= 1
  /\ \A t \in Party : got[t] # None => got[t] = has

(* A result set for thread exit is seen when the thread has exited, not    *)
(* before, and a state is never ready without a result.                    *)
ReadyInTime ==
  /\ ready => has # None
  /\ ready /\ atExit => pc[Owner] = "exit"

(* A waiting call returns: with a result, or because the promise breaks.   *)
WaitReturns == \A w \in Waiter : InCall(w) ~> pc[w] = "idle"

(* async and the promise's owner come to their end, also when the thread   *)
(* cannot be made.                                                         *)
OwnerReturns == <>(pc[Owner] \in {"gone", "exited"})

=============================================================================
