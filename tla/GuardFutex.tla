----------------------------- MODULE GuardFutex -----------------------------
(***************************************************************************)
(* The guard of a function-local static with atomics and a futex           *)
(* (InitByteFutex).  The futex is the first four bytes of the guard object *)
(* and so covers the guard byte as well as the init byte.                  *)
(***************************************************************************)
EXTENDS Naturals

CONSTANTS Thread,
  HasThreadId,    \* has_thread_id_support
  Recursion,      \* an initializer may reach its own declaration again
  NoThread,
  Calls           \* bound: calls the threads make together

BoundAssumption == Calls \in Nat
FlagAssumption == HasThreadId \in BOOLEAN /\ Recursion \in BOOLEAN /\ NoThread \notin Thread

VARIABLES
  complete,   \* the guard byte is COMPLETE_BIT
  init,       \* the init byte
  owner,      \* the thread id
  pc,
  last,       \* last[t]: last_val
  again,      \* again[t]: the call is made by the initializer itself
  aborted,    \* ABORT_WITH_MESSAGE has ended the process
  calls

vars == <<complete, init, owner, pc, last, again, aborted, calls>>

Unset == {}
Complete == {"complete"}
Pending == {"pending"}
Waiting == {"pending", "waiting"}

Init ==
  /\ complete = FALSE /\ init = Unset /\ owner = NoThread
  /\ pc = [t \in Thread |-> "idle"]
  /\ last = [t \in Thread |-> Unset]
  /\ again = [t \in Thread |-> FALSE]
  /\ aborted = FALSE
  /\ calls = Calls

Go(t, l) == pc' = [pc EXCEPT ![t] = l]
Saw(t, b) == last' = [last EXCEPT ![t] = b]

Call(t) ==
  /\ pc[t] = "idle" /\ calls > 0
  /\ Go(t, "acquire")
  /\ calls' = calls - 1
  /\ UNCHANGED <<complete, init, owner, last, again, aborted>>

Recurse(t) ==
  /\ Recursion
  /\ pc[t] = "running"
  /\ again' = [again EXCEPT ![t] = TRUE]
  /\ Go(t, "acquire")
  /\ UNCHANGED <<complete, init, owner, last, aborted, calls>>

(* cxa_guard_acquire: the guard byte decides, if it is set. *)
Acquire(t) ==
  /\ pc[t] = "acquire"
  /\ Go(t, IF complete THEN "idle" ELSE "try")
  /\ UNCHANGED <<complete, init, owner, last, again, aborted, calls>>

(* Mutant: the result of a successful compare_exchange is not used. *)
WinsAnyway == "complete" \notin init

Wins == init = Unset

(* The compare_exchange from UNSET to PENDING_BIT at the head of the loop. *)
TryPending(t) ==
  /\ pc[t] = "try"
  /\ IF Wins
       THEN init' = Pending /\ Go(t, "own") /\ Saw(t, Unset)
       ELSE /\ Go(t, IF init = Complete THEN "idle" ELSE "recursion")
            /\ Saw(t, IF init = Complete THEN Unset ELSE init)
            /\ UNCHANGED init
  /\ UNCHANGED <<complete, owner, again, aborted, calls>>

StoreOwner(t) ==
  /\ pc[t] = "own"
  /\ owner' = IF HasThreadId THEN t ELSE owner
  /\ Go(t, "running")
  /\ UNCHANGED <<complete, init, last, again, aborted, calls>>

Recursive(t) == HasThreadId /\ owner = t

CheckRecursion(t) ==
  /\ pc[t] = "recursion"
  /\ IF Recursive(t) THEN aborted' = TRUE /\ UNCHANGED pc
     ELSE Go(t, IF "waiting" \in last[t] THEN "futex" ELSE "mark") /\ UNCHANGED aborted
  /\ UNCHANGED <<complete, init, owner, last, again, calls>>

(* The compare_exchange that sets WAITING_BIT, and the reasons it fails:   *)
(* (1) the work is done, (2) the bit is set already, (3) the initializer   *)
(* failed.                                                                 *)
Mark(t) ==
  /\ pc[t] = "mark"
  /\ \/ /\ init = last[t]
        /\ init' = Waiting /\ Go(t, "futex")
     \/ /\ init # last[t]
        /\ Go(t, CASE init = Complete -> "idle" [] init = Unset -> "try" [] OTHER -> "futex")
        /\ UNCHANGED init
  /\ Saw(t, Unset)
  /\ UNCHANGED <<complete, owner, again, aborted, calls>>

(* The word the futex call expects: guard byte 0, init byte pending and    *)
(* waiting.                                                                *)
FutexMatches == ~complete /\ init = Waiting

FutexWait(t) ==
  /\ pc[t] = "futex"
  /\ Go(t, IF FutexMatches THEN "asleep" ELSE "try")
  /\ Saw(t, Unset)
  /\ UNCHANGED <<complete, init, owner, again, aborted, calls>>

SpuriousWake(t) ==
  /\ pc[t] = "asleep"
  /\ Go(t, "try")
  /\ UNCHANGED <<complete, init, owner, last, again, aborted, calls>>

(* cxa_guard_release: the guard byte first, "so that when release wakes    *)
(* other folks, they see it as having been completed".                     *)
Release(t) ==
  /\ pc[t] = "running"
  /\ complete' = TRUE
  /\ Go(t, "release")
  /\ UNCHANGED <<init, owner, last, again, aborted, calls>>

(* cxa_guard_abort: the thread id first. *)
Abort(t) ==
  /\ pc[t] = "running"
  /\ owner' = IF HasThreadId THEN NoThread ELSE owner
  /\ Go(t, "abort")
  /\ UNCHANGED <<complete, init, last, again, aborted, calls>>

Wakes(t) == "waiting" \in init

(* The exchange of the init byte. *)
Finish(t) ==
  /\ pc[t] \in {"release", "abort"}
  /\ init' = IF pc[t] = "release" THEN Complete ELSE Unset
  /\ Go(t, IF Wakes(t) THEN "wake" ELSE "idle")
  /\ UNCHANGED <<complete, owner, last, again, aborted, calls>>

WakeAll(t) ==
  /\ pc[t] = "wake"
  /\ pc' = [u \in Thread |-> IF u = t THEN "idle" ELSE IF pc[u] = "asleep" THEN "try" ELSE pc[u]]
  /\ UNCHANGED <<complete, init, owner, last, again, aborted, calls>>

ThreadStep(t) ==
  /\ ~aborted
  /\ \/ Acquire(t) \/ TryPending(t) \/ StoreOwner(t) \/ CheckRecursion(t) \/ Mark(t) \/ FutexWait(t)
     \/ Release(t) \/ Abort(t) \/ Finish(t) \/ WakeAll(t)

Next ==
  /\ ~aborted
  /\ \E t \in Thread : Call(t) \/ Recurse(t) \/ SpuriousWake(t) \/ ThreadStep(t)

Spec == Init /\ [][Next]_vars

(* Threads are scheduled and initializers end. *)
FairSpec == Spec /\ \A t \in Thread : WF_vars(ThreadStep(t))

-----------------------------------------------------------------------------
Initializing == {t \in Thread : pc[t] \in {"own", "running", "release", "abort"} \/ again[t]}

Labels == {"idle", "acquire", "try", "own", "running", "recursion", "mark", "futex", "asleep",
           "release", "abort", "wake"}

(* The init byte is pending exactly while one thread initializes, no       *)
(* thread id of an earlier initializer is left beside it, and the guard    *)
(* byte is set before the init byte says complete.                         *)
TypeOK ==
  /\ init \in {Unset, Complete, Pending, Waiting} /\ complete \in BOOLEAN
  /\ owner \in Thread \cup {NoThread}
  /\ pc \in [Thread -> Labels] /\ last \in [Thread -> {Unset, Pending, Waiting}]
  /\ again \in [Thread -> BOOLEAN] /\ aborted \in BOOLEAN
  /\ "pending" \in init => \E t \in Thread : Initializing = {t}
  /\ "pending" \notin init => Initializing = {}
  /\ owner = NoThread \/ (HasThreadId /\ (owner \in Initializing \/ init = Complete))
  /\ complete <=> init = Complete \/ \E t \in Initializing : pc[t] = "release"

(* Where a thread of the loop stands: it has seen the byte it acts on, it  *)
(* meets its own thread id only in a call of its own initializer, and that *)
(* call stays inside the loop.                                             *)
InLoop(t) ==
  /\ pc[t] = "mark" => last[t] = Pending
  /\ pc[t] = "recursion" => last[t] # Unset /\ (owner = t => again[t])
  /\ again[t] => pc[t] \in {"acquire", "try", "recursion", "mark", "futex", "asleep"}
  /\ HasThreadId /\ (again[t] \/ pc[t] \in {"running", "release"}) => owner = t
  /\ pc[t] \in {"own", "abort"} => owner = NoThread

(* Whoever sleeps on the futex has its mark in the init byte, or the wake  *)
(* call that will reach it is on the way.                                  *)
SleepersMarked ==
  \A t \in Thread : pc[t] = "asleep" => init = Waiting \/ \E u \in Thread : pc[u] = "wake"

(* Where threads have ids, an initializer that reaches its own declaration *)
(* ends the process and never sleeps on itself, and the process ends for   *)
(* no other reason.                                                        *)
RecursionDetected ==
  HasThreadId =>
    /\ \A t \in Thread : again[t] => pc[t] \in {"acquire", "try", "recursion"}
    /\ aborted => \E t \in Thread : again[t]

(* Every call returns unless the process is ended. *)
CallReturns == \A t \in Thread : pc[t] # "idle" ~> (pc[t] = "idle" \/ aborted)

State == IF complete THEN "done" ELSE IF "pending" \in init THEN "running" ELSE "new"

CallOf(t) == IF pc[t] \in {"idle", "release", "wake"} THEN <<"out">>
             ELSE IF pc[t] \in {"own", "running", "abort"} \/ again[t] THEN <<"running", "guard">>
             ELSE <<"calling", "guard">>

O == INSTANCE OnceInit
       WITH Flag <- {"guard"}, state <- [f \in {"guard"} |-> State],
            call <- [t \in Thread |-> CallOf(t)]

(* The guard is one-time initialization. *)
Implements == O!OnceSpec

=============================================================================
