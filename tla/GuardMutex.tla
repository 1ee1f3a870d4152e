----------------------------- MODULE GuardMutex -----------------------------
(***************************************************************************)
(* The guard of a function-local static with a global mutex and condition  *)
(* variable (InitByteGlobalMutex).  The guard byte is read and written     *)
(* without the mutex; every access to the init byte and to the thread id   *)
(* is inside it, so a critical section is one step.  A broadcast comes     *)
(* after the mutex is free and only if a waiting thread had left its mark. *)
(***************************************************************************)
EXTENDS Naturals

CONSTANTS Thread, Flag,   \* Flag: the guard objects, which share mutex and condition variable
  HasThreadId,            \* has_thread_id_support
  Recursion,              \* an initializer may reach its own declaration again
  NoThread,
  Calls                   \* bound: calls the threads make together

BoundAssumption == Calls \in Nat
FlagAssumption ==
  /\ HasThreadId \in BOOLEAN /\ Recursion \in BOOLEAN
  /\ NoThread \notin Thread /\ "none" \notin Flag

VARIABLES
  complete,   \* complete[f]: the guard byte is COMPLETE_BIT
  init,       \* init[f]: the init byte
  owner,      \* owner[f]: the thread id beside it
  pc,
  on,         \* on[t]: the guard of t's call
  again,      \* again[t]: the call is made by the initializer of on[t] itself
  aborted,    \* ABORT_WITH_MESSAGE has ended the process
  calls

vars == <<complete, init, owner, pc, on, again, aborted, calls>>

NoFlag == "none"

(* The init byte: which of its three bits are set. *)
Unset == {}
Complete == {"complete"}
Pending == {"pending"}

Init ==
  /\ complete = [f \in Flag |-> FALSE]
  /\ init = [f \in Flag |-> Unset]
  /\ owner = [f \in Flag |-> NoThread]
  /\ pc = [t \in Thread |-> "idle"]
  /\ on = [t \in Thread |-> NoFlag]
  /\ again = [t \in Thread |-> FALSE]
  /\ aborted = FALSE
  /\ calls = Calls

Go(t, l) == pc' = [pc EXCEPT ![t] = l]
Return(t) == Go(t, "idle") /\ on' = [on EXCEPT ![t] = NoFlag]

Call(t) ==
  /\ pc[t] = "idle" /\ calls > 0
  /\ \E f \in Flag : on' = [on EXCEPT ![t] = f]
  /\ Go(t, "acquire")
  /\ calls' = calls - 1
  /\ UNCHANGED <<complete, init, owner, again, aborted>>

(* The initializer reaches the declaration it is initializing. *)
Recurse(t) ==
  /\ Recursion
  /\ pc[t] = "running"
  /\ again' = [again EXCEPT ![t] = TRUE]
  /\ Go(t, "acquire")
  /\ UNCHANGED <<complete, init, owner, on, aborted, calls>>

IsDone(f) == complete[f]

(* cxa_guard_acquire: the guard byte decides, if it is set. *)
Acquire(t) ==
  /\ pc[t] = "acquire"
  /\ IF IsDone(on[t]) THEN Return(t) ELSE Go(t, "enter") /\ UNCHANGED on
  /\ UNCHANGED <<complete, init, owner, again, aborted, calls>>

Recursive(t) == HasThreadId /\ "pending" \in init[on[t]] /\ owner[on[t]] = t

Marked(f) == init[f] \cup {"waiting"}

(* acquire_init_byte up to the first wait; "woken" continues its loop. *)
Enter(t) ==
  LET f == on[t]
  IN  /\ pc[t] \in {"enter", "woken"}
      /\ \/ /\ pc[t] = "enter" /\ Recursive(t)
            /\ aborted' = TRUE
            /\ UNCHANGED <<init, owner, pc, on>>
         \/ /\ ~(pc[t] = "enter" /\ Recursive(t))
            /\ "pending" \in init[f]
            /\ init' = [init EXCEPT ![f] = Marked(f)]
            /\ Go(t, "asleep")
            /\ UNCHANGED <<owner, on, aborted>>
         \/ /\ init[f] = Complete
            /\ Return(t)
            /\ UNCHANGED <<init, owner, aborted>>
         \/ /\ "pending" \notin init[f] /\ init[f] # Complete
            /\ init' = [init EXCEPT ![f] = Pending]
            /\ owner' = IF HasThreadId THEN [owner EXCEPT ![f] = t] ELSE owner
            /\ Go(t, "running")
            /\ UNCHANGED <<on, aborted>>
      /\ UNCHANGED <<complete, again, calls>>

SpuriousWake(t) ==
  /\ pc[t] = "asleep"
  /\ Go(t, "woken")
  /\ UNCHANGED <<complete, init, owner, on, again, aborted, calls>>

(* The initializer is done: cxa_guard_release sets the guard byte first... *)
Release(t) ==
  /\ pc[t] = "running"
  /\ complete' = [complete EXCEPT ![on[t]] = TRUE]
  /\ Go(t, "release")
  /\ UNCHANGED <<init, owner, on, again, aborted, calls>>

(* Mutant: the mark is not looked at before the byte is overwritten. *)
HadWaitingNever(f) == FALSE

HadWaiting(f) == "waiting" \in init[f]

AfterAbort(f) == Unset

(* ... then the init byte.  cxa_guard_abort resets owner and init byte.    *)
Finish(t) ==
  LET f == on[t]
  IN  /\ \/ /\ pc[t] = "release"
            /\ init' = [init EXCEPT ![f] = Complete]
            /\ UNCHANGED owner
         \/ /\ pc[t] = "running"
            /\ init' = [init EXCEPT ![f] = AfterAbort(f)]
            /\ owner' = IF HasThreadId THEN [owner EXCEPT ![f] = NoThread] ELSE owner
      /\ IF HadWaiting(f) THEN Go(t, "broadcast") /\ UNCHANGED on ELSE Return(t)
      /\ UNCHANGED <<complete, again, aborted, calls>>

Broadcast(t) ==
  /\ pc[t] = "broadcast"
  /\ pc' = [u \in Thread |-> IF u = t THEN "idle" ELSE IF pc[u] = "asleep" THEN "woken" ELSE pc[u]]
  /\ on' = [on EXCEPT ![t] = NoFlag]
  /\ UNCHANGED <<complete, init, owner, again, aborted, calls>>

ThreadStep(t) == ~aborted /\ (Acquire(t) \/ Enter(t) \/ Release(t) \/ Finish(t) \/ Broadcast(t))

Next ==
  /\ ~aborted
  /\ \E t \in Thread : Call(t) \/ Recurse(t) \/ SpuriousWake(t) \/ ThreadStep(t)

Spec == Init /\ [][Next]_vars

(* Threads are scheduled and initializers end. *)
FairSpec == Spec /\ \A t \in Thread : WF_vars(ThreadStep(t))

-----------------------------------------------------------------------------
Initializing(f) == {t \in Thread : on[t] = f /\ (pc[t] \in {"running", "release"} \/ again[t])}

(* The init byte is pending exactly while one thread initializes, the      *)
(* thread id beside it is that thread's, and the guard byte is set before  *)
(* the init byte says complete, by that thread and not earlier.            *)
TypeOK ==
  /\ complete \in [Flag -> BOOLEAN] /\ owner \in [Flag -> Thread \cup {NoThread}]
  /\ init \in [Flag -> {Unset, Complete, Pending, Pending \cup {"waiting"}}]
  /\ pc \in [Thread -> {"idle", "acquire", "enter", "asleep", "woken", "running", "release", "broadcast"}]
  /\ on \in [Thread -> Flag \cup {NoFlag}] /\ again \in [Thread -> BOOLEAN] /\ aborted \in BOOLEAN
  /\ \A t \in Thread : /\ (pc[t] = "idle") <=> (on[t] = NoFlag)
                       /\ again[t] => pc[t] \in {"acquire", "enter", "asleep", "woken"}
  /\ \A f \in Flag : /\ "pending" \in init[f] => \E t \in Thread : Initializing(f) = {t}
                     /\ "pending" \notin init[f] => Initializing(f) = {}
  /\ HasThreadId => \A f \in Flag : "pending" \in init[f] => owner[f] \in Initializing(f)
  /\ \A f \in Flag : complete[f] <=> \/ init[f] = Complete
                                     \/ \E t \in Initializing(f) : pc[t] = "release"

(* Whoever sleeps has left its mark, or its broadcast is on the way.       *)
SleepersMarked ==
  \A t \in Thread : pc[t] = "asleep" =>
    "waiting" \in init[on[t]] \/ \E u \in Thread : pc[u] = "broadcast"

(* Where threads have ids, an initializer that reaches its own declaration *)
(* ends the process and never sleeps on itself, and the process ends for   *)
(* no other reason.                                                        *)
RecursionDetected ==
  HasThreadId =>
    /\ \A t \in Thread : again[t] => pc[t] \in {"acquire", "enter"}
    /\ aborted => \E t \in Thread : again[t]

(* Every call returns unless the process is ended: sleepers are woken by a *)
(* success and by a failure, and one of them takes a failed run over.      *)
CallReturns == \A t \in Thread : pc[t] # "idle" ~> (pc[t] = "idle" \/ aborted)

StateOf(f) == IF complete[f] THEN "done" ELSE IF "pending" \in init[f] THEN "running" ELSE "new"

CallOf(t) == IF pc[t] \in {"idle", "broadcast", "release"} THEN <<"out">>
             ELSE IF pc[t] = "running" \/ again[t] THEN <<"running", on[t]>>
             ELSE <<"calling", on[t]>>

O == INSTANCE OnceInit
       WITH state <- [f \in Flag |-> StateOf(f)], call <- [t \in Thread |-> CallOf(t)]

(* The guard is one-time initialization. *)
Implements == O!OnceSpec

=============================================================================
