---------------------------- MODULE CxaException ----------------------------
(***************************************************************************)
(* Exception objects and the state libcxxabi keeps about them               *)
(* (cxa_exception.cpp): the header of each exception object, the stack of   *)
(* caught exceptions and the count of uncaught ones of each thread, and the *)
(* reference counts that std::exception_ptr shares between threads.         *)
(*                                                                          *)
(* A thread is the code that calls this runtime: a stack ctl[t] of          *)
(*   construct  the operand of a throw is being constructed,                *)
(*   search     _Unwind_RaiseException looks for a handler (phase 1),       *)
(*   raise      the stack is being unwound to the handler (phase 2),        *)
(*   cleanup    a destructor runs on the way,                               *)
(*   handler    a handler runs, between begin_catch and end_catch,          *)
(*   destroy    the destructor of an exception object runs                  *)
(* frames; program code runs when the top is none of search and raise.      *)
(* The compiler's and the unwinder's part of the protocol is external.      *)
(***************************************************************************)
EXTENDS Integers, Sequences, SequencesExt, FiniteSets

CONSTANTS Threads,
          Primaries,      \* exceptions of this runtime
          Dependents,     \* dependent exceptions, made by rethrow_exception
          Foreigns,       \* exceptions of another runtime
          MaxDepth,       \* bound: frames at which program code goes deeper
          MaxPtrs,        \* bound: exception_ptrs to one exception
          MaxForeign,     \* bound: exceptions of a thread that end in a handler
                          \* of another runtime
          EHABI,          \* the ARM EHABI build, with __cxa_begin_cleanup
          RethrowInCleanup \* a cleanup may execute throw; although what it
                          \* would rethrow is in flight already

VARIABLES hdr,            \* the header of every exception object
          caught,         \* caughtExceptions of each thread
          uncaught,       \* uncaughtExceptions of each thread
          propagating,    \* propagatingExceptions of each thread (EHABI)
          ctl,            \* the frames of each thread
          ptrs,           \* exception_ptrs to each exception, on any thread
          foreignCaught,  \* history: native exceptions of the thread that
                          \* another runtime's handler caught
          terminated
vars == <<hdr, caught, uncaught, propagating, ctl, ptrs, foreignCaught, terminated>>

NULL == "null"
Objects == Primaries \cup Dependents \cup Foreigns
\* The objects of the three kinds, and the null pointer, are different.
ExceptionAssumption ==
  /\ IsFiniteSet(Dependents)
  /\ Primaries \cap Dependents = {} /\ (Primaries \cup Dependents) \cap Foreigns = {}
  /\ NULL \notin Objects
  /\ MaxDepth \in Nat /\ MaxPtrs \in Nat /\ MaxForeign \in Nat
  /\ EHABI \in BOOLEAN /\ RethrowInCleanup \in BOOLEAN

isOurs(e) == e \in Primaries \cup Dependents

\* Memory of an exception that is not allocated, and a zeroed header.
Unused == [state |-> "free", refs |-> 0, handlers |-> 0, next |-> NULL, primary |-> NULL,
           props |-> 0, nextProp |-> NULL]

Init == /\ hdr = [e \in Objects |-> Unused]
        /\ caught = [t \in Threads |-> NULL]
        /\ uncaught = [t \in Threads |-> 0]
        /\ propagating = [t \in Threads |-> NULL]
        /\ ctl = [t \in Threads |-> <<>>]
        /\ ptrs = [e \in Primaries |-> 0]
        /\ foreignCaught = [t \in Threads |-> 0]
        /\ terminated = FALSE

Frame(kind, e) == [k |-> kind, e |-> e]
Top(t) == Last(ctl[t])
TopIs(t, kind) == ~terminated /\ ctl[t] # <<>> /\ Top(t).k = kind
Replaced(t, f) == Append(Front(ctl[t]), f)

\* Program code runs on t; it goes deeper only up to the bound.
Runs(t) == /\ ~terminated
           /\ ctl[t] # <<>> => Top(t).k \notin {"search", "raise"}
MayPush(t) == Runs(t) /\ Len(ctl[t]) < MaxDepth

-----------------------------------------------------------------------------
(***************************************************************************)
(* __cxa_decrement_exception_refcount on thread t, whose other frames are   *)
(* below: the last owner runs the destructor and then frees the object.     *)
(***************************************************************************)
Decremented(h, p) ==
  IF h[p].refs = 1 THEN [h EXCEPT ![p].refs = 0, ![p].state = "dying"]
                   ELSE [h EXCEPT ![p].refs = @ - 1]

DestroysIfLast(h, p, below) ==
  IF h[p].refs = 1 THEN Append(below, Frame("destroy", p)) ELSE below

(***************************************************************************)
(* __cxa_end_catch: h and c are the headers and the top of the caught       *)
(* stack of the thread, below are its frames under the handler.             *)
(***************************************************************************)
\* The exception was rethrown: it only leaves the stack.
Rethrown(h, x) ==
  [h |-> [h EXCEPT ![x].handlers = @ + 1],
   c |-> IF h[x].handlers = -1 THEN h[x].next ELSE x]

\* The last handler of x ends: a dependent exception is freed, and its
\* primary, or x itself, loses an owner.
OwnedBy(h, x) == IF x \in Dependents THEN h[x].primary ELSE x

FreedIfDependent(h, x) == IF x \in Dependents THEN [h EXCEPT ![x] = Unused] ELSE h

EndCatch(t, below) ==
  LET x == caught[t]
      h == [hdr EXCEPT ![x].handlers = @ - 1]
      p == OwnedBy(h, x)
  IN  \/ /\ x = NULL                          \* a foreign exception was rethrown
         /\ ctl' = [ctl EXCEPT ![t] = below]
         /\ UNCHANGED <<hdr, caught>>
      \/ /\ x # NULL /\ isOurs(x) /\ hdr[x].handlers < 0
         /\ hdr' = Rethrown(hdr, x).h
         /\ caught' = [caught EXCEPT ![t] = Rethrown(hdr, x).c]
         /\ ctl' = [ctl EXCEPT ![t] = below]
      \/ /\ x # NULL /\ isOurs(x) /\ hdr[x].handlers > 1
         /\ hdr' = h
         /\ ctl' = [ctl EXCEPT ![t] = below]
         /\ UNCHANGED caught
      \/ /\ x # NULL /\ isOurs(x) /\ hdr[x].handlers = 1
         /\ caught' = [caught EXCEPT ![t] = hdr[x].next]
         /\ hdr' = Decremented(FreedIfDependent(h, x), p)
         /\ ctl' = [ctl EXCEPT ![t] = DestroysIfLast(h, p, below)]
      \/ /\ x # NULL /\ ~isOurs(x)            \* _Unwind_DeleteException
         /\ hdr' = [hdr EXCEPT ![x] = Unused]
         /\ caught' = [caught EXCEPT ![t] = NULL]
         /\ ctl' = [ctl EXCEPT ![t] = below]

\* Mutant: the mark of a rethrown exception is kept.
BeginCatchKeepsFlag(t, e) ==
  /\ hdr' = [hdr EXCEPT ![e].handlers = @ + 1,
                        ![e].next = IF caught[t] = e THEN @ ELSE caught[t]]
  /\ caught' = [caught EXCEPT ![t] = e]

(***************************************************************************)
(* __cxa_begin_catch of the exception e in the top frame of t.              *)
(***************************************************************************)
BeginCatchNative(t, e) ==
  /\ hdr' = [hdr EXCEPT ![e].handlers = IF @ < 0 THEN -@ + 1 ELSE @ + 1,
                        ![e].next = IF caught[t] = e THEN @ ELSE caught[t]]
  /\ caught' = [caught EXCEPT ![t] = e]

\* Mutant: only an exception that is new on the caught stack is counted.
OneLessIfPushed(t, e) == [uncaught EXCEPT ![t] = IF caught[t] = e THEN @ ELSE @ - 1]

OneLessUncaught(t, e) == [uncaught EXCEPT ![t] = @ - 1]

BeginCatch(t, e) ==
  /\ ctl' = [ctl EXCEPT ![t] = Replaced(t, Frame("handler", e))]
  /\ \/ /\ isOurs(e)
        /\ BeginCatchNative(t, e)
        /\ uncaught' = OneLessUncaught(t, e)
     \/ /\ ~isOurs(e)
        /\ caught' = [caught EXCEPT ![t] = e]
        /\ UNCHANGED <<hdr, uncaught>>

\* A foreign exception cannot be put on a stack that is not empty.
CannotCatch(t, e) == ~isOurs(e) /\ caught[t] # NULL

-----------------------------------------------------------------------------
(* What program code does. *)

cxa_allocate_exception(t, e) ==
  /\ MayPush(t)
  /\ hdr[e].state = "free"
  /\ hdr' = [hdr EXCEPT ![e].state = "raw"]
  /\ ctl' = [ctl EXCEPT ![t] = Append(@, Frame("construct", e))]
  /\ UNCHANGED <<caught, uncaught, propagating, ptrs, foreignCaught, terminated>>

cxa_throw(t) ==
  /\ TopIs(t, "construct")
  /\ hdr' = [hdr EXCEPT ![Top(t).e].state = "live", ![Top(t).e].refs = 1]
  /\ uncaught' = [uncaught EXCEPT ![t] = @ + 1]
  /\ ctl' = [ctl EXCEPT ![t] = Replaced(t, Frame("search", Top(t).e))]
  /\ UNCHANGED <<caught, propagating, ptrs, foreignCaught, terminated>>

\* Another runtime throws.
ForeignThrow(t, e) ==
  /\ MayPush(t)
  /\ hdr[e].state = "free"
  /\ hdr' = [hdr EXCEPT ![e].state = "live"]
  /\ ctl' = [ctl EXCEPT ![t] = Append(@, Frame("search", e))]
  /\ UNCHANGED <<caught, uncaught, propagating, ptrs, foreignCaught, terminated>>

Handlers(t, e) == {i \in DOMAIN ctl[t] : ctl[t][i] = Frame("handler", e)}
InFlight(t, e) == \E i \in DOMAIN ctl[t] : ctl[t][i] \in {Frame(k, e) : k \in {"search", "raise", "cleanup"}}

cxa_rethrow(t) ==
  LET x == caught[t]
  IN  /\ MayPush(t)
      /\ InFlight(t, x) => RethrowInCleanup
      /\ \/ /\ x = NULL                       \* throw; outside of a handler
            /\ terminated' = TRUE
            /\ UNCHANGED <<hdr, caught, uncaught, ctl>>
         \/ /\ x # NULL /\ isOurs(x)
            /\ hdr' = [hdr EXCEPT ![x].handlers = -@]
            /\ uncaught' = [uncaught EXCEPT ![t] = @ + 1]
            /\ ctl' = [ctl EXCEPT ![t] = Append(@, Frame("search", x))]
            /\ UNCHANGED <<caught, terminated>>
         \/ /\ x # NULL /\ ~isOurs(x)
            /\ caught' = [caught EXCEPT ![t] = NULL]
            /\ ctl' = [ctl EXCEPT ![t] = Append(@, Frame("search", x))]
            /\ UNCHANGED <<hdr, uncaught, terminated>>
      /\ UNCHANGED <<propagating, ptrs, foreignCaught>>

cxa_end_catch(t) ==
  /\ TopIs(t, "handler")
  /\ EndCatch(t, Front(ctl[t]))
  /\ UNCHANGED <<uncaught, propagating, ptrs, foreignCaught, terminated>>

\* The exception object's destructor has returned: __cxa_free_exception.
EndDestroy(t) ==
  /\ TopIs(t, "destroy")
  /\ hdr' = [hdr EXCEPT ![Top(t).e] = Unused]
  /\ ctl' = [ctl EXCEPT ![t] = Front(@)]
  /\ UNCHANGED <<caught, uncaught, propagating, ptrs, foreignCaught, terminated>>

-----------------------------------------------------------------------------
(* std::exception_ptr, on any thread. *)

\* std::current_exception(): none for a foreign exception.
cxa_current_primary_exception(t) ==
  LET x == caught[t]
      p == OwnedBy(hdr, x)
  IN  /\ Runs(t)
      /\ x # NULL /\ isOurs(x)
      /\ ptrs[p] < MaxPtrs
      /\ hdr' = [hdr EXCEPT ![p].refs = @ + 1]
      /\ ptrs' = [ptrs EXCEPT ![p] = @ + 1]
      /\ UNCHANGED <<caught, uncaught, propagating, ctl, foreignCaught, terminated>>

cxa_increment_exception_refcount(t, p) ==
  /\ Runs(t)
  /\ ptrs[p] \in 1 .. MaxPtrs - 1
  /\ hdr' = [hdr EXCEPT ![p].refs = @ + 1]
  /\ ptrs' = [ptrs EXCEPT ![p] = @ + 1]
  /\ UNCHANGED <<caught, uncaught, propagating, ctl, foreignCaught, terminated>>

cxa_decrement_exception_refcount(t, p) ==
  /\ Runs(t)
  /\ ptrs[p] > 0
  /\ hdr' = Decremented(hdr, p)
  /\ ctl' = [ctl EXCEPT ![t] = DestroysIfLast(hdr, p, @)]
  /\ ptrs' = [ptrs EXCEPT ![p] = @ - 1]
  /\ UNCHANGED <<caught, uncaught, propagating, foreignCaught, terminated>>

\* The header of a dependent exception of p.
DependentOf(p) == [Unused EXCEPT !.state = "live", !.primary = p]

\* Mutant: a dependent exception does not own its primary.
CountsOwnerNever(h, p) == h

CountsOwner(h, p) == [h EXCEPT ![p].refs = @ + 1]

cxa_rethrow_primary_exception(t, p, d) ==
  /\ MayPush(t)
  /\ ptrs[p] > 0
  /\ hdr[d].state = "free"
  /\ hdr' = CountsOwner([hdr EXCEPT ![d] = DependentOf(p)], p)
  /\ uncaught' = [uncaught EXCEPT ![t] = @ + 1]
  /\ ctl' = [ctl EXCEPT ![t] = Append(@, Frame("search", d))]
  /\ UNCHANGED <<caught, propagating, ptrs, foreignCaught, terminated>>

-----------------------------------------------------------------------------
(* What the unwinder does with the exception in the top frame. *)

HandlerFound(t) ==
  /\ TopIs(t, "search")
  /\ ctl' = [ctl EXCEPT ![t] = Replaced(t, Frame("raise", Top(t).e))]
  /\ UNCHANGED <<hdr, caught, uncaught, propagating, ptrs, foreignCaught, terminated>>

\* No handler: terminate is the handler.
failed_throw(t) ==
  /\ TopIs(t, "search")
  /\ terminated' = TRUE
  /\ IF CannotCatch(t, Top(t).e) THEN UNCHANGED <<hdr, caught, uncaught, ctl>>
                                 ELSE BeginCatch(t, Top(t).e)
  /\ UNCHANGED <<propagating, ptrs, foreignCaught>>

cxa_begin_catch(t) ==
  /\ TopIs(t, "raise")
  /\ IF CannotCatch(t, Top(t).e)
       THEN terminated' = TRUE /\ UNCHANGED <<hdr, caught, uncaught, ctl>>
       ELSE BeginCatch(t, Top(t).e) /\ UNCHANGED terminated
  /\ UNCHANGED <<propagating, ptrs, foreignCaught>>

(***************************************************************************)
(* The unwinder leaves the frame below: a handler is left through           *)
(* __cxa_end_catch, an exception that is not constructed yet is freed, and  *)
(* what leaves a destructor ends the program.                               *)
(***************************************************************************)
Unwind(t) ==
  /\ TopIs(t, "raise")
  /\ Len(ctl[t]) > 1
  /\ LET below == ctl[t][Len(ctl[t]) - 1]
         rest == Append(SubSeq(ctl[t], 1, Len(ctl[t]) - 2), Top(t))
     IN  \/ /\ below.k = "handler"
            /\ EndCatch(t, rest)
            /\ UNCHANGED terminated
         \/ /\ below.k = "construct"
            /\ hdr' = [hdr EXCEPT ![below.e] = Unused]
            /\ ctl' = [ctl EXCEPT ![t] = rest]
            /\ UNCHANGED <<caught, terminated>>
         \/ /\ below.k \in {"cleanup", "destroy"}
            /\ terminated' = TRUE
            /\ UNCHANGED <<hdr, caught, ctl>>
  /\ UNCHANGED <<uncaught, propagating, ptrs, foreignCaught>>

(***************************************************************************)
(* Cleanups.  On ARM EHABI __cxa_begin_cleanup puts the exception on the    *)
(* propagating stack and __cxa_end_cleanup resumes with what it finds there.*)
(***************************************************************************)
cxa_begin_cleanup(t) ==
  LET x == Top(t).e
      cleanup == Replaced(t, Frame("cleanup", x))
  IN  /\ TopIs(t, "raise")
      /\ \/ /\ ~EHABI
            /\ ctl' = [ctl EXCEPT ![t] = cleanup]
            /\ UNCHANGED <<hdr, propagating, terminated>>
         \/ /\ EHABI /\ isOurs(x)
            /\ hdr' = [hdr EXCEPT ![x].props = @ + 1,
                                  ![x].nextProp = IF hdr[x].props = 0 THEN propagating[t] ELSE @]
            /\ propagating' = [propagating EXCEPT ![t] = IF hdr[x].props = 0 THEN x ELSE @]
            /\ ctl' = [ctl EXCEPT ![t] = cleanup]
            /\ UNCHANGED terminated
         \/ /\ EHABI /\ ~isOurs(x) /\ propagating[t] = NULL
            /\ propagating' = [propagating EXCEPT ![t] = x]
            /\ ctl' = [ctl EXCEPT ![t] = cleanup]
            /\ UNCHANGED <<hdr, terminated>>
         \/ /\ EHABI /\ ~isOurs(x) /\ propagating[t] # NULL
            /\ terminated' = TRUE
            /\ UNCHANGED <<hdr, propagating, ctl>>
      /\ UNCHANGED <<caught, uncaught, ptrs, foreignCaught>>

EndCleanupNative(t, x) ==
  /\ hdr' = [hdr EXCEPT ![x].props = @ - 1,
                        ![x].nextProp = IF hdr[x].props = 1 THEN NULL ELSE @]
  /\ propagating' = [propagating EXCEPT ![t] = IF hdr[x].props = 1 THEN hdr[x].nextProp ELSE @]

cxa_end_cleanup(t) ==
  LET x == IF EHABI THEN propagating[t] ELSE Top(t).e
  IN  /\ TopIs(t, "cleanup")
      /\ IF EHABI /\ x = NULL
           THEN terminated' = TRUE /\ UNCHANGED ctl
           ELSE ctl' = [ctl EXCEPT ![t] = Replaced(t, Frame("raise", x))] /\ UNCHANGED terminated
      /\ \/ /\ EHABI /\ x # NULL /\ isOurs(x)
            /\ EndCleanupNative(t, x)
         \/ /\ EHABI /\ x # NULL /\ ~isOurs(x)
            /\ propagating' = [propagating EXCEPT ![t] = NULL]
            /\ UNCHANGED hdr
         \/ /\ EHABI => x = NULL
            /\ UNCHANGED <<hdr, propagating>>
      /\ UNCHANGED <<caught, uncaught, ptrs, foreignCaught>>

(***************************************************************************)
(* Another runtime's handler catches a native exception and deletes it:     *)
(* exception_cleanup_func and dependent_exception_cleanup.  That runtime    *)
(* does not do so inside a native handler of the same exception.            *)
(***************************************************************************)
exception_cleanup_func(t) ==
  LET x == Top(t).e
      p == OwnedBy(hdr, x)
  IN  /\ TopIs(t, "raise")
      /\ isOurs(x) /\ foreignCaught[t] < MaxForeign
      /\ Handlers(t, x) = {}
      /\ hdr' = Decremented(FreedIfDependent(hdr, x), p)
      /\ ctl' = [ctl EXCEPT ![t] = DestroysIfLast(hdr, p, Front(@))]
      /\ foreignCaught' = [foreignCaught EXCEPT ![t] = @ + 1]
      /\ UNCHANGED <<caught, uncaught, propagating, ptrs, terminated>>

Program(t) ==
  \/ \E e \in Primaries : cxa_allocate_exception(t, e)
  \/ cxa_throw(t)
  \/ \E e \in Foreigns : ForeignThrow(t, e)
  \/ cxa_rethrow(t)
  \/ cxa_end_catch(t)
  \/ EndDestroy(t)
  \/ cxa_current_primary_exception(t)
  \/ \E p \in Primaries : \/ cxa_increment_exception_refcount(t, p)
                          \/ cxa_decrement_exception_refcount(t, p)
                          \/ \E d \in Dependents : cxa_rethrow_primary_exception(t, p, d)

Unwinder(t) ==
  \/ HandlerFound(t)
  \/ failed_throw(t)
  \/ cxa_begin_catch(t)
  \/ Unwind(t)
  \/ cxa_begin_cleanup(t)
  \/ cxa_end_cleanup(t)
  \/ exception_cleanup_func(t)

Next == \E t \in Threads : Program(t) \/ Unwinder(t)

Spec == Init /\ [][Next]_vars

-----------------------------------------------------------------------------
FliesOn(t) == {i \in DOMAIN ctl[t] : ctl[t][i].k \in {"search", "raise", "cleanup"}}

\* The caught stack of t: what caughtExceptions and the nextExceptions of
\* native exceptions lead to.
Linked(S) == \A e \in S : isOurs(e) /\ hdr[e].next # NULL => hdr[e].next \in S
CaughtStack(t) ==
  {e \in Objects : /\ caught[t] # NULL
                   /\ \A S \in SUBSET Objects : caught[t] \in S /\ Linked(S) => e \in S}

(***************************************************************************)
(* No use after free: what is caught, in flight, referred to by an          *)
(* exception_ptr or the primary of a live dependent exception has not been  *)
(* destroyed.                                                               *)
(***************************************************************************)
NoUseAfterFree ==
  /\ \A t \in Threads : /\ \A e \in CaughtStack(t) : hdr[e].state = "live"
                        /\ \A i \in FliesOn(t) : hdr[ctl[t][i].e].state = "live"
  /\ \A p \in Primaries : ptrs[p] > 0 => hdr[p].state = "live"
  /\ \A d \in Dependents : hdr[d].state = "live" => hdr[hdr[d].primary].state = "live"

(***************************************************************************)
(* No leak and no early end: the reference count of a primary exception is  *)
(* the number of its exception_ptrs and of its dependent exceptions, and    *)
(* one more while it is itself in flight or in a handler; a dependent       *)
(* exception exists only while it is in flight or in a handler.             *)
(***************************************************************************)
InUse(e) == \E t \in Threads : InFlight(t, e) \/ Handlers(t, e) # {}
OwnersCounted ==
  /\ \A p \in Primaries :
       hdr[p].state = "live" =>
         /\ hdr[p].refs = ptrs[p] + Cardinality({d \in Dependents : hdr[d].primary = p})
                                  + (IF InUse(p) THEN 1 ELSE 0)
         /\ hdr[p].refs > 0
  /\ \A d \in Dependents : hdr[d].state = "live" => InUse(d)

(***************************************************************************)
(* std::uncaught_exceptions(): the native exceptions of the thread that are *)
(* in flight, the ones another runtime caught included: the runtime is not  *)
(* told of them and keeps counting them.                                    *)
(***************************************************************************)
UncaughtCounted ==
  \A t \in Threads :
    uncaught[t] = Cardinality({i \in FliesOn(t) : isOurs(ctl[t][i].e)}) + foreignCaught[t]

(***************************************************************************)
(* std::current_exception() and throw; see the exception of the innermost   *)
(* handler of the thread, and each exception knows how many of its handlers *)
(* run.  The handlers of a foreign exception are excepted: it may be gone   *)
(* before they end.                                                         *)
(***************************************************************************)
CurrentIsInnermost ==
  \A t \in Threads :
    LET native == {i \in DOMAIN ctl[t] : ctl[t][i].k = "handler" /\ isOurs(ctl[t][i].e)}
        foreign == {i \in DOMAIN ctl[t] : ctl[t][i].k = "handler" /\ ~isOurs(ctl[t][i].e)}
        innermost == CHOOSE i \in native : \A j \in native : j <= i
    IN  /\ native # {} => caught[t] = ctl[t][innermost].e
        /\ native = {} /\ foreign = {} => caught[t] = NULL
        /\ \A i \in native : LET e == ctl[t][i].e
                             IN  hdr[e].handlers \in {Cardinality(Handlers(t, e)), -Cardinality(Handlers(t, e))}

(***************************************************************************)
(* On ARM EHABI the end of a cleanup resumes the exception that the cleanup *)
(* interrupted, although it learns of it only from the propagating stack.   *)
(***************************************************************************)
ResumesInterrupted ==
  EHABI => \A t \in Threads : TopIs(t, "cleanup") => propagating[t] = Top(t).e
=============================================================================
