---------------------------- MODULE MCExceptions ----------------------------
(***************************************************************************)
(* Exceptions, checked in one run: "which" says what a behaviour is about. *)
(* "threads": two threads hand exceptions over through exception_ptr;      *)
(* "nested": one thread with handlers in handlers, and another runtime;    *)
(* "ehabi": the same on ARM EHABI; "heap": the memory they are built in    *)
(* when malloc fails, freed in any order; "nested heap": freed in reverse  *)
(* order; "native", "spec", "forced": programs unwound in two phases.      *)
(***************************************************************************)
EXTENDS Integers, Sequences, TLC

CONSTANTS
  Threads,                            \* bound: the threads of "threads"
  Alone,                              \* bound: the thread of "nested" and "ehabi"
  Primaries, Dependents, Foreigns,    \* bound: exceptions
  SharedDepth, AloneDepth,            \* bounds: MaxDepth of CxaException
  SharedPtrs, AlonePtrs,              \* bounds: MaxPtrs
  NestedForeign                       \* bound: MaxForeign

VARIABLES
  which,
  hdr, caught, uncaught, propagating, ctl, ptrs, foreignCaught, terminated,
  freelist, next, len, held,
  stack, unwindCaught, ex, uw, ended, hist

cxaVars == <<hdr, caught, uncaught, propagating, ctl, ptrs, foreignCaught, terminated>>
heapVars == <<freelist, next, len, held>>
unwindVars == <<stack, unwindCaught, ex, uw, ended, hist>>
allVars == <<which, cxaVars, heapVars, unwindVars>>

Shared == INSTANCE CxaException
  WITH Foreigns <- {}, MaxDepth <- SharedDepth, MaxPtrs <- SharedPtrs, MaxForeign <- 0,
       EHABI <- FALSE, RethrowInCleanup <- FALSE

Nested == INSTANCE CxaException
  WITH Threads <- Alone, MaxDepth <- AloneDepth, MaxPtrs <- AlonePtrs, MaxForeign <- NestedForeign,
       EHABI <- FALSE, RethrowInCleanup <- FALSE

Ehabi == INSTANCE CxaException
  WITH Threads <- Alone, MaxDepth <- AloneDepth, MaxPtrs <- AlonePtrs, MaxForeign <- 0,
       EHABI <- TRUE, RethrowInCleanup <- FALSE

\* Requests that take two and three units, and one that takes the whole heap.
\* Not freed: a block in front of a free chunk in the middle of the list
\* (disagreement 5 of the README).
Heap == INSTANCE FallbackMalloc
  WITH HeapUnits <- 10, Lens <- {1, 36}, GlobalsLen <- 8, MaxHeld <- 4, LastFirst <- FALSE, FrontInMiddle <- FALSE

NestedHeap == INSTANCE FallbackMalloc
  WITH HeapUnits <- 10, Lens <- {1, 36}, GlobalsLen <- 8, MaxHeld <- 4, LastFirst <- TRUE, FrontInMiddle <- TRUE

-----------------------------------------------------------------------------
(* Programs that throw: with handlers and cleanups, with exception         *)
(* specifications, with another runtime's exceptions and forced unwinding. *)
MCBases == [D |-> {"D", "B"}, I |-> {"I"}, bad_exception |-> {"bad_exception"}]

\* For the operators that write tables down.
Eh == INSTANCE TwoPhaseUnwind
  WITH Kinds <- {}, Types <- {}, Bases <- MCBases, Foreign <- FALSE, Forced <- FALSE,
       MaxDepth <- 1, MaxExceptions <- 0, caught <- unwindCaught

Plain    == Eh!Kind(FALSE, "none", <<>>)
NoExcept == Eh!Kind(TRUE, "none", <<>>)
Cleanup  == Eh!Kind(TRUE, "pad", <<>>)

\* Frames without a personality are among ForcedKinds.
NativeKinds == {NoExcept, Cleanup,
                Eh!Kind(TRUE, "pad", <<Eh!Catch("D"), Eh!Catch("B"), Eh!CleanupAction>>),
                Eh!Kind(TRUE, "pad", <<Eh!CatchAny>>)}

SpecKinds == {Eh!Kind(TRUE, "pad", <<Eh!SpecOf({"B"})>>),
              Eh!Kind(TRUE, "pad", <<Eh!SpecOf({"I", "bad_exception"})>>),
              Eh!Kind(TRUE, "pad", <<Eh!Catch("B")>>)}

ForcedKinds == {Plain, NoExcept, Cleanup, Eh!Kind(TRUE, "pad", <<Eh!CatchAny, Eh!CleanupAction>>),
                Eh!Kind(TRUE, "pad", <<Eh!Catch("B"), Eh!SpecOf({})>>)}

NativeProgram == INSTANCE TwoPhaseUnwind
  WITH Kinds <- NativeKinds, Types <- {"D", "I"}, Bases <- MCBases, Foreign <- FALSE, Forced <- FALSE,
       MaxDepth <- 3, MaxExceptions <- 3, caught <- unwindCaught

SpecProgram == INSTANCE TwoPhaseUnwind
  WITH Kinds <- SpecKinds, Types <- {"D", "I"}, Bases <- MCBases, Foreign <- FALSE, Forced <- FALSE,
       MaxDepth <- 3, MaxExceptions <- 3, caught <- unwindCaught

ForcedProgram == INSTANCE TwoPhaseUnwind
  WITH Kinds <- ForcedKinds, Types <- {"D"}, Bases <- MCBases, Foreign <- TRUE, Forced <- TRUE,
       MaxDepth <- 3, MaxExceptions <- 2, caught <- unwindCaught

-----------------------------------------------------------------------------
ASSUME SuiteAssumption ==
  /\ Shared!ExceptionAssumption /\ Nested!ExceptionAssumption /\ Ehabi!ExceptionAssumption
  /\ Heap!HeapAssumption /\ NestedHeap!HeapAssumption
  /\ NativeProgram!UnwindAssumption /\ SpecProgram!UnwindAssumption /\ ForcedProgram!UnwindAssumption

Symmetry == Permutations(Primaries)

Programs == {"native", "spec", "forced"}

Init ==
  /\ which \in {"threads", "nested", "ehabi", "heap", "nested heap"} \cup Programs
  /\ CASE which = "nested" -> Nested!Init [] which = "ehabi" -> Ehabi!Init [] OTHER -> Shared!Init
  /\ Heap!Init
  /\ \/ which = "spec" /\ SpecProgram!Init
     \/ which = "forced" /\ ForcedProgram!Init
     \/ which \notin {"spec", "forced"} /\ NativeProgram!Init
  \* What is not used starts in one state.
  /\ which \notin Programs => stack = <<NativeProgram!NewFrame(Cleanup)>>

Next ==
  \/ /\ UNCHANGED <<which, heapVars, unwindVars>>
     /\ \/ which = "threads" /\ Shared!Next
        \/ which = "nested" /\ Nested!Next
        \/ which = "ehabi" /\ Ehabi!Next
  \/ /\ UNCHANGED <<which, cxaVars, unwindVars>>
     /\ \/ which = "heap" /\ Heap!Next
        \/ which = "nested heap" /\ NestedHeap!Next
  \/ /\ UNCHANGED <<which, cxaVars, heapVars>>
     /\ \/ which = "native" /\ NativeProgram!Next
        \/ which = "spec" /\ SpecProgram!Next
        \/ which = "forced" /\ ForcedProgram!Next

Spec == Init /\ [][Next]_allVars

-----------------------------------------------------------------------------
(* What is caught, in flight, referred to by an exception_ptr or the       *)
(* primary of a live dependent exception has not been destroyed, and none  *)
(* leaks: the reference count of a primary exception is the number of its  *)
(* exception_ptrs and dependent exceptions, and one more while it is       *)
(* itself in flight or in a handler.                                       *)
LivesWhileOwned ==
  CASE which = "threads" -> Shared!NoUseAfterFree /\ Shared!OwnersCounted
    [] which = "nested" -> Nested!NoUseAfterFree /\ Nested!OwnersCounted
    [] which = "ehabi" -> Ehabi!NoUseAfterFree /\ Ehabi!OwnersCounted
    [] OTHER -> TRUE

(* std::uncaught_exceptions() is the number of native exceptions of the    *)
(* thread that are in flight, rethrown ones and those another runtime      *)
(* caught included.                                                        *)
CountsRight ==
  CASE which = "threads" -> Shared!UncaughtCounted
    [] which = "nested" -> Nested!UncaughtCounted
    [] which = "ehabi" -> Ehabi!UncaughtCounted
    [] OTHER -> TRUE

(* std::current_exception() and throw; see the exception of the innermost  *)
(* handler of the thread, each exception knows how many of its handlers    *)
(* run, and on ARM EHABI the end of a cleanup resumes the exception that   *)
(* the cleanup interrupted.                                                *)
RightException ==
  CASE which = "threads" -> Shared!CurrentIsInnermost
    [] which = "nested" -> Nested!CurrentIsInnermost
    [] which = "ehabi" -> Ehabi!CurrentIsInnermost /\ Ehabi!ResumesInterrupted
    [] OTHER -> TRUE

(* The free chunks and the held blocks tile the emergency heap: none       *)
(* overlaps another and no unit is lost to both, in whatever order blocks  *)
(* are freed and merged with chunks anywhere in the list.  When they are   *)
(* freed in reverse order the heap is one chunk again in the end, so that  *)
(* the largest request succeeds.                                           *)
Tiled == Heap!Tiled /\ (which = "nested heap" => NestedHeap!OneChunkAgain)

(* Every exception lands where C++ says: the cleanups from the throw       *)
(* outward, each once, then the innermost handler that catches it; a       *)
(* forced unwinding passes every frame up to its target.  On the way the   *)
(* handlerCount of an exception is the number of handlers that run for it. *)
UnwindsAsPlanned ==
  CASE which = "native" -> NativeProgram!UnwindsAsPlanned /\ NativeProgram!HandlersCounted
    [] which = "spec" -> SpecProgram!UnwindsAsPlanned /\ SpecProgram!HandlersCounted
    [] which = "forced" -> ForcedProgram!UnwindsAsPlanned
    [] OTHER -> TRUE

(* No exception of this runtime leaves a function whose exception          *)
(* specification does not admit it, also when the unexpected handler or    *)
(* __cxa_call_unexpected threw it; and __cxa_call_unexpected ends the      *)
(* program only when the violated specification admits neither what was    *)
(* thrown nor bad_exception.                                               *)
SpecHonoured ==
  /\ [](which = "spec" => SpecProgram!SpecGivesWay)
  /\ [][which = "spec" => SpecProgram!PassesOnlyAdmitted]_allVars
=============================================================================
