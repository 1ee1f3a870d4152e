------------------------ MODULE ExceptionSuiteProofs ------------------------
(***************************************************************************)
(* The properties of the suite MCExceptions that are about exception       *)
(* objects: ExceptionProofs, for each of its instances of CxaException.    *)
(***************************************************************************)
EXTENDS MCExceptions, FiniteSets, TLAPS

SharedProofs == INSTANCE ExceptionProofs
  WITH Foreigns <- {}, MaxDepth <- SharedDepth, MaxPtrs <- SharedPtrs, MaxForeign <- 0,
       EHABI <- FALSE, RethrowInCleanup <- FALSE

NestedProofs == INSTANCE ExceptionProofs
  WITH Threads <- Alone, MaxDepth <- AloneDepth, MaxPtrs <- AlonePtrs, MaxForeign <- NestedForeign,
       EHABI <- FALSE, RethrowInCleanup <- FALSE

EhabiProofs == INSTANCE ExceptionProofs
  WITH Threads <- Alone, MaxDepth <- AloneDepth, MaxPtrs <- AlonePtrs, MaxForeign <- 0,
       EHABI <- TRUE, RethrowInCleanup <- FALSE

\* What ExceptionProofs assumes.
LEMMA ObjectsInSuite ==
  SharedProofs!ObjectsAssumption /\ NestedProofs!ObjectsAssumption /\ EhabiProofs!ObjectsAssumption
<1>1. SharedProofs!ObjectsAssumption
  BY SuiteAssumption
     DEF SharedProofs!ObjectsAssumption, Shared!ExceptionAssumption, Shared!NULL, Shared!Objects, Shared!IsFiniteSet,
         SharedProofs!NULL, SharedProofs!Objects, SharedProofs!Ours, SharedProofs!IsFiniteSet, IsFiniteSet
<1>2. NestedProofs!ObjectsAssumption
  BY SuiteAssumption
     DEF NestedProofs!ObjectsAssumption, Nested!ExceptionAssumption, Nested!NULL, Nested!Objects, Nested!IsFiniteSet,
         NestedProofs!NULL, NestedProofs!Objects, NestedProofs!Ours, NestedProofs!IsFiniteSet, IsFiniteSet
<1>3. EhabiProofs!ObjectsAssumption
  BY SuiteAssumption
     DEF EhabiProofs!ObjectsAssumption, Ehabi!ExceptionAssumption, Ehabi!NULL, Ehabi!Objects, Ehabi!IsFiniteSet,
         EhabiProofs!NULL, EhabiProofs!Objects, EhabiProofs!Ours, EhabiProofs!IsFiniteSet, IsFiniteSet
<1> QED  BY <1>1, <1>2, <1>3

-----------------------------------------------------------------------------
(* The instances of the suite and those of the proofs are the same.        *)

\* The actions of Shared.
LEMMA SharedSame ==
  (Shared!Init => SharedProofs!Init) /\ (Shared!Next => SharedProofs!Next)
<1> USE DEF Shared!NULL, SharedProofs!NULL, Shared!isOurs, SharedProofs!isOurs, Shared!Unused,
        SharedProofs!Unused, Shared!Frame, SharedProofs!Frame, Shared!Top, SharedProofs!Top,
        Shared!TopIs, SharedProofs!TopIs, Shared!Replaced, SharedProofs!Replaced,
        Shared!Runs, SharedProofs!Runs, Shared!MayPush, SharedProofs!MayPush,
        Shared!Decremented, SharedProofs!Decremented, Shared!DestroysIfLast,
        SharedProofs!DestroysIfLast, Shared!Rethrown, SharedProofs!Rethrown, Shared!OwnedBy,
        SharedProofs!OwnedBy, Shared!FreedIfDependent, SharedProofs!FreedIfDependent,
        Shared!EndCatch, SharedProofs!EndCatch, Shared!BeginCatchNative,
        SharedProofs!BeginCatchNative, Shared!OneLessUncaught, SharedProofs!OneLessUncaught,
        Shared!BeginCatch, SharedProofs!BeginCatch, Shared!CannotCatch,
        SharedProofs!CannotCatch, Shared!Handlers, SharedProofs!Handlers, Shared!InFlight,
        SharedProofs!InFlight, Shared!DependentOf, SharedProofs!DependentOf,
        Shared!CountsOwner, SharedProofs!CountsOwner, Shared!EndCleanupNative,
        SharedProofs!EndCleanupNative, Shared!Last, SharedProofs!Last, Shared!Front,
        SharedProofs!Front
<1>1. Shared!Init => SharedProofs!Init
  BY DEF Shared!Init, SharedProofs!Init, Shared!Objects, SharedProofs!Objects
<1>2. ASSUME NEW t \in Threads PROVE Shared!Program(t) => SharedProofs!Program(t)
  <2>1. Shared!cxa_throw(t) => SharedProofs!cxa_throw(t)
    BY DEF Shared!cxa_throw, SharedProofs!cxa_throw
  <2>2. Shared!cxa_rethrow(t) => SharedProofs!cxa_rethrow(t)
    BY DEF Shared!cxa_rethrow, SharedProofs!cxa_rethrow
  <2>3. Shared!cxa_end_catch(t) => SharedProofs!cxa_end_catch(t)
    BY DEF Shared!cxa_end_catch, SharedProofs!cxa_end_catch
  <2>4. Shared!EndDestroy(t) => SharedProofs!EndDestroy(t)
    BY DEF Shared!EndDestroy, SharedProofs!EndDestroy
  <2>5. Shared!cxa_current_primary_exception(t) => SharedProofs!cxa_current_primary_exception(t)
    BY DEF Shared!cxa_current_primary_exception, SharedProofs!cxa_current_primary_exception
  <2>6. ASSUME NEW e PROVE Shared!cxa_allocate_exception(t, e) => SharedProofs!cxa_allocate_exception(t, e)
    BY DEF Shared!cxa_allocate_exception, SharedProofs!cxa_allocate_exception
  <2>7. ASSUME NEW e PROVE Shared!ForeignThrow(t, e) => SharedProofs!ForeignThrow(t, e)
    BY DEF Shared!ForeignThrow, SharedProofs!ForeignThrow
  <2>8. ASSUME NEW p PROVE Shared!cxa_increment_exception_refcount(t, p) => SharedProofs!cxa_increment_exception_refcount(t, p)
    BY DEF Shared!cxa_increment_exception_refcount, SharedProofs!cxa_increment_exception_refcount
  <2>9. ASSUME NEW p PROVE Shared!cxa_decrement_exception_refcount(t, p) => SharedProofs!cxa_decrement_exception_refcount(t, p)
    BY DEF Shared!cxa_decrement_exception_refcount, SharedProofs!cxa_decrement_exception_refcount
  <2>10. ASSUME NEW p, NEW d PROVE Shared!cxa_rethrow_primary_exception(t, p, d) => SharedProofs!cxa_rethrow_primary_exception(t, p, d)
    BY DEF Shared!cxa_rethrow_primary_exception, SharedProofs!cxa_rethrow_primary_exception
  <2> QED  BY <2>1, <2>2, <2>3, <2>4, <2>5, <2>6, <2>7, <2>8, <2>9, <2>10 DEF Shared!Program, SharedProofs!Program
<1>3. ASSUME NEW t \in Threads PROVE Shared!Unwinder(t) => SharedProofs!Unwinder(t)
  <2>1. Shared!HandlerFound(t) => SharedProofs!HandlerFound(t)
    BY DEF Shared!HandlerFound, SharedProofs!HandlerFound
  <2>2. Shared!failed_throw(t) => SharedProofs!failed_throw(t)
    BY DEF Shared!failed_throw, SharedProofs!failed_throw
  <2>3. Shared!cxa_begin_catch(t) => SharedProofs!cxa_begin_catch(t)
    BY DEF Shared!cxa_begin_catch, SharedProofs!cxa_begin_catch
  <2>4. Shared!Unwind(t) => SharedProofs!Unwind(t)
    BY DEF Shared!Unwind, SharedProofs!Unwind
  <2>5. Shared!cxa_begin_cleanup(t) => SharedProofs!cxa_begin_cleanup(t)
    BY DEF Shared!cxa_begin_cleanup, SharedProofs!cxa_begin_cleanup
  <2>6. Shared!cxa_end_cleanup(t) => SharedProofs!cxa_end_cleanup(t)
    BY DEF Shared!cxa_end_cleanup, SharedProofs!cxa_end_cleanup
  <2>7. Shared!exception_cleanup_func(t) => SharedProofs!exception_cleanup_func(t)
    BY DEF Shared!exception_cleanup_func, SharedProofs!exception_cleanup_func
  <2> QED  BY <2>1, <2>2, <2>3, <2>4, <2>5, <2>6, <2>7 DEF Shared!Unwinder, SharedProofs!Unwinder
<1> QED  BY <1>1, <1>2, <1>3 DEF Shared!Next, SharedProofs!Next

\* The actions of Nested.
LEMMA NestedSame ==
  (Nested!Init => NestedProofs!Init) /\ (Nested!Next => NestedProofs!Next)
<1> USE DEF Nested!NULL, NestedProofs!NULL, Nested!isOurs, NestedProofs!isOurs, Nested!Unused,
        NestedProofs!Unused, Nested!Frame, NestedProofs!Frame, Nested!Top, NestedProofs!Top,
        Nested!TopIs, NestedProofs!TopIs, Nested!Replaced, NestedProofs!Replaced,
        Nested!Runs, NestedProofs!Runs, Nested!MayPush, NestedProofs!MayPush,
        Nested!Decremented, NestedProofs!Decremented, Nested!DestroysIfLast,
        NestedProofs!DestroysIfLast, Nested!Rethrown, NestedProofs!Rethrown, Nested!OwnedBy,
        NestedProofs!OwnedBy, Nested!FreedIfDependent, NestedProofs!FreedIfDependent,
        Nested!EndCatch, NestedProofs!EndCatch, Nested!BeginCatchNative,
        NestedProofs!BeginCatchNative, Nested!OneLessUncaught, NestedProofs!OneLessUncaught,
        Nested!BeginCatch, NestedProofs!BeginCatch, Nested!CannotCatch,
        NestedProofs!CannotCatch, Nested!Handlers, NestedProofs!Handlers, Nested!InFlight,
        NestedProofs!InFlight, Nested!DependentOf, NestedProofs!DependentOf,
        Nested!CountsOwner, NestedProofs!CountsOwner, Nested!EndCleanupNative,
        NestedProofs!EndCleanupNative, Nested!Last, NestedProofs!Last, Nested!Front,
        NestedProofs!Front
<1>1. Nested!Init => NestedProofs!Init
  BY DEF Nested!Init, NestedProofs!Init, Nested!Objects, NestedProofs!Objects
<1>2. ASSUME NEW t \in Alone PROVE Nested!Program(t) => NestedProofs!Program(t)
  <2>1. Nested!cxa_throw(t) => NestedProofs!cxa_throw(t)
    BY DEF Nested!cxa_throw, NestedProofs!cxa_throw
  <2>2. Nested!cxa_rethrow(t) => NestedProofs!cxa_rethrow(t)
    BY DEF Nested!cxa_rethrow, NestedProofs!cxa_rethrow
  <2>3. Nested!cxa_end_catch(t) => NestedProofs!cxa_end_catch(t)
    BY DEF Nested!cxa_end_catch, NestedProofs!cxa_end_catch
  <2>4. Nested!EndDestroy(t) => NestedProofs!EndDestroy(t)
    BY DEF Nested!EndDestroy, NestedProofs!EndDestroy
  <2>5. Nested!cxa_current_primary_exception(t) => NestedProofs!cxa_current_primary_exception(t)
    BY DEF Nested!cxa_current_primary_exception, NestedProofs!cxa_current_primary_exception
  <2>6. ASSUME NEW e PROVE Nested!cxa_allocate_exception(t, e) => NestedProofs!cxa_allocate_exception(t, e)
    BY DEF Nested!cxa_allocate_exception, NestedProofs!cxa_allocate_exception
  <2>7. ASSUME NEW e PROVE Nested!ForeignThrow(t, e) => NestedProofs!ForeignThrow(t, e)
    BY DEF Nested!ForeignThrow, NestedProofs!ForeignThrow
  <2>8. ASSUME NEW p PROVE Nested!cxa_increment_exception_refcount(t, p) => NestedProofs!cxa_increment_exception_refcount(t, p)
    BY DEF Nested!cxa_increment_exception_refcount, NestedProofs!cxa_increment_exception_refcount
  <2>9. ASSUME NEW p PROVE Nested!cxa_decrement_exception_refcount(t, p) => NestedProofs!cxa_decrement_exception_refcount(t, p)
    BY DEF Nested!cxa_decrement_exception_refcount, NestedProofs!cxa_decrement_exception_refcount
  <2>10. ASSUME NEW p, NEW d PROVE Nested!cxa_rethrow_primary_exception(t, p, d) => NestedProofs!cxa_rethrow_primary_exception(t, p, d)
    BY DEF Nested!cxa_rethrow_primary_exception, NestedProofs!cxa_rethrow_primary_exception
  <2> QED  BY <2>1, <2>2, <2>3, <2>4, <2>5, <2>6, <2>7, <2>8, <2>9, <2>10 DEF Nested!Program, NestedProofs!Program
<1>3. ASSUME NEW t \in Alone PROVE Nested!Unwinder(t) => NestedProofs!Unwinder(t)
  <2>1. Nested!HandlerFound(t) => NestedProofs!HandlerFound(t)
    BY DEF Nested!HandlerFound, NestedProofs!HandlerFound
  <2>2. Nested!failed_throw(t) => NestedProofs!failed_throw(t)
    BY DEF Nested!failed_throw, NestedProofs!failed_throw
  <2>3. Nested!cxa_begin_catch(t) => NestedProofs!cxa_begin_catch(t)
    BY DEF Nested!cxa_begin_catch, NestedProofs!cxa_begin_catch
  <2>4. Nested!Unwind(t) => NestedProofs!Unwind(t)
    BY DEF Nested!Unwind, NestedProofs!Unwind
  <2>5. Nested!cxa_begin_cleanup(t) => NestedProofs!cxa_begin_cleanup(t)
    BY DEF Nested!cxa_begin_cleanup, NestedProofs!cxa_begin_cleanup
  <2>6. Nested!cxa_end_cleanup(t) => NestedProofs!cxa_end_cleanup(t)
    BY DEF Nested!cxa_end_cleanup, NestedProofs!cxa_end_cleanup
  <2>7. Nested!exception_cleanup_func(t) => NestedProofs!exception_cleanup_func(t)
    BY DEF Nested!exception_cleanup_func, NestedProofs!exception_cleanup_func
  <2> QED  BY <2>1, <2>2, <2>3, <2>4, <2>5, <2>6, <2>7 DEF Nested!Unwinder, NestedProofs!Unwinder
<1> QED  BY <1>1, <1>2, <1>3 DEF Nested!Next, NestedProofs!Next

\* The actions of Ehabi.
LEMMA EhabiSame ==
  (Ehabi!Init => EhabiProofs!Init) /\ (Ehabi!Next => EhabiProofs!Next)
<1> USE DEF Ehabi!NULL, EhabiProofs!NULL, Ehabi!isOurs, EhabiProofs!isOurs, Ehabi!Unused,
        EhabiProofs!Unused, Ehabi!Frame, EhabiProofs!Frame, Ehabi!Top, EhabiProofs!Top,
        Ehabi!TopIs, EhabiProofs!TopIs, Ehabi!Replaced, EhabiProofs!Replaced, Ehabi!Runs,
        EhabiProofs!Runs, Ehabi!MayPush, EhabiProofs!MayPush, Ehabi!Decremented,
        EhabiProofs!Decremented, Ehabi!DestroysIfLast, EhabiProofs!DestroysIfLast,
        Ehabi!Rethrown, EhabiProofs!Rethrown, Ehabi!OwnedBy, EhabiProofs!OwnedBy,
        Ehabi!FreedIfDependent, EhabiProofs!FreedIfDependent, Ehabi!EndCatch,
        EhabiProofs!EndCatch, Ehabi!BeginCatchNative, EhabiProofs!BeginCatchNative,
        Ehabi!OneLessUncaught, EhabiProofs!OneLessUncaught, Ehabi!BeginCatch,
        EhabiProofs!BeginCatch, Ehabi!CannotCatch, EhabiProofs!CannotCatch, Ehabi!Handlers,
        EhabiProofs!Handlers, Ehabi!InFlight, EhabiProofs!InFlight, Ehabi!DependentOf,
        EhabiProofs!DependentOf, Ehabi!CountsOwner, EhabiProofs!CountsOwner,
        Ehabi!EndCleanupNative, EhabiProofs!EndCleanupNative, Ehabi!Last, EhabiProofs!Last,
        Ehabi!Front, EhabiProofs!Front
<1>1. Ehabi!Init => EhabiProofs!Init
  BY DEF Ehabi!Init, EhabiProofs!Init, Ehabi!Objects, EhabiProofs!Objects
<1>2. ASSUME NEW t \in Alone PROVE Ehabi!Program(t) => EhabiProofs!Program(t)
  <2>1. Ehabi!cxa_throw(t) => EhabiProofs!cxa_throw(t)
    BY DEF Ehabi!cxa_throw, EhabiProofs!cxa_throw
  <2>2. Ehabi!cxa_rethrow(t) => EhabiProofs!cxa_rethrow(t)
    BY DEF Ehabi!cxa_rethrow, EhabiProofs!cxa_rethrow
  <2>3. Ehabi!cxa_end_catch(t) => EhabiProofs!cxa_end_catch(t)
    BY DEF Ehabi!cxa_end_catch, EhabiProofs!cxa_end_catch
  <2>4. Ehabi!EndDestroy(t) => EhabiProofs!EndDestroy(t)
    BY DEF Ehabi!EndDestroy, EhabiProofs!EndDestroy
  <2>5. Ehabi!cxa_current_primary_exception(t) => EhabiProofs!cxa_current_primary_exception(t)
    BY DEF Ehabi!cxa_current_primary_exception, EhabiProofs!cxa_current_primary_exception
  <2>6. ASSUME NEW e PROVE Ehabi!cxa_allocate_exception(t, e) => EhabiProofs!cxa_allocate_exception(t, e)
    BY DEF Ehabi!cxa_allocate_exception, EhabiProofs!cxa_allocate_exception
  <2>7. ASSUME NEW e PROVE Ehabi!ForeignThrow(t, e) => EhabiProofs!ForeignThrow(t, e)
    BY DEF Ehabi!ForeignThrow, EhabiProofs!ForeignThrow
  <2>8. ASSUME NEW p PROVE Ehabi!cxa_increment_exception_refcount(t, p) => EhabiProofs!cxa_increment_exception_refcount(t, p)
    BY DEF Ehabi!cxa_increment_exception_refcount, EhabiProofs!cxa_increment_exception_refcount
  <2>9. ASSUME NEW p PROVE Ehabi!cxa_decrement_exception_refcount(t, p) => EhabiProofs!cxa_decrement_exception_refcount(t, p)
    BY DEF Ehabi!cxa_decrement_exception_refcount, EhabiProofs!cxa_decrement_exception_refcount
  <2>10. ASSUME NEW p, NEW d PROVE Ehabi!cxa_rethrow_primary_exception(t, p, d) => EhabiProofs!cxa_rethrow_primary_exception(t, p, d)
    BY DEF Ehabi!cxa_rethrow_primary_exception, EhabiProofs!cxa_rethrow_primary_exception
  <2> QED  BY <2>1, <2>2, <2>3, <2>4, <2>5, <2>6, <2>7, <2>8, <2>9, <2>10 DEF Ehabi!Program, EhabiProofs!Program
<1>3. ASSUME NEW t \in Alone PROVE Ehabi!Unwinder(t) => EhabiProofs!Unwinder(t)
  <2>1. Ehabi!HandlerFound(t) => EhabiProofs!HandlerFound(t)
    BY DEF Ehabi!HandlerFound, EhabiProofs!HandlerFound
  <2>2. Ehabi!failed_throw(t) => EhabiProofs!failed_throw(t)
    BY DEF Ehabi!failed_throw, EhabiProofs!failed_throw
  <2>3. Ehabi!cxa_begin_catch(t) => EhabiProofs!cxa_begin_catch(t)
    BY DEF Ehabi!cxa_begin_catch, EhabiProofs!cxa_begin_catch
  <2>4. Ehabi!Unwind(t) => EhabiProofs!Unwind(t)
    BY DEF Ehabi!Unwind, EhabiProofs!Unwind
  <2>5. Ehabi!cxa_begin_cleanup(t) => EhabiProofs!cxa_begin_cleanup(t)
    BY DEF Ehabi!cxa_begin_cleanup, EhabiProofs!cxa_begin_cleanup
  <2>6. Ehabi!cxa_end_cleanup(t) => EhabiProofs!cxa_end_cleanup(t)
    BY DEF Ehabi!cxa_end_cleanup, EhabiProofs!cxa_end_cleanup
  <2>7. Ehabi!exception_cleanup_func(t) => EhabiProofs!exception_cleanup_func(t)
    BY DEF Ehabi!exception_cleanup_func, EhabiProofs!exception_cleanup_func
  <2> QED  BY <2>1, <2>2, <2>3, <2>4, <2>5, <2>6, <2>7 DEF Ehabi!Unwinder, EhabiProofs!Unwinder
<1> QED  BY <1>1, <1>2, <1>3 DEF Ehabi!Next, EhabiProofs!Next

\* The properties of Shared.
LEMMA SharedProperties ==
  /\ SharedProofs!NoUseAfterFree => Shared!NoUseAfterFree
  /\ SharedProofs!OwnersCounted => Shared!OwnersCounted
  /\ SharedProofs!UncaughtCounted => Shared!UncaughtCounted
  /\ SharedProofs!CurrentIsInnermost => Shared!CurrentIsInnermost
<1> USE DEF Shared!Objects, SharedProofs!Objects, Shared!NULL, SharedProofs!NULL, Shared!isOurs,
        SharedProofs!isOurs, Shared!Frame, SharedProofs!Frame, Shared!Top, SharedProofs!Top,
        Shared!TopIs, SharedProofs!TopIs, Shared!Handlers, SharedProofs!Handlers,
        Shared!InFlight, SharedProofs!InFlight, Shared!FliesOn, SharedProofs!FliesOn,
        Shared!Linked, SharedProofs!Linked, Shared!CaughtStack, SharedProofs!CaughtStack,
        Shared!InUse, SharedProofs!InUse, Shared!Last, SharedProofs!Last,
        Shared!Cardinality, SharedProofs!Cardinality
<1>1. SharedProofs!NoUseAfterFree => Shared!NoUseAfterFree
  BY DEF Shared!NoUseAfterFree, SharedProofs!NoUseAfterFree
<1>2. SharedProofs!OwnersCounted => Shared!OwnersCounted
  BY DEF Shared!OwnersCounted, SharedProofs!OwnersCounted
<1>3. SharedProofs!UncaughtCounted => Shared!UncaughtCounted
  BY DEF Shared!UncaughtCounted, SharedProofs!UncaughtCounted
<1>4. SharedProofs!CurrentIsInnermost => Shared!CurrentIsInnermost
  BY DEF Shared!CurrentIsInnermost, SharedProofs!CurrentIsInnermost
<1> QED  BY <1>1, <1>2, <1>3, <1>4

\* The properties of Nested.
LEMMA NestedProperties ==
  /\ NestedProofs!NoUseAfterFree => Nested!NoUseAfterFree
  /\ NestedProofs!OwnersCounted => Nested!OwnersCounted
  /\ NestedProofs!UncaughtCounted => Nested!UncaughtCounted
  /\ NestedProofs!CurrentIsInnermost => Nested!CurrentIsInnermost
<1> USE DEF Nested!Objects, NestedProofs!Objects, Nested!NULL, NestedProofs!NULL, Nested!isOurs,
        NestedProofs!isOurs, Nested!Frame, NestedProofs!Frame, Nested!Top, NestedProofs!Top,
        Nested!TopIs, NestedProofs!TopIs, Nested!Handlers, NestedProofs!Handlers,
        Nested!InFlight, NestedProofs!InFlight, Nested!FliesOn, NestedProofs!FliesOn,
        Nested!Linked, NestedProofs!Linked, Nested!CaughtStack, NestedProofs!CaughtStack,
        Nested!InUse, NestedProofs!InUse, Nested!Last, NestedProofs!Last,
        Nested!Cardinality, NestedProofs!Cardinality
<1>1. NestedProofs!NoUseAfterFree => Nested!NoUseAfterFree
  BY DEF Nested!NoUseAfterFree, NestedProofs!NoUseAfterFree
<1>2. NestedProofs!OwnersCounted => Nested!OwnersCounted
  BY DEF Nested!OwnersCounted, NestedProofs!OwnersCounted
<1>3. NestedProofs!UncaughtCounted => Nested!UncaughtCounted
  BY DEF Nested!UncaughtCounted, NestedProofs!UncaughtCounted
<1>4. NestedProofs!CurrentIsInnermost => Nested!CurrentIsInnermost
  BY DEF Nested!CurrentIsInnermost, NestedProofs!CurrentIsInnermost
<1> QED  BY <1>1, <1>2, <1>3, <1>4

\* The properties of Ehabi.
LEMMA EhabiProperties ==
  /\ EhabiProofs!NoUseAfterFree => Ehabi!NoUseAfterFree
  /\ EhabiProofs!OwnersCounted => Ehabi!OwnersCounted
  /\ EhabiProofs!UncaughtCounted => Ehabi!UncaughtCounted
  /\ EhabiProofs!CurrentIsInnermost => Ehabi!CurrentIsInnermost
  /\ EhabiProofs!ResumesInterrupted => Ehabi!ResumesInterrupted
<1> USE DEF Ehabi!Objects, EhabiProofs!Objects, Ehabi!NULL, EhabiProofs!NULL, Ehabi!isOurs,
        EhabiProofs!isOurs, Ehabi!Frame, EhabiProofs!Frame, Ehabi!Top, EhabiProofs!Top,
        Ehabi!TopIs, EhabiProofs!TopIs, Ehabi!Handlers, EhabiProofs!Handlers,
        Ehabi!InFlight, EhabiProofs!InFlight, Ehabi!FliesOn, EhabiProofs!FliesOn,
        Ehabi!Linked, EhabiProofs!Linked, Ehabi!CaughtStack, EhabiProofs!CaughtStack,
        Ehabi!InUse, EhabiProofs!InUse, Ehabi!Last, EhabiProofs!Last, Ehabi!Cardinality,
        EhabiProofs!Cardinality
<1>1. EhabiProofs!NoUseAfterFree => Ehabi!NoUseAfterFree
  BY DEF Ehabi!NoUseAfterFree, EhabiProofs!NoUseAfterFree
<1>2. EhabiProofs!OwnersCounted => Ehabi!OwnersCounted
  BY DEF Ehabi!OwnersCounted, EhabiProofs!OwnersCounted
<1>3. EhabiProofs!UncaughtCounted => Ehabi!UncaughtCounted
  BY DEF Ehabi!UncaughtCounted, EhabiProofs!UncaughtCounted
<1>4. EhabiProofs!CurrentIsInnermost => Ehabi!CurrentIsInnermost
  BY DEF Ehabi!CurrentIsInnermost, EhabiProofs!CurrentIsInnermost
<1>5. EhabiProofs!ResumesInterrupted => Ehabi!ResumesInterrupted
  BY DEF Ehabi!ResumesInterrupted, EhabiProofs!ResumesInterrupted
<1> QED  BY <1>1, <1>2, <1>3, <1>4, <1>5

-----------------------------------------------------------------------------
\* The invariant of the suite.
SuiteInv ==
  /\ which = "threads" => SharedProofs!CxaInv
  /\ which = "nested" => NestedProofs!CxaInv
  /\ which = "ehabi" => EhabiProofs!CxaInv

\* Every behaviour of the suite keeps it.
LEMMA SuiteInvariant ==
  Spec => []SuiteInv
<1>0. /\ SharedProofs!ObjectsAssumption /\ NestedProofs!ObjectsAssumption
      /\ EhabiProofs!ObjectsAssumption
  BY ObjectsInSuite
<1>1. Init => SuiteInv
  <2>1. ASSUME Init, which = "threads" PROVE SharedProofs!CxaInv
    <3>1. SharedProofs!Init
      BY <2>1, SharedSame DEF Init
    <3> QED  BY <1>0, <3>1, SharedProofs!InitHolds
  <2>2. ASSUME Init, which = "nested" PROVE NestedProofs!CxaInv
    <3>1. NestedProofs!Init
      BY <2>2, NestedSame DEF Init
    <3> QED  BY <1>0, <3>1, NestedProofs!InitHolds
  <2>3. ASSUME Init, which = "ehabi" PROVE EhabiProofs!CxaInv
    <3>1. EhabiProofs!Init
      BY <2>3, EhabiSame DEF Init
    <3> QED  BY <1>0, <3>1, EhabiProofs!InitHolds
  <2> QED  BY <2>1, <2>2, <2>3 DEF SuiteInv
<1>2. SuiteInv /\ [Next]_allVars => SuiteInv'
  <2> SUFFICES ASSUME SuiteInv, [Next]_allVars PROVE SuiteInv'
    OBVIOUS
  <2>0. which' = which
    BY DEF Next, allVars
  <2>1. ASSUME which = "threads" PROVE SharedProofs!CxaInv'
    <3>1. SharedProofs!Next \/ UNCHANGED SharedProofs!vars
      BY <2>1, SharedSame DEF Next, allVars, cxaVars, SharedProofs!vars
    <3> QED  BY <1>0, <2>1, <3>1, SharedProofs!StepKeeps DEF SuiteInv
  <2>2. ASSUME which = "nested" PROVE NestedProofs!CxaInv'
    <3>1. NestedProofs!Next \/ UNCHANGED NestedProofs!vars
      BY <2>2, NestedSame DEF Next, allVars, cxaVars, NestedProofs!vars
    <3> QED  BY <1>0, <2>2, <3>1, NestedProofs!StepKeeps DEF SuiteInv
  <2>3. ASSUME which = "ehabi" PROVE EhabiProofs!CxaInv'
    <3>1. EhabiProofs!Next \/ UNCHANGED EhabiProofs!vars
      BY <2>3, EhabiSame DEF Next, allVars, cxaVars, EhabiProofs!vars
    <3> QED  BY <1>0, <2>3, <3>1, EhabiProofs!StepKeeps DEF SuiteInv
  <2> QED  BY <2>0, <2>1, <2>2, <2>3 DEF SuiteInv
<1> QED  BY <1>1, <1>2, PTL DEF Spec

\* What it says of the properties.
LEMMA SuiteShows ==
  ASSUME SuiteInv
  PROVE  LivesWhileOwned /\ CountsRight /\ RightException
<1>0. /\ SharedProofs!ObjectsAssumption /\ NestedProofs!ObjectsAssumption
      /\ EhabiProofs!ObjectsAssumption
  BY ObjectsInSuite
<1>1. CASE which = "threads"
  <2>1. SharedProofs!CxaInv
    BY <1>1 DEF SuiteInv
  <2>2. /\ SharedProofs!NoUseAfterFree /\ SharedProofs!OwnersCounted
        /\ SharedProofs!UncaughtCounted /\ SharedProofs!CurrentIsInnermost
    BY <1>0, <2>1, SharedProofs!InvShows
  <2>3. Shared!NoUseAfterFree /\ Shared!OwnersCounted /\ Shared!UncaughtCounted /\ Shared!CurrentIsInnermost
    BY <2>2, SharedProperties
  <2> QED  BY <1>1, <2>3 DEF LivesWhileOwned, CountsRight, RightException
<1>2. CASE which = "nested"
  <2>1. NestedProofs!CxaInv
    BY <1>2 DEF SuiteInv
  <2>2. /\ NestedProofs!NoUseAfterFree /\ NestedProofs!OwnersCounted
        /\ NestedProofs!UncaughtCounted /\ NestedProofs!CurrentIsInnermost
    BY <1>0, <2>1, NestedProofs!InvShows
  <2>3. Nested!NoUseAfterFree /\ Nested!OwnersCounted /\ Nested!UncaughtCounted /\ Nested!CurrentIsInnermost
    BY <2>2, NestedProperties
  <2> QED  BY <1>2, <2>3 DEF LivesWhileOwned, CountsRight, RightException
<1>3. CASE which = "ehabi"
  <2>1. EhabiProofs!CxaInv
    BY <1>3 DEF SuiteInv
  <2>2. /\ EhabiProofs!NoUseAfterFree /\ EhabiProofs!OwnersCounted /\ EhabiProofs!UncaughtCounted
        /\ EhabiProofs!CurrentIsInnermost /\ EhabiProofs!ResumesInterrupted
    BY <1>0, <2>1, EhabiProofs!InvShows
  <2>3. /\ Ehabi!NoUseAfterFree /\ Ehabi!OwnersCounted /\ Ehabi!UncaughtCounted
        /\ Ehabi!CurrentIsInnermost /\ Ehabi!ResumesInterrupted
    BY <2>2, EhabiProperties
  <2> QED  BY <1>3, <2>3 DEF LivesWhileOwned, CountsRight, RightException
<1>4. CASE which \notin {"threads", "nested", "ehabi"}
  BY <1>4 DEF LivesWhileOwned, CountsRight, RightException
<1> QED  BY <1>1, <1>2, <1>3, <1>4

(***************************************************************************)
(* No exception object is used after it was destroyed, and none leaks: its *)
(* reference count is the number of its owners (__cxa_end_catch, the       *)
(* exception_ptr entries, dependent exceptions, exception_cleanup_func).   *)
(***************************************************************************)
THEOREM ExceptionLivesWhileOwned == Spec => []LivesWhileOwned
<1>1. SuiteInv => LivesWhileOwned
  BY SuiteShows
<1> QED  BY <1>1, SuiteInvariant, PTL

(***************************************************************************)
(* std::uncaught_exceptions() counts the native exceptions of the thread   *)
(* that are in flight, and those another runtime caught.                   *)
(***************************************************************************)
THEOREM UncaughtExceptionsCounted == Spec => []CountsRight
<1>1. SuiteInv => CountsRight
  BY SuiteShows
<1> QED  BY <1>1, SuiteInvariant, PTL

(***************************************************************************)
(* std::current_exception() and throw; see the exception of the innermost  *)
(* handler, each exception knows how many of its handlers run, and on ARM  *)
(* EHABI __cxa_end_cleanup resumes the exception that its cleanup          *)
(* interrupted.                                                            *)
(***************************************************************************)
THEOREM CurrentExceptionIsRight == Spec => []RightException
<1>1. SuiteInv => RightException
  BY SuiteShows
<1> QED  BY <1>1, SuiteInvariant, PTL

=============================================================================
