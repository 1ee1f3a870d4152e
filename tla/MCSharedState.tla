--------------------------- MODULE MCSharedState ----------------------------
(***************************************************************************)
(* State that threads set once and share: one-time initialization in its   *)
(* three implementations, futures, and the control block of shared_ptr and *)
(* weak_ptr, checked in one run.  "which" says what the threads of a       *)
(* behaviour use.  o... is call_once, m... the guard with a mutex, x...    *)
(* the guard with a futex, f... the state of a future made by a promise, a *)
(* deferred or an asynchronous function, w... the control block.           *)
(***************************************************************************)
EXTENDS Integers, FiniteSets

CONSTANTS
  Thread, Flag, Owner, Runner, NoThread,
  HasThreadId, Recursion,                \* of the guards
  OnceCalls, MutexCalls, FutexCalls, WaitCalls, Copies     \* bounds

VARIABLES
  which,
  oFlag, oPc, oOn, oCalls,
  mComplete, mInit, mOwner, mPc, mOn, mAgain, mAborted, mCalls,
  xComplete, xInit, xOwner, xPc, xLast, xAgain, xAborted, xCalls,
  fHas, fReady, fDeferred, fAttached, fOwners, fFreed, fPc, fRefs, fAtExit, fGot, fRuns, fWaits,
  wOwners, wWeakOwners, wDestroyed, wFreed, wStrong, wWeak, wPc, wSeen, wCopies

oVars == <<oFlag, oPc, oOn, oCalls>>
mVars == <<mComplete, mInit, mOwner, mPc, mOn, mAgain, mAborted, mCalls>>
xVars == <<xComplete, xInit, xOwner, xPc, xLast, xAgain, xAborted, xCalls>>
fVars == <<fHas, fReady, fDeferred, fAttached, fOwners, fFreed, fPc, fRefs, fAtExit, fGot, fRuns, fWaits>>
wVars == <<wOwners, wWeakOwners, wDestroyed, wFreed, wStrong, wWeak, wPc, wSeen, wCopies>>
allVars == <<which, oVars, mVars, xVars, fVars, wVars>>

Once == INSTANCE CallOnce WITH Calls <- OnceCalls, flag <- oFlag, pc <- oPc, on <- oOn, calls <- oCalls

Mutex == INSTANCE GuardMutex
  WITH Calls <- MutexCalls,
       complete <- mComplete, init <- mInit, owner <- mOwner, pc <- mPc, on <- mOn,
       again <- mAgain, aborted <- mAborted, calls <- mCalls

Futex == INSTANCE GuardFutex
  WITH Calls <- FutexCalls,
       complete <- xComplete, init <- xInit, owner <- xOwner, pc <- xPc, last <- xLast,
       again <- xAgain, aborted <- xAborted, calls <- xCalls

Promise == INSTANCE Future
  WITH Waiter <- Thread, Kind <- "promise", Waits <- WaitCalls,
       has <- fHas, ready <- fReady, deferred <- fDeferred, attached <- fAttached, owners <- fOwners,
       freed <- fFreed, pc <- fPc, refs <- fRefs, atExit <- fAtExit, got <- fGot, runs <- fRuns, waits <- fWaits

Deferred == INSTANCE Future
  WITH Waiter <- Thread, Kind <- "deferred", Waits <- WaitCalls,
       has <- fHas, ready <- fReady, deferred <- fDeferred, attached <- fAttached, owners <- fOwners,
       freed <- fFreed, pc <- fPc, refs <- fRefs, atExit <- fAtExit, got <- fGot, runs <- fRuns, waits <- fWaits

Async == INSTANCE Future
  WITH Waiter <- Thread, Kind <- "async", Waits <- WaitCalls,
       has <- fHas, ready <- fReady, deferred <- fDeferred, attached <- fAttached, owners <- fOwners,
       freed <- fFreed, pc <- fPc, refs <- fRefs, atExit <- fAtExit, got <- fGot, runs <- fRuns, waits <- fWaits

Weak == INSTANCE SharedWeakCount
  WITH owners <- wOwners, weakOwners <- wWeakOwners, destroyed <- wDestroyed, freed <- wFreed,
       strong <- wStrong, weak <- wWeak, pc <- wPc, seen <- wSeen, copies <- wCopies

GuardsAssumption == Once!FlagAssumption /\ Mutex!FlagAssumption /\ Futex!FlagAssumption

PartiesAssumption ==
  IsFiniteSet(Thread) /\ Owner \notin Thread /\ Runner \notin Thread /\ Owner # Runner

ASSUME SuiteAssumption == GuardsAssumption /\ PartiesAssumption

Init ==
  /\ which \in {"once", "mutex", "futex", "promise", "deferred", "async", "weak"}
  /\ Once!Init /\ Mutex!Init /\ Futex!Init /\ Weak!Init
  /\ CASE which = "deferred" -> Deferred!Init [] which = "async" -> Async!Init [] OTHER -> Promise!Init
  /\ which # "weak" => wStrong = {CHOOSE t \in Thread : TRUE}

(* What a thread does by itself once it is inside a call; an owner also    *)
(* comes to its end.                                                       *)
Step(t) ==
  \/ which = "once" /\ Once!ThreadStep(t) /\ UNCHANGED <<which, mVars, xVars, fVars, wVars>>
  \/ which = "mutex" /\ ~mAborted /\ Mutex!ThreadStep(t) /\ UNCHANGED <<which, oVars, xVars, fVars, wVars>>
  \/ which = "futex" /\ ~xAborted /\ Futex!ThreadStep(t) /\ UNCHANGED <<which, oVars, mVars, fVars, wVars>>
  \/ which = "weak" /\ Weak!ThreadStep(t) /\ UNCHANGED <<which, oVars, mVars, xVars, fVars>>
  \/ /\ UNCHANGED <<which, oVars, mVars, xVars, wVars>>
     /\ \/ which = "promise" /\ Promise!WaiterStep(t)
        \/ which = "deferred" /\ Deferred!WaiterStep(t)
        \/ which = "async" /\ Async!WaiterStep(t)

OwnerStep ==
  /\ UNCHANGED <<which, oVars, mVars, xVars, wVars>>
  /\ \/ which = "promise" /\ (Promise!OwnerStep \/ Promise!Zero(Owner))
     \/ which = "deferred" /\ (Deferred!OwnerStep \/ Deferred!Zero(Owner))
     \/ which = "async" /\ (Async!OwnerStep \/ Async!Zero(Owner))

RunnerStep == which = "async" /\ Async!Execute(Runner) /\ UNCHANGED <<which, oVars, mVars, xVars, wVars>>

Next ==
  \/ which = "once" /\ Once!Next /\ UNCHANGED <<which, mVars, xVars, fVars, wVars>>
  \/ which = "mutex" /\ Mutex!Next /\ UNCHANGED <<which, oVars, xVars, fVars, wVars>>
  \/ which = "futex" /\ Futex!Next /\ UNCHANGED <<which, oVars, mVars, fVars, wVars>>
  \/ which = "promise" /\ Promise!Next /\ UNCHANGED <<which, oVars, mVars, xVars, wVars>>
  \/ which = "deferred" /\ Deferred!Next /\ UNCHANGED <<which, oVars, mVars, xVars, wVars>>
  \/ which = "async" /\ Async!Next /\ UNCHANGED <<which, oVars, mVars, xVars, wVars>>
  \/ which = "weak" /\ Weak!Next /\ UNCHANGED <<which, oVars, mVars, xVars, fVars>>

\* Threads are scheduled, initializers and functions end, and a promise does
\* not live for ever.
Spec ==
  /\ Init /\ [][Next]_allVars
  /\ WF_allVars(OwnerStep) /\ WF_allVars(RunnerStep)
  /\ \A t \in Thread : WF_allVars(Step(t))

-----------------------------------------------------------------------------
(* A once_flag is 1, and the init byte of a guard is pending, exactly      *)
(* while one thread initializes, and the thread id beside it is that       *)
(* thread's.  So an initializer that reaches its own declaration ends the  *)
(* process instead of sleeping on itself, the process ends for no other    *)
(* reason, and whoever sleeps on a guard has left its mark in the init     *)
(* byte or the wake-up that will reach it is on the way.                   *)
GuardsRight ==
  /\ Once!TypeOK /\ Mutex!TypeOK /\ Futex!TypeOK
  /\ Mutex!RecursionDetected /\ Futex!RecursionDetected
  /\ Mutex!SleepersMarked /\ Futex!SleepersMarked
  /\ \A t \in Thread : Futex!InLoop(t)

(* __shared_owners_ of a future's state counts the futures, the promise    *)
(* and the at-exit list, and nobody touches a deleted state: no thread is  *)
(* in a wait on it, is about to make it ready, or still runs the function  *)
(* inside it.                                                              *)
FutureNotUsedAfterFree == Promise!OwnersCounted /\ Promise!NoUseAfterFree

(* Every wait that returns, returns the one result the state ever has, and *)
(* a deferred or asynchronous function runs once; a result set for thread  *)
(* exit is seen when the thread has exited, not before.                    *)
OneResult == Promise!OneResult /\ Promise!ReadyInTime

(* With a shared_ptr, one from lock() too, the object is alive; with a     *)
(* weak_ptr or inside an operation the counts can be read; when all        *)
(* pointers are gone the object was destroyed once and the block freed     *)
(* once.                                                                   *)
ControlBlockRight == Weak!NoUseAfterFree /\ Weak!NoLeak

Inside(t) ==
  \/ oPc[t] # "idle"
  \/ mPc[t] # "idle" /\ ~mAborted
  \/ xPc[t] # "idle" /\ ~xAborted
  \/ Promise!InCall(t)
  \/ wPc[t] # "idle"

(* Every call returns unless the process is ended: sleepers are woken by a *)
(* success and by a failure of the initializer they wait for, a wait for a *)
(* future ends with a result or because the promise breaks, and lock() of  *)
(* weak_ptr repeats only when another thread has changed the count.        *)
CallsReturn == \A t \in Thread : Inside(t) ~> ~Inside(t)

(* call_once, the guard with mutex and condition variable, and the guard   *)
(* with compare_exchange and futex are one-time initializations.           *)
InitializedOnce == Once!Implements /\ Mutex!Implements /\ Futex!Implements
=============================================================================
