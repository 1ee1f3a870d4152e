---------------------------- MODULE MCSemaphores ----------------------------
(***************************************************************************)
(* The semaphores and the latch, checked in one run: "which" says which of *)
(* them the threads of a behaviour use.  The state of the counting         *)
(* semaphore has the names of its module; b... is the binary semaphore,    *)
(* n... the native one, l... the latch.                                    *)
(***************************************************************************)
EXTENDS CountingSemaphore

CONSTANTS
  First,           \* what the binary semaphore is constructed with
  Expected,        \* of the latch
  NativeMax,       \* max() of the native semaphore, and the rest of what it takes:
  Starts, Amounts, AcquireKinds, Overlap, NativeCalls

VARIABLES
  which,
  bAvailable, bPc, bKind, bLeft, bCalls, bHolders, bOpened, bEmpty,
  nFront, nBack, nSem, nPc, nOld, nTimed, nOk, nDue, nOwed, nBalance, nCalls,
  lCounter, lPc, lSeen, lShare

bVars == <<bAvailable, bPc, bKind, bLeft, bCalls, bHolders, bOpened, bEmpty>>
nVars == <<nFront, nBack, nSem, nPc, nOld, nTimed, nOk, nDue, nOwed, nBalance, nCalls>>
lVars == <<lCounter, lPc, lSeen, lShare>>
allVars == <<which, vars, bVars, nVars, lVars>>

B == INSTANCE BinarySemaphore
       WITH Initial <- First, available <- bAvailable, pc <- bPc, kind <- bKind, left <- bLeft,
            calls <- bCalls, holders <- bHolders, opened <- bOpened, empty <- bEmpty

N == INSTANCE NativeSemaphore
       WITH MaxCount <- NativeMax, Initial <- Starts, Kinds <- AcquireKinds, Calls <- NativeCalls,
            front <- nFront, back <- nBack, sem <- nSem, pc <- nPc, old <- nOld, timed <- nTimed,
            ok <- nOk, due <- nDue, owed <- nOwed, balance <- nBalance, calls <- nCalls

L == INSTANCE Latch
       WITH counter <- lCounter, pc <- lPc, seen <- lSeen, share <- lShare

BinaryAssumption == B!InitialAssumption /\ B!RemainingAssumption
NativeAssumption == N!CountAssumption /\ N!AmountAssumption

ASSUME SuiteAssumption == BinaryAssumption /\ NativeAssumption /\ L!ExpectedAssumption

SemaphoresInit ==
  /\ which \in {"counting", "binary", "native", "latch"}
  /\ Init /\ B!Init /\ N!Init /\ L!Init
  \* What is not used starts in one state.
  /\ which # "native" => nBalance = 0
  /\ which # "latch" => lShare = CHOOSE s \in [Thread -> {0, Expected}] : \E t \in Thread : s[t] = Expected /\ \A u \in Thread \ {t} : s[u] = 0

Step(t) ==
  \/ which = "counting" /\ ThreadStep(t) /\ UNCHANGED <<which, bVars, nVars, lVars>>
  \/ which = "binary" /\ B!ThreadStep(t) /\ UNCHANGED <<which, vars, nVars, lVars>>
  \/ which = "latch" /\ L!ThreadStep(t) /\ UNCHANGED <<which, vars, bVars, nVars>>

TimesOut(t) ==
  \/ which = "counting" /\ Timeout(t) /\ UNCHANGED <<which, bVars, nVars, lVars>>
  \/ which = "binary" /\ B!Timeout(t) /\ UNCHANGED <<which, vars, nVars, lVars>>

\* A permit of the binary semaphore is given, and given back.
GiveBinary ==
  /\ which = "binary" /\ UNCHANGED <<which, vars, nVars, lVars>>
  /\ B!Open \/ \E t \in Thread : B!Release(t)

SemaphoresNext ==
  \/ \E t \in Thread : Step(t)
  \/ which = "counting" /\ Next /\ UNCHANGED <<which, bVars, nVars, lVars>>
  \/ which = "binary" /\ B!Next /\ UNCHANGED <<which, vars, nVars, lVars>>
  \/ which = "native" /\ N!Next /\ UNCHANGED <<which, vars, bVars, lVars>>
  \/ which = "latch" /\ L!Finished /\ UNCHANGED allVars

SemaphoresSpec ==
  /\ SemaphoresInit /\ [][SemaphoresNext]_allVars
  /\ WF_allVars(GiveBinary)
  /\ \A t \in Thread : WF_allVars(Step(t)) /\ SF_allVars(TimesOut(t))

-----------------------------------------------------------------------------
(* The native semaphore loses and makes no permit: both buffers, the       *)
(* system semaphore and what threads are about to post or put back add up  *)
(* to what was given, and the lower half of __frontbuffer never borrows    *)
(* from the permits.  No thread goes to sleep with permits in the front    *)
(* buffer, where no post would tell it of them, and when every thread is   *)
(* idle or asleep and one is asleep, no permit is left anywhere.           *)
NativePermits == N!TypeOK /\ N!Conserved /\ N!SleepsOnlyWhenFrontEmpty /\ N!NoneStranded

(* wait and try_wait of the latch let a thread through only after every    *)
(* arrival, and __counter does not underflow (assert __old >= __update).   *)
PassedMeansZero == L!TypeOK /\ L!PassedMeansZero

Inside(t) ==
  \/ pc[t] # "idle" /\ kind[t] # "acquire"
  \/ bPc[t] \notin {"idle", "held"}
  \/ lPc[t] \in {"wait", "asleep"}

(* Calls return: those of the counting semaphore that do not block, all    *)
(* calls of the binary semaphore (its permit is given back), and wait of   *)
(* the latch, also of a thread asleep on an intermediate value.            *)
CallsReturn == \A t \in Thread : Inside(t) ~> ~Inside(t)

(* The binary semaphore implements a semaphore with max() = 1, and its one *)
(* permit is in the flag or in the hands of exactly one thread, although   *)
(* attempts that fail write to the flag too.                               *)
BinaryImplements == [](B!TypeOK /\ B!OnePermit) /\ B!Implements
=============================================================================
