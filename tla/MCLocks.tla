------------------------------ MODULE MCLocks -------------------------------
(***************************************************************************)
(* The waiting of atomics and the mutexes built on condition variables,    *)
(* checked in one run: "which" says what the threads of a behaviour use.   *)
(* a... is an atomic somebody waits on, in the three variants of its       *)
(* sleep; t... a timed mutex, recursive or not; s... a shared mutex.       *)
(***************************************************************************)
EXTENDS Naturals, FiniteSets

CONSTANTS
  Waiter, Notifier, Value,            \* of the atomic
  VersionNotifier,                    \* those of the variant with versions
  Thread, NoThread,                   \* of the mutexes
  MaxCount,                           \* of the recursive one
  Readers,                            \* of the shared one
  NativeWaits, Waits, Notifies, LockCalls, SharedCalls     \* bounds

VARIABLES
  which,
  aValue, aAnnounced, aVersion, aLock, aPc, aVal, aVer, aLeft,
  tCount, tId, tPc, tTimed, tHolds, tCalls,
  sEntered, sReaders, sPc, sKind, sTimed, sCalls

aVars == <<aValue, aAnnounced, aVersion, aLock, aPc, aVal, aVer, aLeft>>
tVars == <<tCount, tId, tPc, tTimed, tHolds, tCalls>>
sVars == <<sEntered, sReaders, sPc, sKind, sTimed, sCalls>>
allVars == <<which, aVars, tVars, sVars>>

Native == INSTANCE AtomicWait
  WITH Variant <- "native", Timed <- FALSE, Waits <- NativeWaits,
       a <- aValue, announced <- aAnnounced, version <- aVersion,
       lock <- aLock, pc <- aPc, val <- aVal, ver <- aVer, left <- aLeft

Condvar == INSTANCE AtomicWait
  WITH Variant <- "condvar", Timed <- FALSE, a <- aValue, announced <- aAnnounced, version <- aVersion,
       lock <- aLock, pc <- aPc, val <- aVal, ver <- aVer, left <- aLeft

Version == INSTANCE AtomicWait
  WITH Variant <- "version", Timed <- TRUE, Notifier <- VersionNotifier,
       a <- aValue, announced <- aAnnounced, version <- aVersion,
       lock <- aLock, pc <- aPc, val <- aVal, ver <- aVer, left <- aLeft

Plain == INSTANCE TimedMutex
  WITH Recursive <- FALSE, MaxCount <- 1, Calls <- LockCalls,
       count <- tCount, id <- tId, pc <- tPc, timed <- tTimed, holds <- tHolds, calls <- tCalls

Reentrant == INSTANCE TimedMutex
  WITH Recursive <- TRUE, Calls <- LockCalls,
       count <- tCount, id <- tId, pc <- tPc, timed <- tTimed, holds <- tHolds, calls <- tCalls

Shared == INSTANCE SharedMutex
  WITH Calls <- SharedCalls, entered <- sEntered, readers <- sReaders, pc <- sPc, kind <- sKind,
       timed <- sTimed, calls <- sCalls

AtomicAssumption ==
  /\ IsFiniteSet(Waiter) /\ IsFiniteSet(Notifier) /\ VersionNotifier \subseteq Notifier
  /\ Native!ThreadAssumption /\ Native!BoundAssumption /\ Condvar!BoundAssumption

LocksAssumption ==
  /\ IsFiniteSet(Thread)
  /\ Reentrant!KindAssumption /\ Reentrant!CountAssumption /\ Shared!ReadersAssumption

ASSUME SuiteAssumption == AtomicAssumption /\ LocksAssumption

Init ==
  /\ which \in {"native", "condvar", "version", "plain", "recursive", "shared"}
  /\ CASE which = "condvar" -> Condvar!Init [] which = "version" -> Version!Init [] OTHER -> Native!Init
  /\ which \in {"plain", "recursive", "shared"} => aValue = CHOOSE v \in Value : TRUE
  /\ Plain!Init /\ Shared!Init

(* What a thread does by itself once it is inside a call, or holds a lock. *)
WaiterMoves(w) ==
  /\ UNCHANGED <<which, tVars, sVars>>
  /\ \/ which = "native" /\ Native!WaiterStep(w)
     \/ which = "condvar" /\ Condvar!WaiterStep(w)
     \/ which = "version" /\ Version!WaiterStep(w)

NotifierMoves(n) ==
  /\ UNCHANGED <<which, tVars, sVars>>
  /\ \/ which = "native" /\ Native!NotifierStep(n)
     \/ which = "condvar" /\ Condvar!NotifierStep(n)
     \/ which = "version" /\ n \in VersionNotifier /\ Version!NotifierStep(n)

LockerMoves(t) ==
  \/ which = "plain" /\ Plain!ThreadStep(t) /\ UNCHANGED <<which, aVars, sVars>>
  \/ which = "recursive" /\ Reentrant!ThreadStep(t) /\ UNCHANGED <<which, aVars, sVars>>
  \/ which = "shared" /\ Shared!ThreadStep(t) /\ UNCHANGED <<which, aVars, tVars>>

Next ==
  \/ which = "native" /\ Native!Next /\ UNCHANGED <<which, tVars, sVars>>
  \/ which = "condvar" /\ Condvar!Next /\ UNCHANGED <<which, tVars, sVars>>
  \/ which = "version" /\ Version!Next /\ UNCHANGED <<which, tVars, sVars>>
  \/ which = "plain" /\ Plain!Next /\ UNCHANGED <<which, aVars, sVars>>
  \/ which = "recursive" /\ Reentrant!Next /\ UNCHANGED <<which, aVars, sVars>>
  \/ which = "shared" /\ Shared!Next /\ UNCHANGED <<which, aVars, tVars>>

\* Threads are scheduled, time limits expire, and whoever holds a lock lets it go.
Spec ==
  /\ Init /\ [][Next]_allVars
  /\ \A w \in Waiter : WF_allVars(WaiterMoves(w))
  /\ \A n \in Notifier : WF_allVars(NotifierMoves(n))
  /\ \A t \in Thread : WF_allVars(LockerMoves(t))

-----------------------------------------------------------------------------
(* __waiters of the native variant counts the threads between announcement *)
(* and withdrawal; the mutex of the condition variable variant is held     *)
(* exactly by the thread between announcement and sleep.                   *)
AnnouncedCounted ==
  CASE which = "native" -> Native!TypeOK
    [] which = "condvar" -> Condvar!TypeOK
    [] which = "version" -> Version!TypeOK
    [] OTHER -> TRUE

(* Once every notification is over, no thread sleeps whose value is gone:  *)
(* no wake-up is lost between the test and the sleep, and the count of     *)
(* waiting threads is exact.  The variant with versions may lose a wake-up *)
(* and relies on its time limit; but who sleeps on a value that is gone    *)
(* has an old version, so the notifiers have been there since it looked.   *)
WakeUpNotLost ==
  /\ AnnouncedCounted
  /\ which = "native" => Native!NoneForgotten
  /\ which = "condvar" => Condvar!NoneForgotten
  /\ which = "version" => Version!VersionTells

(* One thread at a time holds the timed mutex, as often as the count says, *)
(* and the recursive one knows which; the word of the shared mutex says    *)
(* who is inside, and a writer is inside alone.                            *)
Exclusion ==
  /\ IF which = "recursive" THEN Reentrant!OneOwner ELSE Plain!OneOwner
  /\ Shared!Exclusion

(* With the timed mutex free, a sleeping thread has another one awake for  *)
(* it, or a notification on the way, although a notify_one may reach a     *)
(* thread whose time is up.  A writer asleep at gate 2 of the shared mutex *)
(* has readers before it, and who sleeps at gate 1 while he might enter    *)
(* has somebody awake before him at the gate.                              *)
NoneForgotten == Plain!NoneForgotten /\ Shared!WriterNotForgotten /\ Shared!NoneForgotten

Locking(t) == tPc[t] # "out" \/ sPc[t] \in {"gate1", "woken1", "gate2", "woken2"}

(* Every call returns: a locking call if every owner unlocks, and wait if  *)
(* the value it waits for is replaced and stays replaced.                  *)
CallsReturn ==
  /\ Native!WaitReturns
  /\ \A t \in Thread : Locking(t) ~> ~Locking(t)
=============================================================================
