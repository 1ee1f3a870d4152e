----------------------------- MODULE LockProofs -----------------------------
(***************************************************************************)
(* The timed mutexes, the shared mutexes and the sleep of atomic wait, for *)
(* any number of threads: who is inside is what the words say, a writer is *)
(* inside alone, and no wake-up is lost.                                   *)
(***************************************************************************)
EXTENDS MCLocks, FiniteSetTheorems, TLAPS

CONSTANTS
  IsRecursive,          \* which of the timed mutexes
  Variant, Timed        \* which variant of atomic wait

Most == IF IsRecursive THEN MaxCount ELSE 1

Mutex == INSTANCE TimedMutex
           WITH Recursive <- IsRecursive, MaxCount <- Most, Calls <- LockCalls,
                count <- tCount, id <- tId, pc <- tPc, timed <- tTimed, holds <- tHolds, calls <- tCalls

Wait == INSTANCE AtomicWait
          WITH a <- aValue, announced <- aAnnounced, version <- aVersion, lock <- aLock,
               pc <- aPc, val <- aVal, ver <- aVer, left <- aLeft

LEMMA LockCardinality ==
  \A S : /\ Mutex!Cardinality(S) = Cardinality(S) /\ Shared!Cardinality(S) = Cardinality(S)
         /\ Wait!Cardinality(S) = Cardinality(S)
BY DEF Mutex!Cardinality, Shared!Cardinality, Wait!Cardinality, Cardinality

(* How many threads are of a kind after one of them has moved. *)
LEMMA MovedIn ==
  ASSUME NEW S, NEW T, NEW t, IsFiniteSet(S), t \notin S, T = S \cup {t}
  PROVE  Cardinality(T) = Cardinality(S) + 1 /\ IsFiniteSet(T)
BY FS_AddElement

LEMMA MovedOut ==
  ASSUME NEW S, NEW T, NEW t, IsFiniteSet(S), t \in S, T = S \ {t}
  PROVE  Cardinality(T) = Cardinality(S) - 1 /\ IsFiniteSet(T)
BY FS_RemoveElement

-----------------------------------------------------------------------------
(* The timed mutexes.  The invariant: the lock is free and nobody holds    *)
(* it, or one thread holds it, as often as the count says, and is the one  *)
(* the recursive mutex knows.                                              *)
MutexLabels == {"out", "asleep", "woken", "notify"}

MutexTypes ==
  /\ tCount \in 0..Most
  /\ tPc \in [Thread -> MutexLabels]
  /\ tHolds \in [Thread -> Nat]

Holder(t) ==
  /\ tHolds[t] = tCount
  /\ \A u \in Thread \ {t} : tHolds[u] = 0
  /\ IsRecursive => tId = t

MutexOwned ==
  /\ tCount = 0 => (\A t \in Thread : tHolds[t] = 0) /\ (IsRecursive => tId = NoThread)
  /\ tCount > 0 => \E t \in Thread : Holder(t)

MutexInv == MutexTypes /\ MutexOwned /\ Mutex!NoneForgotten

MutexAssumption == Mutex!CountAssumption /\ Mutex!KindAssumption

LEMMA MutexInit == MutexAssumption /\ Mutex!Init => MutexInv
BY DEF MutexAssumption, Mutex!CountAssumption, Mutex!Init, MutexInv, MutexTypes, MutexOwned, MutexLabels,
       Mutex!NoneForgotten, Mutex!Asleep

(* A thread may take a free lock, and the owner a recursive one again. *)
LEMMA MutexTake ==
  ASSUME MutexAssumption, MutexInv, NEW t \in Thread, Mutex!Take(t),
         tCount = 0 \/ (Mutex!Mine(t) /\ tCount < Most)
  PROVE  /\ MutexOwned' /\ tCount' \in 1..Most
         /\ tHolds' \in [Thread -> Nat]
<1> USE DEF MutexAssumption, Mutex!CountAssumption, Mutex!KindAssumption, MutexInv, MutexTypes
<1>1. tCount' = tCount + 1 /\ tCount' \in 1..Most
  BY DEF Mutex!Take
<1>2. tHolds' \in [Thread -> Nat] /\ tHolds'[t] = tHolds[t] + 1 /\ \A u \in Thread \ {t} : tHolds'[u] = tHolds[u]
  BY DEF Mutex!Take
<1>3. tHolds[t] = tCount /\ \A u \in Thread \ {t} : tHolds[u] = 0
  BY DEF MutexOwned, Holder, Mutex!Mine
<1>4. IsRecursive => tId' = t
  BY DEF Mutex!Take
<1>5. Holder(t)'
  BY <1>1, <1>2, <1>3, <1>4 DEF Holder
<1> QED BY <1>1, <1>2, <1>5 DEF MutexOwned

LEMMA MutexLocks ==
  ASSUME MutexAssumption, MutexInv, NEW t \in Thread,
         Mutex!Lock(t) \/ Mutex!TryLock(t) \/ Mutex!Retry(t) \/ Mutex!TimeOut(t)
  PROVE  MutexInv'
<1> USE DEF MutexAssumption, Mutex!CountAssumption, Mutex!KindAssumption, MutexInv, MutexTypes, MutexLabels,
            Mutex!Go, Mutex!SetTimed, Mutex!Free, Mutex!TakesLate
<1>1. tPc' \in [Thread -> MutexLabels]
  BY DEF Mutex!Lock, Mutex!TryLock, Mutex!Retry, Mutex!TimeOut
<1>2. CASE Mutex!Take(t)
  <2>1. tCount = 0 \/ (Mutex!Mine(t) /\ tCount < Most)
    BY <1>2 DEF Mutex!Lock, Mutex!TryLock, Mutex!Retry, Mutex!TimeOut, Mutex!Take
  <2>2. MutexOwned' /\ tCount' \in 1..Most /\ tHolds' \in [Thread -> Nat]
    BY <1>2, <2>1, MutexTake
  <2> QED BY <1>1, <2>2 DEF Mutex!NoneForgotten
<1>3. CASE ~Mutex!Take(t)
  <2>1. UNCHANGED <<tCount, tId, tHolds>>
    BY <1>3 DEF Mutex!Lock, Mutex!TryLock, Mutex!Retry, Mutex!TimeOut
  <2>2. tCount # 0 \/ tPc' = tPc
    BY <1>3 DEF Mutex!Lock, Mutex!TryLock, Mutex!Retry, Mutex!TimeOut
  <2>3. Mutex!NoneForgotten'
    BY <2>1, <2>2 DEF Mutex!NoneForgotten, Mutex!Asleep
  <2> QED BY <1>1, <2>1, <2>3 DEF MutexOwned, Holder
<1> QED BY <1>2, <1>3

(* notify_one wakes a thread if there is one to wake. *)
LEMMA MutexNotifies ==
  ASSUME MutexInv, NEW others \in [Thread -> MutexLabels], Mutex!NotifyOne(others),
         \A t \in Thread : others[t] = "asleep" => tPc[t] = "asleep"
  PROVE  tPc' \in [Thread -> MutexLabels] /\ Mutex!NoneForgotten'
<1> USE DEF MutexInv, MutexTypes, MutexLabels, Mutex!NotifyOne, Mutex!Asleep
<1>1. CASE Mutex!Asleep = {}
  <2>1. tPc' = others /\ \A t \in Thread : others[t] # "asleep"
    BY <1>1
  <2> QED BY <2>1 DEF Mutex!NoneForgotten
<1>2. CASE Mutex!Asleep # {}
  <2>1. PICK u \in Thread : tPc' = [others EXCEPT ![u] = "woken"]
    BY <1>2
  <2> QED BY <2>1 DEF Mutex!NoneForgotten
<1> QED BY <1>1, <1>2

LEMMA MutexUnlocks ==
  ASSUME MutexAssumption, MutexInv, NEW t \in Thread,
         Mutex!Unlock(t) \/ Mutex!Notify(t) \/ Mutex!SpuriousWake(t)
  PROVE  MutexInv'
<1> USE DEF MutexAssumption, Mutex!CountAssumption, Mutex!KindAssumption, Mutex!Go
<1>1. CASE Mutex!Unlock(t)
  <2>1. /\ tHolds[t] > 0 /\ tPc[t] = "out" /\ tCount' = tCount - 1
        /\ tHolds' = [tHolds EXCEPT ![t] = tHolds[t] - 1]
        /\ IsRecursive => tId' = IF tCount = 1 THEN NoThread ELSE tId
        /\ IsRecursive => tPc' = IF tCount = 1 THEN [tPc EXCEPT ![t] = "notify"] ELSE tPc
        /\ ~IsRecursive => Mutex!NotifyOne(tPc)
    BY <1>1 DEF Mutex!Unlock, Mutex!Forgets
  <2>2. tCount > 0 /\ Holder(t)
    BY <2>1 DEF MutexInv, MutexTypes, MutexOwned, Holder
  <2>3. tCount' \in 0..Most /\ tHolds' \in [Thread -> Nat]
    BY <2>1, <2>2 DEF MutexInv, MutexTypes, Holder
  <2>4. MutexOwned'
    <3>1. tHolds'[t] = tCount' /\ \A u \in Thread \ {t} : tHolds'[u] = 0
      BY <2>1, <2>2 DEF MutexInv, MutexTypes, Holder
    <3>2. CASE tCount = 1
      BY <2>1, <3>1, <3>2 DEF MutexOwned
    <3>3. CASE tCount # 1
      <4>1. Holder(t)'
        BY <2>1, <2>2, <3>1, <3>3 DEF Holder
      <4>2. tCount' # 0
        BY <2>1, <2>2, <3>3 DEF MutexInv, MutexTypes
      <4> QED BY <4>1, <4>2 DEF MutexOwned
    <3> QED BY <3>2, <3>3
  <2>5. tPc' \in [Thread -> MutexLabels] /\ Mutex!NoneForgotten'
    <3>1. CASE ~IsRecursive
      BY <2>1, <3>1, MutexNotifies DEF MutexInv, MutexTypes
    <3>2. CASE IsRecursive /\ tCount = 1
      BY <2>1, <3>2 DEF MutexInv, MutexTypes, MutexLabels, Mutex!NoneForgotten, Mutex!Asleep
    <3>3. CASE IsRecursive /\ tCount # 1
      BY <2>1, <2>2, <2>3, <3>3 DEF MutexInv, MutexTypes, Mutex!NoneForgotten
    <3> QED BY <3>1, <3>2, <3>3
  <2> QED BY <2>3, <2>4, <2>5 DEF MutexInv, MutexTypes
<1>2. CASE Mutex!Notify(t)
  <2>1. /\ UNCHANGED <<tCount, tId, tHolds>>
        /\ Mutex!NotifyOne([tPc EXCEPT ![t] = "out"])
    BY <1>2 DEF Mutex!Notify
  <2>2. /\ [tPc EXCEPT ![t] = "out"] \in [Thread -> MutexLabels]
        /\ \A u \in Thread : [tPc EXCEPT ![t] = "out"][u] = "asleep" => tPc[u] = "asleep"
    BY DEF MutexInv, MutexTypes, MutexLabels
  <2>3. tPc' \in [Thread -> MutexLabels] /\ Mutex!NoneForgotten'
    BY <2>1, <2>2, MutexNotifies
  <2> QED BY <2>1, <2>3 DEF MutexInv, MutexTypes, MutexOwned, Holder
<1>3. CASE Mutex!SpuriousWake(t)
  <2>1. UNCHANGED <<tCount, tId, tHolds>> /\ tPc' = [tPc EXCEPT ![t] = "woken"]
    BY <1>3 DEF Mutex!SpuriousWake
  <2> QED BY <2>1 DEF MutexInv, MutexTypes, MutexLabels, MutexOwned, Holder, Mutex!NoneForgotten
<1> QED BY <1>1, <1>2, <1>3

LEMMA MutexStep ==
  ASSUME MutexAssumption, MutexInv, [Mutex!Next]_(Mutex!vars)
  PROVE  MutexInv'
<1>1. CASE UNCHANGED Mutex!vars
  BY <1>1 DEF Mutex!vars, MutexInv, MutexTypes, MutexOwned, Holder, Mutex!NoneForgotten, Mutex!Asleep
<1>2. CASE Mutex!Next
  BY <1>2, MutexLocks, MutexUnlocks DEF Mutex!Next, Mutex!ThreadStep
<1> QED BY <1>1, <1>2

LEMMA MutexMeans == MutexAssumption /\ MutexInv => Mutex!OneOwner /\ Mutex!NoneForgotten
<1> SUFFICES ASSUME MutexAssumption, MutexInv PROVE Mutex!OneOwner
  BY DEF MutexInv
<1> USE DEF MutexAssumption, Mutex!CountAssumption, Mutex!KindAssumption, MutexInv, MutexTypes
<1> DEFINE Holders == {t \in Thread : tHolds[t] > 0}
<1>1. CASE tCount = 0
  <2>1. Holders = {} /\ Cardinality(Holders) = 0
    BY <1>1, FS_EmptySet DEF MutexOwned
  <2> QED BY <1>1, <2>1, LockCardinality DEF Mutex!OneOwner, MutexOwned
<1>2. CASE tCount > 0
  <2>1. PICK t \in Thread : Holder(t)
    BY <1>2 DEF MutexOwned
  <2>2. Holders = {t}
    BY <1>2, <2>1 DEF Holder
  <2>3. Cardinality(Holders) = 1
    BY <2>2, FS_Singleton
  <2> QED BY <1>2, <2>1, <2>2, <2>3, LockCardinality DEF Mutex!OneOwner, Holder
<1> QED BY <1>1, <1>2

-----------------------------------------------------------------------------
(* The shared mutexes.  The invariant: the count is that of the readers    *)
(* inside; the bit belongs to one writer, who is in or at gate 2.          *)
SharedLabels == {"out", "writing", "reading", "gate1", "woken1", "gate2", "woken2"}

SharedTypes ==
  /\ sEntered \in BOOLEAN /\ sReaders \in 0..Readers
  /\ sPc \in [Thread -> SharedLabels]
  /\ sKind \in [Thread -> {"write", "read"}]

Reading == {t \in Thread : sPc[t] = "reading"}
HasEntered(t) == sPc[t] \in {"gate2", "woken2", "writing"}

SharedCounts == sReaders = Cardinality(Reading)

SharedWriter ==
  /\ sEntered => \E t \in Thread : \A u \in Thread : HasEntered(u) <=> u = t
  /\ ~sEntered => \A u \in Thread : ~HasEntered(u)
  /\ (\E t \in Thread : sPc[t] = "writing") => sReaders = 0

SharedInv == SharedTypes /\ SharedCounts /\ SharedWriter /\ Shared!WriterNotForgotten

SharedAssumption == Shared!ReadersAssumption /\ IsFiniteSet(Thread)

LEMMA ReadingFinite == SharedAssumption => IsFiniteSet(Reading)
BY FS_Subset DEF Reading, SharedAssumption

LEMMA SharedInit == SharedAssumption /\ Shared!Init => SharedInv
<1> SUFFICES ASSUME SharedAssumption, Shared!Init PROVE SharedInv
  OBVIOUS
<1> USE DEF SharedAssumption, Shared!ReadersAssumption, Shared!Init
<1>1. Reading = {} /\ Cardinality(Reading) = 0
  BY FS_EmptySet DEF Reading
<1>2. SharedTypes
  <2>1. sPc \in [Thread -> SharedLabels]
    BY DEF SharedLabels
  <2>2. sKind \in [Thread -> {"write", "read"}]
    OBVIOUS
  <2>3. sEntered \in BOOLEAN
    OBVIOUS
  <2>4. sReaders \in 0..Readers
    OBVIOUS
  <2> QED BY <2>1, <2>2, <2>3, <2>4, Zenon DEF SharedTypes
<1>3. SharedCounts /\ SharedWriter /\ Shared!WriterNotForgotten
  BY <1>1 DEF SharedCounts, SharedWriter, HasEntered, Shared!WriterNotForgotten, Shared!AtGate2
<1> QED BY <1>2, <1>3 DEF SharedInv

(* Past gate 1, for a thread to which it is open. *)
LEMMA SharedEnters ==
  ASSUME SharedAssumption, SharedInv, NEW t \in Thread, sPc[t] \in {"out", "gate1", "woken1"},
         NEW k \in {"write", "read"}, Shared!MayEnter(k), Shared!Enter(t, k),
         sKind' \in [Thread -> {"write", "read"}]
  PROVE  SharedInv'
<1> USE DEF SharedAssumption, Shared!ReadersAssumption, SharedInv, SharedTypes, SharedLabels,
            Shared!MayEnter, Shared!Enter, Shared!Go, Shared!WriterWaits
<1>1. CASE k = "write"
  <2>1. /\ sEntered' = TRUE /\ ~sEntered /\ sReaders' = sReaders
        /\ sPc' = [sPc EXCEPT ![t] = IF sReaders > 0 THEN "gate2" ELSE "writing"]
    BY <1>1
  <2>2. SharedTypes'
    BY <2>1
  <2>3. Reading' = Reading
    BY <2>1 DEF Reading
  <2>4. HasEntered(t)' /\ \A u \in Thread \ {t} : ~HasEntered(u)'
    BY <2>1 DEF HasEntered, SharedWriter
  <2>5. \A u \in Thread : /\ sPc'[u] = "writing" => u = t /\ sReaders = 0
                          /\ sPc'[u] = "gate2" => u = t /\ sReaders > 0
    BY <2>1 DEF HasEntered, SharedWriter
  <2>6. SharedCounts' /\ SharedWriter' /\ Shared!WriterNotForgotten'
    BY <2>1, <2>3, <2>4, <2>5 DEF SharedCounts, SharedWriter, Shared!WriterNotForgotten, Shared!AtGate2
  <2> QED BY <2>2, <2>6
<1>2. CASE k = "read"
  <2>1. /\ sEntered' = sEntered /\ ~sEntered /\ sReaders < Readers /\ sReaders' = sReaders + 1
        /\ sPc' = [sPc EXCEPT ![t] = "reading"]
    BY <1>2
  <2>2. SharedTypes'
    BY <2>1
  <2>3. t \notin Reading /\ Reading' = Reading \cup {t}
    BY <2>1 DEF Reading
  <2>4. SharedCounts'
    BY <2>1, <2>3, ReadingFinite, MovedIn DEF SharedCounts
  <2>5. \A u \in Thread : ~HasEntered(u)'
    BY <2>1 DEF HasEntered, SharedWriter
  <2>6. SharedWriter' /\ Shared!WriterNotForgotten'
    BY <2>1, <2>5 DEF SharedWriter, HasEntered, Shared!WriterNotForgotten, Shared!AtGate2
  <2> QED BY <2>2, <2>4, <2>6
<1> QED BY <1>1, <1>2

(* A step of a thread outside, or one that wakes it where it waits. *)
LEMMA SharedAside ==
  ASSUME SharedInv, UNCHANGED <<sEntered, sReaders>>, sKind' \in [Thread -> {"write", "read"}],
         sPc' \in [Thread -> SharedLabels],
         \A u \in Thread : \/ sPc'[u] = sPc[u]
                           \/ {sPc[u], sPc'[u]} \subseteq {"out", "gate1", "woken1"}
                           \/ sPc[u] = "gate2" /\ sPc'[u] = "woken2"
                           \/ sPc[u] = "woken2" /\ sPc'[u] = "gate2" /\ sReaders > 0
                           \/ HasEntered(u) /\ sPc'[u] = "writing" /\ sReaders = 0
  PROVE  SharedInv'
<1>1. Reading' = Reading /\ \A u \in Thread : HasEntered(u)' <=> HasEntered(u)
  BY DEF Reading, HasEntered
<1>2. \A u \in Thread : /\ sPc'[u] = "writing" => sPc[u] = "writing" \/ sReaders = 0
                        /\ sPc'[u] = "gate2" => sPc[u] = "gate2" \/ sReaders > 0
  BY DEF HasEntered
<1>3. SharedTypes' /\ SharedCounts'
  BY <1>1 DEF SharedInv, SharedTypes, SharedCounts
<1>4. SharedWriter'
  BY <1>1, <1>2 DEF SharedInv, SharedWriter
<1>5. Shared!WriterNotForgotten'
  BY <1>2 DEF SharedInv, Shared!WriterNotForgotten, Shared!AtGate2
<1> QED BY <1>3, <1>4, <1>5 DEF SharedInv

(* What a thread at a gate, or on the way to it, does. *)
LEMMA SharedGates ==
  ASSUME SharedAssumption, SharedInv, NEW t \in Thread,
         Shared!Lock(t) \/ Shared!TryLock(t) \/ Shared!TryLockShared(t) \/ Shared!Retry(t)
           \/ Shared!SpuriousWake(t)
  PROVE  SharedInv'
<1> USE DEF Shared!Go
<1>1. CASE Shared!Lock(t)
  <2>1. PICK k \in {"write", "read"} :
          /\ sKind' = [sKind EXCEPT ![t] = k] /\ sPc[t] = "out"
          /\ IF Shared!MayEnter(k) THEN Shared!Enter(t, k)
             ELSE sPc' = [sPc EXCEPT ![t] = "gate1"] /\ UNCHANGED <<sEntered, sReaders>>
    BY <1>1 DEF Shared!Lock
  <2>2. sKind' \in [Thread -> {"write", "read"}]
    BY <2>1 DEF SharedInv, SharedTypes
  <2>3. CASE Shared!MayEnter(k)
    BY <2>1, <2>2, <2>3, SharedEnters
  <2>4. CASE ~Shared!MayEnter(k)
    BY <2>1, <2>2, <2>4, SharedAside DEF SharedInv, SharedTypes, SharedLabels
  <2> QED BY <2>3, <2>4
<1>2. CASE Shared!TryLock(t)
  <2>1. sKind' \in [Thread -> {"write", "read"}] /\ sPc[t] = "out"
    BY <1>2 DEF Shared!TryLock, SharedInv, SharedTypes
  <2>2. Shared!MayEnter("write") /\ Shared!Enter(t, "write")
    BY <1>2 DEF Shared!TryLock, Shared!MayEnter, Shared!Enter, Shared!WriterWaits
  <2> QED BY <2>1, <2>2, SharedEnters
<1>3. CASE Shared!TryLockShared(t)
  <2>1. sKind' \in [Thread -> {"write", "read"}] /\ sPc[t] = "out"
    BY <1>3 DEF Shared!TryLockShared, SharedInv, SharedTypes
  <2>2. Shared!MayEnter("read") /\ Shared!Enter(t, "read")
    BY <1>3 DEF Shared!TryLockShared, Shared!MayEnter, Shared!Enter, SharedInv, SharedTypes,
                SharedAssumption, Shared!ReadersAssumption
  <2> QED BY <2>1, <2>2, SharedEnters
<1>4. CASE Shared!Retry(t)
  <2>1. sKind' = sKind /\ sKind[t] \in {"write", "read"} /\ sKind' \in [Thread -> {"write", "read"}]
    BY <1>4 DEF Shared!Retry, SharedInv, SharedTypes
  <2>2. CASE sPc[t] = "woken1"
    <3>1. IF Shared!MayEnter(sKind[t]) THEN Shared!Enter(t, sKind[t])
          ELSE sPc' = [sPc EXCEPT ![t] = "gate1"] /\ UNCHANGED <<sEntered, sReaders>>
      BY <1>4, <2>2 DEF Shared!Retry
    <3>2. CASE Shared!MayEnter(sKind[t])
      BY <2>1, <2>2, <3>1, <3>2, SharedEnters
    <3>3. CASE ~Shared!MayEnter(sKind[t])
      BY <2>1, <2>2, <3>1, <3>3, SharedAside DEF SharedInv, SharedTypes, SharedLabels
    <3> QED BY <3>2, <3>3
  <2>3. CASE sPc[t] = "woken2"
    <3>1. /\ sPc' = [sPc EXCEPT ![t] = IF sReaders > 0 THEN "gate2" ELSE "writing"]
          /\ UNCHANGED <<sEntered, sReaders>>
      BY <1>4, <2>3 DEF Shared!Retry, Shared!WriterWaits
    <3>2. CASE sReaders > 0
      BY <2>1, <2>3, <3>1, <3>2, SharedAside DEF SharedInv, SharedTypes, SharedLabels
    <3>3. CASE ~(sReaders > 0)
      <4>1. sReaders = 0 /\ HasEntered(t)
        BY <2>3, <3>3 DEF SharedInv, SharedTypes, HasEntered
      <4> QED BY <2>1, <2>3, <3>1, <3>3, <4>1, SharedAside DEF SharedInv, SharedTypes, SharedLabels
    <3> QED BY <3>2, <3>3
  <2> QED BY <1>4, <2>2, <2>3 DEF Shared!Retry
<1>5. CASE Shared!SpuriousWake(t)
  <2>1. UNCHANGED <<sEntered, sReaders, sKind>>
    BY <1>5 DEF Shared!SpuriousWake
  <2>2. \/ sPc[t] = "gate1" /\ sPc' = [sPc EXCEPT ![t] = "woken1"]
        \/ sPc[t] = "gate2" /\ sPc' = [sPc EXCEPT ![t] = "woken2"]
    BY <1>5 DEF Shared!SpuriousWake
  <2> QED BY <2>1, <2>2, SharedAside DEF SharedInv, SharedTypes, SharedLabels
<1> QED BY <1>1, <1>2, <1>3, <1>4, <1>5

(* The writer takes its bit back and opens gate 1. *)
LEMMA SharedOpens ==
  ASSUME SharedInv, NEW t \in Thread, HasEntered(t), sEntered' = FALSE, UNCHANGED <<sReaders, sKind>>,
         sPc' = Shared!NotifyAllGate1([sPc EXCEPT ![t] = "out"])
  PROVE  SharedInv' /\ \A u \in Thread : sPc'[u] # "gate1"
<1>1. sPc' \in [Thread -> SharedLabels]
  BY DEF SharedInv, SharedTypes, SharedLabels, Shared!NotifyAllGate1
<1>2. /\ sPc'[t] = "out"
      /\ \A u \in Thread \ {t} : sPc'[u] = IF sPc[u] = "gate1" THEN "woken1" ELSE sPc[u]
  BY DEF SharedInv, SharedTypes, Shared!NotifyAllGate1, Shared!AtGate1, HasEntered
<1>3. sEntered /\ \A u \in Thread \ {t} : ~HasEntered(u)
  BY DEF SharedInv, SharedTypes, SharedWriter
<1>4. \A u \in Thread : ~HasEntered(u)'
  BY <1>2, <1>3 DEF HasEntered
<1>5. Reading' = Reading
  BY <1>2 DEF Reading, HasEntered
<1>6. SharedTypes' /\ SharedCounts'
  BY <1>1, <1>5 DEF SharedInv, SharedTypes, SharedCounts
<1>7. SharedWriter' /\ Shared!WriterNotForgotten'
  BY <1>4 DEF SharedWriter, HasEntered, Shared!WriterNotForgotten, Shared!AtGate2
<1>8. \A u \in Thread : sPc'[u] # "gate1"
  BY <1>2
<1> QED BY <1>6, <1>7, <1>8 DEF SharedInv

LEMMA SharedLeaves ==
  ASSUME SharedAssumption, SharedInv, NEW t \in Thread, Shared!TimeOut(t) \/ Shared!Unlock(t)
  PROVE  SharedInv'
<1> USE DEF Shared!Go
<1>1. CASE Shared!TimeOut(t)
  <2>1. sKind' = sKind /\ sKind[t] \in {"write", "read"} /\ sKind' \in [Thread -> {"write", "read"}]
    BY <1>1 DEF Shared!TimeOut, SharedInv, SharedTypes
  <2>2. CASE sPc[t] \in {"gate1", "woken1"}
    <3>1. IF Shared!MayEnter(sKind[t]) THEN Shared!Enter(t, sKind[t])
          ELSE sPc' = [sPc EXCEPT ![t] = "out"] /\ UNCHANGED <<sEntered, sReaders>>
      BY <1>1, <2>2 DEF Shared!TimeOut
    <3>2. CASE Shared!MayEnter(sKind[t])
      BY <2>1, <2>2, <3>1, <3>2, SharedEnters
    <3>3. CASE ~Shared!MayEnter(sKind[t])
      BY <2>1, <2>2, <3>1, <3>3, SharedAside DEF SharedInv, SharedTypes, SharedLabels
    <3> QED BY <3>2, <3>3
  <2>3. CASE sPc[t] \in {"gate2", "woken2"}
    <3>1. /\ sReaders' = sReaders
          /\ IF sReaders = 0
               THEN sPc' = [sPc EXCEPT ![t] = "writing"] /\ UNCHANGED sEntered
               ELSE sEntered' = FALSE /\ sPc' = Shared!NotifyAllGate1([sPc EXCEPT ![t] = "out"])
      BY <1>1, <2>3 DEF Shared!TimeOut, Shared!GivesUp
    <3>2. HasEntered(t)
      BY <2>3 DEF HasEntered
    <3>3. CASE sReaders = 0
      BY <2>1, <2>3, <3>1, <3>2, <3>3, SharedAside DEF SharedInv, SharedTypes, SharedLabels
    <3>4. CASE sReaders # 0
      BY <2>1, <3>1, <3>2, <3>4, SharedOpens
    <3> QED BY <3>3, <3>4
  <2> QED BY <1>1, <2>2, <2>3 DEF Shared!TimeOut
<1>2. CASE Shared!Unlock(t)
  <2>1. HasEntered(t) /\ sReaders = 0
    BY <1>2 DEF Shared!Unlock, HasEntered, SharedInv, SharedWriter
  <2>2. /\ sEntered' = FALSE /\ UNCHANGED <<sReaders, sKind>>
        /\ sPc' = Shared!NotifyAllGate1([sPc EXCEPT ![t] = "out"])
    BY <1>2, <2>1 DEF Shared!Unlock
  <2> QED BY <2>1, <2>2, SharedOpens
<1> QED BY <1>1, <1>2

(* The steps of unlock_shared: somebody may be notified, at one gate. *)
LEMMA SharedNotifies ==
  ASSUME SharedInv, NEW t \in Thread, Shared!UnlockShared(t)
  PROVE  /\ sPc' \in [Thread -> SharedLabels] /\ sPc'[t] = "out"
         /\ \A u \in Thread \ {t} : \/ sPc'[u] = sPc[u]
                                    \/ sPc[u] = "gate2" /\ sPc'[u] = "woken2"
                                    \/ sPc[u] = "gate1" /\ sPc'[u] = "woken1"
         /\ sEntered /\ sReaders' = 0 /\ Shared!AtGate2 # {} =>
              \E u \in Shared!AtGate2 : sPc'[u] = "woken2"
         /\ ~sEntered /\ sReaders' = Readers - 1 /\ Shared!AtGate1 # {} =>
              \E u \in Shared!AtGate1 : sPc'[u] = "woken1"
<1> DEFINE others == [sPc EXCEPT ![t] = "out"]
<1> USE DEF SharedInv, SharedTypes, SharedLabels, Shared!AtGate1, Shared!AtGate2
<1>1. sPc[t] = "reading"
  BY DEF Shared!UnlockShared
<1>2. /\ others \in [Thread -> SharedLabels] /\ others[t] = "out"
      /\ \A u \in Thread \ {t} : others[u] = sPc[u]
  OBVIOUS
<1> HIDE DEF others
<1>3. CASE sPc' = others
  <2>1. /\ sEntered /\ sReaders' = 0 => Shared!AtGate2 = {}
        /\ ~sEntered /\ sReaders' = Readers - 1 => Shared!AtGate1 = {}
    BY <1>1, <1>2, <1>3 DEF Shared!UnlockShared, Shared!LastReader, Shared!NotifyOne
  <2> QED BY <1>2, <1>3, <2>1
<1>4. CASE sEntered /\ \E u \in Shared!AtGate2 : sPc' = [others EXCEPT ![u] = "woken2"]
  BY <1>1, <1>2, <1>4
<1>5. CASE ~sEntered /\ \E u \in Shared!AtGate1 : sPc' = [others EXCEPT ![u] = "woken1"]
  BY <1>1, <1>2, <1>5
<1> QED BY <1>3, <1>4, <1>5 DEF Shared!UnlockShared, Shared!NotifyOne, others

LEMMA SharedUnlocks ==
  ASSUME SharedAssumption, SharedInv, NEW t \in Thread, Shared!UnlockShared(t)
  PROVE  SharedInv'
<1>1. UNCHANGED <<sEntered, sKind>> /\ sReaders' = sReaders - 1 /\ sPc[t] = "reading"
  BY DEF Shared!UnlockShared
<1>2. t \in Reading /\ Reading' = Reading \ {t}
  BY <1>1, SharedNotifies DEF Reading
<1>3. Cardinality(Reading') = Cardinality(Reading) - 1
  BY <1>2, ReadingFinite, MovedOut
<1>4. Cardinality(Reading') \in Nat
  BY <1>2, ReadingFinite, FS_CardinalityType, FS_RemoveElement
<1>5. SharedTypes' /\ SharedCounts' /\ sReaders > 0
  BY <1>1, <1>3, <1>4, SharedNotifies
  DEF SharedInv, SharedTypes, SharedCounts, SharedAssumption, Shared!ReadersAssumption
<1>6. \A u \in Thread : (HasEntered(u)' <=> HasEntered(u)) /\ sPc'[u] # "writing"
  BY <1>1, <1>5, SharedNotifies DEF HasEntered, SharedInv, SharedWriter
<1>7. SharedWriter'
  BY <1>1, <1>6 DEF SharedInv, SharedWriter
<1>8. Shared!WriterNotForgotten'
  <2> SUFFICES ASSUME NEW w \in Thread, sPc'[w] = "gate2" PROVE sReaders' > 0
    BY DEF Shared!WriterNotForgotten, Shared!AtGate2
  <2>1. sPc[w] = "gate2" /\ HasEntered(w) /\ sEntered
    BY SharedNotifies DEF HasEntered, SharedInv, SharedTypes, SharedWriter
  <2>2. \A u \in Shared!AtGate2 : u = w
    BY <2>1 DEF HasEntered, SharedInv, SharedWriter, Shared!AtGate2
  <2>3. sReaders' # 0
    BY <2>1, <2>2, SharedNotifies DEF Shared!AtGate2
  <2> QED BY <1>5, <2>3 DEF SharedTypes
<1> QED BY <1>5, <1>7, <1>8 DEF SharedInv

LEMMA SharedStep ==
  ASSUME SharedAssumption, SharedInv, [Shared!Next]_(Shared!vars)
  PROVE  SharedInv'
<1>1. CASE UNCHANGED Shared!vars
  <2>1. UNCHANGED <<sEntered, sReaders, sKind>> /\ sPc' = sPc
    BY <1>1 DEF Shared!vars
  <2> QED BY <2>1, SharedAside DEF SharedInv, SharedTypes
<1>2. CASE Shared!Next
  BY <1>2, SharedGates, SharedLeaves, SharedUnlocks DEF Shared!Next, Shared!ThreadStep
<1> QED BY <1>1, <1>2

LEMMA SharedMeans == SharedAssumption /\ SharedInv => Shared!Exclusion
<1> SUFFICES ASSUME SharedAssumption, SharedInv PROVE Shared!Exclusion
  OBVIOUS
<1> DEFINE Inside == {t \in Thread : HasEntered(t)}
<1>1. CASE sEntered
  <2>1. PICK t \in Thread : \A u \in Thread : HasEntered(u) <=> u = t
    BY <1>1 DEF SharedInv, SharedWriter
  <2>2. Inside = {t}
    BY <2>1
  <2>3. Cardinality(Inside) = 1
    BY <2>2, FS_Singleton
  <2> QED BY <1>1, <2>3, LockCardinality
    DEF Shared!Exclusion, SharedInv, SharedCounts, SharedWriter, Reading, HasEntered
<1>2. CASE ~sEntered
  <2>1. Inside = {} /\ Cardinality(Inside) = 0
    BY <1>2, FS_EmptySet DEF SharedInv, SharedWriter
  <2> QED BY <1>2, <2>1, LockCardinality
    DEF Shared!Exclusion, SharedInv, SharedCounts, SharedWriter, Reading, HasEntered
<1> QED BY <1>1, <1>2

(* Who sleeps at gate 1 with no writer entered is a reader that found no   *)
(* room, and there is none yet.  This is where the number of threads       *)
(* matters: unlock_shared wakes one reader when the count leaves its limit *)
(* and nobody later, which is enough when only one thread has no room.     *)
SharedGate ==
  ~sEntered => \A t \in Thread : sPc[t] = "gate1" => sReaders = Readers /\ sKind[t] = "read"

SharedRoom == Cardinality(Thread) <= Readers + 1

(* With all places taken there is one thread outside at most. *)
LEMMA OneOutside ==
  ASSUME SharedAssumption, SharedInv, SharedRoom, sReaders = Readers,
         NEW u \in Thread \ Reading, NEW v \in Thread \ Reading
  PROVE  u = v
<1> SUFFICES ASSUME u # v PROVE FALSE
  OBVIOUS
<1>1. IsFiniteSet(Reading) /\ Cardinality(Reading) = Readers /\ Readers \in Nat
  BY ReadingFinite DEF SharedInv, SharedCounts, SharedAssumption, Shared!ReadersAssumption
<1>2. IsFiniteSet(Reading \cup {u}) /\ Cardinality(Reading \cup {u}) = Readers + 1
  BY <1>1, FS_AddElement
<1>3. Cardinality((Reading \cup {u}) \cup {v}) = Readers + 1 + 1
  <2>1. v \notin Reading \cup {u}
    OBVIOUS
  <2> QED BY <1>2, <2>1, FS_AddElement
<1>4. (Reading \cup {u}) \cup {v} \subseteq Thread
  BY DEF Reading
<1>5. Cardinality((Reading \cup {u}) \cup {v}) <= Cardinality(Thread) /\ Cardinality(Thread) \in Nat
  BY <1>4, FS_Subset, FS_CardinalityType DEF SharedAssumption
<1> QED BY <1>1, <1>3, <1>5 DEF SharedRoom

(* A thread that enters has found the gate open, and so nobody at it. *)
LEMMA GateEnters ==
  ASSUME SharedAssumption, SharedInv, SharedGate, NEW t \in Thread, sPc[t] \in {"out", "gate1", "woken1"},
         NEW k \in {"write", "read"}, sPc[t] = "gate1" => k = sKind[t],
         Shared!MayEnter(k), Shared!Enter(t, k)
  PROVE  SharedGate'
<1> USE DEF Shared!MayEnter, Shared!Enter, Shared!Go
<1>1. CASE k = "write"
  BY <1>1 DEF SharedGate
<1>2. CASE k = "read"
  <2>1. ~sEntered /\ sReaders < Readers /\ sPc' = [sPc EXCEPT ![t] = "reading"]
    BY <1>2
  <2>2. \A u \in Thread : sPc[u] # "gate1"
    BY <2>1 DEF SharedGate, SharedInv, SharedTypes, SharedAssumption, Shared!ReadersAssumption
  <2>3. \A u \in Thread : sPc'[u] # "gate1"
    BY <2>1, <2>2 DEF SharedInv, SharedTypes
  <2> QED BY <2>3 DEF SharedGate
<1> QED BY <1>1, <1>2

(* Nobody else comes to the gate. *)
LEMMA GateAside ==
  ASSUME SharedInv, SharedGate, NEW t \in Thread, UNCHANGED <<sEntered, sReaders>>,
         \A u \in Thread \ {t} : sPc'[u] = sPc[u] /\ sKind'[u] = sKind[u],
         sPc'[t] = "gate1" => ~Shared!MayEnter(sKind'[t]),
         sKind'[t] \in {"write", "read"}, SharedAssumption
  PROVE  SharedGate'
<1> SUFFICES ASSUME ~sEntered, NEW u \in Thread, sPc'[u] = "gate1"
             PROVE  sReaders = Readers /\ sKind'[u] = "read"
  BY DEF SharedGate
<1>1. CASE u = t
  BY <1>1 DEF Shared!MayEnter, SharedInv, SharedTypes, SharedAssumption, Shared!ReadersAssumption
<1>2. CASE u # t
  BY <1>2 DEF SharedGate
<1> QED BY <1>1, <1>2

LEMMA SharedGateStep ==
  ASSUME SharedAssumption, SharedRoom, SharedInv, SharedGate, [Shared!Next]_(Shared!vars)
  PROVE  SharedGate'
<1> USE DEF Shared!Go
<1>1. CASE UNCHANGED Shared!vars
  BY <1>1 DEF Shared!vars, SharedGate
<1> SUFFICES ASSUME NEW t \in Thread,
                    \/ Shared!Lock(t) \/ Shared!TryLock(t) \/ Shared!TryLockShared(t)
                    \/ Shared!SpuriousWake(t) \/ Shared!TimeOut(t) \/ Shared!ThreadStep(t)
             PROVE  SharedGate'
  BY <1>1 DEF Shared!Next
<1>2. CASE Shared!Lock(t)
  <2>1. PICK k \in {"write", "read"} :
          /\ sKind' = [sKind EXCEPT ![t] = k] /\ sPc[t] = "out"
          /\ IF Shared!MayEnter(k) THEN Shared!Enter(t, k)
             ELSE sPc' = [sPc EXCEPT ![t] = "gate1"] /\ UNCHANGED <<sEntered, sReaders>>
    BY <1>2 DEF Shared!Lock
  <2>2. CASE Shared!MayEnter(k)
    BY <2>1, <2>2, GateEnters
  <2>3. CASE ~Shared!MayEnter(k)
    <3>1. /\ \A u \in Thread \ {t} : sPc'[u] = sPc[u] /\ sKind'[u] = sKind[u]
          /\ sKind'[t] = k /\ UNCHANGED <<sEntered, sReaders>>
      BY <2>1, <2>3 DEF SharedInv, SharedTypes
    <3> QED BY <2>3, <3>1, GateAside
  <2> QED BY <2>2, <2>3
<1>3. CASE Shared!TryLock(t)
  BY <1>3 DEF Shared!TryLock, SharedGate
<1>4. CASE Shared!TryLockShared(t)
  <2>1. Shared!MayEnter("read") /\ Shared!Enter(t, "read") /\ sPc[t] = "out"
    BY <1>4 DEF Shared!TryLockShared, Shared!MayEnter, Shared!Enter, SharedInv, SharedTypes,
                SharedAssumption, Shared!ReadersAssumption
  <2> QED BY <2>1, GateEnters
<1>5. CASE Shared!SpuriousWake(t)
  <2>1. /\ UNCHANGED <<sEntered, sReaders, sKind>> /\ sPc'[t] # "gate1"
        /\ \A u \in Thread \ {t} : sPc'[u] = sPc[u]
    BY <1>5 DEF Shared!SpuriousWake, SharedInv, SharedTypes
  <2> QED BY <2>1, GateAside DEF SharedInv, SharedTypes
<1>6. CASE Shared!Retry(t) \/ Shared!TimeOut(t)
  <2>1. sKind' = sKind /\ sKind[t] \in {"write", "read"}
    BY <1>6 DEF Shared!Retry, Shared!TimeOut, SharedInv, SharedTypes
  <2>2. CASE Shared!MayEnter(sKind[t]) /\ Shared!Enter(t, sKind[t]) /\ sPc[t] \in {"gate1", "woken1"}
    BY <2>1, <2>2, GateEnters
  <2>3. CASE /\ UNCHANGED <<sEntered, sReaders>>
             /\ \/ sPc' = [sPc EXCEPT ![t] = "gate1"] /\ ~Shared!MayEnter(sKind[t])
                \/ \E l \in SharedLabels \ {"gate1"} : sPc' = [sPc EXCEPT ![t] = l]
    <3>1. \A u \in Thread \ {t} : sPc'[u] = sPc[u]
      BY <2>3 DEF SharedInv, SharedTypes
    <3>2. sPc'[t] = "gate1" => ~Shared!MayEnter(sKind'[t])
      BY <2>1, <2>3 DEF SharedInv, SharedTypes
    <3> QED BY <2>1, <2>3, <3>1, <3>2, GateAside
  <2>4. CASE HasEntered(t) /\ sEntered' = FALSE /\ UNCHANGED sReaders
             /\ sPc' = Shared!NotifyAllGate1([sPc EXCEPT ![t] = "out"])
    BY <2>1, <2>4, SharedOpens DEF SharedGate
  <2> QED BY <1>6, <2>2, <2>3, <2>4
    DEF Shared!Retry, Shared!TimeOut, Shared!GivesUp, Shared!WriterWaits, HasEntered, SharedLabels
<1>7. CASE Shared!Unlock(t)
  <2>1. HasEntered(t) /\ sReaders = 0
    BY <1>7 DEF Shared!Unlock, HasEntered, SharedInv, SharedWriter
  <2>2. /\ sEntered' = FALSE /\ UNCHANGED <<sReaders, sKind>>
        /\ sPc' = Shared!NotifyAllGate1([sPc EXCEPT ![t] = "out"])
    BY <1>7, <2>1 DEF Shared!Unlock
  <2> QED BY <2>1, <2>2, SharedOpens DEF SharedGate
<1>8. CASE Shared!UnlockShared(t)
  <2> SUFFICES ASSUME ~sEntered, NEW u \in Thread, sPc'[u] = "gate1"
               PROVE  FALSE
    BY <1>8 DEF SharedGate, Shared!UnlockShared
  <2>1. sPc[u] = "gate1" /\ u \in Shared!AtGate1
    BY <1>8, SharedNotifies DEF Shared!AtGate1
  <2>2. sReaders = Readers /\ sReaders' = Readers - 1
    BY <1>8, <2>1 DEF SharedGate, Shared!UnlockShared
  <2>3. PICK v \in Shared!AtGate1 : sPc'[v] = "woken1"
    BY <1>8, <2>1, <2>2, SharedNotifies
  <2>4. u = v
    BY <2>1, <2>2, <2>3, OneOutside DEF Shared!AtGate1, Reading
  <2> QED BY <2>3, <2>4
<1> QED BY <1>2, <1>3, <1>4, <1>5, <1>6, <1>7, <1>8 DEF Shared!ThreadStep

LEMMA SharedGateInit == SharedAssumption /\ Shared!Init => SharedGate
BY DEF Shared!Init, SharedGate

LEMMA SharedGateMeans == SharedInv /\ SharedGate => Shared!NoneForgotten
BY DEF SharedInv, SharedTypes, SharedGate, Shared!NoneForgotten, Shared!AtGate1, Shared!MayEnter

-----------------------------------------------------------------------------
LEMMA MutexCorrect == MutexAssumption => (Mutex!Spec => [](Mutex!OneOwner /\ Mutex!NoneForgotten))
<1>1. ASSUME MutexAssumption PROVE Mutex!Spec => [](Mutex!OneOwner /\ Mutex!NoneForgotten)
  <2>1. Mutex!Init => MutexInv
    BY <1>1, MutexInit
  <2>2. MutexInv /\ [Mutex!Next]_(Mutex!vars) => MutexInv'
    BY <1>1, MutexStep
  <2>3. MutexInv => Mutex!OneOwner /\ Mutex!NoneForgotten
    BY <1>1, MutexMeans
  <2> QED BY <2>1, <2>2, <2>3, PTL DEF Mutex!Spec
<1> QED BY <1>1

LEMMA SharedCorrect == SharedAssumption => (Shared!Spec => []SharedInv)
<1>1. ASSUME SharedAssumption PROVE Shared!Spec => []SharedInv
  <2>1. Shared!Init => SharedInv
    BY <1>1, SharedInit
  <2>2. SharedInv /\ [Shared!Next]_(Shared!vars) => SharedInv'
    BY <1>1, SharedStep
  <2> QED BY <2>1, <2>2, PTL DEF Shared!Spec
<1> QED BY <1>1

(* What the suite asks of the timed mutexes, for the one in use. *)
LEMMA MutexesAgree ==
  ASSUME which = "recursive" <=> IsRecursive, IsRecursive \in BOOLEAN
  PROVE  /\ Mutex!OneOwner => IF which = "recursive" THEN Reentrant!OneOwner ELSE Plain!OneOwner
         /\ Mutex!NoneForgotten => Plain!NoneForgotten
<1>1. \A S : Mutex!Cardinality(S) = Reentrant!Cardinality(S) /\ Mutex!Cardinality(S) = Plain!Cardinality(S)
  BY DEF Mutex!Cardinality, Reentrant!Cardinality, Plain!Cardinality
<1>2. CASE IsRecursive
  BY <1>1, <1>2 DEF Most, Mutex!OneOwner, Reentrant!OneOwner,
                    Mutex!NoneForgotten, Plain!NoneForgotten, Mutex!Asleep, Plain!Asleep
<1>3. CASE ~IsRecursive
  BY <1>1, <1>3 DEF Most, Mutex!OneOwner, Plain!OneOwner,
                    Mutex!NoneForgotten, Plain!NoneForgotten, Mutex!Asleep, Plain!Asleep
<1> QED BY <1>2, <1>3

LEMMA MutexesAssumed == IsRecursive \in BOOLEAN => MutexAssumption /\ SharedAssumption
BY SuiteAssumption
DEF LocksAssumption, Most, MutexAssumption, SharedAssumption, Mutex!CountAssumption, Mutex!KindAssumption,
    Reentrant!CountAssumption, Reentrant!KindAssumption

(* For any number of threads and readers: one owner of a timed mutex, and  *)
(* a writer alone in a shared mutex.                                       *)
THEOREM MutexesExclude ==
  IsRecursive \in BOOLEAN =>
    (Mutex!Spec /\ Shared!Spec /\ [](which = "recursive" <=> IsRecursive) => []Exclusion)
<1> SUFFICES ASSUME IsRecursive \in BOOLEAN
             PROVE  Mutex!Spec /\ Shared!Spec /\ [](which = "recursive" <=> IsRecursive) => []Exclusion
  OBVIOUS
<1>1. (Mutex!Spec => [](Mutex!OneOwner /\ Mutex!NoneForgotten)) /\ (Shared!Spec => []SharedInv)
  BY MutexesAssumed, MutexCorrect, SharedCorrect
<1>2. Mutex!OneOwner /\ SharedInv /\ (which = "recursive" <=> IsRecursive) => Exclusion
  BY MutexesAssumed, MutexesAgree, SharedMeans DEF Exclusion
<1> QED BY <1>1, <1>2, PTL

(* And no sleeping thread is forgotten, for a shared mutex that has room   *)
(* for all readers but one; __n_readers_ is above two thousand million.    *)
THEOREM MutexesForgetNobody ==
  IsRecursive \in BOOLEAN /\ SharedRoom =>
    (Mutex!Spec /\ Shared!Spec /\ [](which = "recursive" <=> IsRecursive) => []NoneForgotten)
<1> SUFFICES ASSUME IsRecursive \in BOOLEAN, SharedRoom
             PROVE  Mutex!Spec /\ Shared!Spec /\ [](which = "recursive" <=> IsRecursive) => []NoneForgotten
  OBVIOUS
<1>1. (Mutex!Spec => [](Mutex!OneOwner /\ Mutex!NoneForgotten)) /\ (Shared!Spec => []SharedInv)
  BY MutexesAssumed, MutexCorrect, SharedCorrect
<1>2. Shared!Init => SharedGate
  BY MutexesAssumed, SharedGateInit
<1>3. SharedInv /\ SharedGate /\ [Shared!Next]_(Shared!vars) => SharedGate'
  BY MutexesAssumed, SharedGateStep
<1>4. Mutex!NoneForgotten /\ SharedInv /\ SharedGate /\ (which = "recursive" <=> IsRecursive) => NoneForgotten
  BY MutexesAgree, SharedGateMeans DEF NoneForgotten, SharedInv
<1> QED BY <1>1, <1>2, <1>3, <1>4, PTL DEF Shared!Spec

-----------------------------------------------------------------------------
(* The sleep of atomic wait.  The invariant, for the variant that sleeps   *)
(* on the atomic: who sleeps and sees another value has a notifier on the  *)
(* way that will find the count above zero.  For the one with the condition*)
(* variable: the mark is up again, or somebody is behind the mutex, as     *)
(* long as a thread is between announcement and sleep.                     *)
IsNative == Variant = "native"
IsCondvar == Variant = "condvar"

WaiterLabels ==
  {"idle", "test", "announce", "asleep", "woken"} \cup
    IF IsNative THEN {"sleep"} ELSE IF IsCondvar THEN {"lock", "check"} ELSE {"version", "check", "sleep"}

NotifierLabels ==
  {"idle", "wake"} \cup
    IF IsNative THEN {"look"} ELSE IF IsCondvar THEN {"look", "take", "barrier"} ELSE {"bump", "take"}

WaitTypes ==
  /\ aValue \in Value /\ aVal \in [Waiter -> Value]
  /\ aPc \in [Waiter \cup Notifier -> WaiterLabels \cup NotifierLabels]
  /\ \A w \in Waiter : aPc[w] \in WaiterLabels
  /\ \A n \in Notifier : aPc[n] \in NotifierLabels
  /\ aLeft \in [waits : Nat, notifies : Nat]
  /\ aVersion \in Nat /\ aVer \in [Waiter -> Nat] /\ \A w \in Waiter : aVer[w] <= aVersion
  /\ aAnnounced \in Nat

Sleepers == {w \in Waiter : aPc[w] \in {"sleep", "asleep", "woken"}}
Bumping == {n \in Notifier : aPc[n] = "bump"}

WaitCounts ==
  /\ aVersion + Cardinality(Bumping) + aLeft.notifies <= Notifies
  /\ IF IsNative THEN aAnnounced = Cardinality(Sleepers) ELSE aAnnounced \in {0, 1}

(* The mutex of the condition variable. *)
WaitLock == IsCondvar => \A w \in Waiter : (aLock = w) <=> aPc[w] \in {"announce", "check"}

Someone(labels) == \E n \in Notifier : aPc[n] \in labels

NativeRemembers == \A w \in Waiter : aPc[w] = "asleep" => aValue = aVal[w] \/ Someone({"look", "wake"})

CondvarRemembers ==
  /\ \A w \in Waiter : aPc[w] = "check" => aAnnounced = 1 \/ Someone({"barrier"})
  /\ \A w \in Waiter : aPc[w] = "asleep" => aAnnounced = 1 \/ Someone({"barrier", "wake"})
  /\ \A w \in Waiter : aPc[w] = "asleep" =>
       \/ aValue = aVal[w]
       \/ Someone({"barrier", "wake"})
       \/ aAnnounced = 1 /\ Someone({"look", "take"})

WaitRemembers == (IsNative => NativeRemembers) /\ (IsCondvar => CondvarRemembers)

WaitInv == WaitTypes /\ WaitCounts /\ WaitLock /\ WaitRemembers

WaitAssumption ==
  /\ Wait!VariantAssumption /\ Wait!ThreadAssumption /\ Wait!BoundAssumption
  /\ IsFiniteSet(Waiter) /\ IsFiniteSet(Notifier)

LEMMA WaitFinite ==
  WaitAssumption => IsFiniteSet(Sleepers) /\ IsFiniteSet(Bumping)
                    /\ Cardinality(Sleepers) \in Nat /\ Cardinality(Bumping) \in Nat
BY FS_Subset, FS_CardinalityType DEF WaitAssumption, Sleepers, Bumping

(* A waiting thread goes on: what that does to the counts. *)
LEMMA WaiterGoes ==
  ASSUME WaitAssumption, WaitTypes, NEW w \in Waiter, NEW l \in WaiterLabels, aPc' = [aPc EXCEPT ![w] = l]
  PROVE  /\ aPc' \in [Waiter \cup Notifier -> WaiterLabels \cup NotifierLabels]
         /\ aPc'[w] = l
         /\ \A u \in Waiter \ {w} : aPc'[u] = aPc[u]
         /\ \A n \in Notifier : aPc'[n] = aPc[n]
         /\ Bumping' = Bumping
         /\ l \in {"sleep", "asleep", "woken"} /\ w \in Sleepers => Sleepers' = Sleepers
         /\ l \notin {"sleep", "asleep", "woken"} /\ w \notin Sleepers => Sleepers' = Sleepers
         /\ l \in {"sleep", "asleep", "woken"} /\ w \notin Sleepers =>
              Cardinality(Sleepers') = Cardinality(Sleepers) + 1
         /\ l \notin {"sleep", "asleep", "woken"} /\ w \in Sleepers =>
              Cardinality(Sleepers') = Cardinality(Sleepers) - 1
<1>1. aPc' \in [Waiter \cup Notifier -> WaiterLabels \cup NotifierLabels]
  BY DEF WaitTypes
<1>2. /\ aPc'[w] = l
      /\ \A u \in Waiter \ {w} : aPc'[u] = aPc[u]
      /\ \A n \in Notifier : aPc'[n] = aPc[n]
  BY DEF WaitTypes, WaitAssumption, Wait!ThreadAssumption
<1>3. Bumping' = Bumping
  BY <1>2 DEF Bumping
<1>4. CASE (l \in {"sleep", "asleep", "woken"}) <=> w \in Sleepers
  <2>1. Sleepers' = Sleepers
    BY <1>2, <1>4 DEF Sleepers
  <2> QED BY <1>1, <1>2, <1>3, <1>4, <2>1
<1>5. CASE l \in {"sleep", "asleep", "woken"} /\ w \notin Sleepers
  <2>1. Sleepers' = Sleepers \cup {w}
    BY <1>2, <1>5 DEF Sleepers
  <2>2. Cardinality(Sleepers') = Cardinality(Sleepers) + 1
    BY <1>5, <2>1, WaitFinite, MovedIn
  <2> QED BY <1>1, <1>2, <1>3, <1>5, <2>2
<1>6. CASE l \notin {"sleep", "asleep", "woken"} /\ w \in Sleepers
  <2>1. Sleepers' = Sleepers \ {w}
    BY <1>2, <1>6 DEF Sleepers
  <2>2. Cardinality(Sleepers') = Cardinality(Sleepers) - 1
    BY <1>6, <2>1, WaitFinite, MovedOut
  <2> QED BY <1>1, <1>2, <1>3, <1>6, <2>2
<1> QED BY <1>4, <1>5, <1>6

(* The steps of a waiting thread: it goes to sleep only while it sees the  *)
(* value, and announces itself before.                                     *)
LEMMA WaiterFacts ==
  ASSUME WaitAssumption, WaitInv, NEW w \in Waiter, Wait!Wait(w) \/ Wait!WaiterStep(w)
  PROVE  /\ UNCHANGED <<aValue, aVersion>> /\ aLeft' \in [waits : Nat, notifies : Nat]
         /\ aLeft'.notifies = aLeft.notifies
         /\ aVal' \in [Waiter -> Value] /\ \A u \in Waiter : aPc[u] # "idle" => aVal'[u] = aVal[u]
         /\ aVer' \in [Waiter -> Nat] /\ \A u \in Waiter : aVer'[u] <= aVersion
         /\ aPc' = [aPc EXCEPT ![w] = aPc'[w]] /\ aPc'[w] \in WaiterLabels /\ aPc'[w] # aPc[w]
         /\ aPc'[w] = "asleep" => aPc[w] \in {"check", "sleep"} /\ (IsNative \/ IsCondvar => aVal[w] = aValue)
         /\ IsCondvar /\ aPc'[w] = "asleep" => aPc[w] = "check"
<1> USE DEF WaitAssumption, Wait!VariantAssumption, WaitInv, WaitTypes, WaiterLabels, NotifierLabels, IsNative, IsCondvar, Wait!Go
<1>1. CASE Wait!Wait(w)
  BY <1>1 DEF Wait!Wait
<1>2. CASE Wait!Test(w)
  BY <1>2 DEF Wait!Test
<1>3. CASE Wait!Lock(w)
  BY <1>3 DEF Wait!Lock
<1>4. CASE Wait!Announce(w)
  BY <1>4 DEF Wait!Announce
<1>5. CASE Wait!LoadVersion(w)
  BY <1>5 DEF Wait!LoadVersion
<1>6. CASE Wait!Check(w)
  BY <1>6 DEF Wait!Check, Wait!StillThere
<1>7. CASE Wait!FutexWait(w)
  BY <1>7 DEF Wait!FutexWait
<1>8. CASE Wait!TimeOut(w)
  BY <1>8 DEF Wait!TimeOut
<1>9. CASE Wait!Woken(w)
  BY <1>9 DEF Wait!Woken
<1> QED BY <1>1, <1>2, <1>3, <1>4, <1>5, <1>6, <1>7, <1>8, <1>9 DEF Wait!WaiterStep

(* What it does to the mutex and to the mark or the count. *)
LEMMA WaiterAnnounces ==
  ASSUME WaitAssumption, WaitInv, NEW w \in Waiter, Wait!Wait(w) \/ Wait!WaiterStep(w)
  PROVE  /\ IsNative =>
              \/ aPc[w] = "announce" /\ aPc'[w] = "sleep" /\ aAnnounced' = aAnnounced + 1
              \/ aPc[w] = "woken" /\ aPc'[w] = "test" /\ aAnnounced' = aAnnounced - 1
              \/ /\ aAnnounced' = aAnnounced
                 /\ (aPc'[w] \in {"sleep", "asleep", "woken"}) <=> w \in Sleepers
         /\ ~IsNative => aAnnounced' = IF aPc[w] = "announce" THEN 1 ELSE aAnnounced
         /\ IsCondvar =>
              \/ aPc[w] = "lock" /\ aPc'[w] = "announce" /\ aLock = NoThread /\ aLock' = w
              \/ aPc[w] = "announce" /\ aPc'[w] = "check" /\ aLock' = aLock
              \/ aPc[w] = "check" /\ aPc'[w] \notin {"announce", "check"} /\ aLock' = NoThread
              \/ /\ aPc[w] \notin {"announce", "check"} /\ aPc'[w] \notin {"announce", "check"}
                 /\ aLock' = aLock
<1> USE DEF WaitAssumption, Wait!VariantAssumption, WaitInv, WaitTypes, WaiterLabels, NotifierLabels, IsNative, IsCondvar,
            Wait!Go, Sleepers
<1>1. CASE Wait!Wait(w)
  BY <1>1 DEF Wait!Wait
<1>2. CASE Wait!Test(w)
  BY <1>2 DEF Wait!Test
<1>3. CASE Wait!Lock(w)
  BY <1>3 DEF Wait!Lock
<1>4. CASE Wait!Announce(w)
  BY <1>4 DEF Wait!Announce, Wait!Announced
<1>5. CASE Wait!LoadVersion(w)
  BY <1>5 DEF Wait!LoadVersion
<1>6. CASE Wait!Check(w)
  BY <1>6 DEF Wait!Check
<1>7. CASE Wait!FutexWait(w)
  BY <1>7 DEF Wait!FutexWait
<1>8. CASE Wait!TimeOut(w)
  BY <1>8 DEF Wait!TimeOut, Wait!Expires
<1>9. CASE Wait!Woken(w)
  BY <1>9 DEF Wait!Woken
<1> QED BY <1>1, <1>2, <1>3, <1>4, <1>5, <1>6, <1>7, <1>8, <1>9 DEF Wait!WaiterStep

LEMMA WaiterKeeps ==
  ASSUME WaitAssumption, WaitInv, NEW w \in Waiter, Wait!Wait(w) \/ Wait!WaiterStep(w)
  PROVE  WaitInv'
<1>1. /\ UNCHANGED <<aValue, aVersion>> /\ aLeft' \in [waits : Nat, notifies : Nat]
      /\ aLeft'.notifies = aLeft.notifies
      /\ aVal' \in [Waiter -> Value] /\ \A u \in Waiter : aPc[u] # "idle" => aVal'[u] = aVal[u]
      /\ aVer' \in [Waiter -> Nat] /\ \A u \in Waiter : aVer'[u] <= aVersion
      /\ aPc' = [aPc EXCEPT ![w] = aPc'[w]] /\ aPc'[w] \in WaiterLabels
      /\ aPc'[w] = "asleep" => aPc[w] \in {"check", "sleep"} /\ (IsNative \/ IsCondvar => aVal[w] = aValue)
      /\ IsCondvar /\ aPc'[w] = "asleep" => aPc[w] = "check"
  BY WaiterFacts
<1>2. /\ aPc' \in [Waiter \cup Notifier -> WaiterLabels \cup NotifierLabels]
      /\ \A u \in Waiter \ {w} : aPc'[u] = aPc[u]
      /\ \A n \in Notifier : aPc'[n] = aPc[n]
      /\ Bumping' = Bumping
  BY <1>1, WaiterGoes DEF WaitInv
<1>3. CASE IsNative
  <2>1. aAnnounced' = Cardinality(Sleepers')
    <3>1. aAnnounced = Cardinality(Sleepers) /\ Cardinality(Sleepers) \in Nat
      BY <1>3, WaitFinite DEF WaitInv, WaitCounts
    <3>2. CASE aPc[w] = "announce" /\ aPc'[w] = "sleep" /\ aAnnounced' = aAnnounced + 1
      <4>1. w \notin Sleepers
        BY <3>2 DEF Sleepers
      <4> QED BY <1>1, <3>1, <3>2, <4>1, WaiterGoes DEF WaitInv
    <3>3. CASE aPc[w] = "woken" /\ aPc'[w] = "test" /\ aAnnounced' = aAnnounced - 1
      <4>1. w \in Sleepers
        BY <3>3 DEF Sleepers
      <4> QED BY <1>1, <3>1, <3>3, <4>1, WaiterGoes DEF WaitInv
    <3>4. CASE /\ aAnnounced' = aAnnounced
               /\ (aPc'[w] \in {"sleep", "asleep", "woken"}) <=> w \in Sleepers
      <4>1. Sleepers' = Sleepers
        BY <1>1, <3>4, WaiterGoes DEF WaitInv
      <4> QED BY <3>1, <3>4, <4>1
    <3> QED BY <1>3, <3>2, <3>3, <3>4, WaiterAnnounces
  <2>2. Sleepers' \subseteq Waiter
    BY DEF Sleepers
  <2>3. aAnnounced' \in Nat
    BY <2>1, <2>2, FS_Subset, FS_CardinalityType DEF WaitAssumption
  <2>4. WaitTypes' /\ WaitCounts'
    BY <1>1, <1>2, <1>3, <2>1, <2>3 DEF WaitInv, WaitTypes, WaitCounts, IsNative, WaiterLabels, NotifierLabels
  <2>5. NativeRemembers'
    BY <1>1, <1>2, <1>3 DEF WaitInv, WaitRemembers, NativeRemembers, Someone
  <2>6. ~IsCondvar /\ ~IsCondvar'
    BY <1>3 DEF IsNative, IsCondvar
  <2> QED BY <2>4, <2>5, <2>6 DEF WaitInv, WaitLock, WaitRemembers
<1>4. CASE ~IsNative
  <2>1. aAnnounced' = IF aPc[w] = "announce" THEN 1 ELSE aAnnounced
    BY <1>4, WaiterAnnounces
  <2>2. aAnnounced \in {0, 1} /\ aAnnounced' \in {0, 1}
    BY <1>4, <2>1 DEF WaitInv, WaitCounts
  <2>3. WaitTypes' /\ WaitCounts'
    BY <1>1, <1>2, <1>4, <2>2 DEF WaitInv, WaitTypes, WaitCounts, IsNative, WaiterLabels, NotifierLabels
  <2>4. ASSUME IsCondvar
        PROVE  (\A u \in Waiter : (aLock' = u) <=> aPc'[u] \in {"announce", "check"}) /\ CondvarRemembers'
    <3>1. \/ aPc[w] = "lock" /\ aPc'[w] = "announce" /\ aLock = NoThread /\ aLock' = w
          \/ aPc[w] = "announce" /\ aPc'[w] = "check" /\ aLock' = aLock
          \/ aPc[w] = "check" /\ aPc'[w] \notin {"announce", "check"} /\ aLock' = NoThread
          \/ /\ aPc[w] \notin {"announce", "check"} /\ aPc'[w] \notin {"announce", "check"}
             /\ aLock' = aLock
      BY <2>4, WaiterAnnounces
    <3>2. \A u \in Waiter : (aLock = u) <=> aPc[u] \in {"announce", "check"}
      BY <2>4 DEF WaitInv, WaitLock
    <3>3. \A u \in Waiter : (aLock' = u) <=> aPc'[u] \in {"announce", "check"}
      BY <1>2, <3>1, <3>2 DEF WaitAssumption, Wait!ThreadAssumption
    <3>4. CondvarRemembers
      BY <2>4 DEF WaitInv, WaitRemembers
    <3>5. CondvarRemembers'
      <4>1. aAnnounced = 1 => aAnnounced' = 1
        BY <2>1
      <4>2. \A u \in Waiter : aPc'[u] = "check" => aAnnounced' = 1 \/ Someone({"barrier"})'
        BY <1>2, <2>1, <3>1, <3>4, <4>1 DEF CondvarRemembers, Someone
      <4>3. \A u \in Waiter : aPc'[u] = "asleep" => aAnnounced' = 1 \/ Someone({"barrier", "wake"})'
        BY <1>1, <1>2, <2>4, <3>4, <4>1 DEF CondvarRemembers, Someone
      <4>4. \A u \in Waiter : aPc'[u] = "asleep" =>
              \/ aValue' = aVal'[u]
              \/ Someone({"barrier", "wake"})'
              \/ aAnnounced' = 1 /\ Someone({"look", "take"})'
        <5>1. CASE aPc'[w] = "asleep"
          BY <1>1, <1>2, <2>4, <3>4, <4>1, <5>1 DEF CondvarRemembers, Someone
        <5>2. CASE aPc'[w] # "asleep"
          BY <1>1, <1>2, <2>4, <3>4, <4>1, <5>2 DEF CondvarRemembers, Someone
        <5> QED BY <5>1, <5>2
      <4> QED BY <4>2, <4>3, <4>4 DEF CondvarRemembers
    <3> QED BY <3>3, <3>5
  <2> QED BY <1>4, <2>3, <2>4 DEF WaitInv, WaitLock, WaitRemembers, IsNative, IsCondvar
<1> QED BY <1>3, <1>4

(* A notifier goes on, and the waiting threads stay where they are. *)
LEMMA NotifierGoes ==
  ASSUME WaitAssumption, WaitTypes, NEW n \in Notifier, NEW l \in NotifierLabels, aPc' = [aPc EXCEPT ![n] = l]
  PROVE  /\ aPc' \in [Waiter \cup Notifier -> WaiterLabels \cup NotifierLabels]
         /\ aPc'[n] = l
         /\ \A w \in Waiter : aPc'[w] = aPc[w]
         /\ \A m \in Notifier \ {n} : aPc'[m] = aPc[m]
         /\ Sleepers' = Sleepers
         /\ aPc[n] # "bump" /\ l # "bump" => Bumping' = Bumping
         /\ aPc[n] # "bump" /\ l = "bump" => Cardinality(Bumping') = Cardinality(Bumping) + 1
         /\ aPc[n] = "bump" /\ l # "bump" => Cardinality(Bumping') = Cardinality(Bumping) - 1
<1>1. aPc' \in [Waiter \cup Notifier -> WaiterLabels \cup NotifierLabels]
  BY DEF WaitTypes
<1>2. /\ aPc'[n] = l
      /\ \A w \in Waiter : aPc'[w] = aPc[w]
      /\ \A m \in Notifier \ {n} : aPc'[m] = aPc[m]
  BY DEF WaitTypes, WaitAssumption, Wait!ThreadAssumption
<1>3. Sleepers' = Sleepers
  BY <1>2 DEF Sleepers
<1>4. CASE aPc[n] # "bump" /\ l # "bump"
  <2>1. Bumping' = Bumping
    BY <1>2, <1>4 DEF Bumping
  <2> QED BY <1>1, <1>2, <1>3, <1>4, <2>1
<1>5. CASE aPc[n] # "bump" /\ l = "bump"
  <2>1. n \notin Bumping /\ Bumping' = Bumping \cup {n}
    BY <1>2, <1>5 DEF Bumping
  <2>2. Cardinality(Bumping') = Cardinality(Bumping) + 1
    BY <2>1, WaitFinite, MovedIn
  <2> QED BY <1>1, <1>2, <1>3, <1>5, <2>2
<1>6. CASE aPc[n] = "bump" /\ l # "bump"
  <2>1. n \in Bumping /\ Bumping' = Bumping \ {n}
    BY <1>2, <1>6 DEF Bumping
  <2>2. Cardinality(Bumping') = Cardinality(Bumping) - 1
    BY <2>1, WaitFinite, MovedOut
  <2> QED BY <1>1, <1>2, <1>3, <1>6, <2>2
<1>7. CASE aPc[n] = "bump" /\ l = "bump"
  BY <1>1, <1>2, <1>3, <1>7
<1> QED BY <1>4, <1>5, <1>6, <1>7

LEMMA NotifyKeeps ==
  ASSUME WaitAssumption, WaitInv, NEW n \in Notifier, Wait!Notify(n)
  PROVE  WaitInv'
<1> USE DEF Wait!Go, IsNative, IsCondvar
<1> DEFINE l == IF Variant = "version" THEN "bump" ELSE "look"
<1>1. /\ aPc[n] = "idle" /\ aLeft.notifies > 0 /\ aValue' \in Value
      /\ aLeft' = [aLeft EXCEPT !.notifies = @ - 1] /\ aPc' = [aPc EXCEPT ![n] = l]
      /\ UNCHANGED <<aAnnounced, aVersion, aLock, aVal, aVer>>
  BY DEF Wait!Notify
<1>2. l \in NotifierLabels
  BY DEF NotifierLabels, WaitAssumption, Wait!VariantAssumption
<1>3. aLeft' \in [waits : Nat, notifies : Nat] /\ aLeft'.notifies = aLeft.notifies - 1
  BY <1>1 DEF WaitInv, WaitTypes
<1>4. /\ aPc' \in [Waiter \cup Notifier -> WaiterLabels \cup NotifierLabels]
      /\ aPc'[n] = l
      /\ \A w \in Waiter : aPc'[w] = aPc[w]
      /\ \A m \in Notifier \ {n} : aPc'[m] = aPc[m]
      /\ Sleepers' = Sleepers
      /\ l # "bump" => Bumping' = Bumping
      /\ l = "bump" => Cardinality(Bumping') = Cardinality(Bumping) + 1
  BY <1>1, <1>2, NotifierGoes DEF WaitInv
<1> HIDE DEF l
<1>5. WaitTypes'
  BY <1>1, <1>2, <1>3, <1>4 DEF WaitInv, WaitTypes, WaiterLabels, NotifierLabels
<1>6. WaitCounts'
  BY <1>1, <1>3, <1>4, WaitFinite DEF WaitInv, WaitTypes, WaitCounts, WaitAssumption, Wait!BoundAssumption
<1>7. WaitLock'
  BY <1>1, <1>4 DEF WaitInv, WaitLock
<1>8. IsNative \/ IsCondvar => l = "look"
  BY DEF l
<1>9. NativeRemembers' \/ ~IsNative
  BY <1>4, <1>8 DEF NativeRemembers, Someone
<1>10. ASSUME IsCondvar PROVE CondvarRemembers'
  <2>1. CondvarRemembers
    BY <1>10 DEF WaitInv, WaitRemembers
  <2>2. /\ Someone({"barrier"})' <=> Someone({"barrier"})
        /\ Someone({"barrier", "wake"})' <=> Someone({"barrier", "wake"})
        /\ Someone({"look", "take"})'
    BY <1>1, <1>4, <1>8, <1>10 DEF Someone
  <2> HIDE DEF Someone
  <2> QED BY <1>1, <1>4, <2>1, <2>2 DEF CondvarRemembers
<1> QED BY <1>5, <1>6, <1>7, <1>9, <1>10 DEF WaitInv, WaitRemembers

LEMMA NotifierKeeps ==
  ASSUME WaitAssumption, WaitInv, NEW n \in Notifier,
         Wait!Bump(n) \/ Wait!Look(n) \/ Wait!Take(n) \/ Wait!LockUnlock(n)
  PROVE  WaitInv'
<1> USE DEF Wait!Go, IsNative, IsCondvar
<1>1. /\ UNCHANGED <<aValue, aLock, aVal, aVer, aLeft>>
      /\ aPc' = [aPc EXCEPT ![n] = aPc'[n]] /\ aPc'[n] \in NotifierLabels /\ aPc'[n] # "bump"
      /\ aVersion' = IF aPc[n] = "bump" THEN aVersion + 1 ELSE aVersion
      /\ aAnnounced' = IF aPc[n] = "take" THEN 0 ELSE aAnnounced
  <2> USE DEF WaitInv, WaitTypes, NotifierLabels, WaitAssumption, Wait!VariantAssumption
  <2>1. CASE Wait!Bump(n)
    BY <2>1 DEF Wait!Bump
  <2>2. CASE Wait!Look(n)
    BY <2>2 DEF Wait!Look
  <2>3. CASE Wait!Take(n)
    BY <2>3 DEF Wait!Take, Wait!AfterTake
  <2>4. CASE Wait!LockUnlock(n)
    BY <2>4 DEF Wait!LockUnlock
  <2> QED BY <2>1, <2>2, <2>3, <2>4
<1>2. /\ aPc' \in [Waiter \cup Notifier -> WaiterLabels \cup NotifierLabels]
      /\ \A w \in Waiter : aPc'[w] = aPc[w]
      /\ \A m \in Notifier \ {n} : aPc'[m] = aPc[m]
      /\ Sleepers' = Sleepers
      /\ aPc[n] # "bump" => Bumping' = Bumping
      /\ aPc[n] = "bump" => Cardinality(Bumping') = Cardinality(Bumping) - 1
  BY <1>1, NotifierGoes DEF WaitInv
<1>3. IsNative => aPc[n] # "take"
  BY DEF WaitInv, WaitTypes, NotifierLabels
<1>4. WaitTypes'
  BY <1>1, <1>2 DEF WaitInv, WaitTypes, WaiterLabels, NotifierLabels
<1>5. WaitCounts'
  <2>1. aVersion' + Cardinality(Bumping') + aLeft'.notifies = aVersion + Cardinality(Bumping) + aLeft.notifies
    BY <1>1, <1>2, WaitFinite DEF WaitInv, WaitTypes
  <2> QED BY <1>1, <1>2, <1>3, <2>1 DEF WaitInv, WaitCounts
<1>6. WaitLock'
  BY <1>1, <1>2 DEF WaitInv, WaitLock
<1>7. ASSUME IsNative PROVE NativeRemembers'
  <2>1. NativeRemembers /\ aAnnounced = Cardinality(Sleepers)
    BY <1>7 DEF WaitInv, WaitRemembers, WaitCounts
  <2>2. Wait!Look(n)
    BY <1>7 DEF Wait!Bump, Wait!Take, Wait!LockUnlock, WaitInv, WaitTypes, NotifierLabels
  <2>3. CASE aAnnounced = 0
    <3>1. Sleepers = {}
      BY <2>1, <2>3, WaitFinite, FS_EmptySet
    <3> QED BY <1>2, <3>1 DEF NativeRemembers, Sleepers
  <2>4. CASE aAnnounced # 0
    <3>1. aPc'[n] = "wake"
      BY <1>1, <1>7, <2>2, <2>4 DEF Wait!Look, WaitInv, WaitTypes
    <3> QED BY <3>1 DEF NativeRemembers, Someone
  <2> QED BY <2>3, <2>4
<1>8. ASSUME IsCondvar PROVE CondvarRemembers'
  <2>1. CondvarRemembers /\ aAnnounced \in {0, 1}
    BY <1>8 DEF WaitInv, WaitRemembers, WaitCounts
  <2>2. \A labels : (\E m \in Notifier \ {n} : aPc[m] \in labels) => Someone(labels)'
    BY <1>2 DEF Someone
  <2>3. CASE Wait!Look(n)
    <3>1. /\ aPc[n] = "look" /\ aAnnounced' = aAnnounced
          /\ aAnnounced = 1 => aPc'[n] = "take"
      BY <1>1, <1>8, <2>3 DEF Wait!Look, WaitInv, WaitTypes
    <3> QED BY <1>1, <1>2, <2>1, <3>1 DEF CondvarRemembers, Someone
  <2>4. CASE Wait!Take(n)
    <3>1. /\ aPc[n] = "take" /\ aAnnounced' = 0
          /\ aAnnounced = 1 => aPc'[n] = "barrier"
      BY <1>1, <1>8, <2>4 DEF Wait!Take, Wait!AfterTake, WaitInv, WaitTypes
    <3>2. CASE aAnnounced = 1
      BY <1>2, <3>1, <3>2 DEF CondvarRemembers, Someone
    <3>3. CASE aAnnounced # 1
      BY <1>1, <1>2, <2>1, <3>1, <3>3 DEF CondvarRemembers, Someone
    <3> QED BY <3>2, <3>3
  <2>5. CASE Wait!LockUnlock(n)
    <3>1. aPc[n] = "barrier" /\ aPc'[n] = "wake" /\ aLock = NoThread
      BY <1>1, <2>5 DEF Wait!LockUnlock, WaitInv, WaitTypes
    <3>2. \A w \in Waiter : aPc'[w] # "check"
      BY <1>2, <1>8, <3>1 DEF WaitInv, WaitLock, WaitAssumption, Wait!ThreadAssumption
    <3> QED BY <3>1, <3>2 DEF CondvarRemembers, Someone
  <2>6. ~Wait!Bump(n)
    BY <1>8 DEF Wait!Bump, WaitInv, WaitTypes, NotifierLabels
  <2> QED BY <2>3, <2>4, <2>5, <2>6
<1> QED BY <1>4, <1>5, <1>6, <1>7, <1>8 DEF WaitInv, WaitRemembers

LEMMA WakeKeeps ==
  ASSUME WaitAssumption, WaitInv, NEW n \in Notifier, Wait!Wake(n)
  PROVE  WaitInv'
<1>1. /\ aPc[n] = "wake" /\ UNCHANGED <<aValue, aAnnounced, aVersion, aLock, aVal, aVer, aLeft>>
      /\ aPc' = [t \in DOMAIN aPc |-> IF t = n THEN "idle" ELSE IF t \in Wait!Asleep THEN "woken" ELSE aPc[t]]
  BY DEF Wait!Wake
<1>2. DOMAIN aPc = Waiter \cup Notifier
  BY DEF WaitInv, WaitTypes
<1>3. /\ \A w \in Waiter : aPc'[w] = IF aPc[w] = "asleep" THEN "woken" ELSE aPc[w]
      /\ \A m \in Notifier : aPc'[m] = IF m = n THEN "idle" ELSE aPc[m]
  BY <1>1, <1>2 DEF Wait!Asleep, WaitAssumption, Wait!ThreadAssumption
<1>4. aPc' \in [Waiter \cup Notifier -> WaiterLabels \cup NotifierLabels]
  BY <1>1, <1>2 DEF WaitInv, WaitTypes, WaiterLabels, NotifierLabels
<1>5. WaitTypes'
  BY <1>1, <1>3, <1>4 DEF WaitInv, WaitTypes, WaiterLabels, NotifierLabels, IsNative, IsCondvar
<1>6. Sleepers' = Sleepers /\ Bumping' = Bumping
  BY <1>1, <1>3 DEF Sleepers, Bumping
<1>7. WaitCounts'
  BY <1>1, <1>6 DEF WaitInv, WaitCounts, IsNative
<1>8. WaitLock'
  BY <1>1, <1>3 DEF WaitInv, WaitLock, IsCondvar
<1>9. \A w \in Waiter : aPc'[w] # "asleep"
  BY <1>3
<1>10. NativeRemembers'
  BY <1>9 DEF NativeRemembers
<1>11. CondvarRemembers \/ ~IsCondvar
  BY DEF WaitInv, WaitRemembers
<1>12. Someone({"barrier"}) => Someone({"barrier"})'
  BY <1>1, <1>3 DEF Someone
<1>13. CondvarRemembers' \/ ~IsCondvar
  BY <1>1, <1>3, <1>9, <1>11, <1>12 DEF CondvarRemembers
<1> QED BY <1>5, <1>7, <1>8, <1>10, <1>13 DEF WaitInv, WaitRemembers, IsNative, IsCondvar

LEMMA WaitInit == WaitAssumption /\ Wait!Init => WaitInv
<1> SUFFICES ASSUME WaitAssumption, Wait!Init PROVE WaitInv
  OBVIOUS
<1>1. Sleepers = {} /\ Bumping = {}
  BY DEF Wait!Init, Sleepers, Bumping
<1>2. Cardinality(Sleepers) = 0 /\ Cardinality(Bumping) = 0
  BY <1>1, FS_EmptySet
<1>3. WaitTypes
  BY DEF Wait!Init, WaitTypes, WaiterLabels, NotifierLabels, WaitAssumption, Wait!BoundAssumption
<1>4. WaitCounts
  BY <1>2 DEF Wait!Init, WaitCounts, WaitAssumption, Wait!BoundAssumption
<1>5. WaitLock /\ WaitRemembers
  BY DEF Wait!Init, WaitLock, WaitRemembers, NativeRemembers, CondvarRemembers, WaitAssumption, Wait!ThreadAssumption
<1> QED BY <1>3, <1>4, <1>5 DEF WaitInv

LEMMA WaitStep ==
  ASSUME WaitAssumption, WaitInv, [Wait!Next]_(Wait!vars)
  PROVE  WaitInv'
<1>1. CASE UNCHANGED Wait!vars
  BY <1>1 DEF Wait!vars, WaitInv, WaitTypes, WaitCounts, WaitLock, WaitRemembers, NativeRemembers, CondvarRemembers,
              Someone, Sleepers, Bumping, IsNative, IsCondvar, WaiterLabels, NotifierLabels
<1>2. CASE Wait!Next
  BY <1>2, WaiterKeeps, NotifyKeeps, NotifierKeeps, WakeKeeps DEF Wait!Next, Wait!NotifierStep
<1> QED BY <1>1, <1>2

LEMMA WaitMeans == WaitAssumption /\ WaitInv => Wait!TypeOK /\ (IsNative \/ IsCondvar => Wait!NoneForgotten)
<1> SUFFICES ASSUME WaitAssumption, WaitInv
             PROVE  Wait!TypeOK /\ (IsNative \/ IsCondvar => Wait!NoneForgotten)
  OBVIOUS
<1>1. aVersion \in 0..Notifies
  BY WaitFinite DEF WaitInv, WaitTypes, WaitCounts, WaitAssumption, Wait!BoundAssumption
<1>2. Wait!TypeOK
  BY <1>1, LockCardinality DEF WaitInv, WaitTypes, WaitCounts, WaitLock, Wait!TypeOK, IsNative, IsCondvar, Sleepers
<1>3. IsNative \/ IsCondvar => Wait!NoneForgotten
  BY DEF WaitInv, WaitRemembers, NativeRemembers, CondvarRemembers, Someone, Wait!NoneForgotten, Wait!Asleep
<1> QED BY <1>2, <1>3

(* The variant with versions: a store is counted before the notifier goes  *)
(* on, and a thread looks at the value after it has read the version.      *)
IsVersion == Variant = "version"

VersionRemembers == IsVersion => Wait!VersionTells

LEMMA WaiterSeesVersion ==
  ASSUME WaitAssumption, WaitInv, VersionRemembers, NEW w \in Waiter, Wait!Wait(w) \/ Wait!WaiterStep(w)
  PROVE  VersionRemembers'
<1> SUFFICES ASSUME IsVersion, \A n \in Notifier : aPc'[n] # "bump",
                    NEW u \in Waiter, aPc'[u] \in {"sleep", "asleep"}, aVer'[u] = aVersion'
             PROVE  aValue' = aVal'[u]
  BY DEF VersionRemembers, IsVersion, Wait!VersionTells
<1>1. /\ aPc \in [Waiter \cup Notifier -> WaiterLabels \cup NotifierLabels]
      /\ aVal \in [Waiter -> Value] /\ aVer \in [Waiter -> Nat]
  BY DEF WaitInv, WaitTypes
<1>2. /\ UNCHANGED <<aValue, aVersion>> /\ aPc' = [aPc EXCEPT ![w] = aPc'[w]]
      /\ \A v \in Waiter : aPc[v] # "idle" => aVal'[v] = aVal[v]
  BY WaiterFacts
<1>3. (\A n \in Notifier : aPc[n] # "bump") /\ (u # w => aPc'[u] = aPc[u])
  BY <1>1, <1>2 DEF WaitAssumption, Wait!ThreadAssumption
<1>4. \A v \in Waiter : aPc[v] \in {"sleep", "asleep"} /\ aVer[v] = aVersion => aValue = aVal[v]
  BY <1>3 DEF VersionRemembers, Wait!VersionTells
<1>5. CASE u # w
  <2>1. aVer'[u] = aVer[u]
    BY <1>1, <1>5 DEF Wait!Wait, Wait!WaiterStep, Wait!Test, Wait!Lock, Wait!Announce, Wait!LoadVersion, Wait!Check,
                      Wait!FutexWait, Wait!TimeOut, Wait!Woken
  <2> QED BY <1>2, <1>3, <1>4, <1>5, <2>1
<1>6. CASE u = w /\ Wait!Check(w)
  <2>1. aPc[w] = "check" /\ aValue = aVal[w]
    BY <1>1, <1>6 DEF Wait!Check, Wait!StillThere, Wait!Go, IsVersion
  <2> QED BY <1>2, <1>6, <2>1
<1>7. CASE u = w /\ Wait!FutexWait(w)
  <2>1. aPc[w] = "sleep" /\ aVer'[w] = aVer[w]
    BY <1>7 DEF Wait!FutexWait
  <2> QED BY <1>2, <1>4, <1>7, <2>1
<1>8. CASE u = w /\ ~Wait!Check(w) /\ ~Wait!FutexWait(w)
  <2> USE <1>1, <1>8 DEF Wait!Go, IsVersion
  <2>1. ~Wait!Wait(w) /\ ~Wait!Test(w) /\ ~Wait!Lock(w)
    BY DEF Wait!Wait, Wait!Test, Wait!Lock
  <2>2. ~Wait!Announce(w) /\ ~Wait!LoadVersion(w) /\ ~Wait!TimeOut(w) /\ ~Wait!Woken(w)
    BY DEF Wait!Announce, Wait!LoadVersion, Wait!TimeOut, Wait!Woken
  <2> QED BY <2>1, <2>2 DEF Wait!WaiterStep
<1> QED BY <1>5, <1>6, <1>7, <1>8

LEMMA NotifierCountsVersion ==
  ASSUME WaitAssumption, WaitInv, VersionRemembers, NEW n \in Notifier, Wait!Notify(n) \/ Wait!NotifierStep(n)
  PROVE  VersionRemembers'
<1> SUFFICES ASSUME IsVersion, \A m \in Notifier : aPc'[m] # "bump",
                    NEW u \in Waiter, aPc'[u] \in {"sleep", "asleep"}, aVer'[u] = aVersion'
             PROVE  aValue' = aVal'[u]
  BY DEF VersionRemembers, IsVersion, Wait!VersionTells
<1>1. /\ aPc \in [Waiter \cup Notifier -> WaiterLabels \cup NotifierLabels] /\ Waiter \cap Notifier = {}
      /\ aVersion \in Nat /\ aVer \in [Waiter -> Nat] /\ aVer[u] <= aVersion
  BY DEF WaitInv, WaitTypes, WaitAssumption, Wait!ThreadAssumption
<1> USE <1>1 DEF Wait!Go, IsVersion
<1>2. ~Wait!Notify(n)
  BY DEF Wait!Notify
<1>3. ~Wait!Bump(n)
  BY DEF Wait!Bump
<1>4. ASSUME Wait!Look(n) \/ Wait!Take(n) \/ Wait!LockUnlock(n) \/ Wait!Wake(n)
      PROVE  /\ UNCHANGED <<aValue, aVal, aVersion, aVer>> /\ aPc[u] = aPc'[u]
             /\ \A m \in Notifier : aPc[m] # "bump"
  <2>1. CASE Wait!Look(n)
    BY <2>1 DEF Wait!Look
  <2>2. CASE Wait!Take(n)
    BY <2>2 DEF Wait!Take
  <2>3. CASE Wait!LockUnlock(n)
    BY <2>3 DEF Wait!LockUnlock
  <2>4. CASE Wait!Wake(n)
    BY <2>4 DEF Wait!Wake, Wait!Asleep
  <2> QED BY <1>4, <2>1, <2>2, <2>3, <2>4
<1> QED BY <1>2, <1>3, <1>4 DEF Wait!NotifierStep, VersionRemembers, Wait!VersionTells

LEMMA VersionStep ==
  ASSUME WaitAssumption, WaitInv, VersionRemembers, [Wait!Next]_(Wait!vars)
  PROVE  VersionRemembers'
<1>1. CASE UNCHANGED Wait!vars
  BY <1>1 DEF Wait!vars, VersionRemembers, IsVersion, Wait!VersionTells
<1>2. CASE Wait!Next
  BY <1>2, WaiterSeesVersion, NotifierCountsVersion DEF Wait!Next
<1> QED BY <1>1, <1>2

(* Every notifier takes part in the behaviours of the variant with versions. *)
AllNotify == IsVersion => VersionNotifier = Notifier

(* What the suite asks of atomic wait, for the variant in use. *)
LEMMA VariantsAgree ==
  ASSUME which = Variant, Wait!VariantAssumption,
         Wait!TypeOK, IsNative \/ IsCondvar => Wait!NoneForgotten, VersionRemembers,
         AllNotify
  PROVE  WakeUpNotLost
<1>1. \A S : /\ Wait!Cardinality(S) = Native!Cardinality(S) /\ Wait!Cardinality(S) = Condvar!Cardinality(S)
             /\ Wait!Cardinality(S) = Version!Cardinality(S)
  BY DEF Wait!Cardinality, Native!Cardinality, Condvar!Cardinality, Version!Cardinality
<1>2. CASE Variant = "native"
  BY <1>1, <1>2 DEF WakeUpNotLost, AnnouncedCounted, IsNative, Wait!TypeOK, Native!TypeOK,
                    Wait!NoneForgotten, Native!NoneForgotten, Wait!Asleep, Native!Asleep
<1>3. CASE Variant = "condvar"
  BY <1>1, <1>3 DEF WakeUpNotLost, AnnouncedCounted, IsCondvar, Wait!TypeOK, Condvar!TypeOK,
                    Wait!NoneForgotten, Condvar!NoneForgotten, Wait!Asleep, Condvar!Asleep
<1>4. CASE Variant = "version"
  <2>1. Version!VersionTells
    BY <1>4 DEF VersionRemembers, IsVersion, Wait!VersionTells, Version!VersionTells, AllNotify
  <2> QED BY <1>1, <1>4, <2>1 DEF WakeUpNotLost, AnnouncedCounted, Wait!TypeOK, Version!TypeOK
<1> QED BY <1>2, <1>3, <1>4 DEF Wait!VariantAssumption

LEMMA WaitPromise ==
  Wait!VariantAssumption /\ AllNotify => (Wait!Spec /\ [](which = Variant) => []WakeUpNotLost)
<1> SUFFICES ASSUME Wait!VariantAssumption, AllNotify
             PROVE  Wait!Spec /\ [](which = Variant) => []WakeUpNotLost
  OBVIOUS
<1>0. WaitAssumption
  BY SuiteAssumption
  DEF WaitAssumption, AtomicAssumption, Native!ThreadAssumption, Wait!ThreadAssumption,
      Condvar!BoundAssumption, Wait!BoundAssumption
<1>1. Wait!Init => WaitInv /\ VersionRemembers
  BY <1>0, WaitInit DEF Wait!Init, VersionRemembers, IsVersion, Wait!VersionTells, WaitAssumption, Wait!ThreadAssumption
<1>2. WaitInv /\ VersionRemembers /\ [Wait!Next]_(Wait!vars) => WaitInv' /\ VersionRemembers'
  BY <1>0, WaitStep, VersionStep
<1>3. WaitInv /\ VersionRemembers /\ which = Variant => WakeUpNotLost
  BY <1>0, WaitMeans, VariantsAgree
<1> QED BY <1>1, <1>2, <1>3, PTL DEF Wait!Spec

(* The variants that sleep on the atomic and on a condition variable, for  *)
(* any number of waiting and notifying threads and any values: once the    *)
(* notifications are over nobody sleeps whose value is gone.               *)
THEOREM WaitLosesNothing ==
  Variant \in {"native", "condvar"} /\ Timed \in BOOLEAN =>
    (Wait!Spec /\ [](which = Variant) => []WakeUpNotLost)
BY WaitPromise DEF Wait!VariantAssumption, AllNotify, IsVersion

(* The variant with versions, which may lose a wake-up (disagreement 9 of  *)
(* the README): who sleeps, or is about to, on a value that is gone has an *)
(* old version, unless a notifier is still about to count it up.           *)
THEOREM VersionTellsOfStores ==
  Variant = "version" /\ Timed \in BOOLEAN /\ VersionNotifier = Notifier =>
    (Wait!Spec /\ [](which = Variant) => []WakeUpNotLost)
BY WaitPromise DEF Wait!VariantAssumption, AllNotify
=============================================================================
