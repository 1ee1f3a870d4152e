--------------------------- MODULE SemaphoreProofs ---------------------------
(***************************************************************************)
(* The semaphores and the latch, for any number of threads, any max() and  *)
(* any arguments: the counting and the binary semaphore implement the      *)
(* abstract one, who passes a latch has it open, and the native semaphore  *)
(* loses no permit and strands none.                                       *)
(*                                                                         *)
(* The invariants that are needed.  Counting semaphore: a thread about to  *)
(* compare_exchange holds a value above zero, so that a success takes a    *)
(* permit that is there, and a thread that has given an attempt up has met *)
(* an empty semaphore, so that a false result is one the abstract          *)
(* semaphore allows.  Those of the others are stated before their proofs.  *)
(***************************************************************************)
EXTENDS MCSemaphores, FiniteSetTheorems, TLAPS

(* Initially nobody is in a call. *)
LEMMA InitInv == Init => CountInv
BY CountAssumption, CallsAssumption
DEF Init, CountInv, TypeOK, GivesUpOnlyWhenEmpty, EmptyIsSeen, Kinds, Labels

(* What the history tells after a step: a call that goes on keeps what it  *)
(* has seen, and every call sees an empty semaphore.                       *)
LEMMA WatchFacts ==
  ASSUME CountInv, Watch
  PROVE  /\ empty' \in [Thread -> BOOLEAN]
         /\ EmptyIsSeen'
         /\ \A u \in Thread : pc[u] # "idle" /\ pc'[u] # "idle" /\ empty[u] => empty'[u]
<1>1. empty' \in [Thread -> BOOLEAN]
  BY Zenon DEF Watch, CountInv, TypeOK
<1>2. ASSUME NEW u \in Thread
      PROVE  empty'[u] = IF pc'[u] = "idle" THEN FALSE
                         ELSE (pc[u] # "idle" /\ empty[u]) \/ count' = 0
  BY Zenon DEF Watch
<1>3. EmptyIsSeen'
  BY <1>2, Zenon DEF EmptyIsSeen
<1>4. \A u \in Thread : pc[u] # "idle" /\ pc'[u] # "idle" /\ empty[u] => empty'[u]
  BY <1>2, Zenon
<1> QED BY <1>1, <1>3, <1>4

(* Giving an attempt up keeps the invariant when the semaphore is empty. *)
LEMMA FailInv ==
  ASSUME CountInv, NEW t \in Thread, count = 0, pc[t] # "idle",
         Fail(t), UNCHANGED <<count, calls>>, Watch
  PROVE  CountInv'
<1> USE WatchFacts
<1>1. CASE kind[t] = "try"
  <2>1. TypeOK' BY <1>1 DEF Fail, Return, CountInv, TypeOK, Kinds, Labels
  <2>2. GivesUpOnlyWhenEmpty'
    BY <1>1 DEF Fail, Return, CountInv, TypeOK, GivesUpOnlyWhenEmpty, Kinds, Labels
  <2> QED BY <2>1, <2>2 DEF CountInv
<1>2. CASE kind[t] # "try"
  <2>1. /\ pc'[t] \in {"waitload", "poll", "clock"}
        /\ pc'[t] = "waitload" <=> kind[t] = "acquire"
        /\ \A u \in Thread \ {t} : pc'[u] = pc[u]
        /\ pc' \in [Thread -> Labels]
    BY <1>2 DEF Fail, CountInv, TypeOK, Kinds, Labels
  <2>2. TypeOK' BY <1>2, <2>1 DEF Fail, CountInv, TypeOK, Kinds
  <2>3. empty'[t]
    BY <2>1 DEF EmptyIsSeen
  <2>4. GivesUpOnlyWhenEmpty'
    BY <1>2, <2>1, <2>3 DEF Fail, CountInv, TypeOK, GivesUpOnlyWhenEmpty, Kinds
  <2> QED BY <2>2, <2>4 DEF CountInv
<1> QED BY <1>1, <1>2

(* Going on with the value found keeps the invariant. *)
LEMMA WithInv ==
  ASSUME CountInv, NEW t \in Thread, pc[t] # "idle",
         With(t, count), UNCHANGED <<count, calls>>, Watch
  PROVE  CountInv'
<1>1. CASE Empty(count)
  BY <1>1, FailInv DEF With, Empty
<1>2. CASE ~Empty(count)
  <2>1. TypeOK'
    BY <1>2, WatchFacts DEF With, Goto, CountInv, TypeOK, Labels
  <2>2. GivesUpOnlyWhenEmpty'
    BY <1>2, WatchFacts DEF With, Empty, Goto, CountInv, TypeOK, GivesUpOnlyWhenEmpty
  <2> QED BY <2>1, <2>2 DEF CountInv
<1> QED BY <1>1, <1>2

(* Every step keeps the invariant. *)
LEMMA NextInv == CountInv /\ [Next]_vars => CountInv'
<1> SUFFICES ASSUME CountInv, [Next]_vars PROVE CountInv'
  OBVIOUS
<1>1. CASE UNCHANGED vars
  BY <1>1 DEF vars, CountInv, TypeOK, GivesUpOnlyWhenEmpty, EmptyIsSeen, Kinds, Labels
<1>2. ASSUME NEW t \in Thread, NEW k \in {"acquire", "try", "timed"}, Call(t, k) PROVE CountInv'
  <2>1. Watch BY <1>2 DEF Call
  <2>2. calls' \in 0..Calls BY <1>2, CallsAssumption DEF Call, CountInv, TypeOK
  <2>3. left' \in [Thread -> {"zero", "nonzero"}]
    BY <1>2, RemainingAssumption DEF Call, CountInv, TypeOK
  <2>4. TypeOK'
    BY <1>2, <2>1, <2>2, <2>3, WatchFacts DEF Call, CountInv, TypeOK, Kinds, Labels
  <2>5. GivesUpOnlyWhenEmpty'
    BY <1>2, <2>1, WatchFacts DEF Call, CountInv, TypeOK, GivesUpOnlyWhenEmpty
  <2> QED BY <2>4, <2>5 DEF CountInv
<1>3. ASSUME NEW t \in Thread, NEW n \in Batch, Release(t, n) PROVE CountInv'
  <2>1. Watch BY <1>3 DEF Release
  <2>2. count' \in 0..MaxCount /\ calls' \in 0..Calls
    BY <1>3, CountAssumption, BatchAssumption, CallsAssumption DEF Release, CountInv, TypeOK
  <2>3. TypeOK'
    BY <1>3, <2>1, <2>2, WatchFacts DEF Release, CountInv, TypeOK
  <2>4. GivesUpOnlyWhenEmpty'
    BY <1>3, <2>1, WatchFacts DEF Release, CountInv, TypeOK, GivesUpOnlyWhenEmpty
  <2> QED BY <2>3, <2>4 DEF CountInv
<1>4. ASSUME NEW t \in Thread, LoadCount(t) PROVE CountInv'
  BY <1>4, WithInv DEF LoadCount
<1>5. ASSUME NEW t \in Thread, CasSucceeds(t) PROVE CountInv'
  <2>1. Watch BY <1>5 DEF CasSucceeds
  <2>2. old[t] \in 1..MaxCount
    BY <1>5, CountAssumption DEF CasSucceeds, CountInv, TypeOK, GivesUpOnlyWhenEmpty
  <2>3. TypeOK'
    BY <1>5, <2>1, <2>2, CountAssumption, WatchFacts DEF CasSucceeds, Return, CountInv, TypeOK, Kinds, Labels
  <2>4. GivesUpOnlyWhenEmpty'
    BY <1>5, <2>1, WatchFacts DEF CasSucceeds, Return, CountInv, TypeOK, GivesUpOnlyWhenEmpty
  <2> QED BY <2>3, <2>4 DEF CountInv
<1>6. ASSUME NEW t \in Thread, CasFails(t) PROVE CountInv'
  BY <1>6, WithInv DEF CasFails, Retries
<1>7. ASSUME NEW t \in Thread, WaitLoad(t) PROVE CountInv'
  <2>1. Watch BY <1>7 DEF WaitLoad
  <2>2. TypeOK'
    BY <1>7, <2>1, WatchFacts DEF WaitLoad, Goto, CountInv, TypeOK, Labels
  <2>3. GivesUpOnlyWhenEmpty'
    BY <1>7, <2>1, WatchFacts DEF WaitLoad, Sleeps, Goto, CountInv, TypeOK, GivesUpOnlyWhenEmpty
  <2> QED BY <2>2, <2>3 DEF CountInv
<1>8. ASSUME NEW t \in Thread, Wake(t) PROVE CountInv'
  <2>1. Watch BY <1>8 DEF Wake
  <2> QED BY <1>8, <2>1, WatchFacts DEF Wake, Goto, CountInv, TypeOK, GivesUpOnlyWhenEmpty, Labels
<1>9. ASSUME NEW t \in Thread, PollAgain(t) PROVE CountInv'
  <2>1. Watch BY <1>9 DEF PollAgain
  <2> QED BY <1>9, <2>1, WatchFacts DEF PollAgain, Goto, CountInv, TypeOK, GivesUpOnlyWhenEmpty, Labels
<1>10. ASSUME NEW t \in Thread, Timeout(t) PROVE CountInv'
  <2>1. Watch BY <1>10 DEF Timeout
  <2>2. TypeOK'
    BY <1>10, <2>1, CountAssumption, WatchFacts DEF Timeout, Return, CountInv, TypeOK, Kinds, Labels
  <2>3. GivesUpOnlyWhenEmpty'
    BY <1>10, <2>1, WatchFacts DEF Timeout, Return, CountInv, TypeOK, GivesUpOnlyWhenEmpty
  <2> QED BY <2>2, <2>3 DEF CountInv
<1> QED
  BY <1>1, <1>2, <1>3, <1>4, <1>5, <1>6, <1>7, <1>8, <1>9, <1>10 DEF Next, ThreadStep

(* The count stays within 0..max() and no attempt is given up without the  *)
(* semaphore having been empty: "fail only if not __available".            *)
THEOREM SemaphoreCorrect == Spec => []CountInv
<1> QED BY InitInv, NextInv, PTL DEF Spec

-----------------------------------------------------------------------------
(* A step of one thread that leaves the permits and its mode alone is a    *)
(* stutter of the abstract semaphore.                                      *)
LEMMA Stutter ==
  ASSUME CountInv, NEW t \in Thread, Watch, count' = count,
         NEW p, NEW k, pc' = [pc EXCEPT ![t] = p], kind' = [kind EXCEPT ![t] = k],
         pc[t] # "idle", p # "idle", kind[t] = "acquire" <=> k = "acquire"
  PROVE  UNCHANGED Abs!semVars
<1>1. \A u \in Thread : ModeOf(u)' = ModeOf(u)
  BY DEF ModeOf, CountInv, TypeOK
<1>2. empty' = empty
  BY DEF Watch, CountInv, TypeOK, GivesUpOnlyWhenEmpty, EmptyIsSeen
<1> QED BY <1>1, <1>2 DEF Abs!semVars

(* The history of the model is that of the abstract semaphore. *)
LEMMA SameWatch ==
  ASSUME CountInv, CountInv', Watch
  PROVE  Abs!Watch
<1>1. \A u \in Thread : (ModeOf(u) = "out" <=> pc[u] = "idle") /\ (ModeOf(u)' = "out" <=> pc'[u] = "idle")
  BY DEF ModeOf
<1> QED BY <1>1 DEF Watch, Abs!Watch

(* A call that returns empty-handed is a failure the abstract semaphore    *)
(* allows.                                                                 *)
LEMMA ReturnFails ==
  ASSUME CountInv, CountInv', NEW t \in Thread, Return(t), Watch, count' = count,
         pc[t] # "idle", kind[t] # "acquire", empty[t]
  PROVE  Abs!SemFail(t)
<1>1. [u \in Thread |-> ModeOf(u)]' = [[u \in Thread |-> ModeOf(u)] EXCEPT ![t] = "out"]
  BY DEF Return, ModeOf, CountInv, TypeOK
<1>2. ModeOf(t) = "trying"
  BY DEF ModeOf
<1> QED BY <1>1, <1>2, SameWatch DEF Abs!SemFail

(* Giving up an attempt. *)
LEMMA FailStep ==
  ASSUME CountInv, CountInv', NEW t \in Thread, count = 0, pc[t] # "idle", Fail(t), count' = count, Watch
  PROVE  [Abs!SemNext]_(Abs!semVars)
<1>1. CASE kind[t] = "try"
  BY <1>1, ReturnFails DEF Fail, CountInv, GivesUpOnlyWhenEmpty, EmptyIsSeen, Abs!SemNext
<1>2. CASE kind[t] # "try"
  <2>1. PICK p : p # "idle" /\ pc' = [pc EXCEPT ![t] = p]
    BY <1>2 DEF Fail, CountInv, TypeOK, Kinds
  <2>2. PICK k : /\ kind' = [kind EXCEPT ![t] = k]
                 /\ kind[t] = "acquire" <=> k = "acquire"
    BY <1>2 DEF Fail, CountInv, TypeOK
  <2> QED BY <2>1, <2>2, Stutter
<1> QED BY <1>1, <1>2

LEMMA WithStep ==
  ASSUME CountInv, CountInv', NEW t \in Thread, pc[t] # "idle", With(t, count), count' = count, Watch
  PROVE  [Abs!SemNext]_(Abs!semVars)
<1>1. CASE Empty(count)
  BY <1>1, FailStep DEF With, Empty
<1>2. CASE ~Empty(count)
  <2>1. pc' = [pc EXCEPT ![t] = "cas"] /\ kind' = [kind EXCEPT ![t] = kind[t]]
    BY <1>2 DEF With, Goto, CountInv, TypeOK
  <2> QED BY <2>1, Stutter
<1> QED BY <1>1, <1>2

(* Every step of the semaphore is one of the abstract semaphore's, or none. *)
LEMMA StepImplements == CountInv /\ CountInv' /\ [Next]_vars => [Abs!SemNext]_(Abs!semVars)
<1> SUFFICES ASSUME CountInv, CountInv', [Next]_vars PROVE [Abs!SemNext]_(Abs!semVars)
  OBVIOUS
<1>1. CASE UNCHANGED vars
  BY <1>1 DEF vars, Abs!semVars, ModeOf
<1>2. ASSUME NEW t \in Thread, NEW k \in {"acquire", "try", "timed"}, Call(t, k)
      PROVE  [Abs!SemNext]_(Abs!semVars)
  <2>1. PICK m \in {"blocking", "trying"} :
          [u \in Thread |-> ModeOf(u)]' = [[u \in Thread |-> ModeOf(u)] EXCEPT ![t] = m]
    <3>1. [u \in Thread |-> ModeOf(u)]'
            = [[u \in Thread |-> ModeOf(u)] EXCEPT
                 ![t] = IF k = "acquire" THEN "blocking" ELSE "trying"]
      BY <1>2 DEF Call, ModeOf, CountInv, TypeOK
    <3> QED BY <3>1
  <2>2. ModeOf(t) = "out" /\ Abs!Watch /\ count' = count
    BY <1>2, SameWatch DEF Call, ModeOf
  <2>3. Abs!SemCall(t) BY <2>1, <2>2 DEF Abs!SemCall
  <2> QED BY <2>3 DEF Abs!SemNext
<1>3. ASSUME NEW t \in Thread, NEW n \in Batch, Release(t, n)
      PROVE  [Abs!SemNext]_(Abs!semVars)
  <2>1. n \in 1..MaxCount /\ count' = count + n /\ count + n <= MaxCount
    BY <1>3, BatchAssumption, CountAssumption DEF Release, CountInv, TypeOK
  <2>2. [u \in Thread |-> ModeOf(u)]' = [u \in Thread |-> ModeOf(u)]
    BY <1>3 DEF Release, ModeOf
  <2>3. Abs!SemGive(n)
    BY <1>3, <2>1, <2>2, SameWatch DEF Release, Abs!SemGive
  <2> QED BY <2>1, <2>3 DEF Abs!SemNext
<1>4. ASSUME NEW t \in Thread, LoadCount(t) PROVE [Abs!SemNext]_(Abs!semVars)
  BY <1>4, WithStep DEF LoadCount
<1>5. ASSUME NEW t \in Thread, CasSucceeds(t) PROVE [Abs!SemNext]_(Abs!semVars)
  <2>1. [u \in Thread |-> ModeOf(u)]' = [[u \in Thread |-> ModeOf(u)] EXCEPT ![t] = "out"]
    BY <1>5 DEF CasSucceeds, Return, ModeOf, CountInv, TypeOK
  <2>2. count > 0 /\ count' = count - 1 /\ ModeOf(t) # "out"
    BY <1>5 DEF CasSucceeds, CasMatches, ModeOf, CountInv, TypeOK, GivesUpOnlyWhenEmpty
  <2>3. Abs!SemTake(t)
    BY <1>5, <2>1, <2>2, SameWatch DEF CasSucceeds, Abs!SemTake
  <2> QED BY <2>3 DEF Abs!SemNext
<1>6. ASSUME NEW t \in Thread, CasFails(t) PROVE [Abs!SemNext]_(Abs!semVars)
  BY <1>6, WithStep DEF CasFails, Retries
<1>7. ASSUME NEW t \in Thread, WaitLoad(t) \/ Wake(t) \/ PollAgain(t)
      PROVE  [Abs!SemNext]_(Abs!semVars)
  <2>1. PICK p : p # "idle" /\ pc' = [pc EXCEPT ![t] = p]
    BY <1>7 DEF WaitLoad, Wake, PollAgain, Goto
  <2>2. kind' = [kind EXCEPT ![t] = kind[t]]
    BY <1>7 DEF WaitLoad, Wake, PollAgain, Goto, CountInv, TypeOK
  <2>3. pc[t] # "idle" /\ Watch /\ count' = count
    BY <1>7 DEF WaitLoad, Wake, PollAgain
  <2> QED BY <2>1, <2>2, <2>3, Stutter
<1>8. ASSUME NEW t \in Thread, Timeout(t) PROVE [Abs!SemNext]_(Abs!semVars)
  BY <1>8, ReturnFails DEF Timeout, CountInv, GivesUpOnlyWhenEmpty, Abs!SemNext
<1> QED
  BY <1>1, <1>2, <1>3, <1>4, <1>5, <1>6, <1>7, <1>8 DEF Next, ThreadStep

(* The loop of compare_exchange, the polling of the timed calls and the    *)
(* sleeping of acquire implement the abstract semaphore.                   *)
THEOREM SemaphoreImplements == Spec => Implements
<1>1. Init => \E n \in 0..MaxCount : Abs!SemInit(n)
  BY CountAssumption DEF Init, Abs!SemInit, ModeOf
<1>2. CountInv /\ CountInv' /\ [Next]_vars => [Abs!SemNext]_(Abs!semVars)
  BY StepImplements
<1>3. Spec => []CountInv
  BY InitInv, NextInv, PTL DEF Spec
<1> QED BY <1>1, <1>2, <1>3, PTL DEF Spec, Implements, Abs!SemSpec

-----------------------------------------------------------------------------
(* The binary semaphore: where the one permit is, and what a call has seen *)
(* that is about to give up.                                               *)
OneHolder ==
  /\ \A t \in Thread : t \in bHolders <=> bPc[t] = "held"
  /\ bAvailable = 1 => bOpened /\ bHolders = {}
  /\ bAvailable = 0 /\ bOpened => \E t \in Thread : bHolders = {t}
  /\ ~bOpened => bHolders = {}

BinarySeen ==
  /\ \A t \in Thread : bPc[t] = "clock" => bKind[t] = "polling" /\ bEmpty[t]
  /\ \A t \in Thread : bPc[t] \in {"idle", "held"} => ~bEmpty[t]
  /\ \A t \in Thread : bAvailable = 0 /\ bPc[t] \notin {"idle", "held"} => bEmpty[t]

BinaryInv == B!TypeOK /\ OneHolder /\ BinarySeen

LEMMA BinaryCardinality == \A S : B!Cardinality(S) = Cardinality(S)
BY DEF B!Cardinality, Cardinality

LEMMA BinaryPermit == B!TypeOK /\ OneHolder => B!OnePermit
<1> SUFFICES ASSUME B!TypeOK, OneHolder PROVE B!OnePermit
  OBVIOUS
<1>1. CASE bAvailable = 1
  BY <1>1, FS_EmptySet, BinaryCardinality DEF OneHolder, B!OnePermit
<1>2. CASE bAvailable = 0 /\ bOpened
  BY <1>2, FS_Singleton, BinaryCardinality DEF OneHolder, B!OnePermit
<1>3. CASE bAvailable = 0 /\ ~bOpened
  BY <1>3 DEF OneHolder, B!OnePermit
<1> QED BY <1>1, <1>2, <1>3 DEF B!TypeOK

LEMMA BinaryInit == B!InitialAssumption /\ B!Init => BinaryInv
<1> SUFFICES ASSUME B!InitialAssumption, B!Init PROVE BinaryInv
  OBVIOUS
<1>1. bOpened \in BOOLEAN /\ (bOpened <=> First = 1)
  BY Zenon DEF B!Init
<1>2. B!TypeOK
  BY <1>1, CallsAssumption DEF B!InitialAssumption, B!Init, B!TypeOK
<1>3. OneHolder /\ BinarySeen
  BY <1>1 DEF B!InitialAssumption, B!Init, OneHolder, BinarySeen
<1> QED BY <1>2, <1>3 DEF BinaryInv

LEMMA BinaryWatch ==
  ASSUME B!TypeOK, B!Watch
  PROVE  /\ bEmpty' \in [Thread -> BOOLEAN]
         /\ \A u \in Thread : bAvailable' = 0 /\ bPc'[u] \notin {"idle", "held"} => bEmpty'[u]
         /\ \A u \in Thread : bPc[u] # "idle" /\ bPc'[u] \notin {"idle", "held"} /\ bEmpty[u] => bEmpty'[u]
         /\ \A u \in Thread : bPc'[u] \in {"idle", "held"} => ~bEmpty'[u]
         /\ \A u \in Thread : bEmpty'[u] => bAvailable' = 0 \/ bEmpty[u]
<1>1. bEmpty' \in [Thread -> BOOLEAN]
  BY Zenon DEF B!Watch, B!TypeOK
<1>2. ASSUME NEW u \in Thread
      PROVE  bEmpty'[u] = IF bPc'[u] \in {"idle", "held"} THEN FALSE
                          ELSE (bPc[u] # "idle" /\ bEmpty[u]) \/ bAvailable' = 0
  BY Zenon DEF B!Watch
<1> QED BY <1>1, <1>2, Zenon

LEMMA BinaryStep ==
  ASSUME B!RemainingAssumption, BinaryInv, [B!Next]_(B!vars)
  PROVE  BinaryInv'
<1> USE DEF BinaryInv, B!TypeOK, B!Goto
<1>1. CASE UNCHANGED B!vars
  BY <1>1 DEF B!vars, OneHolder, BinarySeen
<1>2. ASSUME NEW t \in Thread, NEW k \in {"acquire", "try", "timed"}, B!Call(t, k) PROVE BinaryInv'
  <2>1. bCalls' \in 0..Calls
    BY <1>2, CallsAssumption DEF B!Call
  <2>2. bLeft' \in [Thread -> {"zero", "nonzero"}]
    BY <1>2 DEF B!Call, B!RemainingAssumption
  <2>3. B!TypeOK'
    BY <1>2, <2>1, <2>2, BinaryWatch DEF B!Call
  <2>4. OneHolder'
    BY <1>2 DEF B!Call, OneHolder
  <2>5. BinarySeen'
    BY <1>2, BinaryWatch DEF B!Call, BinarySeen
  <2> QED BY <2>3, <2>4, <2>5
<1>3. ASSUME NEW t \in Thread, B!TryAcquire(t) PROVE BinaryInv'
  <2> USE BinaryWatch DEF B!TryAcquire, B!Exchanged, B!Fail
  <2>1. B!TypeOK'
    BY <1>3
  <2>2. OneHolder'
    <3>1. CASE bAvailable = 1
      BY <1>3, <3>1 DEF OneHolder
    <3>2. CASE bAvailable = 0
      BY <1>3, <3>2 DEF OneHolder
    <3> QED BY <3>1, <3>2
  <2>3. BinarySeen'
    BY <1>3 DEF BinarySeen
  <2> QED BY <2>1, <2>2, <2>3
<1>4. ASSUME NEW t \in Thread, B!Wake(t) PROVE BinaryInv'
  BY <1>4, BinaryWatch DEF B!Wake, B!Wakes, OneHolder, BinarySeen
<1>5. ASSUME NEW t \in Thread, B!Timeout(t) \/ B!PollAgain(t) PROVE BinaryInv'
  BY <1>5, BinaryWatch DEF B!Timeout, B!PollAgain, OneHolder, BinarySeen
<1>6. ASSUME NEW t \in Thread, B!Release(t) PROVE BinaryInv'
  BY <1>6, BinaryWatch DEF B!Release, B!Released, OneHolder, BinarySeen
<1>7. CASE B!Open
  BY <1>7, BinaryWatch DEF B!Open, B!Released, OneHolder, BinarySeen
<1> QED BY <1>1, <1>2, <1>3, <1>4, <1>5, <1>6, <1>7 DEF B!Next, B!ThreadStep

(* A step that leaves the flag and the modes alone. *)
LEMMA BinaryStutter ==
  ASSUME BinaryInv, B!Watch, bAvailable' = bAvailable,
         \A u \in Thread : B!ModeOf(u)' = B!ModeOf(u)
  PROVE  UNCHANGED B!Abs!semVars
<1>1. \A u \in Thread : (B!ModeOf(u) = "out" <=> bPc[u] \in {"idle", "held"})
                     /\ (B!ModeOf(u)' = "out" <=> bPc'[u] \in {"idle", "held"})
  BY DEF B!ModeOf
<1>2. ASSUME NEW u \in Thread PROVE bEmpty'[u] <=> bEmpty[u]
  BY <1>1, BinaryWatch DEF BinaryInv, BinarySeen, B!TypeOK
<1>3. bEmpty' = bEmpty
  BY <1>2, BinaryWatch DEF BinaryInv, B!TypeOK
<1> QED BY <1>3 DEF B!Abs!semVars

LEMMA BinarySameWatch == ASSUME BinaryInv, B!Watch PROVE B!Abs!Watch
<1>1. ASSUME NEW u \in Thread
      PROVE  (IF bPc'[u] \in {"idle", "held"} THEN FALSE
              ELSE (bPc[u] # "idle" /\ bEmpty[u]) \/ bAvailable' = 0)
             = (IF B!ModeOf(u)' = "out" THEN FALSE
                ELSE (B!ModeOf(u) # "out" /\ bEmpty[u]) \/ bAvailable' = 0)
  <2>1. (B!ModeOf(u) = "out" <=> bPc[u] \in {"idle", "held"}) /\ (B!ModeOf(u)' = "out" <=> bPc'[u] \in {"idle", "held"})
    BY DEF B!ModeOf
  <2>2. bPc[u] \in {"idle", "held"} => ~bEmpty[u]
    BY DEF BinaryInv, BinarySeen
  <2> QED BY <2>1, <2>2
<1> QED BY <1>1, Zenon DEF B!Watch, B!Abs!Watch

(* What becomes of the mode of one thread. *)
LEMMA BinaryModes ==
  ASSUME BinaryInv, NEW t \in Thread, \A u \in Thread \ {t} : B!ModeOf(u)' = B!ModeOf(u)
  PROVE  [u \in Thread |-> B!ModeOf(u)]' = [[u \in Thread |-> B!ModeOf(u)] EXCEPT ![t] = B!ModeOf(t)']
OBVIOUS

LEMMA BinaryStepImplements ==
  ASSUME B!RemainingAssumption, BinaryInv, BinaryInv', [B!Next]_(B!vars)
  PROVE  [B!Abs!SemNext]_(B!Abs!semVars)
<1> USE DEF BinaryInv, B!TypeOK, B!Goto
<1> DEFINE Implemented == B!Abs!SemNext \/ UNCHANGED B!Abs!semVars
<1>1. CASE UNCHANGED B!vars
  BY <1>1 DEF B!vars, B!Abs!semVars, B!ModeOf
<1>2. ASSUME NEW t \in Thread, NEW k \in {"acquire", "try", "timed"}, B!Call(t, k) PROVE Implemented
  <2>1. /\ \A u \in Thread \ {t} : B!ModeOf(u)' = B!ModeOf(u)
        /\ B!ModeOf(t) = "out" /\ B!ModeOf(t)' \in {"blocking", "trying"}
    BY <1>2 DEF B!Call, B!ModeOf
  <2>2. bAvailable' = bAvailable /\ B!Abs!Watch
    BY <1>2, BinarySameWatch DEF B!Call
  <2>3. B!Abs!SemCall(t)
    BY <2>1, <2>2, BinaryModes DEF B!Abs!SemCall
  <2> QED BY <2>3 DEF B!Abs!SemNext
<1>3. ASSUME NEW t \in Thread, B!TryAcquire(t) PROVE Implemented
  <2>0. B!Abs!Watch /\ B!ModeOf(t) # "out" /\ B!Watch
    BY <1>3, BinarySameWatch DEF B!TryAcquire, B!ModeOf
  <2>1. CASE bAvailable = 1
    <3>1. /\ \A u \in Thread \ {t} : B!ModeOf(u)' = B!ModeOf(u)
          /\ B!ModeOf(t)' = "out" /\ bAvailable' = bAvailable - 1
      BY <1>3, <2>1 DEF B!TryAcquire, B!Exchanged, B!ModeOf
    <3>2. B!Abs!SemTake(t)
      BY <2>0, <2>1, <3>1, BinaryModes DEF B!Abs!SemTake
    <3> QED BY <3>2 DEF B!Abs!SemNext
  <2>2. CASE bAvailable = 0
    <3>1. bAvailable' = bAvailable /\ bEmpty[t] /\ B!Fail(t)
      BY <1>3, <2>2 DEF B!TryAcquire, B!Exchanged, BinarySeen
    <3>2. CASE bKind[t] = "try"
      <4>1. /\ \A u \in Thread \ {t} : B!ModeOf(u)' = B!ModeOf(u)
            /\ B!ModeOf(t) = "trying" /\ B!ModeOf(t)' = "out"
        BY <1>3, <3>1, <3>2 DEF B!TryAcquire, B!Fail, B!ModeOf
      <4>2. B!Abs!SemFail(t)
        BY <2>0, <3>1, <4>1, BinaryModes DEF B!Abs!SemFail
      <4> QED BY <4>2 DEF B!Abs!SemNext
    <3>3. CASE bKind[t] # "try"
      <4>1. \A u \in Thread : B!ModeOf(u)' = B!ModeOf(u)
        BY <1>3, <3>1, <3>3 DEF B!TryAcquire, B!Fail, B!ModeOf
      <4> QED BY <2>0, <3>1, <4>1, BinaryStutter
    <3> QED BY <3>2, <3>3
  <2> QED BY <2>1, <2>2
<1>4. ASSUME NEW t \in Thread, B!Wake(t) \/ B!PollAgain(t) PROVE Implemented
  <2>1. bAvailable' = bAvailable /\ B!Watch /\ \A u \in Thread : B!ModeOf(u)' = B!ModeOf(u)
    BY <1>4 DEF B!Wake, B!PollAgain, B!ModeOf
  <2> QED BY <2>1, BinaryStutter
<1>5. ASSUME NEW t \in Thread, B!Timeout(t) PROVE Implemented
  <2>1. /\ \A u \in Thread \ {t} : B!ModeOf(u)' = B!ModeOf(u)
        /\ B!ModeOf(t) = "trying" /\ B!ModeOf(t)' = "out" /\ bAvailable' = bAvailable /\ bEmpty[t]
    BY <1>5 DEF B!Timeout, B!ModeOf, BinarySeen
  <2>2. B!Abs!SemFail(t)
    BY <1>5, <2>1, BinaryModes, BinarySameWatch DEF B!Timeout, B!Abs!SemFail
  <2> QED BY <2>2 DEF B!Abs!SemNext
<1>6. ASSUME NEW t \in Thread, B!Release(t) PROVE Implemented
  <2>1. /\ \A u \in Thread : B!ModeOf(u)' = B!ModeOf(u)
        /\ bAvailable = 0 /\ bAvailable' = 1 /\ B!Abs!Watch
    BY <1>6, BinarySameWatch DEF B!Release, B!Released, B!ModeOf, OneHolder
  <2>2. B!Abs!SemGive(1)
    BY <2>1 DEF B!Abs!SemGive
  <2> QED BY <2>2 DEF B!Abs!SemNext
<1>7. CASE B!Open
  <2>1. /\ \A u \in Thread : B!ModeOf(u)' = B!ModeOf(u)
        /\ bAvailable = 0 /\ bAvailable' = 1 /\ B!Abs!Watch
    BY <1>7, BinarySameWatch DEF B!Open, B!Released, B!ModeOf, OneHolder
  <2>2. B!Abs!SemGive(1)
    BY <2>1 DEF B!Abs!SemGive
  <2> QED BY <2>2 DEF B!Abs!SemNext
<1> QED BY <1>1, <1>2, <1>3, <1>4, <1>5, <1>6, <1>7 DEF B!Next, B!ThreadStep

(* exchange(0) and store(1) keep one permit and implement the abstract     *)
(* semaphore, for any number of threads.                                   *)
THEOREM BinaryCorrect == B!Spec => BinaryImplements
<1>0. BinaryAssumption
  BY SuiteAssumption
<1>1. B!Init => BinaryInv
  BY <1>0, BinaryInit DEF BinaryAssumption
<1>2. BinaryInv /\ [B!Next]_(B!vars) => BinaryInv'
  BY <1>0, BinaryStep DEF BinaryAssumption
<1>3. BinaryInv => B!TypeOK /\ B!OnePermit
  BY BinaryPermit DEF BinaryInv
<1>4. B!Init => \E n \in 0..1 : B!Abs!SemInit(n)
  BY <1>0 DEF BinaryAssumption, B!InitialAssumption, B!Init, B!Abs!SemInit, B!ModeOf
<1>5. BinaryInv /\ BinaryInv' /\ [B!Next]_(B!vars) => [B!Abs!SemNext]_(B!Abs!semVars)
  BY <1>0, BinaryStepImplements DEF BinaryAssumption
<1> QED BY <1>1, <1>2, <1>3, <1>4, <1>5, PTL DEF B!Spec, BinaryImplements, B!Implements, B!Abs!SemSpec

-----------------------------------------------------------------------------
(* A function from threads to numbers, seen as a set of units: the sum of  *)
(* its values is the number of them.                                       *)
Units(f, m) == {a \in Thread \X (1..m) : a[2] <= f[a[1]]}

LEMMA UnitsFinite ==
  ASSUME NEW m \in Nat, NEW f \in [Thread -> 0..m]
  PROVE  IsFiniteSet(Units(f, m)) /\ Cardinality(Units(f, m)) \in Nat
<1>1. IsFiniteSet(1..m)
  BY FS_Interval
<1>2. IsFiniteSet(Thread \X (1..m))
  BY <1>1, FS_Product, ThreadAssumption
<1>3. Units(f, m) \subseteq Thread \X (1..m)
  BY DEF Units
<1> QED BY <1>2, <1>3, FS_Subset, FS_CardinalityType

(* The units of one thread. *)
LEMMA UnitsOfOne ==
  ASSUME NEW t \in Thread, NEW k \in Nat
  PROVE  IsFiniteSet({t} \X (1..k)) /\ Cardinality({t} \X (1..k)) = k
<1>1. IsFiniteSet(1..k) /\ Cardinality(1..k) = k
  BY FS_Interval
<1>2. IsFiniteSet({t}) /\ Cardinality({t}) = 1
  BY FS_Singleton
<1> QED BY <1>1, <1>2, FS_Product

(* Changing one value changes the sum by the difference. *)
LEMMA UnitsChange ==
  ASSUME NEW m \in Nat, NEW f \in [Thread -> 0..m], NEW t \in Thread, NEW n \in 0..m
  PROVE  Cardinality(Units([f EXCEPT ![t] = n], m)) = Cardinality(Units(f, m)) - f[t] + n
<1> DEFINE g == [f EXCEPT ![t] = n]
           Rest == {a \in Units(f, m) : a[1] # t}
<1>1. IsFiniteSet(Rest) /\ Cardinality(Rest) \in Nat
  <2>1. Rest \subseteq Units(f, m)
    OBVIOUS
  <2> QED BY <2>1, UnitsFinite, FS_Subset, FS_CardinalityType
<1>2. ASSUME NEW k \in 0..m
      PROVE  Cardinality(Rest \cup ({t} \X (1..k))) = Cardinality(Rest) + k
  <2>1. Rest \cap ({t} \X (1..k)) = {}
    OBVIOUS
  <2> DEFINE Own == {t} \X (1..k)
  <2>2. IsFiniteSet(Own) /\ Cardinality(Own) = k
    BY UnitsOfOne
  <2>3. Cardinality(Rest \cap Own) = 0
    BY <2>1, FS_EmptySet
  <2> HIDE DEF Rest, Own
  <2>4. Cardinality(Rest \cup Own) = Cardinality(Rest) + Cardinality(Own) - Cardinality(Rest \cap Own)
    BY <1>1, <2>2, FS_Union
  <2>5. Cardinality(Rest \cup Own) = Cardinality(Rest) + k
    BY <1>1, <2>2, <2>3, <2>4
  <2> QED BY <2>5 DEF Own
<1>3. Units(f, m) = Rest \cup ({t} \X (1..f[t]))
  BY DEF Units
<1>4. Units(g, m) = Rest \cup ({t} \X (1..n))
  BY DEF Units
<1>5. f[t] \in 0..m
  OBVIOUS
<1> HIDE DEF Rest, g
<1>6. /\ Cardinality(Units(f, m)) = Cardinality(Rest) + f[t]
      /\ Cardinality(Units(g, m)) = Cardinality(Rest) + n
  BY <1>2, <1>3, <1>4, <1>5
<1> QED BY <1>1, <1>5, <1>6 DEF g

(* A sum is zero only if every value is, and no value is above it. *)
LEMMA UnitsZero ==
  ASSUME NEW m \in Nat, NEW f \in [Thread -> 0..m]
  PROVE  /\ Cardinality(Units(f, m)) = 0 <=> \A t \in Thread : f[t] = 0
         /\ \A t \in Thread : f[t] <= Cardinality(Units(f, m))
<1>1. Cardinality(Units(f, m)) = 0 => \A t \in Thread : f[t] = 0
  <2> SUFFICES ASSUME Cardinality(Units(f, m)) = 0, NEW t \in Thread, f[t] # 0 PROVE FALSE
    OBVIOUS
  <2>1. <<t, 1>> \in Units(f, m)
    BY DEF Units
  <2> QED BY <2>1, UnitsFinite, FS_EmptySet
<1>2. (\A t \in Thread : f[t] = 0) => Cardinality(Units(f, m)) = 0
  <2>1. (\A t \in Thread : f[t] = 0) => Units(f, m) = {}
    BY DEF Units
  <2> QED BY <2>1, FS_EmptySet
<1>3. ASSUME NEW t \in Thread PROVE f[t] <= Cardinality(Units(f, m))
  <2>1. {t} \X (1..f[t]) \subseteq Units(f, m)
    BY DEF Units
  <2> DEFINE Own == {t} \X (1..f[t])
  <2>2. Cardinality(Own) = f[t]
    <3>1. f[t] \in Nat
      OBVIOUS
    <3> QED BY <3>1, UnitsOfOne
  <2>3. Own \in SUBSET Units(f, m)
    BY <2>1
  <2> HIDE DEF Own
  <2>4. Cardinality(Own) <= Cardinality(Units(f, m))
    BY <2>3, UnitsFinite, FS_Subset
  <2> QED BY <2>2, <2>4
<1> QED BY <1>1, <1>2, <1>3

-----------------------------------------------------------------------------
(* The latch: its counter is the number of arrivals still to come.         *)
LatchInv ==
  /\ L!TypeOK
  /\ lCounter = Cardinality(Units(lShare, Expected))
  /\ L!PassedMeansZero

LEMMA LatchOwed == L!Owed = Cardinality(Units(lShare, Expected))
<1>1. \A S : L!Cardinality(S) = Cardinality(S)
  BY DEF L!Cardinality, Cardinality
<1> QED BY <1>1 DEF L!Owed, Units

LEMMA LatchStep ==
  ASSUME L!ExpectedAssumption, LatchInv, [L!Next]_(L!vars)
  PROVE  LatchInv'
<1> USE DEF L!ExpectedAssumption, L!TypeOK
<1>0. /\ lCounter \in Nat /\ \A t \in Thread : lShare[t] \in 0..Expected
      /\ lCounter = 0 => \A u \in Thread : lShare[u] = 0
  BY UnitsZero DEF LatchInv
<1>1. CASE UNCHANGED L!vars \/ L!Finished
  <2>1. UNCHANGED <<lCounter, lPc, lSeen, lShare>>
    BY <1>1 DEF L!vars, L!Finished
  <2> QED BY <2>1 DEF LatchInv, L!PassedMeansZero
<1>2. ASSUME NEW t \in Thread, NEW n \in 1..Expected, L!CountDown(t, n) PROVE LatchInv'
  <2>1. /\ n \in 1..lShare[t] /\ lShare' = [lShare EXCEPT ![t] = lShare[t] - n]
        /\ lCounter' = lCounter - n /\ lPc' = lPc /\ lSeen' = lSeen
    BY <1>2 DEF L!CountDown, L!Lowered
  <2>2. lShare[t] \in 0..Expected /\ lShare[t] - n \in 0..Expected /\ lShare[t] <= lCounter
    BY <1>0, <2>1, UnitsZero DEF LatchInv
  <2>3. Cardinality(Units(lShare', Expected)) = Cardinality(Units(lShare, Expected)) - lShare[t] + (lShare[t] - n)
    BY <2>1, <2>2, UnitsChange DEF LatchInv
  <2>4. lCounter' = Cardinality(Units(lShare', Expected))
    BY <1>0, <2>1, <2>2, <2>3 DEF LatchInv
  <2>5. L!TypeOK'
    BY <1>0, <2>1, <2>2 DEF LatchInv
  <2>6. L!PassedMeansZero'
    BY <1>0, <2>1 DEF LatchInv, L!PassedMeansZero
  <2> QED BY <2>4, <2>5, <2>6 DEF LatchInv
<1>3. ASSUME NEW t \in Thread, L!CallWait(t) \/ L!LoadCounter(t) \/ L!Wake(t) \/ L!TryWait(t) PROVE LatchInv'
  <2>1. lCounter' = lCounter /\ lShare' = lShare
    BY <1>3 DEF L!CallWait, L!LoadCounter, L!Wake, L!TryWait
  <2>2. L!TypeOK'
    BY <1>3, <2>1 DEF LatchInv, L!CallWait, L!LoadCounter, L!Wake, L!TryWait
  <2>3. L!PassedMeansZero'
    BY <1>0, <1>3, <2>1 DEF LatchInv, L!PassedMeansZero, L!CallWait, L!LoadCounter, L!Wake, L!TryWait, L!IsOpen
  <2> QED BY <2>1, <2>2, <2>3 DEF LatchInv
<1> QED BY <1>1, <1>2, <1>3 DEF L!Next, L!ThreadStep

(* The latch keeps its promise for any number of threads, any expected     *)
(* count and any way of sharing it out.                                    *)
THEOREM LatchCorrect == L!Spec => []PassedMeansZero
<1>0. L!ExpectedAssumption
  BY SuiteAssumption
<1>1. L!Init => LatchInv
  BY <1>0, LatchOwed DEF L!ExpectedAssumption, L!Init, LatchInv, L!TypeOK, L!PassedMeansZero
<1>2. LatchInv /\ [L!Next]_(L!vars) => LatchInv'
  BY <1>0, LatchStep
<1>3. LatchInv => PassedMeansZero
  BY DEF LatchInv, PassedMeansZero
<1> QED BY <1>1, <1>2, <1>3, PTL DEF L!Spec

-----------------------------------------------------------------------------
(* The native semaphore.  The invariant: the front buffer has not more     *)
(* permits than a thread has seen since it is recorded as waiting; what    *)
(* is put back makes up for what is missing in the back buffer, and but    *)
(* for a release inside a backfill makes it zero; and a permit in the back *)
(* buffer has a post or a thread on the way that will look there.          *)
Most == NativeMax + 2

Due == Cardinality(Units(nDue, Most))
Owing == Cardinality(Units(nOwed, Most))

Waiting == {t \in Thread : nPc[t] \in {"resteal", "asleep", "leave"}}

NativeLabels == {"idle", "poll", "steal", "resteal", "asleep", "leave", "backfill", "slow", "post"}

NativeTypes ==
  /\ nFront \in [permits : Int, waiters : Int] /\ nFront.permits >= 0
  /\ nSem \in Nat /\ nBack \in Int /\ nCalls \in 0..NativeCalls /\ nBalance \in 0..NativeMax
  /\ nPc \in [Thread -> NativeLabels]
  /\ nOld \in [Thread -> [permits : Int, waiters : Int]]
  /\ nOk \in [Thread -> BOOLEAN]
  /\ nDue \in [Thread -> 0..Most] /\ nOwed \in [Thread -> 0..2]

NativePlaces ==
  /\ \A t \in Thread : /\ nDue[t] > 0 => nPc[t] \in {"slow", "post"}
                       /\ nOwed[t] > 0 => nPc[t] = "post"
  /\ \A t \in Thread : /\ nPc[t] = "resteal" => nFront.permits <= nOld[t].permits
                       /\ nPc[t] = "asleep" => nFront.permits = 0

NativeSums ==
  /\ nFront.waiters = Cardinality(Waiting)
  /\ nBalance = nFront.permits + nBack + nSem + Due + Owing
  /\ nBack + Owing >= 0
  /\ ~Overlap /\ Owing > 0 => nBack + Owing = 0

(* Who will look into the back buffer. *)
Looks(t) ==
  \/ nPc[t] = "leave" /\ nOk[t]
  \/ nPc[t] = "backfill"
  \/ nPc[t] = "post" /\ nDue[t] > 0

NativeWakers == ~Overlap /\ nBack > 0 => nSem > 0 \/ \E t \in Thread : Looks(t)

NativeInv == NativeTypes /\ NativePlaces /\ NativeSums /\ NativeWakers

LEMMA NativeCardinality == \A S : N!Cardinality(S) = Cardinality(S)
BY DEF N!Cardinality, Cardinality

LEMMA NativeTotals == N!Total(nDue) = Due /\ N!Total(nOwed) = Owing
BY NativeCardinality DEF N!Total, N!MostDue, Due, Owing, Most, Units

LEMMA NativeMost ==
  ASSUME NativeAssumption
  PROVE  NativeMax \in Nat /\ Most \in Nat /\ 0..2 \subseteq 0..Most /\ 0..NativeMax \subseteq 0..Most
BY DEF NativeAssumption, N!CountAssumption, Most

LEMMA NativeNats ==
  ASSUME NativeAssumption, NativeTypes
  PROVE  /\ Due \in Nat /\ Owing \in Nat
         /\ Due = 0 <=> \A t \in Thread : nDue[t] = 0
         /\ Owing = 0 <=> \A t \in Thread : nOwed[t] = 0
         /\ IsFiniteSet(Waiting) /\ Cardinality(Waiting) \in Nat
         /\ Cardinality(Waiting) = 0 <=> Waiting = {}
<1>1. nDue \in [Thread -> 0..Most] /\ nOwed \in [Thread -> 0..Most] /\ Most \in Nat
  BY NativeMost DEF NativeTypes
<1>2. /\ Due \in Nat /\ Owing \in Nat
      /\ Due = 0 <=> \A t \in Thread : nDue[t] = 0
      /\ Owing = 0 <=> \A t \in Thread : nOwed[t] = 0
  BY <1>1, UnitsFinite, UnitsZero DEF Due, Owing
<1>3. Waiting \subseteq Thread
  BY DEF Waiting
<1>4. IsFiniteSet(Waiting) /\ Cardinality(Waiting) \in Nat
  BY <1>3, FS_Subset, FS_CardinalityType, ThreadAssumption
<1> QED BY <1>2, <1>4, FS_EmptySet

(* What a step does to the two sums ... *)
LEMMA NativeDue ==
  ASSUME NativeAssumption, NativeTypes, NEW t \in Thread, NEW n \in 0..Most,
         nDue' = [nDue EXCEPT ![t] = n]
  PROVE  Due' = Due - nDue[t] + n
BY NativeMost, UnitsChange DEF NativeTypes, Due

LEMMA NativeOwing ==
  ASSUME NativeAssumption, NativeTypes, NEW t \in Thread, NEW n \in 0..2,
         nOwed' = [nOwed EXCEPT ![t] = n]
  PROVE  Owing' = Owing - nOwed[t] + n
<1>1. nOwed \in [Thread -> 0..Most] /\ n \in 0..Most /\ Most \in Nat
  BY NativeMost DEF NativeTypes
<1> QED BY <1>1, UnitsChange DEF Owing

(* ... and to the number of threads that wait. *)
LEMMA NativeWaiting ==
  ASSUME NativeAssumption, NativeTypes, NEW t \in Thread, NEW l \in NativeLabels,
         nPc' = [nPc EXCEPT ![t] = l]
  PROVE  LET W == {"resteal", "asleep", "leave"}
         IN  /\ nPc[t] \in W /\ l \in W => Cardinality(Waiting') = Cardinality(Waiting)
             /\ nPc[t] \notin W /\ l \notin W => Cardinality(Waiting') = Cardinality(Waiting)
             /\ nPc[t] \notin W /\ l \in W => Cardinality(Waiting') = Cardinality(Waiting) + 1
             /\ nPc[t] \in W /\ l \notin W => Cardinality(Waiting') = Cardinality(Waiting) - 1
<1> DEFINE W == {"resteal", "asleep", "leave"}
<1>1. IsFiniteSet(Waiting)
  BY NativeNats
<1>2. (nPc[t] \in W <=> t \in Waiting) /\ \A u \in Thread \ {t} : u \in Waiting' <=> u \in Waiting
  BY DEF Waiting, NativeTypes
<1>3. t \in Waiting' <=> l \in W
  BY DEF Waiting, NativeTypes
<1>4. Waiting' \subseteq Thread /\ Waiting \subseteq Thread
  BY DEF Waiting
<1>5. CASE nPc[t] \in W <=> l \in W
  <2>1. Waiting' = Waiting
    BY <1>2, <1>3, <1>4, <1>5
  <2> QED BY <1>5, <2>1
<1>6. CASE nPc[t] \notin W /\ l \in W
  <2>1. Waiting' = Waiting \cup {t} /\ t \notin Waiting
    BY <1>2, <1>3, <1>4, <1>6
  <2> QED BY <1>1, <1>6, <2>1, FS_AddElement
<1>7. CASE nPc[t] \in W /\ l \notin W
  <2>1. Waiting' = Waiting \ {t} /\ t \in Waiting
    BY <1>2, <1>3, <1>4, <1>7
  <2> QED BY <1>1, <1>7, <2>1, FS_RemoveElement
<1> QED BY <1>5, <1>6, <1>7

LEMMA NativeInit == NativeAssumption /\ N!Init => NativeInv
<1> SUFFICES ASSUME NativeAssumption, N!Init PROVE NativeInv
  OBVIOUS
<1> USE DEF NativeAssumption, N!CountAssumption, N!AmountAssumption, N!Init, N!Word, N!None
<1>1. NativeTypes
  BY NativeMost DEF NativeTypes, NativeLabels
<1>2. Due = 0 /\ Owing = 0 /\ Cardinality(Waiting) = 0
  BY <1>1, NativeNats DEF Waiting
<1>3. NativePlaces /\ NativeSums /\ NativeWakers
  BY <1>2 DEF NativePlaces, NativeSums, NativeWakers
<1> QED BY <1>1, <1>3 DEF NativeInv

(* A step that leaves buffers, semaphore and dues alone. *)
LEMMA NativeQuiet ==
  ASSUME NativeAssumption, NativeInv, NEW t \in Thread,
         N!Acquire(t) \/ N!Poll(t) \/ N!StealFails(t) \/ N!BeginWait(t) \/ N!SemTimeout(t)
  PROVE  NativeInv'
<1> USE DEF NativeInv, NativeLabels, N!Go, N!None, N!Word
<1> USE DEF N!Acquire, N!Poll, N!StealFails, N!BeginWait, N!SemTimeout
<1>1. /\ UNCHANGED <<nFront, nBack, nSem, nDue, nOwed, nOk, nBalance>>
      /\ nPc' = [nPc EXCEPT ![t] = nPc'[t]]
      /\ nPc'[t] \in NativeLabels /\ nCalls' \in 0..NativeCalls
      /\ nOld' \in [Thread -> [permits : Int, waiters : Int]]
  BY DEF NativeTypes, NativeAssumption, N!CountAssumption
<1>2. nPc[t] \in {"resteal", "asleep"} <=> nPc'[t] \in {"resteal", "asleep", "leave"}
  BY DEF NativeTypes
<1>3. NativeTypes'
  BY <1>1 DEF NativeTypes
<1>4. NativePlaces'
  <2>1. /\ \A u \in Thread \ {t} : nPc'[u] = nPc[u] /\ nOld'[u] = nOld[u]
        /\ nPc[t] \notin {"slow", "post"}
    BY DEF NativeTypes
  <2>2. nDue[t] = 0 /\ nOwed[t] = 0
    BY <2>1 DEF NativePlaces, NativeTypes
  <2>3. /\ nPc'[t] = "resteal" => nFront.permits <= nOld'[t].permits
        /\ nPc'[t] = "asleep" => nFront.permits = 0
    <3>1. CASE N!StealFails(t)
      BY <3>1 DEF NativeTypes
    <3>2. CASE N!BeginWait(t)
      BY <3>2 DEF NativeTypes, NativePlaces
    <3>3. CASE N!Acquire(t) \/ N!Poll(t) \/ N!SemTimeout(t)
      BY <3>3 DEF NativeTypes
    <3> QED BY <3>1, <3>2, <3>3
  <2> HIDE DEF N!Acquire, N!Poll, N!StealFails, N!BeginWait, N!SemTimeout
  <2> QED BY <1>1, <2>1, <2>2, <2>3 DEF NativePlaces
<1>5. Cardinality(Waiting') = Cardinality(Waiting)
  <2>1. nPc[t] # "leave"
    OBVIOUS
  <2> QED BY <1>1, <1>2, <2>1, NativeWaiting
<1>6. Due' = Due /\ Owing' = Owing
  BY <1>1 DEF Due, Owing
<1>7. NativeSums'
  BY <1>1, <1>5, <1>6 DEF NativeSums
<1>8. NativeWakers'
  <2>1. ~Looks(t) /\ \A u \in Thread \ {t} : Looks(u)' <=> Looks(u)
    BY <1>1 DEF Looks, NativeTypes, NativePlaces
  <2> QED BY <1>1, <2>1 DEF NativeWakers
<1> QED BY <1>3, <1>4, <1>7, <1>8

LEMMA NativeSteal ==
  ASSUME NativeAssumption, NativeInv, NEW t \in Thread, N!StealSucceeds(t)
  PROVE  NativeInv'
<1> USE DEF NativeInv, N!Go, N!None, N!Word, N!StealSucceeds, N!Return
<1>1. /\ nFront'.permits = nFront.permits - 1 /\ nFront'.waiters = nFront.waiters
      /\ nFront' \in [permits : Int, waiters : Int] /\ nFront.permits > 0
      /\ UNCHANGED <<nBack, nSem, nDue, nOwed, nCalls>> /\ nBalance' = nBalance - 1
      /\ nPc' = [nPc EXCEPT ![t] = nPc'[t]] /\ nPc[t] \in {"steal", "resteal"}
      /\ nPc'[t] = IF nPc[t] = "steal" THEN "idle" ELSE "leave"
      /\ nOld' \in [Thread -> [permits : Int, waiters : Int]] /\ nOk' \in [Thread -> BOOLEAN]
      /\ \A u \in Thread \ {t} : nOld'[u] = nOld[u] /\ nPc'[u] = nPc[u] /\ nOk'[u] = nOk[u]
  <2>1. /\ nFront'.permits = nFront.permits - 1 /\ nFront'.waiters = nFront.waiters
        /\ nFront' \in [permits : Int, waiters : Int] /\ nFront.permits > 0
    BY DEF NativeTypes
  <2>2. /\ nOld' \in [Thread -> [permits : Int, waiters : Int]]
        /\ \A u \in Thread \ {t} : nOld'[u] = nOld[u]
    BY DEF NativeTypes
  <2>3. /\ nPc' = [nPc EXCEPT ![t] = nPc'[t]] /\ nPc[t] \in {"steal", "resteal"}
        /\ nPc'[t] = IF nPc[t] = "steal" THEN "idle" ELSE "leave"
        /\ \A u \in Thread \ {t} : nPc'[u] = nPc[u]
    BY DEF NativeTypes
  <2>4. nOk' \in [Thread -> BOOLEAN] /\ \A u \in Thread \ {t} : nOk'[u] = nOk[u]
    <3>1. nOk' = [nOk EXCEPT ![t] = nPc[t] # "steal"]
      <4>1. CASE nPc[t] = "steal"
        BY <4>1
      <4>2. CASE nPc[t] # "steal"
        BY <4>2
      <4> QED BY <4>1, <4>2
    <3> QED BY <3>1 DEF NativeTypes
  <2>5. UNCHANGED <<nBack, nSem, nDue, nOwed, nCalls>> /\ nBalance' = nBalance - 1
    OBVIOUS
  <2> QED BY <2>1, <2>2, <2>3, <2>4, <2>5
<1> HIDE DEF N!StealSucceeds
<1>2. Due' = Due /\ Owing' = Owing
  BY <1>1 DEF Due, Owing
<1>3. Cardinality(Waiting') = Cardinality(Waiting)
  BY <1>1, NativeWaiting DEF NativeLabels
<1>4. NativeTypes'
  BY <1>1, NativeNats, NativeMost DEF NativeTypes, NativeSums, NativeLabels
<1>5. NativePlaces'
  BY <1>1 DEF NativePlaces, NativeTypes
<1>6. NativeSums'
  BY <1>1, <1>2, <1>3, NativeNats DEF NativeSums, NativeTypes
<1>7. NativeWakers'
  <2>1. ~Looks(t) /\ \A u \in Thread \ {t} : Looks(u)' <=> Looks(u)
    BY <1>1 DEF Looks
  <2> QED BY <1>1, <2>1 DEF NativeWakers
<1> QED BY <1>4, <1>5, <1>6, <1>7

LEMMA NativeEnter ==
  ASSUME NativeAssumption, NativeInv, NEW t \in Thread, N!Enter(t)
  PROVE  NativeInv'
<1> USE DEF NativeInv, N!Go, N!None, N!Word, N!Enter
<1>1. /\ nFront'.permits = nFront.permits /\ nFront'.waiters = nFront.waiters + 1
      /\ nFront' \in [permits : Int, waiters : Int]
      /\ UNCHANGED <<nBack, nSem, nDue, nOwed, nCalls, nOk, nBalance>>
      /\ nPc' = [nPc EXCEPT ![t] = "resteal"] /\ nPc[t] = "steal"
      /\ nOld' \in [Thread -> [permits : Int, waiters : Int]] /\ nOld'[t] = nFront
      /\ \A u \in Thread \ {t} : nOld'[u] = nOld[u]
  BY DEF NativeTypes
<1> HIDE DEF N!Enter
<1>2. Due' = Due /\ Owing' = Owing
  BY <1>1 DEF Due, Owing
<1>3. Cardinality(Waiting') = Cardinality(Waiting) + 1
  BY <1>1, NativeWaiting DEF NativeLabels
<1>4. NativeTypes'
  BY <1>1 DEF NativeTypes, NativeLabels
<1>5. NativePlaces'
  BY <1>1 DEF NativePlaces, NativeTypes
<1>6. NativeSums'
  BY <1>1, <1>2, <1>3 DEF NativeSums
<1>7. NativeWakers'
  <2>1. \A u \in Thread : Looks(u)' <=> Looks(u)
    BY <1>1 DEF Looks, NativeTypes
  <2> QED BY <1>1, <2>1 DEF NativeWakers
<1> QED BY <1>4, <1>5, <1>6, <1>7

LEMMA NativeTake ==
  ASSUME NativeAssumption, NativeInv, NEW t \in Thread, N!SemTake(t) \/ N!Leave(t)
  PROVE  NativeInv'
<1> USE DEF NativeInv, N!Go, NativeLabels
<1>1. CASE N!SemTake(t)
  <2>1. /\ UNCHANGED <<nFront, nBack, nDue, nOwed, nCalls, nOld>>
        /\ nBalance' = nBalance - 1 /\ nSem > 0 /\ nSem' = nSem - 1
        /\ nPc' = [nPc EXCEPT ![t] = "leave"] /\ nPc[t] = "asleep"
        /\ nOk' = [nOk EXCEPT ![t] = TRUE]
    BY <1>1 DEF N!SemTake
  <2>2. Due' = Due /\ Owing' = Owing
    BY <2>1 DEF Due, Owing
  <2>3. Cardinality(Waiting') = Cardinality(Waiting)
    BY <2>1, NativeWaiting
  <2>4. NativeTypes'
    BY <2>1, NativeNats, NativeMost DEF NativeTypes, NativeSums
  <2>5. NativePlaces'
    BY <2>1 DEF NativePlaces, NativeTypes
  <2>6. NativeSums'
    BY <2>1, <2>2, <2>3, NativeNats DEF NativeSums, NativeTypes
  <2>7. NativeWakers'
    BY <2>1 DEF NativeWakers, Looks, NativeTypes
  <2> QED BY <2>4, <2>5, <2>6, <2>7
<1>2. CASE N!Leave(t)
  <2>1. /\ UNCHANGED <<nBack, nDue, nOwed, nCalls, nOld, nSem, nBalance>>
        /\ nFront'.permits = nFront.permits /\ nFront'.waiters = nFront.waiters - 1
        /\ nFront' \in [permits : Int, waiters : Int]
        /\ nPc[t] = "leave" /\ nPc' = [nPc EXCEPT ![t] = IF nOk[t] THEN "backfill" ELSE "idle"]
        /\ nOk' \in [Thread -> BOOLEAN] /\ \A u \in Thread \ {t} : nOk'[u] = nOk[u]
    <3>1. nFront' = [nFront EXCEPT !.waiters = nFront.waiters - 1]
      BY <1>2 DEF N!Leave, N!Left
    <3>2. /\ nFront'.permits = nFront.permits /\ nFront'.waiters = nFront.waiters - 1
          /\ nFront' \in [permits : Int, waiters : Int]
      BY <3>1 DEF NativeTypes
    <3>3. UNCHANGED <<nBack, nDue, nOwed, nCalls, nOld, nSem, nBalance>> /\ nPc[t] = "leave"
      BY <1>2 DEF N!Leave
    <3>4. CASE nOk[t]
      <4>1. nPc' = [nPc EXCEPT ![t] = "backfill"] /\ nOk' = nOk
        BY <1>2, <3>4 DEF N!Leave
      <4> QED BY <3>2, <3>3, <3>4, <4>1 DEF NativeTypes
    <3>5. CASE ~nOk[t]
      <4>1. nPc' = [nPc EXCEPT ![t] = "idle"] /\ nOk' = [nOk EXCEPT ![t] = FALSE]
        BY <1>2, <3>5 DEF N!Leave, N!Return
      <4>2. nOk' \in [Thread -> BOOLEAN] /\ \A u \in Thread \ {t} : nOk'[u] = nOk[u]
        BY <4>1 DEF NativeTypes
      <4> QED BY <3>2, <3>3, <3>5, <4>1, <4>2
    <3> QED BY <3>4, <3>5
  <2>2. Due' = Due /\ Owing' = Owing
    BY <2>1 DEF Due, Owing
  <2>3. Cardinality(Waiting') = Cardinality(Waiting) - 1
    <3>1. CASE nOk[t]
      BY <2>1, <3>1, NativeWaiting
    <3>2. CASE ~nOk[t]
      BY <2>1, <3>2, NativeWaiting
    <3> QED BY <3>1, <3>2
  <2>4. NativeTypes'
    BY <2>1 DEF NativeTypes
  <2>5. NativePlaces'
    BY <2>1 DEF NativePlaces, NativeTypes
  <2>6. NativeSums'
    BY <2>1, <2>2, <2>3, NativeNats DEF NativeSums, NativeTypes
  <2>7. NativeWakers'
    <3>1. \A u \in Thread : Looks(u) => Looks(u)'
      BY <2>1 DEF Looks, NativeTypes
    <3> QED BY <2>1, <3>1 DEF NativeWakers
  <2> QED BY <2>4, <2>5, <2>6, <2>7
<1> QED BY <1>1, <1>2

(* __backfill. *)
LEMMA NativeBackfill ==
  ASSUME NativeAssumption, NativeInv, NEW t \in Thread, N!TakeTwo(t) \/ N!Post(t) \/ N!Settle(t)
  PROVE  NativeInv'
<1> USE DEF NativeInv, N!Go, NativeLabels
<1>1. CASE N!TakeTwo(t)
  <2>1. /\ UNCHANGED <<nFront, nSem, nOld, nOk, nBalance, nCalls>> /\ nBack' = nBack - 2
        /\ nDue' = [nDue EXCEPT ![t] = N!ToPost(nBack)]
        /\ nOwed' = [nOwed EXCEPT ![t] = 2 - N!ToPost(nBack)]
        /\ nPc[t] = "backfill" /\ nPc' = [nPc EXCEPT ![t] = "post"]
    BY <1>1 DEF N!TakeTwo, N!PutBack
  <2>2. /\ N!ToPost(nBack) \in 0..2 /\ 2 - N!ToPost(nBack) \in 0..2
        /\ nBack > 1 => N!ToPost(nBack) = 2
        /\ nBack = 1 => N!ToPost(nBack) = 1
        /\ nBack < 1 => N!ToPost(nBack) = 0
    BY DEF N!ToPost, NativeTypes
  <2>3. nDue[t] = 0 /\ nOwed[t] = 0
    BY <2>1 DEF NativeTypes, NativePlaces
  <2>4. Due' = Due + N!ToPost(nBack) /\ Owing' = Owing + 2 - N!ToPost(nBack)
    <3>1. N!ToPost(nBack) \in 0..Most
      BY <2>2, NativeMost
    <3>2. Due' = Due - nDue[t] + N!ToPost(nBack)
      BY <2>1, <3>1, NativeDue
    <3>3. Owing' = Owing - nOwed[t] + (2 - N!ToPost(nBack))
      BY <2>1, <2>2, NativeOwing
    <3>4. Due \in Nat /\ Owing \in Nat
      BY NativeNats
    <3> QED BY <2>2, <2>3, <3>2, <3>3, <3>4
  <2>5. Cardinality(Waiting') = Cardinality(Waiting)
    BY <2>1, NativeWaiting
  <2>6. NativeTypes'
    BY <2>1, <2>2, NativeMost DEF NativeTypes
  <2>7. NativePlaces'
    BY <2>1 DEF NativePlaces, NativeTypes
  <2>8. NativeSums'
    <3>1. Due \in Nat /\ Owing \in Nat /\ nBack \in Int /\ nSem \in Nat /\ nFront.permits \in Int
      BY NativeNats DEF NativeTypes
    <3>2. /\ nBack' + Owing' = nBack + Owing - N!ToPost(nBack)
          /\ nBack' + Owing' + Due' = nBack + Owing + Due
      BY <2>1, <2>2, <2>4, <3>1
    <3>3. nBack' + Owing' >= 0
      <4>1. Owing >= 0 /\ nBack + Owing >= 0
        BY <3>1 DEF NativeSums
      <4> QED BY <2>2, <3>1, <3>2, <4>1
    <3>4. ~Overlap /\ Owing' > 0 => nBack' + Owing' = 0
      BY <2>1, <2>2, <2>4, <3>1, <3>2 DEF NativeSums
    <3>5. nBalance' = nFront'.permits + nBack' + nSem' + Due' + Owing'
      BY <2>1, <2>2, <2>4, <3>1 DEF NativeSums
    <3> QED BY <2>1, <2>5, <3>3, <3>4, <3>5 DEF NativeSums
  <2>9. NativeWakers'
    BY <2>1, <2>2 DEF NativeWakers, Looks, NativeTypes
  <2> QED BY <2>6, <2>7, <2>8, <2>9
<1>2. CASE N!Post(t)
  <2>1. /\ UNCHANGED <<nFront, nBack, nPc, nOld, nOk, nOwed, nBalance, nCalls>> /\ nSem' = nSem + 1
        /\ nPc[t] = "post" /\ nDue[t] > 0 /\ nDue' = [nDue EXCEPT ![t] = nDue[t] - 1]
    BY <1>2 DEF N!Post
  <2>2. nDue[t] - 1 \in 0..Most
    BY <2>1, NativeMost DEF NativeTypes
  <2>3. Due' = Due - 1 /\ Owing' = Owing /\ Waiting' = Waiting
    <3>1. Due' = Due - nDue[t] + (nDue[t] - 1)
      BY <2>1, <2>2, NativeDue
    <3>2. Due \in Nat /\ nDue[t] \in Nat
      BY NativeNats DEF NativeTypes
    <3>3. Owing' = Owing /\ Waiting' = Waiting
      BY <2>1 DEF Owing, Waiting
    <3> QED BY <3>1, <3>2, <3>3
  <2>4. NativeTypes'
    BY <2>1, <2>2 DEF NativeTypes
  <2>5. NativePlaces'
    BY <2>1 DEF NativePlaces, NativeTypes
  <2>6. NativeSums'
    BY <2>1, <2>3, NativeNats DEF NativeSums, NativeTypes
  <2>7. NativeWakers'
    BY <2>1 DEF NativeWakers, NativeTypes
  <2> QED BY <2>4, <2>5, <2>6, <2>7
<1>3. CASE N!Settle(t)
  <2>1. /\ UNCHANGED <<nFront, nSem, nOld, nDue, nBalance, nCalls>> /\ nBack' = nBack + nOwed[t]
        /\ nOwed' = [nOwed EXCEPT ![t] = 0] /\ nDue[t] = 0
        /\ nPc[t] = "post" /\ nPc' = [nPc EXCEPT ![t] = "idle"]
        /\ nOk' = [nOk EXCEPT ![t] = FALSE]
    BY <1>3 DEF N!Settle, N!Return
  <2>2. Owing' = Owing - nOwed[t] /\ Due' = Due /\ nOwed[t] \in 0..2
    <3>0. 0 \in 0..2
      OBVIOUS
    <3>1. Owing' = Owing - nOwed[t] + 0
      BY <2>1, <3>0, NativeOwing
    <3>2. Owing \in Nat /\ nOwed[t] \in 0..2
      BY NativeNats DEF NativeTypes
    <3>3. Due' = Due
      BY <2>1 DEF Due
    <3> QED BY <3>1, <3>2, <3>3
  <2>3. Cardinality(Waiting') = Cardinality(Waiting)
    BY <2>1, NativeWaiting
  <2>4. NativeTypes'
    BY <2>1, <2>2 DEF NativeTypes
  <2>5. NativePlaces'
    BY <2>1 DEF NativePlaces, NativeTypes
  <2>6. nOwed[t] > 0 => Owing > 0
    BY NativeNats DEF NativeTypes
  <2>7. NativeSums'
    BY <2>1, <2>2, <2>3, <2>6, NativeNats DEF NativeSums, NativeTypes
  <2>8. Owing' \in Nat
    BY <2>4, NativeNats, UnitsFinite, NativeMost DEF NativeTypes, Owing
  <2>9. NativeWakers'
    <3>1. ~Overlap /\ nBack' > 0 => nBack > 0
      BY <2>1, <2>2, <2>6, <2>8, NativeNats DEF NativeSums, NativeTypes
    <3>2. ~Looks(t) /\ \A u \in Thread \ {t} : Looks(u)' <=> Looks(u)
      BY <2>1 DEF Looks, NativeTypes
    <3> QED BY <2>1, <3>1, <3>2 DEF NativeWakers
  <2> QED BY <2>4, <2>5, <2>7, <2>9
<1> QED BY <1>1, <1>2, <1>3

(* release(n), and the first fetch_add of __release_slow. *)
LEMMA NativeRelease ==
  ASSUME NativeAssumption, NativeInv, NEW t \in Thread, N!Release(t) \/ N!ReleaseSlow(t)
  PROVE  NativeInv'
<1> USE DEF NativeInv, N!Go, NativeLabels
<1>1. CASE N!Release(t)
  <2>1. PICK n \in Amounts :
          /\ nBalance + n <= NativeMax /\ nBalance' = nBalance + n
          /\ IF N!Uncontended
               THEN /\ nFront' = [nFront EXCEPT !.permits = @ + n] /\ UNCHANGED <<nPc, nDue>>
               ELSE /\ nDue' = [nDue EXCEPT ![t] = n]
                    /\ nPc' = [nPc EXCEPT ![t] = "slow"]
                    /\ UNCHANGED nFront
    BY <1>1 DEF N!Release
  <2>2. /\ nPc[t] = "idle" /\ nCalls' = nCalls - 1 /\ nCalls > 0
        /\ UNCHANGED <<nBack, nSem, nOld, nOk, nOwed>>
    BY <1>1 DEF N!Release
  <2>3. n \in 1..NativeMax /\ n \in 0..Most /\ NativeMax \in Nat
    BY NativeMost DEF NativeAssumption, N!AmountAssumption
  <2>4. nCalls' \in 0..NativeCalls /\ nBalance' \in 0..NativeMax
    BY <2>1, <2>2, <2>3 DEF NativeTypes, NativeAssumption, N!CountAssumption
  <2>5. nDue[t] = 0
    BY <2>2 DEF NativePlaces, NativeTypes
  <2>6. CASE N!Uncontended
    <3>1. /\ nFront'.permits = nFront.permits + n /\ nFront'.waiters = nFront.waiters
          /\ nFront' \in [permits : Int, waiters : Int] /\ UNCHANGED <<nPc, nDue>>
          /\ nFront.waiters = 0
      BY <2>1, <2>3, <2>6 DEF NativeTypes, N!Uncontended, N!None, N!Word
    <3>2. Due' = Due /\ Owing' = Owing /\ Waiting' = Waiting
      BY <2>2, <3>1 DEF Due, Owing, Waiting
    <3>3. \A u \in Thread : nPc[u] \notin {"resteal", "asleep"}
      BY <3>1, NativeNats DEF NativeSums, Waiting
    <3>4. NativeTypes'
      BY <2>2, <2>3, <2>4, <3>1 DEF NativeTypes
    <3>5. NativePlaces'
      BY <2>2, <3>1, <3>3 DEF NativePlaces
    <3>6. NativeSums'
      <4>1. /\ Due \in Nat /\ Owing \in Nat /\ nBack \in Int /\ nSem \in Nat /\ nFront.permits \in Int
            /\ nBalance \in Int
        BY NativeNats DEF NativeTypes
      <4>2. nBalance' = nFront'.permits + nBack' + nSem' + Due' + Owing'
        BY <2>1, <2>2, <2>3, <3>1, <3>2, <4>1 DEF NativeSums
      <4>3. nFront'.waiters = Cardinality(Waiting')
        BY <3>1, <3>2 DEF NativeSums
      <4> QED BY <2>2, <3>2, <4>2, <4>3 DEF NativeSums
    <3>7. NativeWakers'
      BY <2>2, <3>1 DEF NativeWakers, Looks
    <3> QED BY <3>4, <3>5, <3>6, <3>7
  <2>7. CASE ~N!Uncontended
    <3>1. /\ nDue' = [nDue EXCEPT ![t] = n] /\ nPc' = [nPc EXCEPT ![t] = "slow"] /\ nFront' = nFront
      BY <2>1, <2>7
    <3>2. Due' = Due + n /\ Owing' = Owing
      <4>1. Due' = Due - nDue[t] + n
        BY <2>3, <3>1, NativeDue
      <4>2. Owing' = Owing
        BY <2>2 DEF Owing
      <4> QED BY <2>3, <2>5, <4>1, <4>2, NativeNats
    <3>3. Cardinality(Waiting') = Cardinality(Waiting)
      BY <2>2, <3>1, NativeWaiting
    <3>4. NativeTypes'
      BY <2>2, <2>3, <2>4, <3>1 DEF NativeTypes
    <3>5. NativePlaces'
      BY <2>2, <3>1 DEF NativePlaces, NativeTypes
    <3>6. NativeSums'
      BY <2>1, <2>2, <2>3, <3>1, <3>2, <3>3, NativeNats DEF NativeSums, NativeTypes
    <3>7. NativeWakers'
      <4>1. ~Looks(t) /\ \A u \in Thread \ {t} : Looks(u)' <=> Looks(u)
        BY <2>2, <3>1 DEF Looks
      <4> QED BY <2>2, <4>1 DEF NativeWakers
    <3> QED BY <3>4, <3>5, <3>6, <3>7
  <2> QED BY <2>6, <2>7
<1>2. CASE N!ReleaseSlow(t)
  <2>1. /\ UNCHANGED <<nFront, nSem, nOld, nOk, nOwed, nBalance, nCalls>>
        /\ nBack' = nBack + N!Rest(nDue[t])
        /\ nDue' = [nDue EXCEPT ![t] = nDue[t] - N!Rest(nDue[t])]
        /\ nPc[t] = "slow" /\ nPc' = [nPc EXCEPT ![t] = "post"]
        /\ Overlap \/ N!Rest(nDue[t]) = 0 \/ \A u \in Thread : ~N!InBackfill(u)
    <3>1. nDue' = [nDue EXCEPT ![t] = IF @ > 2 THEN 2 ELSE @]
      BY <1>2 DEF N!ReleaseSlow
    <3>2. (IF nDue[t] > 2 THEN 2 ELSE nDue[t]) = nDue[t] - N!Rest(nDue[t])
      BY NativeMost DEF N!Rest, NativeTypes
    <3>3. nDue' = [nDue EXCEPT ![t] = nDue[t] - N!Rest(nDue[t])]
      BY <3>1, <3>2
    <3> QED BY <1>2, <3>3 DEF N!ReleaseSlow
  <2>2. /\ N!Rest(nDue[t]) \in Nat /\ nDue[t] - N!Rest(nDue[t]) \in 0..Most
        /\ N!Rest(nDue[t]) > 0 => nDue[t] - N!Rest(nDue[t]) = 2
    BY NativeMost DEF N!Rest, NativeTypes
  <2>3. Due' = Due - N!Rest(nDue[t]) /\ Owing' = Owing
    <3>1. Due' = Due - nDue[t] + (nDue[t] - N!Rest(nDue[t]))
      BY <2>1, <2>2, NativeDue
    <3>2. Due \in Nat /\ nDue[t] \in Nat
      BY NativeNats DEF NativeTypes
    <3>3. Owing' = Owing
      BY <2>1 DEF Owing
    <3> QED BY <2>2, <3>1, <3>2, <3>3
  <2>4. Cardinality(Waiting') = Cardinality(Waiting)
    BY <2>1, NativeWaiting
  <2>5. (\A u \in Thread : ~N!InBackfill(u)) => Owing = 0
    BY NativeNats DEF N!InBackfill, NativePlaces, NativeTypes
  <2>6. NativeTypes'
    BY <2>1, <2>2 DEF NativeTypes
  <2>7. NativePlaces'
    BY <2>1 DEF NativePlaces, NativeTypes
  <2>8. NativeSums'
    BY <2>1, <2>2, <2>3, <2>4, <2>5, NativeNats DEF NativeSums, NativeTypes
  <2>9. NativeWakers'
    <3>1. CASE N!Rest(nDue[t]) > 0
      BY <2>1, <2>2, <3>1 DEF NativeWakers, Looks, NativeTypes
    <3>2. CASE N!Rest(nDue[t]) = 0
      <4>1. ~Looks(t) /\ \A u \in Thread \ {t} : Looks(u)' <=> Looks(u)
        BY <2>1 DEF Looks
      <4> QED BY <2>1, <3>2, <4>1 DEF NativeWakers, NativeTypes
    <3> QED BY <2>2, <3>1, <3>2
  <2> QED BY <2>6, <2>7, <2>8, <2>9
<1> QED BY <1>1, <1>2

LEMMA NativeStep ==
  ASSUME NativeAssumption, NativeInv, [N!Next]_(N!vars)
  PROVE  NativeInv'
<1>1. CASE UNCHANGED N!vars
  BY <1>1 DEF N!vars, NativeInv, NativeTypes, NativePlaces, NativeSums, NativeWakers, Looks, Due, Owing, Waiting
<1>2. CASE N!Next
  BY <1>2, NativeQuiet, NativeSteal, NativeEnter, NativeTake, NativeBackfill, NativeRelease
  DEF N!Next, N!ThreadStep
<1> QED BY <1>1, <1>2

LEMMA NativeMeans == NativeAssumption /\ NativeInv => NativePermits
<1> SUFFICES ASSUME NativeAssumption, NativeInv PROVE NativePermits
  OBVIOUS
<1> USE DEF NativeInv
<1>1. nFront.permits \in 0..NativeMax
  BY NativeNats, NativeMost DEF NativeTypes, NativeSums
<1>2. N!TypeOK
  BY <1>1, NativeCardinality DEF N!TypeOK, N!MostDue, Most, NativeTypes, NativeSums, Waiting, NativeLabels
<1>3. N!Conserved /\ N!SleepsOnlyWhenFrontEmpty
  BY NativeTotals DEF N!Conserved, N!SleepsOnlyWhenFrontEmpty, NativeSums, NativePlaces
<1>4. N!NoneStranded
  <2> SUFFICES ASSUME ~Overlap, \A t \in Thread : nPc[t] \in {"idle", "asleep"},
                      \E t \in Thread : nPc[t] = "asleep", nSem = 0
               PROVE  nBalance = 0
    BY DEF N!NoneStranded
  <2>1. \A t \in Thread : nDue[t] = 0 /\ nOwed[t] = 0 /\ ~Looks(t)
    BY DEF NativeTypes, NativePlaces, Looks
  <2>2. Due = 0 /\ Owing = 0 /\ nFront.permits = 0
    BY <2>1, NativeNats DEF NativePlaces
  <2>3. nBack = 0
    BY <2>1, <2>2 DEF NativeSums, NativeWakers, NativeTypes
  <2> QED BY <2>2, <2>3 DEF NativeSums
<1> QED BY <1>2, <1>3, <1>4 DEF NativePermits

(* For any number of threads and any amounts: no permit is lost or made,   *)
(* and none is stranded unless a release comes inside a backfill.          *)
THEOREM NativeCorrect == N!Spec => []NativePermits
<1>0. NativeAssumption
  BY SuiteAssumption
<1>1. N!Init => NativeInv
  BY <1>0, NativeInit
<1>2. NativeInv /\ [N!Next]_(N!vars) => NativeInv'
  BY <1>0, NativeStep
<1>3. NativeInv => NativePermits
  BY <1>0, NativeMeans
<1> QED BY <1>1, <1>2, <1>3, PTL DEF N!Spec
=============================================================================
