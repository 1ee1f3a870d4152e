---------------------------- MODULE BarrierProofs ----------------------------
(***************************************************************************)
(* Proofs about the three barriers of MCBarriers, for any finite set of    *)
(* participants and any bound on the phases: the packed barrier, for any   *)
(* counter range above the number of participants; the barrier with a      *)
(* completion function; and the tree barrier, for any byte range divisible *)
(* by 4, from the invariant of TreeBarrierProofs.                          *)
(***************************************************************************)
EXTENDS MCBarriers, FiniteSetTheorems, TLAPS

-----------------------------------------------------------------------------
(* The packed barrier.                                                     *)
Word == [hi : 0..(Half - 1), lo : 0..(Half - 1)]

(* Sums of two halves wrap at most once. *)
LEMMA WrapSmall ==
  ASSUME NEW h \in Nat, NEW x \in 0..(h - 1)
  PROVE  x % h = x /\ x \div h = 0
OBVIOUS

LEMMA WrapLarge ==
  ASSUME NEW h \in Nat, NEW x \in h..(2 * h - 1)
  PROVE  x % h = x - h
OBVIOUS

LEMMA RangeFacts == M \in Nat /\ M >= 2 /\ Half \in Nat /\ Half = 2 * M
<1>1. Cardinality(Thread) \in Nat /\ Cardinality(Thread) # 0
  BY ThreadAssumption, FS_CardinalityType, FS_EmptySet
<1> QED BY <1>1, RangeAssumption DEF Half

(* What fetch_add of an upper-half amount does to the word. *)
LEMMA AddUpper ==
  ASSUME NEW w \in Word, NEW d \in 0..(Half - 1)
  PROVE  /\ FetchAdd(w, d, 0) \in Word
         /\ FetchAdd(w, d, 0).lo = w.lo
         /\ w.hi + d < Half => FetchAdd(w, d, 0).hi = w.hi + d
         /\ w.hi + d >= Half => FetchAdd(w, d, 0).hi = w.hi + d - Half
<1> USE RangeFacts DEF Word
<1>1. w.lo + 0 = w.lo /\ w.lo % Half = w.lo /\ w.lo \div Half = 0
  BY WrapSmall
<1>2. w.hi + d + 0 = w.hi + d /\ w.hi + d \in Nat /\ w.hi + d < 2 * Half
  OBVIOUS
<1>3. CASE w.hi + d < Half
  <2>0. w.hi + d \in 0..(Half - 1)
    BY <1>2, <1>3
  <2>1. (w.hi + d) % Half = w.hi + d
    BY <2>0, WrapSmall
  <2>2. FetchAdd(w, d, 0) = [hi |-> w.hi + d, lo |-> w.lo]
    BY <2>1, <1>1, <1>2 DEF FetchAdd
  <2> QED BY <2>0, <2>2, <1>3
<1>4. CASE w.hi + d >= Half
  <2>1. (w.hi + d) % Half = w.hi + d - Half
    BY <1>4, <1>2, WrapLarge
  <2>2. FetchAdd(w, d, 0) = [hi |-> w.hi + d - Half, lo |-> w.lo]
    BY <2>1, <1>1, <1>2 DEF FetchAdd
  <2>3. w.hi + d - Half \in 0..(Half - 1)
    BY <1>2, <1>4
  <2> QED BY <2>2, <2>3, <1>4
<1> QED BY <1>3, <1>4

(* What fetch_add(__expected_unit) does to the word. *)
LEMMA AddLower ==
  ASSUME NEW w \in Word, w.lo + 1 < Half
  PROVE  /\ FetchAdd(w, 0, 1) \in Word
         /\ FetchAdd(w, 0, 1).lo = w.lo + 1
         /\ FetchAdd(w, 0, 1).hi = w.hi
<1> USE RangeFacts DEF Word
<1>1. (w.lo + 1) % Half = w.lo + 1 /\ (w.lo + 1) \div Half = 0
  BY WrapSmall
<1>2. w.hi + 0 + 0 = w.hi /\ w.hi % Half = w.hi
  BY WrapSmall
<1> QED BY <1>1, <1>2 DEF FetchAdd

-----------------------------------------------------------------------------
(* Cardinalities of sets of participants. *)
LEMMA Card ==
  ASSUME NEW A \in SUBSET Thread
  PROVE  /\ IsFiniteSet(A)
         /\ Cardinality(A) \in Nat
         /\ Cardinality(A) < M
         /\ (Cardinality(A) = 0 <=> A = {})
<1>1. IsFiniteSet(A) /\ Cardinality(A) <= Cardinality(Thread)
  BY ThreadAssumption, FS_Subset
<1> QED BY <1>1, ThreadAssumption, RangeAssumption, FS_CardinalityType, FS_EmptySet

LEMMA CardMono ==
  ASSUME NEW B \in SUBSET Thread, NEW A \in SUBSET B
  PROVE  /\ Cardinality(A) <= Cardinality(B)
         /\ (Cardinality(A) = Cardinality(B) <=> A = B)
BY Card, FS_Subset

LEMMA CardUnion ==
  ASSUME NEW A \in SUBSET Thread, NEW B \in SUBSET Thread, A \cap B = {}
  PROVE  Cardinality(A \cup B) = Cardinality(A) + Cardinality(B)
<1>1. Cardinality(A \cup B) = Cardinality(A) + Cardinality(B) - Cardinality({})
  BY Card, FS_Union
<1> QED BY <1>1, Card, FS_EmptySet

LEMMA CardDiff ==
  ASSUME NEW A \in SUBSET Thread, NEW B \in SUBSET A
  PROVE  Cardinality(A \ B) = Cardinality(A) - Cardinality(B)
<1>1. (A \ B) \cap B = {} /\ (A \ B) \cup B = A
  OBVIOUS
<1>2. Cardinality(A) = Cardinality(A \ B) + Cardinality(B)
  BY <1>1, CardUnion
<1>3. Cardinality(A \ B) \in Nat /\ Cardinality(B) \in Nat
  BY Card
<1> QED BY <1>2, <1>3
-----------------------------------------------------------------------------
(* While the barrier has members its phase bit is the parity of the phase. *)
LEMMA PhaseBitIsParity ==
  ASSUME WordInv, members # {}
  PROVE  PhaseBit(word) = phase % 2
<1> USE RangeFacts DEF WordInv, TypeOK, HistoryTypeOK, Roles
<1>1. /\ Cardinality(members) \in Nat /\ Cardinality(members) < M
      /\ Cardinality(arrived) \in Nat /\ Cardinality(arrived) < Cardinality(members)
  BY Card, CardMono
<1>2. word.hi \in Nat /\ phase % 2 \in {0, 1}
  OBVIOUS
<1>3. Base(phase) <= word.hi /\ word.hi < Base(phase) + M
  BY <1>1, <1>2 DEF ArrivedCounts, Base
<1> QED BY <1>2, <1>3 DEF PhaseBit, Base

(* The heart of the argument: an arrival carries into the phase bit exactly *)
(* when it is the last one the phase waits for, and never in the window.    *)
LEMMA Completion ==
  ASSUME WordInv,
         NEW S \in SUBSET Thread, S # {},
         \A u \in S : pc[u] \in {Idle, Drop},
         \A u \in Thread : pc[u] # DropReload
  PROVE  LET new == FetchAdd(word, Cardinality(S), 0)
         IN  /\ new \in Word
             /\ new.lo = word.lo
             /\ S \subseteq members \ arrived
             /\ PhaseBit(word) = phase % 2
             /\ ~Completes(S) => arrived \cup S # members /\ new.hi = word.hi + Cardinality(S)
             /\ Completes(S) => /\ Reloading = {}
                               /\ arrived \cup S = members
                               /\ new.hi = Base(phase + 1)
<1> DEFINE n == Cardinality(S)
           new == FetchAdd(word, n, 0)
<1> USE RangeFacts
<1>1. S \subseteq members \ arrived /\ members \in SUBSET Thread /\ arrived \in SUBSET members
  BY DEF WordInv, Roles, TypeOK, HistoryTypeOK
<1>2. /\ n \in Nat /\ n > 0 /\ n < M
      /\ Cardinality(arrived) \in Nat
      /\ Cardinality(members) \in Nat /\ Cardinality(members) < M
      /\ Cardinality(arrived \cup S) = Cardinality(arrived) + n
      /\ Cardinality(arrived) + n <= Cardinality(members)
      /\ (Cardinality(arrived) + n = Cardinality(members) <=> arrived \cup S = members)
  <2>1. arrived \cup S \in SUBSET members /\ arrived \cap S = {}
    BY <1>1
  <2>2. Cardinality(arrived \cup S) = Cardinality(arrived) + n
    BY <1>1, <2>1, CardUnion
  <2>3. /\ Cardinality(arrived \cup S) <= Cardinality(members)
        /\ (Cardinality(arrived \cup S) = Cardinality(members) <=> arrived \cup S = members)
    BY <1>1, <2>1, CardMono
  <2>4. n \in Nat /\ n # 0 /\ n < M
    BY Card
  <2>5. /\ Cardinality(arrived) \in Nat
        /\ Cardinality(members) \in Nat /\ Cardinality(members) < M
    BY <1>1, Card
  <2> QED BY <2>2, <2>3, <2>4, <2>5
<1>3. word \in Word /\ phase \in Nat
  BY DEF WordInv, TypeOK, HistoryTypeOK, Word
<1>4. /\ new \in Word
      /\ new.lo = word.lo
      /\ word.hi + n < Half => new.hi = word.hi + n
      /\ word.hi + n >= Half => new.hi = word.hi + n - Half
  <2>1. n \in 0..(Half - 1)
    BY <1>2
  <2> QED BY <2>1, <1>3, AddUpper
<1>5. PhaseBit(word) = phase % 2 /\ members # {}
  BY <1>1, PhaseBitIsParity
<1>6. (phase + 1) % 2 = 1 - (phase % 2) /\ phase % 2 \in {0, 1}
  BY <1>3
<1>7. CASE Reloading = {}
  <2>1. word.hi = Base(phase) + M - Cardinality(members) + Cardinality(arrived)
    BY <1>5, <1>7 DEF WordInv, ArrivedCounts
  <2>2. CASE arrived \cup S = members
    <3>1. word.hi + n = Base(phase) + M
      BY <2>1, <2>2, <1>2, <1>3 DEF Base
    <3>2. new.hi = Base(phase + 1)
      BY <3>1, <1>2, <1>3, <1>4, <1>6 DEF Base, Word
    <3>3. PhaseBit(new) = (phase + 1) % 2
      BY <3>2, <1>6, <1>3 DEF PhaseBit, Base
    <3>4. Completes(S)
      BY <3>3, <1>5, <1>6, <1>3 DEF Completes, Added
    <3> QED BY <3>2, <3>4, <2>2, <1>1, <1>4, <1>5, <1>7
  <2>3. CASE arrived \cup S # members
    <3>1. word.hi + n < Base(phase) + M /\ word.hi + n < Half /\ word.hi + n >= Base(phase)
      BY <2>1, <2>3, <1>2, <1>3 DEF Base
    <3>2. PhaseBit(new) = phase % 2
      BY <3>1, <1>4, <1>6, <1>3 DEF PhaseBit, Base, Word
    <3> QED BY <3>1, <3>2, <2>3, <1>1, <1>4, <1>5 DEF Completes, Added
  <2> QED BY <2>2, <2>3
<1>8. CASE Reloading # {}
  <2>1. word.hi = Base(phase) + Cardinality(arrived)
    BY <1>5, <1>8 DEF WordInv, ArrivedCounts
  <2>2. PICK r \in Thread : pc[r] = Reload
    BY <1>8 DEF Reloading
  <2>3. r \in members /\ r \notin arrived /\ r \notin S
    BY <2>2 DEF WordInv, Roles, Idle, Drop, Reload
  <2>4. word.hi + n < Base(phase) + M /\ word.hi + n < Half /\ word.hi + n >= Base(phase)
    BY <2>1, <1>2, <1>3 DEF Base
  <2>5. PhaseBit(new) = phase % 2
    BY <2>4, <1>4, <1>6, <1>3 DEF PhaseBit, Base, Word
  <2> QED BY <2>3, <2>4, <2>5, <1>1, <1>4, <1>5 DEF Completes, Added
<1> QED BY <1>7, <1>8

-----------------------------------------------------------------------------
PCs == {Idle, Reload, Lane, Wait, Drop, DropReload, Gone}

LEMMA InitInv == Init => WordInv
<1> SUFFICES ASSUME Init PROVE WordInv
  OBVIOUS
<1> USE RangeFacts DEF Init, InitHistory, Idle, Reload, Lane, Wait, Drop, DropReload, Gone
<1>1. /\ Cardinality(Thread) \in Nat /\ Cardinality(Thread) < M
      /\ Cardinality({}) = 0
  BY Card, FS_EmptySet
<1>2. Dropping = {} /\ Reloading = {}
  BY DEF Dropping, Reloading
<1>3. word.hi = M - Cardinality(Thread) /\ word.lo = M - Cardinality(Thread)
  BY DEF InitWord
<1>4. TypeOK
  BY <1>1 DEF TypeOK, HistoryTypeOK, InitWord
<1>5. ExpectedCounts
  BY <1>1, <1>2, <1>3 DEF ExpectedCounts
<1>6. ArrivedCounts
  BY <1>1, <1>2, <1>3 DEF ArrivedCounts, Base
<1>7. Roles
  BY ThreadAssumption DEF Roles
<1>8. OneReload /\ NeverTwoBehind
  BY <1>2 DEF OneReload, NeverTwoBehind
<1>9. Watching
  BY DEF Watching
<1> QED BY <1>4, <1>5, <1>6, <1>7, <1>8, <1>9 DEF WordInv

LEMMA ArriveInv ==
  ASSUME Quiesce, WordInv, NEW t \in Thread, NEW S \in SUBSET Thread, Arrive(t, S)
  PROVE  WordInv'
<1> USE DEF Idle, Reload, Lane, Wait, Drop, DropReload, Gone
<1> DEFINE new == FetchAdd(word, Cardinality(S), 0)
<1>1. /\ t \in S /\ \A u \in S : pc[u] = Idle
      /\ \A u \in Thread : pc[u] # DropReload
  BY DEF Arrive, MayArrive
<1>2. /\ new \in Word
      /\ new.lo = word.lo
      /\ S \subseteq members \ arrived
      /\ PhaseBit(word) = phase % 2
      /\ ~Completes(S) => arrived \cup S # members /\ new.hi = word.hi + Cardinality(S)
      /\ Completes(S) => /\ Reloading = {}
                         /\ arrived \cup S = members
                         /\ new.hi = Base(phase + 1)
  BY <1>1, Completion
<1>3. word' = new
  BY DEF Arrive, FetchAddArrived, Added
<1>4. /\ token' = [u \in Thread |-> IF u \in S THEN phase % 2 ELSE token[u]]
      /\ at' = [u \in Thread |-> IF u \in S THEN phase ELSE at[u]]
      /\ watch' = watch
  BY <1>2 DEF Arrive, FetchAddArrived, Added, Record, TokenOf
<1>5. /\ TypeOK /\ OneReload /\ ExpectedCounts /\ ArrivedCounts /\ Roles /\ NeverTwoBehind /\ Watching
      /\ phase \in Nat /\ phase % 2 \in {0, 1}
  BY DEF WordInv, TypeOK, HistoryTypeOK
<1>6. /\ members \in SUBSET Thread /\ arrived \in SUBSET members /\ leaving \in SUBSET arrived
      /\ Cardinality(members) \in Nat /\ Cardinality(arrived) \in Nat
      /\ Cardinality(S) \in Nat /\ Cardinality(leaving) \in Nat
      /\ Cardinality(Dropping) \in Nat
      /\ Cardinality(members) < M
  BY <1>5, Card DEF TypeOK, HistoryTypeOK, Roles, Dropping
<1>7. CASE ~Completes(S)
  <2>1. /\ pc' = [u \in Thread |-> IF u \in S THEN Wait ELSE pc[u]]
        /\ UNCHANGED <<snap, team, phase, members>>
        /\ arrived' = arrived \cup S
        /\ leaving' = leaving
    BY <1>7 DEF Arrive, FetchAddArrived, Record, Completes, Added
  <2>2. TypeOK'
    BY <2>1, <1>2, <1>3, <1>4, <1>5, <1>6 DEF TypeOK, HistoryTypeOK, Word
  <2>3. Reloading' = Reloading /\ Dropping' = Dropping
    BY <2>1, <1>1, <1>5 DEF TypeOK, HistoryTypeOK, Reloading, Dropping
  <2>4. OneReload'
    BY <2>3, <1>5 DEF OneReload
  <2>5. ExpectedCounts'
    BY <2>1, <2>3, <1>2, <1>3, <1>5 DEF ExpectedCounts
  <2>6. Cardinality(arrived \cup S) = Cardinality(arrived) + Cardinality(S)
    BY <1>2, <1>6, CardUnion
  <2>7. ArrivedCounts'
    BY <2>1, <2>3, <2>6, <1>2, <1>3, <1>5, <1>6, <1>7, RangeFacts DEF ArrivedCounts, Base
  <2>8. Roles'
    BY <2>1, <2>3, <1>1, <1>2, <1>4, <1>5, <1>6, <1>7 DEF Roles, TypeOK, HistoryTypeOK
  <2>9. NeverTwoBehind'
    BY <2>1, <1>1, <1>4, <1>5 DEF NeverTwoBehind, TypeOK, HistoryTypeOK
  <2>10. Watching'
    BY <2>1, <1>4, <1>5 DEF Watching
  <2> QED BY <2>2, <2>4, <2>5, <2>7, <2>8, <2>9, <2>10 DEF WordInv
<1>8. CASE Completes(S)
  <2>1. /\ pc' = [u \in Thread |-> IF u = t THEN Reload ELSE IF u \in S THEN Lane ELSE pc[u]]
        /\ snap' = [snap EXCEPT ![t] = word.lo]
        /\ team' = [team EXCEPT ![t] = S]
        /\ phase' = phase + 1
        /\ members' = members \ leaving
        /\ arrived' = {} /\ leaving' = {}
    BY <1>8 DEF Arrive, FetchAddArrived, Record, Completes, Added
  <2>2. TypeOK'
    BY <2>1, <1>2, <1>3, <1>4, <1>5, <1>6 DEF TypeOK, HistoryTypeOK, Word
  <2>3. Reloading' = {t} /\ Dropping' = {} /\ Dropping = {}
    BY <2>1, <1>1, <1>2, <1>5, <1>8 DEF TypeOK, HistoryTypeOK, Reloading, Dropping, Roles
  <2>4. OneReload'
    BY <2>3 DEF OneReload
  <2>5. /\ Cardinality(members') = Cardinality(members) - Cardinality(leaving)
        /\ Cardinality({}) = 0
    BY <2>1, <1>6, CardDiff, FS_EmptySet
  <2>6. word.lo = M - Cardinality(members')
    BY <2>3, <2>5, <1>5, <1>6, RangeFacts DEF ExpectedCounts
  <2>7. ExpectedCounts'
    BY <2>1, <2>3, <2>5, <2>6, <1>2, <1>3, <1>6, RangeFacts DEF ExpectedCounts
  <2>8. ArrivedCounts'
    BY <2>1, <2>3, <2>5, <2>6, <1>2, <1>3, <1>5, <1>8, RangeFacts DEF ArrivedCounts, Base, TypeOK, HistoryTypeOK
  <2>9. Roles'
    BY <2>1, <2>3, <1>1, <1>2, <1>4, <1>5, <1>6, <1>8 DEF Roles, TypeOK, HistoryTypeOK, NeverTwoBehind
  <2>10. NeverTwoBehind'
    BY <2>1, <1>1, <1>2, <1>4, <1>5, <1>6, <1>8 DEF NeverTwoBehind, TypeOK, HistoryTypeOK, Roles
  <2>11. Watching'
    BY <2>1, <1>4, <1>5 DEF Watching, TypeOK, HistoryTypeOK
  <2> QED BY <2>2, <2>4, <2>7, <2>8, <2>9, <2>10, <2>11 DEF WordInv
<1> QED BY <1>7, <1>8

LEMMA ReloadInv ==
  ASSUME WordInv, NEW t \in Thread, ArriveReload(t) \/ DropReloadStep(t)
  PROVE  WordInv'
<1> USE DEF Idle, Reload, Lane, Wait, Drop, DropReload, Gone
<1>1. /\ TypeOK /\ OneReload /\ ExpectedCounts /\ ArrivedCounts /\ Roles /\ NeverTwoBehind /\ Watching
      /\ phase \in Nat /\ phase % 2 \in {0, 1}
  BY DEF WordInv, TypeOK, HistoryTypeOK
<1>2. /\ t \in Reloading
      /\ UNCHANGED <<token, snap, watch, phase, members, arrived, leaving, at>>
      /\ word' = FetchAdd(word, snap[t], 0)
  BY DEF ArriveReload, DropReloadStep, ReloadAmount, Reloading, history
<1>3. word' \in Word /\ word'.lo = word.lo
  BY <1>1, <1>2, AddUpper DEF TypeOK, HistoryTypeOK, Word
<1>4. /\ Reloading = {t}
      /\ \A u \in Thread : pc[u] \in {Reload, DropReload} => u = t
  BY <1>1, <1>2 DEF OneReload, Reloading
<1>5. /\ pc' \in [Thread -> PCs] /\ team' \in [Thread -> SUBSET Thread]
      /\ pc'[t] \in {Wait, Gone}
      /\ pc[t] = Reload => pc'[t] = Wait
      /\ pc[t] = DropReload => pc'[t] = Gone
      /\ \A u \in Thread : u # t =>
            \/ pc'[u] = pc[u] /\ pc[u] # Lane
            \/ pc[u] = Lane /\ pc'[u] = Wait
  <2>1. CASE ArriveReload(t)
    BY <2>1, <1>1, <1>4 DEF ArriveReload, Returning, TypeOK, HistoryTypeOK, PCs, Roles
  <2>2. CASE DropReloadStep(t)
    <3>1. pc[t] = DropReload /\ pc' = [pc EXCEPT ![t] = Gone] /\ team' = team
      BY <2>2 DEF DropReloadStep
    <3>2. \A u \in Thread : pc[u] # Lane
      BY <3>1, <1>1, <1>4 DEF Roles
    <3> QED BY <3>1, <3>2, <1>1 DEF TypeOK, HistoryTypeOK, PCs
  <2> QED BY <2>1, <2>2
<1>6. Reloading' = {} /\ Dropping' = Dropping
  BY <1>4, <1>5 DEF Reloading, Dropping
<1>7. TypeOK'
  BY <1>1, <1>2, <1>3, <1>5 DEF TypeOK, HistoryTypeOK, Word, PCs
<1>8. OneReload'
  BY <1>6 DEF OneReload
<1>9. ExpectedCounts'
  BY <1>1, <1>2, <1>3, <1>6 DEF ExpectedCounts
<1>10. ArrivedCounts'
  <2> SUFFICES ASSUME members # {} 
               PROVE  word'.hi = Base(phase) + M - Cardinality(members) + Cardinality(arrived)
    BY <1>2, <1>6 DEF ArrivedCounts, Base
  <2>1. /\ word.hi = Base(phase) + Cardinality(arrived)
        /\ snap[t] = M - Cardinality(members)
    BY <1>1, <1>4 DEF ArrivedCounts
  <2>2. /\ Cardinality(members) \in Nat /\ Cardinality(members) < M
        /\ Cardinality(arrived) \in Nat /\ Cardinality(arrived) < Cardinality(members)
    BY <1>1, Card, CardMono DEF TypeOK, HistoryTypeOK, Roles
  <2>3. word.hi + snap[t] < Half
    BY <2>1, <2>2, RangeFacts DEF Base
  <2>4. word \in Word /\ snap[t] \in 0..(Half - 1)
    BY <1>1 DEF TypeOK, HistoryTypeOK, Word
  <2>5. word'.hi = word.hi + snap[t]
    BY <2>3, <2>4, <1>2, AddUpper
  <2> QED BY <2>1, <2>2, <2>5, RangeFacts DEF Base
<1>11. \A u \in Thread :
         \/ pc'[u] = pc[u] /\ pc[u] \in {Idle, Wait, Drop, Gone}
         \/ pc[u] \in {Lane, Reload} /\ pc'[u] = Wait
         \/ pc[u] = DropReload /\ pc'[u] = Gone
  BY <1>1, <1>2, <1>4, <1>5 DEF TypeOK, HistoryTypeOK, Reloading
<1>12. Roles'
  <2> SUFFICES ASSUME NEW u \in Thread
               PROVE  /\ pc'[u] \in {Idle, Drop, Lane, Reload} => u \in members \ arrived
                      /\ pc'[u] = Wait => u \in members \ leaving
                      /\ pc'[u] = Gone => u \in leaving \/ u \notin members
                      /\ pc'[u] \notin {DropReload, Lane, Reload}
                      /\ pc'[u] = Wait => (at[u] = phase <=> u \in arrived)
                      /\ u \in leaving => pc'[u] = Gone
    BY <1>1, <1>2 DEF Roles
  <2> QED BY <1>1, <1>11 DEF Roles
<1>13. NeverTwoBehind'
  BY <1>1, <1>2, <1>11 DEF NeverTwoBehind
<1>14. Watching'
  BY <1>1, <1>2 DEF Watching
<1> QED BY <1>7, <1>8, <1>9, <1>10, <1>12, <1>13, <1>14 DEF WordInv

LEMMA WaitInv ==
  ASSUME WordInv, NEW t \in Thread, WaitToken(t)
  PROVE  WordInv' /\ at[t] < phase
<1> USE DEF Idle, Reload, Lane, Wait, Drop, DropReload, Gone
<1>1. /\ TypeOK /\ OneReload /\ ExpectedCounts /\ ArrivedCounts /\ Roles /\ NeverTwoBehind /\ Watching
      /\ phase \in Nat /\ phase % 2 \in {0, 1}
  BY DEF WordInv, TypeOK, HistoryTypeOK
<1>2. /\ pc[t] = Wait /\ PhaseBit(word) # token[t]
      /\ pc' = [pc EXCEPT ![t] = Idle]
      /\ UNCHANGED <<word, token, snap, team, watch, phase, members, arrived, leaving, at>>
  BY DEF WaitToken, history
<1>3. PhaseBit(word) = phase % 2
  BY <1>1, <1>2, PhaseBitIsParity DEF Roles
<1>4. at[t] = phase - 1 /\ at[t] \in Nat /\ t \in members \ arrived
  BY <1>1, <1>2, <1>3 DEF NeverTwoBehind, Roles, TypeOK, HistoryTypeOK
<1>5. Reloading' = Reloading /\ Dropping' = Dropping
  BY <1>1, <1>2 DEF TypeOK, HistoryTypeOK, Reloading, Dropping
<1>6. TypeOK' /\ OneReload' /\ ExpectedCounts' /\ NeverTwoBehind' /\ Watching'
  BY <1>1, <1>2, <1>5 DEF TypeOK, HistoryTypeOK, OneReload, ExpectedCounts, NeverTwoBehind, Watching
<1>7. ArrivedCounts'
  BY <1>1, <1>2, <1>5 DEF ArrivedCounts, Base
<1>8. Roles'
  BY <1>1, <1>2, <1>4, <1>5 DEF Roles, TypeOK, HistoryTypeOK
<1> QED BY <1>1, <1>4, <1>6, <1>7, <1>8 DEF WordInv

LEMMA DropExpectedInv ==
  ASSUME Quiesce, WordInv, NEW t \in Thread, DropExpected(t)
  PROVE  WordInv'
<1> USE DEF Idle, Reload, Lane, Wait, Drop, DropReload, Gone
<1>1. /\ TypeOK /\ OneReload /\ ExpectedCounts /\ ArrivedCounts /\ Roles /\ NeverTwoBehind /\ Watching
  BY DEF WordInv
<1>2. /\ pc[t] = Idle /\ \A u \in Thread : pc[u] # DropReload
      /\ pc' = [pc EXCEPT ![t] = Drop]
      /\ word' = FetchAdd(word, 0, 1)
      /\ UNCHANGED <<token, snap, team, watch, phase, members, arrived, leaving, at>>
  BY DEF DropExpected, MayArrive, history
<1>3. Reloading' = Reloading /\ Dropping' = Dropping \cup {t} /\ t \notin Dropping
  BY <1>1, <1>2 DEF TypeOK, HistoryTypeOK, Reloading, Dropping
<1>4. /\ Dropping \cup {t} \in SUBSET members /\ leaving \cap (Dropping \cup {t}) = {}
      /\ leaving \in SUBSET members /\ members \in SUBSET Thread
  BY <1>1, <1>2 DEF TypeOK, HistoryTypeOK, Roles, Dropping
<1>5. /\ Cardinality(Dropping \cup {t}) = Cardinality(Dropping) + 1
      /\ Cardinality(leaving) + Cardinality(Dropping) + 1 <= Cardinality(members)
      /\ Cardinality(Dropping) \in Nat /\ Cardinality(leaving) \in Nat
      /\ Cardinality(members) \in Nat
  <2>1. Cardinality(Dropping \cup {t}) = Cardinality(Dropping) + Cardinality({t})
    BY <1>3, <1>4, CardUnion
  <2>2. Cardinality({t}) = 1
    BY FS_Singleton
  <2>3. Cardinality(leaving \cup (Dropping \cup {t})) = Cardinality(leaving) + Cardinality(Dropping \cup {t})
    BY <1>4, CardUnion
  <2>4. Cardinality(leaving \cup (Dropping \cup {t})) <= Cardinality(members)
    BY <1>4, CardMono
  <2>5. Cardinality(Dropping) \in Nat /\ Cardinality(leaving) \in Nat /\ Cardinality(members) \in Nat
    BY <1>4, Card
  <2> QED BY <2>1, <2>2, <2>3, <2>4, <2>5
<1>6. word \in Word /\ word.lo + 1 <= M
  BY <1>1, <1>5, RangeFacts DEF ExpectedCounts, TypeOK, HistoryTypeOK, Word
<1>7. word' \in Word /\ word'.lo = word.lo + 1 /\ word'.hi = word.hi
  <2>1. word.lo + 1 < Half
    BY <1>6, RangeFacts DEF Word
  <2> QED BY <2>1, <1>2, <1>6, AddLower
<1>8. TypeOK' /\ OneReload' /\ NeverTwoBehind' /\ Watching'
  BY <1>1, <1>2, <1>3, <1>7 DEF TypeOK, HistoryTypeOK, OneReload, NeverTwoBehind, Watching, Word
<1>9. ExpectedCounts'
  BY <1>1, <1>2, <1>3, <1>5, <1>7, RangeFacts DEF ExpectedCounts
<1>10. ArrivedCounts'
  BY <1>1, <1>2, <1>3, <1>7 DEF ArrivedCounts, Base
<1>11. Roles'
  BY <1>1, <1>2, <1>3 DEF Roles, TypeOK, HistoryTypeOK
<1> QED BY <1>8, <1>9, <1>10, <1>11 DEF WordInv

LEMMA DropArriveInv ==
  ASSUME WordInv, NEW t \in Thread, DropArrive(t)
  PROVE  WordInv'
<1> USE DEF Idle, Reload, Lane, Wait, Drop, DropReload, Gone
<1> DEFINE new == FetchAdd(word, Cardinality({t}), 0)
<1>1. /\ TypeOK /\ OneReload /\ ExpectedCounts /\ ArrivedCounts /\ Roles /\ NeverTwoBehind /\ Watching
      /\ phase \in Nat /\ phase % 2 \in {0, 1}
  BY DEF WordInv, TypeOK, HistoryTypeOK
<1>2. /\ pc[t] = Drop /\ t \in Dropping
      /\ \A u \in Thread : pc[u] # DropReload
  BY <1>1 DEF DropArrive, Dropping, Roles
<1>3. /\ new \in Word
      /\ new.lo = word.lo
      /\ t \in members \ arrived
      /\ ~Completes({t}) => arrived \cup {t} # members /\ new.hi = word.hi + Cardinality({t})
      /\ Completes({t}) => /\ Reloading = {}
                           /\ arrived \cup {t} = members
                           /\ new.hi = Base(phase + 1)
  <2>1. {t} \in SUBSET Thread /\ {t} # {} /\ \A u \in {t} : pc[u] \in {Idle, Drop}
    BY <1>2
  <2> QED BY <2>1, <1>2, Completion
<1>4. /\ word' = new
      /\ at' = [u \in Thread |-> IF u \in {t} THEN phase ELSE at[u]]
      /\ UNCHANGED <<token, team, watch>>
  BY DEF DropArrive, FetchAddArrived, Added, Record
<1>5. /\ members \in SUBSET Thread /\ arrived \in SUBSET members /\ leaving \in SUBSET arrived
      /\ Cardinality(members) \in Nat /\ Cardinality(arrived) \in Nat
      /\ Cardinality(leaving) \in Nat /\ Cardinality(Dropping) \in Nat
      /\ Cardinality(members) < M
      /\ Cardinality({t}) = 1 /\ Cardinality({}) = 0
  BY <1>1, Card, FS_Singleton, FS_EmptySet DEF TypeOK, HistoryTypeOK, Roles, Dropping
<1>6. CASE ~Completes({t})
  <2>1. /\ pc' = [pc EXCEPT ![t] = Gone]
        /\ UNCHANGED <<snap, phase, members>>
        /\ arrived' = arrived \cup {t}
        /\ leaving' = leaving \cup {t}
    BY <1>6 DEF DropArrive, FetchAddArrived, Record, Completes, Added
  <2>2. TypeOK'
    BY <2>1, <1>1, <1>3, <1>4, <1>5 DEF TypeOK, HistoryTypeOK, Word
  <2>3. Reloading' = Reloading /\ Dropping' = Dropping \ {t}
    BY <2>1, <1>1, <1>2 DEF TypeOK, HistoryTypeOK, Reloading, Dropping
  <2>4. OneReload'
    BY <2>3, <1>1 DEF OneReload
  <2>5. /\ Cardinality(arrived \cup {t}) = Cardinality(arrived) + 1
        /\ Cardinality(leaving \cup {t}) = Cardinality(leaving) + 1
        /\ Cardinality(Dropping \ {t}) = Cardinality(Dropping) - 1
    <3>1. /\ {t} \in SUBSET Thread /\ {t} \in SUBSET Dropping /\ Dropping \in SUBSET Thread
          /\ arrived \in SUBSET Thread /\ leaving \in SUBSET Thread
          /\ arrived \cap {t} = {} /\ leaving \cap {t} = {}
      BY <1>2, <1>3, <1>5 DEF Dropping
    <3>2. Cardinality(arrived \cup {t}) = Cardinality(arrived) + Cardinality({t})
      BY <3>1, CardUnion
    <3>3. Cardinality(leaving \cup {t}) = Cardinality(leaving) + Cardinality({t})
      BY <3>1, CardUnion
    <3>4. Cardinality(Dropping \ {t}) = Cardinality(Dropping) - Cardinality({t})
      BY <3>1, CardDiff
    <3> QED BY <3>2, <3>3, <3>4, <1>5
  <2>6. ExpectedCounts'
    BY <2>1, <2>3, <2>5, <1>1, <1>3, <1>4, <1>5, RangeFacts DEF ExpectedCounts
  <2>7. ArrivedCounts'
    BY <2>1, <2>3, <2>5, <1>1, <1>3, <1>4, <1>5, <1>6, RangeFacts DEF ArrivedCounts, Base
  <2>8. Roles'
    BY <2>1, <2>3, <1>1, <1>2, <1>3, <1>4, <1>5, <1>6 DEF Roles, TypeOK, HistoryTypeOK
  <2>9. NeverTwoBehind' /\ Watching'
    BY <2>1, <1>1, <1>2, <1>4 DEF NeverTwoBehind, TypeOK, HistoryTypeOK, Watching
  <2> QED BY <2>2, <2>4, <2>6, <2>7, <2>8, <2>9 DEF WordInv
<1>7. CASE Completes({t})
  <2>1. /\ pc' = [pc EXCEPT ![t] = DropReload]
        /\ snap' = [snap EXCEPT ![t] = word.lo]
        /\ phase' = phase + 1
        /\ members' = members \ (leaving \cup {t})
        /\ arrived' = {} /\ leaving' = {}
    BY <1>7 DEF DropArrive, FetchAddArrived, Record, Completes, Added
  <2>2. TypeOK'
    BY <2>1, <1>1, <1>3, <1>4, <1>5 DEF TypeOK, HistoryTypeOK, Word
  <2>3. Reloading' = {t} /\ Dropping' = {} /\ Dropping = {t}
    BY <2>1, <1>1, <1>2, <1>3, <1>7 DEF TypeOK, HistoryTypeOK, Reloading, Dropping, Roles
  <2>4. OneReload'
    BY <2>3 DEF OneReload
  <2>5. Cardinality(members') = Cardinality(members) - Cardinality(leaving) - 1
    <3>1. /\ leaving \cup {t} \in SUBSET members
          /\ leaving \in SUBSET Thread /\ {t} \in SUBSET Thread /\ leaving \cap {t} = {}
      BY <1>3, <1>5
    <3>2. Cardinality(leaving \cup {t}) = Cardinality(leaving) + 1
      BY <3>1, <1>5, CardUnion
    <3>3. Cardinality(members \ (leaving \cup {t})) = Cardinality(members) - Cardinality(leaving \cup {t})
      BY <3>1, <1>5, CardDiff
    <3> QED BY <3>2, <3>3, <2>1, <1>5
  <2>6. word.lo = M - Cardinality(members')
    BY <2>3, <2>5, <1>1, <1>5, RangeFacts DEF ExpectedCounts
  <2>7. ExpectedCounts'
    BY <2>1, <2>3, <2>5, <2>6, <1>3, <1>4, <1>5, RangeFacts DEF ExpectedCounts
  <2>8. ArrivedCounts'
    BY <2>1, <2>3, <2>5, <2>6, <1>1, <1>3, <1>4, <1>5, <1>7, RangeFacts DEF ArrivedCounts, Base, TypeOK, HistoryTypeOK
  <2>9. Roles'
    BY <2>1, <2>3, <1>1, <1>2, <1>3, <1>4, <1>5, <1>7 DEF Roles, TypeOK, HistoryTypeOK, NeverTwoBehind
  <2>10. NeverTwoBehind' /\ Watching'
    BY <2>1, <1>1, <1>2, <1>3, <1>4, <1>5, <1>7 DEF NeverTwoBehind, TypeOK, HistoryTypeOK, Roles, Watching
  <2> QED BY <2>2, <2>4, <2>7, <2>8, <2>9, <2>10 DEF WordInv
<1> QED BY <1>6, <1>7

LEMMA WatchInv ==
  ASSUME WordInv, NEW o \in Observer, WatchStart(o) \/ WatchEnd(o)
  PROVE  WordInv'
<1>1. /\ UNCHANGED <<word, pc, token, snap, team, phase, members, arrived, leaving, at>>
      /\ \/ watch' = [watch EXCEPT ![o] = 1 + phase] /\ members # {}
         \/ watch' = [watch EXCEPT ![o] = 0]
  BY DEF WatchStart, WatchEnd, history
<1>2. Reloading' = Reloading /\ Dropping' = Dropping
  BY <1>1 DEF Reloading, Dropping
<1>3. TypeOK' /\ Watching'
  BY <1>1 DEF WordInv, TypeOK, HistoryTypeOK, Watching
<1>4. OneReload' /\ ExpectedCounts' /\ ArrivedCounts' /\ Roles' /\ NeverTwoBehind'
  BY <1>1, <1>2 DEF WordInv, OneReload, ExpectedCounts, ArrivedCounts, Base, Roles, NeverTwoBehind
<1> QED BY <1>3, <1>4 DEF WordInv

LEMMA StutterInv ==
  ASSUME WordInv, UNCHANGED vars
  PROVE  WordInv'
<1>1. Reloading' = Reloading /\ Dropping' = Dropping
  BY DEF vars, Reloading, Dropping
<1> QED BY <1>1 DEF vars, WordInv, TypeOK, HistoryTypeOK, OneReload, ExpectedCounts, ArrivedCounts, Base, Roles,
              NeverTwoBehind, Watching

LEMMA NextInv ==
  ASSUME Quiesce, WordInv, [Next]_vars
  PROVE  WordInv'
BY ArriveInv, ReloadInv, WaitInv, DropExpectedInv, DropArriveInv, WatchInv, StutterInv
   DEF Next, ThreadStep, Finished

(***************************************************************************)
(* The word always counts exactly the arrivals that are missing and the    *)
(* threads that remain, and no phase ends in the window between the two    *)
(* fetch_adds, for every number of threads below the counter's range.      *)
(***************************************************************************)
THEOREM WordCorrect == Quiesce => (Spec => []WordInv)
<1>1. ASSUME Quiesce PROVE Spec => []WordInv
  <2>1. WordInv /\ [Next]_vars => WordInv'
    BY <1>1, NextInv
  <2> QED BY <2>1, InitInv, PTL DEF Spec
<1> QED BY <1>1

-----------------------------------------------------------------------------
(* One step of the packed barrier is one step of the abstract one, or none. *)
LEMMA ArriveRefines ==
  ASSUME Quiesce, WordInv, NEW t \in Thread, NEW S \in SUBSET Thread, Arrive(t, S)
  PROVE  Abs!AbsArrive(S)
<1> USE DEF Idle, Reload, Lane, Wait, Drop, DropReload, Gone
<1>1. /\ t \in S /\ \A u \in S : pc[u] = Idle
      /\ \A u \in Thread : pc[u] # DropReload
  BY DEF Arrive, MayArrive
<1>2. /\ S \subseteq members \ arrived
      /\ Completes(S) <=> arrived \cup S = members
  BY <1>1, Completion
<1>3. Abs!Account(S, {})
  BY <1>2 DEF Arrive, FetchAddArrived, Record, Completes, Added, Abs!Account
<1>4. /\ pc \in [Thread -> PCs]
      /\ \A u \in Thread : pc'[u] = IF u \notin S THEN pc[u] ELSE pc'[u]
      /\ \A u \in S : pc'[u] \in {Wait, Reload, Lane}
  BY <1>1 DEF Arrive, WordInv, TypeOK, HistoryTypeOK, PCs
<1>5. [u \in Thread |-> ModeOf(pc'[u])]
        = [u \in Thread |-> IF u \in S THEN "held" ELSE [x \in Thread |-> ModeOf(pc[x])][u]]
  BY <1>4 DEF ModeOf
<1>6. \A u \in S : [x \in Thread |-> ModeOf(pc[x])][u] = "run"
  BY <1>1 DEF ModeOf
<1> QED BY <1>1, <1>2, <1>3, <1>5, <1>6 DEF Abs!AbsArrive

LEMMA DropRefines ==
  ASSUME WordInv, NEW t \in Thread, DropArrive(t)
  PROVE  Abs!AbsDrop(t)
<1> USE DEF Idle, Reload, Lane, Wait, Drop, DropReload, Gone
<1>1. pc[t] = Drop /\ \A u \in Thread : pc[u] # DropReload
  BY DEF DropArrive, WordInv, Roles, Dropping
<1>2. /\ t \in members \ arrived
      /\ Completes({t}) <=> arrived \cup {t} = members
  <2>1. {t} \in SUBSET Thread /\ {t} # {} /\ \A u \in {t} : pc[u] \in {Idle, Drop}
    BY <1>1
  <2> QED BY <2>1, <1>1, Completion
<1>3. Abs!Account({t}, {t})
  BY <1>2 DEF DropArrive, FetchAddArrived, Record, Completes, Added, Abs!Account
<1>4. /\ pc \in [Thread -> PCs]
      /\ pc' \in {[pc EXCEPT ![t] = Gone], [pc EXCEPT ![t] = DropReload]}
  BY DEF DropArrive, WordInv, TypeOK, HistoryTypeOK, PCs
<1>5. [u \in Thread |-> ModeOf(pc'[u])]
        = [[u \in Thread |-> ModeOf(pc[u])] EXCEPT ![t] = "gone"]
  BY <1>4 DEF ModeOf
<1> QED BY <1>1, <1>2, <1>3, <1>5 DEF Abs!AbsDrop, ModeOf

LEMMA WaitRefines ==
  ASSUME WordInv, NEW t \in Thread, WaitToken(t)
  PROVE  Abs!AbsRelease(t)
<1> USE DEF Idle, Reload, Lane, Wait, Drop, DropReload, Gone
<1>1. at[t] < phase
  BY WaitInv
<1>2. /\ pc[t] = Wait /\ pc \in [Thread -> PCs] /\ pc' = [pc EXCEPT ![t] = Idle]
      /\ UNCHANGED <<phase, members, arrived, leaving, at>>
  BY DEF WaitToken, WordInv, TypeOK, HistoryTypeOK, PCs, history
<1>3. [u \in Thread |-> ModeOf(pc'[u])]
        = [[u \in Thread |-> ModeOf(pc[u])] EXCEPT ![t] = "run"]
  BY <1>2 DEF ModeOf
<1> QED BY <1>1, <1>2, <1>3 DEF Abs!AbsRelease, ModeOf

LEMMA InternalRefines ==
  ASSUME WordInv,
         \/ \E t \in Thread : ArriveReload(t) \/ DropExpected(t) \/ DropReloadStep(t)
         \/ \E o \in Observer : WatchStart(o) \/ WatchEnd(o)
         \/ UNCHANGED vars
  PROVE  UNCHANGED Abs!absVars
<1> USE DEF Idle, Reload, Lane, Wait, Drop, DropReload, Gone
<1>1. UNCHANGED <<phase, members, arrived, leaving, at>>
  BY DEF ArriveReload, DropExpected, DropReloadStep, WatchStart, WatchEnd, vars, history
<1>2. \A u \in Thread : ModeOf(pc'[u]) = ModeOf(pc[u])
  <2>1. ASSUME NEW t \in Thread, ArriveReload(t)
        PROVE  \A u \in Thread : ModeOf(pc'[u]) = ModeOf(pc[u])
    BY <2>1 DEF ArriveReload, Returning, WordInv, Roles, ModeOf
  <2>2. ASSUME NEW t \in Thread, DropExpected(t) \/ DropReloadStep(t)
        PROVE  \A u \in Thread : ModeOf(pc'[u]) = ModeOf(pc[u])
    BY <2>2 DEF DropExpected, MayArrive, DropReloadStep, WordInv, TypeOK, HistoryTypeOK, ModeOf
  <2>3. ASSUME (\E o \in Observer : WatchStart(o) \/ WatchEnd(o)) \/ UNCHANGED vars
        PROVE  \A u \in Thread : ModeOf(pc'[u]) = ModeOf(pc[u])
    BY <2>3 DEF WatchStart, WatchEnd, vars
  <2> QED BY <2>1, <2>2, <2>3
<1> QED BY <1>1, <1>2 DEF Abs!absVars

(***************************************************************************)
(* The packed word implements the barrier: a phase ends exactly when its   *)
(* last member arrives, and no token is released before its phase ended.   *)
(***************************************************************************)
THEOREM PackedImplements == Quiesce => (Spec => Implements)
<1>1. Init => Abs!AbsInit(Thread)
  BY DEF Init, InitHistory, Abs!AbsInit, ModeOf, Idle, Drop
<1>2. ASSUME Quiesce, WordInv, [Next]_vars
      PROVE  [Abs!AbsNext]_(Abs!absVars)
  BY <1>2, ArriveRefines, DropRefines, WaitRefines, InternalRefines
     DEF Next, ThreadStep, Finished, Abs!AbsNext
<1>3. ASSUME Quiesce PROVE Spec => Implements
  <2>1. WordInv /\ [Next]_vars => [Abs!AbsNext]_(Abs!absVars)
    BY <1>2, <1>3
  <2>2. Spec => []WordInv
    BY <1>3, WordCorrect
  <2> QED BY <1>1, <2>1, <2>2, PTL DEF Spec, Implements, Abs!AbsSpec
<1> QED BY <1>3

(***************************************************************************)
(* wait_parity by a thread outside the barrier never returns early.        *)
(***************************************************************************)
THEOREM ParityNotEarly == Quiesce => (Spec => ObserverNotEarly)
<1>1. ASSUME Quiesce, WordInv, [Next]_vars, NEW o \in Observer, watch[o] # 0, watch'[o] = 0
      PROVE  watch[o] <= phase
  <2>1. PICK q \in Observer : WatchStart(q) \/ WatchEnd(q)
    BY <1>1 DEF Next, ThreadStep, Finished, vars, Arrive, ArriveReload, WaitToken,
                DropExpected, DropArrive, DropReloadStep
  <2>2. watch \in [Observer -> Nat] /\ phase \in Nat
    BY <1>1 DEF WordInv, TypeOK, HistoryTypeOK
  <2>3. q = o /\ PhaseBit(word) # (watch[o] - 1) % 2
    BY <1>1, <2>1, <2>2 DEF WatchStart, WatchEnd
  <2>4. CASE members # {}
    <3>1. PhaseBit(word) = phase % 2
      BY <1>1, <2>4, PhaseBitIsParity
    <3>2. watch[o] # phase + 1
      BY <2>2, <2>3, <3>1
    <3> QED BY <3>2, <2>2, <1>1 DEF WordInv, Watching
  <2>5. CASE members = {}
    BY <2>5, <1>1 DEF WordInv, Watching
  <2> QED BY <2>4, <2>5
<1>2. ASSUME Quiesce PROVE Spec => ObserverNotEarly
  <2>1. WordInv /\ [Next]_vars =>
          [\A o \in Observer : watch[o] # 0 /\ watch'[o] = 0 => watch[o] <= phase]_vars
    BY <1>1, <1>2
  <2>2. Spec => []WordInv
    BY <1>2, WordCorrect
  <2> QED BY <2>1, <2>2, PTL DEF Spec, ObserverNotEarly
<1> QED BY <1>2

-----------------------------------------------------------------------------
(* The barrier with a completion function.                                 *)
LEMMA SameCardinality == \A S : C!Cardinality(S) = Cardinality(S)
BY DEF C!Cardinality, Cardinality

(* Cardinalities of sets of participants. *)
LEMMA CompletionCard ==
  ASSUME NEW A \in SUBSET Thread
  PROVE  IsFiniteSet(A) /\ C!Cardinality(A) \in Nat /\ (C!Cardinality(A) = 0 <=> A = {})
<1>1. IsFiniteSet(A)
  BY ThreadAssumption, SameCardinality, FS_Subset
<1> QED BY <1>1, SameCardinality, FS_CardinalityType, FS_EmptySet

LEMMA CompletionCardUnion ==
  ASSUME NEW A \in SUBSET Thread, NEW B \in SUBSET Thread, A \cap B = {}
  PROVE  C!Cardinality(A \cup B) = C!Cardinality(A) + C!Cardinality(B)
<1>1. C!Cardinality(A \cup B) = C!Cardinality(A) + C!Cardinality(B) - C!Cardinality({})
  BY CompletionCard, SameCardinality, FS_Union
<1> QED BY <1>1, CompletionCard, SameCardinality, FS_EmptySet

(* What is left of the members when S arrive: nobody exactly when S are    *)
(* the last ones.                                                          *)
LEMMA Missing ==
  ASSUME NEW A \in SUBSET Thread, NEW B \in SUBSET A, NEW S \in SUBSET (A \ B)
  PROVE  /\ C!Cardinality(A) - C!Cardinality(B) - C!Cardinality(S) \in Nat
         /\ C!Cardinality(A) - C!Cardinality(B \cup S)
              = C!Cardinality(A) - C!Cardinality(B) - C!Cardinality(S)
         /\ C!Cardinality(A) - C!Cardinality(B) - C!Cardinality(S) = 0 <=> B \cup S = A
<1> DEFINE Rest == A \ (B \cup S)
<1>1. C!Cardinality(B \cup S) = C!Cardinality(B) + C!Cardinality(S)
  BY CompletionCardUnion
<1>2. C!Cardinality((B \cup S) \cup Rest) = C!Cardinality(B \cup S) + C!Cardinality(Rest)
  BY CompletionCardUnion
<1>3. (B \cup S) \cup Rest = A /\ (Rest = {} <=> B \cup S = A)
  OBVIOUS
<1>4. /\ C!Cardinality(A) \in Nat /\ C!Cardinality(B) \in Nat /\ C!Cardinality(S) \in Nat
      /\ C!Cardinality(Rest) \in Nat /\ (C!Cardinality(Rest) = 0 <=> Rest = {})
  BY CompletionCard
<1> HIDE DEF Rest
<1>5. C!Cardinality(A) = C!Cardinality(B) + C!Cardinality(S) + C!Cardinality(Rest)
  BY <1>1, <1>2, <1>3
<1>6. C!Cardinality(A) - C!Cardinality(B) - C!Cardinality(S) = C!Cardinality(Rest)
  BY <1>4, <1>5
<1>7. C!Cardinality(A) - C!Cardinality(B \cup S)
        = C!Cardinality(A) - C!Cardinality(B) - C!Cardinality(S)
  BY <1>1, <1>4, <1>5
<1> QED BY <1>3, <1>4, <1>6, <1>7

LEMMA Parity ==
  ASSUME NEW p \in Nat
  PROVE  C!Odd(p + 1) <=> ~C!Odd(p)
<1>1. (p + 1) % 2 = 1 - (p % 2) /\ p % 2 \in {0, 1}
  OBVIOUS
<1> QED BY <1>1 DEF C!Odd

-----------------------------------------------------------------------------
(* Initially everyone is expected and nobody is in a call. *)
LEMMA CompletionInitInv == C!Init => C!CompletionCounts
<1> SUFFICES ASSUME C!Init PROVE C!CompletionCounts
  OBVIOUS
<1> USE DEF C!Init, C!InitHistory
<1>1. C!Completing = {} /\ C!Kept = Thread
  BY DEF C!Completing, C!Kept
<1>2. C!Cardinality({}) = 0 /\ C!Cardinality(Thread) \in Nat
  BY CompletionCard, SameCardinality, FS_EmptySet
<1>3. C!TypeOK
  BY <1>2 DEF C!TypeOK, C!HistoryTypeOK, C!Labels
<1>4. C!CountsMissing /\ C!CompletionAlone
  BY <1>1, <1>2 DEF C!CountsMissing, C!CompletionAlone
<1>5. C!Roles
  BY <1>1 DEF C!Roles, C!Standing, C!Odd
<1> QED BY <1>3, <1>4, <1>5 DEF C!CompletionCounts

(* While a thread is on its way in, nobody completes. *)
LEMMA Quiet ==
  ASSUME C!CompletionCounts, NEW t \in Thread, cPc[t] \in {"idle", "enter", "loaded"}
  PROVE  /\ C!Completing = {}
         /\ \A u \in Thread : cPc[u] \in {"idle", "enter", "loaded", "wait", "gone"}
<1>1. C!Completing = {}
  BY DEF C!CompletionCounts, C!CompletionAlone, C!Completing
<1> QED BY <1>1 DEF C!CompletionCounts, C!TypeOK, C!Roles, C!Standing, C!Labels, C!Completing

(* Steps of a thread outside a completion that keep all counts. *)
LEMMA CallInv ==
  ASSUME C!CompletionCounts, NEW t \in Thread, C!Call(t)
  PROVE  C!CompletionCounts'
<1> USE DEF C!Call, C!Goto, C!history
<1>1. C!Completing = {} /\ C!Completing' = {} /\ C!Kept' = C!Kept
  BY Quiet DEF C!CompletionCounts, C!TypeOK, C!Completing, C!Kept
<1>2. C!TypeOK'
  BY DEF C!CompletionCounts, C!TypeOK, C!HistoryTypeOK, C!Labels
<1>3. (C!CountsMissing /\ C!CompletionAlone)'
  BY <1>1 DEF C!CompletionCounts, C!TypeOK, C!CountsMissing, C!CompletionAlone
<1>4. C!Roles'
  BY <1>1 DEF C!CompletionCounts, C!TypeOK, C!Roles, C!Standing
<1> QED BY <1>2, <1>3, <1>4 DEF C!CompletionCounts

LEMMA CompletionDropExpectedInv ==
  ASSUME C!CompletionCounts, NEW t \in Thread, C!DropExpected(t)
  PROVE  C!CompletionCounts'
<1> USE DEF C!DropExpected, C!Goto, C!history
<1>1. C!Completing = {} /\ C!Completing' = {} /\ t \in C!Kept /\ C!Kept' = C!Kept \ {t}
  BY Quiet DEF C!CompletionCounts, C!TypeOK, C!Completing, C!Kept, C!Roles, C!Standing
<1>2. cExpected' = C!Cardinality(C!Kept') /\ cExpected' \in Nat
  <2>1. C!Kept \in SUBSET Thread /\ IsFiniteSet(C!Kept)
    BY CompletionCard DEF C!Kept
  <2>2. C!Cardinality(C!Kept \ {t}) = C!Cardinality(C!Kept) - 1
    BY <1>1, <2>1, SameCardinality, FS_RemoveElement
  <2> QED BY <1>1, <2>1, <2>2, CompletionCard DEF C!CompletionCounts, C!Roles
<1>3. C!TypeOK'
  BY <1>2 DEF C!CompletionCounts, C!TypeOK, C!HistoryTypeOK, C!Labels
<1>4. (C!CountsMissing /\ C!CompletionAlone)'
  BY <1>1 DEF C!CompletionCounts, C!TypeOK, C!CountsMissing, C!CompletionAlone
<1>5. C!Roles'
  BY <1>1, <1>2 DEF C!CompletionCounts, C!TypeOK, C!Roles, C!Standing
<1> QED BY <1>3, <1>4, <1>5 DEF C!CompletionCounts

LEMMA LoadPhaseInv ==
  ASSUME C!CompletionCounts, NEW t \in Thread, C!LoadPhase(t)
  PROVE  C!CompletionCounts'
<1> USE DEF C!LoadPhase, C!Goto, C!history
<1>1. C!Completing = {} /\ C!Completing' = {} /\ C!Kept' = C!Kept
  BY Quiet DEF C!CompletionCounts, C!TypeOK, C!Completing, C!Kept
<1>2. C!TypeOK'
  BY DEF C!CompletionCounts, C!TypeOK, C!HistoryTypeOK, C!Labels
<1>3. (C!CountsMissing /\ C!CompletionAlone)'
  BY <1>1 DEF C!CompletionCounts, C!TypeOK, C!CountsMissing, C!CompletionAlone
<1>4. C!Roles'
  BY <1>1 DEF C!CompletionCounts, C!TypeOK, C!Roles, C!Standing
<1> QED BY <1>2, <1>3, <1>4 DEF C!CompletionCounts

(* A released thread has not arrived in the current phase. *)
LEMMA ReleasedLate ==
  ASSUME C!CompletionCounts, NEW t \in Thread, cPc[t] = "wait", cBit # cOld[t]
  PROVE  /\ C!Completing = {} /\ cCompletions = cPhase
         /\ t \in cMembers \ cArrived /\ cAt[t] = cPhase - 1
<1> USE DEF C!CompletionCounts, C!TypeOK, C!HistoryTypeOK
<1>1. cAt[t] = cPhase - (IF t \in cArrived THEN 0 ELSE 1) /\ (cOld[t] <=> C!Odd(cAt[t])) /\ ~cQuit[t]
  BY DEF C!Roles, C!Standing
<1>2. t \in cMembers
  BY <1>1 DEF C!Roles, C!Kept
<1>3. CASE C!Completing = {}
  <2>1. (cBit <=> C!Odd(cPhase)) /\ cCompletions = cPhase
    BY <1>3 DEF C!Roles
  <2>2. t \notin cArrived
    BY <1>1, <2>1
  <2> QED BY <1>1, <1>2, <1>3, <2>1, <2>2
<1>4. CASE C!Completing # {}
  <2>1. cArrived = {} /\ cBit = C!Odd(cPhase - 1)
    BY <1>4 DEF C!CompletionAlone
  <2> QED BY <1>1, <2>1
<1> QED BY <1>3, <1>4

LEMMA WaitTokenInv ==
  ASSUME C!CompletionCounts, NEW t \in Thread, C!WaitToken(t)
  PROVE  C!CompletionCounts'
<1> USE DEF C!WaitToken, C!Goto, C!history
<1>1. C!Completing = {} /\ C!Completing' = {} /\ C!Kept' = C!Kept /\ t \in cMembers \ cArrived
  BY ReleasedLate DEF C!CompletionCounts, C!TypeOK, C!Completing, C!Kept
<1>2. C!TypeOK'
  BY DEF C!CompletionCounts, C!TypeOK, C!HistoryTypeOK, C!Labels
<1>3. (C!CountsMissing /\ C!CompletionAlone)'
  BY <1>1 DEF C!CompletionCounts, C!TypeOK, C!CountsMissing, C!CompletionAlone
<1>4. C!Roles'
  BY <1>1 DEF C!CompletionCounts, C!TypeOK, C!Roles, C!Standing
<1> QED BY <1>2, <1>3, <1>4 DEF C!CompletionCounts

-----------------------------------------------------------------------------
(* Where an arrival finds the barrier, and what it leaves of __arrived.    *)
Arrives(t, S) ==
  /\ C!Completing = {} /\ C!Kept' = C!Kept
  /\ cPc[t] = "loaded" /\ t \in S
  /\ S \subseteq cMembers \ cArrived
  /\ \A u \in S \ {t} : cPc[u] = "idle" /\ ~cQuit[t]
  /\ cCount' \in Nat
  /\ cCount' = C!Cardinality(cMembers) - C!Cardinality(cArrived \cup S)
  /\ C!IsLast(cCount') <=> cArrived \cup S = cMembers
  /\ (cOld[t] <=> C!Odd(cPhase)) /\ cCompletions = cPhase /\ (cBit <=> C!Odd(cPhase))

LEMMA Arrival ==
  ASSUME C!CompletionCounts, NEW t \in Thread, NEW S \in SUBSET Thread, C!FetchSub(t, S)
  PROVE  Arrives(t, S)
<1> USE DEF C!CompletionCounts, C!TypeOK, C!HistoryTypeOK
<1>1. cPc[t] = "loaded" /\ t \in S /\ \A u \in S \ {t} : cPc[u] = "idle" /\ ~cQuit[t]
  BY DEF C!FetchSub
<1>2. C!Completing = {} /\ C!Kept' = C!Kept
  BY <1>1, Quiet DEF C!FetchSub, C!Kept
<1>3. S \subseteq cMembers \ cArrived /\ cArrived \subseteq cMembers
  BY <1>1 DEF C!Roles, C!Standing
<1>4. (cOld[t] <=> C!Odd(cPhase)) /\ cCompletions = cPhase /\ (cBit <=> C!Odd(cPhase))
  BY <1>1, <1>2 DEF C!Roles, C!Standing
<1>5. cCount' = C!Cardinality(cMembers) - C!Cardinality(cArrived) - C!Cardinality(S)
  BY <1>2 DEF C!FetchSub, C!CountsMissing
<1>6. /\ cCount' \in Nat
      /\ cCount' = C!Cardinality(cMembers) - C!Cardinality(cArrived \cup S)
      /\ cCount' = 0 <=> cArrived \cup S = cMembers
  <2>1. cArrived \in SUBSET cMembers /\ S \in SUBSET (cMembers \ cArrived)
    BY <1>3
  <2>2. cMembers \in SUBSET Thread
    OBVIOUS
  <2> HIDE DEF C!CompletionCounts, C!TypeOK, C!HistoryTypeOK
  <2> QED BY <1>5, <2>1, <2>2, Missing
<1> QED BY <1>1, <1>2, <1>3, <1>4, <1>6 DEF C!IsLast, Arrives

(* An arrival others still have to follow. *)
LEMMA EarlyInv ==
  ASSUME C!CompletionCounts, NEW t \in Thread, NEW S \in SUBSET Thread, C!FetchSub(t, S),
         ~C!IsLast(cCount')
  PROVE  C!CompletionCounts'
<1>0. Arrives(t, S)
  BY Arrival
<1> USE <1>0 DEF Arrives
<1>1. /\ cPc' = [u \in Thread |-> IF u \in S THEN C!After(t) ELSE cPc[u]]
      /\ cAt' = [u \in Thread |-> IF u \in S THEN cPhase ELSE cAt[u]]
      /\ cOld' = [u \in Thread |-> IF u \in S THEN cOld[t] ELSE cOld[u]]
      /\ cArrived' = cArrived \cup S
      /\ cLeaving' = cLeaving \cup (IF cQuit[t] THEN S ELSE {})
      /\ UNCHANGED <<cPhase, cMembers, cTeam, cExpected, cBit, cCompletions, cQuit, cNext>>
  BY DEF C!FetchSub, C!Record
<1>2. C!After(t) = IF cQuit[t] THEN "gone" ELSE "wait"
  BY DEF C!After
<1>3. C!TypeOK'
  BY <1>1, <1>2 DEF C!CompletionCounts, C!TypeOK, C!HistoryTypeOK, C!Labels
<1>4. C!Completing' = {}
  BY <1>1, <1>2 DEF C!Completing
<1>5. (C!CountsMissing /\ C!CompletionAlone)'
  BY <1>1, <1>4 DEF C!CountsMissing, C!CompletionAlone
<1>6. cQuit[t] => S = {t}
  OBVIOUS
<1>7. \A u \in S : ~cQuit[u] <=> ~cQuit[t]
  BY <1>6 DEF C!CompletionCounts, C!Roles, C!Standing
<1>8. cLeaving' = cArrived' \ C!Kept'
  BY <1>1, <1>7 DEF C!CompletionCounts, C!Roles, C!Kept
<1>9. \A u \in Thread : C!Standing(u)'
  <2> TAKE u \in Thread
  <2>1. CASE u \in S
    BY <2>1, <1>1, <1>2, <1>4, <1>7 DEF C!CompletionCounts, C!TypeOK, C!HistoryTypeOK, C!Standing
  <2>2. CASE u \notin S
    BY <2>2, <1>1, <1>4 DEF C!CompletionCounts, C!TypeOK, C!HistoryTypeOK, C!Roles, C!Standing
  <2> QED BY <2>1, <2>2
<1>10. C!Roles'
  BY <1>1, <1>4, <1>8, <1>9 DEF C!CompletionCounts, C!Roles
<1> QED BY <1>3, <1>5, <1>10 DEF C!CompletionCounts

(* The last arrival of a phase. *)
LEMMA LastInv ==
  ASSUME C!CompletionCounts, NEW t \in Thread, NEW S \in SUBSET Thread, C!FetchSub(t, S),
         C!IsLast(cCount')
  PROVE  C!CompletionCounts'
<1>0. Arrives(t, S)
  BY Arrival
<1> USE <1>0 DEF Arrives
<1>1. /\ cPc' = [u \in Thread |-> IF u = t THEN "last" ELSE IF u \in S THEN "lane" ELSE cPc[u]]
      /\ cTeam' = [cTeam EXCEPT ![t] = S]
      /\ cAt' = [u \in Thread |-> IF u \in S THEN cPhase ELSE cAt[u]]
      /\ cOld' = [u \in Thread |-> IF u \in S THEN cOld[t] ELSE cOld[u]]
      /\ cPhase' = cPhase + 1
      /\ cMembers' = cMembers \ (cLeaving \cup (IF cQuit[t] THEN S ELSE {}))
      /\ cArrived' = {} /\ cLeaving' = {}
      /\ UNCHANGED <<cExpected, cBit, cCompletions, cQuit, cNext>>
  BY DEF C!FetchSub, C!Record
<1>2. C!TypeOK'
  BY <1>1 DEF C!CompletionCounts, C!TypeOK, C!HistoryTypeOK, C!Labels
<1>3. \A u \in Thread : cPc[u] \in {"idle", "enter", "loaded", "wait", "gone"}
  BY Quiet
<1>4. C!Completing' = {t} /\ cPc'[t] = "last"
  BY <1>1, <1>3 DEF C!Completing
<1>5. cArrived \cup S = cMembers
  OBVIOUS
<1>6. \A u \in Thread \ S : /\ cPc[u] \in {"wait", "gone"}
                            /\ cPc[u] = "wait" => u \in cArrived
  <2> TAKE u \in Thread \ S
  <2>1. cPc[u] = "wait" => u \in cMembers
    BY DEF C!CompletionCounts, C!Roles, C!Standing, C!Kept
  <2> QED BY <1>3, <1>5, <2>1 DEF C!CompletionCounts, C!Roles, C!Standing
<1>7. cBit' = C!Odd(cPhase' - 1)
  BY <1>1 DEF C!CompletionCounts, C!TypeOK, C!HistoryTypeOK, C!Odd
<1>8. C!CompletionAlone'
  <2>1. \A u \in Thread : cPc'[u] \in {"last", "lane", "wait", "gone"}
    BY <1>1, <1>6
  <2> QED BY <1>1, <1>4, <1>7, <2>1 DEF C!CompletionAlone
<1>9. C!CountsMissing'
  BY <1>4 DEF C!CountsMissing
<1>10. cQuit[t] => S = {t}
  OBVIOUS
<1>11. C!Kept' \subseteq cMembers'
  BY <1>1, <1>10 DEF C!CompletionCounts, C!Roles, C!Kept
<1>12. \A u \in Thread : C!Standing(u)'
  <2> TAKE u \in Thread
  <2>1. CASE u \in S
    BY <2>1, <1>1, <1>4 DEF C!CompletionCounts, C!TypeOK, C!HistoryTypeOK, C!Roles, C!Standing
  <2>2. CASE u \notin S
    BY <2>2, <1>1, <1>4, <1>6 DEF C!CompletionCounts, C!TypeOK, C!HistoryTypeOK, C!Roles, C!Standing, C!Kept
  <2> QED BY <2>1, <2>2
<1>13. C!Completion(t)'
  BY <1>1, <1>4 DEF C!CompletionCounts, C!TypeOK, C!HistoryTypeOK, C!Completion
<1>14. C!Roles'
  BY <1>1, <1>4, <1>11, <1>12, <1>13 DEF C!CompletionCounts, C!Roles
<1> QED BY <1>2, <1>8, <1>9, <1>14 DEF C!CompletionCounts

LEMMA FetchSubInv ==
  ASSUME C!CompletionCounts, NEW t \in Thread, NEW S \in SUBSET Thread, C!FetchSub(t, S)
  PROVE  C!CompletionCounts'
BY EarlyInv, LastInv

-----------------------------------------------------------------------------
(* While a thread completes it is the only one that does, everyone else is *)
(* inside the barrier or gone, and the members are those that did not drop. *)
Alone(t) ==
  /\ C!Completing = {t} /\ C!Completion(t)
  /\ cArrived = {} /\ cMembers = C!Kept
  /\ cBit = C!Odd(cPhase - 1) /\ (cOld[t] <=> C!Odd(cPhase - 1)) /\ cPhase \in Nat \ {0}
  /\ \A u \in Thread \ {t} : cPc[u] \in {"wait", "lane", "gone"}
  /\ \A u \in Thread : u \in cTeam[t] \ {t} <=> cPc[u] = "lane"
  /\ \A u \in Thread : (cPc[u] \in {"wait", "lane"} \/ u = t => cAt[u] = cPhase - 1)

LEMMA CompleterAlone ==
  ASSUME C!CompletionCounts, NEW t \in Thread, cPc[t] \in {"last", "complete", "store", "flip"}
  PROVE  Alone(t)
<1> USE DEF C!CompletionCounts, C!TypeOK, C!HistoryTypeOK
<1>1. t \in C!Completing
  BY DEF C!Completing
<1>2. C!Completing = {t}
  BY <1>1 DEF C!CompletionAlone
<1>3. /\ cArrived = {} /\ cBit = C!Odd(cPhase - 1)
      /\ \A u \in Thread : cPc[u] \in {"wait", "lane", "gone", cPc[t]}
  BY <1>2 DEF C!CompletionAlone
<1>4. C!Completion(t) /\ C!Standing(t)
  BY <1>1 DEF C!Roles
<1>5. cAt[t] = cPhase - 1 /\ (cOld[t] <=> C!Odd(cPhase - 1))
  BY <1>1, <1>4 DEF C!Completion, C!Standing
<1>6. \A u \in Thread : cPc[u] = cPc[t] => u = t
  BY <1>2 DEF C!Completing
<1>7. cMembers = C!Kept
  <2>1. ASSUME NEW u \in cMembers PROVE ~cQuit[u]
    BY <1>3, <1>4, <1>6 DEF C!Roles, C!Standing, C!Completion
  <2> QED BY <2>1 DEF C!Kept, C!Roles
<1>8. \A u \in Thread : u \in cTeam[t] \ {t} <=> cPc[u] = "lane"
  BY <1>2, <1>4 DEF C!Completion, C!Roles, C!Standing
<1>9. \A u \in Thread : (cPc[u] \in {"wait", "lane"} \/ u = t => cAt[u] = cPhase - 1)
  BY <1>3, <1>5 DEF C!Roles, C!Standing
<1>10. cPhase \in Nat \ {0}
  BY <1>5
<1>11. \A u \in Thread \ {t} : cPc[u] \in {"wait", "lane", "gone"}
  BY <1>3, <1>6
<1> QED BY <1>2, <1>3, <1>4, <1>5, <1>7, <1>8, <1>9, <1>10, <1>11 DEF Alone

LEMMA LoadExpectedInv ==
  ASSUME C!CompletionCounts, NEW t \in Thread, C!LoadExpected(t)
  PROVE  C!CompletionCounts'
<1>0. Alone(t)
  BY CompleterAlone DEF C!LoadExpected, C!Goto
<1> USE <1>0 DEF Alone, C!LoadExpected, C!Goto, C!history
<1>1. C!Completing' = {t} /\ C!Kept' = C!Kept
  BY DEF C!CompletionCounts, C!TypeOK, C!Completing, C!Kept
<1>2. C!TypeOK'
  BY DEF C!CompletionCounts, C!TypeOK, C!HistoryTypeOK, C!Labels
<1>3. (C!CountsMissing /\ C!CompletionAlone)'
  <2>1. \A u \in Thread : cPc'[u] \in {"wait", "lane", "gone", cPc'[t]}
    BY DEF C!CompletionCounts, C!TypeOK
  <2>2. C!CompletionAlone'
    BY <1>1, <2>1 DEF C!CompletionAlone
  <2> QED BY <1>1, <2>2 DEF C!CompletionCounts, C!TypeOK, C!CountsMissing
<1>4. C!Completion(t)'
  BY DEF C!CompletionCounts, C!TypeOK, C!Completion
<1>5. C!Roles'
  BY <1>1, <1>4 DEF C!CompletionCounts, C!TypeOK, C!Roles, C!Standing
<1> QED BY <1>2, <1>3, <1>5 DEF C!CompletionCounts

LEMMA RunCompletionInv ==
  ASSUME C!CompletionCounts, NEW t \in Thread, C!RunCompletion(t)
  PROVE  C!CompletionCounts'
<1>0. Alone(t)
  BY CompleterAlone DEF C!RunCompletion, C!Goto
<1> USE <1>0 DEF Alone, C!RunCompletion, C!Goto, C!Runs, C!history
<1>1. C!Completing' = {t} /\ C!Kept' = C!Kept
  BY DEF C!CompletionCounts, C!TypeOK, C!Completing, C!Kept
<1>2. C!TypeOK'
  BY DEF C!CompletionCounts, C!TypeOK, C!HistoryTypeOK, C!Labels
<1>3. (C!CountsMissing /\ C!CompletionAlone)'
  <2>1. \A u \in Thread : cPc'[u] \in {"wait", "lane", "gone", cPc'[t]}
    BY DEF C!CompletionCounts, C!TypeOK
  <2>2. C!CompletionAlone'
    BY <1>1, <2>1 DEF C!CompletionAlone
  <2> QED BY <1>1, <2>2 DEF C!CompletionCounts, C!TypeOK, C!CountsMissing
<1>4. C!Completion(t)'
  BY DEF C!CompletionCounts, C!TypeOK, C!HistoryTypeOK, C!Completion
<1>5. C!Roles'
  BY <1>1, <1>4 DEF C!CompletionCounts, C!TypeOK, C!Roles, C!Standing
<1> QED BY <1>2, <1>3, <1>5 DEF C!CompletionCounts

LEMMA StoreArrivedInv ==
  ASSUME C!CompletionCounts, NEW t \in Thread, C!StoreArrived(t)
  PROVE  C!CompletionCounts'
<1>0. Alone(t)
  BY CompleterAlone DEF C!StoreArrived, C!Goto
<1> USE <1>0 DEF Alone, C!StoreArrived, C!Goto, C!ReloadValue, C!history
<1>1. C!Completing' = {t} /\ C!Kept' = C!Kept
  BY DEF C!CompletionCounts, C!TypeOK, C!Completing, C!Kept
<1>2. C!TypeOK'
  BY DEF C!CompletionCounts, C!TypeOK, C!HistoryTypeOK, C!Labels
<1>3. cCount' = C!Cardinality(cMembers)
  BY DEF C!CompletionCounts, C!Roles, C!Completion
<1>4. (C!CountsMissing /\ C!CompletionAlone)'
  <2>1. \A u \in Thread : cPc'[u] \in {"wait", "lane", "gone", cPc'[t]}
    BY DEF C!CompletionCounts, C!TypeOK
  <2>2. C!CompletionAlone'
    BY <1>1, <2>1 DEF C!CompletionAlone
  <2> QED BY <1>1, <1>3, <2>2 DEF C!CompletionCounts, C!TypeOK, C!CountsMissing
<1>5. C!Completion(t)'
  BY DEF C!CompletionCounts, C!TypeOK, C!Completion
<1>6. C!Roles'
  BY <1>1, <1>5 DEF C!CompletionCounts, C!TypeOK, C!Roles, C!Standing
<1> QED BY <1>2, <1>4, <1>6 DEF C!CompletionCounts

LEMMA FlipPhaseInv ==
  ASSUME C!CompletionCounts, NEW t \in Thread, C!FlipPhase(t)
  PROVE  C!CompletionCounts'
<1>0. Alone(t) /\ cPc[t] = "flip"
  BY CompleterAlone DEF C!FlipPhase
<1>1. /\ cBit' = ~cOld[t]
      /\ cPc' = [u \in Thread |-> IF u \in cTeam[t] THEN C!After(t) ELSE cPc[u]]
      /\ UNCHANGED <<cExpected, cCount, cCompletions, cQuit, cOld, cNext, cTeam>>
      /\ UNCHANGED <<cPhase, cMembers, cArrived, cLeaving, cAt>>
  BY DEF C!FlipPhase, C!FlippedPhase, C!history
<1>2. C!After(t) = IF cQuit[t] THEN "gone" ELSE "wait"
  BY DEF C!After
<1>3. \A u \in Thread : cPc'[u] = IF u = t \/ cPc[u] = "lane" THEN C!After(t) ELSE cPc[u]
  BY <1>0, <1>1 DEF Alone, C!Completion
<1>4. C!Completing' = {} /\ C!Kept' = C!Kept
  BY <1>0, <1>1, <1>2, <1>3 DEF Alone, C!Completing, C!Kept
<1>5. C!TypeOK'
  BY <1>1, <1>2 DEF C!CompletionCounts, C!TypeOK, C!HistoryTypeOK, C!Labels
<1>6. cBit' <=> C!Odd(cPhase)
  <2>1. C!Odd((cPhase - 1) + 1) <=> ~C!Odd(cPhase - 1)
    BY <1>0, Parity DEF Alone
  <2>2. (cPhase - 1) + 1 = cPhase
    BY <1>0 DEF Alone
  <2> QED BY <1>0, <1>1, <2>1, <2>2 DEF Alone
<1>7. cCount = C!Cardinality(cMembers) /\ C!Cardinality(cMembers) \in Nat /\ C!Cardinality({}) = 0
  BY <1>0, CompletionCard, SameCardinality, FS_EmptySet DEF C!CompletionCounts, C!CountsMissing, C!TypeOK, C!HistoryTypeOK, C!Completing
<1>8. (C!CountsMissing /\ C!CompletionAlone)'
  BY <1>0, <1>1, <1>4, <1>7 DEF C!CountsMissing, C!CompletionAlone, Alone
<1>9. \A u \in Thread : C!Standing(u)'
  <2> TAKE u \in Thread
  <2>1. CASE u = t
    BY <2>1, <1>0, <1>1, <1>2, <1>3, <1>4 DEF C!CompletionCounts, C!TypeOK, C!HistoryTypeOK, C!Roles, C!Standing, C!Completing, Alone, C!Kept
  <2>2. CASE cPc[u] = "lane"
    BY <2>2, <1>0, <1>1, <1>2, <1>3, <1>4 DEF C!CompletionCounts, C!TypeOK, C!HistoryTypeOK, C!Roles, C!Standing, C!Completing, Alone, C!Completion, C!Kept
  <2>3. CASE u # t /\ cPc[u] # "lane"
    BY <2>3, <1>0, <1>1, <1>2, <1>3, <1>4 DEF C!CompletionCounts, C!TypeOK, C!HistoryTypeOK, C!Roles, C!Standing, C!Completing, Alone, C!Kept
  <2> QED BY <2>1, <2>2, <2>3
<1>10. C!Roles'
  BY <1>0, <1>1, <1>4, <1>6, <1>9 DEF C!CompletionCounts, C!Roles, Alone, C!Completion
<1> QED BY <1>5, <1>8, <1>10 DEF C!CompletionCounts

-----------------------------------------------------------------------------
LEMMA CompletionNextInv == C!CompletionCounts /\ [C!Next]_(C!vars) => C!CompletionCounts'
<1> SUFFICES ASSUME C!CompletionCounts, [C!Next]_(C!vars) PROVE C!CompletionCounts'
  OBVIOUS
<1>1. CASE UNCHANGED C!vars
  BY <1>1 DEF C!vars, C!history, C!CompletionCounts, C!TypeOK, C!HistoryTypeOK, C!CountsMissing,
              C!CompletionAlone, C!Roles, C!Standing, C!Completion, C!Completing, C!Kept, C!Odd
<1>2. ASSUME NEW t \in Thread, C!ThreadStep(t) PROVE C!CompletionCounts'
  BY <1>2, CallInv, CompletionDropExpectedInv, LoadPhaseInv, FetchSubInv, LoadExpectedInv,
     RunCompletionInv, StoreArrivedInv, FlipPhaseInv, WaitTokenInv DEF C!ThreadStep
<1> QED BY <1>1, <1>2 DEF C!Next, C!Finished

(* The debug assertion __result >= 0 of arrive holds, __arrived counts the *)
(* missing members, and from the last arrival of a phase to the flip of    *)
(* __phase one thread has the barrier to itself.                           *)
THEOREM CompletionBarrierCorrect == C!Spec => []CompletionCounts
<1>1. C!CompletionCounts => CompletionCounts
  BY DEF CompletionCounts
<1> QED BY <1>1, CompletionInitInv, CompletionNextInv, PTL DEF C!Spec

-----------------------------------------------------------------------------
(* A token is accepted only after the completion function of its phase has *)
(* run, which it does once per phase.                                      *)
THEOREM TokensAfterCompletion == C!Spec => C!ReleasedAfterCompletion
<1>1. C!CompletionCounts /\ [C!Next]_(C!vars) =>
        [\A t \in Thread : cPc[t] = "wait" /\ cPc'[t] = "idle" =>
            cAt[t] < cPhase /\ cCompletions = cPhase]_(C!vars)
  <2> SUFFICES ASSUME C!CompletionCounts, [C!Next]_(C!vars), NEW t \in Thread,
                      cPc[t] = "wait", cPc'[t] = "idle"
               PROVE  cAt[t] < cPhase /\ cCompletions = cPhase
    OBVIOUS
  <2>1. PICK u \in Thread : C!ThreadStep(u)
    BY DEF C!Next, C!Finished, C!vars
  <2>2. C!WaitToken(t)
    <3>1. u = t \/ \E S \in SUBSET Thread : C!FetchSub(u, S) \/ C!FlipPhase(u)
      BY <2>1 DEF C!ThreadStep, C!Call, C!DropExpected, C!LoadPhase, C!LoadExpected, C!RunCompletion,
                  C!StoreArrived, C!WaitToken, C!Goto, C!CompletionCounts, C!TypeOK
    <3>2. ASSUME NEW S \in SUBSET Thread, C!FetchSub(u, S) PROVE FALSE
      BY <3>2 DEF C!FetchSub, C!After
    <3>3. ~C!FlipPhase(u)
      BY DEF C!FlipPhase, C!After
    <3>4. u = t
      BY <3>1, <3>2, <3>3
    <3> QED BY <2>1, <3>2, <3>3, <3>4 DEF C!ThreadStep, C!Call, C!DropExpected, C!LoadPhase,
               C!LoadExpected, C!RunCompletion, C!StoreArrived, C!Goto
  <2>3. cCompletions = cPhase /\ cAt[t] = cPhase - 1
    BY <2>2, ReleasedLate DEF C!WaitToken
  <2> QED BY <2>3 DEF C!CompletionCounts, C!TypeOK, C!HistoryTypeOK
<1> QED BY <1>1, CompletionBarrierCorrect, PTL DEF CompletionCounts, C!Spec, C!ReleasedAfterCompletion

-----------------------------------------------------------------------------
(* A step that moves no thread into or out of the barrier is a stutter of  *)
(* the abstract barrier.                                                   *)
LEMMA StutterStep ==
  ASSUME UNCHANGED C!history, \A u \in Thread : C!ModeOf(u)' = C!ModeOf(u)
  PROVE  UNCHANGED C!Abs!absVars
BY DEF C!Abs!absVars, C!history

(* An arrival is an arrival of the abstract barrier. *)
LEMMA FetchSubStep ==
  ASSUME C!CompletionCounts, NEW t \in Thread, NEW S \in SUBSET Thread, C!FetchSub(t, S)
  PROVE  C!Abs!AbsNext
<1>0. Arrives(t, S)
  BY Arrival
<1>1. /\ C!Record(S, IF cQuit[t] THEN S ELSE {}, cArrived \cup S = cMembers)
      /\ cQuit' = cQuit
  <2>1. /\ C!Record(S, IF cQuit[t] THEN S ELSE {}, C!IsLast(cCount'))
        /\ cQuit' = cQuit
    BY DEF C!FetchSub
  <2>2. C!IsLast(cCount') <=> cArrived \cup S = cMembers
    BY <1>0 DEF Arrives
  <2> QED BY <2>1, <2>2 DEF C!Record
<1>2. \A u \in S : cPc[u] \in {"idle", "enter", "loaded"} /\ cPc'[u] \in {"last", "lane", "wait", "gone"}
  BY <1>0 DEF C!FetchSub, C!After, Arrives
<1>3. \A u \in Thread \ S : cPc'[u] = cPc[u]
  BY <1>0 DEF C!FetchSub, Arrives
<1>4. \A u \in Thread : C!ModeOf(u)' = IF u \in S THEN (IF cQuit[u] THEN "gone" ELSE "held")
                                     ELSE C!ModeOf(u)
  BY <1>1, <1>2, <1>3 DEF C!ModeOf
<1>5. \A u \in S : C!ModeOf(u) = "run"
  BY <1>2 DEF C!ModeOf
<1>6. CASE cQuit[t]
  <2>1. S = {t}
    BY <1>0, <1>6 DEF Arrives
  <2>2. C!Abs!Account({t}, {t})
    BY <1>1, <1>6, <2>1 DEF C!Record, C!Abs!Account
  <2>3. [u \in Thread |-> C!ModeOf(u)]' = [[u \in Thread |-> C!ModeOf(u)] EXCEPT ![t] = "gone"]
    BY <1>4, <1>6, <2>1
  <2>4. C!Abs!AbsDrop(t)
    BY <1>0, <1>5, <2>1, <2>2, <2>3 DEF C!Abs!AbsDrop, Arrives
  <2> QED BY <2>4 DEF C!Abs!AbsNext
<1>7. CASE ~cQuit[t]
  <2>1. \A u \in S : ~cQuit[u]
    BY <1>0, <1>7 DEF Arrives, C!CompletionCounts, C!Roles, C!Standing
  <2>2. C!Abs!Account(S, {})
    BY <1>1, <1>7 DEF C!Record, C!Abs!Account
  <2>3. [u \in Thread |-> C!ModeOf(u)]'
          = [u \in Thread |-> IF u \in S THEN "held" ELSE [v \in Thread |-> C!ModeOf(v)][u]]
    BY <1>4, <2>1
  <2>4. C!Abs!AbsArrive(S)
    BY <1>0, <1>5, <2>2, <2>3 DEF C!Abs!AbsArrive, Arrives
  <2> QED BY <2>4 DEF C!Abs!AbsNext
<1> QED BY <1>6, <1>7

(* A release is a release of the abstract barrier. *)
LEMMA WaitTokenStep ==
  ASSUME C!CompletionCounts, NEW t \in Thread, C!WaitToken(t)
  PROVE  C!Abs!AbsNext
<1>1. cAt[t] < cPhase
  BY ReleasedLate DEF C!WaitToken, C!Goto, C!CompletionCounts, C!TypeOK, C!HistoryTypeOK
<1>2. C!ModeOf(t) = "held"
  BY DEF C!WaitToken, C!Goto, C!ModeOf, C!CompletionCounts, C!Roles, C!Standing
<1>3. [u \in Thread |-> C!ModeOf(u)]' = [[u \in Thread |-> C!ModeOf(u)] EXCEPT ![t] = "run"]
  BY DEF C!WaitToken, C!Goto, C!ModeOf, C!CompletionCounts, C!TypeOK
<1>4. C!Abs!AbsRelease(t)
  BY <1>1, <1>2, <1>3 DEF C!WaitToken, C!history, C!Abs!AbsRelease
<1> QED BY <1>4 DEF C!Abs!AbsNext

LEMMA StepImplements ==
  ASSUME C!CompletionCounts, NEW t \in Thread, C!ThreadStep(t)
  PROVE  [C!Abs!AbsNext]_(C!Abs!absVars)
<1> USE DEF C!ModeOf, C!CompletionCounts, C!TypeOK
<1>1. CASE C!Call(t) \/ C!DropExpected(t) \/ C!LoadPhase(t)
  BY <1>1, StutterStep DEF C!Call, C!DropExpected, C!LoadPhase, C!Goto, C!history
<1>2. CASE C!LoadExpected(t) \/ C!RunCompletion(t) \/ C!StoreArrived(t)
  BY <1>2, StutterStep DEF C!LoadExpected, C!RunCompletion, C!StoreArrived, C!Goto, C!history
<1>3. CASE C!FlipPhase(t)
  <2>1. Alone(t) /\ cPc[t] = "flip"
    BY <1>3, CompleterAlone DEF C!FlipPhase
  <2>2. \A u \in Thread : cPc[u] \notin {"idle", "enter", "loaded"} /\ cPc'[u] \notin {"idle", "enter", "loaded"}
    BY <1>3, <2>1 DEF C!FlipPhase, C!After, Alone
  <2> QED BY <1>3, <2>2, StutterStep DEF C!FlipPhase, C!history
<1>4. ASSUME NEW S \in SUBSET Thread, C!FetchSub(t, S) PROVE C!Abs!AbsNext
  BY <1>4, FetchSubStep
<1>5. CASE C!WaitToken(t)
  BY <1>5, WaitTokenStep
<1> QED BY <1>1, <1>2, <1>3, <1>4, <1>5 DEF C!ThreadStep

(* The barrier with a completion function implements the abstract barrier: *)
(* a phase ends at the fetch_sub that takes __arrived to zero.             *)
THEOREM CompletionBarrierImplements == C!Spec => C!Implements
<1>1. C!Init => C!Abs!AbsInit(Thread)
  BY DEF C!Init, C!InitHistory, C!ModeOf, C!Abs!AbsInit
<1>2. C!CompletionCounts /\ [C!Next]_(C!vars) => [C!Abs!AbsNext]_(C!Abs!absVars)
  <2>1. UNCHANGED C!vars => UNCHANGED C!Abs!absVars
    BY DEF C!vars, C!history, C!ModeOf, C!Abs!absVars
  <2> QED BY <2>1, StepImplements DEF C!Next, C!Finished
<1> QED BY <1>1, <1>2, CompletionBarrierCorrect, PTL DEF CompletionCounts, C!Spec, C!Implements, C!Abs!AbsSpec

-----------------------------------------------------------------------------
(* The tree barrier: TreeBarrierProofs, for the instance T.                *)
TP == INSTANCE TreeBarrierProofs
        WITH Byte <- TreeByte, Favorite <- FALSE, StartAt <- {0},
             expected <- tExpected, adjustment <- tAdjustment, ph <- tPh, ticket <- tTicket,
             favorite <- tFavorite, completions <- tCompletions, pc <- tPc, quit <- tQuit,
             todo <- tTodo, team <- tTeam, old <- tOld, climb <- tClimb,
             phase <- tPhase, members <- tMembers, arrived <- tArrived, leaving <- tLeaving, at <- tAt

\* What TreeBarrierProofs assumes.
LEMMA TreeBytes == TP!TreeAssumption /\ TP!ThreadAssumption
BY ThreadAssumption, TreeByteAssumption DEF TP!ThreadAssumption, TP!IsFiniteSet, IsFiniteSet, TP!TreeAssumption, TP!ByteAssumption, T!ByteAssumption

\* The instance of the run and that of the proofs are the same.
LEMMA TreeSameState ==
  /\ T!vars = TP!vars /\ T!N = TP!N /\ T!Node = TP!Node
  /\ \A S : T!Cardinality(S) = TP!Cardinality(S)
<1>1. \A S : T!Cardinality(S) = TP!Cardinality(S)
  BY DEF T!Cardinality, TP!Cardinality
<1> QED
  BY <1>1 DEF T!vars, TP!vars, T!history, TP!history, T!N, TP!N, T!Node, TP!Node, T!Size, TP!Size

LEMMA TreeSameStep ==
  (T!Init => TP!Init) /\ (T!Next => TP!Next)
<1> USE TreeSameState
    DEF T!history, TP!history, T!Rounds, TP!Rounds, T!InitHistory, TP!InitHistory, T!Step, TP!Step,
        T!Record, TP!Record, T!Note, TP!Note, T!Served, TP!Served, T!Token, TP!Token, T!Return,
        TP!Return, T!Arrived, TP!Arrived, T!At, TP!At, T!SetTicket, TP!SetTicket, T!Single, TP!Single,
        T!Wrap, TP!Wrap, T!LastNode, TP!LastNode, T!Halved, TP!Halved, T!ClearBit, TP!ClearBit,
        T!Climb, TP!Climb, T!Advance, TP!Advance, T!DropAmount, TP!DropAmount, T!ResetValue, TP!ResetValue
<1>1. T!Init => TP!Init
  BY DEF T!Init, TP!Init
<1>2. ASSUME NEW t \in Thread PROVE T!ThreadStep(t) => TP!ThreadStep(t)
  <2>1. \A S \in SUBSET Thread : T!Call(t, S) => TP!Call(t, S)
    BY DEF T!Call, TP!Call
  <2>2. T!CallDrop(t) => TP!CallDrop(t)
    BY DEF T!CallDrop, TP!CallDrop
  <2>3. T!LoadPhase(t) => TP!LoadPhase(t)
    BY DEF T!LoadPhase, TP!LoadPhase
  <2>4. T!StartClimb(t) => TP!StartClimb(t)
    BY DEF T!StartClimb, TP!StartClimb
  <2>5. T!TryTicket(t) => TP!TryTicket(t)
    BY DEF T!TryTicket, TP!TryTicket
  <2>6. T!SecondTicket(t) => TP!SecondTicket(t)
    BY DEF T!SecondTicket, TP!SecondTicket
  <2>7. T!RunCompletion(t) => TP!RunCompletion(t)
    BY DEF T!RunCompletion, TP!RunCompletion
  <2>8. T!AdjustExpected(t) => TP!AdjustExpected(t)
    BY DEF T!AdjustExpected, TP!AdjustExpected
  <2>9. T!ResetAdjustment(t) => TP!ResetAdjustment(t)
    BY DEF T!ResetAdjustment, TP!ResetAdjustment
  <2>10. T!AdvancePhase(t) => TP!AdvancePhase(t)
    BY DEF T!AdvancePhase, TP!AdvancePhase
  <2>11. T!WaitToken(t) => TP!WaitToken(t)
    BY DEF T!WaitToken, TP!WaitToken
  <2> QED
    BY <2>1, <2>2, <2>3, <2>4, <2>5, <2>6, <2>7, <2>8, <2>9, <2>10, <2>11
       DEF T!ThreadStep, TP!ThreadStep
<1>3. T!Finished => TP!Finished
  BY DEF T!Finished, TP!Finished, T!vars, TP!vars
<1> QED  BY <1>1, <1>2, <1>3 DEF T!Next, TP!Next

\* The invariant of TreeBarrierProofs, of every behaviour of T.
LEMMA TreeInvariantOfT == T!Spec => []TP!TreeInv
<1>1. T!Init => TP!TreeInv
  BY TreeSameStep, TreeBytes, TP!InvInit
<1>2. TP!TreeInv /\ [T!Next]_(T!vars) => TP!TreeInv'
  <2>1. [T!Next]_(T!vars) => [TP!Next]_(TP!vars)
    BY TreeSameStep DEF T!vars, TP!vars, T!history, TP!history
  <2> QED  BY <2>1, TreeBytes, TP!InvNext
<1> QED  BY <1>1, <1>2, PTL DEF T!Spec

\* What it says of the safety properties.
LEMMA TreeShows == TP!TreeInv => TreeClimbed
<1>1. TP!TreeInv => TP!TypeOK /\ TP!InTree /\ TP!SearchOnlyBelow /\ TP!RootAlone
  BY TreeBytes, TP!InvShows
<1> USE TreeSameState
<1>2. TP!TypeOK => T!TypeOK
  BY DEF TP!TypeOK, T!TypeOK, TP!HistoryTypeOK, T!HistoryTypeOK, TP!Labels, T!Labels, TP!Rounds, T!Rounds
<1>3. TP!InTree => T!InTree
  BY DEF TP!InTree, T!InTree
<1>4. TP!SearchOnlyBelow => T!SearchOnlyBelow
  BY DEF TP!SearchOnlyBelow, T!SearchOnlyBelow, TP!At, T!At, TP!Step, T!Step, TP!Single, T!Single
<1>5. TP!RootAlone => T!RootAlone
  BY DEF TP!RootAlone, T!RootAlone
<1> QED  BY <1>1, <1>2, <1>3, <1>4, <1>5 DEF TreeClimbed

\* A step of the tree is a step of the abstract barrier, or none; and a
\* token is accepted after the completion function of its phase only.
LEMMA TreeStepImplements ==
  ASSUME TP!TreeInv, [T!Next]_(T!vars)
  PROVE  /\ [T!Abs!AbsNext]_(T!Abs!absVars)
         /\ [\A t \in Thread : tPc[t] = "wait" /\ tPc'[t] = "idle" =>
               tAt[t] < tPhase /\ tCompletions = tPhase]_(T!vars)
<1>1. CASE UNCHANGED T!vars
  <2>1. UNCHANGED T!Abs!absVars
    BY <1>1 DEF T!vars, T!history, T!ModeOf, T!Abs!absVars
  <2> QED  BY <1>1, <2>1
<1>2. CASE \E t \in Thread : TP!ThreadStep(t)
  <2>1. PICK t \in Thread : TP!ThreadStep(t)
    BY <1>2
  <2>2. /\ [TP!Abs!AbsNext]_(TP!Abs!absVars)
        /\ \A u \in Thread : tPc[u] = "wait" /\ tPc'[u] = "idle" => tAt[u] < tPhase /\ tCompletions = tPhase
    BY <2>1, TreeBytes, TP!StepImplements
  <2>3. [TP!Abs!AbsNext]_(TP!Abs!absVars) => [T!Abs!AbsNext]_(T!Abs!absVars)
    BY DEF TP!Abs!AbsNext, T!Abs!AbsNext, TP!Abs!absVars, T!Abs!absVars, TP!ModeOf, T!ModeOf,
           TP!Abs!AbsArrive, T!Abs!AbsArrive, TP!Abs!AbsDrop, T!Abs!AbsDrop, TP!Abs!AbsRelease,
           T!Abs!AbsRelease, TP!Abs!Account, T!Abs!Account
  <2> QED  BY <2>2, <2>3
<1> QED  BY <1>1, <1>2, TreeSameStep DEF TP!Next, TP!Finished, T!vars, TP!vars, T!history, TP!history

LEMMA TreeImplementsOfT == T!Spec => T!Implements /\ T!ReleasedAfterCompletion
<1>1. T!Init => T!Abs!AbsInit(Thread)
  BY DEF T!Init, T!InitHistory, T!ModeOf, T!Abs!AbsInit
<1>2. TP!TreeInv /\ [T!Next]_(T!vars) => [T!Abs!AbsNext]_(T!Abs!absVars)
  BY TreeStepImplements
<1>3. TP!TreeInv /\ [T!Next]_(T!vars) =>
        [\A t \in Thread : tPc[t] = "wait" /\ tPc'[t] = "idle" =>
           tAt[t] < tPhase /\ tCompletions = tPhase]_(T!vars)
  BY TreeStepImplements
<1> QED
  BY <1>1, <1>2, <1>3, TreeInvariantOfT, PTL
     DEF T!Spec, T!Implements, T!Abs!AbsSpec, T!ReleasedAfterCompletion

-----------------------------------------------------------------------------
\* In every behaviour of the run each of the barriers behaves as specified,
\* or is not used.
LEMMA BarriersSeparate == BarriersSpec => C!Spec /\ T!Spec
<1>1. BarriersInit => C!Init /\ T!Init
  BY DEF BarriersInit
<1>2. [BarriersNext]_allVars => [C!Next]_(C!vars)
  <2>1. UNCHANGED cVars => UNCHANGED C!vars
    BY DEF cVars, C!vars, C!history
  <2> QED  BY <2>1 DEF BarriersNext, BarrierStep, allVars, C!Next
<1>3. [BarriersNext]_allVars => [T!Next]_(T!vars)
  <2>1. UNCHANGED tVars => UNCHANGED T!vars
    BY DEF tVars, T!vars, T!history
  <2> QED  BY <2>1 DEF BarriersNext, BarrierStep, allVars, T!Next
<1> QED  BY <1>1, <1>2, <1>3, PTL DEF BarriersSpec, C!Spec, T!Spec

(***************************************************************************)
(* The tree barrier's assertion __current <= __last_node, and what its     *)
(* __arrive relies on: the search for a free node stays inside __state,    *)
(* above round 0 no thread finds its node taken, and one thread reaches    *)
(* the root per phase, after everyone else arrived.                        *)
(***************************************************************************)
THEOREM TreeClimbs == BarriersSpec => []TreeClimbed
BY BarriersSeparate, TreeInvariantOfT, TreeShows, PTL

(***************************************************************************)
(* The barrier with a completion function and the tree barrier implement   *)
(* the abstract barrier, and none of their tokens is accepted before the   *)
(* completion function of its phase has run, once per phase.               *)
(***************************************************************************)
THEOREM OthersImplementBarrier == BarriersSpec => OthersImplement
BY BarriersSeparate, CompletionBarrierImplements, TokensAfterCompletion, TreeImplementsOfT, PTL
   DEF OthersImplement

=============================================================================
