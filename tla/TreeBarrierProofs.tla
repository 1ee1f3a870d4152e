--------------------------- MODULE TreeBarrierProofs ---------------------------
(***************************************************************************)
(* Proofs about the tree barrier, for any finite set of participants, any  *)
(* bound on the phases and any range of bytes divisible by 4, where the    *)
(* search for a node starts at 0.                                          *)
(*                                                                         *)
(* A node is free, half or full while its ticket is the phase, the phase   *)
(* + 1 or + 2.  The invariant counts: in round 0 as many slots are taken   *)
(* as threads have arrived or are on their way up; a node above has had,   *)
(* or has at it, one thread for each full node of the two below it.  Hence *)
(* a free node is left for each thread that looks for one, above round 0   *)
(* nobody finds its node taken, and the root is reached when everyone else *)
(* has arrived.  A phase leaves all the nodes that the next one can use    *)
(* full, that is, free for it: a ticket is never that of an earlier phase, *)
(* although bytes wrap.                                                    *)
(***************************************************************************)
EXTENDS TreeBarrier, FiniteSetTheorems, WellFoundedInduction, TLAPS

TreeAssumption == ByteAssumption /\ ~Favorite

-----------------------------------------------------------------------------
(* The participants: what the labels say of members and arrivals.          *)
Climbing == {"try", "second"}
Closing == {"complete", "adjust", "reset", "advance"}
Calling == {"enter", "start"} \cup Climbing \cup Closing

Quiet == \A t \in Thread : pc[t] \notin Closing

\* Who calls for whom.
Teams ==
  /\ \A t \in Thread : pc[t] \in Calling =>
       /\ t \in todo[t] /\ todo[t] \subseteq team[t] /\ team[t] \subseteq Thread
       /\ \A u \in todo[t] \ {t} : pc[u] = "lane"
       /\ \A u \in team[t] \ todo[t] : pc[u] = "landed"
       /\ quit[t] => team[t] = {t}
  /\ \A t, u \in Thread : pc[t] \in Calling /\ pc[u] \in Calling /\ t # u => team[t] \cap team[u] = {}
  /\ \A u \in Thread : pc[u] \in {"lane", "landed"} =>
       \E t \in Thread : pc[t] \in Calling /\ u \in team[t]
  /\ \A u \in Thread : (pc[u] \in {"idle", "lane", "landed", "wait"} => ~quit[u]) /\ (pc[u] = "gone" => quit[u])

\* The token of u is one of a phase that has ended.
Late(u) == pc[u] = "wait" /\ old[u] # ph
Missing(u) == pc[u] \in {"idle", "enter", "start", "try", "second", "lane"} \/ Late(u)
Landed(u) == pc[u] = "landed" \/ (pc[u] = "wait" /\ old[u] = ph)

\* While nobody completes a phase, the members that are missing are those that
\* have not arrived.
OpenRoles == Quiet =>
  /\ arrived \subseteq members
  /\ leaving = {u \in arrived : quit[u]}
  /\ \A u \in Thread :
       /\ u \in members \ arrived <=> Missing(u)
       /\ Landed(u) => u \in arrived
       /\ u \in arrived => at[u] = phase
       /\ Late(u) => at[u] < phase
       /\ pc[u] \in {"start", "try", "second"} => old[u] = ph
  /\ completions = phase

\* From the last arrival of a phase to its end one thread is alone.
ClosingRoles == \A t \in Thread : pc[t] \in Closing =>
  /\ \A u \in Thread \ {t} : pc[u] \in {"wait", "landed", "gone"} /\ (pc[u] = "wait" => old[u] = ph)
  /\ old[t] = ph /\ todo[t] = {t}
  /\ arrived = {} /\ leaving = {}
  /\ members = {u \in Thread : pc[u] # "gone" /\ ~quit[u]}
  /\ \A u \in Thread : pc[u] # "gone" => at[u] < phase
  /\ phase = IF pc[t] = "complete" THEN completions + 1 ELSE completions

Droppers == {u \in members : quit[u]}

\* __expected and __expected_adjustment.
Expects ==
  /\ expected \in 0..N /\ adjustment \in Int /\ 0 - adjustment \in 0..N
  /\ Quiet => expected = Cardinality(members) /\ 0 - adjustment = Cardinality(Droppers)
  /\ \A t \in Thread :
       /\ pc[t] \in {"complete", "adjust"} => expected + adjustment = Cardinality(members)
       /\ pc[t] \in {"reset", "advance"} => expected = Cardinality(members)
       /\ pc[t] = "advance" => adjustment = 0

Types ==
  /\ ph \in 0..(Byte - 1)
  /\ ticket \in [Node -> [Rounds -> 0..(Byte - 1)]]
  /\ pc \in [Thread -> Labels] /\ quit \in [Thread -> BOOLEAN]
  /\ todo \in [Thread -> SUBSET Thread] /\ team \in [Thread -> SUBSET Thread]
  /\ old \in [Thread -> 0..(Byte - 1)]
  /\ climb \in [Thread -> [cur : Int, exp : Int, last : Int, round : Nat]]
  /\ completions \in Nat
  /\ HistoryTypeOK

-----------------------------------------------------------------------------
(* The tree for n arrivals.  Its nodes of round r are at the multiples of  *)
(* 2^r, as far as two arrivals per node of round 0 are needed.             *)
Multiple(i, b) == \E k \in Nat : i = k * b
Used(n, i, r) == Multiple(i, 2^r) /\ 2 * i < n /\ 2^r < n

\* A node that one arrival fills.
Lone(n, i, r) == n <= 2 * i + 2^r

Free(i, r) == ticket[i][r] = ph
Half(i, r) == ticket[i][r] = Step(ph, 1)
Full(i, r) == ticket[i][r] = Step(ph, 2)
One(b) == IF b THEN 1 ELSE 0

\* How many arrivals a node has had.
Marks(n, i, r) == IF Free(i, r) THEN 0 ELSE IF Half(i, r) \/ Lone(n, i, r) THEN 1 ELSE 2

\* The threads at a node above round 0, and at any.
AtNode(i, r) == {t \in Thread : pc[t] \in Climbing /\ climb[t].round = r /\ climb[t].cur = i}
Climbers == {t \in Thread : pc[t] \in Climbing /\ climb[t].round > 0}

\* The locals of the climb agree with the tree.
LocalsRight(c, n) ==
  LET b == 2^c.round
  IN  /\ c.cur \in Nat /\ Used(n, c.cur, c.round)
      /\ c.exp \in Nat /\ (c.exp - 1) * b < n /\ n <= c.exp * b
      /\ \E l \in Nat : c.last = l * b /\ 2 * (l * b) <= n /\ n < 2 * (l * b) + 2 * b
ClimbRight == \A t \in Thread : pc[t] \in Climbing => LocalsRight(climb[t], expected)

\* The values of the nodes, and what a thread has seen there.
NodesRight == Quiet =>
  \A i \in Node, r \in Rounds : Used(expected, i, r) =>
    Free(i, r) \/ (Half(i, r) /\ ~Lone(expected, i, r)) \/ Full(i, r)
SeenBy(t) == LET c == climb[t] IN
  /\ pc[t] = "second" => ~Free(c.cur, c.round) /\ ~Lone(expected, c.cur, c.round)
  /\ pc[t] \in Climbing /\ c.round = 0 => \A j \in Node : j < c.cur => Full(j, 0)
Seen == \A t \in Thread : SeenBy(t)

\* A node above round 0 has had, or has at it, the threads that filled the
\* nodes below.
Below(n, i, r) == One(Full(i, r)) + (IF 2 * i + 2 * 2^r < n THEN One(Full(i + 2^r, r)) ELSE 0)
Flow == Quiet =>
  \A i \in Node, r \in Nat : Used(expected, i, r + 1) =>
    Cardinality(AtNode(i, r + 1)) + Marks(expected, i, r + 1) = Below(expected, i, r)

\* A node of round 0 has two slots, the last one maybe one.
Slots == {s \in 0..(expected - 1) : IF s % 2 = 0 THEN ~Free(s \div 2, 0) ELSE Full(s \div 2, 0)}
SlotsTaken == Quiet /\ expected > 1 => Cardinality(Slots) = Cardinality(arrived) + Cardinality(Climbers)

\* A phase leaves the nodes of the next tree full.
TreeFilled == ~Quiet =>
  \A i \in Node, r \in Rounds : Used(Cardinality(members), i, r) => Full(i, r)

TreeInv == /\ Types /\ Teams /\ OpenRoles /\ ClosingRoles /\ Expects
           /\ ClimbRight /\ NodesRight /\ Seen /\ Flow /\ SlotsTaken /\ TreeFilled
-----------------------------------------------------------------------------
(* Powers of two, as the sizes of sets of subsets.                         *)
LEMMA PowerPositive ==
  ASSUME NEW r \in Nat
  PROVE  2^r \in Nat \ {0} /\ r + 1 <= 2^r
<1> DEFINE S == 1..r
           F == [x \in S \cup {0} |-> IF x = 0 THEN {} ELSE {x}]
<1>1. IsFiniteSet(S) /\ Cardinality(S) = r
  BY FS_Interval
<1>2. IsFiniteSet(SUBSET S) /\ Cardinality(SUBSET S) = 2^r
  BY <1>1, FS_SUBSET
<1>3. 2^r \in Nat
  BY <1>2, FS_CardinalityType
<1>4. Cardinality(S \cup {0}) = r + 1
  <2>1. 0 \notin S
    OBVIOUS
  <2> HIDE DEF S
  <2> QED  BY <1>1, <2>1, FS_AddElement
<1>5. F \in Injection(S \cup {0}, SUBSET S)
  BY DEF Injection, IsInjective
<1>6. Cardinality(S \cup {0}) <= Cardinality(SUBSET S)
  BY <1>2, <1>5, FS_Injection
<1> QED  BY <1>2, <1>3, <1>4, <1>6

LEMMA PowerOfNext ==
  ASSUME NEW r \in Nat
  PROVE  2^(r + 1) = 2 * 2^r
<1> DEFINE S == 1..r
           A == SUBSET S
           B == {X \in SUBSET (1..(r + 1)) : r + 1 \in X}
           F == [X \in A |-> X \cup {r + 1}]
<1>1. IsFiniteSet(S) /\ Cardinality(S) = r /\ IsFiniteSet(1..(r + 1)) /\ Cardinality(1..(r + 1)) = r + 1
  BY FS_Interval
<1>2. IsFiniteSet(A) /\ Cardinality(A) = 2^r
  BY <1>1, FS_SUBSET
<1>3. Cardinality(SUBSET (1..(r + 1))) = 2^(r + 1)
  BY <1>1, FS_SUBSET
<1>4. F \in Bijection(A, B)
  <2>1. \A X \in A : F[X] \in B
    OBVIOUS
  <2>2. ASSUME NEW X \in A, NEW Y \in A, F[X] = F[Y] PROVE X = Y
    <3>1. r + 1 \notin X /\ r + 1 \notin Y
      OBVIOUS
    <3>2. X \cup {r + 1} = Y \cup {r + 1}
      BY <2>2
    <3> QED  BY <3>1, <3>2
  <2>3. ASSUME NEW Y \in B PROVE \E X \in A : F[X] = Y
    <3>1. Y \ {r + 1} \in A
      OBVIOUS
    <3>2. F[Y \ {r + 1}] = Y
      BY <3>1
    <3> QED  BY <3>1, <3>2
  <2> QED  BY <2>1, <2>2, <2>3 DEF Bijection, Injection, Surjection, IsInjective
<1>5. IsFiniteSet(B) /\ Cardinality(B) = Cardinality(A)
  BY <1>2, <1>4, FS_Bijection DEF ExistsBijection
<1>6. A \cup B = SUBSET (1..(r + 1)) /\ A \cap B = {}
  <2>1. \A X \in SUBSET (1..(r + 1)) : r + 1 \notin X => X \in A
    OBVIOUS
  <2>2. A \subseteq SUBSET (1..(r + 1)) /\ B \subseteq SUBSET (1..(r + 1))
    OBVIOUS
  <2>3. \A X \in A : r + 1 \notin X
    OBVIOUS
  <2> QED  BY <2>1, <2>2, <2>3
<1>7. Cardinality(A \cup B) = Cardinality(A) + Cardinality(B) - Cardinality(A \cap B)
  BY <1>2, <1>5, FS_Union
<1> HIDE DEF A, B
<1>8. Cardinality({}) = 0
  BY FS_EmptySet
<1>9. 2^r \in Nat
  BY PowerPositive
<1>10. Cardinality(A \cup B) = 2^r + 2^r
  <2>1. Cardinality(A \cap B) = 0
    BY <1>6, <1>8
  <2>2. Cardinality(A) = 2^r /\ Cardinality(B) = 2^r
    BY <1>2, <1>5
  <2>3. ASSUME NEW u, NEW c \in Nat, u = c + c - 0 PROVE u = c + c
    BY <2>3
  <2> QED  BY <1>7, <1>9, <2>1, <2>2, <2>3
<1>11. 2^(r + 1) = 2^r + 2^r
  BY <1>3, <1>6, <1>10
<1> QED  BY <1>9, <1>11

(* A position of round r, with its r lower bits clear, loses one bit more. *)
LEMMA ClearsBit ==
  ASSUME NEW r \in Nat, NEW k \in Nat
  PROVE  LET i == k * 2^r IN
         /\ ClearBit(i, r) = (k \div 2) * 2^(r + 1) /\ k \div 2 \in Nat
         /\ ClearBit(i, r) \in Nat
         /\ i = ClearBit(i, r) \/ i = ClearBit(i, r) + 2^r
<1> DEFINE b == 2^r
<1>1. b \in Nat \ {0} /\ 2^(r + 1) = 2 * b
  BY PowerPositive, PowerOfNext
<1> HIDE DEF b
<1>2. (k * b) \div b = k
  BY <1>1
<1>3. k \div 2 \in Nat /\ (k = 2 * (k \div 2) \/ k = 2 * (k \div 2) + 1)
  OBVIOUS
<1>4. CASE k % 2 = 1
  <2>1. k = 2 * (k \div 2) + 1
    BY <1>4
  <2> DEFINE h == k \div 2
  <2>2. k * b = h * (2 * b) + b /\ h * (2 * b) \in Nat
    <3>1. h \in Nat /\ k = 2 * h + 1
      BY <1>3, <2>1
    <3> HIDE DEF h
    <3> QED  BY <3>1, <1>1
  <2>3. ClearBit(k * b, r) = k * b - b
    BY <1>2, <1>4 DEF ClearBit, b
  <2> QED  BY <1>1, <1>3, <2>2, <2>3 DEF b
<1>5. CASE k % 2 # 1
  <2>1. k = 2 * (k \div 2)
    BY <1>5
  <2> DEFINE h == k \div 2
  <2>2. k * b = h * (2 * b) /\ h * (2 * b) \in Nat
    <3>1. h \in Nat /\ k = 2 * h
      BY <1>3, <2>1
    <3> HIDE DEF h
    <3> QED  BY <3>1, <1>1
  <2>3. ClearBit(k * b, r) = k * b
    BY <1>2, <1>5 DEF ClearBit, b
  <2> QED  BY <1>1, <1>3, <2>2, <2>3 DEF b
<1> QED  BY <1>4, <1>5

(* The code's test for a node that one arrival fills.                      *)
LEMMA SingleIsLone ==
  ASSUME NEW b \in Nat \ {0}, NEW k \in Nat, NEW l \in Nat, NEW e \in Nat, NEW n \in Nat,
         (e - 1) * b < n, n <= e * b, 2 * (l * b) <= n, n < 2 * (l * b) + 2 * b, 2 * (k * b) < n
  PROVE  (k * b = l * b /\ e % 2 = 1) <=> n <= 2 * (k * b) + b
<1>1. ASSUME k * b = l * b, e % 2 = 1 PROVE n <= 2 * (k * b) + b
  <2> DEFINE h == e \div 2
  <2>1. h \in Nat /\ e = 2 * h + 1
    BY <1>1
  <2> HIDE DEF h
  <2>2. e * b = 2 * (h * b) + b /\ (e - 1) * b = 2 * (h * b)
    BY <2>1
  <2>3. h * b < l * b + b
    <3> DEFINE hb == h * b
               lb == l * b
    <3>1. hb \in Int /\ lb \in Int
      BY <2>1
    <3>2. 2 * hb < n /\ n < 2 * lb + 2 * b
      BY <2>2
    <3> HIDE DEF hb, lb
    <3>3. hb < lb + b
      BY <3>1, <3>2
    <3> QED  BY <3>3 DEF hb, lb
  <2>4. h < l + 1
    BY <2>1, <2>3
  <2>5. h <= l
    BY <2>1, <2>4
  <2>6. h * b <= l * b
    BY <2>1, <2>5
  <2> DEFINE hb == h * b
             kb == k * b
  <2>7. hb \in Int /\ kb \in Int /\ hb <= kb /\ n <= 2 * hb + b
    BY <1>1, <2>1, <2>2, <2>6
  <2> HIDE DEF hb, kb
  <2>8. n <= 2 * kb + b
    BY <2>7
  <2> QED  BY <2>8 DEF kb
<1>2. ASSUME n <= 2 * (k * b) + b PROVE k * b = l * b /\ e % 2 = 1
  <2>1. (2 * k) * b < e * b /\ (e - 1) * b < (2 * k + 1) * b
    BY <1>2
  <2>2. 2 * k < e /\ e - 1 < 2 * k + 1
    BY <2>1
  <2>3. e = 2 * k + 1
    BY <2>2
  <2>4. l * b < (k + 1) * b /\ k * b < (l + 1) * b
    BY <1>2
  <2>5. l < k + 1 /\ k < l + 1
    BY <2>4
  <2>6. l = k
    BY <2>5
  <2> QED  BY <2>3, <2>6
<1> QED  BY <1>1, <1>2

(* Half as many arrivals in the next round.                                *)
LEMMA HalvedRight ==
  ASSUME NEW b \in Nat \ {0}, NEW e \in Nat, NEW n \in Nat, (e - 1) * b < n, n <= e * b, b < n
  PROVE  /\ Halved(e) \in Nat
         /\ (Halved(e) - 1) * (2 * b) < n /\ n <= Halved(e) * (2 * b)
         /\ Halved(e) = 1 <=> n <= 2 * b
<1> DEFINE h == Halved(e)
<1>1. h \in Nat /\ e <= 2 * h /\ 2 * h <= e + 1
  BY DEF Halved
<1> HIDE DEF h
<1>2. e * b <= (2 * h) * b /\ (2 * h - 2) * b <= (e - 1) * b
  BY <1>1
<1>3. (2 * h) * b = h * (2 * b) /\ (2 * h - 2) * b = (h - 1) * (2 * b)
  BY <1>1
<1>4. (h - 1) * (2 * b) < n /\ n <= h * (2 * b)
  <2>1. (h - 1) * (2 * b) \in Int /\ h * (2 * b) \in Int /\ (e - 1) * b \in Int /\ e * b \in Int
    BY <1>1
  <2> QED  BY <1>2, <1>3, <2>1
<1>5. ASSUME h = 1 PROVE n <= 2 * b
  BY <1>4, <1>5
<1>6. ASSUME n <= 2 * b PROVE h = 1
  <2>1. (h - 1) * (2 * b) < 1 * (2 * b)
    <3>1. (h - 1) * (2 * b) \in Int /\ 1 * (2 * b) = 2 * b
      BY <1>1
    <3> QED  BY <1>4, <1>6, <3>1
  <2>2. h - 1 < 1
    BY <1>1, <2>1
  <2>3. h # 0
    BY <1>4
  <2> QED  BY <1>1, <2>2, <2>3
<1> QED  BY <1>1, <1>4, <1>5, <1>6 DEF h

(* The last node, one round up.                                            *)
LEMMA LastRight ==
  ASSUME NEW b \in Nat \ {0}, NEW l \in Nat, NEW n \in Nat, 2 * (l * b) <= n, n < 2 * (l * b) + 2 * b
  PROVE  LET m == (l \div 2) * (2 * b) IN 2 * m <= n /\ n < 2 * m + 2 * (2 * b)
<1> DEFINE h == l \div 2
<1>1. h \in Nat /\ (l = 2 * h \/ l = 2 * h + 1)
  OBVIOUS
<1> HIDE DEF h
<1>2. h * (2 * b) = (2 * h) * b /\ h * (2 * b) \in Nat /\ l * b \in Nat
  BY <1>1
<1>3. CASE l = 2 * h
  BY <1>2, <1>3 DEF h
<1>4. CASE l = 2 * h + 1
  <2>1. l * b = (2 * h) * b + b
    BY <1>1, <1>4
  <2> QED  BY <1>2, <2>1 DEF h
<1> QED  BY <1>1, <1>3, <1>4

(* The three values of a node in a phase.                                  *)
LEMMA StepFacts ==
  ASSUME TreeAssumption, NEW p \in 0..(Byte - 1)
  PROVE  /\ Step(p, 1) \in 0..(Byte - 1) /\ Step(p, 2) \in 0..(Byte - 1)
         /\ Step(p, 1) # p /\ Step(p, 2) # p /\ Step(p, 1) # Step(p, 2)
<1>1. Byte \in Nat /\ Byte >= 4
  BY DEF TreeAssumption, ByteAssumption
<1>2. ASSUME NEW d \in {1, 2}
      PROVE  Step(p, d) = IF p + d < Byte THEN p + d ELSE p + d - Byte
  <2>1. CASE p + d < Byte
    BY <1>1, <2>1 DEF Step
  <2>2. CASE ~(p + d < Byte)
    <3>1. p + d = 1 * Byte + (p + d - Byte) /\ p + d - Byte \in 0..(Byte - 1)
      BY <1>1, <2>2
    <3> QED  BY <1>1, <2>2, <3>1 DEF Step
  <2> QED  BY <2>1, <2>2
<1> QED  BY <1>1, <1>2
-----------------------------------------------------------------------------
(* Sizes of sets of participants.                                          *)
LEMMA Card ==
  ASSUME NEW A \in SUBSET Thread
  PROVE  IsFiniteSet(A) /\ Cardinality(A) \in Nat /\ (Cardinality(A) = 0 <=> A = {}) /\ Cardinality(A) <= N
BY ThreadAssumption, FS_Subset, FS_CardinalityType, FS_EmptySet DEF N

LEMMA CardAdd ==
  ASSUME NEW A \in SUBSET Thread, NEW t \in Thread, t \notin A
  PROVE  Cardinality(A \cup {t}) = Cardinality(A) + 1
BY Card, FS_AddElement

LEMMA CardRemove ==
  ASSUME NEW A \in SUBSET Thread, NEW t \in A
  PROVE  Cardinality(A \ {t}) = Cardinality(A) - 1
BY Card, FS_RemoveElement

LEMMA CardMono ==
  ASSUME NEW A \in SUBSET Thread, NEW B \in SUBSET A
  PROVE  Cardinality(B) <= Cardinality(A) /\ (Cardinality(A) = Cardinality(B) => A = B)
BY Card, FS_Subset

LEMMA ParticipantsFinite == N \in Nat /\ N > 0
<1>1. Thread \in SUBSET Thread
  OBVIOUS
<1> QED  BY <1>1, Card, ThreadAssumption DEF N

(* While a thread is on its way in, nobody completes the phase.            *)
LEMMA OnTheWay ==
  ASSUME TreeInv, NEW t \in Thread, pc[t] \in {"idle", "enter", "start", "try", "second", "lane"} \/ Late(t)
  PROVE  Quiet
BY DEF TreeInv, ClosingRoles, Quiet, Closing, Late

(* Who completes a phase is the only one.                                  *)
LEMMA ClosesAlone ==
  ASSUME TreeInv, NEW t \in Thread, pc[t] \in Closing
  PROVE  ~Quiet /\ \A u \in Thread : pc[u] \in Closing => u = t
BY DEF TreeInv, ClosingRoles, Quiet, Closing

(* The thread a call arrives for next is missing.                          *)
LEMMA ServedMissing ==
  ASSUME TreeInv, NEW t \in Thread, pc[t] \in Calling
  PROVE  /\ Served(t) \in todo[t] /\ Served(t) \in Thread
         /\ Served(t) = t <=> todo[t] = {t}
         /\ Served(t) # t => pc[Served(t)] = "lane" /\ ~quit[t]
         /\ Served(t) = t => todo[t] \ {Served(t)} = {}
<1>1. t \in todo[t] /\ todo[t] \in SUBSET Thread
  BY DEF TreeInv, Teams, Types
<1>2. CASE todo[t] = {t}
  BY <1>1, <1>2 DEF Served
<1>3. CASE todo[t] # {t}
  <2>1. \E u \in todo[t] : u # t
    BY <1>1, <1>3
  <2>2. Served(t) \in todo[t] /\ Served(t) # t
    BY <2>1, <1>3 DEF Served
  <2>3. pc[Served(t)] = "lane" /\ ~quit[t]
    BY <2>2 DEF TreeInv, Teams
  <2> QED  BY <1>1, <1>3, <2>2, <2>3
<1> QED  BY <1>2, <1>3

-----------------------------------------------------------------------------
(* What the steps do to the participants.                                  *)
Roles == Types /\ Teams /\ OpenRoles /\ ClosingRoles /\ Expects

(* Initially everyone is expected and nobody is in a call.                 *)
LEMMA RolesInit == TreeAssumption /\ Init => Roles
<1> SUFFICES ASSUME TreeAssumption, Init PROVE Roles
  OBVIOUS
<1> USE DEF Init, InitHistory
<1>1. N \in Nat /\ Byte \in Nat /\ Byte > 0
  BY ParticipantsFinite DEF TreeAssumption, ByteAssumption
<1>2. Types
  BY <1>1 DEF Types, Labels, HistoryTypeOK
<1>3. Teams
  BY DEF Teams, Calling, Climbing, Closing
<1>4. Quiet
  BY DEF Quiet, Closing
<1>5. OpenRoles
  BY DEF OpenRoles, Missing, Late, Landed
<1>6. ClosingRoles
  BY <1>4 DEF Quiet, ClosingRoles
<1>7. Expects
  <2>1. Droppers = {}
    BY DEF Droppers
  <2>2. 0 - 0 = 0 /\ Cardinality({}) = 0
    BY FS_EmptySet
  <2>3. \A t \in Thread : pc[t] = "idle"
    OBVIOUS
  <2>4. adjustment = 0 /\ expected = N /\ N = Cardinality(members)
    BY DEF N
  <2> QED  BY <1>1, <2>1, <2>2, <2>3, <2>4 DEF Expects
<1> QED  BY <1>2, <1>3, <1>5, <1>6, <1>7 DEF Roles

(* A call begins. *)
LEMMA CallRoles ==
  ASSUME TreeInv, NEW t \in Thread, NEW S \in SUBSET Thread, Call(t, S)
  PROVE  Roles' /\ Quiet /\ Quiet'
<1> USE DEF Call, history
<1>1. Quiet /\ Quiet'
  BY OnTheWay DEF Quiet, TreeInv, Types, Closing
<1>2. Types'
  BY DEF TreeInv, Types, Labels, HistoryTypeOK
<1>3. \A v \in Thread : pc[v] \in Calling => v # t /\ v \notin S /\ team[v] \cap S = {}
  BY DEF TreeInv, Teams, Types, Calling, Climbing, Closing
<1>4. Teams'
  <2>1. \A v \in Thread : pc'[v] \in Calling => v = t \/ (pc[v] \in Calling /\ v # t)
    BY DEF TreeInv, Types, Calling, Climbing, Closing
  <2>2. todo'[t] = S /\ team'[t] = S /\ \A v \in Thread \ {t} : todo'[v] = todo[v] /\ team'[v] = team[v]
    BY DEF TreeInv, Types
  <2>3. pc'[t] = "enter" /\ (\A u \in S \ {t} : pc'[u] = "lane") /\ (\A u \in Thread \ S : pc'[u] = pc[u])
    BY DEF TreeInv, Types
  <2>4. \A u \in S : ~quit[u]
    BY DEF TreeInv, Teams
  <2>5. t \in S /\ \A u \in S : pc[u] = "idle"
    OBVIOUS
  <2>6. quit' = quit
    OBVIOUS
  <2>7. ASSUME NEW v \in Thread, pc'[v] \in Calling
        PROVE  /\ v \in todo'[v] /\ todo'[v] \subseteq team'[v] /\ team'[v] \subseteq Thread
               /\ \A u \in todo'[v] \ {v} : pc'[u] = "lane"
               /\ \A u \in team'[v] \ todo'[v] : pc'[u] = "landed"
               /\ quit'[v] => team'[v] = {v}
    <3>1. CASE v = t
      BY <3>1, <2>2, <2>3, <2>4, <2>5, <2>6
    <3>2. CASE v # t
      BY <3>2, <2>1, <2>2, <2>3, <2>6, <2>7, <1>3 DEF TreeInv, Teams
    <3> QED  BY <3>1, <3>2
  <2>8. ASSUME NEW v \in Thread, NEW u \in Thread, pc'[v] \in Calling, pc'[u] \in Calling, v # u
        PROVE  team'[v] \cap team'[u] = {}
    BY <2>1, <2>2, <2>8, <1>3 DEF TreeInv, Teams
  <2>9. ASSUME NEW u \in Thread, pc'[u] \in {"lane", "landed"}
        PROVE  \E v \in Thread : pc'[v] \in Calling /\ u \in team'[v]
    <3>1. CASE u \in S
      BY <3>1, <2>2, <2>3, <2>5 DEF Calling
    <3>2. CASE u \notin S
      <4>1. PICK v \in Thread : pc[v] \in Calling /\ u \in team[v]
        BY <3>2, <2>3, <2>9 DEF TreeInv, Teams
      <4> QED  BY <4>1, <1>3, <2>2, <2>3
    <3> QED  BY <3>1, <3>2
  <2>10. \A u \in Thread : (pc'[u] \in {"idle", "lane", "landed", "wait"} => ~quit'[u]) /\ (pc'[u] = "gone" => quit'[u])
    BY <2>3, <2>4, <2>5, <2>6 DEF TreeInv, Teams
  <2> QED  BY <2>7, <2>8, <2>9, <2>10 DEF Teams
<1>5. OpenRoles'
  <2>1. \A u \in Thread : (Missing(u)' <=> Missing(u)) /\ (Landed(u)' <=> Landed(u)) /\ (Late(u)' <=> Late(u))
    BY DEF TreeInv, Types, Missing, Landed, Late
  <2> QED  BY <1>1, <2>1 DEF TreeInv, OpenRoles, Types
<1>6. ClosingRoles'
  BY <1>1 DEF Quiet, ClosingRoles
<1>7. Expects'
  BY <1>1 DEF TreeInv, Expects, Quiet, Closing, Droppers
<1> QED  BY <1>1, <1>2, <1>4, <1>5, <1>6, <1>7 DEF Roles

(* A thread is about to arrive for the last time. *)
LEMMA CallDropRoles ==
  ASSUME TreeInv, NEW t \in Thread, CallDrop(t)
  PROVE  Roles' /\ Quiet /\ Quiet'
<1> USE DEF CallDrop, history
<1>1. Quiet /\ Quiet'
  BY OnTheWay DEF Quiet, TreeInv, Types, Closing
<1>2. Types'
  BY DEF TreeInv, Types, Labels, HistoryTypeOK
<1>3. \A v \in Thread : pc[v] \in Calling => v # t /\ t \notin team[v]
  BY DEF TreeInv, Teams, Types, Calling, Climbing, Closing
<1>4. Teams'
  <2>1. \A v \in Thread : pc'[v] \in Calling => v = t \/ (pc[v] \in Calling /\ v # t)
    BY DEF TreeInv, Types, Calling, Climbing, Closing
  <2>2. /\ todo'[t] = {t} /\ team'[t] = {t} /\ pc'[t] = "enter" /\ quit'[t]
        /\ \A v \in Thread \ {t} : todo'[v] = todo[v] /\ team'[v] = team[v] /\ pc'[v] = pc[v] /\ quit'[v] = quit[v]
    BY DEF TreeInv, Types
  <2> QED  BY <2>1, <2>2, <1>3 DEF TreeInv, Teams
<1>5. OpenRoles'
  <2>1. \A u \in Thread : (Missing(u)' <=> Missing(u)) /\ (Landed(u)' <=> Landed(u)) /\ (Late(u)' <=> Late(u))
    BY DEF TreeInv, Types, Missing, Landed, Late
  <2>2. t \notin arrived
    BY <1>1 DEF TreeInv, OpenRoles, Missing
  <2>3. {u \in arrived : quit'[u]} = {u \in arrived : quit[u]}
    BY <2>2 DEF TreeInv, Types, HistoryTypeOK
  <2> QED  BY <1>1, <2>1, <2>3 DEF TreeInv, OpenRoles, Types
<1>6. ClosingRoles'
  BY <1>1 DEF Quiet, ClosingRoles
<1>7. Expects'
  <2>1. t \in members /\ ~quit[t]
    BY <1>1 DEF TreeInv, OpenRoles, Missing, Teams
  <2>2. Droppers' = Droppers \cup {t} /\ t \notin Droppers
    BY <2>1 DEF TreeInv, Types, Droppers
  <2>3. Droppers \in SUBSET Thread /\ Droppers' \in SUBSET Thread
    BY <2>1, <2>2 DEF TreeInv, Types, Droppers, HistoryTypeOK
  <2>4. Cardinality(Droppers') = Cardinality(Droppers) + 1
    BY <2>2, <2>3, CardAdd
  <2>5. Cardinality(Droppers) \in Nat /\ Cardinality(Droppers') \in Nat /\ Cardinality(Droppers') <= N /\ N \in Nat
    BY <2>3, Card, ParticipantsFinite
  <2>6. 0 - adjustment = Cardinality(Droppers) /\ expected = Cardinality(members) /\ adjustment \in Int
    BY <1>1, <2>5 DEF TreeInv, Expects
  <2>7. adjustment' = adjustment - 1
    BY DEF DropAmount
  <2>8. 0 - adjustment' = Cardinality(Droppers') /\ adjustment' \in Int /\ 0 - adjustment' \in 0..N
    BY <2>4, <2>5, <2>6, <2>7
  <2> QED  BY <1>1, <2>6, <2>8 DEF TreeInv, Expects, Quiet, Closing
<1> QED  BY <1>1, <1>2, <1>4, <1>5, <1>6, <1>7 DEF Roles

(* The call reads the phase. *)
LEMMA LoadPhaseRoles ==
  ASSUME TreeInv, NEW t \in Thread, LoadPhase(t)
  PROVE  Roles' /\ Quiet /\ Quiet'
<1> USE DEF LoadPhase, history
<1>1. Quiet /\ Quiet'
  BY OnTheWay DEF Quiet, TreeInv, Types, Closing
<1>2. Types'
  BY DEF TreeInv, Types, Labels, HistoryTypeOK
<1>3. \A u \in Thread : (pc'[u] \in Calling <=> pc[u] \in Calling) /\ (u # t => pc'[u] = pc[u])
  BY DEF TreeInv, Types, Calling
<1>4. Teams'
  BY <1>3 DEF TreeInv, Teams
<1>5. OpenRoles'
  <2>1. \A u \in Thread : (Missing(u)' <=> Missing(u)) /\ (Landed(u)' <=> Landed(u)) /\ (Late(u)' <=> Late(u))
    BY DEF TreeInv, Types, Missing, Landed, Late
  <2> QED  BY <1>1, <2>1 DEF TreeInv, OpenRoles, Types
<1>6. ClosingRoles'
  BY <1>1 DEF Quiet, ClosingRoles
<1>7. Expects'
  BY <1>1 DEF TreeInv, Expects, Quiet, Closing, Droppers
<1> QED  BY <1>1, <1>2, <1>4, <1>5, <1>6, <1>7 DEF Roles

(* A thread enters the tree, or goes on in it.                             *)
Moves(t) ==
  /\ pc[t] \in {"start"} \cup Climbing
  /\ \E l \in Climbing : pc' = [pc EXCEPT ![t] = l]
  /\ climb' \in [Thread -> [cur : Int, exp : Int, last : Int, round : Nat]]
  /\ ticket' \in [Node -> [Rounds -> 0..(Byte - 1)]]
  /\ UNCHANGED <<expected, adjustment, ph, completions, quit, todo, team, old, history>>

LEMMA MovesRoles ==
  ASSUME TreeInv, NEW t \in Thread, Moves(t)
  PROVE  Roles' /\ Quiet /\ Quiet'
<1> USE DEF Moves, history
<1>1. Quiet /\ Quiet'
  BY OnTheWay DEF Quiet, TreeInv, Types, Closing, Climbing
<1>2. Types'
  BY DEF TreeInv, Types, Labels, HistoryTypeOK, Climbing
<1>3. \A u \in Thread : (pc'[u] \in Calling <=> pc[u] \in Calling) /\ (u # t => pc'[u] = pc[u])
  BY DEF TreeInv, Types, Calling
<1>4. Teams'
  BY <1>3 DEF TreeInv, Teams, Climbing
<1>5. OpenRoles'
  <2>1. \A u \in Thread : (Missing(u)' <=> Missing(u)) /\ (Landed(u)' <=> Landed(u)) /\ (Late(u)' <=> Late(u))
    BY DEF TreeInv, Types, Missing, Landed, Late, Climbing
  <2> QED  BY <1>1, <2>1 DEF TreeInv, OpenRoles, Types, Climbing
<1>6. ClosingRoles'
  BY <1>1 DEF Quiet, ClosingRoles
<1>7. Expects'
  BY <1>1 DEF TreeInv, Expects, Quiet, Closing, Droppers
<1> QED  BY <1>1, <1>2, <1>4, <1>5, <1>6, <1>7 DEF Roles

(* An arrival that leaves somebody to arrive at the same node.             *)
Marks1(t) ==
  /\ pc[t] \in Climbing
  /\ ticket' \in [Node -> [Rounds -> 0..(Byte - 1)]]
  /\ Note(t, FALSE) /\ Arrived(t)
  /\ UNCHANGED <<climb, expected, adjustment, ph, completions, quit, team>>

LEMMA ArrivesRoles ==
  ASSUME TreeInv, NEW t \in Thread, Marks1(t)
  PROVE  /\ Roles' /\ Quiet /\ Quiet'
         /\ Served(t) \in members \ arrived /\ arrived' = arrived \cup {Served(t)}
         /\ \A u \in Thread : pc'[u] \in Climbing <=> pc[u] \in Climbing /\ u # t
         /\ \A u \in Thread \ {t} : pc[u] \in Climbing => pc'[u] = pc[u]
<1> DEFINE v == Served(t)
<1> USE DEF Marks1
<1>0. pc[t] \in {"try", "second"} /\ pc[t] \in Calling /\ t \in todo[t] /\ todo[t] \subseteq team[t] /\ old[t] = ph
  BY OnTheWay DEF TreeInv, Teams, OpenRoles, Climbing, Calling, Quiet
<1>1. /\ v \in todo[t] /\ v \in Thread /\ (v = t <=> todo[t] = {t})
      /\ (v # t => pc[v] = "lane" /\ ~quit[t]) /\ (v = t => todo[t] \ {v} = {})
  BY <1>0, ServedMissing
<1>2. Quiet
  BY <1>0, OnTheWay
<1>3. v \in members \ arrived
  BY <1>0, <1>1, <1>2 DEF TreeInv, OpenRoles, Missing
<1>4. /\ at' = [u \in Thread |-> IF u \in {v} THEN phase ELSE at[u]]
      /\ arrived' = arrived \cup {v} /\ leaving' = leaving \cup (IF quit[t] THEN {t} ELSE {})
      /\ phase' = phase /\ members' = members
  BY DEF Note, Record
<1>5. /\ todo' = [todo EXCEPT ![t] = @ \ {v}]
      /\ v = t =>
           /\ pc' = [u \in Thread |-> IF u \in team[t] THEN IF quit[t] THEN "gone" ELSE "wait" ELSE pc[u]]
           /\ old' = [u \in Thread |-> IF u \in team[t] THEN old[t] ELSE old[u]]
      /\ v # t => pc' = [pc EXCEPT ![t] = "start", ![v] = "landed"] /\ old' = old
  BY DEF Arrived, Return, Token
<1> HIDE DEF Marks1, v
<1>6. UNCHANGED <<climb, expected, adjustment, ph, completions, quit, team>> /\ ticket' \in [Node -> [Rounds -> 0..(Byte - 1)]]
  BY DEF Marks1
<1>7. \A u \in team[t] \ {t} : pc[u] = IF u \in todo[t] THEN "lane" ELSE "landed"
  BY <1>0 DEF TreeInv, Teams
<1>8. /\ v = t => \A u \in Thread : pc'[u] = IF u = t THEN (IF quit[t] THEN "gone" ELSE "wait")
                                            ELSE IF u \in team[t] THEN "wait" ELSE pc[u]
      /\ v = t => \A u \in team[t] \ {t} : pc[u] = "landed"
      /\ v # t => \A u \in Thread : pc'[u] = IF u = t THEN "start" ELSE IF u = v THEN "landed" ELSE pc[u]
  <2>1. quit[t] => team[t] = {t}
    BY <1>0 DEF TreeInv, Teams
  <2>2. t \in team[t] /\ t \in Thread
    BY <1>0
  <2>3. v = t => \A u \in team[t] \ {t} : pc[u] = "landed"
    BY <1>1, <1>7
  <2>4. v = t => \A u \in Thread : pc'[u] = IF u = t THEN (IF quit[t] THEN "gone" ELSE "wait")
                                            ELSE IF u \in team[t] THEN "wait" ELSE pc[u]
    BY <1>5, <2>1, <2>2
  <2>5. v # t => \A u \in Thread : pc'[u] = IF u = t THEN "start" ELSE IF u = v THEN "landed" ELSE pc[u]
    BY <1>1, <1>5 DEF TreeInv, Types
  <2> QED  BY <2>3, <2>4, <2>5
<1>9. Quiet'
  <2>1. CASE v = t
    BY <2>1, <1>2, <1>8 DEF Quiet, Closing
  <2>2. CASE v # t
    BY <2>2, <1>2, <1>8 DEF Quiet, Closing
  <2> QED  BY <2>1, <2>2
<1>10. /\ \A u \in Thread : pc'[u] \in Climbing <=> pc[u] \in Climbing /\ u # t
       /\ \A u \in Thread \ {t} : pc[u] \in Climbing => pc'[u] = pc[u]
  <2>1. CASE v = t
    BY <2>1, <1>8 DEF Climbing
  <2>2. CASE v # t
    BY <2>2, <1>1, <1>8 DEF Climbing
  <2> QED  BY <2>1, <2>2
<1>11. Types'
  <2>1. pc' \in [Thread -> Labels]
    <3>1. CASE v = t
      BY <3>1, <1>5 DEF TreeInv, Types, Labels
    <3>2. CASE v # t
      BY <3>2, <1>5 DEF TreeInv, Types, Labels
    <3> QED  BY <3>1, <3>2
  <2>2. old' \in [Thread -> 0..(Byte - 1)]
    BY <1>5 DEF TreeInv, Types
  <2>3. HistoryTypeOK'
    BY <1>1, <1>4 DEF TreeInv, Types, HistoryTypeOK
  <2> QED  BY <2>1, <2>2, <2>3, <1>5, <1>6 DEF TreeInv, Types
<1>12. Teams'
  <2>1. \A u \in Thread \ {t} : todo'[u] = todo[u]
    BY <1>5 DEF TreeInv, Types
  <2>2. todo'[t] = todo[t] \ {v}
    BY <1>5 DEF TreeInv, Types
  <2>3. CASE v = t
    <3>1. \A u \in Thread : pc'[u] \in Calling <=> pc[u] \in Calling /\ u # t
      BY <2>3, <1>0, <1>8 DEF Calling, Climbing, Closing
    <3>2. \A u \in Thread : pc[u] \in Calling /\ u # t => team[u] \cap team[t] = {}
      BY <1>0 DEF TreeInv, Teams
    <3>3. \A u \in Thread : u \notin team[t] => pc'[u] = pc[u]
      BY <2>3, <1>0, <1>8
    <3>4. \A u \in Thread : pc'[u] \in {"lane", "landed"} => u \notin team[t]
      BY <2>3, <1>0, <1>8
    <3>5. team' = team /\ quit' = quit
      BY <1>6
    <3>6. \A u \in team[t] : (pc'[u] = "wait" => ~quit[u]) /\ (pc'[u] = "gone" => quit[u]) /\ pc'[u] \in {"wait", "gone"}
      BY <2>3, <1>0, <1>8 DEF TreeInv, Teams, Types
    <3>7. ASSUME NEW u \in Thread, pc'[u] \in Calling
          PROVE  /\ u \in todo'[u] /\ todo'[u] \subseteq team'[u] /\ team'[u] \subseteq Thread
                 /\ \A w \in todo'[u] \ {u} : pc'[w] = "lane"
                 /\ \A w \in team'[u] \ todo'[u] : pc'[w] = "landed"
                 /\ quit'[u] => team'[u] = {u}
      <4>1. pc[u] \in Calling /\ u # t /\ todo'[u] = todo[u] /\ team'[u] = team[u]
        BY <3>1, <3>5, <3>7, <2>1
      <4>2. \A w \in team[u] : pc'[w] = pc[w] /\ w \in Thread
        BY <4>1, <3>2, <3>3 DEF TreeInv, Teams
      <4> QED  BY <4>1, <4>2, <3>5 DEF TreeInv, Teams
    <3> QED  BY <3>1, <3>2, <3>3, <3>4, <3>5, <3>6, <3>7 DEF TreeInv, Teams
  <2>4. CASE v # t
    <3>1. \A u \in Thread : pc'[u] \in Calling <=> pc[u] \in Calling
      BY <2>4, <1>0, <1>1, <1>8 DEF Calling, Climbing, Closing
    <3>2. \A u \in Thread : pc[u] \in Calling /\ u # t => v \notin team[u]
      BY <1>0, <1>1 DEF TreeInv, Teams
    <3>3. team' = team /\ quit' = quit
      BY <1>6
    <3>4. \A u \in Thread : pc[u] \in Calling /\ u # t => t \notin team[u]
      BY <1>0, <1>1 DEF TreeInv, Teams
    <3>5. ASSUME NEW u \in Thread, pc'[u] \in Calling
          PROVE  /\ u \in todo'[u] /\ todo'[u] \subseteq team'[u] /\ team'[u] \subseteq Thread
                 /\ \A w \in todo'[u] \ {u} : pc'[w] = "lane"
                 /\ \A w \in team'[u] \ todo'[u] : pc'[w] = "landed"
                 /\ quit'[u] => team'[u] = {u}
      <4>1. CASE u = t
        BY <4>1, <2>2, <2>4, <3>3, <1>0, <1>1, <1>7, <1>8 DEF TreeInv, Teams
      <4>2. CASE u # t
        <5>1. pc[u] \in Calling /\ todo'[u] = todo[u] /\ team'[u] = team[u]
          BY <4>2, <3>1, <3>3, <3>5, <2>1
        <5>2. \A w \in team[u] : pc'[w] = pc[w] /\ w \in Thread
          BY <5>1, <4>2, <2>4, <3>2, <3>4, <1>8 DEF TreeInv, Teams
        <5> QED  BY <5>1, <5>2, <3>3 DEF TreeInv, Teams
      <4> QED  BY <4>1, <4>2
    <3>6. ASSUME NEW u \in Thread, pc'[u] \in {"lane", "landed"}
          PROVE  \E w \in Thread : pc'[w] \in Calling /\ u \in team'[w]
      <4>1. CASE u = v
        BY <4>1, <3>1, <3>3, <1>0, <1>1
      <4>2. CASE u # v
        BY <4>2, <3>1, <3>3, <3>6, <2>4, <1>8 DEF TreeInv, Teams
      <4> QED  BY <4>1, <4>2
    <3>7. \A u \in Thread : (pc'[u] \in {"idle", "lane", "landed", "wait"} => ~quit'[u]) /\ (pc'[u] = "gone" => quit'[u])
      BY <2>4, <3>3, <1>1, <1>8 DEF TreeInv, Teams
    <3> QED  BY <3>1, <3>3, <3>5, <3>6, <3>7 DEF TreeInv, Teams
  <2> QED  BY <2>3, <2>4
<1>13. OpenRoles'
  <2>1. ASSUME NEW u \in Thread
        PROVE  /\ Missing(u)' <=> Missing(u) /\ u # v
               /\ Landed(u)' => Landed(u) \/ u = v
               /\ Late(u)' <=> Late(u)
               /\ pc'[u] \in {"start", "try", "second"} => old'[u] = ph
    <3>1. ph' = ph
      BY <1>6
    <3>2. CASE v = t
      <4>1. u \in team[t] => old'[u] = ph
        BY <3>2, <1>0, <1>5
      <4>2. u \notin team[t] => old'[u] = old[u] /\ pc'[u] = pc[u]
        BY <3>2, <1>0, <1>5, <1>8
      <4>3. u \in team[t] /\ u # t => pc[u] = "landed" /\ pc'[u] = "wait"
        BY <3>2, <1>8
      <4>4. u = t => pc'[u] \in {"wait", "gone"}
        BY <3>2, <1>8
      <4>5. pc[u] \in {"start", "try", "second"} => old[u] = ph
        BY <1>2 DEF TreeInv, OpenRoles
      <4> QED  BY <3>1, <3>2, <4>1, <4>2, <4>3, <4>4, <4>5, <1>0 DEF Missing, Landed, Late
    <3>3. CASE v # t
      <4>1. old' = old
        BY <3>3, <1>5
      <4>2. pc[u] \in {"start", "try", "second"} => old[u] = ph
        BY <1>2 DEF TreeInv, OpenRoles
      <4> QED  BY <3>1, <3>3, <4>1, <4>2, <1>0, <1>1, <1>8 DEF Missing, Landed, Late
    <3> QED  BY <3>2, <3>3
  <2>2. leaving' = {u \in arrived' : quit'[u]}
    <3>1. quit' = quit /\ leaving = {u \in arrived : quit[u]} /\ (quit[t] => v = t)
      BY <1>1, <1>2, <1>6 DEF TreeInv, OpenRoles
    <3>2. v # t => ~quit[v]
      BY <1>1 DEF TreeInv, Teams
    <3> QED  BY <3>1, <3>2, <1>4
  <2>3. \A u \in Thread : at'[u] = IF u = v THEN phase ELSE at[u]
    BY <1>4
  <2> QED  BY <2>1, <2>2, <2>3, <1>1, <1>2, <1>3, <1>4, <1>6 DEF TreeInv, OpenRoles, Missing, Late
<1>14. ClosingRoles'
  BY <1>9 DEF Quiet, ClosingRoles
<1>15. Expects'
  <2>1. Droppers' = Droppers
    BY <1>4, <1>6 DEF Droppers
  <2> QED  BY <2>1, <1>2, <1>4, <1>6, <1>9 DEF TreeInv, Expects, Quiet, Closing
<1> QED  BY <1>2, <1>3, <1>4, <1>9, <1>10, <1>11, <1>12, <1>13, <1>14, <1>15 DEF Roles, v

(* The last arrival of a phase. *)
Closes(t) ==
  /\ pc[t] \in {"start", "try", "second"}
  /\ members \ arrived = {t} /\ todo[t] = {t}
  /\ climb' \in [Thread -> [cur : Int, exp : Int, last : Int, round : Nat]]
  /\ ticket' \in [Node -> [Rounds -> 0..(Byte - 1)]]
  /\ pc' = [pc EXCEPT ![t] = "complete"]
  /\ Note(t, TRUE)
  /\ UNCHANGED <<expected, adjustment, ph, completions, quit, todo, team, old>>

LEMMA ClosesRoles ==
  ASSUME TreeInv, NEW t \in Thread, Closes(t)
  PROVE  Roles' /\ Quiet /\ ~Quiet' /\ members' = {u \in members : ~quit[u]}
<1> USE DEF Closes
<1>1. Quiet /\ ~Quiet'
  BY OnTheWay DEF TreeInv, Types, Quiet, Closing
<1>2. Served(t) = t
  BY ServedMissing DEF Calling, Climbing
<1>3. /\ at' = [u \in Thread |-> IF u \in {t} THEN phase ELSE at[u]]
      /\ phase' = phase + 1 /\ arrived' = {} /\ leaving' = {}
      /\ members' = members \ (leaving \cup (IF quit[t] THEN {t} ELSE {}))
  BY <1>2 DEF Note, Record
<1> HIDE DEF Closes
<1>4. /\ pc[t] \in {"start", "try", "second"} /\ members \ arrived = {t} /\ todo[t] = {t}
      /\ pc' = [pc EXCEPT ![t] = "complete"]
      /\ UNCHANGED <<expected, adjustment, ph, completions, quit, todo, team, old>>
  BY DEF Closes
<1>5. pc'[t] = "complete" /\ \A u \in Thread \ {t} : pc'[u] = pc[u]
  BY <1>4 DEF TreeInv, Types
<1>6. Types'
  <2>1. HistoryTypeOK'
    BY <1>3 DEF TreeInv, Types, HistoryTypeOK
  <2>2. pc' \in [Thread -> Labels]
    BY <1>4 DEF TreeInv, Types, Labels
  <2> QED  BY <2>1, <2>2, <1>4 DEF TreeInv, Types, Closes
<1>7. Teams'
  <2>1. \A u \in Thread : pc'[u] \in Calling <=> pc[u] \in Calling
    BY <1>4, <1>5 DEF Calling, Climbing, Closing
  <2>2. UNCHANGED <<quit, todo, team>>
    BY <1>4
  <2>3. \A u \in Thread : pc[u] \in {"lane", "landed"} <=> pc'[u] \in {"lane", "landed"}
    BY <1>4, <1>5
  <2>4. \A u \in Thread : (pc'[u] = "lane" <=> pc[u] = "lane") /\ (pc'[u] = "landed" <=> pc[u] = "landed")
    BY <1>4, <1>5
  <2>5. \A u \in Thread : pc'[u] \in {"idle", "lane", "landed", "wait", "gone"} => pc'[u] = pc[u]
    BY <1>5
  <2> QED  BY <2>1, <2>2, <2>3, <2>4, <2>5 DEF TreeInv, Teams, Types
<1>8. \A u \in Thread \ {t} :
        /\ pc[u] \in {"landed", "wait", "gone"}
        /\ pc[u] = "wait" => old[u] = ph
        /\ pc[u] # "gone" => u \in arrived
  <2> SUFFICES ASSUME NEW u \in Thread \ {t}
      PROVE  /\ pc[u] \in {"landed", "wait", "gone"}
             /\ pc[u] = "wait" => old[u] = ph
             /\ pc[u] # "gone" => u \in arrived
    OBVIOUS
  <2>1. ~Missing(u)
    BY <1>1, <1>4 DEF TreeInv, OpenRoles
  <2>2. pc[u] \in Labels /\ pc[u] \notin Closing
    BY <1>1 DEF TreeInv, Types, Quiet
  <2>3. pc[u] \in {"landed", "wait", "gone"}
    BY <2>1, <2>2 DEF Missing, Labels, Closing
  <2> QED  BY <2>1, <2>3, <1>1 DEF TreeInv, OpenRoles, Missing, Late, Landed
<1>9. members' = {u \in members : ~quit[u]} /\ members' = {u \in Thread : pc'[u] # "gone" /\ ~quit'[u]}
  <2>1. leaving = {u \in arrived : quit[u]} /\ arrived \subseteq members /\ members \subseteq Thread
    BY <1>1 DEF TreeInv, OpenRoles, Types, HistoryTypeOK
  <2>2. members' = {u \in members : ~quit[u]}
    BY <2>1, <1>3, <1>4
  <2>3. \A u \in Thread : pc[u] = "gone" => quit[u]
    BY DEF TreeInv, Teams
  <2>4. \A u \in Thread : u \in members /\ ~quit[u] <=> pc'[u] # "gone" /\ ~quit'[u]
    BY <2>1, <2>3, <1>4, <1>5, <1>8
  <2> QED  BY <2>1, <2>2, <2>4
<1>10. OpenRoles'
  BY <1>1 DEF OpenRoles
<1>11. ClosingRoles'
  <2>1. \A u \in Thread : pc'[u] \in Closing => u = t
    BY <1>5, <1>8 DEF Closing
  <2>2. \A u \in Thread : pc'[u] # "gone" => at'[u] < phase'
    <3>1. phase \in Nat /\ \A u \in arrived : at[u] = phase
      BY <1>1 DEF TreeInv, OpenRoles, Types, HistoryTypeOK
    <3> QED  BY <3>1, <1>3, <1>5, <1>8
  <2>3. completions' + 1 = phase'
    BY <1>1, <1>3, <1>4 DEF TreeInv, OpenRoles
  <2>4. old'[t] = ph'
    BY <1>1, <1>4 DEF TreeInv, OpenRoles
  <2>5. \A u \in Thread \ {t} : pc'[u] \in {"wait", "landed", "gone"} /\ (pc'[u] = "wait" => old'[u] = ph')
    BY <1>4, <1>5, <1>8
  <2> QED  BY <2>1, <2>2, <2>3, <2>4, <2>5, <1>3, <1>4, <1>5, <1>9 DEF ClosingRoles
<1>12. Expects'
  <2>1. members \in SUBSET Thread /\ Droppers = members \ members' /\ members' \subseteq members
    BY <1>9 DEF TreeInv, Types, HistoryTypeOK, Droppers
  <2>2. Cardinality(members) = Cardinality(members') + Cardinality(Droppers)
    <3>1. members = members' \cup Droppers /\ members' \cap Droppers = {}
      BY <2>1
    <3>2. IsFiniteSet(members') /\ IsFiniteSet(Droppers)
      BY <2>1, Card
    <3>3. Cardinality(members' \cup Droppers) = Cardinality(members') + Cardinality(Droppers) - Cardinality(members' \cap Droppers)
      BY <3>2, FS_Union
    <3>4. Cardinality(members') \in Nat /\ Cardinality(Droppers) \in Nat
      BY <2>1, Card
    <3>5. Cardinality(members' \cap Droppers) = 0
      BY <3>1, FS_EmptySet
    <3>6. ASSUME NEW u, NEW c \in Nat, NEW d \in Nat, u = c + d - 0 PROVE u = c + d
      BY <3>6
    <3>7. Cardinality(members' \cup Droppers) = Cardinality(members') + Cardinality(Droppers)
      BY <3>3, <3>4, <3>5, <3>6
    <3> QED  BY <3>1, <3>7
  <2>3. expected = Cardinality(members) /\ 0 - adjustment = Cardinality(Droppers) /\ adjustment \in Int
    BY <1>1 DEF TreeInv, Expects
  <2>4. Cardinality(members') \in Nat /\ Cardinality(Droppers) \in Nat /\ Cardinality(members) \in Nat
    BY <2>1, Card
  <2>5. expected' + adjustment' = Cardinality(members')
    BY <2>2, <2>3, <2>4, <1>4
  <2>6. \A u \in Thread : pc'[u] \in {"complete", "adjust"} \/ pc'[u] \notin Closing
    BY <1>5, <1>8 DEF Closing
  <2>7. \A u \in Thread : pc'[u] \notin {"reset", "advance"}
    BY <2>6 DEF Closing
  <2> QED  BY <2>5, <2>7, <1>1, <1>4 DEF TreeInv, Expects
<1> QED  BY <1>1, <1>6, <1>7, <1>9, <1>10, <1>11, <1>12 DEF Roles

(* The steps of who completes the phase, up to its end.                    *)
CompletesOn(t) == RunCompletion(t) \/ AdjustExpected(t) \/ ResetAdjustment(t)

LEMMA CompletesRoles ==
  ASSUME TreeInv, NEW t \in Thread, CompletesOn(t)
  PROVE  Roles' /\ ~Quiet /\ ~Quiet'
<1> USE DEF history
<1>1. /\ pc[t] \in {"complete", "adjust", "reset"}
      /\ pc' = [pc EXCEPT ![t] = CASE pc[t] = "complete" -> "adjust" [] pc[t] = "adjust" -> "reset" [] OTHER -> "advance"]
      /\ completions' = IF pc[t] = "complete" THEN completions + 1 ELSE completions
      /\ expected' = IF pc[t] = "adjust" THEN expected + adjustment ELSE expected
      /\ adjustment' = IF pc[t] = "reset" THEN 0 ELSE adjustment
      /\ UNCHANGED <<ph, ticket, quit, todo, team, old, climb, phase, members, arrived, leaving, at>>
  BY DEF CompletesOn, RunCompletion, AdjustExpected, ResetAdjustment, ResetValue
<1>2. pc'[t] \in {"adjust", "reset", "advance"} /\ \A u \in Thread \ {t} : pc'[u] = pc[u]
  BY <1>1 DEF TreeInv, Types
<1>3. ~Quiet /\ ~Quiet' /\ \A u \in Thread : pc'[u] \in Closing => u = t
  BY <1>1, <1>2, ClosesAlone DEF Quiet, Closing
<1>4. Types'
  BY <1>1, <1>2 DEF TreeInv, Types, Labels, HistoryTypeOK
<1>5. Teams'
  <2>1. \A u \in Thread : (pc'[u] \in Calling <=> pc[u] \in Calling)
    BY <1>1, <1>2 DEF Calling, Closing
  <2>2. \A u \in Thread : \A l \in {"idle", "lane", "landed", "wait", "gone"} : pc'[u] = l <=> pc[u] = l
    BY <1>1, <1>2
  <2>3. UNCHANGED <<quit, todo, team>>
    BY <1>1
  <2> QED  BY <2>1, <2>2, <2>3 DEF TreeInv, Teams, Types
<1>6. OpenRoles'
  BY <1>3 DEF OpenRoles
<1>7. ClosingRoles'
  <2>1. pc[t] \in Closing
    BY <1>1 DEF Closing
  <2>2. /\ \A u \in Thread \ {t} : pc[u] \in {"wait", "landed", "gone"} /\ (pc[u] = "wait" => old[u] = ph)
        /\ old[t] = ph /\ todo[t] = {t}
        /\ arrived = {} /\ leaving = {}
        /\ members = {u \in Thread : pc[u] # "gone" /\ ~quit[u]}
        /\ \A u \in Thread : pc[u] # "gone" => at[u] < phase
        /\ phase = IF pc[t] = "complete" THEN completions + 1 ELSE completions
    BY <2>1 DEF TreeInv, ClosingRoles
  <2>3. \A u \in Thread : pc'[u] # "gone" <=> pc[u] # "gone"
    BY <1>1, <1>2
  <2>4. phase' = completions'
    BY <2>2, <1>1 DEF TreeInv, Types
  <2>5. members' = {u \in Thread : pc'[u] # "gone" /\ ~quit'[u]}
    BY <2>2, <2>3, <1>1
  <2> QED  BY <2>2, <2>3, <2>4, <2>5, <1>1, <1>2, <1>3 DEF ClosingRoles
<1>8. Expects'
  <2>1. members \in SUBSET Thread
    BY DEF TreeInv, Types, HistoryTypeOK
  <2>2. Cardinality(members) \in 0..N /\ members' = members
    BY <2>1, <1>1, Card, ParticipantsFinite
  <2>3. \A u \in Thread \ {t} : pc'[u] \notin {"complete", "adjust", "reset", "advance"}
    BY <1>3 DEF Closing
  <2>4. /\ expected \in 0..N /\ adjustment \in Int /\ 0 - adjustment \in 0..N
        /\ pc[t] \in {"complete", "adjust"} => expected + adjustment = Cardinality(members)
        /\ pc[t] \in {"reset", "advance"} => expected = Cardinality(members)
    BY DEF TreeInv, Expects
  <2>5. 0 - 0 \in 0..N
    BY ParticipantsFinite
  <2>6. CASE pc[t] = "complete"
    <3>1. pc'[t] = "adjust"
      BY <2>6, <1>1 DEF TreeInv, Types
    <3> QED  BY <2>2, <2>3, <2>4, <2>6, <3>1, <1>1, <1>3 DEF Expects
  <2>7. CASE pc[t] = "adjust"
    <3>1. pc'[t] = "reset"
      BY <2>7, <1>1 DEF TreeInv, Types
    <3> QED  BY <2>2, <2>3, <2>4, <2>7, <3>1, <1>1, <1>3 DEF Expects
  <2>8. CASE pc[t] = "reset"
    <3>1. pc'[t] = "advance"
      BY <2>8, <1>1 DEF TreeInv, Types
    <3> QED  BY <2>2, <2>3, <2>4, <2>5, <2>8, <3>1, <1>1, <1>3 DEF Expects
  <2> QED  BY <2>6, <2>7, <2>8, <1>1
<1> QED  BY <1>3, <1>4, <1>5, <1>6, <1>7, <1>8 DEF Roles

(* The phase ends. *)
LEMMA AdvanceRoles ==
  ASSUME TreeAssumption, TreeInv, NEW t \in Thread, AdvancePhase(t)
  PROVE  /\ Roles' /\ ~Quiet /\ Quiet'
         /\ ph' = Step(ph, 2) /\ arrived' = {} /\ expected' = Cardinality(members)
         /\ \A u \in Thread : pc'[u] \notin Climbing
<1> USE DEF history
<1>1. pc[t] = "advance" /\ pc[t] \in Closing /\ pc[t] \in Calling
  BY DEF AdvancePhase, Closing, Calling
<1>2. /\ \A u \in Thread \ {t} : pc[u] \in {"wait", "landed", "gone"} /\ (pc[u] = "wait" => old[u] = ph)
      /\ old[t] = ph /\ todo[t] = {t}
      /\ arrived = {} /\ leaving = {}
      /\ members = {u \in Thread : pc[u] # "gone" /\ ~quit[u]}
      /\ \A u \in Thread : pc[u] # "gone" => at[u] < phase
      /\ phase = completions
  BY <1>1 DEF TreeInv, ClosingRoles
<1>3. Served(t) = t
  BY <1>1, <1>2, ServedMissing
<1>4. /\ ph' = Step(ph, 2)
      /\ todo' = [todo EXCEPT ![t] = @ \ {t}]
      /\ pc' = [u \in Thread |-> IF u \in team[t] THEN IF quit[t] THEN "gone" ELSE "wait" ELSE pc[u]]
      /\ old' = [u \in Thread |-> IF u \in team[t] THEN ph ELSE old[u]]
      /\ UNCHANGED <<expected, adjustment, ticket, completions, quit, team, climb, phase, members, arrived, leaving, at>>
  BY <1>2, <1>3 DEF AdvancePhase, Arrived, Return, Token
<1>5. /\ t \in team[t] /\ team[t] \subseteq Thread /\ (quit[t] => team[t] = {t})
      /\ \A u \in team[t] \ {t} : pc[u] = "landed"
  BY <1>1, <1>2 DEF TreeInv, Teams
<1>6. \A u \in Thread : pc[u] = "landed" => u \in team[t]
  <2>1. \A u \in Thread : pc[u] \in Calling => u = t
    BY <1>2 DEF Calling, Climbing, Closing
  <2> QED  BY <2>1 DEF TreeInv, Teams
<1>7. \A u \in Thread : pc'[u] \in {"wait", "gone"} /\ (pc'[u] = "wait" => old'[u] = ph)
  BY <1>2, <1>4, <1>5, <1>6
<1>8. Quiet' /\ ~Quiet /\ \A u \in Thread : pc'[u] \notin Climbing /\ pc'[u] \notin Calling
  BY <1>1, <1>7 DEF Quiet, Closing, Climbing, Calling
<1>9. ph \in 0..(Byte - 1)
  BY DEF TreeInv, Types
<1>10. ph' \in 0..(Byte - 1) /\ ph' # ph
  BY <1>4, <1>9, StepFacts
<1>11. Types'
  <2>1. pc' \in [Thread -> Labels] /\ old' \in [Thread -> 0..(Byte - 1)] /\ todo' \in [Thread -> SUBSET Thread]
    BY <1>4, <1>9 DEF TreeInv, Types, Labels
  <2> QED  BY <2>1, <1>4, <1>10 DEF TreeInv, Types, HistoryTypeOK
<1>12. \A u \in Thread : pc'[u] = "gone" <=> pc[u] = "gone" \/ (u = t /\ quit[t])
  BY <1>1, <1>4, <1>5
<1>13. Teams'
  <2>1. \A u \in Thread : (pc[u] \in {"idle", "lane", "landed", "wait"} => ~quit[u]) /\ (pc[u] = "gone" => quit[u])
    BY DEF TreeInv, Teams
  <2>2. \A u \in Thread : (pc'[u] = "wait" => ~quit[u]) /\ (pc'[u] = "gone" => quit[u])
    BY <2>1, <1>1, <1>2, <1>7, <1>12
  <2> QED  BY <2>2, <1>4, <1>7, <1>8 DEF Teams
<1>14. OpenRoles'
  <2>1. \A u \in Thread : (Missing(u)' <=> pc'[u] = "wait") /\ ~Landed(u)' /\ (Late(u)' <=> pc'[u] = "wait")
    BY <1>7, <1>10 DEF Missing, Landed, Late
  <2>2. \A u \in Thread : u \in members <=> pc'[u] = "wait"
    <3>1. \A u \in Thread : (pc[u] \in {"idle", "lane", "landed", "wait"} => ~quit[u]) /\ (pc[u] = "gone" => quit[u])
      BY DEF TreeInv, Teams
    <3> QED  BY <3>1, <1>1, <1>2, <1>7, <1>12
  <2>3. \A u \in Thread : pc'[u] = "wait" => at[u] < phase
    BY <1>2, <1>7, <1>12
  <2> QED  BY <2>1, <2>2, <2>3, <1>2, <1>4, <1>7, <1>8 DEF OpenRoles
<1>15. ClosingRoles'
  BY <1>8 DEF Quiet, ClosingRoles
<1>16. Expects'
  <2>1. expected \in 0..N /\ expected = Cardinality(members) /\ adjustment = 0
    BY <1>1 DEF TreeInv, Expects
  <2>2. Droppers' = {}
    BY <1>2, <1>4 DEF Droppers
  <2>3. 0 - 0 = 0 /\ 0 \in 0..N
    BY ParticipantsFinite
  <2>4. \A u \in Thread : pc'[u] \notin Closing
    BY <1>8 DEF Quiet
  <2> QED  BY <2>1, <2>2, <2>3, <2>4, <1>4, FS_EmptySet DEF Expects, Closing
<1>17. expected' = Cardinality(members)
  BY <1>1, <1>4 DEF TreeInv, Expects
<1> QED  BY <1>2, <1>4, <1>8, <1>11, <1>13, <1>14, <1>15, <1>16, <1>17 DEF Roles

(* A thread sees that its phase has ended. *)
LEMMA WaitRoles ==
  ASSUME TreeInv, NEW t \in Thread, WaitToken(t)
  PROVE  Roles' /\ Quiet /\ Quiet' /\ at[t] < phase /\ completions = phase
<1> USE DEF WaitToken, history
<1>0. Late(t)
  BY DEF Late
<1>1. Quiet /\ Quiet'
  BY <1>0, OnTheWay DEF Quiet, TreeInv, Types, Closing
<1>2. Types'
  BY DEF TreeInv, Types, Labels, HistoryTypeOK
<1>3. \A u \in Thread : (pc'[u] \in Calling <=> pc[u] \in Calling) /\ (u # t => pc'[u] = pc[u])
  BY DEF TreeInv, Types, Calling, Climbing, Closing
<1>4. Teams'
  BY <1>3 DEF TreeInv, Teams
<1>5. OpenRoles'
  <2>1. \A u \in Thread : (Missing(u)' <=> Missing(u)) /\ (Landed(u)' <=> Landed(u)) /\ (Late(u)' => Late(u))
    BY DEF TreeInv, Types, Missing, Landed, Late
  <2> QED  BY <1>1, <2>1 DEF TreeInv, OpenRoles, Types
<1>6. ClosingRoles'
  BY <1>1 DEF Quiet, ClosingRoles
<1>7. Expects'
  BY <1>1 DEF TreeInv, Expects, Quiet, Closing, Droppers
<1>8. at[t] < phase /\ completions = phase
  BY <1>0, <1>1 DEF TreeInv, OpenRoles
<1> QED  BY <1>1, <1>2, <1>4, <1>5, <1>6, <1>7, <1>8 DEF Roles

-----------------------------------------------------------------------------
(* The shape of the tree for at most N arrivals.                           *)
LEMMA InTheTree ==
  ASSUME NEW n \in 0..N, NEW r \in Nat, NEW i, Used(n, i, r)
  PROVE  i \in Node /\ i \in Nat /\ r \in Rounds /\ r + 1 \in Nat
<1>1. PICK k \in Nat : i = k * 2^r
  BY DEF Used, Multiple
<1>2. 2^r \in Nat /\ r + 1 <= 2^r /\ 2^r < n /\ 2 * i < n
  BY PowerPositive DEF Used
<1>3. i \in Nat
  BY <1>1, <1>2
<1>4. r <= N - 1 /\ N \in Nat
  BY <1>2, ParticipantsFinite
<1>5. i <= ((N + 1) \div 2) - 1
  BY <1>2, <1>3, <1>4
<1> QED  BY <1>3, <1>4, <1>5 DEF Node, Size, Rounds

\* A node of the next round is where one or two nodes of this round are.
LEMMA NodeBelow ==
  ASSUME NEW n \in 0..N, NEW r \in Nat, NEW i, Used(n, i, r + 1)
  PROVE  /\ Used(n, i, r) /\ ClearBit(i, r) = i /\ i \in Nat
         /\ 2 * i + 2 * 2^r < n => Used(n, i + 2^r, r) /\ ClearBit(i + 2^r, r) = i
<1>1. PICK k \in Nat : i = k * 2^(r + 1)
  BY DEF Used, Multiple
<1> DEFINE b == 2^r
<1>2. b \in Nat \ {0} /\ 2^(r + 1) = 2 * b /\ n \in Nat
  BY PowerPositive, PowerOfNext, ParticipantsFinite
<1>3. 2 * b < n /\ 2 * i < n
  BY <1>2 DEF Used
<1> HIDE DEF b
<1>4. i = (2 * k) * b /\ i + b = (2 * k + 1) * b /\ i \in Nat
  BY <1>1, <1>2
<1>5. 2 * k \in Nat /\ 2 * k + 1 \in Nat /\ (2 * k) \div 2 = k /\ (2 * k + 1) \div 2 = k
  OBVIOUS
<1>6. Multiple(i, b) /\ Multiple(i + b, b)
  BY <1>4, <1>5 DEF Multiple
<1>7. ClearBit((2 * k) * b, r) = ((2 * k) \div 2) * 2^(r + 1)
  BY <1>5, ClearsBit DEF b
<1>8. ClearBit((2 * k + 1) * b, r) = ((2 * k + 1) \div 2) * 2^(r + 1)
  BY <1>5, ClearsBit DEF b
<1>9. ClearBit(i, r) = i /\ ClearBit(i + b, r) = i
  BY <1>1, <1>4, <1>5, <1>7, <1>8
<1>10. b < n /\ (2 * i + 2 * b < n => 2 * (i + b) < n)
  BY <1>2, <1>3, <1>4
<1> QED  BY <1>3, <1>4, <1>6, <1>9, <1>10 DEF Used, b

\* The node that a thread climbs to.
LEMMA NodeAbove ==
  ASSUME NEW n \in 0..N, NEW r \in Nat, NEW j, Used(n, j, r), 2 * 2^r < n
  PROVE  LET i == ClearBit(j, r) IN
         /\ Used(n, i, r + 1) /\ i \in Nat /\ i <= j
         /\ j = i \/ (j = i + 2^r /\ 2 * i + 2 * 2^r < n)
<1>1. PICK k \in Nat : j = k * 2^r
  BY DEF Used, Multiple
<1> DEFINE b == 2^r
           i == ClearBit(j, r)
<1>2. b \in Nat \ {0} /\ 2^(r + 1) = 2 * b /\ n \in Nat
  BY PowerPositive, PowerOfNext, ParticipantsFinite
<1>3. i = (k \div 2) * 2^(r + 1) /\ k \div 2 \in Nat /\ i \in Nat /\ (j = i \/ j = i + b)
  BY <1>1, ClearsBit
<1>4. 2 * j < n /\ 2 * b < n
  BY DEF Used
<1>5. Multiple(i, 2^(r + 1))
  BY <1>3 DEF Multiple
<1> HIDE DEF i, b
<1>6. 2 * i < n /\ i <= j /\ (j = i + b => 2 * i + 2 * b < n)
  BY <1>2, <1>3, <1>4
<1> QED  BY <1>2, <1>3, <1>4, <1>5, <1>6 DEF Used, i, b

\* A tree for fewer arrivals is a part of the tree.
LEMMA SmallerTree ==
  ASSUME NEW n \in 0..N, NEW m \in 0..n, NEW r \in Nat, NEW i, Used(m, i, r)
  PROVE  Used(n, i, r)
<1>1. PICK k \in Nat : i = k * 2^r
  BY DEF Used, Multiple
<1>2. 2^r \in Nat /\ i \in Nat /\ n \in Nat /\ m \in Nat /\ m <= n
  BY <1>1, PowerPositive, ParticipantsFinite
<1> QED  BY <1>2 DEF Used

\* What the locals of the climb say.
LEMMA ClimbFacts ==
  ASSUME TreeAssumption, TreeInv, NEW t \in Thread, pc[t] \in Climbing
  PROVE  LET c == climb[t]
             n == expected
         IN  /\ n \in 0..N /\ c.round \in Nat /\ c.cur \in Nat /\ Used(n, c.cur, c.round)
             /\ c.cur \in Node /\ c.round \in Rounds
             /\ Single(c) <=> Lone(n, c.cur, c.round)
             /\ Halved(c.exp) = 1 <=> n <= 2 * 2^c.round
             /\ c.cur <= c.last
<1> DEFINE c == climb[t]
           n == expected
           b == 2^c.round
<1>1. n \in 0..N /\ n \in Nat /\ c.round \in Nat
  BY ParticipantsFinite DEF TreeInv, Expects, Types
<1>2. /\ c.cur \in Nat /\ Used(n, c.cur, c.round)
      /\ c.exp \in Nat /\ (c.exp - 1) * b < n /\ n <= c.exp * b
      /\ \E l \in Nat : c.last = l * b /\ 2 * (l * b) <= n /\ n < 2 * (l * b) + 2 * b
  BY DEF TreeInv, ClimbRight, LocalsRight
<1>3. PICK l \in Nat : c.last = l * b /\ 2 * (l * b) <= n /\ n < 2 * (l * b) + 2 * b
  BY <1>2
<1>4. PICK k \in Nat : c.cur = k * b
  BY <1>2 DEF Used, Multiple
<1>5. b \in Nat \ {0} /\ 2 * c.cur < n /\ b < n
  BY <1>1, <1>2, PowerPositive DEF Used
<1> DEFINE e == c.exp
<1>6. e \in Nat /\ (e - 1) * b < n /\ n <= e * b
  BY <1>2
<1> HIDE DEF b, c, n, e
<1>7. (k * b = l * b /\ e % 2 = 1) <=> n <= 2 * (k * b) + b
  BY <1>1, <1>3, <1>4, <1>5, <1>6, SingleIsLone
<1>8. Single(c) <=> Lone(n, c.cur, c.round)
  BY <1>3, <1>4, <1>7 DEF Single, Lone, b, e
<1>9. Halved(e) = 1 <=> n <= 2 * b
  BY <1>1, <1>5, <1>6, HalvedRight
<1>10. c.cur <= c.last
  <2>1. k * b < (l + 1) * b
    BY <1>1, <1>3, <1>4, <1>5
  <2>2. k < l + 1
    BY <1>5, <2>1
  <2>3. k <= l
    BY <2>2
  <2>4. k * b <= l * b
    BY <2>3, <1>5
  <2> QED  BY <2>4, <1>3, <1>4
<1>11. c.cur \in Node /\ c.round \in Rounds
  BY <1>1, <1>2, InTheTree
<1> QED  BY <1>1, <1>2, <1>8, <1>9, <1>10, <1>11 DEF b, c, n, e

\* The locals one round up.
LEMMA ClimbNext ==
  ASSUME TreeAssumption, TreeInv, NEW t \in Thread, pc[t] \in Climbing
  PROVE  LET c == climb[t]
             n == expected
             d == [cur |-> ClearBit(c.cur, c.round), exp |-> Halved(c.exp),
                   last |-> ClearBit(c.last, c.round), round |-> c.round + 1]
             b == 2^d.round
         IN  /\ d \in [cur : Int, exp : Int, last : Int, round : Nat]
             /\ 2 * 2^c.round < n => Used(n, d.cur, d.round)
             /\ d.cur \in Nat /\ d.exp \in Nat /\ (d.exp - 1) * b < n /\ n <= d.exp * b
             /\ \E l \in Nat : d.last = l * b /\ 2 * (l * b) <= n /\ n < 2 * (l * b) + 2 * b
<1> DEFINE c == climb[t]
           n == expected
           b == 2^c.round
           e == c.exp
           b2 == 2^(c.round + 1)
<1>1. n \in 0..N /\ n \in Nat /\ c.round \in Nat /\ c.cur \in Nat /\ Used(n, c.cur, c.round)
  BY ClimbFacts, ParticipantsFinite
<1>2. e \in Nat /\ (e - 1) * b < n /\ n <= e * b
  BY DEF TreeInv, ClimbRight, LocalsRight
<1>3. PICK l \in Nat : c.last = l * b /\ 2 * (l * b) <= n /\ n < 2 * (l * b) + 2 * b
  BY DEF TreeInv, ClimbRight, LocalsRight
<1>4. b \in Nat \ {0} /\ b < n /\ b2 = 2 * b
  BY <1>1, PowerPositive, PowerOfNext DEF Used
<1>5. PICK k \in Nat : c.cur = k * b
  BY <1>1 DEF Used, Multiple
<1>6. ClearBit(c.cur, c.round) \in Nat
  BY <1>1, <1>5, ClearsBit
<1>7. ClearBit(c.last, c.round) = (l \div 2) * b2 /\ l \div 2 \in Nat /\ ClearBit(c.last, c.round) \in Nat
  BY <1>1, <1>3, ClearsBit
<1>8. 2 * b < n => Used(n, ClearBit(c.cur, c.round), c.round + 1)
  BY <1>1, NodeAbove
<1> HIDE DEF b, b2, c, e, n
<1>9. Halved(e) \in Nat /\ (Halved(e) - 1) * (2 * b) < n /\ n <= Halved(e) * (2 * b)
  BY <1>1, <1>2, <1>4, HalvedRight
<1> DEFINE m == (l \div 2) * (2 * b)
<1>10. 2 * m <= n /\ n < 2 * m + 2 * (2 * b)
  BY <1>1, <1>3, <1>4, LastRight
<1> DEFINE h == l \div 2
<1>11. h \in Nat /\ ClearBit(c.last, c.round) = h * b2 /\ 2 * (h * b2) <= n /\ n < 2 * (h * b2) + 2 * b2
  BY <1>4, <1>7, <1>10
<1>12. (Halved(e) - 1) * b2 < n /\ n <= Halved(e) * b2
  BY <1>4, <1>9
<1> DEFINE d == [cur |-> ClearBit(c.cur, c.round), exp |-> Halved(c.exp),
                 last |-> ClearBit(c.last, c.round), round |-> c.round + 1]
<1> HIDE DEF h
<1>13. d \in [cur : Int, exp : Int, last : Int, round : Nat]
  BY <1>1, <1>6, <1>7, <1>9 DEF e
<1>14. d.cur = ClearBit(c.cur, c.round) /\ d.exp = Halved(e) /\ d.last = ClearBit(c.last, c.round)
       /\ d.round = c.round + 1 /\ 2^d.round = b2
  BY DEF e, b2
<1> HIDE DEF d
<1>15. \E x \in Nat : d.last = x * 2^d.round /\ 2 * (x * 2^d.round) <= n /\ n < 2 * (x * 2^d.round) + 2 * 2^d.round
  BY <1>11, <1>14
<1>16. d.cur \in Nat /\ d.exp \in Nat /\ (d.exp - 1) * 2^d.round < n /\ n <= d.exp * 2^d.round
  BY <1>6, <1>9, <1>12, <1>14
<1>17. 2 * b < n => Used(n, d.cur, d.round)
  BY <1>8, <1>14
<1> QED  BY <1>13, <1>15, <1>16, <1>17 DEF d, c, n, b

-----------------------------------------------------------------------------
(* What the values of the nodes say of one state.                          *)
LEMMA PowerZero == 2^0 = 1
<1>1. Cardinality(SUBSET {}) = 2^Cardinality({}) /\ Cardinality({}) = 0
  BY FS_EmptySet, FS_SUBSET
<1>2. SUBSET {} = {{}}
  OBVIOUS
<1>3. Cardinality({{}}) = 1
  BY FS_Singleton
<1> QED  BY <1>1, <1>2, <1>3

LEMMA OneValue ==
  ASSUME TreeAssumption, TreeInv, NEW i, NEW r
  PROVE  ~(Free(i, r) /\ Half(i, r)) /\ ~(Free(i, r) /\ Full(i, r)) /\ ~(Half(i, r) /\ Full(i, r))
<1>1. ph \in 0..(Byte - 1)
  BY DEF TreeInv, Types
<1> QED  BY <1>1, StepFacts DEF Free, Half, Full

\* What a node above round 0 has had or has at it, and what it may get.
LEMMA NodeFlow ==
  ASSUME TreeAssumption, TreeInv, Quiet, NEW r \in Nat, NEW i, Used(expected, i, r + 1)
  PROVE  LET cap == IF Lone(expected, i, r + 1) THEN 1 ELSE 2
             c == Cardinality(AtNode(i, r + 1))
             m == Marks(expected, i, r + 1)
             both == Full(i, r) /\ (2 * i + 2 * 2^r < expected => Full(i + 2^r, r))
         IN  /\ c \in Nat /\ m \in Nat
             /\ c + m <= cap
             /\ c + m = cap <=> both
             /\ m = cap <=> Full(i, r + 1)
             /\ Free(i, r + 1) => m = 0
             /\ Half(i, r + 1) => m = 1
<1> DEFINE cap == IF Lone(expected, i, r + 1) THEN 1 ELSE 2
           c == Cardinality(AtNode(i, r + 1))
           m == Marks(expected, i, r + 1)
           two == 2 * i + 2 * 2^r < expected
<1>1. expected \in 0..N /\ expected \in Nat
  BY ParticipantsFinite DEF TreeInv, Expects
<1>2. i \in Node /\ i \in Nat /\ r + 1 \in Rounds
  BY <1>1, InTheTree
<1>3. 2^(r + 1) = 2 * 2^r /\ 2^r \in Nat
  BY PowerOfNext, PowerPositive
<1>4. two <=> ~Lone(expected, i, r + 1)
  BY <1>1, <1>2, <1>3 DEF Lone
<1>5. AtNode(i, r + 1) \in SUBSET Thread
  BY DEF AtNode
<1>6. c \in Nat
  BY <1>5, Card
<1>7. Free(i, r + 1) \/ (Half(i, r + 1) /\ ~Lone(expected, i, r + 1)) \/ Full(i, r + 1)
  BY <1>2 DEF TreeInv, NodesRight
<1>8. c + m = Below(expected, i, r)
  BY <1>2 DEF TreeInv, Flow
<1>9. ~(Free(i, r + 1) /\ Half(i, r + 1)) /\ ~(Free(i, r + 1) /\ Full(i, r + 1)) /\ ~(Half(i, r + 1) /\ Full(i, r + 1))
  BY OneValue
<1>10. m \in Nat /\ (m = cap <=> Full(i, r + 1)) /\ (Free(i, r + 1) => m = 0) /\ (Half(i, r + 1) => m = 1)
  BY <1>7, <1>9 DEF Marks
<1>11. Below(expected, i, r) = One(Full(i, r)) + (IF two THEN One(Full(i + 2^r, r)) ELSE 0)
  BY DEF Below
<1>12. Below(expected, i, r) <= cap /\ (Below(expected, i, r) = cap <=> Full(i, r) /\ (two => Full(i + 2^r, r)))
  <2> DEFINE F == Full(i, r)
             G == Full(i + 2^r, r)
  <2> HIDE DEF F, G, two
  <2> QED  BY <1>4, <1>11 DEF One, F, G
<1> HIDE DEF c, m, cap, two
<1> QED  BY <1>6, <1>8, <1>10, <1>12 DEF c, m, cap, two

LEMMA FirstOf ==
  ASSUME NEW S \in SUBSET Nat, S # {}
  PROVE  \E m \in S : \A k \in S : m <= k
<1> DEFINE Less == OpToRel(<, Nat)
<1>1. IsWellFoundedOn(Less, Nat)
  BY NatLessThanWellFounded
<1>2. \A y, z \in Nat : z < y => <<z, y>> \in Less
  BY DEF OpToRel
<1> HIDE DEF Less
<1>3. PICK m \in S : \A y \in S : ~(<<y, m>> \in Less)
  BY <1>1, WFMin
<1>4. \A k \in S : ~(k < m)
  BY <1>2, <1>3
<1> QED  BY <1>4

\* Below a full round the rounds are full, and nobody is there.
LEMMA FullBelow ==
  ASSUME TreeAssumption, TreeInv, Quiet, NEW s \in Nat, 2^s < expected,
         \A i \in Node : Used(expected, i, s) => Full(i, s)
  PROVE  /\ \A r \in 0..s, i \in Node : Used(expected, i, r) => Full(i, r)
         /\ \A r \in 1..s, i \in Node : Used(expected, i, r) => AtNode(i, r) = {}
<1> DEFINE P(r) == 2^r < expected /\ \A i \in Node : Used(expected, i, r) => Full(i, r)
           Bad == {d \in 0..s : ~P(s - d)}
<1>1. expected \in 0..N /\ expected \in Nat
  BY ParticipantsFinite DEF TreeInv, Expects
<1>2. ASSUME NEW r \in Nat, P(r + 1) PROVE P(r)
  <2>1. 2 * 2^r < expected /\ 2^r \in Nat
    BY <1>2, PowerOfNext, PowerPositive
  <2>2. 2^r < expected
    BY <1>1, <2>1
  <2>3. ASSUME NEW j \in Node, Used(expected, j, r) PROVE Full(j, r)
    <3> DEFINE i == ClearBit(j, r)
    <3>1. /\ Used(expected, i, r + 1) /\ i \in Nat
          /\ j = i \/ (j = i + 2^r /\ 2 * i + 2 * 2^r < expected)
      BY <1>1, <2>1, <2>3, NodeAbove
    <3> HIDE DEF i
    <3>2. i \in Node
      BY <1>1, <3>1, InTheTree
    <3>3. Full(i, r + 1)
      BY <1>2, <3>1, <3>2
    <3> DEFINE cap == IF Lone(expected, i, r + 1) THEN 1 ELSE 2
               c == Cardinality(AtNode(i, r + 1))
               m == Marks(expected, i, r + 1)
               both == Full(i, r) /\ (2 * i + 2 * 2^r < expected => Full(i + 2^r, r))
    <3>4. c \in Nat /\ m \in Nat /\ c + m <= cap /\ (c + m = cap <=> both) /\ (m = cap <=> Full(i, r + 1))
      BY <3>1, NodeFlow
    <3>5. both
      <4>1. cap \in Nat
        OBVIOUS
      <4> HIDE DEF cap, c, m, both
      <4> QED  BY <3>3, <3>4, <4>1
    <3> QED  BY <3>1, <3>5
  <2> QED  BY <2>2, <2>3
<1> HIDE DEF P
<1>3. P(s)
  BY DEF P
<1>4. Bad = {}
  <2> SUFFICES ASSUME Bad # {} PROVE FALSE
    OBVIOUS
  <2>1. Bad \in SUBSET Nat
    OBVIOUS
  <2>2. PICK d \in Bad : \A k \in Bad : d <= k
    BY <2>1, FirstOf
  <2>3. d \in 1..s
    <3>1. s - 0 = s
      OBVIOUS
    <3> QED  BY <3>1, <1>3
  <2>4. P(s - (d - 1))
    BY <2>2, <2>3
  <2>5. s - d \in Nat /\ s - (d - 1) = (s - d) + 1
    BY <2>3
  <2>6. P(s - d)
    BY <2>4, <2>5, <1>2
  <2> QED  BY <2>6
<1>5. \A r \in 0..s : P(r)
  <2> SUFFICES ASSUME NEW r \in 0..s PROVE P(r)
    OBVIOUS
  <2>1. s - r \in 0..s /\ s - (s - r) = r
    OBVIOUS
  <2> QED  BY <2>1, <1>4
<1>6. ASSUME NEW r \in 1..s, NEW i \in Node, Used(expected, i, r) PROVE AtNode(i, r) = {}
  <2> DEFINE q == r - 1
             cap == IF Lone(expected, i, q + 1) THEN 1 ELSE 2
             c == Cardinality(AtNode(i, q + 1))
             m == Marks(expected, i, q + 1)
  <2>1. q \in Nat /\ q + 1 = r
    OBVIOUS
  <2> HIDE DEF q
  <2>2. c \in Nat /\ m \in Nat /\ c + m <= cap /\ (m = cap <=> Full(i, q + 1))
    BY <1>6, <2>1, NodeFlow
  <2>3. Full(i, q + 1)
    BY <1>5, <1>6, <2>1 DEF P
  <2>4. c = 0
    <3>1. cap \in Nat
      OBVIOUS
    <3> HIDE DEF cap, c, m
    <3> QED  BY <2>2, <2>3, <3>1
  <2>5. AtNode(i, q + 1) \in SUBSET Thread
    BY DEF AtNode
  <2> QED  BY <2>1, <2>4, <2>5, Card
<1> QED  BY <1>5, <1>6 DEF P

\* Above a full round 0 the rounds are full, as far as they are left.
LEMMA FullAbove ==
  ASSUME TreeAssumption, TreeInv, Quiet, NEW s \in Nat,
         \A i \in Node : Used(expected, i, 0) => Full(i, 0),
         \A r \in 1..s, i \in Node : Used(expected, i, r) => AtNode(i, r) = {}
  PROVE  \A r \in 0..s, i \in Node : Used(expected, i, r) => Full(i, r)
<1> DEFINE P(r) == \A i \in Node : Used(expected, i, r) => Full(i, r)
           Bad == {r \in 0..s : ~P(r)}
<1>1. expected \in 0..N /\ expected \in Nat
  BY ParticipantsFinite DEF TreeInv, Expects
<1>2. ASSUME NEW r \in Nat, r + 1 \in 1..s, P(r) PROVE P(r + 1)
  <2> SUFFICES ASSUME NEW i \in Node, Used(expected, i, r + 1) PROVE Full(i, r + 1)
    OBVIOUS
  <2>1. /\ Used(expected, i, r) /\ i \in Nat
        /\ 2 * i + 2 * 2^r < expected => Used(expected, i + 2^r, r)
    BY <1>1, NodeBelow
  <2>2. 2 * i + 2 * 2^r < expected => i + 2^r \in Node
    BY <1>1, <2>1, InTheTree
  <2> DEFINE cap == IF Lone(expected, i, r + 1) THEN 1 ELSE 2
             c == Cardinality(AtNode(i, r + 1))
             m == Marks(expected, i, r + 1)
             both == Full(i, r) /\ (2 * i + 2 * 2^r < expected => Full(i + 2^r, r))
  <2>3. c \in Nat /\ m \in Nat /\ c + m <= cap /\ (c + m = cap <=> both) /\ (m = cap <=> Full(i, r + 1))
    BY NodeFlow
  <2>4. both
    BY <1>2, <2>1, <2>2
  <2>5. c = 0
    BY <1>2, FS_EmptySet
  <2>6. cap \in Nat
    OBVIOUS
  <2> HIDE DEF cap, c, m, both
  <2> QED  BY <2>3, <2>4, <2>5, <2>6
<1> HIDE DEF P
<1>3. Bad = {}
  <2> SUFFICES ASSUME Bad # {} PROVE FALSE
    OBVIOUS
  <2>1. Bad \in SUBSET Nat
    OBVIOUS
  <2>2. PICK d \in Bad : \A k \in Bad : d <= k
    BY <2>1, FirstOf
  <2>3. d \in 1..s
    <3>1. P(0)
      BY DEF P
    <3> QED  BY <3>1
  <2>4. P(d - 1)
    BY <2>2, <2>3
  <2>5. d - 1 \in Nat /\ (d - 1) + 1 = d
    BY <2>3
  <2>6. P(d)
    BY <2>3, <2>4, <2>5, <1>2
  <2> QED  BY <2>6
<1> QED  BY <1>3 DEF P

\* The slots stand for nodes of round 0.
LEMMA SlotNode ==
  ASSUME TreeInv, NEW k \in 0..(expected - 1), expected > 1
  PROVE  k \div 2 \in Node /\ Used(expected, k \div 2, 0)
<1>1. expected \in 0..N /\ expected \in Nat /\ N \in Nat
  BY ParticipantsFinite DEF TreeInv, Expects
<1> DEFINE h == k \div 2
<1>2. h \in Nat /\ 2 * h <= k /\ k \in Nat
  BY <1>1
<1> HIDE DEF h
<1>3. h <= ((N + 1) \div 2) - 1
  BY <1>1, <1>2
<1>4. h = h * 1 /\ 2 * h < expected
  BY <1>1, <1>2
<1>5. Used(expected, h, 0)
  BY <1>1, <1>2, <1>4, PowerZero DEF Used, Multiple
<1> QED  BY <1>2, <1>3, <1>5 DEF Node, Size, h

\* Full nodes of round 0 have their slots taken.
LEMMA FullSlots ==
  ASSUME TreeAssumption, TreeInv, expected > 1,
         \A i \in Node : Used(expected, i, 0) => Full(i, 0)
  PROVE  Slots = 0..(expected - 1)
<1> SUFFICES ASSUME NEW k \in 0..(expected - 1) PROVE k \in Slots
  BY DEF Slots
<1>1. k \div 2 \in Node /\ Full(k \div 2, 0)
  BY SlotNode
<1>2. ~Free(k \div 2, 0)
  BY <1>1, OneValue
<1> QED  BY <1>1, <1>2 DEF Slots

\* Who climbs has not arrived.
LEMMA ClimbersMissing ==
  ASSUME TreeInv, Quiet
  PROVE  /\ \A t \in Thread : pc[t] \in Climbing => t \in members \ arrived /\ old[t] = ph
         /\ arrived \subseteq members /\ members \in SUBSET Thread /\ arrived \in SUBSET Thread
         /\ expected = Cardinality(members) /\ Climbers \subseteq members \ arrived
<1>1. \A t \in Thread : pc[t] \in Climbing => t \in members \ arrived /\ old[t] = ph
  BY DEF TreeInv, OpenRoles, Missing, Climbing
<1> QED  BY <1>1 DEF TreeInv, OpenRoles, Expects, Types, HistoryTypeOK, Climbers

LEMMA Difference ==
  ASSUME NEW A \in SUBSET Thread, NEW B \in SUBSET A
  PROVE  Cardinality(A) = Cardinality(A \ B) + Cardinality(B)
<1>1. IsFiniteSet(A \ B) /\ IsFiniteSet(B) /\ Cardinality(A \ B) \in Nat /\ Cardinality(B) \in Nat
  BY Card
<1>2. Cardinality((A \ B) \cup B) = Cardinality(A \ B) + Cardinality(B) - Cardinality((A \ B) \cap B)
  BY <1>1, FS_Union
<1>3. (A \ B) \cup B = A /\ (A \ B) \cap B = {}
  OBVIOUS
<1>4. Cardinality((A \ B) \cap B) = 0
  BY <1>3, FS_EmptySet
<1>5. ASSUME NEW u, NEW c \in Nat, NEW d \in Nat, u = c + d - 0 PROVE u = c + d
  BY <1>5
<1>6. Cardinality((A \ B) \cup B) = Cardinality(A \ B) + Cardinality(B)
  BY <1>1, <1>2, <1>4, <1>5
<1> QED  BY <1>3, <1>6
LEMMA PowerMono ==
  ASSUME NEW a \in Nat, NEW b \in Nat, a <= b
  PROVE  2^a <= 2^b
<1>1. IsFiniteSet(1..a) /\ Cardinality(1..a) = a /\ IsFiniteSet(1..b) /\ Cardinality(1..b) = b
  BY FS_Interval
<1>2. /\ Cardinality(SUBSET (1..a)) = 2^a
      /\ IsFiniteSet(SUBSET (1..b)) /\ Cardinality(SUBSET (1..b)) = 2^b
  BY <1>1, FS_SUBSET
<1>3. SUBSET (1..a) \subseteq SUBSET (1..b)
  <2>1. 1..a \subseteq 1..b
    OBVIOUS
  <2> QED  BY <2>1
<1>4. Cardinality(SUBSET (1..a)) <= Cardinality(SUBSET (1..b))
  BY <1>2, <1>3, FS_Subset
<1> QED  BY <1>2, <1>4

\* When all slots are taken, who is missing climbs.
LEMMA SlotsFull ==
  ASSUME TreeInv, Quiet, expected > 1, Slots = 0..(expected - 1)
  PROVE  Climbers = members \ arrived
<1>1. /\ arrived \subseteq members /\ members \in SUBSET Thread /\ arrived \in SUBSET Thread
      /\ expected = Cardinality(members) /\ Climbers \subseteq members \ arrived
  BY ClimbersMissing
<1>2. expected \in Nat
  BY ParticipantsFinite DEF TreeInv, Expects
<1>3. Cardinality(Slots) = expected
  BY <1>2, FS_Interval
<1>4. Cardinality(Slots) = Cardinality(arrived) + Cardinality(Climbers)
  BY DEF TreeInv, SlotsTaken
<1>5. Cardinality(members) = Cardinality(members \ arrived) + Cardinality(arrived)
  BY <1>1, Difference
<1>6. Cardinality(arrived) \in Nat /\ Cardinality(Climbers) \in Nat /\ Cardinality(members \ arrived) \in Nat
  BY <1>1, Card
<1>7. Cardinality(Climbers) = Cardinality(members \ arrived)
  <2>1. ASSUME NEW a \in Nat, NEW b \in Nat, NEW c \in Nat, a + b = c + a PROVE b = c
    BY <2>1
  <2>2. Cardinality(arrived) + Cardinality(Climbers) = Cardinality(members \ arrived) + Cardinality(arrived)
    BY <1>1, <1>3, <1>4, <1>5
  <2> QED  BY <1>6, <2>1, <2>2
<1> QED  BY <1>1, <1>7, CardMono

\* The values a thread finds.
LEMMA AtFacts ==
  ASSUME TreeAssumption, TreeInv, NEW t \in Thread, pc[t] \in Climbing
  PROVE  LET x == climb[t].cur
             s == climb[t].round
         IN  /\ Quiet /\ old[t] = ph
             /\ At(t) = ph <=> Free(x, s)
             /\ At(t) = Step(ph, 1) <=> Half(x, s)
             /\ At(t) = Step(ph, 2) <=> Full(x, s)
             /\ Free(x, s) \/ (Half(x, s) /\ ~Lone(expected, x, s)) \/ Full(x, s)
             /\ expected > 1 /\ t \in members \ arrived
<1>1. Quiet
  BY OnTheWay DEF Climbing
<1>2. old[t] = ph /\ t \in members \ arrived
  BY <1>1, ClimbersMissing
<1>3. expected \in Nat /\ climb[t].cur \in Node /\ climb[t].round \in Rounds /\ climb[t].round \in Nat
      /\ Used(expected, climb[t].cur, climb[t].round)
  BY ClimbFacts, ParticipantsFinite
<1>4. expected > 1
  <2>1. 2^climb[t].round \in Nat \ {0} /\ 2^climb[t].round < expected
    BY <1>3, PowerPositive DEF Used
  <2> QED  BY <1>3, <2>1
<1> QED  BY <1>1, <1>2, <1>3, <1>4 DEF TreeInv, NodesRight, At, Free, Half, Full

\* A thread finds its node taken in round 0 only, and there is another one.
LEMMA NodeTaken ==
  ASSUME TreeAssumption, TreeInv, NEW t \in Thread, pc[t] \in Climbing,
         Full(climb[t].cur, climb[t].round)
  PROVE  climb[t].round = 0 /\ Used(expected, climb[t].cur + 1, 0)
<1> DEFINE x == climb[t].cur
           s == climb[t].round
<1>1. /\ expected \in 0..N /\ s \in Nat /\ x \in Nat /\ Used(expected, x, s) /\ x \in Node
  BY ClimbFacts
<1>2. Quiet /\ expected > 1 /\ t \in members \ arrived
  BY AtFacts
<1>3. s = 0
  <2> SUFFICES ASSUME s # 0 PROVE FALSE
    OBVIOUS
  <2> DEFINE r == s - 1
             cap == IF Lone(expected, x, r + 1) THEN 1 ELSE 2
             c == Cardinality(AtNode(x, r + 1))
             m == Marks(expected, x, r + 1)
  <2>1. r \in Nat /\ r + 1 = s
    BY <1>1
  <2>2. t \in AtNode(x, r + 1) /\ AtNode(x, r + 1) \in SUBSET Thread
    BY <2>1 DEF AtNode
  <2>3. Full(x, r + 1) /\ Used(expected, x, r + 1)
    BY <1>1, <2>1
  <2> HIDE DEF r, x, s
  <2>4. c \in Nat /\ m \in Nat /\ c + m <= cap /\ (m = cap <=> Full(x, r + 1))
    BY <1>2, <2>1, <2>3, NodeFlow
  <2>5. c # 0
    BY <2>2, Card
  <2>6. cap \in Nat
    OBVIOUS
  <2> HIDE DEF c, m, cap
  <2> QED  BY <2>3, <2>4, <2>5, <2>6
<1>4. 2 * (x + 1) < expected
  <2> SUFFICES ASSUME ~(2 * (x + 1) < expected) PROVE FALSE
    OBVIOUS
  <2>1. ASSUME NEW i \in Node, Used(expected, i, 0) PROVE Full(i, 0)
    <3>1. 2 * i < expected /\ i \in Nat
      BY <2>1, <1>1, InTheTree DEF Used
    <3>2. i <= x
      BY <1>1, <3>1
    <3>3. \A j \in Node : j < x => Full(j, 0)
      BY <1>3 DEF TreeInv, Seen, SeenBy
    <3>4. Full(x, 0)
      BY <1>3
    <3> QED  BY <1>1, <3>1, <3>2, <3>3, <3>4
  <2>2. Climbers = members \ arrived
    BY <1>2, <2>1, FullSlots, SlotsFull
  <2>3. t \notin Climbers
    BY <1>3 DEF Climbers
  <2> QED  BY <1>2, <2>2, <2>3
<1>5. Used(expected, x + 1, 0)
  <2>1. x + 1 \in Nat /\ x + 1 = (x + 1) * 1
    BY <1>1
  <2>2. Multiple(x + 1, 1)
    BY <2>1 DEF Multiple
  <2> QED  BY <1>2, <1>4, <2>2, PowerZero DEF Used
<1> QED  BY <1>3, <1>5

\* What the arrival at the root fills was the last place.
LEMMA RootFilled ==
  ASSUME TreeAssumption, TreeInv, NEW t \in Thread, pc[t] \in Climbing,
         ~(2 * 2^climb[t].round < expected), ~Full(climb[t].cur, climb[t].round),
         Lone(expected, climb[t].cur, climb[t].round) \/ Half(climb[t].cur, climb[t].round)
  PROVE  /\ members \ arrived = {t}
         /\ \A i \in Node, r \in Rounds : Used(expected, i, r) =>
              Full(i, r) \/ (i = climb[t].cur /\ r = climb[t].round)
<1> DEFINE x == climb[t].cur
           s == climb[t].round
           n == expected
<1>1. n \in 0..N /\ n \in Nat /\ s \in Nat /\ x \in Nat /\ Used(n, x, s) /\ x \in Node
  BY ClimbFacts, ParticipantsFinite
<1>2. Quiet /\ n > 1 /\ t \in members \ arrived
      /\ (Free(x, s) \/ (Half(x, s) /\ ~Lone(n, x, s)) \/ Full(x, s))
  BY AtFacts
<1>3. 2^s \in Nat /\ n <= 2 * 2^s /\ 2^s < n /\ 2^(s + 1) = 2 * 2^s
  BY <1>1, PowerPositive, PowerOfNext DEF Used
<1>4. ASSUME NEW i, Used(n, i, s) PROVE i = 0
  <2>1. PICK k \in Nat : i = k * 2^s
    BY <1>4 DEF Used, Multiple
  <2> DEFINE b == 2^s
  <2>2. 2 * (k * b) < n /\ b \in Nat /\ n <= 2 * b
    BY <1>3, <1>4, <2>1 DEF Used
  <2> HIDE DEF b, n
  <2>3. k * b < 1 * b
    <3>1. k * b \in Nat
      BY <2>2
    <3> QED  BY <1>1, <2>2, <3>1
  <2>4. k < 1
    BY <2>2, <2>3
  <2>5. k = 0
    BY <2>4
  <2> QED  BY <2>1, <2>5, <2>2 DEF b
<1>5. x = 0
  BY <1>1, <1>4
<1>6. ASSUME NEW i, NEW r \in Nat, Used(n, i, r) PROVE r <= s
  <2> SUFFICES ASSUME s + 1 <= r PROVE FALSE
    BY <1>1
  <2>1. 2^(s + 1) <= 2^r /\ 2^r \in Nat
    BY <1>1, PowerMono, PowerPositive
  <2>2. 2^r < n
    BY <1>6 DEF Used
  <2> QED  BY <1>1, <1>3, <2>1, <2>2
<1>7. CASE s = 0
  <2>1. n = 2 /\ Half(0, 0) /\ ~Full(0, 0) /\ ~Free(0, 0)
    <3>1. n = 2
      BY <1>1, <1>2, <1>3, <1>7, PowerZero
    <3>2. ~Lone(n, 0, 0)
      BY <3>1, PowerZero DEF Lone
    <3> QED  BY <3>1, <3>2, <1>5, <1>7, OneValue
  <2>2. Slots = {0}
    <3>1. \A k \in 0..(n - 1) : k \div 2 = 0 /\ k % 2 = k
      BY <2>1
    <3>2. \A k \in 0..(n - 1) : k \in Slots <=> k = 0
      BY <2>1, <3>1 DEF Slots
    <3>3. 0 \in 0..(n - 1) /\ Slots \subseteq 0..(n - 1)
      BY <2>1 DEF Slots
    <3> QED  BY <3>2, <3>3
  <2>3. Climbers = {}
    <3> SUFFICES ASSUME NEW u \in Climbers PROVE FALSE
      OBVIOUS
    <3>1. u \in Thread /\ pc[u] \in Climbing /\ climb[u].round > 0
      BY DEF Climbers
    <3>2. climb[u].round \in Nat /\ Used(n, climb[u].cur, climb[u].round)
      BY <3>1, ClimbFacts
    <3> QED  BY <3>1, <3>2, <1>6, <1>7
  <2>4. Cardinality(Slots) = 1
    BY <2>2, FS_Singleton
  <2>5. Cardinality(Climbers) = 0
    BY <2>3, FS_EmptySet
  <2>6. Cardinality(Slots) = Cardinality(arrived) + Cardinality(Climbers)
    BY <1>2 DEF TreeInv, SlotsTaken
  <2>7. /\ arrived \subseteq members /\ members \in SUBSET Thread /\ arrived \in SUBSET Thread
        /\ n = Cardinality(members)
    BY <1>2, ClimbersMissing
  <2>8. Cardinality(members) = Cardinality(members \ arrived) + Cardinality(arrived)
    BY <2>7, Difference
  <2>9. Cardinality(arrived) \in Nat /\ Cardinality(members \ arrived) \in Nat
    BY <2>7, Card
  <2>10. Cardinality(members \ arrived) = 1
    BY <2>1, <2>4, <2>5, <2>6, <2>7, <2>8, <2>9
  <2>11. Cardinality({t}) = 1 /\ {t} \subseteq members \ arrived
    BY <1>2, FS_Singleton
  <2>12. members \ arrived = {t}
    BY <2>7, <2>10, <2>11, CardMono
  <2>13. \A i \in Node, r \in Rounds : Used(n, i, r) => i = x /\ r = s
    <3>1. \A r \in Rounds : r \in Nat
      BY ParticipantsFinite DEF Rounds
    <3> QED  BY <3>1, <1>4, <1>5, <1>6, <1>7
  <2> QED  BY <2>12, <2>13
<1>8. CASE s # 0
  <2> DEFINE q == s - 1
             cap == IF Lone(n, x, q + 1) THEN 1 ELSE 2
             c == Cardinality(AtNode(x, q + 1))
             m == Marks(n, x, q + 1)
             both == Full(x, q) /\ (2 * x + 2 * 2^q < n => Full(x + 2^q, q))
  <2>1. q \in Nat /\ q + 1 = s
    BY <1>1, <1>8
  <2>2. t \in AtNode(x, q + 1) /\ AtNode(x, q + 1) \in SUBSET Thread
    BY <2>1 DEF AtNode
  <2>3. Used(n, x, q + 1) /\ ~Full(x, q + 1) /\ (Lone(n, x, q + 1) \/ Half(x, q + 1))
        /\ (Free(x, q + 1) \/ (Half(x, q + 1) /\ ~Lone(n, x, q + 1)))
    BY <1>1, <1>2, <2>1
  <2> HIDE DEF q
  <2>4. /\ c \in Nat /\ m \in Nat /\ c + m <= cap /\ (c + m = cap <=> both)
        /\ (Free(x, q + 1) => m = 0) /\ (Half(x, q + 1) => m = 1)
    BY <1>2, <2>1, <2>3, NodeFlow
  <2>5. c # 0
    BY <2>2, Card
  <2>6. m = cap - 1
    <3>1. CASE Lone(n, x, q + 1)
      BY <3>1, <2>3, <2>4
    <3>2. CASE ~Lone(n, x, q + 1)
      BY <3>2, <2>3, <2>4
    <3> QED  BY <3>1, <3>2
  <2>7. c = 1 /\ both
    <3>1. cap \in Nat
      OBVIOUS
    <3> HIDE DEF c, m, cap, both
    <3> QED  BY <2>4, <2>5, <2>6, <3>1
  <2>8. AtNode(x, q + 1) = {t}
    <3>1. Cardinality({t}) = 1 /\ {t} \subseteq AtNode(x, q + 1)
      BY <2>2, FS_Singleton
    <3> QED  BY <2>2, <2>7, <3>1, CardMono
  <2>9. \A i \in Node : Used(n, i, q) => Full(i, q)
    <3> SUFFICES ASSUME NEW j \in Node, Used(n, j, q) PROVE Full(j, q)
      OBVIOUS
    <3>1. 2 * 2^q < n
      BY <1>3, <2>1, PowerOfNext
    <3> DEFINE i == ClearBit(j, q)
    <3>2. Used(n, i, q + 1) /\ (j = i \/ (j = i + 2^q /\ 2 * i + 2 * 2^q < n))
      BY <1>1, <2>1, <3>1, NodeAbove
    <3>3. i = x
      BY <3>2, <2>1, <1>4, <1>5
    <3> QED  BY <2>7, <3>2, <3>3
  <2>10. 2^q < n
    BY <1>1, <1>3, <2>1, PowerOfNext, PowerPositive
  <2>11. /\ \A r \in 0..q, i \in Node : Used(n, i, r) => Full(i, r)
         /\ \A r \in 1..q, i \in Node : Used(n, i, r) => AtNode(i, r) = {}
    BY <1>2, <2>1, <2>9, <2>10, FullBelow
  <2>12. Climbers = members \ arrived
    <3>1. \A i \in Node : Used(n, i, 0) => Full(i, 0)
      BY <2>1, <2>11
    <3> QED  BY <1>2, <3>1, FullSlots, SlotsFull
  <2>13. Climbers \subseteq {t}
    <3> SUFFICES ASSUME NEW u \in Climbers PROVE u = t
      OBVIOUS
    <3> DEFINE y == climb[u].cur
               r == climb[u].round
    <3>1. u \in Thread /\ pc[u] \in Climbing /\ r > 0
      BY DEF Climbers
    <3>2. r \in Nat /\ Used(n, y, r) /\ y \in Node
      BY <3>1, ClimbFacts
    <3>3. u \in AtNode(y, r)
      BY <3>1 DEF AtNode
    <3>4. r <= s
      BY <3>2, <1>6
    <3>5. CASE r = s
      BY <3>2, <3>3, <3>5, <1>4, <1>5, <2>1, <2>8
    <3>6. CASE r # s
      <4>1. r \in 1..q
        BY <3>1, <3>2, <3>4, <3>6, <1>1, <2>1
      <4> QED  BY <4>1, <3>2, <3>3, <2>11
    <3> QED  BY <3>5, <3>6
  <2>14. members \ arrived = {t}
    BY <1>2, <2>12, <2>13
  <2>15. ASSUME NEW i \in Node, NEW r \in Rounds, Used(n, i, r) PROVE Full(i, r) \/ (i = x /\ r = s)
    <3>1. r \in Nat
      BY ParticipantsFinite DEF Rounds
    <3>2. r <= s
      BY <3>1, <2>15, <1>6
    <3>3. CASE r = s
      BY <3>3, <2>15, <1>4, <1>5
    <3>4. CASE r # s
      <4>1. r \in 0..q
        BY <3>1, <3>2, <3>4, <1>1, <2>1
      <4> QED  BY <4>1, <2>11, <2>15
    <3> QED  BY <3>3, <3>4
  <2> QED  BY <2>14, <2>15
<1> QED  BY <1>7, <1>8
\* Who marks a node half is not the last to arrive.
LEMMA NotLast ==
  ASSUME TreeAssumption, TreeInv, NEW t \in Thread, pc[t] \in Climbing,
         Free(climb[t].cur, climb[t].round), ~Lone(expected, climb[t].cur, climb[t].round)
  PROVE  members \ arrived # {t}
<1> SUFFICES ASSUME members \ arrived = {t} PROVE FALSE
  OBVIOUS
<1> DEFINE x == climb[t].cur
           s == climb[t].round
           n == expected
<1>1. n \in 0..N /\ n \in Nat /\ s \in Nat /\ x \in Nat /\ Used(n, x, s) /\ x \in Node
  BY ClimbFacts, ParticipantsFinite
<1>2. Quiet /\ n > 1
  BY AtFacts
<1>3. /\ arrived \subseteq members /\ members \in SUBSET Thread /\ arrived \in SUBSET Thread
      /\ n = Cardinality(members) /\ Climbers \subseteq members \ arrived
  BY <1>2, ClimbersMissing
<1>4. Cardinality(arrived) + 1 = n
  <2>1. Cardinality(members) = Cardinality(members \ arrived) + Cardinality(arrived)
    BY <1>3, Difference
  <2>2. Cardinality(members \ arrived) = 1 /\ Cardinality(arrived) \in Nat
    BY <1>3, Card, FS_Singleton
  <2> QED  BY <1>1, <1>3, <2>1, <2>2
<1>5. Cardinality(Slots) = Cardinality(arrived) + Cardinality(Climbers)
  BY <1>2 DEF TreeInv, SlotsTaken
<1>6. IsFiniteSet(0..(n - 1)) /\ Cardinality(0..(n - 1)) = n /\ Slots \subseteq 0..(n - 1)
  <2>1. Slots \subseteq 0..(n - 1)
    BY DEF Slots
  <2>2. n - 1 \in Int /\ ~(0 > n - 1) /\ (n - 1) - 0 + 1 = n
    BY <1>1, <1>2
  <2>3. IsFiniteSet(0..(n - 1)) /\ Cardinality(0..(n - 1)) = n
    BY <2>2, FS_Interval
  <2> QED  BY <2>1, <2>3
<1>7. IsFiniteSet(Slots) /\ Cardinality(Slots) \in Nat
  BY <1>6, FS_Subset, FS_CardinalityType
<1>8. CASE s = 0
  <2>1. Climbers = {}
    BY <1>3, <1>8 DEF Climbers
  <2>2. 2 * x + 1 < n
    BY <1>1, <1>8, PowerZero DEF Lone
  <2>3. /\ 2 * x \in 0..(n - 1) /\ 2 * x + 1 \in 0..(n - 1)
        /\ (2 * x) % 2 = 0 /\ (2 * x) \div 2 = x /\ (2 * x + 1) % 2 = 1 /\ (2 * x + 1) \div 2 = x
    BY <1>1, <2>2
  <2>4. ~Full(x, 0) /\ Free(x, 0)
    BY <1>8, OneValue
  <2>5. 2 * x \notin Slots /\ 2 * x + 1 \notin Slots
    BY <2>3, <2>4 DEF Slots
  <2> DEFINE A == (0..(n - 1)) \ {2 * x}
  <2>6. IsFiniteSet(A) /\ Cardinality(A) = n - 1
    <3> DEFINE S == 0..(n - 1)
    <3>1. IsFiniteSet(S) /\ Cardinality(S) = n /\ 2 * x \in S
      BY <1>6, <2>3
    <3> HIDE DEF S
    <3>2. IsFiniteSet(S \ {2 * x}) /\ Cardinality(S \ {2 * x}) = n - 1
      BY <3>1, FS_RemoveElement
    <3> QED  BY <3>2 DEF S
  <2>7. Slots \subseteq A /\ Slots # A
    <3>1. 2 * x + 1 \in A
      BY <1>1, <2>3
    <3> QED  BY <1>6, <2>5, <3>1
  <2> HIDE DEF A
  <2>8. Cardinality(Slots) # Cardinality(A)
    BY <2>6, <2>7, FS_Subset
  <2>9. Cardinality(Climbers) = 0
    BY <2>1, FS_EmptySet
  <2>10. Cardinality(arrived) \in Nat
    BY <1>3, Card
  <2> QED  BY <1>1, <1>4, <1>5, <2>6, <2>8, <2>9, <2>10
<1>9. CASE s # 0
  <2>1. Climbers = {t}
    BY <1>1, <1>3, <1>9 DEF Climbers
  <2>2. Cardinality(Climbers) = 1
    BY <2>1, FS_Singleton
  <2>3. Slots = 0..(n - 1)
    BY <1>4, <1>5, <1>6, <2>2, FS_Subset
  <2>4. ASSUME NEW i \in Node, Used(n, i, 0) PROVE Full(i, 0)
    <3>1. 2 * i < n /\ i \in Nat
      BY <2>4, <1>1, InTheTree DEF Used
    <3>2. Free(i, 0) \/ (Half(i, 0) /\ ~Lone(n, i, 0)) \/ Full(i, 0)
      <4>1. 0 \in Rounds
        BY <1>1, <2>4, InTheTree
      <4> QED  BY <1>2, <2>4, <4>1 DEF TreeInv, NodesRight
    <3>3. ~Free(i, 0)
      <4>1. 2 * i \in Slots /\ (2 * i) % 2 = 0 /\ (2 * i) \div 2 = i
        BY <1>1, <2>3, <3>1
      <4> QED  BY <4>1 DEF Slots
    <3>4. 2 * i + 1 < n => Full(i, 0)
      <4> SUFFICES ASSUME 2 * i + 1 < n PROVE Full(i, 0)
        OBVIOUS
      <4>1. 2 * i + 1 \in Slots /\ (2 * i + 1) % 2 = 1 /\ (2 * i + 1) \div 2 = i
        BY <1>1, <2>3, <3>1
      <4> QED  BY <4>1 DEF Slots
    <3>5. ~Lone(n, i, 0) => 2 * i + 1 < n
      BY <1>1, <3>1, PowerZero DEF Lone
    <3> QED  BY <3>2, <3>3, <3>4, <3>5
  <2> DEFINE q == s - 1
             cap == IF Lone(n, x, q + 1) THEN 1 ELSE 2
             c == Cardinality(AtNode(x, q + 1))
             m == Marks(n, x, q + 1)
             both == Full(x, q) /\ (2 * x + 2 * 2^q < n => Full(x + 2^q, q))
  <2>5. q \in Nat /\ q + 1 = s
    BY <1>1, <1>9
  <2>6. Used(n, x, q + 1) /\ Free(x, q + 1) /\ ~Lone(n, x, q + 1)
    BY <1>1, <2>5
  <2>7. AtNode(x, q + 1) = {t}
    <3>1. \A u \in Thread : pc[u] \in Climbing => u = t
      BY <1>2, ClimbersMissing
    <3> QED  BY <3>1, <2>5 DEF AtNode
  <2> HIDE DEF q
  <2>8. \A r \in 1..q, i \in Node : Used(n, i, r) => AtNode(i, r) = {}
    <3> SUFFICES ASSUME NEW r \in 1..q, NEW i \in Node, NEW u \in AtNode(i, r) PROVE FALSE
      OBVIOUS
    <3>1. u \in Thread /\ pc[u] \in Climbing /\ climb[u].round = r
      BY DEF AtNode
    <3>2. u = t
      BY <1>2, <3>1, ClimbersMissing
    <3> QED  BY <2>5, <3>1, <3>2
  <2>9. \A r \in 0..q, i \in Node : Used(n, i, r) => Full(i, r)
    BY <1>2, <2>4, <2>5, <2>8, FullAbove
  <2>10. both
    <3>1. Used(n, x, q) /\ (2 * x + 2 * 2^q < n => Used(n, x + 2^q, q))
      BY <1>1, <2>5, <2>6, NodeBelow
    <3>2. 2 * x + 2 * 2^q < n => x + 2^q \in Node
      BY <1>1, <2>5, <3>1, InTheTree
    <3>3. q \in 0..q
      BY <2>5
    <3> QED  BY <1>1, <2>9, <3>1, <3>2, <3>3
  <2>11. c + m = cap /\ m = 0
    BY <1>2, <2>5, <2>6, <2>10, NodeFlow
  <2>12. c = 1
    BY <2>7, FS_Singleton
  <2> QED  BY <2>6, <2>11, <2>12
<1> QED  BY <1>8, <1>9

-----------------------------------------------------------------------------
(* What the steps do to the tree.                                          *)
Tree == ClimbRight /\ NodesRight /\ Seen /\ Flow /\ SlotsTaken /\ TreeFilled

\* One ticket is written.
Marked(i, r, v) ==
  /\ ticket' = [ticket EXCEPT ![i][r] = v]
  /\ ph' = ph /\ expected' = expected

LEMMA Marking ==
  ASSUME TreeAssumption, TreeInv, NEW i \in Node, NEW r \in Rounds, NEW v, Marked(i, r, v),
         v \in {Step(ph, 1), Step(ph, 2)}
  PROVE  /\ \A j \in Node, q \in Rounds : j # i \/ q # r =>
              (Free(j, q)' <=> Free(j, q)) /\ (Half(j, q)' <=> Half(j, q)) /\ (Full(j, q)' <=> Full(j, q))
         /\ v = Step(ph, 1) => Half(i, r)' /\ ~Free(i, r)' /\ ~Full(i, r)'
         /\ v = Step(ph, 2) => Full(i, r)' /\ ~Free(i, r)' /\ ~Half(i, r)'
<1>1. ph \in 0..(Byte - 1) /\ ticket \in [Node -> [Rounds -> 0..(Byte - 1)]]
  BY DEF TreeInv, Types
<1>2. \A j \in Node, q \in Rounds : ticket'[j][q] = IF j = i /\ q = r THEN v ELSE ticket[j][q]
  BY <1>1 DEF Marked
<1>3. ph' = ph
  BY DEF Marked
<1>4. Step(ph, 1) # ph /\ Step(ph, 2) # ph /\ Step(ph, 1) # Step(ph, 2)
  BY <1>1, StepFacts
<1> QED  BY <1>2, <1>3, <1>4 DEF Free, Half, Full

\* What was full is full, and what is free was free.
Grows ==
  /\ expected' = expected
  /\ \A j \in Node, q \in Rounds : (Full(j, q) => Full(j, q)') /\ (Free(j, q)' => Free(j, q))

LEMMA OthersClimb ==
  ASSUME TreeAssumption, TreeInv, Grows, NEW T \in SUBSET Thread,
         \A u \in Thread \ T : pc'[u] \in Climbing => pc'[u] = pc[u] /\ climb'[u] = climb[u]
  PROVE  \A u \in Thread \ T : (pc'[u] \in Climbing => LocalsRight(climb'[u], expected')) /\ SeenBy(u)'
<1> SUFFICES ASSUME NEW u \in Thread \ T, pc'[u] \in Climbing
    PROVE  LocalsRight(climb'[u], expected') /\ SeenBy(u)'
  BY DEF SeenBy, Climbing
<1>1. pc'[u] = pc[u] /\ climb'[u] = climb[u] /\ expected' = expected
  BY DEF Grows
<1>2. LocalsRight(climb'[u], expected')
  BY <1>1 DEF TreeInv, ClimbRight
<1>3. climb[u].cur \in Node /\ climb[u].round \in Rounds /\ SeenBy(u)
  BY <1>1, ClimbFacts DEF TreeInv, Seen
<1>4. pc'[u] = "second" => ~Free(climb[u].cur, climb[u].round)' /\ ~Lone(expected, climb[u].cur, climb[u].round)
  BY <1>1, <1>3 DEF SeenBy, Grows
<1>5. pc'[u] \in Climbing /\ climb[u].round = 0 => \A j \in Node : j < climb[u].cur => Full(j, 0)'
  BY <1>1, <1>3 DEF SeenBy, Grows
<1>6. \A j, q : (Free(j, q)' <=> ticket'[j][q] = ph') /\ (Full(j, q)' <=> ticket'[j][q] = Step(ph', 2))
  BY DEF Free, Full, Step
<1>7. SeenBy(u)'
  BY <1>1, <1>4, <1>5, <1>6 DEF SeenBy, Lone, Free, Full
<1> QED  BY <1>2, <1>7

\* The nodes and the climbers above round 0 are left alone.
LEMMA TreeSame ==
  ASSUME TreeAssumption, TreeInv, Quiet', Quiet,
         UNCHANGED <<ticket, ph, expected, arrived>>,
         \A u \in Thread : pc'[u] \in Climbing /\ climb'[u].round > 0 <=> pc[u] \in Climbing /\ climb[u].round > 0,
         \A u \in Thread : pc[u] \in Climbing /\ climb[u].round > 0 => climb'[u] = climb[u]
  PROVE  NodesRight' /\ Flow' /\ SlotsTaken' /\ TreeFilled' /\ Grows
<1>1. \A i, r : (Free(i, r)' <=> Free(i, r)) /\ (Half(i, r)' <=> Half(i, r)) /\ (Full(i, r)' <=> Full(i, r))
  BY DEF Free, Half, Full
<1>2. NodesRight'
  BY <1>1 DEF TreeInv, NodesRight
<1>3. Climbers' = Climbers
  BY DEF Climbers
<1>4. Slots' = Slots
  BY <1>1 DEF Slots
<1>5. SlotsTaken'
  BY <1>3, <1>4 DEF TreeInv, SlotsTaken
<1>6. ASSUME NEW i \in Node, NEW r \in Nat, Used(expected', i, r + 1)
      PROVE  Cardinality(AtNode(i, r + 1)') + Marks(expected, i, r + 1)' = Below(expected, i, r)'
  <2>1. AtNode(i, r + 1)' = AtNode(i, r + 1)
    <3>1. \A u \in Thread : u \in AtNode(i, r + 1) => climb[u].round > 0
      BY DEF AtNode
    <3>2. \A u \in Thread : u \in AtNode(i, r + 1)' => climb'[u].round > 0
      BY DEF AtNode
    <3>3. \A u \in Thread : u \in AtNode(i, r + 1)' <=> u \in AtNode(i, r + 1)
      BY <3>1, <3>2 DEF AtNode
    <3> QED  BY <3>3 DEF AtNode
  <2>2. Marks(expected, i, r + 1)' = Marks(expected, i, r + 1) /\ Below(expected, i, r)' = Below(expected, i, r)
    <3>1. ticket' = ticket /\ ph' = ph /\ expected' = expected
      OBVIOUS
    <3> QED  BY <3>1 DEF Marks, Below, One, Lone, Free, Half, Full, Step
  <2> QED  BY <1>6, <2>1, <2>2 DEF TreeInv, Flow
<1>7. Flow'
  BY <1>6 DEF Flow
<1>8. TreeFilled' /\ Grows
  BY <1>1 DEF TreeFilled, Grows
<1> QED  BY <1>2, <1>5, <1>7, <1>8
\* The first of two arrivals at a node.
LEMMA HalfMarked ==
  ASSUME TreeAssumption, TreeInv, NEW t \in Thread, pc[t] \in Climbing,
         Free(climb[t].cur, climb[t].round), ~Lone(expected, climb[t].cur, climb[t].round),
         Marked(climb[t].cur, climb[t].round, Step(ph, 1)), climb' = climb, Quiet',
         NEW v \in members \ arrived, arrived' = arrived \cup {v},
         \A u \in Thread : pc'[u] \in Climbing <=> pc[u] \in Climbing /\ u # t
  PROVE  NodesRight' /\ Flow' /\ SlotsTaken' /\ TreeFilled' /\ Grows
<1> DEFINE n == expected
<1>0. PICK x, s : x = climb[t].cur /\ s = climb[t].round
  OBVIOUS
<1>1. n \in 0..N /\ n \in Nat /\ s \in Nat /\ x \in Nat /\ Used(n, x, s) /\ x \in Node /\ s \in Rounds
  BY <1>0, ClimbFacts, ParticipantsFinite
<1>2. Quiet /\ n > 1 /\ ph' = ph /\ expected' = expected
  BY AtFacts DEF Marked
<1>3. /\ \A j \in Node, q \in Rounds : j # x \/ q # s =>
           (Free(j, q)' <=> Free(j, q)) /\ (Half(j, q)' <=> Half(j, q)) /\ (Full(j, q)' <=> Full(j, q))
      /\ Half(x, s)' /\ ~Free(x, s)' /\ ~Full(x, s)'
  BY <1>0, <1>1, Marking
<1>4. Free(x, s) /\ ~Half(x, s) /\ ~Full(x, s) /\ ~Lone(n, x, s)
  BY <1>0, OneValue
<1>5. Grows
  BY <1>2, <1>3, <1>4 DEF Grows
<1>6. NodesRight'
  <2> SUFFICES ASSUME NEW i \in Node, NEW r \in Rounds, Used(n, i, r)
      PROVE  Free(i, r)' \/ (Half(i, r)' /\ ~Lone(n, i, r)) \/ Full(i, r)'
    BY <1>2 DEF NodesRight, Lone
  <2>1. Free(i, r) \/ (Half(i, r) /\ ~Lone(n, i, r)) \/ Full(i, r)
    BY <1>2 DEF TreeInv, NodesRight
  <2> QED  BY <1>3, <1>4, <2>1
<1>7. \A i, r : AtNode(i, r)' = AtNode(i, r) \ {t}
  BY DEF AtNode
<1>8. ASSUME NEW i \in Node, NEW r \in Nat, Used(n, i, r + 1)
      PROVE  Cardinality(AtNode(i, r + 1)') + Marks(expected, i, r + 1)' = Below(expected, i, r)'
  <2>1. i \in Nat /\ r + 1 \in Rounds /\ Used(n, i, r) /\ (2 * i + 2 * 2^r < n => Used(n, i + 2^r, r))
    BY <1>1, <1>8, NodeBelow, InTheTree
  <2>2. r \in Rounds /\ (2 * i + 2 * 2^r < n => i + 2^r \in Node)
    BY <1>1, <2>1, InTheTree
  <2>3. (Full(i, r)' <=> Full(i, r)) /\ (2 * i + 2 * 2^r < n => (Full(i + 2^r, r)' <=> Full(i + 2^r, r)))
    BY <1>3, <1>4, <2>2
  <2>4. Below(expected, i, r)' = Below(expected, i, r)
    <3> DEFINE F == Full(i, r)
               G == Full(i + 2^r, r)
    <3>1. Below(expected, i, r) = One(F) + (IF 2 * i + 2 * 2^r < n THEN One(G) ELSE 0)
      BY DEF Below
    <3>2. Below(expected, i, r)' = One(F') + (IF 2 * i + 2 * 2^r < n THEN One(G') ELSE 0)
      BY <1>2 DEF Below, One
    <3> QED  BY <2>3, <3>1, <3>2 DEF One
  <2>5. Cardinality(AtNode(i, r + 1)) + Marks(n, i, r + 1) = Below(n, i, r)
    BY <1>2, <1>8 DEF TreeInv, Flow
  <2>6. CASE i = x /\ r + 1 = s
    <3>1. t \in AtNode(i, r + 1) /\ AtNode(i, r + 1) \in SUBSET Thread
      BY <1>0, <2>6 DEF AtNode
    <3>2. Cardinality(AtNode(i, r + 1)') = Cardinality(AtNode(i, r + 1)) - 1
      BY <1>7, <3>1, CardRemove
    <3>3. Marks(n, i, r + 1) = 0
      BY <1>4, <2>6 DEF Marks
    <3>4. Marks(expected, i, r + 1)' = 1
      BY <1>3, <2>6 DEF Marks
    <3>5. Cardinality(AtNode(i, r + 1)) \in Nat
      BY <3>1, Card
    <3> HIDE DEF n
    <3> QED  BY <2>4, <2>5, <3>2, <3>3, <3>4, <3>5 DEF n
  <2>7. CASE ~(i = x /\ r + 1 = s)
    <3>1. t \notin AtNode(i, r + 1)
      BY <1>0, <2>7 DEF AtNode
    <3>2. AtNode(i, r + 1)' = AtNode(i, r + 1)
      BY <1>7, <3>1
    <3>3. (Free(i, r + 1)' <=> Free(i, r + 1)) /\ (Half(i, r + 1)' <=> Half(i, r + 1))
      BY <1>3, <2>1, <2>7
    <3>4. Marks(expected, i, r + 1)' = Marks(expected, i, r + 1)
      BY <1>2, <3>3 DEF Marks, Lone
    <3> QED  BY <2>4, <2>5, <3>2, <3>4
  <2> QED  BY <2>6, <2>7
<1>9. Flow'
  BY <1>2, <1>8 DEF Flow
<1>10. /\ members \in SUBSET Thread /\ arrived \in SUBSET Thread /\ t \in Thread
       /\ Cardinality(Slots) = Cardinality(arrived) + Cardinality(Climbers)
       /\ Climbers \in SUBSET Thread
  BY <1>2, ClimbersMissing DEF TreeInv, SlotsTaken, Climbers
<1>11. Cardinality(arrived') = Cardinality(arrived) + 1 /\ Cardinality(arrived) \in Nat
  BY <1>10, CardAdd, Card
<1>12. Cardinality(Slots') = Cardinality(arrived') + Cardinality(Climbers')
  <2>1. Climbers' = Climbers \ {t}
    BY DEF Climbers
  <2>2. ASSUME NEW k \in 0..(n - 1)
        PROVE  k \div 2 \in Node /\ k \in Nat /\ (k = 2 * (k \div 2) \/ k = 2 * (k \div 2) + 1)
               /\ (k % 2 = 0 <=> k = 2 * (k \div 2))
    <3>1. k \div 2 \in Node
      BY <1>2, SlotNode
    <3> QED  BY <1>1, <3>1
  <2>3. 0 \in Rounds
    BY ParticipantsFinite DEF Rounds
  <2>4. Slots' = {k \in 0..(n - 1) : IF k % 2 = 0 THEN ~Free(k \div 2, 0)' ELSE Full(k \div 2, 0)'}
    BY <1>2 DEF Slots
  <2>5. CASE s = 0
    <3>1. 2 * x \in 0..(n - 1) /\ (2 * x) % 2 = 0 /\ (2 * x) \div 2 = x
      BY <1>1 DEF Used
    <3>2. 2 * x \notin Slots
      BY <1>4, <2>5, <3>1 DEF Slots
    <3>3. ASSUME NEW k \in 0..(n - 1) PROVE k \in Slots' <=> k \in Slots \/ k = 2 * x
      <4>1. CASE k \div 2 = x
        BY <4>1, <1>3, <1>4, <2>2, <2>4, <2>5, <3>1 DEF Slots
      <4>2. CASE k \div 2 # x
        BY <4>2, <1>3, <2>2, <2>3, <2>4, <3>1 DEF Slots
      <4> QED  BY <4>1, <4>2
    <3>4. Slots' = Slots \cup {2 * x}
      BY <2>4, <3>1, <3>3 DEF Slots
    <3>5. Climbers' = Climbers
      <4>1. ~(climb[t].round > 0)
        BY <1>0, <2>5
      <4> QED  BY <2>1, <4>1 DEF Climbers
    <3>6. IsFiniteSet(Slots)
      <4>1. IsFiniteSet(0..(n - 1)) /\ Slots \subseteq 0..(n - 1)
        <5>1. n - 1 \in Int /\ Slots \subseteq 0..(n - 1)
          BY <1>1 DEF Slots
        <5> QED  BY <5>1, FS_Interval
      <4> QED  BY <4>1, FS_Subset
    <3>7. Cardinality(Slots') = Cardinality(Slots) + 1
      BY <3>2, <3>4, <3>6, FS_AddElement
    <3>8. Cardinality(Climbers) \in Nat
      BY <1>10, Card
    <3> QED  BY <1>10, <1>11, <3>5, <3>7, <3>8
  <2>6. CASE s # 0
    <3>1. Slots' = Slots
      BY <1>3, <2>2, <2>3, <2>4, <2>6 DEF Slots
    <3>2. t \in Climbers
      BY <1>0, <1>1, <2>6 DEF Climbers
    <3>3. Cardinality(Climbers') = Cardinality(Climbers) - 1 /\ Cardinality(Climbers) \in Nat
      BY <1>10, <2>1, <3>2, CardRemove, Card
    <3> QED  BY <1>10, <1>11, <3>1, <3>3
  <2> QED  BY <2>5, <2>6
<1> QED  BY <1>5, <1>6, <1>9, <1>12 DEF SlotsTaken, TreeFilled

\* The last arrival at a node, which climbs.
LEMMA Filled ==
  ASSUME TreeAssumption, TreeInv, NEW t \in Thread, pc[t] \in Climbing,
         2 * 2^climb[t].round < expected, ~Full(climb[t].cur, climb[t].round),
         Lone(expected, climb[t].cur, climb[t].round) \/ Half(climb[t].cur, climb[t].round),
         Marked(climb[t].cur, climb[t].round, Step(ph, 2)), Quiet', arrived' = arrived,
         \A u \in Thread : pc'[u] \in Climbing <=> pc[u] \in Climbing,
         \A u \in Thread \ {t} : climb'[u] = climb[u],
         climb'[t].cur = ClearBit(climb[t].cur, climb[t].round), climb'[t].round = climb[t].round + 1
  PROVE  NodesRight' /\ Flow' /\ SlotsTaken' /\ TreeFilled' /\ Grows
<1> DEFINE n == expected
<1>0. PICK x, s, w : x = climb[t].cur /\ s = climb[t].round /\ w = ClearBit(x, s)
  OBVIOUS
<1>1. n \in 0..N /\ n \in Nat /\ s \in Nat /\ x \in Nat /\ Used(n, x, s) /\ x \in Node /\ s \in Rounds
  BY <1>0, ClimbFacts, ParticipantsFinite
<1>2. Quiet /\ n > 1 /\ ph' = ph /\ expected' = expected
  BY AtFacts DEF Marked
<1>3. /\ \A j \in Node, q \in Rounds : j # x \/ q # s =>
           (Free(j, q)' <=> Free(j, q)) /\ (Half(j, q)' <=> Half(j, q)) /\ (Full(j, q)' <=> Full(j, q))
      /\ Full(x, s)' /\ ~Free(x, s)' /\ ~Half(x, s)'
  BY <1>0, <1>1, Marking
<1>4. ~Full(x, s) /\ ((Free(x, s) /\ ~Half(x, s) /\ Lone(n, x, s)) \/ (Half(x, s) /\ ~Free(x, s) /\ ~Lone(n, x, s)))
  BY <1>0, AtFacts, OneValue
<1>5. /\ Used(n, w, s + 1) /\ w \in Nat
      /\ x = w \/ (x = w + 2^s /\ 2 * w + 2 * 2^s < n)
  BY <1>0, <1>1, NodeAbove
<1>6. climb'[t].cur = w /\ climb'[t].round = s + 1
  BY <1>0
<1>7. Grows
  BY <1>2, <1>3, <1>4 DEF Grows
<1>8. NodesRight'
  <2> SUFFICES ASSUME NEW i \in Node, NEW r \in Rounds, Used(n, i, r)
      PROVE  Free(i, r)' \/ (Half(i, r)' /\ ~Lone(n, i, r)) \/ Full(i, r)'
    BY <1>2 DEF NodesRight, Lone
  <2>1. Free(i, r) \/ (Half(i, r) /\ ~Lone(n, i, r)) \/ Full(i, r)
    BY <1>2 DEF TreeInv, NodesRight
  <2> QED  BY <1>3, <1>4, <2>1
<1>9. \A i, r : AtNode(i, r)' = IF i = w /\ r = s + 1 THEN AtNode(i, r) \cup {t} ELSE AtNode(i, r) \ {t}
  <2> SUFFICES ASSUME NEW i, NEW r
      PROVE  AtNode(i, r)' = IF i = w /\ r = s + 1 THEN AtNode(i, r) \cup {t} ELSE AtNode(i, r) \ {t}
    OBVIOUS
  <2>1. \A u \in Thread \ {t} : u \in AtNode(i, r)' <=> u \in AtNode(i, r)
    BY DEF AtNode
  <2>2. t \in AtNode(i, r)' <=> i = w /\ r = s + 1
    BY <1>6 DEF AtNode
  <2>3. AtNode(i, r)' \subseteq Thread /\ AtNode(i, r) \subseteq Thread
    BY DEF AtNode
  <2> QED  BY <2>1, <2>2, <2>3
<1>10. \A i, r : t \in AtNode(i, r) <=> i = x /\ r = s
  BY <1>0 DEF AtNode
<1>11. ASSUME NEW i \in Node, NEW r \in Nat, Used(n, i, r + 1)
      PROVE  Cardinality(AtNode(i, r + 1)') + Marks(expected, i, r + 1)' = Below(expected, i, r)'
  <2> DEFINE two == 2 * i + 2 * 2^r < n
             F == Full(i, r)
             G == Full(i + 2^r, r)
  <2>1. /\ i \in Nat /\ r + 1 \in Rounds /\ Used(n, i, r) /\ (two => Used(n, i + 2^r, r))
        /\ ClearBit(i, r) = i /\ (two => ClearBit(i + 2^r, r) = i)
    BY <1>1, <1>11, NodeBelow, InTheTree
  <2>2. r \in Rounds /\ (two => i + 2^r \in Node)
    BY <1>1, <2>1, InTheTree
  <2>3. Below(n, i, r) = One(F) + (IF two THEN One(G) ELSE 0)
    BY DEF Below
  <2>4. Below(expected, i, r)' = One(F') + (IF two THEN One(G') ELSE 0)
    BY <1>2 DEF Below, One
  <2>5. Cardinality(AtNode(i, r + 1)) + Marks(n, i, r + 1) = Below(n, i, r)
    BY <1>2, <1>11 DEF TreeInv, Flow
  <2>6. AtNode(i, r + 1) \in SUBSET Thread /\ Cardinality(AtNode(i, r + 1)) \in Nat
    <3>1. AtNode(i, r + 1) \in SUBSET Thread
      BY DEF AtNode
    <3> QED  BY <3>1, Card
  <2>7. CASE i = x /\ r + 1 = s
    <3>1. t \in AtNode(i, r + 1) /\ s # s + 1
      BY <1>1, <1>10, <2>7
    <3>2. AtNode(i, r + 1)' = AtNode(i, r + 1) \ {t}
      BY <1>9, <2>7, <3>1
    <3>3. Cardinality(AtNode(i, r + 1)') = Cardinality(AtNode(i, r + 1)) - 1
      BY <2>6, <3>1, <3>2, CardRemove
    <3>4. Marks(expected, i, r + 1)' = Marks(n, i, r + 1) + 1
      <4>1. Marks(n, i, r + 1) = IF Lone(n, i, r + 1) THEN 0 ELSE 1
        BY <1>4, <2>7 DEF Marks
      <4>2. Marks(expected, i, r + 1)' = IF Lone(n, i, r + 1) THEN 1 ELSE 2
        BY <1>2, <1>3, <2>7 DEF Marks, Lone
      <4> QED  BY <4>1, <4>2
    <3>5. r # s
      BY <2>7
    <3>6. (F' <=> F) /\ (two => (G' <=> G))
      BY <1>3, <2>2, <3>5
    <3>7. Below(expected, i, r)' = Below(n, i, r)
      BY <2>3, <2>4, <3>6 DEF One
    <3>8. Marks(n, i, r + 1) \in Nat
      BY DEF Marks
    <3> QED  BY <2>5, <2>6, <3>3, <3>4, <3>7, <3>8
  <2>8. CASE i = w /\ r = s
    <3>1. t \notin AtNode(i, r + 1)
      BY <1>1, <1>10, <2>8
    <3>2. AtNode(i, r + 1)' = AtNode(i, r + 1) \cup {t}
      BY <1>9, <2>8
    <3>3. Cardinality(AtNode(i, r + 1)') = Cardinality(AtNode(i, r + 1)) + 1
      BY <2>6, <3>1, <3>2, CardAdd
    <3>4. r + 1 # s
      BY <1>1, <2>8
    <3>5. (Free(i, r + 1)' <=> Free(i, r + 1)) /\ (Half(i, r + 1)' <=> Half(i, r + 1))
      BY <1>3, <2>1, <3>4
    <3>6. Marks(expected, i, r + 1)' = Marks(n, i, r + 1)
      BY <1>2, <3>5 DEF Marks, Lone
    <3>7. Below(expected, i, r)' = Below(n, i, r) + 1
      <4>1. i # i + 2^r
        BY <2>1, PowerPositive
      <4>2. CASE x = i
        <5>1. F' /\ ~F /\ (two => (G' <=> G))
          BY <1>3, <1>4, <2>2, <2>8, <4>1, <4>2
        <5> QED  BY <2>3, <2>4, <5>1 DEF One
      <4>3. CASE x # i
        <5>1. x = i + 2^r /\ two
          BY <1>5, <2>8, <4>3
        <5>2. G' /\ ~G /\ (F' <=> F)
          BY <1>3, <1>4, <2>2, <2>8, <4>1, <5>1
        <5> QED  BY <2>3, <2>4, <5>1, <5>2 DEF One
      <4> QED  BY <4>2, <4>3
    <3>8. Marks(n, i, r + 1) \in Nat
      BY DEF Marks
    <3> QED  BY <2>5, <2>6, <3>3, <3>6, <3>7, <3>8
  <2>9. CASE ~(i = x /\ r + 1 = s) /\ ~(i = w /\ r = s)
    <3>1. t \notin AtNode(i, r + 1)
      BY <1>10, <2>9
    <3>2. AtNode(i, r + 1)' = AtNode(i, r + 1)
      <4>1. ~(i = w /\ r + 1 = s + 1)
        BY <1>1, <2>9
      <4> QED  BY <1>9, <3>1, <4>1
    <3>3. (Free(i, r + 1)' <=> Free(i, r + 1)) /\ (Half(i, r + 1)' <=> Half(i, r + 1))
      BY <1>3, <2>1, <2>9
    <3>4. Marks(expected, i, r + 1)' = Marks(n, i, r + 1)
      BY <1>2, <3>3 DEF Marks, Lone
    <3>5. r = s => x # i /\ (two => x # i + 2^r)
      BY <1>0, <2>1, <2>9
    <3>6. (F' <=> F) /\ (two => (G' <=> G))
      BY <1>3, <2>2, <3>5
    <3> QED  BY <2>3, <2>4, <2>5, <3>2, <3>4, <3>6 DEF One
  <2> QED  BY <2>7, <2>8, <2>9
<1>12. Flow'
  BY <1>2, <1>11 DEF Flow
<1>13. Cardinality(Slots) = Cardinality(arrived) + Cardinality(Climbers) /\ Climbers \in SUBSET Thread
       /\ arrived \in SUBSET Thread /\ Cardinality(arrived) \in Nat /\ Cardinality(Climbers) \in Nat
  BY <1>2, ClimbersMissing, Card DEF TreeInv, SlotsTaken, Climbers
<1>14. Climbers' = Climbers \cup {t}
  <2>1. t \in Climbers'
    BY <1>1, <1>6 DEF Climbers
  <2>2. \A u \in Thread \ {t} : u \in Climbers' <=> u \in Climbers
    BY DEF Climbers
  <2>3. Climbers' \subseteq Thread /\ Climbers \subseteq Thread
    BY DEF Climbers
  <2> QED  BY <2>1, <2>2, <2>3
<1>15. Cardinality(Slots') = Cardinality(arrived) + Cardinality(Climbers')
  <2>2. ASSUME NEW k \in 0..(n - 1)
        PROVE  k \div 2 \in Node /\ k \in Nat /\ (k = 2 * (k \div 2) \/ k = 2 * (k \div 2) + 1)
               /\ (k % 2 = 0 <=> k = 2 * (k \div 2))
    <3>1. k \div 2 \in Node
      BY <1>2, SlotNode
    <3> QED  BY <1>1, <3>1
  <2>3. 0 \in Rounds
    BY ParticipantsFinite DEF Rounds
  <2>4. Slots' = {k \in 0..(n - 1) : IF k % 2 = 0 THEN ~Free(k \div 2, 0)' ELSE Full(k \div 2, 0)'}
    BY <1>2 DEF Slots
  <2>5. CASE s = 0
    <3> DEFINE y == IF Lone(n, x, 0) THEN 2 * x ELSE 2 * x + 1
    <3>1. 2 * x < n /\ (Lone(n, x, 0) <=> n = 2 * x + 1)
      BY <1>1, <2>5, PowerZero DEF Used, Lone
    <3>2. /\ y \in 0..(n - 1) /\ y \div 2 = x /\ (2 * x) % 2 = 0 /\ (2 * x) \div 2 = x
          /\ (2 * x + 1) % 2 = 1 /\ (2 * x + 1) \div 2 = x
      BY <1>1, <3>1
    <3>3. y \notin Slots
      BY <1>4, <2>5, <3>2 DEF Slots
    <3>4. ASSUME NEW k \in 0..(n - 1) PROVE k \in Slots' <=> k \in Slots \/ k = y
      <4>1. CASE k = 2 * x
        BY <4>1, <1>3, <1>4, <2>4, <2>5, <3>2 DEF Slots
      <4>2. CASE k = 2 * x + 1
        <5>1. ~Lone(n, x, 0)
          BY <1>1, <3>1, <4>2
        <5> QED  BY <4>2, <5>1, <1>3, <1>4, <2>4, <2>5, <3>2 DEF Slots
      <4>3. CASE k \div 2 # x
        BY <4>3, <1>3, <2>2, <2>3, <2>4, <3>2 DEF Slots
      <4> QED  BY <2>2, <4>1, <4>2, <4>3
    <3>5. Slots' = Slots \cup {y}
      BY <2>4, <3>2, <3>4 DEF Slots
    <3> HIDE DEF y
    <3>6. IsFiniteSet(Slots)
      <4>1. IsFiniteSet(0..(n - 1)) /\ Slots \subseteq 0..(n - 1)
        <5>1. n - 1 \in Int /\ Slots \subseteq 0..(n - 1)
          BY <1>1 DEF Slots
        <5> QED  BY <5>1, FS_Interval
      <4> QED  BY <4>1, FS_Subset
    <3>7. Cardinality(Slots') = Cardinality(Slots) + 1
      BY <3>3, <3>5, <3>6, FS_AddElement
    <3>8. t \notin Climbers
      <4>1. ~(climb[t].round > 0)
        BY <1>0, <2>5
      <4> QED  BY <4>1 DEF Climbers
    <3>9. Cardinality(Climbers') = Cardinality(Climbers) + 1
      BY <1>13, <1>14, <3>8, CardAdd
    <3> QED  BY <1>13, <3>7, <3>9
  <2>6. CASE s # 0
    <3>1. Slots' = Slots
      BY <1>3, <2>2, <2>3, <2>4, <2>6 DEF Slots
    <3>2. t \in Climbers
      BY <1>0, <1>1, <2>6 DEF Climbers
    <3>3. Climbers' = Climbers
      BY <1>14, <3>2
    <3> QED  BY <1>13, <3>1, <3>3
  <2> QED  BY <2>5, <2>6
<1> QED  BY <1>7, <1>8, <1>12, <1>15 DEF SlotsTaken, TreeFilled
-----------------------------------------------------------------------------
(* The steps, one by one.                                                  *)
Emptied ==
  /\ TreeAssumption /\ Types /\ expected \in 0..N /\ arrived = {} /\ Quiet
  /\ \A t \in Thread : pc[t] \notin Climbing
  /\ \A i \in Node, r \in Rounds : Used(expected, i, r) => Free(i, r)

LEMMA EmptyTree == Emptied => Tree
<1> SUFFICES ASSUME TreeAssumption, Types, expected \in 0..N, arrived = {}, Quiet,
                    \A t \in Thread : pc[t] \notin Climbing,
                    \A i \in Node, r \in Rounds : Used(expected, i, r) => Free(i, r)
    PROVE  Tree
  BY DEF Emptied
<1>1. ClimbRight /\ NodesRight /\ TreeFilled
  BY DEF ClimbRight, NodesRight, TreeFilled
<1>2. Seen
  BY DEF Seen, SeenBy, Climbing
<1>3. \A i, r : Free(i, r) => ~Full(i, r)
  BY StepFacts DEF Types, Free, Full
<1>4. expected \in Nat
  BY ParticipantsFinite
<1>5. Flow
  <2> SUFFICES ASSUME NEW i \in Node, NEW r \in Nat, Used(expected, i, r + 1)
      PROVE  Cardinality(AtNode(i, r + 1)) + Marks(expected, i, r + 1) = Below(expected, i, r)
    BY DEF Flow
  <2>1. AtNode(i, r + 1) = {}
    BY DEF AtNode
  <2>2. r + 1 \in Rounds /\ Used(expected, i, r) /\ i \in Nat
        /\ (2 * i + 2 * 2^r < expected => Used(expected, i + 2^r, r))
    BY NodeBelow, InTheTree
  <2>3. r \in Rounds /\ (2 * i + 2 * 2^r < expected => i + 2^r \in Node)
    BY <2>2, InTheTree
  <2>4. Marks(expected, i, r + 1) = 0
    BY <2>2 DEF Marks
  <2>5. Below(expected, i, r) = 0
    BY <1>3, <2>2, <2>3 DEF Below, One
  <2>6. Cardinality(AtNode(i, r + 1)) = 0
    BY <2>1, FS_EmptySet
  <2> QED  BY <2>4, <2>5, <2>6
<1>6. SlotsTaken
  <2> SUFFICES ASSUME expected > 1 PROVE Cardinality(Slots) = Cardinality(arrived) + Cardinality(Climbers)
    BY DEF SlotsTaken
  <2>1. Climbers = {}
    BY DEF Climbers
  <2>2. Slots = {}
    <3> SUFFICES ASSUME NEW k \in 0..(expected - 1) PROVE k \notin Slots
      BY DEF Slots
    <3> DEFINE h == k \div 2
    <3>1. h \in Nat /\ 2 * h < expected
      BY <1>4
    <3>2. h = h * 1
      BY <3>1
    <3> HIDE DEF h
    <3>3. Used(expected, h, 0)
      BY <3>1, <3>2, PowerZero DEF Used, Multiple
    <3>4. h \in Node /\ 0 \in Rounds
      BY <3>3, InTheTree
    <3>5. Free(h, 0) /\ ~Full(h, 0)
      BY <1>3, <3>3, <3>4
    <3> QED  BY <3>5 DEF Slots, h
  <2> QED  BY <2>1, <2>2, FS_EmptySet
<1> QED  BY <1>1, <1>2, <1>5, <1>6 DEF Tree

LEMMA EmptyTreeNext == (Emptied => Tree)'
BY EmptyTree, PTL

LEMMA InvInit == TreeAssumption /\ Init => TreeInv
<1> SUFFICES ASSUME TreeAssumption, Init PROVE TreeInv
  OBVIOUS
<1>1. Roles
  BY RolesInit
<1>2. /\ ph = 0 /\ arrived = {} /\ ticket = [i \in Node |-> [r \in Rounds |-> 0]]
      /\ pc = [t \in Thread |-> "idle"]
  BY DEF Init, InitHistory
<1>3. \A t \in Thread : pc[t] \notin Climbing /\ pc[t] \notin Closing
  BY <1>2 DEF Climbing, Closing
<1>4. \A i \in Node, r \in Rounds : Free(i, r)
  BY <1>2 DEF Free
<1>5. Tree
  BY <1>1, <1>2, <1>3, <1>4, EmptyTree DEF Roles, Expects, Quiet, Emptied
<1> QED  BY <1>1, <1>5 DEF Roles, Tree, TreeInv

\* A step outside the tree.
LEMMA TreeAlone ==
  ASSUME TreeAssumption, TreeInv, Quiet, Quiet',
         UNCHANGED <<ticket, ph, expected, arrived, climb>>,
         \A u \in Thread : (pc'[u] \in Climbing <=> pc[u] \in Climbing) /\ (pc[u] \in Climbing => pc'[u] = pc[u])
  PROVE  Tree'
<1>1. NodesRight' /\ Flow' /\ SlotsTaken' /\ TreeFilled' /\ Grows
  <2>1. UNCHANGED <<ticket, ph, expected, arrived>> /\ climb' = climb
    OBVIOUS
  <2> QED  BY <2>1, TreeSame
<1>2. \A u \in Thread \ {} : (pc'[u] \in Climbing => LocalsRight(climb'[u], expected')) /\ SeenBy(u)'
  <2>1. climb' = climb /\ {} \in SUBSET Thread
    OBVIOUS
  <2> QED  BY <1>1, <2>1, OthersClimb
<1>3. ClimbRight' /\ Seen'
  BY <1>2 DEF ClimbRight, Seen
<1> QED  BY <1>1, <1>3 DEF Tree

LEMMA CallInv ==
  ASSUME TreeAssumption, TreeInv, NEW t \in Thread, NEW S \in SUBSET Thread, Call(t, S)
  PROVE  TreeInv'
<1>1. Roles' /\ Quiet /\ Quiet'
  BY CallRoles
<1>2. UNCHANGED <<ticket, ph, expected, arrived, climb>>
  BY DEF Call, history
<1>3. \A u \in Thread : (pc'[u] \in Climbing <=> pc[u] \in Climbing) /\ (pc[u] \in Climbing => pc'[u] = pc[u])
  BY DEF Call, Climbing
<1>4. Tree'
  BY <1>1, <1>2, <1>3, TreeAlone
<1> QED  BY <1>1, <1>4 DEF Roles, Tree, TreeInv

LEMMA CallDropInv ==
  ASSUME TreeAssumption, TreeInv, NEW t \in Thread, CallDrop(t)
  PROVE  TreeInv'
<1>1. Roles' /\ Quiet /\ Quiet'
  BY CallDropRoles
<1>2. UNCHANGED <<ticket, ph, expected, arrived, climb>>
  BY DEF CallDrop, history
<1>3. \A u \in Thread : (pc'[u] \in Climbing <=> pc[u] \in Climbing) /\ (pc[u] \in Climbing => pc'[u] = pc[u])
  BY DEF CallDrop, Climbing, TreeInv, Types
<1>4. Tree'
  BY <1>1, <1>2, <1>3, TreeAlone
<1> QED  BY <1>1, <1>4 DEF Roles, Tree, TreeInv

LEMMA LoadPhaseInv ==
  ASSUME TreeAssumption, TreeInv, NEW t \in Thread, LoadPhase(t)
  PROVE  TreeInv'
<1>1. Roles' /\ Quiet /\ Quiet'
  BY LoadPhaseRoles
<1>2. UNCHANGED <<ticket, ph, expected, arrived, climb>>
  BY DEF LoadPhase, history
<1>3. \A u \in Thread : (pc'[u] \in Climbing <=> pc[u] \in Climbing) /\ (pc[u] \in Climbing => pc'[u] = pc[u])
  BY DEF LoadPhase, Climbing, TreeInv, Types
<1>4. Tree'
  BY <1>1, <1>2, <1>3, TreeAlone
<1> QED  BY <1>1, <1>4 DEF Roles, Tree, TreeInv

LEMMA WaitTokenInv ==
  ASSUME TreeAssumption, TreeInv, NEW t \in Thread, WaitToken(t)
  PROVE  TreeInv'
<1>1. Roles' /\ Quiet /\ Quiet'
  BY WaitRoles
<1>2. UNCHANGED <<ticket, ph, expected, arrived, climb>>
  BY DEF WaitToken, history
<1>3. \A u \in Thread : (pc'[u] \in Climbing <=> pc[u] \in Climbing) /\ (pc[u] \in Climbing => pc'[u] = pc[u])
  BY DEF WaitToken, Climbing, TreeInv, Types
<1>4. Tree'
  BY <1>1, <1>2, <1>3, TreeAlone
<1> QED  BY <1>1, <1>4 DEF Roles, Tree, TreeInv

\* While a phase is completed nobody climbs.
LEMMA TreeClosed ==
  ASSUME TreeInv, Roles', ~Quiet', TreeFilled'
  PROVE  TreeInv'
<1>1. \A u \in Thread : pc'[u] \notin Climbing
  BY DEF Roles, ClosingRoles, Quiet, Climbing, Closing
<1>2. ClimbRight' /\ Seen'
  BY <1>1 DEF ClimbRight, Seen, SeenBy, Climbing
<1>3. NodesRight' /\ Flow' /\ SlotsTaken'
  BY DEF NodesRight, Flow, SlotsTaken
<1> QED  BY <1>2, <1>3 DEF Roles, TreeInv

LEMMA CompletesInv ==
  ASSUME TreeAssumption, TreeInv, NEW t \in Thread, CompletesOn(t)
  PROVE  TreeInv'
<1>1. Roles' /\ ~Quiet /\ ~Quiet'
  BY CompletesRoles
<1>2. UNCHANGED <<members, ticket, ph>>
  BY DEF CompletesOn, RunCompletion, AdjustExpected, ResetAdjustment, history
<1>3. TreeFilled'
  BY <1>1, <1>2 DEF TreeInv, TreeFilled, Full, Step
<1> QED  BY <1>1, <1>3, TreeClosed

LEMMA AdvancePhaseInv ==
  ASSUME TreeAssumption, TreeInv, NEW t \in Thread, AdvancePhase(t)
  PROVE  TreeInv'
<1>1. /\ Roles' /\ ~Quiet /\ Quiet'
      /\ ph' = Step(ph, 2) /\ arrived' = {} /\ expected' = Cardinality(members)
      /\ \A u \in Thread : pc'[u] \notin Climbing
  BY AdvanceRoles
<1>2. ticket' = ticket
  BY DEF AdvancePhase
<1>3. \A i \in Node, r \in Rounds : Used(expected', i, r) => Free(i, r)'
  BY <1>1, <1>2 DEF TreeInv, TreeFilled, Free, Full
<1>4. Types' /\ expected' \in 0..N
  BY <1>1 DEF Roles, Expects
<1>5. Emptied'
  BY <1>1, <1>3, <1>4 DEF Emptied, Used, Climbing
<1>6. Tree'
  BY <1>5, EmptyTreeNext
<1> QED  BY <1>1, <1>6 DEF Roles, Tree, TreeInv

\* The last arrival.
LEMMA ClosesInv ==
  ASSUME TreeAssumption, TreeInv, NEW t \in Thread, Closes(t),
         \A i \in Node, r \in Rounds : Used(expected, i, r) => Full(i, r)'
  PROVE  TreeInv'
<1>1. Roles' /\ Quiet /\ ~Quiet' /\ members' = {u \in members : ~quit[u]}
  BY ClosesRoles
<1>2. members \in SUBSET Thread /\ members' \in SUBSET members /\ expected = Cardinality(members)
  BY <1>1, ClimbersMissing
<1>3. expected \in 0..N /\ N \in Nat /\ expected \in Nat
  BY ParticipantsFinite DEF TreeInv, Expects
<1>4. Cardinality(members') \in 0..expected
  <2>1. Cardinality(members') \in Nat
    BY <1>2, Card
  <2>2. Cardinality(members') <= Cardinality(members)
    BY <1>2, CardMono
  <2> QED  BY <1>2, <1>3, <2>1, <2>2
<1>5. \A i \in Node, r \in Rounds : Used(Cardinality(members'), i, r) => Used(expected, i, r)
  <2>1. \A r \in Rounds : r \in Nat
    BY <1>3 DEF Rounds
  <2> QED  BY <1>3, <1>4, <2>1, SmallerTree
<1>6. TreeFilled'
  BY <1>5 DEF TreeFilled
<1> QED  BY <1>1, <1>6, TreeClosed

\* A step in the tree after which the thread is still there.
LEMMA MovesInv ==
  ASSUME TreeAssumption, TreeInv, NEW t \in Thread, Moves(t), Grows,
         NodesRight' /\ Flow' /\ SlotsTaken' /\ TreeFilled',
         \A u \in Thread \ {t} : climb'[u] = climb[u],
         LocalsRight(climb'[t], expected), SeenBy(t)'
  PROVE  TreeInv'
<1>1. Roles'
  BY MovesRoles
<1>2. \A u \in Thread \ {t} : pc'[u] = pc[u]
  BY DEF Moves, TreeInv, Types
<1>3. \A u \in Thread \ {t} : (pc'[u] \in Climbing => LocalsRight(climb'[u], expected')) /\ SeenBy(u)'
  <2>1. {t} \in SUBSET Thread
    OBVIOUS
  <2> QED  BY <1>2, <2>1, OthersClimb
<1>4. ClimbRight' /\ Seen'
  BY <1>3 DEF ClimbRight, Seen, Grows
<1> QED  BY <1>1, <1>4 DEF Roles, TreeInv
\* Who arrives last arrives for itself.
LEMMA LastServed ==
  ASSUME TreeInv, Quiet, NEW t \in Thread, pc[t] \in Calling, members \ arrived = {t}
  PROVE  todo[t] = {t} /\ Served(t) = t
<1>1. Served(t) # t => Missing(Served(t)) /\ Served(t) \in Thread
  BY ServedMissing DEF Missing
<1>2. Served(t) # t => Served(t) \in members \ arrived
  BY <1>1 DEF TreeInv, OpenRoles
<1> QED  BY <1>2, ServedMissing

LEMMA StartClimbInv ==
  ASSUME TreeAssumption, TreeInv, NEW t \in Thread, StartClimb(t)
  PROVE  TreeInv' /\ (Moves(t) \/ Closes(t))
<1>1. pc[t] = "start" /\ Quiet /\ t \in members \ arrived
  <2>1. pc[t] = "start" /\ Quiet
    BY OnTheWay DEF StartClimb
  <2> QED  BY <2>1 DEF TreeInv, OpenRoles, Missing
<1>2. /\ arrived \subseteq members /\ members \in SUBSET Thread /\ expected = Cardinality(members)
      /\ expected \in 0..N /\ expected \in Nat
  BY <1>1, ClimbersMissing, ParticipantsFinite DEF TreeInv, Expects
<1>3. expected # 0
  BY <1>1, <1>2, Card
<1>4. /\ UNCHANGED <<expected, adjustment, ph, ticket, completions, quit, todo, team, old>>
      /\ ticket' \in [Node -> [Rounds -> 0..(Byte - 1)]]
  BY DEF StartClimb, TreeInv, Types
<1>5. CASE expected = 1
  <2>1. pc' = [pc EXCEPT ![t] = "complete"] /\ Note(t, TRUE) /\ climb' = climb
    BY <1>5 DEF StartClimb
  <2>2. members = {t}
    <3>1. {t} \subseteq members /\ Cardinality({t}) = 1
      BY <1>1, FS_Singleton
    <3> QED  BY <1>2, <1>5, <3>1, CardMono
  <2>3. members \ arrived = {t}
    BY <1>1, <1>2, <2>2
  <2>4. todo[t] = {t}
    BY <1>1, <2>3, LastServed DEF Calling
  <2>5. climb' \in [Thread -> [cur : Int, exp : Int, last : Int, round : Nat]]
    BY <2>1 DEF TreeInv, Types
  <2>6. Closes(t)
    BY <1>1, <1>4, <2>1, <2>3, <2>4, <2>5 DEF Closes
  <2>7. \A i \in Node, r \in Rounds : ~Used(expected, i, r)
    <3>1. \A r \in Rounds : 2^r \in Nat \ {0}
      BY PowerPositive, ParticipantsFinite DEF Rounds
    <3> QED  BY <1>5, <3>1 DEF Used
  <2> QED  BY <2>6, <2>7, ClosesInv
<1>6. CASE expected # 1
  <2> DEFINE d == [cur |-> 0, exp |-> expected, last |-> LastNode(expected), round |-> 0]
  <2>1. pc' = [pc EXCEPT ![t] = "try"] /\ climb' = [climb EXCEPT ![t] = d] /\ UNCHANGED history
    BY <1>6 DEF StartClimb, TreeAssumption
  <2>2. d \in [cur : Int, exp : Int, last : Int, round : Nat]
    BY <1>2 DEF LastNode
  <2>3. climb'[t] = d /\ \A u \in Thread \ {t} : climb'[u] = climb[u]
    BY <2>1 DEF TreeInv, Types
  <2>4. climb' \in [Thread -> [cur : Int, exp : Int, last : Int, round : Nat]]
    BY <2>1, <2>2 DEF TreeInv, Types
  <2>5. Moves(t)
    BY <1>1, <1>4, <2>1, <2>4 DEF Moves, Climbing
  <2>6. Quiet'
    BY <2>5, MovesRoles
  <2>7. pc'[t] = "try" /\ pc[t] = "start" /\ \A u \in Thread \ {t} : pc'[u] = pc[u]
    BY <1>1, <2>1 DEF TreeInv, Types
  <2>8. d.cur = 0 /\ d.exp = expected /\ d.last = expected \div 2 /\ d.round = 0
    BY DEF LastNode
  <2>9. climb'[t].round = 0
    BY <2>3, <2>8
  <2> HIDE DEF d
  <2>10. NodesRight' /\ Flow' /\ SlotsTaken' /\ TreeFilled' /\ Grows
    <3>1. UNCHANGED <<ticket, ph, expected, arrived>>
      BY <1>4, <2>1 DEF history
    <3>2. \A u \in Thread : pc'[u] \in Climbing /\ climb'[u].round > 0 <=> pc[u] \in Climbing /\ climb[u].round > 0
      <4>1. \A u \in Thread \ {t} : pc'[u] = pc[u] /\ climb'[u] = climb[u]
        BY <2>3, <2>7
      <4>2. ~(climb'[t].round > 0) /\ pc[t] \notin Climbing
        BY <2>7, <2>9 DEF Climbing
      <4> QED  BY <4>1, <4>2
    <3>3. \A u \in Thread : pc[u] \in Climbing /\ climb[u].round > 0 => climb'[u] = climb[u]
      BY <2>3, <2>7 DEF Climbing
    <3> QED  BY <1>1, <2>6, <3>1, <3>2, <3>3, TreeSame
  <2>11. LocalsRight(d, expected)
    <3>1. 0 = 0 * 1 /\ 0 < expected /\ 1 < expected
      BY <1>2, <1>3, <1>6
    <3>2. Used(expected, 0, 0)
      BY <3>1, PowerZero DEF Used, Multiple
    <3> DEFINE l == expected \div 2
    <3>3. l \in Nat /\ 2 * l <= expected /\ expected < 2 * l + 2 /\ l = l * 1
      BY <1>2
    <3> HIDE DEF l
    <3>4. \E k \in Nat : l = k * 1 /\ 2 * (k * 1) <= expected /\ expected < 2 * (k * 1) + 2 * 1
      <4>1. 2 * (l * 1) <= expected /\ expected < 2 * (l * 1) + 2 * 1
        BY <3>3, <1>2
      <4> QED  BY <3>3, <4>1
    <3>5. (expected - 1) * 1 < expected /\ expected <= expected * 1
      BY <1>2
    <3>6. d.last = l
      BY <2>8 DEF l
    <3> QED  BY <1>2, <2>8, <3>2, <3>4, <3>5, <3>6, PowerZero DEF LocalsRight
  <2>12. SeenBy(t)'
    <3>1. \A j \in Node : ~(j < climb'[t].cur)
      BY <2>3, <2>8, ParticipantsFinite DEF Node, Size
    <3> QED  BY <2>7, <3>1 DEF SeenBy
  <2> QED  BY <2>3, <2>5, <2>10, <2>11, <2>12, MovesInv
<1> QED  BY <1>5, <1>6

\* The node was taken: the search goes on.
LEMMA AdvanceInv ==
  ASSUME TreeAssumption, TreeInv, NEW t \in Thread, pc[t] \in Climbing,
         Full(climb[t].cur, climb[t].round), Advance(t),
         UNCHANGED <<ticket, expected, adjustment, ph, completions, quit, team>>
  PROVE  TreeInv' /\ Moves(t)
<1> DEFINE x == climb[t].cur
<1>1. climb[t].round = 0 /\ Used(expected, x + 1, 0)
  BY NodeTaken
<1>2. Quiet /\ x \in Nat /\ x \in Node /\ climb[t] \in [cur : Int, exp : Int, last : Int, round : Nat]
  BY AtFacts, ClimbFacts DEF TreeInv, Types
<1>3. /\ climb' = [climb EXCEPT ![t].cur = x + 1] /\ pc' = [pc EXCEPT ![t] = "try"]
      /\ UNCHANGED <<todo, old, history>>
  BY <1>1 DEF Advance, Wrap, TreeAssumption
<1>4. climb' \in [Thread -> [cur : Int, exp : Int, last : Int, round : Nat]]
  BY <1>2, <1>3 DEF TreeInv, Types
<1>5. ticket' \in [Node -> [Rounds -> 0..(Byte - 1)]]
  BY DEF TreeInv, Types
<1>6. Moves(t)
  BY <1>3, <1>4, <1>5 DEF Moves, Climbing
<1>7. Quiet'
  BY <1>6, MovesRoles
<1>8. /\ climb'[t].cur = x + 1 /\ climb'[t].exp = climb[t].exp /\ climb'[t].last = climb[t].last
      /\ climb'[t].round = 0 /\ \A u \in Thread \ {t} : climb'[u] = climb[u]
  BY <1>1, <1>2, <1>3 DEF TreeInv, Types
<1>9. pc'[t] = "try" /\ \A u \in Thread \ {t} : pc'[u] = pc[u]
  BY <1>3 DEF TreeInv, Types
<1>10. NodesRight' /\ Flow' /\ SlotsTaken' /\ TreeFilled' /\ Grows
  <2>1. UNCHANGED <<ticket, ph, expected, arrived>>
    BY <1>3 DEF history
  <2>2. \A u \in Thread : pc'[u] \in Climbing /\ climb'[u].round > 0 <=> pc[u] \in Climbing /\ climb[u].round > 0
    <3>1. ~(climb'[t].round > 0) /\ ~(climb[t].round > 0)
      BY <1>1, <1>8
    <3> QED  BY <1>8, <1>9, <3>1
  <2>3. \A u \in Thread : pc[u] \in Climbing /\ climb[u].round > 0 => climb'[u] = climb[u]
    <3>1. ~(climb[t].round > 0)
      BY <1>1
    <3> QED  BY <1>8, <3>1
  <2> QED  BY <1>2, <1>7, <2>1, <2>2, <2>3, TreeSame
<1>11. LocalsRight(climb'[t], expected)
  <2>1. LocalsRight(climb[t], expected)
    BY DEF TreeInv, ClimbRight
  <2> QED  BY <1>1, <1>2, <1>8, <2>1 DEF LocalsRight
<1>12. SeenBy(t)'
  <2>1. \A j \in Node : j < x + 1 => Full(j, 0)
    <3>1. \A j \in Node : j < x => Full(j, 0)
      BY <1>1 DEF TreeInv, Seen, SeenBy
    <3>2. \A j \in Node : j \in Int
      BY ParticipantsFinite DEF Node, Size
    <3> QED  BY <1>1, <1>2, <3>1, <3>2
  <2>2. \A j \in Node : j < climb'[t].cur => Full(j, 0)'
    BY <1>8, <2>1 DEF Full, Step
  <2> QED  BY <1>9, <2>2 DEF SeenBy, Full, Step
<1> QED  BY <1>6, <1>8, <1>10, <1>11, <1>12, MovesInv

\* The node is half: the next step will fill it.
LEMMA SeesHalfInv ==
  ASSUME TreeAssumption, TreeInv, NEW t \in Thread, pc[t] \in Climbing,
         Half(climb[t].cur, climb[t].round), ~Lone(expected, climb[t].cur, climb[t].round),
         pc' = [pc EXCEPT ![t] = "second"],
         UNCHANGED <<ticket, climb, todo, old, history, expected, adjustment, ph, completions, quit, team>>
  PROVE  TreeInv' /\ Moves(t)
<1>1. climb' \in [Thread -> [cur : Int, exp : Int, last : Int, round : Nat]] /\ Quiet
  BY AtFacts DEF TreeInv, Types
<1>2. ticket' \in [Node -> [Rounds -> 0..(Byte - 1)]]
  BY DEF TreeInv, Types
<1>3. Moves(t)
  BY <1>1, <1>2 DEF Moves, Climbing
<1>4. Quiet'
  BY <1>3, MovesRoles
<1>5. pc'[t] = "second" /\ \A u \in Thread \ {t} : pc'[u] = pc[u]
  BY DEF TreeInv, Types
<1>6. climb' = climb
  OBVIOUS
<1>7. NodesRight' /\ Flow' /\ SlotsTaken' /\ TreeFilled' /\ Grows
  <2>1. UNCHANGED <<ticket, ph, expected, arrived>>
    BY DEF history
  <2>2. \A u \in Thread : pc'[u] \in Climbing <=> pc[u] \in Climbing
    BY <1>5 DEF Climbing
  <2> QED  BY <1>1, <1>4, <1>6, <2>1, <2>2, TreeSame
<1>8. LocalsRight(climb'[t], expected)
  BY <1>6 DEF TreeInv, ClimbRight
<1>9. SeenBy(t)'
  <2>1. ~Free(climb[t].cur, climb[t].round)
    BY OneValue
  <2>2. climb[t].round = 0 => \A j \in Node : j < climb[t].cur => Full(j, 0)
    BY DEF TreeInv, Seen, SeenBy
  <2> QED  BY <1>5, <1>6, <2>1, <2>2 DEF SeenBy, Free, Full, Step, Lone
<1> QED  BY <1>3, <1>6, <1>7, <1>8, <1>9, MovesInv

\* The first of two arrivals at a node, which is not the last of the phase.
LEMMA HalfMarkInv ==
  ASSUME TreeAssumption, TreeInv, NEW t \in Thread, pc[t] \in Climbing,
         Free(climb[t].cur, climb[t].round), ~Lone(expected, climb[t].cur, climb[t].round),
         SetTicket(t, Step(old[t], 1)), Note(t, FALSE), Arrived(t),
         UNCHANGED <<climb, expected, adjustment, ph, completions, quit, team>>
  PROVE  TreeInv' /\ Marks1(t) /\ arrived \cup {Served(t)} # members
<1>1. /\ climb[t].cur \in Node /\ climb[t].round \in Rounds /\ old[t] = ph /\ Quiet
      /\ arrived \subseteq members
  BY ClimbFacts, AtFacts, ClimbersMissing
<1>2. Marked(climb[t].cur, climb[t].round, Step(ph, 1))
  BY <1>1 DEF SetTicket, Marked
<1>3. ticket' \in [Node -> [Rounds -> 0..(Byte - 1)]]
  <2>1. Step(ph, 1) \in 0..(Byte - 1) /\ ticket \in [Node -> [Rounds -> 0..(Byte - 1)]]
    BY StepFacts DEF TreeInv, Types
  <2> QED  BY <1>1, <1>2, <2>1 DEF Marked
<1>4. Marks1(t)
  BY <1>3 DEF Marks1
<1>5. /\ Roles' /\ Quiet'
      /\ Served(t) \in members \ arrived /\ arrived' = arrived \cup {Served(t)}
      /\ \A u \in Thread : pc'[u] \in Climbing <=> pc[u] \in Climbing /\ u # t
      /\ \A u \in Thread \ {t} : pc[u] \in Climbing => pc'[u] = pc[u]
  BY <1>4, ArrivesRoles
<1>6. climb' = climb
  OBVIOUS
<1>7. NodesRight' /\ Flow' /\ SlotsTaken' /\ TreeFilled' /\ Grows
  BY <1>2, <1>5, <1>6, HalfMarked
<1>8. \A u \in Thread \ {} : (pc'[u] \in Climbing => LocalsRight(climb'[u], expected')) /\ SeenBy(u)'
  <2>1. {} \in SUBSET Thread
    OBVIOUS
  <2> QED  BY <1>5, <1>6, <1>7, <2>1, OthersClimb
<1>9. ClimbRight' /\ Seen'
  BY <1>8 DEF ClimbRight, Seen
<1>10. arrived \cup {Served(t)} # members
  <2> SUFFICES ASSUME arrived \cup {Served(t)} = members PROVE FALSE
    OBVIOUS
  <2>1. members \ arrived = {Served(t)}
    BY <1>5
  <2>2. t \in members \ arrived
    BY AtFacts
  <2>3. members \ arrived = {t}
    BY <2>1, <2>2
  <2> QED  BY <2>3, NotLast
<1> QED  BY <1>4, <1>5, <1>7, <1>9, <1>10 DEF Roles, TreeInv

\* The last arrival at a node.
LEMMA FillInv ==
  ASSUME TreeAssumption, TreeInv, NEW t \in Thread, pc[t] \in Climbing,
         ~Full(climb[t].cur, climb[t].round),
         Lone(expected, climb[t].cur, climb[t].round) \/ Half(climb[t].cur, climb[t].round),
         SetTicket(t, Step(old[t], 2)), Climb(t),
         UNCHANGED <<expected, adjustment, ph, completions, quit, team>>
  PROVE  TreeInv' /\ (Moves(t) \/ Closes(t))
<1> DEFINE d == [cur |-> ClearBit(climb[t].cur, climb[t].round), exp |-> Halved(climb[t].exp),
                 last |-> ClearBit(climb[t].last, climb[t].round), round |-> climb[t].round + 1]
<1>1. /\ climb[t].cur \in Node /\ climb[t].round \in Rounds /\ climb[t].round \in Nat /\ old[t] = ph /\ Quiet
      /\ (Halved(climb[t].exp) = 1 <=> expected <= 2 * 2^climb[t].round)
      /\ expected \in Nat
  BY ClimbFacts, AtFacts, ParticipantsFinite
<1>2. Marked(climb[t].cur, climb[t].round, Step(ph, 2))
  BY <1>1 DEF SetTicket, Marked
<1>3. ticket' \in [Node -> [Rounds -> 0..(Byte - 1)]]
  <2>1. Step(ph, 2) \in 0..(Byte - 1) /\ ticket \in [Node -> [Rounds -> 0..(Byte - 1)]]
    BY StepFacts DEF TreeInv, Types
  <2> QED  BY <1>1, <1>2, <2>1 DEF Marked
<1>4. climb' = [climb EXCEPT ![t] = d] /\ UNCHANGED <<todo, old>>
  BY DEF Climb
<1>5. /\ d \in [cur : Int, exp : Int, last : Int, round : Nat]
      /\ 2 * 2^climb[t].round < expected => LocalsRight(d, expected)
  <2>1. /\ d \in [cur : Int, exp : Int, last : Int, round : Nat]
        /\ 2 * 2^climb[t].round < expected => Used(expected, d.cur, d.round)
        /\ d.cur \in Nat /\ d.exp \in Nat /\ (d.exp - 1) * 2^d.round < expected /\ expected <= d.exp * 2^d.round
        /\ \E l \in Nat : d.last = l * 2^d.round /\ 2 * (l * 2^d.round) <= expected
                          /\ expected < 2 * (l * 2^d.round) + 2 * 2^d.round
    BY ClimbNext
  <2> HIDE DEF d
  <2> QED  BY <2>1 DEF LocalsRight
<1>6. /\ d.cur = ClearBit(climb[t].cur, climb[t].round) /\ d.round = climb[t].round + 1
  OBVIOUS
<1>7. climb'[t] = d /\ \A u \in Thread \ {t} : climb'[u] = climb[u]
  BY <1>4 DEF TreeInv, Types
<1>8. climb' \in [Thread -> [cur : Int, exp : Int, last : Int, round : Nat]]
  BY <1>4, <1>5 DEF TreeInv, Types
<1>9. 2^climb[t].round \in Nat
  BY <1>1, PowerPositive
<1>10. CASE Halved(climb[t].exp) = 1
  <2>1. pc' = [pc EXCEPT ![t] = "complete"] /\ Note(t, TRUE)
    BY <1>10 DEF Climb
  <2>2. ~(2 * 2^climb[t].round < expected)
    BY <1>1, <1>9, <1>10
  <2>3. /\ members \ arrived = {t}
        /\ \A i \in Node, r \in Rounds : Used(expected, i, r) =>
             Full(i, r) \/ (i = climb[t].cur /\ r = climb[t].round)
    BY <2>2, RootFilled
  <2>4. todo[t] = {t}
    BY <1>1, <2>3, LastServed DEF Calling
  <2>5. Closes(t)
    BY <1>3, <1>4, <1>8, <2>1, <2>3, <2>4 DEF Closes, Climbing
  <2>6. ASSUME NEW i \in Node, NEW r \in Rounds, Used(expected, i, r) PROVE Full(i, r)'
    <3>1. PICK x, s : x = climb[t].cur /\ s = climb[t].round
      OBVIOUS
    <3>2. /\ \A j \in Node, q \in Rounds : j # x \/ q # s => (Full(j, q)' <=> Full(j, q))
          /\ Full(x, s)'
      BY <1>1, <1>2, <3>1, Marking
    <3> QED  BY <2>3, <2>6, <3>1, <3>2
  <2> QED  BY <2>5, <2>6, ClosesInv
<1>11. CASE Halved(climb[t].exp) # 1
  <2>1. pc' = [pc EXCEPT ![t] = "try"] /\ UNCHANGED history
    BY <1>11 DEF Climb
  <2>2. 2 * 2^climb[t].round < expected
    BY <1>1, <1>9, <1>11
  <2>3. Moves(t)
    BY <1>3, <1>4, <1>8, <2>1 DEF Moves, Climbing
  <2>4. Quiet'
    BY <2>3, MovesRoles
  <2>5. pc'[t] = "try" /\ \A u \in Thread : (pc'[u] \in Climbing <=> pc[u] \in Climbing)
    BY <2>1 DEF TreeInv, Types, Climbing
  <2>6. climb'[t].cur = ClearBit(climb[t].cur, climb[t].round) /\ climb'[t].round = climb[t].round + 1
    BY <1>6, <1>7
  <2>7. arrived' = arrived
    BY <2>1 DEF history
  <2> HIDE DEF d
  <2>8. NodesRight' /\ Flow' /\ SlotsTaken' /\ TreeFilled' /\ Grows
    BY <1>2, <1>7, <2>2, <2>4, <2>5, <2>6, <2>7, Filled
  <2>9. SeenBy(t)'
    <3>1. climb'[t].round # 0
      BY <1>1, <2>6
    <3> QED  BY <2>5, <3>1 DEF SeenBy
  <2>10. LocalsRight(climb'[t], expected)
    BY <1>5, <1>7, <2>2
  <2> QED  BY <1>7, <2>3, <2>8, <2>9, <2>10, MovesInv
<1> QED  BY <1>10, <1>11
LEMMA TryTicketInv ==
  ASSUME TreeAssumption, TreeInv, NEW t \in Thread, TryTicket(t)
  PROVE  TreeInv' /\ (Moves(t) \/ Closes(t) \/ (Marks1(t) /\ arrived \cup {Served(t)} # members))
<1>1. pc[t] \in Climbing /\ UNCHANGED <<expected, adjustment, ph, completions, quit, team>>
  BY DEF TryTicket, Climbing
<1> DEFINE x == climb[t].cur
           s == climb[t].round
<1>2. /\ Quiet /\ old[t] = ph
      /\ At(t) = ph <=> Free(x, s)
      /\ At(t) = Step(ph, 1) <=> Half(x, s)
      /\ Free(x, s) \/ (Half(x, s) /\ ~Lone(expected, x, s)) \/ Full(x, s)
      /\ Single(climb[t]) <=> Lone(expected, x, s)
  BY <1>1, AtFacts, ClimbFacts
<1>3. ~(Free(x, s) /\ Half(x, s)) /\ ~(Free(x, s) /\ Full(x, s)) /\ ~(Half(x, s) /\ Full(x, s))
  BY OneValue
<1>4. CASE At(t) = old[t] /\ Single(climb[t]) /\ SetTicket(t, Step(old[t], 2)) /\ Climb(t)
  BY <1>1, <1>2, <1>3, <1>4, FillInv
<1>5. CASE /\ At(t) = old[t] /\ ~Single(climb[t])
           /\ SetTicket(t, Step(old[t], 1)) /\ Note(t, FALSE) /\ Arrived(t) /\ UNCHANGED <<climb, favorite>>
  <2>1. UNCHANGED <<climb, expected, adjustment, ph, completions, quit, team>>
    BY <1>1, <1>5
  <2> QED  BY <1>1, <1>2, <1>5, <2>1, HalfMarkInv
<1>6. CASE /\ At(t) = Step(old[t], 1) /\ ~Single(climb[t])
           /\ pc' = [pc EXCEPT ![t] = "second"]
           /\ UNCHANGED <<ticket, climb, favorite, todo, old, history>>
  <2>1. UNCHANGED <<ticket, climb, todo, old, history, expected, adjustment, ph, completions, quit, team>>
    BY <1>1, <1>6
  <2> QED  BY <1>1, <1>2, <1>6, <2>1, SeesHalfInv
<1>7. CASE /\ At(t) # old[t] /\ (Single(climb[t]) \/ At(t) # Step(old[t], 1))
           /\ Advance(t) /\ UNCHANGED ticket
  <2>1. UNCHANGED <<ticket, expected, adjustment, ph, completions, quit, team>>
    BY <1>1, <1>7
  <2>2. Full(x, s)
    BY <1>2, <1>3, <1>7
  <2> QED  BY <1>1, <1>7, <2>1, <2>2, AdvanceInv
<1> QED  BY <1>4, <1>5, <1>6, <1>7 DEF TryTicket

LEMMA SecondTicketInv ==
  ASSUME TreeAssumption, TreeInv, NEW t \in Thread, SecondTicket(t)
  PROVE  TreeInv' /\ (Moves(t) \/ Closes(t))
<1>1. /\ pc[t] = "second" /\ pc[t] \in Climbing
      /\ UNCHANGED <<expected, adjustment, ph, completions, quit, team>>
  BY DEF SecondTicket, Climbing
<1> DEFINE x == climb[t].cur
           s == climb[t].round
<1>2. /\ Quiet /\ old[t] = ph
      /\ At(t) = Step(ph, 1) <=> Half(x, s)
      /\ Free(x, s) \/ (Half(x, s) /\ ~Lone(expected, x, s)) \/ Full(x, s)
  BY <1>1, AtFacts
<1>3. ~Free(x, s)
  BY <1>1 DEF TreeInv, Seen, SeenBy
<1>4. ~(Half(x, s) /\ Full(x, s))
  BY OneValue
<1>5. CASE At(t) = Step(old[t], 1) /\ SetTicket(t, Step(old[t], 2)) /\ Climb(t)
  BY <1>1, <1>2, <1>4, <1>5, FillInv
<1>6. CASE At(t) # Step(old[t], 1) /\ Advance(t) /\ UNCHANGED ticket
  <2>1. UNCHANGED <<ticket, expected, adjustment, ph, completions, quit, team>>
    BY <1>1, <1>6
  <2>2. Full(x, s)
    BY <1>2, <1>3, <1>6
  <2> QED  BY <1>1, <1>6, <2>1, <2>2, AdvanceInv
<1> QED  BY <1>5, <1>6 DEF SecondTicket

\* The kinds of steps.
Arrives(t) == Marks1(t) /\ arrived \cup {Served(t)} # members

LEMMA Kinds ==
  ASSUME TreeAssumption, TreeInv, NEW t \in Thread, ThreadStep(t)
  PROVE  /\ TreeInv'
         /\ \/ \E S \in SUBSET Thread : Call(t, S)
            \/ CallDrop(t) \/ LoadPhase(t) \/ Moves(t) \/ Arrives(t) \/ Closes(t)
            \/ CompletesOn(t) \/ AdvancePhase(t) \/ WaitToken(t)
<1>1. ASSUME NEW S \in SUBSET Thread, Call(t, S) PROVE TreeInv'
  BY <1>1, CallInv
<1>2. CASE CallDrop(t)
  BY <1>2, CallDropInv
<1>3. CASE LoadPhase(t)
  BY <1>3, LoadPhaseInv
<1>4. CASE StartClimb(t)
  BY <1>4, StartClimbInv
<1>5. CASE TryTicket(t)
  BY <1>5, TryTicketInv DEF Arrives
<1>6. CASE SecondTicket(t)
  BY <1>6, SecondTicketInv
<1>7. CASE CompletesOn(t)
  BY <1>7, CompletesInv
<1>8. CASE AdvancePhase(t)
  BY <1>8, AdvancePhaseInv
<1>9. CASE WaitToken(t)
  BY <1>9, WaitTokenInv
<1> QED  BY <1>1, <1>2, <1>3, <1>4, <1>5, <1>6, <1>7, <1>8, <1>9 DEF ThreadStep, CompletesOn

LEMMA InvStutter == TreeInv /\ UNCHANGED vars => TreeInv'
<1> SUFFICES ASSUME TreeInv, UNCHANGED vars PROVE TreeInv'
  OBVIOUS
<1>1. UNCHANGED <<expected, adjustment, ph, ticket, completions, pc, quit, todo, team, old, climb,
                  phase, members, arrived, leaving, at>>
  BY DEF vars, history
<1> USE DEF TreeInv
<1>2. Types' /\ Teams' /\ ClimbRight'
  BY <1>1 DEF Types, HistoryTypeOK, Teams, ClimbRight
<1>3. Quiet' <=> Quiet
  BY <1>1 DEF Quiet
<1>4. OpenRoles' /\ ClosingRoles' /\ Expects'
  BY <1>1, <1>3 DEF OpenRoles, ClosingRoles, Expects, Missing, Landed, Late, Droppers
<1>5. \A i, r : (Free(i, r)' <=> Free(i, r)) /\ (Half(i, r)' <=> Half(i, r)) /\ (Full(i, r)' <=> Full(i, r))
  BY <1>1 DEF Free, Half, Full, Step
<1>6. NodesRight' /\ TreeFilled'
  BY <1>1, <1>3, <1>5 DEF NodesRight, TreeFilled, Lone, Used
<1>7. Seen'
  BY <1>1 DEF Seen, SeenBy, Free, Full, Step
<1>8. Climbers' = Climbers /\ Slots' = Slots
  BY <1>1, <1>5 DEF Climbers, Slots
<1>9. SlotsTaken'
  BY <1>1, <1>3, <1>8 DEF SlotsTaken
<1>10. Flow'
  BY <1>1, <1>3 DEF Flow, AtNode, Marks, Below, One, Lone, Free, Half, Full, Step, Used
<1> QED  BY <1>2, <1>4, <1>6, <1>7, <1>9, <1>10

LEMMA InvNext == TreeAssumption /\ TreeInv /\ [Next]_vars => TreeInv'
BY Kinds, InvStutter DEF Next, Finished

(* The inductive invariant of the tree barrier: who is missing, what the   *)
(* nodes have had, and who is on the way up.                               *)
THEOREM TreeInvariant ==
  ASSUME TreeAssumption
  PROVE  Spec => []TreeInv
<1>1. Init => TreeInv
  BY InvInit
<1>2. TreeInv /\ [Next]_vars => TreeInv'
  BY InvNext
<1> QED  BY <1>1, <1>2, PTL DEF Spec

\* What the invariant says of the safety properties.
LEMMA InvShows ==
  ASSUME TreeAssumption, TreeInv
  PROVE  TypeOK /\ InTree /\ SearchOnlyBelow /\ RootAlone
<1>1. TypeOK
  <2>1. adjustment \in Int /\ 0 - adjustment \in 0..N
    BY DEF TreeInv, Expects
  <2>2. -adjustment = 0 - adjustment
    BY <2>1
  <2> QED  BY <2>1, <2>2 DEF TreeInv, Types, Expects, TypeOK
<1>2. InTree
  BY ClimbFacts DEF InTree, Climbing
<1>3. SearchOnlyBelow
  <2> SUFFICES ASSUME NEW t \in Thread, pc[t] = "try", climb[t].round > 0
      PROVE  At(t) = old[t] \/ (At(t) = Step(old[t], 1) /\ ~Single(climb[t]))
    BY DEF SearchOnlyBelow
  <2>1. pc[t] \in Climbing
    BY DEF Climbing
  <2>2. ~Full(climb[t].cur, climb[t].round)
    <3>1. climb[t].round # 0
      BY <2>1, ClimbFacts
    <3> QED  BY <2>1, <3>1, NodeTaken
  <2> QED  BY <2>1, <2>2, AtFacts, ClimbFacts
<1>4. RootAlone
  BY DEF TreeInv, ClosingRoles, RootAlone, Closing
<1> QED  BY <1>1, <1>2, <1>3, <1>4

(* The bytes stay bytes, the search for a node stays inside the tree, only *)
(* round 0 is searched, and one thread reaches the root, after all others  *)
(* have arrived: TypeOK, InTree, SearchOnlyBelow and RootAlone.            *)
THEOREM TreeSafe ==
  ASSUME TreeAssumption
  PROVE  Spec => [](TypeOK /\ InTree /\ SearchOnlyBelow /\ RootAlone)
<1>1. TreeInv => TypeOK /\ InTree /\ SearchOnlyBelow /\ RootAlone
  BY InvShows
<1>2. Spec => []TreeInv
  BY TreeInvariant
<1> QED  BY <1>1, <1>2, PTL

-----------------------------------------------------------------------------
(* The tree implements the abstract barrier, step by step.                 *)

\* A step that moves no thread into or out of the barrier.
LEMMA StutterStep ==
  ASSUME UNCHANGED history, \A u \in Thread : ModeOf(u)' = ModeOf(u)
  PROVE  UNCHANGED Abs!absVars
BY DEF Abs!absVars, history

\* What a call and the way to a node change.
LEMMA OutsideStep ==
  ASSUME TreeInv, NEW t \in Thread,
         (\E S \in SUBSET Thread : Call(t, S)) \/ CallDrop(t) \/ LoadPhase(t) \/ Moves(t)
  PROVE  UNCHANGED Abs!absVars /\ \A u \in Thread : pc[u] = "wait" => pc'[u] = "wait"
<1> USE DEF TreeInv, Types, ModeOf
<1>1. ASSUME NEW S \in SUBSET Thread, Call(t, S)
      PROVE  UNCHANGED Abs!absVars /\ \A u \in Thread : pc[u] = "wait" => pc'[u] = "wait"
  BY <1>1, StutterStep DEF Call
<1>2. CASE CallDrop(t)
  BY <1>2, StutterStep DEF CallDrop
<1>3. CASE LoadPhase(t)
  BY <1>3, StutterStep DEF LoadPhase
<1>4. CASE Moves(t)
  BY <1>4, StutterStep DEF Moves, Climbing
<1> QED  BY <1>1, <1>2, <1>3, <1>4

\* The steps of the thread that completes a phase are not seen.
LEMMA CompletesStep ==
  ASSUME TreeInv, NEW t \in Thread, CompletesOn(t)
  PROVE  UNCHANGED Abs!absVars /\ \A u \in Thread : pc[u] = "wait" => pc'[u] = "wait"
<1> USE DEF TreeInv, Types, ModeOf
<1>1. CASE RunCompletion(t)
  BY <1>1, StutterStep DEF RunCompletion
<1>2. CASE AdjustExpected(t)
  BY <1>2, StutterStep DEF AdjustExpected
<1>3. CASE ResetAdjustment(t)
  BY <1>3, StutterStep DEF ResetAdjustment
<1> QED  BY <1>1, <1>2, <1>3 DEF CompletesOn

LEMMA AdvancePhaseStep ==
  ASSUME TreeInv, NEW t \in Thread, AdvancePhase(t)
  PROVE  UNCHANGED Abs!absVars /\ \A u \in Thread : pc[u] = "wait" => pc'[u] = "wait"
<1>1. pc[t] = "advance" /\ pc[t] \in Closing /\ pc[t] \in Calling
  BY DEF AdvancePhase, Closing, Calling
<1>2. /\ \A u \in Thread \ {t} : pc[u] \in {"wait", "landed", "gone"}
      /\ todo[t] = {t}
  BY <1>1 DEF TreeInv, ClosingRoles
<1>3. Served(t) = t
  BY <1>1, <1>2, ServedMissing
<1>4. /\ pc' = [u \in Thread |-> IF u \in team[t] THEN IF quit[t] THEN "gone" ELSE "wait" ELSE pc[u]]
      /\ UNCHANGED <<quit, history>>
  BY <1>3 DEF AdvancePhase, Arrived, Return
<1>5. /\ t \in team[t] /\ (quit[t] => team[t] = {t})
      /\ \A u \in team[t] \ {t} : pc[u] = "landed"
      /\ \A u \in Thread : pc[u] = "landed" => ~quit[u]
  BY <1>1, <1>2 DEF TreeInv, Teams
<1>6. \A u \in Thread : ModeOf(u)' = ModeOf(u)
  <2> SUFFICES ASSUME NEW u \in Thread PROVE ModeOf(u)' = ModeOf(u)
    OBVIOUS
  <2>1. CASE u = t
    BY <2>1, <1>1, <1>4, <1>5 DEF ModeOf
  <2>2. CASE u # t
    BY <2>2, <1>2, <1>4, <1>5 DEF ModeOf
  <2> QED  BY <2>1, <2>2
<1>7. \A u \in Thread : pc[u] = "wait" => pc'[u] = "wait"
  BY <1>1, <1>4, <1>5
<1> QED  BY <1>4, <1>6, <1>7, StutterStep

\* An arrival that is not the last of the phase.
LEMMA ArrivesStep ==
  ASSUME TreeInv, NEW t \in Thread, Arrives(t)
  PROVE  Abs!AbsNext /\ \A u \in Thread : pc[u] = "wait" => pc'[u] = "wait"
<1>0. PICK v : v = Served(t)
  OBVIOUS
<1>1. Marks1(t) /\ arrived \cup {v} # members
  BY <1>0 DEF Arrives
<1>2. Quiet /\ v \in members \ arrived
  BY <1>0, <1>1, ArrivesRoles
<1>3. pc[t] \in Climbing /\ pc[t] \in Calling
  BY <1>1 DEF Marks1, Calling
<1>4. /\ v \in todo[t] /\ v \in Thread /\ (v = t <=> todo[t] = {t})
      /\ (v # t => pc[v] = "lane" /\ ~quit[t])
  BY <1>0, <1>3, ServedMissing
<1>5. /\ t \in todo[t] /\ t \in team[t] /\ (quit[t] => team[t] = {t})
      /\ \A u \in team[t] \ todo[t] : pc[u] = "landed"
      /\ \A u \in Thread : pc[u] \in {"lane", "landed"} => ~quit[u]
  BY <1>3 DEF TreeInv, Teams
<1>6. /\ at' = [u \in Thread |-> IF u \in {v} THEN phase ELSE at[u]]
      /\ arrived' = arrived \cup {v} /\ leaving' = leaving \cup (IF quit[t] THEN {t} ELSE {})
      /\ phase' = phase /\ members' = members /\ quit' = quit
  BY <1>0, <1>1 DEF Marks1, Note, Record
<1>7. /\ v = t => pc' = [u \in Thread |-> IF u \in team[t] THEN IF quit[t] THEN "gone" ELSE "wait" ELSE pc[u]]
      /\ v # t => pc' = [pc EXCEPT ![t] = "start", ![v] = "landed"]
  BY <1>0, <1>1 DEF Marks1, Arrived, Return
<1>8. \A u \in Thread : ModeOf(u)' = IF u = v THEN (IF quit[t] THEN "gone" ELSE "held") ELSE ModeOf(u)
  <2>1. CASE v = t
    <3>1. \A u \in team[t] \ {t} : pc[u] = "landed" /\ ~quit[u] /\ ~quit[t]
      BY <2>1, <1>4, <1>5 DEF TreeInv, Types
    <3> QED  BY <2>1, <3>1, <1>5, <1>6, <1>7 DEF ModeOf
  <2>2. CASE v # t
    <3>1. ~quit[v] /\ ~quit[t]
      BY <2>2, <1>4, <1>5
    <3>2. \A u \in Thread : pc'[u] = IF u = v THEN "landed" ELSE IF u = t THEN "start" ELSE pc[u]
      BY <2>2, <1>4, <1>7 DEF TreeInv, Types
    <3> QED  BY <2>2, <3>1, <3>2, <1>3, <1>6 DEF ModeOf, Climbing
  <2> QED  BY <2>1, <2>2
<1>9. ModeOf(v) = "run"
  BY <1>3, <1>4 DEF ModeOf, Climbing
<1>10. \A u \in Thread : pc[u] = "wait" => pc'[u] = "wait"
  <2>1. CASE v = t
    <3>1. \A u \in team[t] : pc[u] # "wait"
      BY <2>1, <1>3, <1>4, <1>5 DEF Climbing
    <3> QED  BY <2>1, <3>1, <1>7
  <2>2. CASE v # t
    BY <2>2, <1>3, <1>4, <1>7 DEF Climbing, TreeInv, Types
  <2> QED  BY <2>1, <2>2
<1>11. CASE quit[t]
  <2>1. v = t
    BY <1>4, <1>11
  <2>2. Abs!Account({t}, {t})
    BY <1>1, <1>6, <1>11, <2>1 DEF Abs!Account
  <2>3. [u \in Thread |-> ModeOf(u)]' = [[u \in Thread |-> ModeOf(u)] EXCEPT ![t] = "gone"]
    BY <1>8, <1>11, <2>1
  <2>4. Abs!AbsDrop(t)
    BY <1>2, <1>9, <2>1, <2>2, <2>3 DEF Abs!AbsDrop
  <2> QED  BY <2>4, <1>10 DEF Abs!AbsNext
<1>12. CASE ~quit[t]
  <2>1. Abs!Account({v}, {})
    BY <1>1, <1>6, <1>12 DEF Abs!Account
  <2>2. [u \in Thread |-> ModeOf(u)]'
          = [u \in Thread |-> IF u \in {v} THEN "held" ELSE [w \in Thread |-> ModeOf(w)][u]]
    BY <1>8, <1>12
  <2>3. Abs!AbsArrive({v})
    BY <1>2, <1>4, <1>9, <2>1, <2>2 DEF Abs!AbsArrive
  <2> QED  BY <2>3, <1>4, <1>10 DEF Abs!AbsNext
<1> QED  BY <1>11, <1>12

\* The last arrival.
LEMMA ClosesStep ==
  ASSUME TreeInv, NEW t \in Thread, Closes(t)
  PROVE  Abs!AbsNext /\ \A u \in Thread : pc[u] = "wait" => pc'[u] = "wait"
<1>1. /\ pc[t] \in {"start", "try", "second"} /\ members \ arrived = {t} /\ todo[t] = {t}
      /\ pc' = [pc EXCEPT ![t] = "complete"] /\ quit' = quit /\ Note(t, TRUE)
  BY DEF Closes
<1>2. Served(t) = t
  BY <1>1, ServedMissing DEF Calling, Climbing
<1>3. /\ at' = [u \in Thread |-> IF u \in {t} THEN phase ELSE at[u]]
      /\ phase' = phase + 1 /\ arrived' = {} /\ leaving' = {}
      /\ members' = members \ (leaving \cup (IF quit[t] THEN {t} ELSE {}))
  BY <1>1, <1>2 DEF Note, Record
<1>4. arrived \cup {t} = members
  <2>1. Quiet
    BY <1>1, OnTheWay
  <2> QED  BY <1>1, <2>1 DEF TreeInv, OpenRoles
<1>5. pc'[t] = "complete" /\ \A u \in Thread \ {t} : pc'[u] = pc[u]
  BY <1>1 DEF TreeInv, Types
<1>6. /\ ModeOf(t) = "run" /\ ModeOf(t)' = (IF quit[t] THEN "gone" ELSE "held")
      /\ \A u \in Thread \ {t} : ModeOf(u)' = ModeOf(u)
  BY <1>1, <1>5 DEF ModeOf
<1>7. \A u \in Thread : pc[u] = "wait" => pc'[u] = "wait"
  BY <1>1, <1>5
<1>8. CASE quit[t]
  <2>1. Abs!Account({t}, {t})
    BY <1>3, <1>4, <1>8 DEF Abs!Account
  <2>2. [u \in Thread |-> ModeOf(u)]' = [[u \in Thread |-> ModeOf(u)] EXCEPT ![t] = "gone"]
    BY <1>6, <1>8
  <2>3. Abs!AbsDrop(t)
    BY <1>1, <1>6, <2>1, <2>2 DEF Abs!AbsDrop
  <2> QED  BY <2>3, <1>7 DEF Abs!AbsNext
<1>9. CASE ~quit[t]
  <2>1. Abs!Account({t}, {})
    BY <1>3, <1>4, <1>9 DEF Abs!Account
  <2>2. [u \in Thread |-> ModeOf(u)]'
          = [u \in Thread |-> IF u \in {t} THEN "held" ELSE [w \in Thread |-> ModeOf(w)][u]]
    BY <1>6, <1>9
  <2>3. Abs!AbsArrive({t})
    BY <1>1, <1>6, <2>1, <2>2 DEF Abs!AbsArrive
  <2> QED  BY <2>3, <1>7 DEF Abs!AbsNext
<1> QED  BY <1>8, <1>9

\* A release.
LEMMA WaitTokenStep ==
  ASSUME TreeInv, NEW t \in Thread, WaitToken(t)
  PROVE  /\ Abs!AbsNext /\ at[t] < phase /\ completions = phase
         /\ \A u \in Thread \ {t} : pc[u] = "wait" => pc'[u] = "wait"
<1>1. at[t] < phase /\ completions = phase
  BY WaitRoles
<1>2. pc[t] = "wait" /\ ~quit[t] /\ UNCHANGED <<quit, history>>
  BY DEF WaitToken, TreeInv, Teams
<1>3. pc'[t] = "idle" /\ \A u \in Thread \ {t} : pc'[u] = pc[u]
  BY DEF WaitToken, TreeInv, Types
<1>4. ModeOf(t) = "held" /\ ModeOf(t)' = "run" /\ \A u \in Thread \ {t} : ModeOf(u)' = ModeOf(u)
  BY <1>2, <1>3 DEF ModeOf
<1>5. [u \in Thread |-> ModeOf(u)]' = [[u \in Thread |-> ModeOf(u)] EXCEPT ![t] = "run"]
  BY <1>4
<1>6. Abs!AbsRelease(t)
  BY <1>1, <1>2, <1>4, <1>5 DEF Abs!AbsRelease, history
<1> QED  BY <1>1, <1>3, <1>6 DEF Abs!AbsNext

LEMMA StepImplements ==
  ASSUME TreeAssumption, TreeInv, NEW t \in Thread, ThreadStep(t)
  PROVE  /\ [Abs!AbsNext]_(Abs!absVars)
         /\ \A u \in Thread : pc[u] = "wait" /\ pc'[u] = "idle" => at[u] < phase /\ completions = phase
<1>1. CASE (\E S \in SUBSET Thread : Call(t, S)) \/ CallDrop(t) \/ LoadPhase(t) \/ Moves(t)
  BY <1>1, OutsideStep
<1>2. CASE CompletesOn(t)
  BY <1>2, CompletesStep
<1>3. CASE AdvancePhase(t)
  BY <1>3, AdvancePhaseStep
<1>4. CASE Arrives(t)
  BY <1>4, ArrivesStep
<1>5. CASE Closes(t)
  BY <1>5, ClosesStep
<1>6. CASE WaitToken(t)
  BY <1>6, WaitTokenStep
<1> QED  BY <1>1, <1>2, <1>3, <1>4, <1>5, <1>6, Kinds

(* The tree barrier implements the abstract barrier: a phase ends at the   *)
(* arrival that reaches the root, which is the last one, and at no other.  *)
THEOREM TreeImplements ==
  ASSUME TreeAssumption
  PROVE  Spec => Implements
<1>1. Init => Abs!AbsInit(Thread)
  BY DEF Init, InitHistory, ModeOf, Abs!AbsInit
<1>2. TreeInv /\ [Next]_vars => [Abs!AbsNext]_(Abs!absVars)
  <2>1. UNCHANGED vars => UNCHANGED Abs!absVars
    BY DEF vars, history, ModeOf, Abs!absVars
  <2> QED  BY <2>1, StepImplements DEF Next, Finished
<1>3. Spec => []TreeInv
  BY TreeInvariant
<1> QED  BY <1>1, <1>2, <1>3, PTL DEF Spec, Implements, Abs!AbsSpec

(* A token is accepted only after the completion function of its phase has *)
(* run, which it does once per phase.                                      *)
THEOREM TreeTokensAfterCompletion ==
  ASSUME TreeAssumption
  PROVE  Spec => ReleasedAfterCompletion
<1>1. TreeInv /\ [Next]_vars =>
        [\A t \in Thread : pc[t] = "wait" /\ pc'[t] = "idle" => at[t] < phase /\ completions = phase]_vars
  BY StepImplements DEF Next, Finished
<1>2. Spec => []TreeInv
  BY TreeInvariant
<1> QED  BY <1>1, <1>2, PTL DEF Spec, ReleasedAfterCompletion

=============================================================================
