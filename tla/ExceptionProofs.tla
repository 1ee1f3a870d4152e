--------------------------- MODULE ExceptionProofs ---------------------------
(***************************************************************************)
(* The inductive invariant of the exception objects of CxaException, for   *)
(* any threads, exceptions and bounds, with and without ARM EHABI, and     *)
(* what it shows.  ExceptionSuiteProofs takes it to the instances that the *)
(* suite checks.                                                           *)
(*                                                                         *)
(* The steps are sorted by what they do to the frames of their thread (a   *)
(* frame is pushed, replaced or removed); a lemma for each kind of step    *)
(* keeps each part of the invariant, and the lemmas of the operations show *)
(* of which kind each is.                                                  *)
(***************************************************************************)
EXTENDS CxaException, FiniteSetTheorems, SequenceTheorems, WellFoundedInduction, TLAPS

Ours == Primaries \cup Dependents

\* ExceptionAssumption, and no cleanup runs throw; of the exception that is in
\* flight: when it does, the sign of handlerCount says that nobody unwinds it
\* any more and the exception dies in flight.
ObjectsAssumption ==
  /\ IsFiniteSet(Dependents)
  /\ Primaries \cap Dependents = {} /\ Ours \cap Foreigns = {}
  /\ NULL \notin Objects
  /\ RethrowInCleanup = FALSE
  /\ EHABI \in BOOLEAN /\ MaxPtrs \in Nat /\ MaxDepth \in Nat /\ MaxForeign \in Nat

-----------------------------------------------------------------------------
(***************************************************************************)
(* The invariant, of the frames C, the headers H, the tops q of the caught *)
(* stacks, the exception_ptrs P, the counts N of uncaught exceptions, those *)
(* M that another runtime caught, and the tops g of the propagating stacks. *)
(***************************************************************************)
Flight == {"search", "raise", "cleanup"}
Kinds == Flight \cup {"construct", "handler", "destroy"}

Header == [state : {"free", "raw", "live", "dying"}, refs : Int, handlers : Int,
           next : Objects \cup {NULL}, primary : Primaries \cup {NULL},
           props : Int, nextProp : Objects \cup {NULL}]

Frames == [k : Kinds, e : Objects]

CxaTypeOK ==
  /\ hdr \in [Objects -> Header]
  /\ caught \in [Threads -> Objects \cup {NULL}]
  /\ uncaught \in [Threads -> Int]
  /\ propagating \in [Threads -> Objects \cup {NULL}]
  /\ ctl \in [Threads -> Seq(Frames)]
  /\ ptrs \in [Primaries -> Nat]
  /\ foreignCaught \in [Threads -> Nat]
  /\ terminated \in BOOLEAN

\* What a frame says about the state of its exception.
StateOfFrame(k) == CASE k = "construct" -> "raw" [] k = "destroy" -> "dying" [] OTHER -> "live"

FramesMatch(C, H) ==
  \A t \in Threads : \A i \in DOMAIN C[t] :
    /\ C[t][i].k # "handler" \/ C[t][i].e \in Ours => H[C[t][i].e].state = StateOfFrame(C[t][i].k)
    /\ C[t][i].k \in {"construct", "destroy"} => C[t][i].e \in Primaries

\* An exception of this runtime is on one thread only, and at most one frame
\* of an exception is not one of its handlers.
OnePlace(C) ==
  \A t, u \in Threads : \A i \in DOMAIN C[t], j \in DOMAIN C[u] :
    C[t][i].e = C[u][j].e =>
      /\ C[t][i].e \in Ours => t = u
      /\ C[t][i].k # "handler" /\ C[u][j].k # "handler" => t = u /\ i = j

\* The frames of a thread with native handlers, with foreign ones, with
\* cleanups, and the flights of native exceptions.
NativeIn(s) == {i \in DOMAIN s : s[i].k = "handler" /\ s[i].e \in Ours}
ForeignIn(s) == {i \in DOMAIN s : s[i].k = "handler" /\ s[i].e \in Foreigns}
CleanupsIn(s) == {i \in DOMAIN s : s[i].k = "cleanup"}
FlightsIn(s) == {i \in DOMAIN s : s[i].k \in Flight /\ s[i].e \in Ours}

\* i is the element of S before j, or the first one, or the last one.
Before(S, i, j) == i \in S /\ i < j /\ \A k \in S : k < j => k <= i
IsFirst(S, i) == i \in S /\ \A k \in S : i <= k
IsLast(S, i) == i \in S /\ \A k \in S : k <= i

\* The caught stack is the list of the native handlers, innermost first, each
\* exception once; below them there may be one foreign exception.
CaughtInOrder(C, H, q) ==
  \A t \in Threads :
    /\ \A j \in NativeIn(C[t]) :
         /\ IsLast(NativeIn(C[t]), j) => q[t] = C[t][j].e
         /\ IsFirst(NativeIn(C[t]), j) => H[C[t][j].e].next \in Foreigns \cup {NULL}
         /\ \A i \in NativeIn(C[t]) : Before(NativeIn(C[t]), i, j) =>
              C[t][i].e = C[t][j].e \/ H[C[t][j].e].next = C[t][i].e
    /\ NativeIn(C[t]) = {} => q[t] \in Foreigns \cup {NULL}

\* The handlers of an exception follow each other, also when it is in flight
\* again.
HandlersTogether(C) ==
  \A t \in Threads : \A i \in NativeIn(C[t]), j \in DOMAIN C[t] :
    C[t][j].e = C[t][i].e =>
      /\ C[t][j].k \in Flight => i < j
      /\ C[t][j].k \in Flight \cup {"handler"} =>
           \A k \in NativeIn(C[t]) : i < k /\ k < j => C[t][k].e = C[t][i].e

\* The foreign exception at the end of the caught stack of t.
Holds(C, H, q, t, f) == q[t] = f \/ \E j \in NativeIn(C[t]) : H[C[t][j].e].next = f

ForeignHeld(C, H, q) ==
  \A t \in Threads :
    /\ \A f \in Foreigns : Holds(C, H, q, t, f) =>
         /\ H[f].state = "live" /\ ForeignIn(C[t]) # {}
         /\ \A u \in Threads : /\ Holds(C, H, q, u, f) => u = t
                               /\ \A i \in DOMAIN C[u] : C[u][i].e = f => C[u][i].k = "handler"
    /\ \A i \in ForeignIn(C[t]), j \in NativeIn(C[t]) : i < j

\* handlerCount, negative while the exception is rethrown.
HandlersIn(s, e) == {i \in DOMAIN s : s[i].k = "handler" /\ s[i].e = e}
FliesIn(s, e) == \E i \in DOMAIN s : s[i].e = e /\ s[i].k \in Flight

HandlerCount(C, H, e) ==
  /\ \A t \in Threads : HandlersIn(C[t], e) # {} =>
       H[e].handlers = IF FliesIn(C[t], e) THEN -Cardinality(HandlersIn(C[t], e))
                                           ELSE Cardinality(HandlersIn(C[t], e))
  /\ (\A t \in Threads : HandlersIn(C[t], e) = {}) => H[e].handlers = 0

HandlerCounts(C, H) == \A e \in Ours : HandlerCount(C, H, e)

\* Owners; an exception that is not alive has none.
DependentsOf(H, p) == {d \in Dependents : H[d].primary = p}
Used(C, e) == \E t \in Threads : FliesIn(C[t], e) \/ HandlersIn(C[t], e) # {}
One(b) == IF b THEN 1 ELSE 0

RefsCounted(C, H, P) ==
  /\ \A p \in Primaries :
       /\ H[p].refs = P[p] + Cardinality(DependentsOf(H, p)) + One(Used(C, p))
       /\ H[p].state = "live" <=> H[p].refs > 0
  /\ \A d \in Dependents :
       /\ H[d].state = "live" => H[d].primary \in Primaries /\ Used(C, d)
       /\ H[d].state # "live" => H[d].state = "free" /\ H[d].primary = NULL

FlightsCounted(C, N, M) ==
  \A t \in Threads : N[t] = Cardinality(FlightsIn(C[t])) + M[t]

\* The propagating stack is the list of the cleanups, innermost first.
InCleanup(C, e) == \E t \in Threads : \E i \in CleanupsIn(C[t]) : C[t][i].e = e

Propagates(C, H, g) ==
  /\ \A e \in Ours : H[e].props = One(InCleanup(C, e))
  /\ \A t \in Threads :
       /\ \A j \in CleanupsIn(C[t]) :
            /\ IsLast(CleanupsIn(C[t]), j) => g[t] = C[t][j].e
            /\ IsFirst(CleanupsIn(C[t]), j) /\ C[t][j].e \in Ours => H[C[t][j].e].nextProp = NULL
            /\ \A i \in CleanupsIn(C[t]) : Before(CleanupsIn(C[t]), i, j) =>
                 C[t][j].e \in Ours /\ H[C[t][j].e].nextProp = C[t][i].e
       /\ CleanupsIn(C[t]) = {} => g[t] = NULL

\* The part of the invariant that is about places: which exception is in which
\* frame, in which state, and in which order.
Placed(C, H, q) ==
  /\ FramesMatch(C, H)
  /\ OnePlace(C)
  /\ CaughtInOrder(C, H, q)
  /\ HandlersTogether(C)
  /\ ForeignHeld(C, H, q)
  /\ HandlerCounts(C, H)

CxaInv ==
  /\ CxaTypeOK
  /\ Placed(ctl, hdr, caught)
  /\ RefsCounted(ctl, hdr, ptrs)
  /\ FlightsCounted(ctl, uncaught, foreignCaught)
  /\ EHABI => Propagates(ctl, hdr, propagating)

-----------------------------------------------------------------------------
(***************************************************************************)
(* What a step does to the frames s of its thread, whose last index is n:  *)
(* a frame is pushed, the top one is replaced, the top one is removed, or  *)
(* the one below the top.                                                  *)
(***************************************************************************)
Ends(s, n) == DOMAIN s \subseteq Int /\ n \in DOMAIN s /\ \A i \in DOMAIN s : i <= n

Pushes(s, r, f, n) ==
  /\ DOMAIN s \subseteq Int /\ n \in Int /\ \A i \in DOMAIN s : i < n
  /\ DOMAIN r = DOMAIN s \cup {n}
  /\ r[n] = f /\ \A i \in DOMAIN s : r[i] = s[i]

Retops(s, r, f, n) ==
  /\ Ends(s, n) /\ DOMAIN r = DOMAIN s
  /\ r[n] = f /\ \A i \in DOMAIN s \ {n} : r[i] = s[i]

Removes(s, r, h, n) ==
  /\ Ends(s, n) /\ DOMAIN r = DOMAIN s \ {n}
  /\ h \in DOMAIN s /\ (h = n \/ h = n - 1)
  /\ h # n => r[h] = s[n]
  /\ \A i \in DOMAIN s \ {n, h} : r[i] = s[i]

\* A frame is pushed.
LEMMA PushView ==
  ASSUME NEW s \in Seq(Frames), NEW f \in Frames
  PROVE  Append(s, f) \in Seq(Frames) /\ Pushes(s, Append(s, f), f, Len(s) + 1)
BY DEF Pushes

\* The first m frames.
LEMMA Shorter ==
  ASSUME NEW s \in Seq(Frames), NEW m \in Nat, m <= Len(s)
  PROVE  /\ SubSeq(s, 1, m) \in Seq(Frames) /\ Len(SubSeq(s, 1, m)) = m
         /\ \A i \in 1 .. m : SubSeq(s, 1, m)[i] = s[i]
<1>1. \A i \in 1 .. m : s[i] \in Frames
  OBVIOUS
<1>2. /\ SubSeq(s, 1, m) \in Seq(Frames)
      /\ Len(SubSeq(s, 1, m)) = IF 1 <= m THEN m - 1 + 1 ELSE 0
      /\ \A i \in 1 .. m - 1 + 1 : SubSeq(s, 1, m)[i] = s[1 + i - 1]
  BY <1>1, SubSeqProperties
<1> QED  BY <1>2

\* The top frame is replaced.
LEMMA RetopView ==
  ASSUME NEW s \in Seq(Frames), s # <<>>, NEW f \in Frames
  PROVE  /\ Append(Front(s), f) \in Seq(Frames) /\ Retops(s, Append(Front(s), f), f, Len(s))
         /\ Last(s) = s[Len(s)] /\ Last(s) \in Frames /\ Ends(s, Len(s))
<1>0. Len(s) - 1 \in Nat /\ Len(s) - 1 <= Len(s)
  OBVIOUS
<1>1. Front(s) \in Seq(Frames) /\ Len(Front(s)) = Len(s) - 1
  BY <1>0, Shorter DEF Front
<1>2. \A i \in 1 .. Len(s) - 1 : Front(s)[i] = s[i]
  BY <1>0, Shorter DEF Front
<1>3. Append(Front(s), f) \in Seq(Frames) /\ Len(Append(Front(s), f)) = Len(s)
  BY <1>1
<1>4. Append(Front(s), f)[Len(s)] = f /\ \A i \in 1 .. Len(s) - 1 : Append(Front(s), f)[i] = s[i]
  BY <1>1, <1>2
<1> QED  BY <1>3, <1>4 DEF Retops, Ends, Last

\* The top frame is removed.
LEMMA PopView ==
  ASSUME NEW s \in Seq(Frames), s # <<>>
  PROVE  Front(s) \in Seq(Frames) /\ Removes(s, Front(s), Len(s), Len(s))
BY DEF Removes, Ends, Front

\* The frame below the top is removed: the unwinder leaves it.
LEMMA DropView ==
  ASSUME NEW s \in Seq(Frames), Len(s) > 1,
         NEW r, r = Append(SubSeq(s, 1, Len(s) - 2), Last(s))
  PROVE  /\ r \in Seq(Frames) /\ Removes(s, r, Len(s) - 1, Len(s))
         /\ s[Len(s) - 1] \in Frames
<1>1. SubSeq(s, 1, Len(s) - 2) \in Seq(Frames) /\ Len(SubSeq(s, 1, Len(s) - 2)) = Len(s) - 2
  <2>1. Len(s) - 2 \in Nat /\ Len(s) - 2 <= Len(s)
    OBVIOUS
  <2> QED  BY <2>1, Shorter
<1>2. Last(s) = s[Len(s)] /\ Last(s) \in Frames
  BY DEF Last
<1>3. r \in Seq(Frames) /\ Len(r) = Len(s) - 1 /\ r[Len(s) - 1] = s[Len(s)]
  BY <1>1, <1>2
<1>4. \A i \in 1 .. Len(s) - 2 : r[i] = s[i]
  BY <1>1, <1>2
<1> QED  BY <1>3, <1>4 DEF Removes, Ends

\* A set of frames has a last one, and one before every other than the first.
LEMMA LastExists ==
  ASSUME NEW n \in Nat, NEW S \in SUBSET (1 .. n), S # {}
  PROVE  \E j \in S : IsLast(S, j)
<1> DEFINE R == {n - i : i \in S}
           Less == OpToRel(<, Nat)
<1>1. IsWellFoundedOn(Less, Nat)
  BY NatLessThanWellFounded
<1>2. \A y, z \in Nat : z < y => <<z, y>> \in Less
  BY DEF OpToRel
<1>3. R \subseteq Nat /\ R # {}
  <2>1. \A i \in S : n - i \in Nat
    OBVIOUS
  <2> QED  BY <2>1
<1> HIDE DEF Less
<1>4. PICK m \in R : \A y \in R : ~(<<y, m>> \in Less)
  BY <1>1, <1>3, WFMin
<1>5. PICK j \in S : m = n - j
  OBVIOUS
<1>6. ASSUME NEW k \in S PROVE k <= j
  <2>1. n - k \in R /\ n - k \in Nat /\ m \in Nat
    BY <1>3
  <2>2. ~(n - k < m)
    BY <2>1, <1>2, <1>4
  <2> QED  BY <2>1, <2>2, <1>5
<1> QED  BY <1>6 DEF IsLast

\* Every frame of a set but the first has one before it.
LEMMA BeforeExists ==
  ASSUME NEW n \in Nat, NEW S \in SUBSET (1 .. n), NEW j \in S, ~IsFirst(S, j)
  PROVE  \E i \in S : Before(S, i, j)
<1> DEFINE R == {i \in S : i < j}
<1>1. PICK k \in S : ~(j <= k)
  BY DEF IsFirst
<1>2. R \in SUBSET (1 .. n) /\ k \in R
  <2>1. j \in Int /\ k \in Int /\ S \subseteq 1 .. n
    OBVIOUS
  <2>2. k < j
    BY <1>1, <2>1
  <2> QED  BY <2>1, <2>2
<1>3. PICK i \in R : IsLast(R, i)
  BY <1>2, LastExists
<1>4. i \in S /\ i < j /\ \A l \in S : l < j => l <= i
  BY <1>3 DEF IsLast
<1> QED  BY <1>4 DEF Before

-----------------------------------------------------------------------------
\* Only the thread t moves.
Moves(C, D, t) ==
  /\ C \in [Threads -> Seq(Frames)] /\ D \in [Threads -> Seq(Frames)]
  /\ \A u \in Threads \ {t} : D[u] = C[u]

\* A thread with native handlers has an innermost one.
LEMMA NativeLast ==
  ASSUME NEW C \in [Threads -> Seq(Frames)], NEW t \in Threads, NativeIn(C[t]) # {}
  PROVE  \E j \in NativeIn(C[t]) : IsLast(NativeIn(C[t]), j)
<1>1. Len(C[t]) \in Nat /\ NativeIn(C[t]) \in SUBSET (1 .. Len(C[t]))
  BY DEF NativeIn
<1> QED  BY <1>1, LastExists

\* A native handler that is not the outermost has one around it.
LEMMA NativeBefore ==
  ASSUME NEW C \in [Threads -> Seq(Frames)], NEW t \in Threads, NEW j \in NativeIn(C[t]),
         ~IsFirst(NativeIn(C[t]), j)
  PROVE  \E i \in NativeIn(C[t]) : Before(NativeIn(C[t]), i, j)
<1>1. Len(C[t]) \in Nat /\ NativeIn(C[t]) \in SUBSET (1 .. Len(C[t]))
  BY DEF NativeIn
<1> QED  BY <1>1, BeforeExists

\* What a frame is made of.
LEMMA FrameOf ==
  ASSUME NEW C \in [Threads -> Seq(Frames)], NEW t \in Threads, NEW i \in DOMAIN C[t]
  PROVE  /\ C[t][i] \in Frames /\ C[t][i].k \in Kinds /\ C[t][i].e \in Objects /\ i \in Int
         /\ C[t][i] = [k |-> C[t][i].k, e |-> C[t][i].e]
<1>1. C[t] \in Seq(Frames) /\ i \in 1 .. Len(C[t]) /\ Len(C[t]) \in Nat
  OBVIOUS
<1>2. C[t][i] \in Frames
  BY <1>1
<1> QED  BY <1>1, <1>2 DEF Frames

\* The handlers stay where they are.
SameHandlers(C, D) ==
  \A u \in Threads :
    /\ NativeIn(D[u]) = NativeIn(C[u]) /\ ForeignIn(D[u]) = ForeignIn(C[u])
    /\ \A i \in NativeIn(C[u]) \cup ForeignIn(C[u]) : D[u][i] = C[u][i]

\* What the caught stacks are made of does not change, or t's end is cut off.
TopsKept(C, q, z) == \A u \in Threads : z[u] = q[u] \/ (z[u] = NULL /\ NativeIn(C[u]) = {})
NextKept(C, H, G) == \A u \in Threads : \A j \in NativeIn(C[u]) : G[C[u][j].e].next = H[C[u][j].e].next
HeldKept(C, D, H, G, z) ==
  \A u \in Threads, g \in Foreigns : Holds(C, H, z, u, g) =>
    /\ G[g].state = H[g].state
    /\ \A v \in Threads : \A i \in DOMAIN D[v] : D[v][i].e = g => D[v][i].k = "handler"

\* A step that leaves the handlers alone leaves the caught stacks in order.
LEMMA Quiet ==
  ASSUME ObjectsAssumption,
         NEW C \in [Threads -> Seq(Frames)], NEW D \in [Threads -> Seq(Frames)],
         NEW H, NEW G, NEW q, NEW z,
         SameHandlers(C, D), CaughtInOrder(C, H, q), ForeignHeld(C, H, q),
         TopsKept(C, q, z), NextKept(C, H, G), HeldKept(C, D, H, G, z)
  PROVE  CaughtInOrder(D, G, z) /\ ForeignHeld(D, G, z)
<1>1. \A u \in Threads : NativeIn(D[u]) = NativeIn(C[u]) /\ ForeignIn(D[u]) = ForeignIn(C[u])
  BY DEF SameHandlers
<1>2. \A u \in Threads : \A j \in NativeIn(C[u]) :
        /\ D[u][j] = C[u][j] /\ C[u][j].e \in Ours
        /\ G[C[u][j].e].next = H[C[u][j].e].next
  BY DEF SameHandlers, NextKept, NativeIn
<1>3. CaughtInOrder(D, G, z)
  <2> SUFFICES ASSUME NEW u \in Threads
               PROVE
    /\ \A j \in NativeIn(D[u]) :
         /\ IsLast(NativeIn(D[u]), j) => z[u] = D[u][j].e
         /\ IsFirst(NativeIn(D[u]), j) => G[D[u][j].e].next \in Foreigns \cup {NULL}
         /\ \A i \in NativeIn(D[u]) : Before(NativeIn(D[u]), i, j) =>
              D[u][i].e = D[u][j].e \/ G[D[u][j].e].next = D[u][i].e
    /\ NativeIn(D[u]) = {} => z[u] \in Foreigns \cup {NULL}
    BY DEF CaughtInOrder
  <2> DEFINE S == NativeIn(C[u])
  <2>1. /\ \A j \in S :
             /\ IsLast(S, j) => q[u] = C[u][j].e
             /\ IsFirst(S, j) => H[C[u][j].e].next \in Foreigns \cup {NULL}
             /\ \A i \in S : Before(S, i, j) => C[u][i].e = C[u][j].e \/ H[C[u][j].e].next = C[u][i].e
        /\ S = {} => q[u] \in Foreigns \cup {NULL}
    BY DEF CaughtInOrder
  <2>2. NativeIn(D[u]) = S /\ \A j \in S : D[u][j].e = C[u][j].e /\ G[D[u][j].e].next = H[C[u][j].e].next
    BY <1>1, <1>2
  <2>3. z[u] = q[u] \/ (z[u] = NULL /\ S = {})
    BY DEF TopsKept
  <2> HIDE DEF S
  <2>4. ASSUME NEW j \in S
        PROVE  /\ IsLast(S, j) => z[u] = D[u][j].e
               /\ IsFirst(S, j) => G[D[u][j].e].next \in Foreigns \cup {NULL}
               /\ \A i \in S : Before(S, i, j) => D[u][i].e = D[u][j].e \/ G[D[u][j].e].next = D[u][i].e
    <3>1. S # {} /\ z[u] = q[u]
      BY <2>3
    <3>2. D[u][j].e = C[u][j].e /\ G[D[u][j].e].next = H[C[u][j].e].next
      BY <2>2
    <3>3. \A i \in S : D[u][i].e = C[u][i].e
      BY <2>2
    <3> QED  BY <2>1, <3>1, <3>2, <3>3
  <2>5. S = {} => z[u] \in Foreigns \cup {NULL}
    BY <2>1, <2>3
  <2> QED  BY <2>2, <2>4, <2>5
<1>4. ForeignHeld(D, G, z)
  <2>1. \A u \in Threads, g \in Foreigns : Holds(D, G, z, u, g) <=> Holds(C, H, z, u, g)
    <3>1. \A u \in Threads, g \in Foreigns :
            (\E j \in NativeIn(D[u]) : G[D[u][j].e].next = g) <=> (\E j \in NativeIn(C[u]) : H[C[u][j].e].next = g)
      <4> TAKE u \in Threads, g \in Foreigns
      <4>1. NativeIn(D[u]) = NativeIn(C[u])
        BY <1>1
      <4>2. \A j \in NativeIn(C[u]) : G[D[u][j].e].next = H[C[u][j].e].next
        BY <1>2
      <4> QED  BY <4>1, <4>2
    <3> QED  BY <3>1 DEF Holds
  <2>2. \A u \in Threads, g \in Foreigns : Holds(C, H, z, u, g) => Holds(C, H, q, u, g)
    BY DEF Holds, TopsKept, ObjectsAssumption, Objects
  <2>3. ASSUME NEW u \in Threads, NEW g \in Foreigns, Holds(D, G, z, u, g)
        PROVE  /\ G[g].state = "live" /\ ForeignIn(D[u]) # {}
               /\ \A v \in Threads : /\ Holds(D, G, z, v, g) => v = u
                                     /\ \A i \in DOMAIN D[v] : D[v][i].e = g => D[v][i].k = "handler"
    <3>1. Holds(C, H, z, u, g) /\ Holds(C, H, q, u, g)
      BY <2>1, <2>2, <2>3
    <3>2. /\ G[g].state = H[g].state
          /\ \A v \in Threads : \A i \in DOMAIN D[v] : D[v][i].e = g => D[v][i].k = "handler"
      BY <3>1 DEF HeldKept
    <3>3. /\ H[g].state = "live" /\ ForeignIn(C[u]) # {}
          /\ \A v \in Threads : Holds(C, H, q, v, g) => v = u
      BY <3>1 DEF ForeignHeld
    <3>4. \A v \in Threads : Holds(D, G, z, v, g) => v = u
      BY <2>1, <2>2, <3>3
    <3> QED  BY <3>2, <3>3, <3>4, <1>1
  <2>4. ASSUME NEW u \in Threads, NEW i \in ForeignIn(D[u]), NEW j \in NativeIn(D[u])
        PROVE  i < j
    BY <1>1 DEF ForeignHeld
  <2> QED  BY <2>3, <2>4 DEF ForeignHeld
<1> QED  BY <1>3, <1>4

\* handlerCount stays right when neither the handlers nor the flights of e change.
LEMMA SameCount ==
  ASSUME NEW C, NEW D, NEW H, NEW G, NEW e, HandlerCount(C, H, e),
         G[e].handlers = H[e].handlers,
         \A u \in Threads : HandlersIn(D[u], e) = HandlersIn(C[u], e),
         \A u \in Threads : HandlersIn(C[u], e) # {} => (FliesIn(D[u], e) <=> FliesIn(C[u], e))
  PROVE  HandlerCount(D, G, e)
BY DEF HandlerCount

\* The headers of the exceptions in S stay as they are.
HeadersKept(S, H, G) ==
  \A e \in S : G[e].state = H[e].state /\ G[e].next = H[e].next /\ G[e].handlers = H[e].handlers

(***************************************************************************)
(* A frame f that is no handler is pushed: nothing but handlers on t have  *)
(* its exception, and when there are any, it is the innermost one.         *)
(***************************************************************************)
Admits(C, H, G, q, z, t, f) ==
  /\ f.k # "search" => f.e \in Primaries
  /\ \A u \in Threads : \A i \in DOMAIN C[u] : C[u][i].e = f.e =>
       C[u][i].k = "handler" /\ (f.e \in Ours => u = t /\ f.k = "search" /\ q[t] = f.e)
  /\ G[f.e].state = StateOfFrame(f.k)
  /\ HeadersKept(Objects \ {f.e}, H, G)
  /\ f.e \in Ours => IF HandlersIn(C[t], f.e) = {}
                        THEN G[f.e].handlers = 0
                        ELSE G[f.e].next = H[f.e].next /\ G[f.e].handlers = -H[f.e].handlers
  /\ \A u \in Threads : z[u] = q[u] \/ (z[u] = NULL /\ NativeIn(C[u]) = {})
  /\ f.e \in Foreigns => \A u \in Threads : ~Holds(C, H, z, u, f.e)

\* The places stay right when a frame is pushed: an exception is allocated, thrown or destroyed.
LEMMA PushPlaced ==
  ASSUME ObjectsAssumption,
         NEW C, NEW D, NEW t \in Threads, NEW n, NEW f \in Frames, NEW H, NEW G, NEW q, NEW z,
         Moves(C, D, t), Pushes(C[t], D[t], f, n),
         Placed(C, H, q),
         f.k \in {"construct", "search", "destroy"},
         Admits(C, H, G, q, z, t, f)
  PROVE  Placed(D, G, z)
<1>0. /\ f.k # "search" => f.e \in Primaries
      /\ \A u \in Threads : \A i \in DOMAIN C[u] : C[u][i].e = f.e =>
           C[u][i].k = "handler" /\ (f.e \in Ours => u = t /\ f.k = "search" /\ q[t] = f.e)
      /\ G[f.e].state = StateOfFrame(f.k)
      /\ \A e \in Objects \ {f.e} :
           G[e].state = H[e].state /\ G[e].next = H[e].next /\ G[e].handlers = H[e].handlers
      /\ f.e \in Ours => IF HandlersIn(C[t], f.e) = {}
                            THEN G[f.e].handlers = 0
                            ELSE G[f.e].next = H[f.e].next /\ G[f.e].handlers = -H[f.e].handlers
      /\ \A u \in Threads : z[u] = q[u] \/ (z[u] = NULL /\ NativeIn(C[u]) = {})
      /\ f.e \in Foreigns => \A u \in Threads : ~Holds(C, H, z, u, f.e)
  BY DEF Admits, HeadersKept
<1> USE <1>0 DEF ObjectsAssumption, Objects, Ours
<1>1. ASSUME NEW u \in Threads, NEW i \in DOMAIN C[u]
      PROVE  /\ i \in DOMAIN D[u] /\ D[u][i] = C[u][i] /\ i \in Int
             /\ C[u][i].e \in Objects /\ C[u][i].k \in Kinds /\ (u = t => i < n)
  BY <1>1, FrameOf DEF Moves, Pushes
<1>2. ASSUME NEW u \in Threads, NEW i \in DOMAIN D[u]
      PROVE  /\ i \in Int
             /\ \/ i \in DOMAIN C[u] /\ D[u][i] = C[u][i]
                \/ u = t /\ i = n /\ D[u][i] = f
  BY <1>2, FrameOf DEF Moves, Pushes
<1>3. f.k \in Kinds /\ f.e \in Objects /\ f.k # "handler" /\ (f.k \in Flight <=> f.k = "search")
  BY DEF Frames, Flight
<1>4. \A u \in Threads : NativeIn(D[u]) = NativeIn(C[u]) /\ ForeignIn(D[u]) = ForeignIn(C[u])
  BY <1>1, <1>2, <1>3 DEF NativeIn, ForeignIn
<1>5. \A u \in Threads, e \in Objects : HandlersIn(D[u], e) = HandlersIn(C[u], e)
  BY <1>1, <1>2, <1>3 DEF HandlersIn
<1>6. FramesMatch(D, G)
  <2> SUFFICES ASSUME NEW u \in Threads, NEW i \in DOMAIN D[u]
               PROVE  /\ D[u][i].k # "handler" \/ D[u][i].e \in Ours =>
                           G[D[u][i].e].state = StateOfFrame(D[u][i].k)
                      /\ D[u][i].k \in {"construct", "destroy"} => D[u][i].e \in Primaries
    BY DEF FramesMatch
  <2>1. CASE u = t /\ i = n /\ D[u][i] = f
    BY <2>1
  <2>2. CASE i \in DOMAIN C[u] /\ D[u][i] = C[u][i]
    <3>1. C[u][i].e = f.e => C[u][i].k = "handler" /\ (f.e \in Ours => f.k = "search")
      BY <2>2
    <3>2. C[u][i].e # f.e => G[C[u][i].e].state = H[C[u][i].e].state
      BY <2>2, <1>1
    <3> QED  BY <2>2, <3>1, <3>2 DEF Placed, FramesMatch, StateOfFrame
  <2> QED  BY <2>1, <2>2, <1>2
<1>7. OnePlace(D)
  <2> SUFFICES ASSUME NEW u \in Threads, NEW v \in Threads, NEW i \in DOMAIN D[u], NEW j \in DOMAIN D[v],
                      D[u][i].e = D[v][j].e
               PROVE  /\ D[u][i].e \in Ours => u = v
                      /\ D[u][i].k # "handler" /\ D[v][j].k # "handler" => u = v /\ i = j
    BY DEF OnePlace
  <2> QED  BY <1>2 DEF Placed, OnePlace
<1>8. \A u \in Threads : \A j \in NativeIn(C[u]) :
        /\ D[u][j] = C[u][j] /\ C[u][j].e \in Ours
        /\ G[C[u][j].e].next = H[C[u][j].e].next
  <2> SUFFICES ASSUME NEW u \in Threads, NEW j \in NativeIn(C[u])
               PROVE  /\ D[u][j] = C[u][j] /\ C[u][j].e \in Ours
                      /\ G[C[u][j].e].next = H[C[u][j].e].next
    OBVIOUS
  <2>1. j \in DOMAIN C[u] /\ C[u][j].k = "handler" /\ C[u][j].e \in Ours
    BY DEF NativeIn
  <2>2. CASE C[u][j].e = f.e
    <3>1. u = t /\ j \in HandlersIn(C[t], f.e)
      BY <2>1, <2>2 DEF HandlersIn
    <3> QED  BY <2>1, <2>2, <3>1, <1>1
  <2>3. CASE C[u][j].e # f.e
    BY <2>1, <2>3, <1>1
  <2> QED  BY <2>2, <2>3
<1>10. HandlersTogether(D)
  <2> SUFFICES ASSUME NEW u \in Threads, NEW i \in NativeIn(C[u]), NEW j \in DOMAIN D[u],
                      D[u][j].e = C[u][i].e
               PROVE  /\ D[u][j].k \in Flight => i < j
                      /\ D[u][j].k \in Flight \cup {"handler"} =>
                           \A k \in NativeIn(C[u]) : i < k /\ k < j => C[u][k].e = C[u][i].e
    BY <1>4, <1>8 DEF HandlersTogether
  <2>1. i \in DOMAIN C[u] /\ C[u][i].e \in Ours /\ C[u][i].k = "handler"
    BY DEF NativeIn
  <2>2. CASE j \in DOMAIN C[u] /\ D[u][j] = C[u][j]
    BY <2>2 DEF Placed, HandlersTogether
  <2>3. CASE u = t /\ j = n /\ D[u][j] = f
    <3>1. i < n /\ q[t] = f.e /\ C[t][i].e = f.e
      BY <2>1, <2>3, <1>1
    <3>2. PICK l \in NativeIn(C[t]) : IsLast(NativeIn(C[t]), l)
      BY <2>3, NativeLast DEF Moves
    <3>3. C[t][l].e = C[t][i].e /\ C[t][l].k = "handler" /\ l \in DOMAIN C[t]
      BY <2>3, <3>1, <3>2 DEF Placed, CaughtInOrder, NativeIn
    <3>4. ASSUME NEW k \in NativeIn(C[t]), i < k
          PROVE  C[t][k].e = C[t][i].e
      <4>1. k \in Int /\ l \in Int /\ k <= l
        BY <3>2, <1>1 DEF IsLast, NativeIn
      <4>2. CASE k < l
        BY <4>2, <3>3, <3>4, <2>3 DEF Placed, HandlersTogether
      <4> QED  BY <4>1, <4>2, <3>3
    <3> QED  BY <2>3, <3>1, <3>4
  <2> QED  BY <2>2, <2>3, <1>2
<1>11. CaughtInOrder(D, G, z) /\ ForeignHeld(D, G, z)
  <2>1. SameHandlers(C, D)
    <3>1. \A u \in Threads : \A i \in NativeIn(C[u]) \cup ForeignIn(C[u]) : D[u][i] = C[u][i]
      BY <1>1 DEF NativeIn, ForeignIn
    <3> QED  BY <1>4, <3>1 DEF SameHandlers
  <2>2. NextKept(C, H, G) /\ TopsKept(C, q, z)
    BY <1>8 DEF NextKept, TopsKept
  <2>3. ASSUME NEW u \in Threads, NEW g \in Foreigns, Holds(C, H, z, u, g)
        PROVE  /\ G[g].state = H[g].state
               /\ \A v \in Threads : \A i \in DOMAIN D[v] : D[v][i].e = g => D[v][i].k = "handler"
    <3>1. g # f.e /\ Holds(C, H, q, u, g)
      BY <2>3 DEF Holds
    <3>2. \A v \in Threads : \A i \in DOMAIN C[v] : C[v][i].e = g => C[v][i].k = "handler"
      BY <3>1 DEF Placed, ForeignHeld
    <3> QED  BY <3>1, <3>2, <1>2
  <2>4. CaughtInOrder(C, H, q) /\ ForeignHeld(C, H, q)
    BY DEF Placed
  <2>5. HeldKept(C, D, H, G, z)
    BY <2>3 DEF HeldKept
  <2>6. C \in [Threads -> Seq(Frames)] /\ D \in [Threads -> Seq(Frames)]
    BY DEF Moves
  <2> QED  BY <2>1, <2>2, <2>4, <2>5, <2>6, Quiet
<1>12. ASSUME NEW e \in Ours
       PROVE  HandlerCount(D, G, e)
  <2>0. HandlerCount(C, H, e) /\ \A u \in Threads : HandlersIn(D[u], e) = HandlersIn(C[u], e)
    BY <1>5 DEF Placed, HandlerCounts
  <2>1. CASE e # f.e
    <3>1. G[e].handlers = H[e].handlers
      BY <2>1
    <3>2. \A u \in Threads : FliesIn(D[u], e) <=> FliesIn(C[u], e)
      BY <2>1, <1>1, <1>2 DEF FliesIn
    <3> QED  BY <2>0, <3>1, <3>2, SameCount
  <2>2. CASE e = f.e
    <3>1. \A u \in Threads : ~FliesIn(C[u], e)
      BY <2>2 DEF FliesIn, Flight
    <3>2. ASSUME NEW u \in Threads, HandlersIn(C[u], e) # {}
          PROVE  /\ FliesIn(D[u], e)
                 /\ H[e].handlers = Cardinality(HandlersIn(C[u], e))
      <4>1. PICK i \in DOMAIN C[u] : C[u][i].e = f.e
        BY <3>2, <2>2 DEF HandlersIn
      <4>2. u = t /\ f.k = "search"
        BY <4>1, <2>2
      <4>3. FliesIn(D[t], e)
        BY <4>2, <2>2 DEF FliesIn, Pushes, Flight
      <4> QED  BY <4>2, <4>3, <3>1, <3>2, <2>0 DEF HandlerCount
    <3>3. (\A u \in Threads : HandlersIn(D[u], e) = {}) => G[e].handlers = 0
      BY <2>0, <2>2
    <3>4. ASSUME NEW u \in Threads, HandlersIn(C[u], e) # {}
          PROVE  G[e].handlers = -H[e].handlers
      <4>1. u = t
        BY <2>2, <3>4 DEF HandlersIn
      <4> QED  BY <2>2, <3>4, <4>1
    <3>5. ASSUME NEW u \in Threads, HandlersIn(D[u], e) # {}
          PROVE  FliesIn(D[u], e) /\ G[e].handlers = -Cardinality(HandlersIn(D[u], e))
      <4>1. HandlersIn(D[u], e) = HandlersIn(C[u], e)
        BY <2>0
      <4>2. FliesIn(D[u], e) /\ H[e].handlers = Cardinality(HandlersIn(C[u], e))
        BY <3>2, <3>5, <4>1
      <4>3. G[e].handlers = -H[e].handlers
        BY <3>4, <3>5, <4>1
      <4> QED  BY <4>1, <4>2, <4>3
    <3> QED  BY <3>3, <3>5 DEF HandlerCount
  <2> QED  BY <2>1, <2>2
<1>13. HandlerCounts(D, G)
  BY <1>12 DEF HandlerCounts
<1> QED  BY <1>6, <1>7, <1>10, <1>11, <1>13 DEF Placed

(***************************************************************************)
(* The top frame, no handler, becomes one in which its exception flies.    *)
(***************************************************************************)
LEMMA RetopPlaced ==
  ASSUME ObjectsAssumption,
         NEW C, NEW D, NEW t \in Threads, NEW n, NEW f \in Frames, NEW H, NEW G, NEW q,
         Moves(C, D, t), Retops(C[t], D[t], f, n),
         Placed(C, H, q),
         C[t][n].k \notin {"handler", "destroy"}, C[t][n].e = f.e, f.k \in Flight,
         G[f.e].state = "live",
         \A e \in Objects \ {f.e} : G[e].state = H[e].state,
         \A e \in Objects : G[e].next = H[e].next /\ G[e].handlers = H[e].handlers
  PROVE  Placed(D, G, q)
<1> USE DEF ObjectsAssumption, Objects, Ours
<1>0. /\ C \in [Threads -> Seq(Frames)] /\ D \in [Threads -> Seq(Frames)]
      /\ n \in DOMAIN C[t] /\ D[t][n] = f /\ f.k # "handler" /\ f.e \in Objects
  BY DEF Moves, Retops, Ends, Frames, Flight
<1>1. ASSUME NEW u \in Threads, NEW i \in DOMAIN C[u]
      PROVE  /\ i \in DOMAIN D[u] /\ i \in Int /\ n \in Int
             /\ C[u][i].e \in Objects /\ C[u][i].k \in Kinds /\ D[u][i].e = C[u][i].e
             /\ D[u][i] = C[u][i] \/ (u = t /\ i = n)
             /\ u = t => i <= n
  <2>1. u # t => D[u] = C[u]
    BY DEF Moves
  <2>2. DOMAIN D[t] = DOMAIN C[t] /\ n \in Int /\ \A j \in DOMAIN C[t] : j <= n /\ (j # n => D[t][j] = C[t][j])
    BY DEF Retops, Ends
  <2>3. i \in Int /\ C[u][i].e \in Objects /\ C[u][i].k \in Kinds
    BY <1>0, <1>1, FrameOf
  <2> QED  BY <1>0, <1>1, <2>1, <2>2, <2>3
<1>2. ASSUME NEW u \in Threads
      PROVE  DOMAIN D[u] = DOMAIN C[u]
  BY DEF Moves, Retops
<1>3. \A u \in Threads : \A i \in DOMAIN C[u] :
        (D[u][i].k = "handler" <=> C[u][i].k = "handler") /\ (C[u][i].k = "handler" => D[u][i] = C[u][i])
  BY <1>0, <1>1
<1>4. \A u \in Threads : NativeIn(D[u]) = NativeIn(C[u]) /\ ForeignIn(D[u]) = ForeignIn(C[u])
  BY <1>1, <1>2, <1>3 DEF NativeIn, ForeignIn
<1>5. \A u \in Threads, e \in Objects : HandlersIn(D[u], e) = HandlersIn(C[u], e)
  BY <1>1, <1>2, <1>3 DEF HandlersIn
<1>6. FramesMatch(D, G)
  <2> SUFFICES ASSUME NEW u \in Threads, NEW i \in DOMAIN C[u]
               PROVE  /\ D[u][i].k # "handler" \/ D[u][i].e \in Ours =>
                           G[D[u][i].e].state = StateOfFrame(D[u][i].k)
                      /\ D[u][i].k \in {"construct", "destroy"} => D[u][i].e \in Primaries
    BY <1>2 DEF FramesMatch
  <2>1. CASE u = t /\ i = n
    BY <2>1, <1>0 DEF Flight, StateOfFrame
  <2>2. CASE ~(u = t /\ i = n) /\ C[u][i].e = f.e
    <3>1. C[u][i].k = "handler" /\ D[u][i] = C[u][i]
      BY <2>2, <1>0, <1>1 DEF Placed, OnePlace
    <3> QED  BY <2>2, <3>1 DEF StateOfFrame
  <2>3. CASE C[u][i].e # f.e
    <3>1. D[u][i] = C[u][i] /\ G[C[u][i].e].state = H[C[u][i].e].state
      BY <2>3, <1>1
    <3> QED  BY <3>1 DEF Placed, FramesMatch
  <2> QED  BY <2>1, <2>2, <2>3
<1>7. OnePlace(D)
  <2> SUFFICES ASSUME NEW u \in Threads, NEW v \in Threads, NEW i \in DOMAIN C[u], NEW j \in DOMAIN C[v],
                      D[u][i].e = D[v][j].e
               PROVE  /\ D[u][i].e \in Ours => u = v
                      /\ D[u][i].k # "handler" /\ D[v][j].k # "handler" => u = v /\ i = j
    BY <1>2 DEF OnePlace
  <2> QED  BY <1>1, <1>3 DEF Placed, OnePlace
<1>8. HandlersTogether(D)
  <2> SUFFICES ASSUME NEW u \in Threads, NEW i \in NativeIn(C[u]), NEW j \in DOMAIN C[u],
                      C[u][j].e = C[u][i].e
               PROVE  /\ D[u][j].k \in Flight => i < j
                      /\ D[u][j].k \in Flight \cup {"handler"} =>
                           \A k \in NativeIn(C[u]) : i < k /\ k < j => C[u][k].e = C[u][i].e
    <3>1. \A u \in Threads : \A i \in NativeIn(C[u]) : D[u][i].e = C[u][i].e
      BY <1>1 DEF NativeIn
    <3> QED  BY <1>1, <1>2, <1>4, <3>1 DEF HandlersTogether
  <2>1. i \in DOMAIN C[u] /\ C[u][i].e \in Ours /\ C[u][i].k = "handler"
    BY DEF NativeIn
  <2>2. CASE D[u][j] = C[u][j]
    BY <2>2 DEF Placed, HandlersTogether
  <2>3. CASE u = t /\ j = n
    <3>1. H[C[u][i].e].state = "live"
      BY <2>1 DEF Placed, FramesMatch, StateOfFrame
    <3>2. C[t][n].k # "construct"
      BY <3>1, <2>3, <1>0 DEF Placed, FramesMatch, StateOfFrame
    <3>3. C[t][n].k \in Flight
      BY <3>2, <1>0, <1>1 DEF Kinds
    <3> QED  BY <3>3, <2>3 DEF Placed, HandlersTogether
  <2> QED  BY <2>2, <2>3, <1>1
<1>9. CaughtInOrder(D, G, q) /\ ForeignHeld(D, G, q)
  <2>1. SameHandlers(C, D)
    BY <1>3, <1>4 DEF SameHandlers, NativeIn, ForeignIn
  <2>2. NextKept(C, H, G) /\ TopsKept(C, q, q)
    BY DEF NativeIn, NextKept, TopsKept
  <2>3. ASSUME NEW u \in Threads, NEW g \in Foreigns, Holds(C, H, q, u, g)
        PROVE  /\ G[g].state = H[g].state
               /\ \A v \in Threads : \A i \in DOMAIN D[v] : D[v][i].e = g => D[v][i].k = "handler"
    <3>1. \A v \in Threads : \A i \in DOMAIN C[v] : C[v][i].e = g => C[v][i].k = "handler"
      BY <2>3 DEF Placed, ForeignHeld
    <3>2. g # f.e
      BY <3>1, <1>0
    <3> QED  BY <3>1, <3>2, <1>1, <1>2, <1>3
  <2>4. CaughtInOrder(C, H, q) /\ ForeignHeld(C, H, q)
    BY DEF Placed
  <2>5. HeldKept(C, D, H, G, q)
    BY <2>3 DEF HeldKept
  <2> QED  BY <1>0, <2>1, <2>2, <2>4, <2>5, Quiet
<1>10. HandlerCounts(D, G)
  <2>1. ASSUME NEW u \in Threads, NEW e \in Ours, HandlersIn(C[u], e) # {}
        PROVE  FliesIn(D[u], e) <=> FliesIn(C[u], e)
    <3>1. PICK i \in DOMAIN C[u] : C[u][i].k = "handler" /\ C[u][i].e = e
      BY <2>1 DEF HandlersIn
    <3>2. H[e].state = "live"
      BY <3>1 DEF Placed, FramesMatch, StateOfFrame
    <3>3. u = t /\ e = f.e => C[t][n].k # "construct"
      BY <3>2, <1>0 DEF Placed, FramesMatch, StateOfFrame
    <3>4. u = t /\ e = f.e => C[t][n].k \in Flight
      BY <3>3, <1>0, <1>1 DEF Kinds
    <3>5. \A j \in DOMAIN C[u] : C[u][j].e = e => (D[u][j].k \in Flight <=> C[u][j].k \in Flight)
      BY <3>4, <1>0, <1>1
    <3> QED  BY <3>5, <1>1, <1>2 DEF FliesIn
  <2>2. ASSUME NEW e \in Ours
        PROVE  HandlerCount(D, G, e)
    <3>1. HandlerCount(C, H, e) /\ G[e].handlers = H[e].handlers
      BY DEF Placed, HandlerCounts
    <3>2. \A u \in Threads : HandlersIn(D[u], e) = HandlersIn(C[u], e)
      BY <1>5
    <3>3. \A u \in Threads : HandlersIn(C[u], e) # {} => (FliesIn(D[u], e) <=> FliesIn(C[u], e))
      BY <2>1
    <3> QED  BY <3>1, <3>2, <3>3, SameCount
  <2> QED  BY <2>2 DEF HandlerCounts
<1> QED  BY <1>6, <1>7, <1>8, <1>9, <1>10 DEF Placed

-----------------------------------------------------------------------------
(***************************************************************************)
(* The frame h is removed; Src says where each of those left was before.   *)
(***************************************************************************)
Src(h, n, j) == IF j = h THEN n ELSE j

\* Where the frames that stay come from.
LEMMA RemovesFrom ==
  ASSUME NEW s, NEW r, NEW h, NEW n, Removes(s, r, h, n)
  PROVE  /\ \A j \in DOMAIN r : /\ Src(h, n, j) \in DOMAIN s \ {h} /\ r[j] = s[Src(h, n, j)]
                                /\ j \in Int /\ Src(h, n, j) \in Int /\ (Src(h, n, j) < h => Src(h, n, j) = j)
                                /\ j \in DOMAIN s
         /\ \A j, l \in DOMAIN r : /\ j < l <=> Src(h, n, j) < Src(h, n, l)
                                   /\ Src(h, n, j) = Src(h, n, l) => j = l
         /\ \A i \in DOMAIN s \ {h} : \E j \in DOMAIN r : Src(h, n, j) = i
         /\ n \in Int /\ h \in Int
<1>1. /\ DOMAIN s \subseteq Int /\ n \in DOMAIN s /\ \A i \in DOMAIN s : i <= n
      /\ DOMAIN r = DOMAIN s \ {n}
      /\ h \in DOMAIN s /\ (h = n \/ h = n - 1)
      /\ h # n => r[h] = s[n]
      /\ \A i \in DOMAIN s \ {n, h} : r[i] = s[i]
  BY DEF Removes, Ends
<1>2. n \in Int /\ h \in Int
  BY <1>1
<1>3. ASSUME NEW j \in DOMAIN r
      PROVE  /\ Src(h, n, j) \in DOMAIN s \ {h} /\ r[j] = s[Src(h, n, j)]
             /\ j \in Int /\ Src(h, n, j) \in Int /\ j < n
             /\ (Src(h, n, j) < h => Src(h, n, j) = j)
             /\ j \in DOMAIN s
  <2>1. j \in DOMAIN s /\ j # n /\ j \in Int /\ j < n
    BY <1>1
  <2>2. CASE j = h
    BY <1>1, <1>2, <2>1, <2>2 DEF Src
  <2>3. CASE j # h
    BY <1>1, <1>2, <2>1, <2>3 DEF Src
  <2> QED  BY <2>2, <2>3
<1>4. ASSUME NEW j \in DOMAIN r, NEW l \in DOMAIN r
      PROVE  /\ j < l <=> Src(h, n, j) < Src(h, n, l)
             /\ Src(h, n, j) = Src(h, n, l) => j = l
  <2>1. j \in Int /\ l \in Int /\ j < n /\ l < n /\ (h = n \/ h = n - 1)
    BY <1>1, <1>3
  <2>2. CASE j # h /\ l # h
    BY <2>1, <2>2 DEF Src
  <2>3. CASE j = h /\ l # h
    <3>1. Src(h, n, j) = n /\ Src(h, n, l) = l /\ j = n - 1
      BY <1>2, <2>1, <2>3 DEF Src
    <3> QED  BY <1>2, <2>1, <2>3, <3>1
  <2>4. CASE j # h /\ l = h
    <3>1. Src(h, n, j) = j /\ Src(h, n, l) = n /\ l = n - 1
      BY <1>2, <2>1, <2>4 DEF Src
    <3> QED  BY <1>2, <2>1, <2>4, <3>1
  <2>5. CASE j = h /\ l = h
    BY <1>2, <2>1, <2>5 DEF Src
  <2> QED  BY <2>2, <2>3, <2>4, <2>5
<1>5. ASSUME NEW i \in DOMAIN s \ {h}
      PROVE  \E j \in DOMAIN r : Src(h, n, j) = i
  <2>1. CASE i = n
    <3>1. h \in DOMAIN r /\ Src(h, n, h) = i
      BY <1>1, <2>1 DEF Src
    <3> QED  BY <3>1
  <2>2. CASE i # n
    <3>1. i \in DOMAIN r /\ Src(h, n, i) = i
      BY <1>1, <2>2 DEF Src
    <3> QED  BY <3>1
  <2> QED  BY <2>1, <2>2
<1> QED  BY <1>2, <1>3, <1>4, <1>5

\* What is left of the frames of thread t, when no handler changes its place.
LEMMA ShrinkView ==
  ASSUME NEW s, NEW r, NEW h, NEW n, Removes(s, r, h, n), h # n => s[n].k \in Flight
  PROVE  /\ NativeIn(r) = NativeIn(s) \ {h} /\ ForeignIn(r) = ForeignIn(s) \ {h}
         /\ \A e : HandlersIn(r, e) = HandlersIn(s, e) \ {h}
         /\ \A i \in DOMAIN s \ {h} : s[i].k = "handler" => i \in DOMAIN r /\ r[i] = s[i]
         /\ s[h].k = "handler" => \A i \in DOMAIN s : s[i].k = "handler" => i <= h
         /\ \A e : FliesIn(r, e) <=> \E i \in DOMAIN s \ {h} : s[i].e = e /\ s[i].k \in Flight
<1>1. /\ DOMAIN s \subseteq Int /\ n \in DOMAIN s /\ \A i \in DOMAIN s : i <= n
      /\ DOMAIN r = DOMAIN s \ {n}
      /\ h \in DOMAIN s /\ (h = n \/ h = n - 1)
      /\ h # n => r[h] = s[n]
      /\ \A i \in DOMAIN s \ {n, h} : r[i] = s[i]
  BY DEF Removes, Ends
<1>2. h # n => s[n].k # "handler" /\ r[h].k # "handler"
  BY <1>1 DEF Flight
<1>3. ASSUME NEW i
      PROVE  i \in DOMAIN r /\ r[i].k = "handler" <=> i \in DOMAIN s \ {h} /\ s[i].k = "handler"
  BY <1>1, <1>2
<1>4. ASSUME NEW i \in DOMAIN s \ {h}, s[i].k = "handler"
      PROVE  i \in DOMAIN r /\ r[i] = s[i]
  BY <1>1, <1>2, <1>4
<1>5. NativeIn(r) = NativeIn(s) \ {h} /\ ForeignIn(r) = ForeignIn(s) \ {h}
  BY <1>3, <1>4 DEF NativeIn, ForeignIn
<1>6. \A e : HandlersIn(r, e) = HandlersIn(s, e) \ {h}
  BY <1>3, <1>4 DEF HandlersIn
<1>7. s[h].k = "handler" => \A i \in DOMAIN s : s[i].k = "handler" => i <= h
  <2> SUFFICES ASSUME NEW i \in DOMAIN s, s[i].k = "handler" PROVE i <= h
    OBVIOUS
  <2>1. i \in Int /\ n \in Int /\ h \in Int /\ i <= n /\ (h = n \/ (h = n - 1 /\ i # n))
    BY <1>1, <1>2
  <2> QED  BY <2>1
<1>8. \A e : FliesIn(r, e) <=> \E i \in DOMAIN s \ {h} : s[i].e = e /\ s[i].k \in Flight
  <2>1. \A j \in DOMAIN r : Src(h, n, j) \in DOMAIN s \ {h} /\ r[j] = s[Src(h, n, j)]
    BY RemovesFrom
  <2>2. \A i \in DOMAIN s \ {h} : \E j \in DOMAIN r : Src(h, n, j) = i
    BY RemovesFrom
  <2> QED  BY <2>1, <2>2 DEF FliesIn
<1> QED  BY <1>4, <1>5, <1>6, <1>7, <1>8

\* Headers of exceptions in other frames than h of thread t do not change state.
StatesKept(C, H, G, t, h) ==
  \A u \in Threads : \A i \in DOMAIN C[u] :
    (u # t \/ i # h) /\ (C[u][i].k # "handler" \/ C[u][i].e \in Ours) =>
      G[C[u][i].e].state = H[C[u][i].e].state

\* Every exception that stays is where it was, in its state.
LEMMA ShrinkPlaces ==
  ASSUME NEW C, NEW D, NEW t \in Threads, NEW h, NEW n, NEW H, NEW G,
         Moves(C, D, t), Removes(C[t], D[t], h, n), h # n => C[t][n].k \in Flight,
         FramesMatch(C, H), OnePlace(C), HandlersTogether(C), StatesKept(C, H, G, t, h)
  PROVE  FramesMatch(D, G) /\ OnePlace(D) /\ HandlersTogether(D)
<1> DEFINE At(u, j) == IF u = t THEN Src(h, n, j) ELSE j
<1>0. /\ C \in [Threads -> Seq(Frames)] /\ D \in [Threads -> Seq(Frames)]
      /\ \A u \in Threads \ {t} : D[u] = C[u]
  BY DEF Moves
<1>1. ASSUME NEW u \in Threads, NEW j \in DOMAIN D[u]
      PROVE  /\ At(u, j) \in DOMAIN C[u] /\ D[u][j] = C[u][At(u, j)] /\ (u # t \/ At(u, j) # h)
             /\ j \in Int /\ At(u, j) \in Int
  <2>1. CASE u = t
    BY <2>1, <1>1, RemovesFrom
  <2>2. CASE u # t
    BY <2>2, <1>0, <1>1, FrameOf
  <2> QED  BY <2>1, <2>2
<1>2. ASSUME NEW u \in Threads, NEW j \in DOMAIN D[u], NEW l \in DOMAIN D[u]
      PROVE  (j < l <=> At(u, j) < At(u, l)) /\ (At(u, j) = At(u, l) => j = l)
  <2>1. CASE u = t
    BY <2>1, <1>2, RemovesFrom
  <2> QED  BY <2>1
<1>3. \A u \in Threads : \A j : j \in NativeIn(D[u]) => j \in DOMAIN D[u] /\ At(u, j) \in NativeIn(C[u])
  BY <1>1 DEF NativeIn
<1> HIDE DEF At
<1>4. FramesMatch(D, G)
  <2> SUFFICES ASSUME NEW u \in Threads, NEW j \in DOMAIN D[u]
               PROVE  /\ D[u][j].k # "handler" \/ D[u][j].e \in Ours =>
                           G[D[u][j].e].state = StateOfFrame(D[u][j].k)
                      /\ D[u][j].k \in {"construct", "destroy"} => D[u][j].e \in Primaries
    BY DEF FramesMatch
  <2> QED  BY <1>1 DEF FramesMatch, StatesKept
<1>5. OnePlace(D)
  <2> SUFFICES ASSUME NEW u \in Threads, NEW v \in Threads, NEW i \in DOMAIN D[u], NEW j \in DOMAIN D[v],
                      D[u][i].e = D[v][j].e
               PROVE  /\ D[u][i].e \in Ours => u = v
                      /\ D[u][i].k # "handler" /\ D[v][j].k # "handler" => u = v /\ i = j
    BY DEF OnePlace
  <2>1. /\ D[u][i].e \in Ours => u = v
        /\ D[u][i].k # "handler" /\ D[v][j].k # "handler" => u = v /\ At(u, i) = At(v, j)
    BY <1>1 DEF OnePlace
  <2> QED  BY <2>1, <1>2
<1>6. HandlersTogether(D)
  <2> SUFFICES ASSUME NEW u \in Threads, NEW i \in NativeIn(D[u]), NEW j \in DOMAIN D[u],
                      D[u][j].e = D[u][i].e
               PROVE  /\ D[u][j].k \in Flight => i < j
                      /\ D[u][j].k \in Flight \cup {"handler"} =>
                           \A k \in NativeIn(D[u]) : i < k /\ k < j => D[u][k].e = D[u][i].e
    BY DEF HandlersTogether
  <2>1. /\ At(u, i) \in NativeIn(C[u]) /\ At(u, j) \in DOMAIN C[u]
        /\ D[u][i] = C[u][At(u, i)] /\ D[u][j] = C[u][At(u, j)] /\ i \in DOMAIN D[u]
    BY <1>1, <1>3
  <2>2. /\ D[u][j].k \in Flight => At(u, i) < At(u, j)
        /\ D[u][j].k \in Flight \cup {"handler"} =>
             \A k \in NativeIn(C[u]) : At(u, i) < k /\ k < At(u, j) => C[u][k].e = C[u][At(u, i)].e
    BY <2>1 DEF HandlersTogether
  <2>3. D[u][j].k \in Flight => i < j
    BY <1>2, <2>1, <2>2
  <2>4. ASSUME D[u][j].k \in Flight \cup {"handler"}, NEW k \in NativeIn(D[u]), i < k, k < j
        PROVE  D[u][k].e = D[u][i].e
    <3>1. At(u, k) \in NativeIn(C[u]) /\ k \in DOMAIN D[u] /\ D[u][k] = C[u][At(u, k)]
      BY <1>1, <1>3
    <3>2. At(u, i) < At(u, k) /\ At(u, k) < At(u, j)
      BY <1>2, <2>1, <2>4, <3>1
    <3> QED  BY <2>1, <2>2, <2>4, <3>1, <3>2
  <2> QED  BY <2>3, <2>4
<1> QED  BY <1>4, <1>5, <1>6

(***************************************************************************)
(* A frame that is no handler is removed.  Its exception has no handlers.  *)
(***************************************************************************)
LEMMA RemovePlaced ==
  ASSUME ObjectsAssumption,
         NEW C, NEW D, NEW t \in Threads, NEW h, NEW n, NEW H, NEW G, NEW q, NEW x,
         Moves(C, D, t), Removes(C[t], D[t], h, n), h # n => C[t][n].k \in Flight,
         Placed(C, H, q),
         C[t][h].k # "handler", C[t][h].e = x, x \in Ours, HandlersIn(C[t], x) = {},
         \A e \in Objects \ {x} :
           G[e].state = H[e].state /\ G[e].next = H[e].next /\ G[e].handlers = H[e].handlers,
         G[x].handlers = 0
  PROVE  Placed(D, G, q)
<1>0. /\ C \in [Threads -> Seq(Frames)] /\ D \in [Threads -> Seq(Frames)]
      /\ \A u \in Threads \ {t} : D[u] = C[u]
      /\ h \in DOMAIN C[t]
  BY DEF Moves, Removes
<1>1. ASSUME NEW u \in Threads, NEW i \in DOMAIN C[u], u # t \/ i # h
      PROVE  C[u][i].e \in Objects /\ C[u][i].e # x
  <2>1. CASE C[u][i].e = x
    <3>1. u = t
      BY <1>0, <2>1 DEF Placed, OnePlace
    <3>2. C[t][i].k # "handler"
      BY <2>1, <3>1 DEF HandlersIn
    <3> QED  BY <1>0, <1>1, <2>1, <3>1, <3>2 DEF Placed, OnePlace
  <2> QED  BY <1>0, <2>1, FrameOf
<1>2. FramesMatch(D, G) /\ OnePlace(D) /\ HandlersTogether(D)
  <2>1. StatesKept(C, H, G, t, h)
    BY <1>1 DEF StatesKept
  <2>2. FramesMatch(C, H) /\ OnePlace(C) /\ HandlersTogether(C)
    BY DEF Placed
  <2>3. Moves(C, D, t) /\ Removes(C[t], D[t], h, n) /\ (h # n => C[t][n].k \in Flight)
    OBVIOUS
  <2> QED  BY <2>1, <2>2, <2>3, ShrinkPlaces
<1>3. /\ NativeIn(D[t]) = NativeIn(C[t]) \ {h} /\ ForeignIn(D[t]) = ForeignIn(C[t]) \ {h}
      /\ \A e : HandlersIn(D[t], e) = HandlersIn(C[t], e) \ {h}
      /\ \A i \in DOMAIN C[t] \ {h} : C[t][i].k = "handler" => i \in DOMAIN D[t] /\ D[t][i] = C[t][i]
      /\ \A e : FliesIn(D[t], e) <=> \E i \in DOMAIN C[t] \ {h} : C[t][i].e = e /\ C[t][i].k \in Flight
  BY ShrinkView
<1>4. /\ h \notin NativeIn(C[t]) /\ h \notin ForeignIn(C[t])
      /\ \A e : h \notin HandlersIn(C[t], e)
  BY DEF NativeIn, ForeignIn, HandlersIn
<1>5. \A u \in Threads : NativeIn(D[u]) = NativeIn(C[u]) /\ ForeignIn(D[u]) = ForeignIn(C[u])
  <2>1. NativeIn(D[t]) = NativeIn(C[t]) /\ ForeignIn(D[t]) = ForeignIn(C[t])
    BY <1>3, <1>4
  <2> QED  BY <1>0, <2>1
<1>6. \A u \in Threads : \A e : HandlersIn(D[u], e) = HandlersIn(C[u], e)
  <2>1. ASSUME NEW e PROVE HandlersIn(D[t], e) = HandlersIn(C[t], e)
    <3>1. HandlersIn(D[t], e) = HandlersIn(C[t], e) \ {h} /\ h \notin HandlersIn(C[t], e)
      BY <1>3, <1>4
    <3> QED  BY <3>1
  <2> QED  BY <1>0, <2>1
<1>7. CaughtInOrder(D, G, q) /\ ForeignHeld(D, G, q)
  <2>1. SameHandlers(C, D)
    <3>1. \A i \in NativeIn(C[t]) \cup ForeignIn(C[t]) : i \in DOMAIN C[t] \ {h} /\ C[t][i].k = "handler"
      BY <1>4 DEF NativeIn, ForeignIn
    <3> QED  BY <1>0, <1>3, <1>5, <3>1 DEF SameHandlers
  <2>2. NextKept(C, H, G) /\ TopsKept(C, q, q)
    <3>1. \A u \in Threads : \A j \in NativeIn(C[u]) : j \in DOMAIN C[u] /\ (u # t \/ j # h)
      BY <1>4 DEF NativeIn
    <3> QED  BY <1>1, <3>1 DEF NextKept, TopsKept
  <2>3. ASSUME NEW u \in Threads, NEW g \in Foreigns, Holds(C, H, q, u, g)
        PROVE  /\ G[g].state = H[g].state
               /\ \A v \in Threads : \A i \in DOMAIN D[v] : D[v][i].e = g => D[v][i].k = "handler"
    <3>1. \A v \in Threads : \A i \in DOMAIN C[v] : C[v][i].e = g => C[v][i].k = "handler"
      BY <2>3 DEF Placed, ForeignHeld
    <3>2. g # x /\ g \in Objects
      BY DEF ObjectsAssumption, Objects, Ours
    <3>3. \A v \in Threads : \A j \in DOMAIN D[v] : \E i \in DOMAIN C[v] : D[v][j] = C[v][i]
      <4>1. \A j \in DOMAIN D[t] : Src(h, n, j) \in DOMAIN C[t] /\ D[t][j] = C[t][Src(h, n, j)]
        BY RemovesFrom
      <4>2. \A j \in DOMAIN D[t] : \E i \in DOMAIN C[t] : D[t][j] = C[t][i]
        BY <4>1
      <4>3. \A v \in Threads \ {t} : \A j \in DOMAIN D[v] : j \in DOMAIN C[v] /\ D[v][j] = C[v][j]
        BY <1>0
      <4> QED  BY <4>2, <4>3
    <3> QED  BY <3>1, <3>2, <3>3
  <2>4. CaughtInOrder(C, H, q) /\ ForeignHeld(C, H, q)
    BY DEF Placed
  <2>5. HeldKept(C, D, H, G, q)
    BY <2>3 DEF HeldKept
  <2> QED  BY <1>0, <2>1, <2>2, <2>4, <2>5, Quiet
<1>8. ASSUME NEW e \in Ours
      PROVE  HandlerCount(D, G, e)
  <2>1. CASE e # x
    <3>1. FliesIn(D[t], e) <=> FliesIn(C[t], e)
      BY <1>3, <2>1 DEF FliesIn
    <3>2. HandlerCount(C, H, e) /\ G[e].handlers = H[e].handlers
      BY <2>1 DEF Objects, Ours, Placed, HandlerCounts
    <3>3. \A u \in Threads : FliesIn(D[u], e) <=> FliesIn(C[u], e)
      BY <1>0, <3>1
    <3>4. \A u \in Threads : HandlersIn(D[u], e) = HandlersIn(C[u], e)
      BY <1>6
    <3> QED  BY <3>2, <3>3, <3>4, SameCount
  <2>2. CASE e = x
    <3>1. \A u \in Threads : HandlersIn(D[u], x) = {}
      BY <1>1, <1>6 DEF HandlersIn
    <3> QED  BY <2>2, <3>1 DEF HandlerCount
  <2> QED  BY <2>1, <2>2
<1>9. HandlerCounts(D, G)
  BY <1>8 DEF HandlerCounts
<1> QED  BY <1>2, <1>7, <1>9 DEF Placed

-----------------------------------------------------------------------------
(* Handlers begin and end. *)

\* A thread runs finitely many handlers.
LEMMA HandlersFinite ==
  ASSUME NEW s \in Seq(Frames), NEW e
  PROVE  /\ IsFiniteSet(HandlersIn(s, e)) /\ Cardinality(HandlersIn(s, e)) \in Nat
         /\ Cardinality(HandlersIn(s, e)) = 0 <=> HandlersIn(s, e) = {}
<1>1. IsFiniteSet(1 .. Len(s)) /\ HandlersIn(s, e) \subseteq 1 .. Len(s)
  BY FS_Interval DEF HandlersIn
<1>2. IsFiniteSet(HandlersIn(s, e))
  BY <1>1, FS_Subset
<1> QED  BY <1>2, FS_CardinalityType, FS_EmptySet

\* Nothing else but the handlers of x, all on t, is about x, and the innermost
\* handler is one of them when there are any.
AllOn(C, q, t, n, x) ==
  /\ \A u \in Threads : \A i \in DOMAIN C[u] : C[u][i].e = x => u = t /\ (i = n \/ C[u][i].k = "handler")
  /\ HandlersIn(C[t], x) # {} <=> q[t] = x
  /\ q[t] = x => \E j \in NativeIn(C[t]) : C[t][j].e = x

\* An exception in flight in the top frame has all its frames on this thread, and only
\* handlers below.
LEMMA InnermostFirst ==
  ASSUME ObjectsAssumption,
         NEW C \in [Threads -> Seq(Frames)], NEW t \in Threads, NEW H, NEW q, NEW n, NEW x,
         Ends(C[t], n), x \in Ours, C[t][n].e = x, C[t][n].k \in Flight, Placed(C, H, q)
  PROVE  AllOn(C, q, t, n, x)
<1>0. n \in DOMAIN C[t] /\ \A i \in DOMAIN C[t] : i <= n
  BY DEF Ends
<1>1. \A u \in Threads : \A i \in DOMAIN C[u] : C[u][i].e = x => u = t /\ (i = n \/ C[u][i].k = "handler")
  BY <1>0 DEF Placed, OnePlace, Flight
<1>2. ASSUME HandlersIn(C[t], x) # {}
      PROVE  q[t] = x
  <2>1. PICK i \in DOMAIN C[t] : C[t][i].k = "handler" /\ C[t][i].e = x
    BY <1>2 DEF HandlersIn
  <2>2. i \in NativeIn(C[t])
    BY <2>1 DEF NativeIn
  <2>3. PICK l \in NativeIn(C[t]) : IsLast(NativeIn(C[t]), l)
    BY <2>2, NativeLast
  <2>4. i \in Int /\ l \in Int /\ n \in Int /\ i <= l /\ l <= n /\ l # n /\ l \in DOMAIN C[t]
    BY <1>0, <2>2, <2>3 DEF IsLast, NativeIn, Flight
  <2>5. i = l \/ (i < l /\ l < n)
    BY <2>4
  <2>6. C[t][l].e = x
    BY <1>0, <2>1, <2>2, <2>5 DEF Placed, HandlersTogether
  <2> QED  BY <2>3, <2>6 DEF Placed, CaughtInOrder
<1>3. ASSUME q[t] = x
      PROVE  \E j \in NativeIn(C[t]) : C[t][j].e = x
  <2>1. NativeIn(C[t]) # {}
    BY <1>3 DEF Placed, CaughtInOrder, ObjectsAssumption, Objects, Ours
  <2>2. PICK l \in NativeIn(C[t]) : IsLast(NativeIn(C[t]), l)
    BY <2>1, NativeLast
  <2> QED  BY <1>3, <2>2 DEF Placed, CaughtInOrder
<1>4. q[t] = x => HandlersIn(C[t], x) # {}
  BY <1>3 DEF NativeIn, HandlersIn
<1> QED  BY <1>1, <1>2, <1>3, <1>4 DEF AllOn

\* The flight at n becomes a handler.
LEMMA CatchView ==
  ASSUME ObjectsAssumption,
         NEW C, NEW D, NEW t \in Threads, NEW n, NEW f \in Frames,
         Moves(C, D, t), Retops(C[t], D[t], f, n), OnePlace(C),
         C[t][n].k \in Flight, f.k = "handler", C[t][n].e = f.e
  PROVE  /\ C \in [Threads -> Seq(Frames)] /\ D \in [Threads -> Seq(Frames)]
         /\ \A u \in Threads \ {t} : D[u] = C[u]
         /\ n \in DOMAIN C[t] /\ n \in Int /\ D[t][n] = f
         /\ \A i \in DOMAIN C[t] : i \in Int /\ i <= n /\ (i # n => D[t][i] = C[t][i])
         /\ \A u \in Threads : /\ DOMAIN D[u] = DOMAIN C[u]
                               /\ \A i \in DOMAIN C[u] : /\ D[u][i].e = C[u][i].e /\ C[u][i].e \in Objects
                                                         /\ D[u][i] = C[u][i] \/ D[u][i].k = "handler"
         /\ \A e : e # f.e => /\ HandlersIn(D[t], e) = HandlersIn(C[t], e)
                              /\ FliesIn(D[t], e) <=> FliesIn(C[t], e)
         /\ OnePlace(D)
<1>1. /\ C \in [Threads -> Seq(Frames)] /\ D \in [Threads -> Seq(Frames)]
      /\ \A u \in Threads \ {t} : D[u] = C[u]
  BY DEF Moves
<1>2. /\ n \in DOMAIN C[t] /\ n \in Int /\ D[t][n] = f /\ DOMAIN D[t] = DOMAIN C[t]
      /\ \A i \in DOMAIN C[t] : i \in Int /\ i <= n /\ (i # n => D[t][i] = C[t][i])
  BY DEF Retops, Ends
<1>3. \A u \in Threads : /\ DOMAIN D[u] = DOMAIN C[u]
                         /\ \A i \in DOMAIN C[u] : /\ D[u][i].e = C[u][i].e /\ C[u][i].e \in Objects
                                                   /\ D[u][i] = C[u][i] \/ D[u][i].k = "handler"
  <2> SUFFICES ASSUME NEW u \in Threads
               PROVE  /\ DOMAIN D[u] = DOMAIN C[u]
                      /\ \A i \in DOMAIN C[u] : /\ D[u][i].e = C[u][i].e /\ C[u][i].e \in Objects
                                                /\ D[u][i] = C[u][i] \/ D[u][i].k = "handler"
    OBVIOUS
  <2>1. \A i \in DOMAIN C[u] : C[u][i].e \in Objects
    BY <1>1, FrameOf
  <2>2. CASE u # t
    BY <1>1, <2>1, <2>2
  <2>3. CASE u = t
    BY <1>2, <2>1, <2>3
  <2> QED  BY <2>2, <2>3
<1>4. ASSUME NEW e, e # f.e
      PROVE  /\ HandlersIn(D[t], e) = HandlersIn(C[t], e)
             /\ FliesIn(D[t], e) <=> FliesIn(C[t], e)
  <2>1. \A i \in DOMAIN C[t] : D[t][i].e = e => i # n /\ D[t][i] = C[t][i]
    BY <1>2, <1>4
  <2>2. \A i \in DOMAIN C[t] : C[t][i].e = e => D[t][i] = C[t][i]
    BY <1>2, <1>4
  <2> QED  BY <1>2, <2>1, <2>2 DEF HandlersIn, FliesIn
<1>5. OnePlace(D)
  <2> SUFFICES ASSUME NEW u \in Threads, NEW v \in Threads, NEW i \in DOMAIN C[u], NEW j \in DOMAIN C[v],
                      D[u][i].e = D[v][j].e
               PROVE  /\ D[u][i].e \in Ours => u = v
                      /\ D[u][i].k # "handler" /\ D[v][j].k # "handler" => u = v /\ i = j
    BY <1>3 DEF OnePlace
  <2> QED  BY <1>3 DEF OnePlace
<1> QED  BY <1>1, <1>2, <1>3, <1>4, <1>5

(***************************************************************************)
(* __cxa_begin_catch of an exception of this runtime.                      *)
(***************************************************************************)
LEMMA CatchNative ==
  ASSUME ObjectsAssumption,
         NEW C, NEW D, NEW t \in Threads, NEW n, NEW f \in Frames, NEW H, NEW G, NEW q, NEW z,
         Moves(C, D, t), Retops(C[t], D[t], f, n), Placed(C, H, q),
         C[t][n].k \in Flight, C[t][n].e = f.e, f.k = "handler", f.e \in Ours,
         z[t] = f.e, \A u \in Threads \ {t} : z[u] = q[u],
         HeadersKept(Objects \ {f.e}, H, G),
         G[f.e].state = H[f.e].state,
         G[f.e].next = IF q[t] = f.e THEN H[f.e].next ELSE q[t],
         G[f.e].handlers = IF H[f.e].handlers < 0 THEN -H[f.e].handlers + 1 ELSE H[f.e].handlers + 1
  PROVE  Placed(D, G, z)
<1> DEFINE x == f.e
           N == NativeIn(C[t])
<1>1. /\ C \in [Threads -> Seq(Frames)] /\ D \in [Threads -> Seq(Frames)]
      /\ \A u \in Threads \ {t} : D[u] = C[u]
      /\ n \in DOMAIN C[t] /\ n \in Int /\ D[t][n] = f
      /\ \A i \in DOMAIN C[t] : i \in Int /\ i <= n /\ (i # n => D[t][i] = C[t][i])
      /\ \A u \in Threads : /\ DOMAIN D[u] = DOMAIN C[u]
                            /\ \A i \in DOMAIN C[u] : /\ D[u][i].e = C[u][i].e /\ C[u][i].e \in Objects
                                                      /\ D[u][i] = C[u][i] \/ D[u][i].k = "handler"
      /\ \A e : e # x => /\ HandlersIn(D[t], e) = HandlersIn(C[t], e)
                         /\ FliesIn(D[t], e) <=> FliesIn(C[t], e)
      /\ OnePlace(D)
  BY CatchView DEF Placed
<1>2. /\ \A u \in Threads : \A i \in DOMAIN C[u] : C[u][i].e = x => u = t /\ (i = n \/ C[u][i].k = "handler")
      /\ HandlersIn(C[t], x) # {} <=> q[t] = x
      /\ q[t] = x => \E j \in N : C[t][j].e = x
  <2>1. C \in [Threads -> Seq(Frames)] /\ Ends(C[t], n)
    BY DEF Moves, Retops
  <2>2. AllOn(C, q, t, n, f.e)
    BY <2>1, InnermostFirst
  <2> QED  BY <2>2 DEF AllOn
<1>3. /\ NativeIn(D[t]) = N \cup {n} /\ ForeignIn(D[t]) = ForeignIn(C[t])
      /\ HandlersIn(D[t], x) = HandlersIn(C[t], x) \cup {n} /\ n \notin HandlersIn(C[t], x)
      /\ \A j \in N : j \in DOMAIN C[t] /\ j \in Int /\ j < n /\ D[t][j] = C[t][j] /\ C[t][j].e \in Ours
  <2>1. x \in Ours /\ x \notin Foreigns /\ C[t][n].k # "handler"
    BY DEF ObjectsAssumption, Flight
  <2>2. \A i \in DOMAIN C[t] : i # n => D[t][i] = C[t][i]
    BY <1>1
  <2>3. NativeIn(D[t]) = N \cup {n} /\ ForeignIn(D[t]) = ForeignIn(C[t])
    BY <1>1, <2>1, <2>2 DEF NativeIn, ForeignIn
  <2>4. HandlersIn(D[t], x) = HandlersIn(C[t], x) \cup {n} /\ n \notin HandlersIn(C[t], x)
    BY <1>1, <2>1, <2>2 DEF HandlersIn
  <2>5. ASSUME NEW j \in N
        PROVE  j \in DOMAIN C[t] /\ j \in Int /\ j < n /\ D[t][j] = C[t][j] /\ C[t][j].e \in Ours
    <3>1. j \in DOMAIN C[t] /\ C[t][j].k = "handler" /\ j # n /\ C[t][j].e \in Ours
      BY <2>1 DEF NativeIn
    <3> QED  BY <1>1, <3>1
  <2> QED  BY <2>3, <2>4, <2>5
<1>4. \A u \in Threads \ {t} : NativeIn(D[u]) = NativeIn(C[u]) /\ ForeignIn(D[u]) = ForeignIn(C[u])
  BY <1>1
\* The link to the next exception changes only when x was not caught before.
<1>5. \A u \in Threads : \A j \in NativeIn(C[u]) : G[C[u][j].e].next = H[C[u][j].e].next
  <2> SUFFICES ASSUME NEW u \in Threads, NEW j \in NativeIn(C[u])
               PROVE  G[C[u][j].e].next = H[C[u][j].e].next
    OBVIOUS
  <2>1. j \in DOMAIN C[u] /\ C[u][j].k = "handler" /\ C[u][j].e \in Objects
    BY <1>1 DEF NativeIn
  <2>2. CASE C[u][j].e # x
    BY <2>1, <2>2 DEF HeadersKept
  <2>3. CASE C[u][j].e = x
    <3>1. j \in HandlersIn(C[t], x)
      BY <1>2, <2>1, <2>3 DEF HandlersIn
    <3> QED  BY <1>2, <2>3, <3>1
  <2> QED  BY <2>2, <2>3
<1> HIDE DEF x, N
<1>6. FramesMatch(D, G)
  <2> SUFFICES ASSUME NEW u \in Threads, NEW i \in DOMAIN C[u]
               PROVE  /\ D[u][i].k # "handler" \/ D[u][i].e \in Ours =>
                           G[D[u][i].e].state = StateOfFrame(D[u][i].k)
                      /\ D[u][i].k \in {"construct", "destroy"} => D[u][i].e \in Primaries
    BY <1>1 DEF FramesMatch
  <2>1. \A e \in Objects : G[e].state = H[e].state
    BY DEF HeadersKept
  <2>2. CASE D[u][i] = C[u][i]
    <3>1. /\ C[u][i].k # "handler" \/ C[u][i].e \in Ours => H[C[u][i].e].state = StateOfFrame(C[u][i].k)
          /\ C[u][i].k \in {"construct", "destroy"} => C[u][i].e \in Primaries
      BY DEF Placed, FramesMatch
    <3>2. C[u][i].e \in Objects
      BY <1>1
    <3> QED  BY <2>1, <2>2, <3>1, <3>2
  <2>3. CASE D[u][i] # C[u][i]
    <3>1. D[u][i].k = "handler" /\ u = t /\ i = n
      BY <1>1, <2>3
    <3>2. H[C[t][n].e].state = "live"
      BY <1>1 DEF Placed, FramesMatch, Flight, StateOfFrame
    <3> QED  BY <1>1, <2>1, <3>1, <3>2 DEF StateOfFrame
  <2> QED  BY <2>2, <2>3
<1>7. CaughtInOrder(D, G, z)
  <2>1. ASSUME NEW u \in Threads, u # t
        PROVE
    /\ \A j \in NativeIn(D[u]) :
         /\ IsLast(NativeIn(D[u]), j) => z[u] = D[u][j].e
         /\ IsFirst(NativeIn(D[u]), j) => G[D[u][j].e].next \in Foreigns \cup {NULL}
         /\ \A i \in NativeIn(D[u]) : Before(NativeIn(D[u]), i, j) =>
              D[u][i].e = D[u][j].e \/ G[D[u][j].e].next = D[u][i].e
    /\ NativeIn(D[u]) = {} => z[u] \in Foreigns \cup {NULL}
    <3>1. D[u] = C[u] /\ z[u] = q[u]
      BY <1>1, <2>1
    <3> QED  BY <3>1, <1>5 DEF Placed, CaughtInOrder
  <2>2. ASSUME NEW j \in N
        PROVE  /\ ~IsLast(N \cup {n}, j)
               /\ IsFirst(N \cup {n}, j) => G[C[t][j].e].next \in Foreigns \cup {NULL}
               /\ \A i \in N \cup {n} : Before(N \cup {n}, i, j) =>
                    i \in N /\ (C[t][i].e = C[t][j].e \/ G[C[t][j].e].next = C[t][i].e)
    <3>1. j < n /\ j \in Int /\ n \in Int /\ G[C[t][j].e].next = H[C[t][j].e].next
      BY <1>1, <1>3, <1>5 DEF N
    <3>2. ~IsLast(N \cup {n}, j)
      BY <3>1 DEF IsLast
    <3>3. IsFirst(N \cup {n}, j) => IsFirst(N, j)
      BY DEF IsFirst
    <3>4. \A i \in N \cup {n} : Before(N \cup {n}, i, j) => i \in N /\ Before(N, i, j)
      BY <3>1 DEF Before
    <3> QED  BY <3>1, <3>2, <3>3, <3>4 DEF Placed, CaughtInOrder, N
  <2>3. /\ z[t] = f.e
        /\ IsFirst(N \cup {n}, n) => G[f.e].next \in Foreigns \cup {NULL}
        /\ \A i \in N : Before(N \cup {n}, i, n) => C[t][i].e = f.e \/ G[f.e].next = C[t][i].e
    <3>1. IsFirst(N \cup {n}, n) => N = {}
      <4>1. \A j \in N : j < n /\ j \in Int /\ n \in Int
        BY <1>1, <1>3
      <4> QED  BY <4>1 DEF IsFirst
    <3>2. N = {} => q[t] \in Foreigns \cup {NULL} /\ q[t] # f.e
      BY <1>2 DEF Placed, CaughtInOrder, N, x
    <3>3. ASSUME NEW i \in N, Before(N \cup {n}, i, n)
          PROVE  C[t][i].e = f.e \/ G[f.e].next = C[t][i].e
      <4>1. IsLast(N, i)
        BY <1>3, <3>3 DEF Before, IsLast
      <4>2. q[t] = C[t][i].e
        BY <4>1 DEF Placed, CaughtInOrder, N
      <4> QED  BY <4>2
    <3> QED  BY <3>1, <3>2, <3>3
  <2>4. \A j \in N : D[t][j] = C[t][j]
    BY <1>3
  <2>5. D[t][n] = f /\ NativeIn(D[t]) = N \cup {n}
    BY <1>1, <1>3
  <2> DEFINE M == N \cup {n}
  <2>6. ASSUME NEW j \in M
        PROVE  /\ IsLast(M, j) => z[t] = D[t][j].e
               /\ IsFirst(M, j) => G[D[t][j].e].next \in Foreigns \cup {NULL}
               /\ \A i \in M : Before(M, i, j) =>
                    D[t][i].e = D[t][j].e \/ G[D[t][j].e].next = D[t][i].e
    <3>1. CASE j \in N
      <4>1. \A i \in M : Before(M, i, j) =>
              D[t][i] = C[t][i] /\ (C[t][i].e = C[t][j].e \/ G[C[t][j].e].next = C[t][i].e)
        BY <2>2, <2>4, <3>1
      <4>2. ~IsLast(M, j) /\ (IsFirst(M, j) => G[C[t][j].e].next \in Foreigns \cup {NULL})
        BY <2>2, <3>1
      <4>3. D[t][j] = C[t][j]
        BY <2>4, <3>1
      <4> QED  BY <4>1, <4>2, <4>3
    <3>2. CASE j = n
      <4>1. ~Before(M, n, n)
        BY <1>1 DEF Before
      <4> QED  BY <2>3, <2>4, <2>5, <3>2, <4>1
    <3> QED  BY <3>1, <3>2
  <2>7. NativeIn(D[t]) # {} /\ NativeIn(D[t]) = M
    BY <2>5
  <2> HIDE DEF M
  <2>8. ASSUME NEW u \in Threads
        PROVE
    /\ \A j \in NativeIn(D[u]) :
         /\ IsLast(NativeIn(D[u]), j) => z[u] = D[u][j].e
         /\ IsFirst(NativeIn(D[u]), j) => G[D[u][j].e].next \in Foreigns \cup {NULL}
         /\ \A i \in NativeIn(D[u]) : Before(NativeIn(D[u]), i, j) =>
              D[u][i].e = D[u][j].e \/ G[D[u][j].e].next = D[u][i].e
    /\ NativeIn(D[u]) = {} => z[u] \in Foreigns \cup {NULL}
    <3>1. CASE u # t
      BY <2>1, <3>1
    <3>2. CASE u = t
      BY <2>6, <2>7, <3>2
    <3> QED  BY <3>1, <3>2
  <2> QED  BY <2>8 DEF CaughtInOrder
<1>8. HandlersTogether(D)
  <2> SUFFICES ASSUME NEW u \in Threads, NEW i \in NativeIn(D[u]), NEW j \in DOMAIN C[u],
                      D[u][j].e = D[u][i].e
               PROVE  /\ D[u][j].k \in Flight => i < j
                      /\ D[u][j].k \in Flight \cup {"handler"} =>
                           \A k \in NativeIn(D[u]) : i < k /\ k < j => D[u][k].e = D[u][i].e
    BY <1>1 DEF HandlersTogether
  <2>1. CASE u # t
    BY <1>1, <2>1 DEF Placed, HandlersTogether
  <2>2. CASE u = t /\ i = n
    <3>1. j # n => C[t][j].k = "handler" /\ D[t][j] = C[t][j]
      BY <1>1, <1>2, <2>2 DEF x
    <3>2. D[t][j].k \notin Flight
      BY <1>1, <3>1 DEF Flight
    <3>3. \A k \in NativeIn(D[t]) : ~(n < k)
      BY <1>1, <1>3
    <3> QED  BY <2>2, <3>2, <3>3
  <2>3. CASE u = t /\ i \in N
    <3>1. D[t][i] = C[t][i] /\ C[t][j].e = C[t][i].e /\ j \in DOMAIN C[t]
      BY <1>1, <1>3, <2>3
    <3>2. D[t][j].k \in Flight => C[t][j].k \in Flight
      BY <1>1, <2>3 DEF Flight
    <3>3. D[t][j].k \in Flight \cup {"handler"} => C[t][j].k \in Flight \cup {"handler"}
      BY <1>1, <2>3
    <3>4. \A k \in NativeIn(D[t]) : i < k /\ k < j => k \in N /\ D[t][k] = C[t][k]
      BY <1>1, <1>3, <3>1
    <3> QED  BY <2>3, <3>1, <3>2, <3>3, <3>4 DEF Placed, HandlersTogether, N
  <2> QED  BY <1>3, <2>1, <2>2, <2>3
<1>9. ForeignHeld(D, G, z)
  <2>1. \A u \in Threads : ForeignIn(D[u]) = ForeignIn(C[u])
    BY <1>3, <1>4
  <2>2. ASSUME NEW u \in Threads, NEW g \in Foreigns, Holds(D, G, z, u, g)
        PROVE  Holds(C, H, q, u, g)
    <3>1. CASE u # t
      <4>1. D[u] = C[u] /\ z[u] = q[u]
        BY <1>1, <3>1
      <4> QED  BY <2>2, <4>1, <1>5 DEF Holds
    <3>2. CASE u = t
      <4>1. f.e \notin Foreigns
        BY DEF ObjectsAssumption
      <4>2. PICK j \in N \cup {n} : G[D[t][j].e].next = g
        BY <2>2, <3>2, <4>1, <1>3 DEF Holds
      <4>3. CASE j \in N
        <5>1. H[C[t][j].e].next = g
          BY <4>2, <4>3, <1>3, <1>5 DEF N
        <5> QED  BY <3>2, <4>3, <5>1 DEF Holds, N
      <4>4. CASE j = n /\ q[t] = f.e
        <5>1. H[f.e].next = g
          BY <1>1, <4>2, <4>4
        <5>2. \E i \in N : C[t][i].e = f.e
          BY <1>2, <4>4 DEF x
        <5> QED  BY <3>2, <5>1, <5>2 DEF Holds, N
      <4>5. CASE j = n /\ q[t] # f.e
        BY <1>1, <3>2, <4>2, <4>5 DEF Holds
      <4> QED  BY <4>3, <4>4, <4>5
    <3> QED  BY <3>1, <3>2
  <2>3. ASSUME NEW u \in Threads, NEW g \in Foreigns, Holds(D, G, z, u, g)
        PROVE  /\ G[g].state = "live" /\ ForeignIn(D[u]) # {}
               /\ \A v \in Threads : /\ Holds(D, G, z, v, g) => v = u
                                     /\ \A i \in DOMAIN D[v] : D[v][i].e = g => D[v][i].k = "handler"
    <3>1. Holds(C, H, q, u, g)
      BY <2>2, <2>3
    <3>2. /\ H[g].state = "live" /\ ForeignIn(C[u]) # {}
          /\ \A v \in Threads : /\ Holds(C, H, q, v, g) => v = u
                                /\ \A i \in DOMAIN C[v] : C[v][i].e = g => C[v][i].k = "handler"
      BY <3>1 DEF Placed, ForeignHeld
    <3>3. \A v \in Threads : Holds(D, G, z, v, g) => v = u
      BY <2>2, <3>2
    <3>4. \A v \in Threads : \A i \in DOMAIN D[v] : D[v][i].e = g => D[v][i].k = "handler"
      BY <1>1, <3>2
    <3>5. G[g].state = H[g].state
      BY DEF HeadersKept, Objects
    <3> QED  BY <2>1, <3>2, <3>3, <3>4, <3>5
  <2>4. ASSUME NEW u \in Threads, NEW i \in ForeignIn(D[u]), NEW j \in NativeIn(D[u])
        PROVE  i < j
    <3>1. i \in ForeignIn(C[u])
      BY <2>1
    <3>2. CASE j \in NativeIn(C[u])
      BY <3>1, <3>2 DEF Placed, ForeignHeld
    <3>3. CASE u = t /\ j = n
      <4>1. i \in DOMAIN C[t] /\ C[t][i].k = "handler" /\ i # n
        BY <3>1, <3>3 DEF ForeignIn, Flight
      <4> QED  BY <1>1, <3>3, <4>1
    <3> QED  BY <3>2, <3>3, <1>3, <1>4 DEF N
  <2> QED  BY <2>3, <2>4 DEF ForeignHeld
<1>10. HandlerCount(D, G, f.e)
  <2>1. \A u \in Threads \ {t} : HandlersIn(D[u], f.e) = {}
    BY <1>1, <1>2 DEF HandlersIn, x
  <2>2. ~FliesIn(D[t], f.e)
    BY <1>1, <1>2 DEF FliesIn, Flight, x
  <2>3. FliesIn(C[t], f.e)
    BY <1>1 DEF FliesIn
  <2>4. /\ IsFiniteSet(HandlersIn(C[t], f.e)) /\ Cardinality(HandlersIn(C[t], f.e)) \in Nat
        /\ Cardinality(HandlersIn(C[t], f.e)) = 0 <=> HandlersIn(C[t], f.e) = {}
    BY <1>1, HandlersFinite
  <2>5. Cardinality(HandlersIn(D[t], f.e)) = Cardinality(HandlersIn(C[t], f.e)) + 1
    <3>1. HandlersIn(D[t], f.e) = HandlersIn(C[t], f.e) \cup {n} /\ n \notin HandlersIn(C[t], f.e)
      BY <1>3 DEF x
    <3>2. Cardinality(HandlersIn(C[t], f.e) \cup {n}) = Cardinality(HandlersIn(C[t], f.e)) + 1
      BY <2>4, <3>1, FS_AddElement
    <3> QED  BY <3>1, <3>2
  <2>6. HandlerCount(C, H, f.e)
    BY DEF Placed, HandlerCounts
  <2>7. H[f.e].handlers = -Cardinality(HandlersIn(C[t], f.e))
    <3>1. CASE HandlersIn(C[t], f.e) # {}
      BY <2>3, <2>6, <3>1 DEF HandlerCount
    <3>2. CASE HandlersIn(C[t], f.e) = {}
      <4>1. \A u \in Threads : HandlersIn(C[u], f.e) = {}
        BY <1>1, <2>1, <3>2
      <4>2. H[f.e].handlers = 0
        BY <2>6, <4>1 DEF HandlerCount
      <4>3. Cardinality(HandlersIn(C[t], f.e)) = 0
        BY <2>4, <3>2
      <4>4. -Cardinality(HandlersIn(C[t], f.e)) = 0 - Cardinality(HandlersIn(C[t], f.e))
        BY <2>4
      <4>5. 0 - Cardinality(HandlersIn(C[t], f.e)) = 0
        BY <4>3
      <4> QED  BY <4>2, <4>4, <4>5
    <3> QED  BY <3>1, <3>2
  <2>8. G[f.e].handlers = Cardinality(HandlersIn(D[t], f.e))
    BY <2>4, <2>5, <2>7
  <2>9. HandlersIn(D[t], f.e) # {}
    BY <1>3 DEF x
  <2> QED  BY <2>1, <2>2, <2>8, <2>9 DEF HandlerCount
<1>11. ASSUME NEW e \in Ours, e # f.e
       PROVE  HandlerCount(D, G, e)
  <2>1. HandlerCount(C, H, e) /\ G[e].handlers = H[e].handlers
    BY <1>11 DEF Placed, HandlerCounts, HeadersKept, Objects, Ours
  <2>2. \A u \in Threads : HandlersIn(D[u], e) = HandlersIn(C[u], e) /\ (FliesIn(D[u], e) <=> FliesIn(C[u], e))
    <3>1. HandlersIn(D[t], e) = HandlersIn(C[t], e) /\ (FliesIn(D[t], e) <=> FliesIn(C[t], e))
      BY <1>1, <1>11 DEF x
    <3> QED  BY <1>1, <3>1
  <2> QED  BY <2>1, <2>2, SameCount
<1>12. HandlerCounts(D, G)
  <2>1. \A e \in Ours : HandlerCount(D, G, e)
    BY <1>10, <1>11
  <2> QED  BY <2>1 DEF HandlerCounts
<1> QED  BY <1>1, <1>6, <1>7, <1>8, <1>9, <1>12 DEF Placed

(***************************************************************************)
(* __cxa_begin_catch of an exception of another runtime.                   *)
(***************************************************************************)
LEMMA CatchForeign ==
  ASSUME ObjectsAssumption,
         NEW C, NEW D, NEW t \in Threads, NEW n, NEW f \in Frames, NEW H, NEW q, NEW z,
         Moves(C, D, t), Retops(C[t], D[t], f, n), Placed(C, H, q),
         C[t][n].k \in Flight, C[t][n].e = f.e, f.k = "handler", f.e \in Foreigns,
         q[t] = NULL, z[t] = f.e, \A u \in Threads \ {t} : z[u] = q[u]
  PROVE  Placed(D, H, z)
<1>1. /\ C \in [Threads -> Seq(Frames)] /\ D \in [Threads -> Seq(Frames)]
      /\ \A u \in Threads \ {t} : D[u] = C[u]
      /\ n \in DOMAIN C[t] /\ n \in Int /\ D[t][n] = f
      /\ \A i \in DOMAIN C[t] : i \in Int /\ i <= n /\ (i # n => D[t][i] = C[t][i])
      /\ \A u \in Threads : /\ DOMAIN D[u] = DOMAIN C[u]
                            /\ \A i \in DOMAIN C[u] : /\ D[u][i].e = C[u][i].e /\ C[u][i].e \in Objects
                                                      /\ D[u][i] = C[u][i] \/ D[u][i].k = "handler"
      /\ \A e : e # f.e => /\ HandlersIn(D[t], e) = HandlersIn(C[t], e)
                           /\ FliesIn(D[t], e) <=> FliesIn(C[t], e)
      /\ OnePlace(D)
  BY CatchView DEF Placed
<1>2. f.e \notin Ours /\ f.e # NULL /\ NULL \notin Ours
  BY DEF ObjectsAssumption, Objects, Ours
<1>3. NativeIn(C[t]) = {}
  <2>1. ASSUME NativeIn(C[t]) # {}
        PROVE  FALSE
    <3>1. PICK l \in NativeIn(C[t]) : IsLast(NativeIn(C[t]), l)
      BY <1>1, <2>1, NativeLast
    <3>2. q[t] \in Ours
      BY <3>1 DEF Placed, CaughtInOrder, NativeIn
    <3> QED  BY <1>2, <3>2
  <2> QED  BY <2>1
<1>4. \A u \in Threads : NativeIn(D[u]) = NativeIn(C[u]) /\ \A j \in NativeIn(C[u]) : D[u][j] = C[u][j]
  <2>1. NativeIn(D[t]) = {}
    <3>1. \A i \in DOMAIN C[t] : D[t][i].k = "handler" /\ D[t][i].e \in Ours => i \in NativeIn(C[t])
      BY <1>1, <1>2 DEF NativeIn
    <3> QED  BY <1>1, <1>3, <3>1 DEF NativeIn
  <2> QED  BY <1>1, <1>3, <2>1 DEF NativeIn
<1>5. FramesMatch(D, H)
  <2> SUFFICES ASSUME NEW u \in Threads, NEW i \in DOMAIN C[u]
               PROVE  /\ D[u][i].k # "handler" \/ D[u][i].e \in Ours =>
                           H[D[u][i].e].state = StateOfFrame(D[u][i].k)
                      /\ D[u][i].k \in {"construct", "destroy"} => D[u][i].e \in Primaries
    BY <1>1 DEF FramesMatch
  <2>1. CASE D[u][i] = C[u][i]
    BY <2>1 DEF Placed, FramesMatch
  <2>2. CASE D[u][i] # C[u][i]
    <3>1. D[u][i].k = "handler" /\ D[u][i] = f
      BY <1>1, <2>2
    <3> QED  BY <1>2, <3>1
  <2> QED  BY <2>1, <2>2
<1>6. CaughtInOrder(D, H, z)
  <2>1. ASSUME NEW u \in Threads
        PROVE
    /\ \A j \in NativeIn(D[u]) :
         /\ IsLast(NativeIn(D[u]), j) => z[u] = D[u][j].e
         /\ IsFirst(NativeIn(D[u]), j) => H[D[u][j].e].next \in Foreigns \cup {NULL}
         /\ \A i \in NativeIn(D[u]) : Before(NativeIn(D[u]), i, j) =>
              D[u][i].e = D[u][j].e \/ H[D[u][j].e].next = D[u][i].e
    /\ NativeIn(D[u]) = {} => z[u] \in Foreigns \cup {NULL}
    <3>1. CASE u = t
      BY <1>3, <1>4, <3>1
    <3>2. CASE u # t
      <4>1. D[u] = C[u] /\ z[u] = q[u]
        BY <1>1, <3>2
      <4> QED  BY <4>1 DEF Placed, CaughtInOrder
    <3> QED  BY <3>1, <3>2
  <2> QED  BY <2>1 DEF CaughtInOrder
<1>7. HandlersTogether(D)
  <2> SUFFICES ASSUME NEW u \in Threads, NEW i \in NativeIn(C[u]), NEW j \in DOMAIN C[u],
                      D[u][j].e = C[u][i].e
               PROVE  /\ D[u][j].k \in Flight => i < j
                      /\ D[u][j].k \in Flight \cup {"handler"} =>
                           \A k \in NativeIn(C[u]) : i < k /\ k < j => C[u][k].e = C[u][i].e
    <3>1. \A u \in Threads : \A i \in NativeIn(C[u]) : D[u][i].e = C[u][i].e
      BY <1>4
    <3> QED  BY <1>1, <1>4, <3>1 DEF HandlersTogether
  <2>1. u # t /\ D[u] = C[u]
    BY <1>1, <1>3
  <2> QED  BY <2>1 DEF Placed, HandlersTogether
<1>8. ForeignHeld(D, H, z)
  <2>1. \A u \in Threads : ~Holds(C, H, q, u, f.e)
    BY <1>1 DEF Placed, ForeignHeld, Flight
  <2>2. ASSUME NEW u \in Threads, NEW g \in Foreigns, Holds(D, H, z, u, g)
        PROVE  (u = t /\ g = f.e) \/ (u # t /\ g # f.e /\ Holds(C, H, q, u, g))
    <3>1. CASE u = t
      BY <1>3, <1>4, <2>2, <3>1 DEF Holds
    <3>2. CASE u # t
      <4>1. D[u] = C[u] /\ z[u] = q[u]
        BY <1>1, <3>2
      <4> QED  BY <2>1, <2>2, <3>2, <4>1 DEF Holds
    <3> QED  BY <3>1, <3>2
  <2>3. ASSUME NEW u \in Threads, NEW g \in Foreigns, Holds(D, H, z, u, g)
        PROVE  /\ H[g].state = "live" /\ ForeignIn(D[u]) # {}
               /\ \A v \in Threads : /\ Holds(D, H, z, v, g) => v = u
                                     /\ \A i \in DOMAIN D[v] : D[v][i].e = g => D[v][i].k = "handler"
    <3>1. CASE u = t /\ g = f.e
      <4>1. H[g].state = "live"
        BY <1>1, <3>1 DEF Placed, FramesMatch, Flight, StateOfFrame
      <4>2. n \in ForeignIn(D[t])
        BY <1>1 DEF ForeignIn
      <4>3. \A v \in Threads : Holds(D, H, z, v, g) => v = u
        BY <2>2, <3>1
      <4>4. \A v \in Threads : \A i \in DOMAIN D[v] : D[v][i].e = g => D[v][i].k = "handler"
        <5>1. D[t][n].k = "handler" /\ C[t][n].k # "handler"
          BY <1>1 DEF Flight
        <5> QED  BY <1>1, <3>1, <5>1 DEF Placed, OnePlace
      <4> QED  BY <3>1, <4>1, <4>2, <4>3, <4>4
    <3>2. CASE u # t /\ g # f.e /\ Holds(C, H, q, u, g)
      <4>1. /\ H[g].state = "live" /\ ForeignIn(C[u]) # {}
            /\ \A v \in Threads : /\ Holds(C, H, q, v, g) => v = u
                                  /\ \A i \in DOMAIN C[v] : C[v][i].e = g => C[v][i].k = "handler"
        BY <3>2 DEF Placed, ForeignHeld
      <4>2. D[u] = C[u]
        BY <1>1, <3>2
      <4>3. \A v \in Threads : Holds(D, H, z, v, g) => v = u
        BY <2>2, <3>2, <4>1
      <4>4. \A v \in Threads : \A i \in DOMAIN D[v] : D[v][i].e = g => D[v][i].k = "handler"
        BY <1>1, <4>1
      <4> QED  BY <4>1, <4>2, <4>3, <4>4
    <3> QED  BY <2>2, <2>3, <3>1, <3>2
  <2>4. ASSUME NEW u \in Threads, NEW i \in ForeignIn(D[u]), NEW j \in NativeIn(D[u])
        PROVE  i < j
    <3>1. u # t /\ D[u] = C[u]
      BY <1>1, <1>3, <1>4
    <3> QED  BY <3>1 DEF Placed, ForeignHeld
  <2> QED  BY <2>3, <2>4 DEF ForeignHeld
<1>9. ASSUME NEW e \in Ours
      PROVE  HandlerCount(D, H, e)
  <2>1. HandlerCount(C, H, e) /\ e # f.e
    BY <1>2 DEF Placed, HandlerCounts
  <2>2. \A u \in Threads : HandlersIn(D[u], e) = HandlersIn(C[u], e) /\ (FliesIn(D[u], e) <=> FliesIn(C[u], e))
    <3>1. HandlersIn(D[t], e) = HandlersIn(C[t], e) /\ (FliesIn(D[t], e) <=> FliesIn(C[t], e))
      BY <1>1, <2>1
    <3> QED  BY <1>1, <3>1
  <2> QED  BY <2>1, <2>2, SameCount
<1>10. HandlerCounts(D, H)
  BY <1>9 DEF HandlerCounts
<1> QED  BY <1>1, <1>5, <1>6, <1>7, <1>8, <1>10 DEF Placed

\* The handler that ends is the innermost one: the top of the caught stack is
\* its exception, or it is the handler of a foreign exception.
HandlerEnds(C, q, t, h) ==
  /\ q[t] \in Ours => /\ h \in NativeIn(C[t]) /\ C[t][h].e = q[t] /\ h \notin ForeignIn(C[t])
                      /\ \A j \in NativeIn(C[t]) \ {h} : j < h
  /\ q[t] \notin Ours => /\ NativeIn(C[t]) = {} /\ h \in ForeignIn(C[t])
                         /\ q[t] \in Foreigns \cup {NULL}

\* The handler that ends is the innermost one, of the exception on top of the caught stack.
LEMMA WhichEnds ==
  ASSUME ObjectsAssumption,
         NEW C, NEW D, NEW t \in Threads, NEW h, NEW n, NEW H, NEW q,
         Moves(C, D, t), Removes(C[t], D[t], h, n), h # n => C[t][n].k \in Flight,
         Placed(C, H, q), C[t][h].k = "handler"
  PROVE  HandlerEnds(C, q, t, h)
<1>1. C \in [Threads -> Seq(Frames)] /\ h \in DOMAIN C[t] /\ DOMAIN C[t] \subseteq Int
  BY DEF Moves, Removes, Ends
<1>2. \A i \in DOMAIN C[t] : C[t][i].k = "handler" => i <= h
  BY ShrinkView
<1>3. C[t][h].e \in Ours \/ C[t][h].e \in Foreigns
  BY <1>1, FrameOf DEF Objects, Ours
<1>4. Ours \cap Foreigns = {} /\ NULL \notin Ours
  BY DEF ObjectsAssumption, Objects, Ours
<1>5. ASSUME NativeIn(C[t]) # {}
      PROVE  h \in NativeIn(C[t]) /\ IsLast(NativeIn(C[t]), h)
  <2>1. PICK l \in NativeIn(C[t]) : TRUE
    BY <1>5
  <2>2. l \in DOMAIN C[t] /\ C[t][l].k = "handler" /\ l <= h /\ l \in Int /\ h \in Int
    BY <1>1, <1>2, <2>1 DEF NativeIn
  <2>3. h \notin ForeignIn(C[t])
    <3>1. h \in ForeignIn(C[t]) => h < l
      BY <2>1 DEF Placed, ForeignHeld
    <3> QED  BY <2>2, <3>1
  <2>4. h \in NativeIn(C[t])
    BY <1>1, <1>3, <2>3 DEF NativeIn, ForeignIn
  <2> QED  BY <1>2, <2>4 DEF IsLast, NativeIn
<1>6. CASE NativeIn(C[t]) # {}
  <2>1. h \in NativeIn(C[t]) /\ IsLast(NativeIn(C[t]), h)
    BY <1>5, <1>6
  <2>2. q[t] = C[t][h].e
    BY <2>1 DEF Placed, CaughtInOrder
  <2>3. C[t][h].e \in Ours /\ h \notin ForeignIn(C[t])
    BY <1>4, <2>1 DEF NativeIn, ForeignIn
  <2>4. ASSUME NEW j \in NativeIn(C[t]) \ {h} PROVE j < h
    <3>1. j \in Int /\ h \in Int /\ j # h /\ j <= h
      BY <1>1, <2>1 DEF IsLast, NativeIn
    <3> QED  BY <3>1
  <2> QED  BY <2>1, <2>2, <2>3, <2>4 DEF HandlerEnds
<1>7. CASE NativeIn(C[t]) = {}
  <2>1. q[t] \in Foreigns \cup {NULL}
    BY <1>7 DEF Placed, CaughtInOrder
  <2>2. h \in ForeignIn(C[t])
    BY <1>1, <1>3, <1>7 DEF NativeIn, ForeignIn
  <2> QED  BY <1>4, <1>7, <2>1, <2>2 DEF HandlerEnds
<1> QED  BY <1>6, <1>7

\* The handler h of the exception on top of the caught stack of t ends; when
\* it is the only handler of that exception, the exception leaves the stack.
Leaves(C, H, G, q, z, t, h) ==
  /\ HeadersKept(Objects \ {q[t]}, H, G)
  /\ \A u \in Threads \ {t} : z[u] = q[u]
  /\ z[t] = IF HandlersIn(C[t], q[t]) = {h} THEN H[q[t]].next ELSE q[t]
  /\ HandlersIn(C[t], q[t]) # {h} => G[q[t]].next = H[q[t]].next
  /\ HandlersIn(C[t], q[t]) # {h} \/ FliesIn(C[t], q[t]) => G[q[t]].state = H[q[t]].state
  /\ G[q[t]].handlers = IF H[q[t]].handlers < 0 THEN H[q[t]].handlers + 1 ELSE H[q[t]].handlers - 1

\* __cxa_end_catch of a native exception keeps the places right: its handler count, and
\* the caught stack, which it leaves with its last handler or when it was rethrown.
LEMMA NativeLeaves ==
  ASSUME ObjectsAssumption,
         NEW C, NEW D, NEW t \in Threads, NEW h, NEW n, NEW H, NEW G, NEW q, NEW z, NEW y,
         Moves(C, D, t), Removes(C[t], D[t], h, n), h # n => C[t][n].k \in Flight,
         Placed(C, H, q), C[t][h].k = "handler", y = q[t], y \in Ours,
         Leaves(C, H, G, q, z, t, h)
  PROVE  Placed(D, G, z)
<1> DEFINE N == NativeIn(C[t])
           W == HandlersIn(C[t], y)
<1>1. /\ HeadersKept(Objects \ {y}, H, G)
      /\ \A u \in Threads \ {t} : z[u] = q[u]
      /\ z[t] = IF W = {h} THEN H[y].next ELSE y
      /\ W # {h} => G[y].next = H[y].next
      /\ W # {h} \/ FliesIn(C[t], y) => G[y].state = H[y].state
      /\ G[y].handlers = IF H[y].handlers < 0 THEN H[y].handlers + 1 ELSE H[y].handlers - 1
  BY DEF Leaves
<1>2. HandlerEnds(C, q, t, h)
  BY WhichEnds
<1>3. /\ h \in N /\ C[t][h].e = y /\ h \notin ForeignIn(C[t]) /\ h \in W /\ h \in DOMAIN C[t]
      /\ \A j \in N \ {h} : j < h
  BY <1>2 DEF HandlerEnds, NativeIn, HandlersIn
<1>4. /\ C \in [Threads -> Seq(Frames)] /\ D \in [Threads -> Seq(Frames)]
      /\ \A u \in Threads \ {t} : D[u] = C[u]
  BY DEF Moves
<1>5. \A u \in Threads : \A i \in DOMAIN C[u] : i \in Int /\ C[u][i].e \in Objects /\ C[u][i].k \in Kinds
  BY <1>4, FrameOf
<1>6. /\ NativeIn(D[t]) = N \ {h} /\ ForeignIn(D[t]) = ForeignIn(C[t])
      /\ \A e : HandlersIn(D[t], e) = HandlersIn(C[t], e) \ {h}
      /\ \A i \in DOMAIN C[t] \ {h} : C[t][i].k = "handler" => i \in DOMAIN D[t] /\ D[t][i] = C[t][i]
      /\ \A e : FliesIn(D[t], e) <=> FliesIn(C[t], e)
  <2>1. /\ NativeIn(D[t]) = N \ {h} /\ ForeignIn(D[t]) = ForeignIn(C[t]) \ {h}
        /\ \A e : HandlersIn(D[t], e) = HandlersIn(C[t], e) \ {h}
        /\ \A i \in DOMAIN C[t] \ {h} : C[t][i].k = "handler" => i \in DOMAIN D[t] /\ D[t][i] = C[t][i]
        /\ \A e : FliesIn(D[t], e) <=> \E i \in DOMAIN C[t] \ {h} : C[t][i].e = e /\ C[t][i].k \in Flight
    BY ShrinkView
  <2>2. ForeignIn(C[t]) \ {h} = ForeignIn(C[t])
    BY <1>3
  <2>3. \A e : FliesIn(D[t], e) <=> FliesIn(C[t], e)
    BY <2>1 DEF FliesIn, Flight
  <2> QED  BY <2>1, <2>2, <2>3
\* y is nowhere but on t.
<1>7. \A u \in Threads : \A i \in DOMAIN C[u] : C[u][i].e = y => u = t
  BY <1>3 DEF Placed, OnePlace
<1>8. \A j \in N : j \in DOMAIN C[t] /\ j \in Int /\ C[t][j].k = "handler" /\ C[t][j].e \in Ours
  BY <1>5 DEF NativeIn
<1>9. StatesKept(C, H, G, t, h)
  <2>1. ASSUME NEW u \in Threads, NEW i \in DOMAIN C[u], u # t \/ i # h, C[u][i].k # "handler" \/ C[u][i].e \in Ours
        PROVE  G[C[u][i].e].state = H[C[u][i].e].state
    <3>1. CASE C[u][i].e # y
      BY <1>1, <1>5, <3>1 DEF HeadersKept
    <3>2. CASE C[u][i].e = y
      <4>1. u = t /\ i # h
        BY <1>7, <2>1, <3>2
      <4>2. CASE C[u][i].k = "handler"
        BY <1>1, <3>2, <4>1, <4>2 DEF HandlersIn
      <4>3. CASE C[u][i].k # "handler"
        <5>1. H[y].state = "live"
          BY <1>3, <1>8 DEF Placed, FramesMatch, StateOfFrame
        <5>2. H[y].state = StateOfFrame(C[u][i].k)
          BY <3>2, <4>3 DEF Placed, FramesMatch
        <5>3. C[u][i].k \in Flight
          BY <1>5, <4>3, <5>1, <5>2 DEF Kinds, StateOfFrame
        <5> QED  BY <1>1, <3>2, <4>1, <5>3 DEF FliesIn
      <4> QED  BY <4>2, <4>3
    <3> QED  BY <3>1, <3>2
  <2> QED  BY <2>1 DEF StatesKept
<1>10. FramesMatch(D, G) /\ OnePlace(D) /\ HandlersTogether(D)
  <2>1. FramesMatch(C, H) /\ OnePlace(C) /\ HandlersTogether(C)
    BY DEF Placed
  <2> QED  BY <1>9, <2>1, ShrinkPlaces
\* The links of the handlers that are left do not change.
<1>11. /\ \A u \in Threads \ {t} : \A j \in NativeIn(C[u]) : G[C[u][j].e].next = H[C[u][j].e].next
       /\ \A j \in N \ {h} : G[C[t][j].e].next = H[C[t][j].e].next /\ D[t][j] = C[t][j]
  <2>1. \A e \in Objects : e # y => G[e].next = H[e].next
    BY <1>1 DEF HeadersKept
  <2>2. ASSUME NEW u \in Threads \ {t}, NEW j \in NativeIn(C[u])
        PROVE  G[C[u][j].e].next = H[C[u][j].e].next
    BY <1>5, <1>7, <2>1 DEF NativeIn
  <2>3. ASSUME NEW j \in N \ {h}
        PROVE  G[C[t][j].e].next = H[C[t][j].e].next /\ D[t][j] = C[t][j]
    <3>1. C[t][j].e = y => j \in W
      BY <1>8 DEF HandlersIn
    <3>2. C[t][j].e = y => W # {h}
      BY <3>1
    <3> QED  BY <1>1, <1>5, <1>6, <1>8, <2>1, <3>2
  <2> QED  BY <2>2, <2>3
<1>12. \A i \in W : i \in N
  BY DEF HandlersIn, NativeIn
<1> HIDE DEF N, W
<1>13. CaughtInOrder(D, G, z)
  <2> DEFINE M == N \ {h}
  <2>1. ASSUME NEW u \in Threads, u # t
        PROVE
    /\ \A j \in NativeIn(D[u]) :
         /\ IsLast(NativeIn(D[u]), j) => z[u] = D[u][j].e
         /\ IsFirst(NativeIn(D[u]), j) => G[D[u][j].e].next \in Foreigns \cup {NULL}
         /\ \A i \in NativeIn(D[u]) : Before(NativeIn(D[u]), i, j) =>
              D[u][i].e = D[u][j].e \/ G[D[u][j].e].next = D[u][i].e
    /\ NativeIn(D[u]) = {} => z[u] \in Foreigns \cup {NULL}
    <3>1. D[u] = C[u] /\ z[u] = q[u]
      BY <1>1, <1>4, <2>1
    <3> QED  BY <2>1, <3>1, <1>11 DEF Placed, CaughtInOrder
  <2>2. /\ \A j \in N : IsFirst(N, j) => H[C[t][j].e].next \in Foreigns \cup {NULL}
        /\ \A i, j \in N : Before(N, i, j) => C[t][i].e = C[t][j].e \/ H[C[t][j].e].next = C[t][i].e
    BY DEF Placed, CaughtInOrder, N
  <2>3. ASSUME NEW j \in M, IsLast(M, j)
        PROVE  z[t] = C[t][j].e
    <3>1. Before(N, j, h)
      <4>1. j \in N /\ j < h
        BY <1>3
      <4>2. \A k \in N : k < h => k # h
        BY <1>8, <1>3
      <4> QED  BY <2>3, <4>1, <4>2 DEF Before, IsLast
    <3>2. C[t][j].e = y \/ H[y].next = C[t][j].e
      BY <1>3, <2>2, <3>1
    <3>3. CASE C[t][j].e = y
      <4>1. j \in W /\ j # h
        BY <1>8, <3>3 DEF HandlersIn, W
      <4>2. W # {h}
        BY <4>1
      <4> QED  BY <1>1, <3>3, <4>2 DEF W
    <3>4. CASE C[t][j].e # y
      <4>1. ASSUME NEW i \in W, i # h
            PROVE  FALSE
        <5>1. i \in N /\ i \in M /\ C[t][i].e = y /\ i \in DOMAIN C[t]
          BY <1>12, <4>1 DEF HandlersIn, W
        <5>2. i <= j /\ i # j /\ j < h /\ i \in Int /\ j \in Int
          BY <1>3, <1>8, <2>3, <3>4, <5>1 DEF IsLast
        <5>3. i < j
          BY <5>2
        <5>4. C[t][h].k = "handler" /\ C[t][h].e = C[t][i].e /\ h \in DOMAIN C[t]
          BY <1>3, <5>1
        <5>5. C[t][j].e = C[t][i].e
          BY <5>1, <5>2, <5>3, <5>4 DEF Placed, HandlersTogether, N
        <5> QED  BY <3>4, <5>1, <5>5
      <4>2. W = {h}
        BY <1>3, <4>1 DEF W
      <4> QED  BY <1>1, <3>2, <3>4, <4>2 DEF W
    <3> QED  BY <3>3, <3>4
  <2>4. ASSUME NEW j \in M
        PROVE  /\ IsFirst(M, j) => IsFirst(N, j)
               /\ \A i \in M : Before(M, i, j) => Before(N, i, j)
    <3>1. j \in Int /\ h \in Int /\ j < h
      BY <1>3, <1>8
    <3>2. \A k \in N : k \in M \/ k = h
      OBVIOUS
    <3>3. IsFirst(M, j) => IsFirst(N, j)
      BY <3>1, <3>2 DEF IsFirst
    <3>4. \A i \in M : Before(M, i, j) => Before(N, i, j)
      BY <3>1, <3>2 DEF Before
    <3> QED  BY <3>3, <3>4
  <2>5. ASSUME M = {}
        PROVE  z[t] \in Foreigns \cup {NULL}
    <3>1. N = {h}
      BY <1>3, <2>5
    <3>2. W = {h}
      BY <1>3, <1>12, <3>1 DEF W
    <3>3. IsFirst(N, h)
      BY <1>3, <1>8, <3>1 DEF IsFirst
    <3> QED  BY <1>1, <1>3, <2>2, <3>2, <3>3 DEF W
  <2>6. ASSUME NEW j \in M
        PROVE  /\ IsLast(M, j) => z[t] = D[t][j].e
               /\ IsFirst(M, j) => G[D[t][j].e].next \in Foreigns \cup {NULL}
               /\ \A i \in M : Before(M, i, j) =>
                    D[t][i].e = D[t][j].e \/ G[D[t][j].e].next = D[t][i].e
    <3>1. \A i \in M : D[t][i] = C[t][i] /\ i \in N
      BY <1>11
    <3>2. G[C[t][j].e].next = H[C[t][j].e].next
      BY <1>11
    <3> HIDE DEF M
    <3> QED  BY <2>2, <2>3, <2>4, <3>1, <3>2
  <2>7. NativeIn(D[t]) = M
    BY <1>6
  <2> HIDE DEF M
  <2>8. ASSUME NEW u \in Threads
        PROVE
    /\ \A j \in NativeIn(D[u]) :
         /\ IsLast(NativeIn(D[u]), j) => z[u] = D[u][j].e
         /\ IsFirst(NativeIn(D[u]), j) => G[D[u][j].e].next \in Foreigns \cup {NULL}
         /\ \A i \in NativeIn(D[u]) : Before(NativeIn(D[u]), i, j) =>
              D[u][i].e = D[u][j].e \/ G[D[u][j].e].next = D[u][i].e
    /\ NativeIn(D[u]) = {} => z[u] \in Foreigns \cup {NULL}
    <3>1. CASE u # t
      BY <2>1, <3>1
    <3>2. CASE u = t
      BY <2>5, <2>6, <2>7, <3>2
    <3> QED  BY <3>1, <3>2
  <2> QED  BY <2>8 DEF CaughtInOrder
<1>14. ForeignHeld(D, G, z)
  <2>1. \A u \in Threads : ForeignIn(D[u]) = ForeignIn(C[u])
    BY <1>4, <1>6
  <2>2. ASSUME NEW u \in Threads, NEW g \in Foreigns, Holds(D, G, z, u, g)
        PROVE  Holds(C, H, q, u, g)
    <3>1. CASE u # t
      <4>1. D[u] = C[u] /\ z[u] = q[u]
        BY <1>1, <1>4, <3>1
      <4> QED  BY <2>2, <3>1, <4>1, <1>11 DEF Holds
    <3>2. CASE u = t
      <4>1. g # y
        BY DEF ObjectsAssumption
      <4>2. CASE z[t] = g
        <5>1. H[C[t][h].e].next = g
          BY <1>1, <1>3, <4>1, <4>2 DEF W
        <5> QED  BY <1>3, <3>2, <5>1 DEF Holds, N
      <4>3. CASE z[t] # g
        <5>1. PICK j \in NativeIn(D[t]) : G[D[t][j].e].next = g
          BY <2>2, <3>2, <4>3 DEF Holds
        <5>2. j \in N /\ H[C[t][j].e].next = g
          BY <1>6, <1>11, <5>1
        <5> QED  BY <3>2, <5>2 DEF Holds, N
      <4> QED  BY <4>2, <4>3
    <3> QED  BY <3>1, <3>2
  <2>3. \A v \in Threads : \A j \in DOMAIN D[v] : \E i \in DOMAIN C[v] : D[v][j] = C[v][i]
    <3>1. \A j \in DOMAIN D[t] : Src(h, n, j) \in DOMAIN C[t] /\ D[t][j] = C[t][Src(h, n, j)]
      BY RemovesFrom
    <3>2. \A j \in DOMAIN D[t] : \E i \in DOMAIN C[t] : D[t][j] = C[t][i]
      BY <3>1
    <3>3. \A v \in Threads \ {t} : \A j \in DOMAIN D[v] : j \in DOMAIN C[v] /\ D[v][j] = C[v][j]
      BY <1>4
    <3> QED  BY <3>2, <3>3
  <2>4. ASSUME NEW u \in Threads, NEW g \in Foreigns, Holds(D, G, z, u, g)
        PROVE  /\ G[g].state = "live" /\ ForeignIn(D[u]) # {}
               /\ \A v \in Threads : /\ Holds(D, G, z, v, g) => v = u
                                     /\ \A i \in DOMAIN D[v] : D[v][i].e = g => D[v][i].k = "handler"
    <3>1. Holds(C, H, q, u, g)
      BY <2>2, <2>4
    <3>2. /\ H[g].state = "live" /\ ForeignIn(C[u]) # {}
          /\ \A v \in Threads : /\ Holds(C, H, q, v, g) => v = u
                                /\ \A i \in DOMAIN C[v] : C[v][i].e = g => C[v][i].k = "handler"
      BY <3>1 DEF Placed, ForeignHeld
    <3>3. \A v \in Threads : Holds(D, G, z, v, g) => v = u
      BY <2>2, <3>2
    <3>4. \A v \in Threads : \A i \in DOMAIN D[v] : D[v][i].e = g => D[v][i].k = "handler"
      BY <2>3, <3>2
    <3>5. G[g].state = H[g].state
      <4>1. g # y /\ g \in Objects
        BY DEF ObjectsAssumption, Objects
      <4> QED  BY <1>1, <4>1 DEF HeadersKept
    <3> QED  BY <2>1, <3>2, <3>3, <3>4, <3>5
  <2>5. ASSUME NEW u \in Threads, NEW i \in ForeignIn(D[u]), NEW j \in NativeIn(D[u])
        PROVE  i < j
    <3>1. i \in ForeignIn(C[u]) /\ j \in NativeIn(C[u])
      BY <1>4, <1>6, <2>1 DEF N
    <3> QED  BY <3>1 DEF Placed, ForeignHeld
  <2> QED  BY <2>4, <2>5 DEF ForeignHeld
<1>15. HandlerCount(D, G, y)
  <2>1. \A u \in Threads \ {t} : HandlersIn(C[u], y) = {} /\ HandlersIn(D[u], y) = {}
    BY <1>4, <1>7 DEF HandlersIn
  <2>2. IsFiniteSet(W) /\ Cardinality(W) \in Nat /\ (Cardinality(W) = 0 <=> W = {})
    BY <1>4, HandlersFinite DEF W
  <2>3. Cardinality(HandlersIn(D[t], y)) = Cardinality(W) - 1
    <3>1. HandlersIn(D[t], y) = W \ {h}
      BY <1>6 DEF W
    <3>2. Cardinality(W \ {h}) = Cardinality(W) - 1
      BY <1>3, <2>2, FS_RemoveElement DEF W
    <3> QED  BY <3>1, <3>2
  <2>4. Cardinality(W) > 0
    BY <1>3, <2>2 DEF W
  <2>5. H[y].handlers = IF FliesIn(C[t], y) THEN -Cardinality(W) ELSE Cardinality(W)
    <3>1. HandlerCount(C, H, y) /\ HandlersIn(C[t], y) # {}
      BY <1>3 DEF Placed, HandlerCounts, W
    <3> QED  BY <3>1 DEF HandlerCount, W
  <2>6. G[y].handlers = IF FliesIn(C[t], y) THEN -Cardinality(HandlersIn(D[t], y)) ELSE Cardinality(HandlersIn(D[t], y))
    BY <1>1, <2>2, <2>3, <2>4, <2>5
  <2>7. HandlersIn(D[t], y) = {} => Cardinality(HandlersIn(D[t], y)) = 0
    BY FS_EmptySet
  <2>8. FliesIn(D[t], y) <=> FliesIn(C[t], y)
    BY <1>6
  <2>9. (\A u \in Threads : HandlersIn(D[u], y) = {}) => G[y].handlers = 0
    BY <2>6, <2>7
  <2> QED  BY <2>1, <2>6, <2>8, <2>9 DEF HandlerCount
<1>16. ASSUME NEW e \in Ours, e # y
       PROVE  HandlerCount(D, G, e)
  <2>1. HandlerCount(C, H, e) /\ G[e].handlers = H[e].handlers
    BY <1>1, <1>16 DEF Placed, HandlerCounts, HeadersKept, Objects, Ours
  <2>2. \A u \in Threads : HandlersIn(D[u], e) = HandlersIn(C[u], e) /\ (FliesIn(D[u], e) <=> FliesIn(C[u], e))
    <3>1. HandlersIn(D[t], e) = HandlersIn(C[t], e) \ {h} /\ (FliesIn(D[t], e) <=> FliesIn(C[t], e))
      BY <1>6
    <3>2. h \notin HandlersIn(C[t], e)
      BY <1>3, <1>16 DEF HandlersIn
    <3>3. HandlersIn(C[t], e) \ {h} = HandlersIn(C[t], e)
      BY <3>2
    <3> QED  BY <1>4, <3>1, <3>3
  <2> QED  BY <2>1, <2>2, SameCount
<1>17. HandlerCounts(D, G)
  <2>1. \A e \in Ours : HandlerCount(D, G, e)
    BY <1>15, <1>16
  <2> QED  BY <2>1 DEF HandlerCounts
<1> QED  BY <1>10, <1>13, <1>14, <1>17 DEF Placed

\* The handler h of a foreign exception ends: what is caught is deleted.
LEMMA AlienLeaves ==
  ASSUME ObjectsAssumption,
         NEW C, NEW D, NEW t \in Threads, NEW h, NEW n, NEW H, NEW G, NEW q, NEW z,
         Moves(C, D, t), Removes(C[t], D[t], h, n), h # n => C[t][n].k \in Flight,
         Placed(C, H, q), C[t][h].k = "handler", q[t] \notin Ours,
         z[t] = NULL, \A u \in Threads \ {t} : z[u] = q[u],
         HeadersKept(Objects \ {q[t]}, H, G)
  PROVE  Placed(D, G, z)
<1>1. HandlerEnds(C, q, t, h)
  BY WhichEnds
<1>2. NativeIn(C[t]) = {} /\ h \in ForeignIn(C[t]) /\ q[t] \in Foreigns \cup {NULL}
  BY <1>1 DEF HandlerEnds
<1>3. /\ C \in [Threads -> Seq(Frames)] /\ D \in [Threads -> Seq(Frames)]
      /\ \A u \in Threads \ {t} : D[u] = C[u]
  BY DEF Moves
<1>4. \A u \in Threads : \A i \in DOMAIN C[u] : C[u][i].e \in Objects
  BY <1>3, FrameOf
<1>5. Ours \cap Foreigns = {} /\ NULL \notin Objects /\ q[t] \notin Ours /\ NULL \notin Foreigns
  BY DEF ObjectsAssumption, Objects
<1>6. /\ NativeIn(D[t]) = {} /\ ForeignIn(D[t]) = ForeignIn(C[t]) \ {h}
      /\ \A e : HandlersIn(D[t], e) = HandlersIn(C[t], e) \ {h}
      /\ \A e : FliesIn(D[t], e) <=> FliesIn(C[t], e)
  <2>1. /\ NativeIn(D[t]) = NativeIn(C[t]) \ {h} /\ ForeignIn(D[t]) = ForeignIn(C[t]) \ {h}
        /\ \A e : HandlersIn(D[t], e) = HandlersIn(C[t], e) \ {h}
        /\ \A e : FliesIn(D[t], e) <=> \E i \in DOMAIN C[t] \ {h} : C[t][i].e = e /\ C[t][i].k \in Flight
    BY ShrinkView
  <2>2. \A e : FliesIn(D[t], e) <=> FliesIn(C[t], e)
    BY <2>1 DEF FliesIn, Flight
  <2> QED  BY <1>2, <2>1, <2>2
\* What is caught is in foreign handlers only.
<1>7. \A u \in Threads : \A i \in DOMAIN C[u] : C[u][i].e = q[t] => C[u][i].k = "handler" /\ C[u][i].e \notin Ours
  <2>1. CASE q[t] = NULL
    BY <1>4, <1>5, <2>1
  <2>2. CASE q[t] \in Foreigns
    <3>1. Holds(C, H, q, t, q[t])
      BY DEF Holds
    <3> QED  BY <1>5, <2>2, <3>1 DEF Placed, ForeignHeld
  <2> QED  BY <1>2, <2>1, <2>2
<1>8. FramesMatch(D, G) /\ OnePlace(D) /\ HandlersTogether(D)
  <2>1. \A u \in Threads : \A i \in DOMAIN C[u] :
          C[u][i].k # "handler" \/ C[u][i].e \in Ours => G[C[u][i].e].state = H[C[u][i].e].state
    BY <1>4, <1>7 DEF HeadersKept
  <2>2. StatesKept(C, H, G, t, h)
    BY <2>1 DEF StatesKept
  <2>3. FramesMatch(C, H) /\ OnePlace(C) /\ HandlersTogether(C)
    BY DEF Placed
  <2> QED  BY <2>2, <2>3, ShrinkPlaces
<1>9. \A u \in Threads : \A j \in NativeIn(C[u]) : G[C[u][j].e].next = H[C[u][j].e].next
  BY <1>4, <1>5 DEF HeadersKept, NativeIn
<1>10. CaughtInOrder(D, G, z)
  <2>1. ASSUME NEW u \in Threads
        PROVE
    /\ \A j \in NativeIn(D[u]) :
         /\ IsLast(NativeIn(D[u]), j) => z[u] = D[u][j].e
         /\ IsFirst(NativeIn(D[u]), j) => G[D[u][j].e].next \in Foreigns \cup {NULL}
         /\ \A i \in NativeIn(D[u]) : Before(NativeIn(D[u]), i, j) =>
              D[u][i].e = D[u][j].e \/ G[D[u][j].e].next = D[u][i].e
    /\ NativeIn(D[u]) = {} => z[u] \in Foreigns \cup {NULL}
    <3>1. CASE u # t
      <4>1. D[u] = C[u] /\ z[u] = q[u]
        BY <1>3, <3>1
      <4> QED  BY <4>1, <1>9 DEF Placed, CaughtInOrder
    <3>2. CASE u = t
      BY <1>6, <3>2
    <3> QED  BY <3>1, <3>2
  <2> QED  BY <2>1 DEF CaughtInOrder
<1>11. ForeignHeld(D, G, z)
  <2>1. ASSUME NEW u \in Threads, NEW g \in Foreigns, Holds(D, G, z, u, g)
        PROVE  u # t /\ g # q[t] /\ Holds(C, H, q, u, g)
    <3>1. u # t
      BY <1>5, <1>6, <2>1 DEF Holds
    <3>2. D[u] = C[u] /\ z[u] = q[u]
      BY <1>3, <3>1
    <3>3. Holds(C, H, q, u, g)
      BY <2>1, <3>2, <1>9 DEF Holds
    <3>4. g = q[t] => Holds(C, H, q, t, g)
      BY DEF Holds
    <3>5. g # q[t]
      BY <3>1, <3>3, <3>4 DEF Placed, ForeignHeld
    <3> QED  BY <3>1, <3>3, <3>5
  <2>2. \A v \in Threads : \A j \in DOMAIN D[v] : \E i \in DOMAIN C[v] : D[v][j] = C[v][i]
    <3>1. \A j \in DOMAIN D[t] : Src(h, n, j) \in DOMAIN C[t] /\ D[t][j] = C[t][Src(h, n, j)]
      BY RemovesFrom
    <3>2. \A j \in DOMAIN D[t] : \E i \in DOMAIN C[t] : D[t][j] = C[t][i]
      BY <3>1
    <3>3. \A v \in Threads \ {t} : \A j \in DOMAIN D[v] : j \in DOMAIN C[v] /\ D[v][j] = C[v][j]
      BY <1>3
    <3> QED  BY <3>2, <3>3
  <2>3. ASSUME NEW u \in Threads, NEW g \in Foreigns, Holds(D, G, z, u, g)
        PROVE  /\ G[g].state = "live" /\ ForeignIn(D[u]) # {}
               /\ \A v \in Threads : /\ Holds(D, G, z, v, g) => v = u
                                     /\ \A i \in DOMAIN D[v] : D[v][i].e = g => D[v][i].k = "handler"
    <3>1. u # t /\ g # q[t] /\ Holds(C, H, q, u, g)
      BY <2>1, <2>3
    <3>2. /\ H[g].state = "live" /\ ForeignIn(C[u]) # {}
          /\ \A v \in Threads : /\ Holds(C, H, q, v, g) => v = u
                                /\ \A i \in DOMAIN C[v] : C[v][i].e = g => C[v][i].k = "handler"
      BY <3>1 DEF Placed, ForeignHeld
    <3>3. \A v \in Threads : Holds(D, G, z, v, g) => v = u
      BY <2>1, <3>2
    <3>4. \A v \in Threads : \A i \in DOMAIN D[v] : D[v][i].e = g => D[v][i].k = "handler"
      BY <2>2, <3>2
    <3>5. G[g].state = H[g].state
      BY <3>1 DEF HeadersKept, Objects
    <3>6. D[u] = C[u]
      BY <1>3, <3>1
    <3> QED  BY <3>2, <3>3, <3>4, <3>5, <3>6
  <2>4. ASSUME NEW u \in Threads, NEW i \in ForeignIn(D[u]), NEW j \in NativeIn(D[u])
        PROVE  i < j
    <3>1. u # t /\ D[u] = C[u]
      BY <1>3, <1>6
    <3> QED  BY <3>1 DEF Placed, ForeignHeld
  <2> QED  BY <2>3, <2>4 DEF ForeignHeld
<1>12. ASSUME NEW e \in Ours
       PROVE  HandlerCount(D, G, e)
  <2>1. HandlerCount(C, H, e) /\ G[e].handlers = H[e].handlers
    BY <1>5 DEF Placed, HandlerCounts, HeadersKept, Objects, Ours
  <2>2. \A u \in Threads : HandlersIn(D[u], e) = HandlersIn(C[u], e) /\ (FliesIn(D[u], e) <=> FliesIn(C[u], e))
    <3>1. HandlersIn(D[t], e) = HandlersIn(C[t], e) \ {h} /\ (FliesIn(D[t], e) <=> FliesIn(C[t], e))
      BY <1>6
    <3>2. h \notin HandlersIn(C[t], e)
      BY <1>2, <1>5 DEF HandlersIn, ForeignIn
    <3>3. HandlersIn(C[t], e) \ {h} = HandlersIn(C[t], e)
      BY <3>2
    <3> QED  BY <1>3, <3>1, <3>3
  <2> QED  BY <2>1, <2>2, SameCount
<1>13. HandlerCounts(D, G)
  <2>1. \A e \in Ours : HandlerCount(D, G, e)
    BY <1>12
  <2> QED  BY <2>1 DEF HandlerCounts
<1> QED  BY <1>8, <1>10, <1>11, <1>13 DEF Placed

\* The headers as far as places are concerned.
LEMMA PlacedAlike ==
  ASSUME NEW C \in [Threads -> Seq(Frames)], NEW H, NEW G, NEW q, Placed(C, H, q), HeadersKept(Objects, H, G)
  PROVE  Placed(C, G, q)
<1>1. \A u \in Threads : \A i \in DOMAIN C[u] : C[u][i].e \in Objects
  BY FrameOf
<1>2. \A e \in Objects : G[e].state = H[e].state /\ G[e].next = H[e].next /\ G[e].handlers = H[e].handlers
  BY DEF HeadersKept
<1>3. FramesMatch(C, G)
  BY <1>1, <1>2 DEF Placed, FramesMatch
<1>4. \A u \in Threads : \A j \in NativeIn(C[u]) : G[C[u][j].e].next = H[C[u][j].e].next
  BY <1>1, <1>2 DEF NativeIn
<1>5. CaughtInOrder(C, G, q)
  BY <1>4 DEF Placed, CaughtInOrder
<1>6. \A u \in Threads, g \in Foreigns : Holds(C, G, q, u, g) <=> Holds(C, H, q, u, g)
  BY <1>4 DEF Holds
<1>7. ForeignHeld(C, G, q)
  <2>1. \A g \in Foreigns : G[g].state = H[g].state
    BY <1>2 DEF Objects
  <2> QED  BY <1>6, <2>1 DEF Placed, ForeignHeld
<1>8. HandlerCounts(C, G)
  BY <1>2 DEF Placed, HandlerCounts, HandlerCount, Objects, Ours
<1> QED  BY <1>3, <1>5, <1>7, <1>8 DEF Placed

-----------------------------------------------------------------------------
(***************************************************************************)
(* What is counted: the flights of a thread, the owners of an exception,   *)
(* and the cleanups it runs.                                               *)
(***************************************************************************)
UsedAt(C, u, i, e) == i \in DOMAIN C[u] /\ C[u][i].e = e /\ C[u][i].k \in Flight \cup {"handler"}

\* An exception is used where a frame of it is.
LEMMA UsedWhere ==
  ASSUME NEW C, NEW e
  PROVE  Used(C, e) <=> \E u \in Threads : \E i \in DOMAIN C[u] : UsedAt(C, u, i, e)
<1>1. ASSUME NEW u \in Threads
      PROVE  FliesIn(C[u], e) \/ HandlersIn(C[u], e) # {} <=> \E i \in DOMAIN C[u] : UsedAt(C, u, i, e)
  <2>1. HandlersIn(C[u], e) # {} <=> \E i \in DOMAIN C[u] : C[u][i].e = e /\ C[u][i].k = "handler"
    BY DEF HandlersIn
  <2>2. FliesIn(C[u], e) <=> \E i \in DOMAIN C[u] : C[u][i].e = e /\ C[u][i].k \in Flight
    BY DEF FliesIn
  <2>3. \A i \in DOMAIN C[u] : UsedAt(C, u, i, e) <=>
          C[u][i].e = e /\ (C[u][i].k \in Flight \/ C[u][i].k = "handler")
    BY DEF UsedAt
  <2> QED  BY <2>1, <2>2, <2>3
<1> QED  BY <1>1 DEF Used

\* The cleanups of every thread stay where they are.
SameCleanups(C, D) ==
  \A u \in Threads : /\ CleanupsIn(D[u]) = CleanupsIn(C[u])
                     /\ \A i \in CleanupsIn(C[u]) : D[u][i] = C[u][i]

\* A frame that is no handler is pushed.
PushCounted(C, D, t, n, f) ==
  /\ \A e : Used(D, e) <=> Used(C, e) \/ (f.k = "search" /\ f.e = e)
  /\ FlightsIn(D[t]) = IF f.k = "search" /\ f.e \in Ours THEN FlightsIn(C[t]) \cup {n} ELSE FlightsIn(C[t])
  /\ n \notin FlightsIn(C[t])
  /\ SameCleanups(C, D)

\* Which exceptions are used, and how many fly, when a frame is pushed.
LEMMA PushCounts ==
  ASSUME NEW C, NEW D, NEW t \in Threads, NEW n, NEW f \in Frames,
         Moves(C, D, t), Pushes(C[t], D[t], f, n), f.k \in {"construct", "search", "destroy"}
  PROVE  PushCounted(C, D, t, n, f)
<1>1. /\ DOMAIN D[t] = DOMAIN C[t] \cup {n} /\ n \notin DOMAIN C[t]
      /\ D[t][n] = f /\ \A i \in DOMAIN C[t] : D[t][i] = C[t][i]
      /\ \A u \in Threads \ {t} : D[u] = C[u]
  BY DEF Pushes, Moves
<1>2. ASSUME NEW e
      PROVE  Used(D, e) <=> Used(C, e) \/ (f.k = "search" /\ f.e = e)
  <2>1. UsedAt(D, t, n, e) <=> f.k = "search" /\ f.e = e
    BY <1>1 DEF UsedAt, Flight
  <2>2. \A i \in DOMAIN C[t] : UsedAt(D, t, i, e) <=> UsedAt(C, t, i, e)
    BY <1>1 DEF UsedAt
  <2>3. \A u \in Threads \ {t} : \A i : UsedAt(D, u, i, e) <=> UsedAt(C, u, i, e)
    BY <1>1 DEF UsedAt
  <2>4. \A u \in Threads \ {t} : DOMAIN D[u] = DOMAIN C[u]
    BY <1>1
  <2>5. (\E i \in DOMAIN D[t] : UsedAt(D, t, i, e)) <=>
          (\E i \in DOMAIN C[t] : UsedAt(C, t, i, e)) \/ (f.k = "search" /\ f.e = e)
    BY <1>1, <2>1, <2>2
  <2> QED  BY <2>3, <2>4, <2>5, UsedWhere
<1>3. FlightsIn(D[t]) = IF f.k = "search" /\ f.e \in Ours THEN FlightsIn(C[t]) \cup {n} ELSE FlightsIn(C[t])
  BY <1>1 DEF FlightsIn, Flight
<1>4. n \notin FlightsIn(C[t])
  BY <1>1 DEF FlightsIn
<1>5. CleanupsIn(D[t]) = CleanupsIn(C[t])
  BY <1>1 DEF CleanupsIn
<1>6. SameCleanups(C, D)
  BY <1>1, <1>5 DEF SameCleanups, CleanupsIn
<1> QED  BY <1>2, <1>3, <1>4, <1>6 DEF PushCounted

\* The top frame changes its kind.
RetopCounted(C, D, t, n, f) ==
  /\ \A e : Used(D, e) <=> Used(C, e) \/ f.e = e
  /\ FlightsIn(D[t]) = IF f.k \in Flight /\ f.e \in Ours THEN FlightsIn(C[t]) \cup {n} ELSE FlightsIn(C[t]) \ {n}
  /\ n \in FlightsIn(C[t]) <=> C[t][n].k \in Flight /\ f.e \in Ours
  /\ CleanupsIn(D[t]) = IF f.k = "cleanup" THEN CleanupsIn(C[t]) \cup {n} ELSE CleanupsIn(C[t]) \ {n}
  /\ C[t][n].k # "cleanup" /\ f.k # "cleanup" => SameCleanups(C, D)

\* The same when the top frame changes its kind.
LEMMA RetopCounts ==
  ASSUME NEW C, NEW D, NEW t \in Threads, NEW n, NEW f \in Frames,
         Moves(C, D, t), Retops(C[t], D[t], f, n),
         C[t][n].e = f.e, f.k \in Flight \cup {"handler"}
  PROVE  RetopCounted(C, D, t, n, f)
<1>1. /\ DOMAIN D[t] = DOMAIN C[t] /\ n \in DOMAIN C[t]
      /\ D[t][n] = f /\ \A i \in DOMAIN C[t] \ {n} : D[t][i] = C[t][i]
      /\ \A u \in Threads \ {t} : D[u] = C[u]
  BY DEF Retops, Ends, Moves
<1>2. ASSUME NEW e
      PROVE  Used(D, e) <=> Used(C, e) \/ f.e = e
  <2>1. UsedAt(D, t, n, e) <=> f.e = e
    BY <1>1 DEF UsedAt
  <2>2. \A i \in DOMAIN C[t] \ {n} : UsedAt(D, t, i, e) <=> UsedAt(C, t, i, e)
    BY <1>1 DEF UsedAt
  <2>3. \A u \in Threads \ {t} : \A i : UsedAt(D, u, i, e) <=> UsedAt(C, u, i, e)
    BY <1>1 DEF UsedAt
  <2>4. \A u \in Threads \ {t} : DOMAIN D[u] = DOMAIN C[u]
    BY <1>1
  <2>5. UsedAt(C, t, n, e) => f.e = e
    BY <1>1 DEF UsedAt
  <2>6. (\E i \in DOMAIN D[t] : UsedAt(D, t, i, e)) <=> (\E i \in DOMAIN C[t] : UsedAt(C, t, i, e)) \/ f.e = e
    BY <1>1, <2>1, <2>2, <2>5
  <2> QED  BY <2>3, <2>4, <2>6, UsedWhere
<1>3. FlightsIn(D[t]) = IF f.k \in Flight /\ f.e \in Ours THEN FlightsIn(C[t]) \cup {n} ELSE FlightsIn(C[t]) \ {n}
  BY <1>1 DEF FlightsIn
<1>4. n \in FlightsIn(C[t]) <=> C[t][n].k \in Flight /\ f.e \in Ours
  BY <1>1 DEF FlightsIn
<1>5. CleanupsIn(D[t]) = IF f.k = "cleanup" THEN CleanupsIn(C[t]) \cup {n} ELSE CleanupsIn(C[t]) \ {n}
  BY <1>1 DEF CleanupsIn
<1>6. ASSUME C[t][n].k # "cleanup", f.k # "cleanup"
      PROVE  SameCleanups(C, D)
  <2>1. n \notin CleanupsIn(C[t]) /\ CleanupsIn(D[t]) = CleanupsIn(C[t])
    BY <1>5, <1>6 DEF CleanupsIn
  <2> QED  BY <1>1, <2>1 DEF SameCleanups, CleanupsIn
<1> QED  BY <1>2, <1>3, <1>4, <1>5, <1>6 DEF RetopCounted

\* The frame h, which is no cleanup, is removed.
RemoveCounted(C, D, t, h, n) ==
  /\ \A e : e # C[t][h].e => (Used(D, e) <=> Used(C, e))
  /\ Used(D, C[t][h].e) <=> \E u \in Threads : \E i \in DOMAIN C[u] :
       (u # t \/ i # h) /\ UsedAt(C, u, i, C[t][h].e)
  /\ h = n => FlightsIn(D[t]) = FlightsIn(C[t]) \ {n}
  /\ h # n => /\ FlightsIn(D[t]) = IF n \in FlightsIn(C[t]) THEN (FlightsIn(C[t]) \ {n}) \cup {h} ELSE FlightsIn(C[t])
              /\ h \notin FlightsIn(C[t])
  /\ SameCleanups(C, D)

\* The same when a frame is removed.
LEMMA RemoveCounts ==
  ASSUME NEW C, NEW D, NEW t \in Threads, NEW h, NEW n,
         Moves(C, D, t), Removes(C[t], D[t], h, n),
         C[t][h].k # "cleanup", h # n => C[t][n].k = "raise" /\ C[t][h].k \in {"handler", "construct"}
  PROVE  RemoveCounted(C, D, t, h, n)
<1>1. /\ DOMAIN D[t] = DOMAIN C[t] \ {n} /\ n \in DOMAIN C[t] /\ h \in DOMAIN C[t]
      /\ h # n => D[t][h] = C[t][n]
      /\ \A i \in DOMAIN C[t] \ {n, h} : D[t][i] = C[t][i]
      /\ \A u \in Threads \ {t} : D[u] = C[u]
  BY DEF Removes, Ends, Moves
<1>2. ASSUME NEW e
      PROVE  Used(D, e) <=> \E u \in Threads : \E i \in DOMAIN C[u] : (u # t \/ i # h) /\ UsedAt(C, u, i, e)
  <2>1. ASSUME NEW j \in DOMAIN D[t]
        PROVE  /\ Src(h, n, j) \in DOMAIN C[t] \ {h}
               /\ UsedAt(D, t, j, e) <=> UsedAt(C, t, Src(h, n, j), e)
    <3>1. Src(h, n, j) \in DOMAIN C[t] \ {h} /\ D[t][j] = C[t][Src(h, n, j)]
      BY RemovesFrom
    <3> QED  BY <3>1 DEF UsedAt
  <2>2. \A i \in DOMAIN C[t] \ {h} : \E j \in DOMAIN D[t] : Src(h, n, j) = i
    BY RemovesFrom
  <2>3. (\E j \in DOMAIN D[t] : UsedAt(D, t, j, e)) <=> (\E i \in DOMAIN C[t] \ {h} : UsedAt(C, t, i, e))
    BY <2>1, <2>2
  <2>4. \A u \in Threads \ {t} : DOMAIN D[u] = DOMAIN C[u] /\ \A i : UsedAt(D, u, i, e) <=> UsedAt(C, u, i, e)
    BY <1>1 DEF UsedAt
  <2> QED  BY <2>3, <2>4, UsedWhere
<1>3. ASSUME NEW e, e # C[t][h].e
      PROVE  Used(D, e) <=> Used(C, e)
  <2>1. ~UsedAt(C, t, h, e)
    BY <1>3 DEF UsedAt
  <2>2. Used(D, e) <=> \E u \in Threads : \E i \in DOMAIN C[u] : (u # t \/ i # h) /\ UsedAt(C, u, i, e)
    BY <1>2
  <2>3. Used(C, e) <=> \E u \in Threads : \E i \in DOMAIN C[u] : UsedAt(C, u, i, e)
    BY UsedWhere
  <2> QED  BY <2>1, <2>2, <2>3
<1>4. h = n => FlightsIn(D[t]) = FlightsIn(C[t]) \ {n}
  BY <1>1 DEF FlightsIn
<1>5. ASSUME h # n
      PROVE  /\ FlightsIn(D[t]) = IF n \in FlightsIn(C[t]) THEN (FlightsIn(C[t]) \ {n}) \cup {h} ELSE FlightsIn(C[t])
             /\ h \notin FlightsIn(C[t])
  <2>1. C[t][h].k \notin Flight
    BY <1>5 DEF Flight
  <2>2. h \notin FlightsIn(C[t])
    BY <2>1 DEF FlightsIn
  <2>3. CASE n \in FlightsIn(C[t])
    BY <1>1, <1>5, <2>1, <2>3 DEF FlightsIn
  <2>4. CASE n \notin FlightsIn(C[t])
    <3>1. C[t][n].e \notin Ours
      BY <1>1, <1>5, <2>4 DEF FlightsIn, Flight
    <3>2. FlightsIn(D[t]) = FlightsIn(C[t])
      BY <1>1, <1>5, <2>1, <3>1 DEF FlightsIn
    <3> QED  BY <2>2, <2>4, <3>2
  <2> QED  BY <2>2, <2>3, <2>4
<1>6. SameCleanups(C, D)
  <2>1. h \notin CleanupsIn(C[t]) /\ n \notin CleanupsIn(C[t])
    BY DEF CleanupsIn
  <2>2. CleanupsIn(D[t]) = CleanupsIn(C[t])
    BY <1>1, <2>1 DEF CleanupsIn
  <2> QED  BY <1>1, <2>1, <2>2 DEF SameCleanups, CleanupsIn
<1> QED  BY <1>2, <1>3, <1>4, <1>5, <1>6 DEF RemoveCounted

\* A thread has finitely many exceptions in flight.
LEMMA FlightsFinite ==
  ASSUME NEW s \in Seq(Frames)
  PROVE  IsFiniteSet(FlightsIn(s)) /\ Cardinality(FlightsIn(s)) \in Nat
<1>1. IsFiniteSet(1 .. Len(s)) /\ FlightsIn(s) \subseteq 1 .. Len(s)
  BY FS_Interval DEF FlightsIn
<1>2. IsFiniteSet(FlightsIn(s))
  BY <1>1, FS_Subset
<1> QED  BY <1>2, FS_CardinalityType

\* A set keeps its size when one element is exchanged.
LEMMA FlightMoves ==
  ASSUME NEW S, IsFiniteSet(S), NEW n \in S, NEW h, h \notin S
  PROVE  Cardinality((S \ {n}) \cup {h}) = Cardinality(S)
<1>1. Cardinality(S) \in Nat /\ Cardinality(S \ {n}) = Cardinality(S) - 1 /\ IsFiniteSet(S \ {n})
  BY FS_RemoveElement, FS_CardinalityType
<1>2. Cardinality((S \ {n}) \cup {h}) = Cardinality(S \ {n}) + 1
  <2>1. h \notin S \ {n}
    OBVIOUS
  <2> QED  BY <1>1, <2>1, FS_AddElement
<1> QED  BY <1>1, <1>2

\* Only t's flights change, and what is counted of them.
LEMMA FlightsStep ==
  ASSUME NEW C, NEW D, NEW t \in Threads, NEW N, NEW M, NEW K, NEW L,
         Moves(C, D, t), FlightsCounted(C, N, M),
         K[t] = Cardinality(FlightsIn(D[t])) + L[t],
         \A u \in Threads \ {t} : K[u] = N[u],
         \A u \in Threads \ {t} : L[u] = M[u]
  PROVE  FlightsCounted(D, K, L)
BY DEF Moves, FlightsCounted

\* The reference counts stay right when no owner comes or goes.
LEMMA RefsKept ==
  ASSUME NEW C, NEW D, NEW H, NEW G, NEW P, RefsCounted(C, H, P),
         \A e \in Ours : Used(D, e) <=> Used(C, e),
         \A p \in Primaries : G[p].refs = H[p].refs /\ (G[p].state = "live" <=> H[p].state = "live"),
         \A d \in Dependents : G[d].state = H[d].state /\ G[d].primary = H[d].primary
  PROVE  RefsCounted(D, G, P)
<1>1. \A p \in Primaries : DependentsOf(G, p) = DependentsOf(H, p)
  BY DEF DependentsOf
<1>2. \A p \in Primaries : One(Used(D, p)) = One(Used(C, p))
  BY DEF One, Ours
<1>3. \A d \in Dependents : Used(D, d) <=> Used(C, d)
  BY DEF Ours
<1> QED  BY <1>1, <1>2, <1>3 DEF RefsCounted

\* The propagating stack does not change.
LEMMA PropagatesKept ==
  ASSUME NEW C \in [Threads -> Seq(Frames)], NEW D, NEW H, NEW G, NEW g, SameCleanups(C, D), Propagates(C, H, g),
         \A e \in Ours : G[e].props = H[e].props \/ (G[e].props = 0 /\ ~InCleanup(C, e)),
         \A e \in Ours : InCleanup(C, e) => G[e].nextProp = H[e].nextProp
  PROVE  Propagates(D, G, g)
<1>1. \A u \in Threads : CleanupsIn(D[u]) = CleanupsIn(C[u]) /\ \A i \in CleanupsIn(C[u]) : D[u][i] = C[u][i]
  BY DEF SameCleanups
<1>2. \A e : InCleanup(D, e) <=> InCleanup(C, e)
  BY <1>1 DEF InCleanup
<1>3. \A e \in Ours : G[e].props = One(InCleanup(D, e))
  BY <1>2 DEF Propagates, One
<1>4. \A u \in Threads : \A j \in CleanupsIn(C[u]) : C[u][j].e \in Ours => G[C[u][j].e].nextProp = H[C[u][j].e].nextProp
  BY DEF InCleanup
<1>5. ASSUME NEW u \in Threads
      PROVE
       /\ \A j \in CleanupsIn(D[u]) :
            /\ IsLast(CleanupsIn(D[u]), j) => g[u] = D[u][j].e
            /\ IsFirst(CleanupsIn(D[u]), j) /\ D[u][j].e \in Ours => G[D[u][j].e].nextProp = NULL
            /\ \A i \in CleanupsIn(D[u]) : Before(CleanupsIn(D[u]), i, j) =>
                 D[u][j].e \in Ours /\ G[D[u][j].e].nextProp = D[u][i].e
       /\ CleanupsIn(D[u]) = {} => g[u] = NULL
  <2> DEFINE S == CleanupsIn(C[u])
  <2>1. CleanupsIn(D[u]) = S /\ \A i \in S : D[u][i] = C[u][i]
    BY <1>1
  <2>2. /\ \A j \in S :
             /\ IsLast(S, j) => g[u] = C[u][j].e
             /\ IsFirst(S, j) /\ C[u][j].e \in Ours => H[C[u][j].e].nextProp = NULL
             /\ \A i \in S : Before(S, i, j) => C[u][j].e \in Ours /\ H[C[u][j].e].nextProp = C[u][i].e
        /\ S = {} => g[u] = NULL
    BY DEF Propagates
  <2>3. \A j \in S : C[u][j].e \in Ours => G[C[u][j].e].nextProp = H[C[u][j].e].nextProp
    BY <1>4
  <2> HIDE DEF S
  <2>4. ASSUME NEW j \in S
        PROVE  /\ IsLast(S, j) => g[u] = D[u][j].e
               /\ IsFirst(S, j) /\ D[u][j].e \in Ours => G[D[u][j].e].nextProp = NULL
               /\ \A i \in S : Before(S, i, j) => D[u][j].e \in Ours /\ G[D[u][j].e].nextProp = D[u][i].e
    BY <2>1, <2>2, <2>3
  <2> QED  BY <2>1, <2>2, <2>4
<1> QED  BY <1>3, <1>5 DEF Propagates

(***************************************************************************)
(* An owner of the primary exception p is gone and its reference not yet   *)
(* dropped.                                                                *)
(***************************************************************************)
RefsOwed(C, H, P, p) ==
  /\ \A o \in Primaries :
       /\ H[o].refs = P[o] + Cardinality(DependentsOf(H, o)) + One(Used(C, o)) + One(o = p)
       /\ H[o].state = "live" <=> H[o].refs > 0
  /\ \A d \in Dependents :
       /\ H[d].state = "live" => H[d].primary \in Primaries /\ Used(C, d)
       /\ H[d].state # "live" => H[d].state = "free" /\ H[d].primary = NULL

\* A primary exception has finitely many dependent ones.
LEMMA DependentsCounted ==
  ASSUME ObjectsAssumption, NEW H, NEW p
  PROVE  IsFiniteSet(DependentsOf(H, p)) /\ Cardinality(DependentsOf(H, p)) \in Nat
<1>1. DependentsOf(H, p) \subseteq Dependents /\ IsFiniteSet(Dependents)
  BY DEF DependentsOf, ObjectsAssumption
<1> QED  BY <1>1, FS_Subset, FS_CardinalityType

\* The last frame that uses x is gone.
OwnerOf(H, x, p) == p = IF x \in Dependents THEN H[x].primary ELSE x

UserGone(C, D, H, G, x) ==
  /\ Used(C, x) /\ ~Used(D, x) /\ H[x].state = "live"
  /\ \A e \in Ours : e # x => (Used(D, e) <=> Used(C, e))
  /\ \A o \in Primaries : G[o].refs = H[o].refs /\ G[o].state = H[o].state
  /\ \A d \in Dependents : d # x => G[d].state = H[d].state /\ G[d].primary = H[d].primary
  /\ x \in Dependents => G[x].state = "free" /\ G[x].primary = NULL

\* The user x that ends leaves p one owner short of its reference count.
LEMMA Released ==
  ASSUME ObjectsAssumption,
         NEW C, NEW D, NEW H, NEW G, NEW P \in [Primaries -> Nat], NEW x \in Ours, NEW p,
         RefsCounted(C, H, P), UserGone(C, D, H, G, x), OwnerOf(H, x, p)
  PROVE  p \in Primaries /\ RefsOwed(D, G, P, p)
<1>0. /\ Used(C, x) /\ ~Used(D, x) /\ H[x].state = "live"
      /\ \A e \in Ours : e # x => (Used(D, e) <=> Used(C, e))
      /\ \A o \in Primaries : G[o].refs = H[o].refs /\ G[o].state = H[o].state
      /\ \A d \in Dependents : d # x => G[d].state = H[d].state /\ G[d].primary = H[d].primary
      /\ x \in Dependents => G[x].state = "free" /\ G[x].primary = NULL
      /\ p = IF x \in Dependents THEN H[x].primary ELSE x
  BY DEF UserGone, OwnerOf
<1>1. Primaries \cap Dependents = {} /\ NULL \notin Primaries
  BY <1>0 DEF ObjectsAssumption, Objects, Ours
<1>2. p \in Primaries
  BY <1>0, <1>1 DEF RefsCounted, Ours
<1>3. \A d \in Dependents :
       /\ G[d].state = "live" => G[d].primary \in Primaries /\ Used(D, d)
       /\ G[d].state # "live" => G[d].state = "free" /\ G[d].primary = NULL
  BY <1>0 DEF RefsCounted, Ours
<1>4. ASSUME NEW o \in Primaries
      PROVE  G[o].refs = P[o] + Cardinality(DependentsOf(G, o)) + One(Used(D, o)) + One(o = p)
  <2>1. H[o].refs = P[o] + Cardinality(DependentsOf(H, o)) + One(Used(C, o)) /\ G[o].refs = H[o].refs
    BY <1>0 DEF RefsCounted
  <2>0. P[o] \in Nat /\ Cardinality(DependentsOf(H, o)) \in Nat /\ One(Used(C, o)) \in Nat
    BY <1>0, DependentsCounted DEF One
  <2>2. CASE x \notin Dependents
    <3>1. DependentsOf(G, o) = DependentsOf(H, o)
      BY <1>0, <2>2 DEF DependentsOf
    <3>2. CASE o = x
      <4>1. One(Used(C, o)) = 1 /\ One(Used(D, o)) = 0 /\ One(o = p) = 1
        BY <1>0, <2>2, <3>2 DEF One
      <4> QED  BY <1>0, <2>0, <2>1, <3>1, <4>1
    <3>3. CASE o # x
      <4>1. One(Used(D, o)) = One(Used(C, o)) /\ One(o = p) = 0
        BY <1>0, <2>2, <3>3 DEF One, Ours
      <4> QED  BY <1>0, <2>0, <2>1, <3>1, <4>1
    <3> QED  BY <1>0, <3>2, <3>3
  <2>3. CASE x \in Dependents
    <3>1. o # x /\ One(Used(D, o)) = One(Used(C, o))
      BY <1>0, <1>1, <2>3 DEF One, Ours
    <3>2. IsFiniteSet(DependentsOf(H, o)) /\ Cardinality(DependentsOf(H, o)) \in Nat
      BY <1>0, DependentsCounted
    <3>3. DependentsOf(G, o) = DependentsOf(H, o) \ {x}
      BY <1>0, <1>1, <2>3 DEF DependentsOf
    <3>4. CASE o = p
      <4>1. x \in DependentsOf(H, o) /\ One(o = p) = 1
        BY <1>0, <2>3, <3>4 DEF DependentsOf, One
      <4>2. Cardinality(DependentsOf(G, o)) = Cardinality(DependentsOf(H, o)) - 1
        BY <1>0, <3>2, <3>3, <4>1, FS_RemoveElement
      <4> QED  BY <1>0, <2>0, <2>1, <3>1, <3>2, <4>1, <4>2
    <3>5. CASE o # p
      <4>1. x \notin DependentsOf(H, o) /\ One(o = p) = 0
        BY <1>0, <2>3, <3>5 DEF DependentsOf, One
      <4>2. DependentsOf(G, o) = DependentsOf(H, o)
        BY <1>0, <3>3, <4>1
      <4> QED  BY <1>0, <2>0, <2>1, <3>1, <4>1, <4>2
    <3> QED  BY <1>0, <3>4, <3>5
  <2> QED  BY <1>0, <2>2, <2>3
<1>5. \A o \in Primaries : G[o].state = "live" <=> G[o].refs > 0
  BY <1>0 DEF RefsCounted
<1> QED  BY <1>0, <1>2, <1>3, <1>4, <1>5 DEF RefsOwed

\* What __cxa_decrement_exception_refcount does to the headers and, on thread
\* t, to the frames.
LosesOwner(H, G, p) ==
  G = IF H[p].refs = 1 THEN [H EXCEPT ![p].refs = 0, ![p].state = "dying"]
                       ELSE [H EXCEPT ![p].refs = @ - 1]

MayDestroy(H, C, D, t, p) ==
  D = [C EXCEPT ![t] = IF H[p].refs = 1 THEN Append(C[t], Frame("destroy", p)) ELSE C[t]]

\* What __cxa_decrement_exception_refcount does to the headers.
LEMMA DecrementView ==
  ASSUME ObjectsAssumption, NEW H \in [Objects -> Header], NEW p \in Primaries, NEW G, LosesOwner(H, G, p)
  PROVE  /\ G \in [Objects -> Header]
         /\ \A o \in Objects : /\ G[o].next = H[o].next /\ G[o].handlers = H[o].handlers
                               /\ G[o].primary = H[o].primary
                               /\ G[o].props = H[o].props /\ G[o].nextProp = H[o].nextProp
         /\ \A o \in Objects \ {p} : G[o] = H[o]
         /\ G[p].refs = H[p].refs - 1
         /\ G[p].state = IF H[p].refs = 1 THEN "dying" ELSE H[p].state
<1>1. p \in Objects /\ H[p] \in Header /\ H[p].refs \in Int
  BY DEF Objects, Header
<1>2. CASE H[p].refs = 1
  <2>1. G = [H EXCEPT ![p] = [H[p] EXCEPT !.refs = 0, !.state = "dying"]]
    BY <1>1, <1>2 DEF LosesOwner
  <2>2. [H[p] EXCEPT !.refs = 0, !.state = "dying"] \in Header
    <3>1. [H[p] EXCEPT !.refs = 0] \in Header
      BY <1>1 DEF Header
    <3>2. [[H[p] EXCEPT !.refs = 0] EXCEPT !.state = "dying"] \in Header
      BY <3>1 DEF Header
    <3> QED  BY <1>1, <3>2 DEF Header
  <2>3. \A o \in Objects \ {p} : G[o] = H[o]
    BY <2>1
  <2>4. G[p] = [H[p] EXCEPT !.refs = 0, !.state = "dying"]
    BY <1>1, <2>1
  <2>5. /\ G[p].next = H[p].next /\ G[p].handlers = H[p].handlers /\ G[p].primary = H[p].primary
        /\ G[p].props = H[p].props /\ G[p].nextProp = H[p].nextProp
        /\ G[p].refs = 0 /\ G[p].state = "dying"
    BY <1>1, <2>4 DEF Header
  <2> QED  BY <1>2, <2>1, <2>2, <2>3, <2>5
<1>3. CASE H[p].refs # 1
  <2>1. G = [H EXCEPT ![p] = [H[p] EXCEPT !.refs = H[p].refs - 1]]
    BY <1>1, <1>3 DEF LosesOwner
  <2>2. [H[p] EXCEPT !.refs = H[p].refs - 1] \in Header
    BY <1>1 DEF Header
  <2>3. \A o \in Objects \ {p} : G[o] = H[o]
    BY <2>1
  <2>4. G[p] = [H[p] EXCEPT !.refs = H[p].refs - 1]
    BY <1>1, <2>1
  <2>5. /\ G[p].next = H[p].next /\ G[p].handlers = H[p].handlers /\ G[p].primary = H[p].primary
        /\ G[p].props = H[p].props /\ G[p].nextProp = H[p].nextProp
        /\ G[p].refs = H[p].refs - 1 /\ G[p].state = H[p].state
    BY <1>1, <2>4 DEF Header
  <2> QED  BY <1>3, <2>1, <2>2, <2>3, <2>5
<1> QED  BY <1>2, <1>3

(***************************************************************************)
(* __cxa_decrement_exception_refcount on thread t.                         *)
(***************************************************************************)
LEMMA OwnerGone ==
  ASSUME ObjectsAssumption,
         NEW C \in [Threads -> Seq(Frames)], NEW t \in Threads, NEW D, NEW H \in [Objects -> Header], NEW G, NEW q,
         NEW P \in [Primaries -> Nat], NEW p \in Primaries,
         Placed(C, H, q), RefsOwed(C, H, P, p), LosesOwner(H, G, p),
         MayDestroy(H, C, D, t, p)
  PROVE  /\ D \in [Threads -> Seq(Frames)] /\ Placed(D, G, q) /\ RefsCounted(D, G, P)
         /\ FlightsIn(D[t]) = FlightsIn(C[t]) /\ SameCleanups(C, D)
<1> DEFINE f == Frame("destroy", p)
           n == Len(C[t]) + 1
<1>0. Primaries \cap Dependents = {} /\ p \in Objects /\ p \in Ours /\ p \notin Foreigns
  BY DEF ObjectsAssumption, Objects, Ours
<1>1. /\ G \in [Objects -> Header]
      /\ \A o \in Objects : /\ G[o].next = H[o].next /\ G[o].handlers = H[o].handlers
                            /\ G[o].primary = H[o].primary
      /\ \A o \in Objects \ {p} : G[o] = H[o]
      /\ G[p].refs = H[p].refs - 1
      /\ G[p].state = IF H[p].refs = 1 THEN "dying" ELSE H[p].state
  BY DecrementView
<1>2. H[p].refs \in Int /\ \A o \in Primaries : P[o] \in Nat /\ Cardinality(DependentsOf(H, o)) \in Nat
  BY <1>0, DependentsCounted DEF Header
<1>3. \A o : DependentsOf(G, o) = DependentsOf(H, o)
  BY <1>1 DEF DependentsOf, Objects
<1>4. H[p].refs = P[p] + Cardinality(DependentsOf(H, p)) + One(Used(C, p)) + 1
  BY DEF RefsOwed, One
<1>5. H[p].state = "live" /\ H[p].refs > 0
  <2>1. One(Used(C, p)) \in Nat
    BY DEF One
  <2>2. H[p].refs > 0
    BY <1>2, <1>4, <2>1
  <2> QED  BY <2>2 DEF RefsOwed
<1>6. ASSUME NEW E, \A e : Used(E, e) <=> Used(C, e)
      PROVE  RefsCounted(E, G, P)
  <2>1. ASSUME NEW o \in Primaries
        PROVE  /\ G[o].refs = P[o] + Cardinality(DependentsOf(G, o)) + One(Used(E, o))
               /\ G[o].state = "live" <=> G[o].refs > 0
    <3>1. One(Used(E, o)) = One(Used(C, o)) /\ DependentsOf(G, o) = DependentsOf(H, o)
      BY <1>3, <1>6 DEF One
    <3>2. CASE o = p
      <4>1. One(Used(C, p)) \in Nat
        BY DEF One
      <4>2. G[p].refs = P[p] + Cardinality(DependentsOf(H, p)) + One(Used(C, p))
        BY <1>1, <1>2, <1>4, <4>1
      <4>3. G[p].state = "live" <=> G[p].refs > 0
        BY <1>1, <1>2, <1>5
      <4> QED  BY <3>1, <3>2, <4>2, <4>3
    <3>3. CASE o # p
      <4>1. G[o] = H[o] /\ One(o = p) = 0 /\ One(Used(C, o)) \in Nat /\ P[o] \in Nat
        BY <1>1, <3>3 DEF Objects, One
      <4>2. H[o].refs = P[o] + Cardinality(DependentsOf(H, o)) + One(Used(C, o)) + One(o = p)
        BY DEF RefsOwed
      <4>3. H[o].state = "live" <=> H[o].refs > 0
        BY DEF RefsOwed
      <4>4. H[o].refs = P[o] + Cardinality(DependentsOf(H, o)) + One(Used(C, o))
        BY <1>2, <4>1, <4>2
      <4> QED  BY <3>1, <4>1, <4>3, <4>4
    <3> QED  BY <3>2, <3>3
  <2>2. \A d \in Dependents : G[d] = H[d]
    BY <1>0, <1>1 DEF Objects
  <2>3. \A d \in Dependents :
          /\ G[d].state = "live" => G[d].primary \in Primaries /\ Used(E, d)
          /\ G[d].state # "live" => G[d].state = "free" /\ G[d].primary = NULL
    BY <1>6, <2>2 DEF RefsOwed
  <2> QED  BY <2>1, <2>3 DEF RefsCounted
<1>7. CASE H[p].refs # 1
  <2>1. D = C
    BY <1>7 DEF MayDestroy
  <2>2. \A o \in Objects : G[o].state = H[o].state
    BY <1>1, <1>7
  <2>3. HeadersKept(Objects, H, G)
    BY <1>1, <2>2 DEF HeadersKept
  <2>4. Placed(C, G, q)
    BY <2>3, PlacedAlike
  <2>5. RefsCounted(C, G, P)
    BY <1>6
  <2>6. SameCleanups(C, C)
    BY DEF SameCleanups
  <2> QED  BY <2>1, <2>4, <2>5, <2>6
<1>8. CASE H[p].refs = 1
  <2>1. f \in Frames /\ f.k = "destroy" /\ f.e = p
    BY <1>0 DEF Frames, Kinds, Frame
  <2> HIDE DEF f
  <2>2. D = [C EXCEPT ![t] = Append(C[t], f)] /\ C[t] \in Seq(Frames)
    BY <1>8 DEF MayDestroy, f
  <2>3. Append(C[t], f) \in Seq(Frames) /\ Pushes(C[t], Append(C[t], f), f, n)
    BY <2>1, <2>2, PushView
  <2> HIDE DEF n
  <2>4. D[t] = Append(C[t], f) /\ Moves(C, D, t)
    BY <2>2, <2>3 DEF Moves
  <2>5. Pushes(C[t], D[t], f, n)
    BY <2>3, <2>4
  <2>6. P[p] = 0 /\ ~Used(C, p)
    BY <1>2, <1>4, <1>8 DEF One
  <2>7. ASSUME NEW u \in Threads, NEW i \in DOMAIN C[u]
        PROVE  C[u][i].e # p
    <3>1. SUFFICES ASSUME C[u][i].e = p PROVE FALSE
      OBVIOUS
    <3>2. H[p].state = StateOfFrame(C[u][i].k)
      BY <1>0, <3>1 DEF Placed, FramesMatch
    <3>3. C[u][i].k \in Kinds
      BY FrameOf
    <3>4. C[u][i].k \in Flight \cup {"handler"}
      BY <1>5, <3>2, <3>3 DEF Kinds, StateOfFrame
    <3>5. UsedAt(C, u, i, p)
      BY <3>1, <3>4 DEF UsedAt
    <3> QED  BY <2>6, <3>5, UsedWhere
  <2>8. HandlersIn(C[t], p) = {} /\ H[p].handlers = 0
    <3>1. \A u \in Threads : HandlersIn(C[u], p) = {}
      BY <2>7 DEF HandlersIn
    <3>2. HandlerCount(C, H, p)
      BY <1>0 DEF Placed, HandlerCounts
    <3> QED  BY <3>1, <3>2 DEF HandlerCount
  <2>9. G[p].state = "dying" /\ G[p].handlers = 0
    BY <1>0, <1>1, <1>8, <2>8
  <2>10. Placed(D, G, q)
    <3>1. f.k \in {"construct", "search", "destroy"} /\ (f.k # "search" => f.e \in Primaries)
      BY <2>1
    <3>2. G[f.e].state = StateOfFrame(f.k)
      BY <2>1, <2>9 DEF StateOfFrame
    <3>3. HeadersKept(Objects \ {f.e}, H, G)
      BY <1>1, <2>1 DEF HeadersKept
    <3>4. HandlersIn(C[t], f.e) = {} /\ G[f.e].handlers = 0
      BY <2>1, <2>8, <2>9
    <3>5. \A u \in Threads : \A i \in DOMAIN C[u] : C[u][i].e # f.e
      BY <2>1, <2>7
    <3>6. Admits(C, H, G, q, q, t, f)
      BY <1>0, <2>1, <3>2, <3>3, <3>4, <3>5 DEF Admits
    <3> QED  BY <2>1, <2>4, <2>5, <3>1, <3>6, PushPlaced
  <2>11. PushCounted(C, D, t, n, f)
    <3>1. f.k \in {"construct", "search", "destroy"}
      BY <2>1
    <3> QED  BY <2>1, <2>4, <2>5, <3>1, PushCounts
  <2>12. \A e : Used(D, e) <=> Used(C, e)
    BY <2>1, <2>11 DEF PushCounted
  <2>13. RefsCounted(D, G, P)
    BY <1>6, <2>12
  <2>14. FlightsIn(D[t]) = FlightsIn(C[t])
    BY <2>1, <2>11 DEF PushCounted
  <2> QED  BY <2>4, <2>10, <2>11, <2>13, <2>14 DEF Moves, PushCounted
<1> QED  BY <1>7, <1>8

-----------------------------------------------------------------------------
(* The steps of CxaException. *)

\* What is known of the top frame.
LEMMA TopView ==
  ASSUME CxaTypeOK, NEW t \in Threads, NEW kind, TopIs(t, kind)
  PROVE  /\ ctl[t] \in Seq(Frames) /\ ctl[t] # <<>> /\ Len(ctl[t]) \in DOMAIN ctl[t]
         /\ Ends(ctl[t], Len(ctl[t]))
         /\ Top(t) = ctl[t][Len(ctl[t])] /\ ctl[t][Len(ctl[t])].k = kind
         /\ Top(t) \in Frames /\ Top(t).e \in Objects
<1>1. ctl[t] \in Seq(Frames) /\ ctl[t] # <<>> /\ Top(t).k = kind
  BY DEF CxaTypeOK, TopIs
<1>2. Len(ctl[t]) \in DOMAIN ctl[t] /\ Ends(ctl[t], Len(ctl[t]))
  BY <1>1 DEF Ends
<1>3. Top(t) = ctl[t][Len(ctl[t])] /\ Top(t) \in Frames
  BY <1>1, RetopView DEF Top
<1> QED  BY <1>1, <1>2, <1>3 DEF Frames

\* An exception of this runtime that is not allocated is in no frame.
LEMMA Nowhere ==
  ASSUME NEW C \in [Threads -> Seq(Frames)], NEW H, NEW e \in Ours, FramesMatch(C, H), H[e].state = "free"
  PROVE  /\ \A u \in Threads : \A i \in DOMAIN C[u] : C[u][i].e # e
         /\ \A u \in Threads : HandlersIn(C[u], e) = {}
         /\ ~Used(C, e) /\ ~InCleanup(C, e)
<1>1. ASSUME NEW u \in Threads, NEW i \in DOMAIN C[u], C[u][i].e = e
      PROVE  FALSE
  <2>1. H[e].state = StateOfFrame(C[u][i].k)
    BY <1>1 DEF FramesMatch
  <2> QED  BY <2>1 DEF StateOfFrame
<1>2. \A u \in Threads : HandlersIn(C[u], e) = {}
  BY <1>1 DEF HandlersIn
<1>3. ~Used(C, e)
  BY <1>1, UsedWhere DEF UsedAt
<1>4. ~InCleanup(C, e)
  BY <1>1 DEF InCleanup, CleanupsIn
<1> QED  BY <1>1, <1>2, <1>3, <1>4

\* One header changes.
LEMMA HeaderSet ==
  ASSUME NEW H \in [Objects -> Header], NEW e \in Objects, NEW r \in Header, NEW G, G = [H EXCEPT ![e] = r]
  PROVE  G \in [Objects -> Header] /\ G[e] = r /\ \A o \in Objects \ {e} : G[o] = H[o]
OBVIOUS

\* __cxa_allocate_exception: a new object, unused so far, is in one frame.
LEMMA AllocateKeeps ==
  ASSUME ObjectsAssumption, CxaInv, NEW t \in Threads, NEW e \in Primaries, cxa_allocate_exception(t, e)
  PROVE  CxaInv'
<1> DEFINE f == Frame("construct", e)
           r == [hdr[e] EXCEPT !.state = "raw"]
           n == Len(ctl[t]) + 1
<1>0. CxaTypeOK /\ Placed(ctl, hdr, caught) /\ FramesMatch(ctl, hdr)
  BY DEF CxaInv, Placed
<1>1. e \in Objects /\ e \in Ours /\ e \notin Foreigns /\ e \notin Dependents
  BY DEF ObjectsAssumption, Objects, Ours
<1>2. /\ hdr \in [Objects -> Header] /\ ctl \in [Threads -> Seq(Frames)] /\ hdr[e] \in Header
      /\ ctl[t] \in Seq(Frames)
  BY <1>0, <1>1 DEF CxaTypeOK
<1>3. /\ hdr[e].state = "free"
      /\ hdr' = [hdr EXCEPT ![e] = r]
      /\ ctl' = [ctl EXCEPT ![t] = Append(ctl[t], f)]
      /\ UNCHANGED <<caught, uncaught, propagating, ptrs, foreignCaught, terminated>>
  BY <1>1, <1>2 DEF cxa_allocate_exception
<1>4. /\ r \in Header /\ r.state = "raw" /\ r.refs = hdr[e].refs /\ r.handlers = hdr[e].handlers
      /\ r.props = hdr[e].props /\ r.nextProp = hdr[e].nextProp
  BY <1>2 DEF Header
<1>5. f \in Frames /\ f.k = "construct" /\ f.e = e
  BY <1>1 DEF Frame, Frames, Kinds
<1> HIDE DEF r, f
<1>6. hdr' \in [Objects -> Header] /\ hdr'[e] = r /\ \A o \in Objects \ {e} : hdr'[o] = hdr[o]
  BY <1>1, <1>2, <1>3, <1>4, HeaderSet
<1>7. Append(ctl[t], f) \in Seq(Frames) /\ Pushes(ctl[t], Append(ctl[t], f), f, n)
  BY <1>2, <1>5, PushView
<1> HIDE DEF n
<1>8. Moves(ctl, ctl', t) /\ Pushes(ctl[t], ctl'[t], f, n) /\ ctl' \in [Threads -> Seq(Frames)]
  BY <1>2, <1>3, <1>7 DEF Moves
<1>9. CxaTypeOK'
  BY <1>0, <1>3, <1>6, <1>8 DEF CxaTypeOK
<1>10. /\ \A u \in Threads : \A i \in DOMAIN ctl[u] : ctl[u][i].e # e
       /\ \A u \in Threads : HandlersIn(ctl[u], e) = {}
       /\ ~Used(ctl, e) /\ ~InCleanup(ctl, e)
  BY <1>0, <1>1, <1>2, <1>3, Nowhere
<1>11. Placed(ctl', hdr', caught')
  <2>1. f.k \in {"construct", "search", "destroy"} /\ hdr'[e].handlers = 0
    <3>1. HandlerCount(ctl, hdr, e)
      BY <1>0, <1>1 DEF Placed, HandlerCounts
    <3> QED  BY <1>4, <1>5, <1>6, <1>10, <3>1 DEF HandlerCount
  <2>2. HeadersKept(Objects \ {e}, hdr, hdr')
    BY <1>6 DEF HeadersKept
  <2>3. Admits(ctl, hdr, hdr', caught, caught, t, f)
    BY <1>1, <1>4, <1>5, <1>6, <1>10, <2>1, <2>2 DEF Admits, StateOfFrame
  <2>4. Placed(ctl', hdr', caught)
    BY <1>0, <1>5, <1>8, <2>1, <2>3, PushPlaced
  <2> QED  BY <1>3, <2>4
<1>12. PushCounted(ctl, ctl', t, n, f)
  <2>1. f.k \in {"construct", "search", "destroy"}
    BY <1>5
  <2> QED  BY <1>5, <1>8, <2>1, PushCounts
<1>13. RefsCounted(ctl', hdr', ptrs')
  <2>1. \A o \in Ours : Used(ctl', o) <=> Used(ctl, o)
    BY <1>5, <1>12 DEF PushCounted
  <2>2. \A o \in Ours : hdr'[o].refs = hdr[o].refs /\ (hdr'[o].state = "live" <=> hdr[o].state = "live")
    BY <1>3, <1>4, <1>6 DEF Objects, Ours
  <2>3. \A d \in Dependents : hdr'[d] = hdr[d]
    BY <1>1, <1>6 DEF Objects
  <2>4. RefsCounted(ctl, hdr, ptrs)
    BY DEF CxaInv
  <2>5. \A o \in Primaries : hdr'[o].refs = hdr[o].refs /\ (hdr'[o].state = "live" <=> hdr[o].state = "live")
    BY <2>2 DEF Ours
  <2>6. RefsCounted(ctl', hdr', ptrs)
    BY <2>1, <2>3, <2>4, <2>5, RefsKept
  <2> QED  BY <1>3, <2>6
<1>14. FlightsCounted(ctl', uncaught', foreignCaught')
  <2>1. \A u \in Threads : FlightsIn(ctl'[u]) = FlightsIn(ctl[u])
    BY <1>5, <1>8, <1>12 DEF PushCounted, Moves
  <2> QED  BY <1>3, <2>1 DEF CxaInv, FlightsCounted
<1>15. EHABI => Propagates(ctl', hdr', propagating')
  <2>1. \A o \in Ours : hdr'[o].props = hdr[o].props /\ hdr'[o].nextProp = hdr[o].nextProp
    BY <1>4, <1>6 DEF Objects, Ours
  <2>2. SameCleanups(ctl, ctl')
    BY <1>12 DEF PushCounted
  <2>3. ASSUME EHABI PROVE Propagates(ctl', hdr', propagating)
    <3>1. Propagates(ctl, hdr, propagating)
      BY <2>3 DEF CxaInv
    <3> QED  BY <1>2, <2>1, <2>2, <3>1, PropagatesKept
  <2> QED  BY <1>3, <2>3
<1> QED  BY <1>9, <1>11, <1>13, <1>14, <1>15 DEF CxaInv

\* std::terminate changes nothing that the invariant is about.
LEMMA TerminateKeeps ==
  ASSUME CxaInv, terminated' \in BOOLEAN,
         UNCHANGED <<hdr, caught, uncaught, propagating, ctl, ptrs, foreignCaught>>
  PROVE  CxaInv'
<1>1. CxaTypeOK'
  BY DEF CxaInv, CxaTypeOK
<1> QED  BY <1>1 DEF CxaInv

\* Another runtime throws.
LEMMA ForeignThrowKeeps ==
  ASSUME ObjectsAssumption, CxaInv, NEW t \in Threads, NEW e \in Foreigns, ForeignThrow(t, e)
  PROVE  CxaInv'
<1> DEFINE f == Frame("search", e)
           r == [hdr[e] EXCEPT !.state = "live"]
           n == Len(ctl[t]) + 1
<1>0. CxaTypeOK /\ Placed(ctl, hdr, caught)
  BY DEF CxaInv
<1>1. e \in Objects /\ e \notin Ours
  BY DEF ObjectsAssumption, Objects
<1>2. /\ hdr \in [Objects -> Header] /\ ctl \in [Threads -> Seq(Frames)] /\ hdr[e] \in Header
      /\ ctl[t] \in Seq(Frames)
  BY <1>0, <1>1 DEF CxaTypeOK
<1>3. /\ hdr[e].state = "free"
      /\ hdr' = [hdr EXCEPT ![e] = r]
      /\ ctl' = [ctl EXCEPT ![t] = Append(ctl[t], f)]
      /\ UNCHANGED <<caught, uncaught, propagating, ptrs, foreignCaught, terminated>>
  BY <1>1, <1>2 DEF ForeignThrow
<1>4. r \in Header /\ r.state = "live"
  BY <1>2 DEF Header
<1>5. f \in Frames /\ f.k = "search" /\ f.e = e
  BY <1>1 DEF Frame, Frames, Kinds, Flight
<1> HIDE DEF r, f
<1>6. hdr' \in [Objects -> Header] /\ hdr'[e] = r /\ \A o \in Objects \ {e} : hdr'[o] = hdr[o]
  BY <1>1, <1>2, <1>3, <1>4, HeaderSet
<1>7. Append(ctl[t], f) \in Seq(Frames) /\ Pushes(ctl[t], Append(ctl[t], f), f, n)
  BY <1>2, <1>5, PushView
<1> HIDE DEF n
<1>8. Moves(ctl, ctl', t) /\ Pushes(ctl[t], ctl'[t], f, n) /\ ctl' \in [Threads -> Seq(Frames)]
  BY <1>2, <1>3, <1>7 DEF Moves
<1>9. CxaTypeOK'
  BY <1>0, <1>3, <1>6, <1>8 DEF CxaTypeOK
<1>10. \A o \in Ours : hdr'[o] = hdr[o]
  BY <1>1, <1>6 DEF Objects, Ours
<1>11. Placed(ctl', hdr', caught')
  <2>1. \A u \in Threads : \A i \in DOMAIN ctl[u] : ctl[u][i].e = e => ctl[u][i].k = "handler"
    BY <1>0, <1>3 DEF Placed, FramesMatch, StateOfFrame
  <2>2. HeadersKept(Objects \ {e}, hdr, hdr')
    BY <1>6 DEF HeadersKept
  <2>3. \A u \in Threads : ~Holds(ctl, hdr, caught, u, e)
    BY <1>0, <1>3 DEF Placed, ForeignHeld
  <2>4. Admits(ctl, hdr, hdr', caught, caught, t, f)
    BY <1>1, <1>4, <1>5, <1>6, <2>1, <2>2, <2>3 DEF Admits, StateOfFrame
  <2>5. f.k \in {"construct", "search", "destroy"}
    BY <1>5
  <2>6. Placed(ctl', hdr', caught)
    BY <1>0, <1>5, <1>8, <2>4, <2>5, PushPlaced
  <2> QED  BY <1>3, <2>6
<1>12. PushCounted(ctl, ctl', t, n, f)
  <2>1. f.k \in {"construct", "search", "destroy"}
    BY <1>5
  <2> QED  BY <1>5, <1>8, <2>1, PushCounts
<1>13. RefsCounted(ctl', hdr', ptrs')
  <2>1. \A o \in Ours : Used(ctl', o) <=> Used(ctl, o)
    BY <1>1, <1>5, <1>12 DEF PushCounted
  <2>2. /\ \A o \in Primaries : hdr'[o].refs = hdr[o].refs /\ (hdr'[o].state = "live" <=> hdr[o].state = "live")
        /\ \A d \in Dependents : hdr'[d].state = hdr[d].state /\ hdr'[d].primary = hdr[d].primary
    BY <1>10 DEF Ours
  <2>3. RefsCounted(ctl, hdr, ptrs)
    BY DEF CxaInv
  <2>4. RefsCounted(ctl', hdr', ptrs)
    BY <2>1, <2>2, <2>3, RefsKept
  <2> QED  BY <1>3, <2>4
<1>14. FlightsCounted(ctl', uncaught', foreignCaught')
  <2>1. \A u \in Threads : FlightsIn(ctl'[u]) = FlightsIn(ctl[u])
    BY <1>1, <1>5, <1>8, <1>12 DEF PushCounted, Moves
  <2> QED  BY <1>3, <2>1 DEF CxaInv, FlightsCounted
<1>15. EHABI => Propagates(ctl', hdr', propagating')
  <2>1. \A o \in Ours : hdr'[o].props = hdr[o].props /\ hdr'[o].nextProp = hdr[o].nextProp
    BY <1>10
  <2>2. SameCleanups(ctl, ctl')
    BY <1>12 DEF PushCounted
  <2>3. ASSUME EHABI PROVE Propagates(ctl', hdr', propagating)
    <3>1. Propagates(ctl, hdr, propagating)
      BY <2>3 DEF CxaInv
    <3> QED  BY <1>2, <2>1, <2>2, <3>1, PropagatesKept
  <2> QED  BY <1>3, <2>3
<1> QED  BY <1>9, <1>11, <1>13, <1>14, <1>15 DEF CxaInv

\* __cxa_throw: the first owner, and one more uncaught exception.
LEMMA ThrowKeeps ==
  ASSUME ObjectsAssumption, CxaInv, NEW t \in Threads, cxa_throw(t)
  PROVE  CxaInv'
<1> DEFINE e == Top(t).e
           f == Frame("search", e)
           r == [hdr[e] EXCEPT !.state = "live", !.refs = 1]
           n == Len(ctl[t])
<1>0. CxaTypeOK /\ Placed(ctl, hdr, caught) /\ TopIs(t, "construct")
  BY DEF CxaInv, cxa_throw
<1>1. /\ ctl[t] \in Seq(Frames) /\ ctl[t] # <<>> /\ n \in DOMAIN ctl[t]
      /\ ctl[t][n].k = "construct" /\ ctl[t][n].e = e /\ e \in Objects
  BY <1>0, TopView
<1>2. e \in Primaries /\ e \in Ours /\ e \notin Foreigns /\ e \notin Dependents /\ hdr[e].state = "raw"
  BY <1>0, <1>1 DEF Placed, FramesMatch, StateOfFrame, ObjectsAssumption, Objects, Ours
<1>3. hdr \in [Objects -> Header] /\ ctl \in [Threads -> Seq(Frames)] /\ hdr[e] \in Header
  BY <1>0, <1>1 DEF CxaTypeOK
<1>4. /\ hdr' = [hdr EXCEPT ![e] = r]
      /\ uncaught' = [uncaught EXCEPT ![t] = uncaught[t] + 1]
      /\ ctl' = [ctl EXCEPT ![t] = Append(Front(ctl[t]), f)]
      /\ UNCHANGED <<caught, propagating, ptrs, foreignCaught, terminated>>
  BY <1>1, <1>3 DEF cxa_throw, Replaced, CxaTypeOK
<1>5. /\ r \in Header /\ r.state = "live" /\ r.refs = 1 /\ r.handlers = hdr[e].handlers /\ r.next = hdr[e].next
      /\ r.props = hdr[e].props /\ r.nextProp = hdr[e].nextProp
  <2> DEFINE w == [hdr[e] EXCEPT !.state = "live"]
  <2>1. w \in Header
    BY <1>3 DEF Header
  <2>2. r = [w EXCEPT !.refs = 1]
    BY <1>3 DEF Header
  <2> HIDE DEF w
  <2>3. [w EXCEPT !.refs = 1] \in Header
    BY <2>1 DEF Header
  <2>4. r \in Header
    BY <2>2, <2>3
  <2> QED  BY <1>3, <2>4 DEF Header
<1>6. f \in Frames /\ f.k = "search" /\ f.e = e
  BY <1>1 DEF Frame, Frames, Kinds, Flight
<1> HIDE DEF r, f, e
<1>7. hdr' \in [Objects -> Header] /\ hdr'[e] = r /\ \A o \in Objects \ {e} : hdr'[o] = hdr[o]
  BY <1>1, <1>3, <1>4, <1>5, HeaderSet
<1>8. Append(Front(ctl[t]), f) \in Seq(Frames) /\ Retops(ctl[t], Append(Front(ctl[t]), f), f, n)
  BY <1>1, <1>6, RetopView
<1> HIDE DEF n
<1>9. Moves(ctl, ctl', t) /\ Retops(ctl[t], ctl'[t], f, n) /\ ctl' \in [Threads -> Seq(Frames)]
  BY <1>3, <1>4, <1>8 DEF Moves
<1>10. CxaTypeOK'
  BY <1>0, <1>4, <1>7, <1>9 DEF CxaTypeOK
<1>11. Placed(ctl', hdr', caught')
  <2>1. ctl[t][n].k \notin {"handler", "destroy"} /\ f.k \in Flight /\ hdr'[f.e].state = "live" /\ ctl[t][n].e = f.e
    BY <1>1, <1>5, <1>6, <1>7 DEF Flight
  <2>2. \A o \in Objects \ {f.e} : hdr'[o].state = hdr[o].state
    BY <1>6, <1>7
  <2>3. \A o \in Objects : hdr'[o].next = hdr[o].next /\ hdr'[o].handlers = hdr[o].handlers
    BY <1>5, <1>7
  <2>4. Placed(ctl', hdr', caught)
    BY <1>0, <1>6, <1>9, <2>1, <2>2, <2>3, RetopPlaced
  <2> QED  BY <1>4, <2>4
<1>12. RetopCounted(ctl, ctl', t, n, f)
  <2>1. f.k \in Flight \cup {"handler"} /\ ctl[t][n].e = f.e
    BY <1>1, <1>6 DEF Flight
  <2> QED  BY <1>6, <1>9, <2>1, RetopCounts
\* The exception has no owner yet.
<1>13. ~Used(ctl, e)
  <2>1. ASSUME NEW u \in Threads, NEW i \in DOMAIN ctl[u], UsedAt(ctl, u, i, e)
        PROVE  FALSE
    <3>1. ctl[u][i].e = e /\ ctl[u][i].k \in Flight \cup {"handler"}
      BY <2>1 DEF UsedAt
    <3>2. hdr[e].state = "live"
      BY <1>0, <1>2, <3>1 DEF Placed, FramesMatch, StateOfFrame, Flight
    <3> QED  BY <1>2, <3>2
  <2> QED  BY <2>1, UsedWhere
<1>14. RefsCounted(ctl', hdr', ptrs')
  <2>1. RefsCounted(ctl, hdr, ptrs)
    BY DEF CxaInv
  <2>2. \A o : DependentsOf(hdr', o) = DependentsOf(hdr, o)
    BY <1>2, <1>7 DEF DependentsOf, Objects
  <2>3. \A o \in Ours : o # e => (Used(ctl', o) <=> Used(ctl, o))
    BY <1>6, <1>12 DEF RetopCounted
  <2>4. Used(ctl', e)
    BY <1>6, <1>12 DEF RetopCounted
  <2>5. hdr'[e].refs = ptrs[e] + Cardinality(DependentsOf(hdr', e)) + One(Used(ctl', e))
    <3>1. ptrs[e] \in Nat /\ Cardinality(DependentsOf(hdr, e)) \in Nat /\ hdr[e].refs \in Int
      BY <1>0, <1>2, <1>3, DependentsCounted DEF CxaTypeOK, Header
    <3>2. hdr[e].refs = ptrs[e] + Cardinality(DependentsOf(hdr, e)) + One(Used(ctl, e)) /\ ~(hdr[e].refs > 0)
      BY <1>2, <2>1 DEF RefsCounted
    <3>3. One(Used(ctl, e)) = 0 /\ One(Used(ctl', e)) = 1
      BY <1>13, <2>4 DEF One
    <3>4. ptrs[e] = 0 /\ Cardinality(DependentsOf(hdr, e)) = 0
      BY <3>1, <3>2, <3>3
    <3> QED  BY <1>5, <1>7, <2>2, <3>3, <3>4
  <2>6. ASSUME NEW p \in Primaries, p # e
        PROVE  /\ hdr'[p].refs = ptrs[p] + Cardinality(DependentsOf(hdr', p)) + One(Used(ctl', p))
               /\ hdr'[p].state = "live" <=> hdr'[p].refs > 0
    <3>1. hdr'[p] = hdr[p] /\ One(Used(ctl', p)) = One(Used(ctl, p))
      BY <1>7, <2>3, <2>6 DEF Objects, Ours, One
    <3> QED  BY <2>1, <2>2, <3>1 DEF RefsCounted
  <2>7. \A d \in Dependents : hdr'[d] = hdr[d] /\ (Used(ctl', d) <=> Used(ctl, d))
    BY <1>2, <1>7, <2>3 DEF Objects, Ours
  <2>8. hdr'[e].state = "live" <=> hdr'[e].refs > 0
    BY <1>5, <1>7
  <2>9. RefsCounted(ctl', hdr', ptrs)
    BY <2>1, <2>5, <2>6, <2>7, <2>8 DEF RefsCounted
  <2> QED  BY <1>4, <2>9
<1>15. FlightsCounted(ctl', uncaught', foreignCaught')
  <2>1. FlightsIn(ctl'[t]) = FlightsIn(ctl[t]) \cup {n} /\ n \notin FlightsIn(ctl[t])
    BY <1>1, <1>2, <1>6, <1>12 DEF RetopCounted, Flight
  <2>2. IsFiniteSet(FlightsIn(ctl[t])) /\ Cardinality(FlightsIn(ctl[t])) \in Nat
    BY <1>1, FlightsFinite
  <2>3. Cardinality(FlightsIn(ctl'[t])) = Cardinality(FlightsIn(ctl[t])) + 1
    BY <2>1, <2>2, FS_AddElement
  <2>4. FlightsCounted(ctl, uncaught, foreignCaught)
    BY DEF CxaInv
  <2>5. uncaught[t] = Cardinality(FlightsIn(ctl[t])) + foreignCaught[t] /\ foreignCaught[t] \in Nat
    BY <1>0, <2>4 DEF CxaTypeOK, FlightsCounted
  <2>6. uncaught'[t] = uncaught[t] + 1 /\ \A u \in Threads \ {t} : uncaught'[u] = uncaught[u]
    BY <1>0, <1>4 DEF CxaTypeOK
  <2>7. uncaught'[t] = Cardinality(FlightsIn(ctl'[t])) + foreignCaught[t]
    BY <2>2, <2>3, <2>5, <2>6
  <2>8. FlightsCounted(ctl', uncaught', foreignCaught)
    BY <1>9, <2>4, <2>6, <2>7, FlightsStep
  <2> QED  BY <1>4, <2>8
<1>16. EHABI => Propagates(ctl', hdr', propagating')
  <2>1. \A o \in Ours : hdr'[o].props = hdr[o].props /\ hdr'[o].nextProp = hdr[o].nextProp
    BY <1>5, <1>7 DEF Objects, Ours
  <2>2. SameCleanups(ctl, ctl')
    BY <1>1, <1>6, <1>12 DEF RetopCounted
  <2>3. ASSUME EHABI PROVE Propagates(ctl', hdr', propagating)
    <3>1. Propagates(ctl, hdr, propagating)
      BY <2>3 DEF CxaInv
    <3> QED  BY <1>3, <2>1, <2>2, <3>1, PropagatesKept
  <2> QED  BY <1>4, <2>3
<1> QED  BY <1>10, <1>11, <1>14, <1>15, <1>16 DEF CxaInv

\* The top frame flies on.
OwnersAlike(H, G) ==
  /\ HeadersKept(Objects, H, G)
  /\ \A e \in Objects : G[e].refs = H[e].refs /\ G[e].primary = H[e].primary

\* The unwinder goes on with the exception in the top frame.
LEMMA FliesFurther ==
  ASSUME ObjectsAssumption, CxaInv, NEW t \in Threads, NEW n, NEW f \in Frames,
         Moves(ctl, ctl', t), Retops(ctl[t], ctl'[t], f, n),
         ctl[t][n].k \in Flight, ctl[t][n].e = f.e, f.k \in Flight, OwnersAlike(hdr, hdr'),
         UNCHANGED <<caught, uncaught, ptrs, foreignCaught>>
  PROVE  /\ Placed(ctl', hdr', caught') /\ RefsCounted(ctl', hdr', ptrs')
         /\ FlightsCounted(ctl', uncaught', foreignCaught')
         /\ RetopCounted(ctl, ctl', t, n, f)
<1>0. Placed(ctl, hdr, caught) /\ n \in DOMAIN ctl[t]
  BY DEF CxaInv, Retops, Ends
<1>1. /\ HeadersKept(Objects, hdr, hdr')
      /\ \A e \in Objects : /\ hdr'[e].refs = hdr[e].refs /\ hdr'[e].primary = hdr[e].primary
                            /\ hdr'[e].state = hdr[e].state
  BY DEF OwnersAlike, HeadersKept
<1>2. Placed(ctl', hdr', caught')
  <2>1. f.e \in Objects /\ ctl[t][n].k \notin {"handler", "destroy"}
    BY DEF Frames, Flight
  <2>2. hdr'[f.e].state = "live"
    BY <1>0, <1>1, <2>1 DEF Placed, FramesMatch, StateOfFrame, Flight
  <2>3. /\ \A o \in Objects \ {f.e} : hdr'[o].state = hdr[o].state
        /\ \A o \in Objects : hdr'[o].next = hdr[o].next /\ hdr'[o].handlers = hdr[o].handlers
    BY <1>1 DEF HeadersKept
  <2>4. Placed(ctl', hdr', caught)
    BY <1>0, <2>1, <2>2, <2>3, RetopPlaced
  <2> QED  BY <2>4
<1>3. RetopCounted(ctl, ctl', t, n, f)
  <2>1. f.k \in Flight \cup {"handler"}
    OBVIOUS
  <2> QED  BY <2>1, RetopCounts
<1>4. UsedAt(ctl, t, n, f.e)
  BY <1>0 DEF UsedAt
<1>5. RefsCounted(ctl', hdr', ptrs')
  <2>1. Used(ctl, f.e)
    BY <1>0, <1>4, UsedWhere
  <2>2. \A o \in Ours : Used(ctl', o) <=> Used(ctl, o)
    BY <1>3, <2>1 DEF RetopCounted
  <2>3. /\ \A p \in Primaries : hdr'[p].refs = hdr[p].refs /\ (hdr'[p].state = "live" <=> hdr[p].state = "live")
        /\ \A d \in Dependents : hdr'[d].state = hdr[d].state /\ hdr'[d].primary = hdr[d].primary
    BY <1>1 DEF Objects
  <2>4. RefsCounted(ctl, hdr, ptrs)
    BY DEF CxaInv
  <2>5. RefsCounted(ctl', hdr', ptrs)
    BY <2>2, <2>3, <2>4, RefsKept
  <2> QED  BY <2>5
<1>6. FlightsCounted(ctl', uncaught', foreignCaught')
  <2>1. FlightsIn(ctl'[t]) = FlightsIn(ctl[t])
    <3>1. CASE f.e \in Ours
      BY <1>3, <3>1 DEF RetopCounted
    <3>2. CASE f.e \notin Ours
      BY <1>3, <3>2 DEF RetopCounted
    <3> QED  BY <3>1, <3>2
  <2>2. \A u \in Threads : FlightsIn(ctl'[u]) = FlightsIn(ctl[u])
    BY <2>1 DEF Moves
  <2> QED  BY <2>2 DEF CxaInv, FlightsCounted
<1> QED  BY <1>2, <1>3, <1>5, <1>6

\* The top frame of t becomes f.
LEMMA TopBecomes ==
  ASSUME CxaTypeOK, NEW t \in Threads, NEW f \in Frames, ctl[t] # <<>>,
         ctl' = [ctl EXCEPT ![t] = Replaced(t, f)]
  PROVE  /\ Moves(ctl, ctl', t) /\ Retops(ctl[t], ctl'[t], f, Len(ctl[t]))
         /\ ctl' \in [Threads -> Seq(Frames)]
<1>1. ctl[t] \in Seq(Frames) /\ ctl \in [Threads -> Seq(Frames)]
  BY DEF CxaTypeOK
<1>2. Append(Front(ctl[t]), f) \in Seq(Frames) /\ Retops(ctl[t], Append(Front(ctl[t]), f), f, Len(ctl[t]))
  BY <1>1, RetopView
<1> QED  BY <1>1, <1>2 DEF Replaced, Moves

\* _Unwind_RaiseException found a handler and begins phase 2.
LEMMA HandlerFoundKeeps ==
  ASSUME ObjectsAssumption, CxaInv, NEW t \in Threads, HandlerFound(t)
  PROVE  CxaInv'
<1> DEFINE f == Frame("raise", Top(t).e)
           n == Len(ctl[t])
<1>0. CxaTypeOK /\ TopIs(t, "search")
  BY DEF CxaInv, HandlerFound
<1>1. /\ ctl[t] # <<>> /\ ctl[t][n].k = "search" /\ ctl[t][n].e = Top(t).e /\ Top(t).e \in Objects
  BY <1>0, TopView
<1>2. f \in Frames /\ f.k = "raise" /\ f.e = Top(t).e
  BY <1>1 DEF Frame, Frames, Kinds, Flight
<1>3. /\ ctl' = [ctl EXCEPT ![t] = Replaced(t, f)]
      /\ UNCHANGED <<hdr, caught, uncaught, propagating, ptrs, foreignCaught, terminated>>
  BY DEF HandlerFound
<1> HIDE DEF f
<1>4. Moves(ctl, ctl', t) /\ Retops(ctl[t], ctl'[t], f, n) /\ ctl' \in [Threads -> Seq(Frames)]
  BY <1>0, <1>1, <1>2, <1>3, TopBecomes
<1>5. CxaTypeOK'
  BY <1>0, <1>3, <1>4 DEF CxaTypeOK
<1>6. OwnersAlike(hdr, hdr')
  BY <1>3 DEF OwnersAlike, HeadersKept
<1> HIDE DEF n
<1>7. /\ Placed(ctl', hdr', caught') /\ RefsCounted(ctl', hdr', ptrs')
      /\ FlightsCounted(ctl', uncaught', foreignCaught')
      /\ RetopCounted(ctl, ctl', t, n, f)
  <2>1. ctl[t][n].k \in Flight /\ f.k \in Flight /\ ctl[t][n].e = f.e
    BY <1>1, <1>2 DEF Flight
  <2>2. UNCHANGED <<caught, uncaught, ptrs, foreignCaught>>
    BY <1>3
  <2> QED  BY <1>2, <1>4, <1>6, <2>1, <2>2, FliesFurther
<1>8. EHABI => Propagates(ctl', hdr', propagating')
  <2>1. SameCleanups(ctl, ctl')
    BY <1>1, <1>2, <1>7 DEF RetopCounted
  <2>2. ASSUME EHABI PROVE Propagates(ctl', hdr', propagating')
    <3>1. Propagates(ctl, hdr, propagating) /\ ctl \in [Threads -> Seq(Frames)]
      BY <1>0, <2>2 DEF CxaInv, CxaTypeOK
    <3>2. Propagates(ctl', hdr, propagating)
      BY <2>1, <3>1, PropagatesKept
    <3> QED  BY <1>3, <3>2
  <2> QED  BY <2>2
<1> QED  BY <1>5, <1>7, <1>8 DEF CxaInv

\* __cxa_begin_catch: the exception is put on the caught stack unless it is on top of it,
\* is no longer marked as rethrown and has one more handler.
LEMMA BeginCatchKeeps ==
  ASSUME ObjectsAssumption, CxaInv, NEW t \in Threads, NEW k \in {"search", "raise"}, TopIs(t, k),
         NEW e, e = Top(t).e, ~CannotCatch(t, e), BeginCatch(t, e),
         terminated' \in BOOLEAN, UNCHANGED <<propagating, ptrs, foreignCaught>>
  PROVE  CxaInv'
<1> DEFINE f == Frame("handler", e)
           n == Len(ctl[t])
<1>0. CxaTypeOK /\ Placed(ctl, hdr, caught)
  BY DEF CxaInv
<1>1. /\ ctl[t] \in Seq(Frames) /\ ctl[t] # <<>> /\ n \in DOMAIN ctl[t]
      /\ ctl[t][n].k = k /\ ctl[t][n].e = e /\ e \in Objects /\ k \in Flight
  <2>1. /\ ctl[t] \in Seq(Frames) /\ ctl[t] # <<>> /\ n \in DOMAIN ctl[t]
        /\ ctl[t][n].k = k /\ Top(t) = ctl[t][n] /\ Top(t).e \in Objects
    BY <1>0, TopView
  <2> QED  BY <2>1 DEF Flight
<1>2. f \in Frames /\ f.k = "handler" /\ f.e = e
  BY <1>1 DEF Frame, Frames, Kinds
<1>3. /\ hdr \in [Objects -> Header] /\ ctl \in [Threads -> Seq(Frames)] /\ hdr[e] \in Header
      /\ caught \in [Threads -> Objects \cup {NULL}] /\ caught[t] \in Objects \cup {NULL}
      /\ uncaught \in [Threads -> Int] /\ uncaught[t] \in Int
  BY <1>0, <1>1 DEF CxaTypeOK
<1>4. ctl' = [ctl EXCEPT ![t] = Replaced(t, f)]
  BY DEF BeginCatch
<1> HIDE DEF f
<1>5. Moves(ctl, ctl', t) /\ Retops(ctl[t], ctl'[t], f, n) /\ ctl' \in [Threads -> Seq(Frames)]
  BY <1>0, <1>1, <1>2, <1>4, TopBecomes
<1> HIDE DEF n
<1>6. RetopCounted(ctl, ctl', t, n, f)
  <2>1. f.k \in Flight \cup {"handler"} /\ ctl[t][n].e = f.e
    BY <1>1, <1>2
  <2> QED  BY <1>2, <1>5, <2>1, RetopCounts
<1>7. \A o : Used(ctl', o) <=> Used(ctl, o)
  <2>1. UsedAt(ctl, t, n, e)
    BY <1>1 DEF UsedAt
  <2>2. Used(ctl, e)
    BY <1>1, <2>1, UsedWhere
  <2> QED  BY <1>2, <1>6, <2>2 DEF RetopCounted
<1>8. SameCleanups(ctl, ctl')
  BY <1>1, <1>2, <1>6 DEF RetopCounted
<1>9. IsFiniteSet(FlightsIn(ctl[t])) /\ Cardinality(FlightsIn(ctl[t])) \in Nat
  BY <1>1, FlightsFinite
<1>10. FlightsIn(ctl'[t]) = FlightsIn(ctl[t]) \ {n} /\ (n \in FlightsIn(ctl[t]) <=> e \in Ours)
  BY <1>1, <1>2, <1>6 DEF RetopCounted, Flight
<1>11. RefsCounted(ctl, hdr, ptrs) /\ FlightsCounted(ctl, uncaught, foreignCaught)
       /\ (EHABI => Propagates(ctl, hdr, propagating))
  BY DEF CxaInv
<1>12. CASE e \in Ours
  <2> DEFINE v == IF hdr[e].handlers < 0 THEN -hdr[e].handlers + 1 ELSE hdr[e].handlers + 1
             w == [hdr[e] EXCEPT !.handlers = v]
             r == [w EXCEPT !.next = IF caught[t] = e THEN hdr[e].next ELSE caught[t]]
  <2>0. v \in Int
    <3>1. hdr[e].handlers \in Int
      BY <1>3 DEF Header
    <3> QED  BY <3>1
  <2>1. /\ hdr' = [hdr EXCEPT ![e] = r]
        /\ caught' = [caught EXCEPT ![t] = e]
        /\ uncaught' = [uncaught EXCEPT ![t] = uncaught[t] - 1]
    <3>1. BeginCatchNative(t, e) /\ uncaught' = OneLessUncaught(t, e)
      BY <1>12 DEF BeginCatch, isOurs, Ours
    <3>2. caught' = [caught EXCEPT ![t] = e] /\ uncaught' = [uncaught EXCEPT ![t] = uncaught[t] - 1]
      BY <1>3, <3>1 DEF BeginCatchNative, OneLessUncaught
    <3>3. hdr' = [hdr EXCEPT ![e] = [[hdr[e] EXCEPT !.handlers = v] EXCEPT !.next = IF caught[t] = e THEN hdr[e].next ELSE caught[t]]]
      BY <1>1, <1>3, <3>1 DEF BeginCatchNative, Header
    <3> QED  BY <3>2, <3>3
  <2> HIDE DEF v
  <2>2. w \in Header /\ w.handlers = (IF hdr[e].handlers < 0 THEN -hdr[e].handlers + 1 ELSE hdr[e].handlers + 1)
        /\ w.state = hdr[e].state /\ w.next = hdr[e].next /\ w.refs = hdr[e].refs /\ w.primary = hdr[e].primary
        /\ w.props = hdr[e].props /\ w.nextProp = hdr[e].nextProp
    <3>1. w \in Header /\ w.handlers = v
      BY <1>3, <2>0 DEF Header
    <3>2. w.state = hdr[e].state /\ w.next = hdr[e].next /\ w.refs = hdr[e].refs /\ w.primary = hdr[e].primary
          /\ w.props = hdr[e].props /\ w.nextProp = hdr[e].nextProp
      BY <1>3 DEF Header
    <3> QED  BY <3>1, <3>2 DEF v
  <2> HIDE DEF w
  <2>3. r \in Header /\ r.next = (IF caught[t] = e THEN hdr[e].next ELSE caught[t])
        /\ r.state = hdr[e].state /\ r.handlers = w.handlers /\ r.refs = hdr[e].refs /\ r.primary = hdr[e].primary
        /\ r.props = hdr[e].props /\ r.nextProp = hdr[e].nextProp
    <3>1. hdr[e].next \in Objects \cup {NULL}
      BY <1>3 DEF Header
    <3> QED  BY <1>3, <2>2, <3>1 DEF Header
  <2> HIDE DEF r
  <2>4. hdr' \in [Objects -> Header] /\ hdr'[e] = r /\ \A o \in Objects \ {e} : hdr'[o] = hdr[o]
    BY <1>1, <1>3, <2>1, <2>3, HeaderSet
  <2>5. CxaTypeOK'
    <3>1. caught' \in [Threads -> Objects \cup {NULL}] /\ uncaught' \in [Threads -> Int]
      BY <1>1, <1>3, <2>1
    <3> QED  BY <1>0, <1>5, <2>4, <3>1 DEF CxaTypeOK
  <2>6. \A o \in Objects : /\ hdr'[o].state = hdr[o].state /\ hdr'[o].refs = hdr[o].refs
                           /\ hdr'[o].primary = hdr[o].primary
                           /\ hdr'[o].props = hdr[o].props /\ hdr'[o].nextProp = hdr[o].nextProp
    BY <2>3, <2>4
  <2>7. Placed(ctl', hdr', caught')
    <3>1. HeadersKept(Objects \ {f.e}, hdr, hdr')
      BY <1>2, <2>4 DEF HeadersKept
    <3>2. caught'[t] = f.e /\ \A u \in Threads \ {t} : caught'[u] = caught[u]
      BY <1>2, <1>3, <2>1
    <3>3. /\ hdr'[f.e].state = hdr[f.e].state
          /\ hdr'[f.e].next = IF caught[t] = f.e THEN hdr[f.e].next ELSE caught[t]
          /\ hdr'[f.e].handlers = IF hdr[f.e].handlers < 0 THEN -hdr[f.e].handlers + 1 ELSE hdr[f.e].handlers + 1
      BY <1>2, <2>2, <2>3, <2>4
    <3>4. ctl[t][n].k \in Flight /\ ctl[t][n].e = f.e /\ f.e \in Ours
      BY <1>1, <1>2, <1>12
    <3> QED  BY <1>0, <1>2, <1>5, <3>1, <3>2, <3>3, <3>4, CatchNative
  <2>8. RefsCounted(ctl', hdr', ptrs')
    <3>1. /\ \A p \in Primaries : hdr'[p].refs = hdr[p].refs /\ (hdr'[p].state = "live" <=> hdr[p].state = "live")
          /\ \A d \in Dependents : hdr'[d].state = hdr[d].state /\ hdr'[d].primary = hdr[d].primary
      BY <2>6 DEF Objects
    <3>2. RefsCounted(ctl', hdr', ptrs)
      BY <1>7, <1>11, <3>1, RefsKept
    <3> QED  BY <3>2
  <2>9. FlightsCounted(ctl', uncaught', foreignCaught')
    <3>1. Cardinality(FlightsIn(ctl'[t])) = Cardinality(FlightsIn(ctl[t])) - 1
      BY <1>9, <1>10, <1>12, FS_RemoveElement
    <3>2. uncaught[t] = Cardinality(FlightsIn(ctl[t])) + foreignCaught[t] /\ foreignCaught[t] \in Nat
      BY <1>0, <1>11 DEF CxaTypeOK, FlightsCounted
    <3>3. uncaught'[t] = uncaught[t] - 1 /\ \A u \in Threads \ {t} : uncaught'[u] = uncaught[u]
      BY <1>3, <2>1
    <3>4. uncaught'[t] = Cardinality(FlightsIn(ctl'[t])) + foreignCaught[t]
      BY <1>9, <3>1, <3>2, <3>3
    <3>5. FlightsCounted(ctl', uncaught', foreignCaught)
      BY <1>5, <1>11, <3>3, <3>4, FlightsStep
    <3> QED  BY <3>5
  <2>10. EHABI => Propagates(ctl', hdr', propagating')
    <3>1. \A o \in Ours : hdr'[o].props = hdr[o].props /\ hdr'[o].nextProp = hdr[o].nextProp
      BY <2>6 DEF Objects, Ours
    <3>2. EHABI => Propagates(ctl', hdr', propagating)
      BY <1>3, <1>8, <1>11, <3>1, PropagatesKept
    <3> QED  BY <3>2
  <2> QED  BY <2>5, <2>7, <2>8, <2>9, <2>10 DEF CxaInv
<1>13. CASE e \notin Ours
  <2>1. caught' = [caught EXCEPT ![t] = e] /\ UNCHANGED <<hdr, uncaught>> /\ caught[t] = NULL
    BY <1>13 DEF BeginCatch, isOurs, CannotCatch, NULL, Ours
  <2>2. CxaTypeOK'
    <3>1. caught' \in [Threads -> Objects \cup {NULL}]
      BY <1>1, <1>3, <2>1
    <3> QED  BY <1>0, <1>5, <2>1, <3>1 DEF CxaTypeOK
  <2>3. Placed(ctl', hdr', caught')
    <3>1. caught'[t] = f.e /\ \A u \in Threads \ {t} : caught'[u] = caught[u]
      BY <1>2, <1>3, <2>1
    <3>2. ctl[t][n].k \in Flight /\ ctl[t][n].e = f.e /\ f.e \in Foreigns
      BY <1>1, <1>2, <1>13 DEF Objects, Ours
    <3>3. Placed(ctl', hdr, caught')
      BY <1>0, <1>2, <1>5, <2>1, <3>1, <3>2, CatchForeign
    <3> QED  BY <2>1, <3>3
  <2>4. RefsCounted(ctl', hdr', ptrs')
    <3>1. RefsCounted(ctl', hdr, ptrs)
      BY <1>7, <1>11, RefsKept
    <3> QED  BY <2>1, <3>1
  <2>5. FlightsCounted(ctl', uncaught', foreignCaught')
    <3>1. FlightsIn(ctl'[t]) = FlightsIn(ctl[t])
      BY <1>10, <1>13
    <3>2. \A u \in Threads : FlightsIn(ctl'[u]) = FlightsIn(ctl[u])
      BY <1>5, <3>1 DEF Moves
    <3> QED  BY <1>11, <2>1, <3>2 DEF FlightsCounted
  <2>6. EHABI => Propagates(ctl', hdr', propagating')
    <3>1. EHABI => Propagates(ctl', hdr, propagating)
      BY <1>3, <1>8, <1>11, PropagatesKept
    <3> QED  BY <2>1, <3>1
  <2> QED  BY <2>2, <2>3, <2>4, <2>5, <2>6 DEF CxaInv
<1> QED  BY <1>12, <1>13

\* failed_throw: terminate is the handler.
LEMMA FailedThrowKeeps ==
  ASSUME ObjectsAssumption, CxaInv, NEW t \in Threads, failed_throw(t)
  PROVE  CxaInv'
<1>1. TopIs(t, "search") /\ terminated' \in BOOLEAN /\ UNCHANGED <<propagating, ptrs, foreignCaught>>
  BY DEF failed_throw
<1>2. CASE CannotCatch(t, Top(t).e)
  <2>1. UNCHANGED <<hdr, caught, uncaught, ctl>>
    BY <1>2 DEF failed_throw
  <2> QED  BY <1>1, <2>1, TerminateKeeps
<1>3. CASE ~CannotCatch(t, Top(t).e)
  <2>1. BeginCatch(t, Top(t).e)
    BY <1>3 DEF failed_throw
  <2> QED  BY <1>1, <1>3, <2>1, BeginCatchKeeps
<1> QED  BY <1>2, <1>3

\* The handler that was found begins.
LEMMA CxaBeginCatchKeeps ==
  ASSUME ObjectsAssumption, CxaInv, NEW t \in Threads, cxa_begin_catch(t)
  PROVE  CxaInv'
<1>1. TopIs(t, "raise") /\ UNCHANGED <<propagating, ptrs, foreignCaught>>
  BY DEF cxa_begin_catch
<1>2. CASE CannotCatch(t, Top(t).e)
  <2>1. UNCHANGED <<hdr, caught, uncaught, ctl>> /\ terminated' \in BOOLEAN
    BY <1>2 DEF cxa_begin_catch
  <2> QED  BY <1>1, <2>1, TerminateKeeps
<1>3. CASE ~CannotCatch(t, Top(t).e)
  <2>1. BeginCatch(t, Top(t).e) /\ UNCHANGED terminated
    BY <1>3 DEF cxa_begin_catch
  <2>2. terminated' \in BOOLEAN
    BY <2>1 DEF CxaInv, CxaTypeOK
  <2> QED  BY <1>1, <1>3, <2>1, <2>2, BeginCatchKeeps
<1> QED  BY <1>2, <1>3

\* What a pushed frame changes.
LEMMA PushFrame ==
  ASSUME CxaTypeOK, NEW t \in Threads, NEW f \in Frames, NEW n, n = Len(ctl[t]) + 1,
         ctl' = [ctl EXCEPT ![t] = Append(@, f)], f.k \in {"construct", "search", "destroy"}
  PROVE  /\ Moves(ctl, ctl', t) /\ Pushes(ctl[t], ctl'[t], f, n)
         /\ ctl' \in [Threads -> Seq(Frames)] /\ PushCounted(ctl, ctl', t, n, f)
<1>1. ctl[t] \in Seq(Frames) /\ ctl \in [Threads -> Seq(Frames)]
  BY DEF CxaTypeOK
<1>2. Append(ctl[t], f) \in Seq(Frames) /\ Pushes(ctl[t], Append(ctl[t], f), f, n)
  BY <1>1, PushView
<1>3. Moves(ctl, ctl', t) /\ Pushes(ctl[t], ctl'[t], f, n) /\ ctl' \in [Threads -> Seq(Frames)]
  BY <1>1, <1>2 DEF Moves
<1> QED  BY <1>3, PushCounts

\* uncaughtExceptions counts the exception that is thrown.
LEMMA OneMoreFlight ==
  ASSUME CxaTypeOK, NEW t \in Threads, NEW f, NEW n,
         FlightsCounted(ctl, uncaught, foreignCaught), Moves(ctl, ctl', t), PushCounted(ctl, ctl', t, n, f),
         f.k = "search", f.e \in Ours, uncaught' = [uncaught EXCEPT ![t] = @ + 1], UNCHANGED foreignCaught
  PROVE  FlightsCounted(ctl', uncaught', foreignCaught') /\ uncaught' \in [Threads -> Int]
<1>1. FlightsIn(ctl'[t]) = FlightsIn(ctl[t]) \cup {n} /\ n \notin FlightsIn(ctl[t])
  BY DEF PushCounted
<1>2. IsFiniteSet(FlightsIn(ctl[t])) /\ Cardinality(FlightsIn(ctl[t])) \in Nat
  BY FlightsFinite DEF CxaTypeOK
<1>3. Cardinality(FlightsIn(ctl'[t])) = Cardinality(FlightsIn(ctl[t])) + 1
  BY <1>1, <1>2, FS_AddElement
<1>4. uncaught[t] = Cardinality(FlightsIn(ctl[t])) + foreignCaught[t] /\ foreignCaught[t] \in Nat
  BY DEF CxaTypeOK, FlightsCounted
<1>5. /\ uncaught' \in [Threads -> Int]
      /\ uncaught'[t] = uncaught[t] + 1 /\ \A u \in Threads \ {t} : uncaught'[u] = uncaught[u]
  BY DEF CxaTypeOK
<1>6. uncaught'[t] = Cardinality(FlightsIn(ctl'[t])) + foreignCaught'[t]
  BY <1>2, <1>3, <1>4, <1>5
<1>7. /\ \A u \in Threads \ {t} : uncaught'[u] = uncaught[u]
      /\ \A u \in Threads \ {t} : foreignCaught'[u] = foreignCaught[u]
      /\ Moves(ctl, ctl', t) /\ FlightsCounted(ctl, uncaught, foreignCaught)
  BY <1>5
<1>8. FlightsCounted(ctl', uncaught', foreignCaught')
  BY ONLY <1>6, <1>7, FlightsStep, t \in Threads
<1> QED  BY <1>5, <1>8

\* The propagating stacks stay right when no cleanup begins or ends.
LEMMA CleanupsKept ==
  ASSUME CxaInv, NEW D, SameCleanups(ctl, D), NEW G,
         \A o \in Ours : G[o].props = hdr[o].props \/ (G[o].props = 0 /\ ~InCleanup(ctl, o)),
         \A o \in Ours : InCleanup(ctl, o) => G[o].nextProp = hdr[o].nextProp
  PROVE  EHABI => Propagates(D, G, propagating)
<1> SUFFICES ASSUME EHABI PROVE Propagates(D, G, propagating)
  OBVIOUS
<1>1. Propagates(ctl, hdr, propagating) /\ ctl \in [Threads -> Seq(Frames)]
  BY DEF CxaInv, CxaTypeOK
<1> QED  BY <1>1, PropagatesKept

\* What t has caught is the exception of a native handler of t, or of none.
LEMMA CaughtNative ==
  ASSUME ObjectsAssumption, CxaInv, NEW t \in Threads
  PROVE  /\ caught[t] \in Ours => /\ HandlersIn(ctl[t], caught[t]) # {}
                                  /\ hdr[caught[t]].state = "live" /\ Used(ctl, caught[t])
                                  /\ \A u \in Threads : \A i \in DOMAIN ctl[u] : ctl[u][i].e = caught[t] =>
                                       u = t /\ ctl[u][i].k \in Flight \cup {"handler"}
         /\ caught[t] \notin Ours => NativeIn(ctl[t]) = {} /\ caught[t] \in Foreigns \cup {NULL}
<1>0. /\ FramesMatch(ctl, hdr) /\ OnePlace(ctl) /\ CaughtInOrder(ctl, hdr, caught)
      /\ ctl \in [Threads -> Seq(Frames)]
  BY DEF CxaInv, Placed, CxaTypeOK
<1>1. CASE NativeIn(ctl[t]) = {}
  <2>1. caught[t] \in Foreigns \cup {NULL}
    BY <1>0, <1>1 DEF CaughtInOrder
  <2>2. caught[t] \notin Ours
    BY <2>1 DEF ObjectsAssumption, Objects, Ours
  <2> QED  BY <1>1, <2>1, <2>2
<1>2. CASE NativeIn(ctl[t]) # {}
  <2>1. PICK j \in NativeIn(ctl[t]) : IsLast(NativeIn(ctl[t]), j)
    BY <1>0, <1>2, NativeLast
  <2>2. caught[t] = ctl[t][j].e /\ ctl[t][j].k = "handler" /\ j \in DOMAIN ctl[t] /\ caught[t] \in Ours
    BY <1>0, <2>1 DEF CaughtInOrder, NativeIn
  <2>3. hdr[caught[t]].state = "live"
    BY <1>0, <2>2 DEF FramesMatch, StateOfFrame
  <2>4. HandlersIn(ctl[t], caught[t]) # {}
    BY <2>2 DEF HandlersIn
  <2>5. Used(ctl, caught[t])
    BY <2>4 DEF Used
  <2>6. ASSUME NEW u \in Threads, NEW i \in DOMAIN ctl[u], ctl[u][i].e = caught[t]
        PROVE  u = t /\ ctl[u][i].k \in Flight \cup {"handler"}
    <3>1. u = t
      BY <1>0, <2>2, <2>6 DEF OnePlace
    <3>2. ctl[u][i].k \in Kinds
      BY <1>0, FrameOf
    <3>3. ctl[u][i].k \notin {"construct", "destroy"}
      BY <1>0, <2>2, <2>3, <2>6 DEF FramesMatch, StateOfFrame
    <3> QED  BY <3>1, <3>2, <3>3 DEF Kinds
  <2> QED  BY <2>2, <2>3, <2>4, <2>5, <2>6
<1> QED  BY <1>1, <1>2

\* __cxa_rethrow: the caught exception is marked and flies again; a foreign one leaves the
\* caught stack.
LEMMA RethrowKeeps ==
  ASSUME ObjectsAssumption, CxaInv, NEW t \in Threads, cxa_rethrow(t)
  PROVE  CxaInv'
<1> DEFINE x == caught[t]
           f == Frame("search", x)
           n == Len(ctl[t]) + 1
<1>0. CxaTypeOK /\ Placed(ctl, hdr, caught)
  BY DEF CxaInv
<1>1. UNCHANGED <<propagating, ptrs, foreignCaught>> /\ ~InFlight(t, x)
  BY DEF cxa_rethrow, ObjectsAssumption
<1>2. x \in Objects \cup {NULL} /\ hdr \in [Objects -> Header] /\ ctl \in [Threads -> Seq(Frames)]
      /\ caught \in [Threads -> Objects \cup {NULL}]
  BY <1>0 DEF CxaTypeOK
<1>3. CASE x = NULL
  <2>1. terminated' = TRUE /\ UNCHANGED <<hdr, caught, uncaught, ctl>>
    BY <1>3 DEF cxa_rethrow, NULL
  <2> QED  BY <1>1, <2>1, TerminateKeeps
<1>4. CASE x \in Ours
  <2> DEFINE v == -hdr[x].handlers
             r == [hdr[x] EXCEPT !.handlers = v]
  <2>1. x \in Objects /\ x # NULL /\ hdr[x] \in Header /\ x \notin Foreigns
    BY <1>2, <1>4 DEF ObjectsAssumption, Ours, Objects
  <2>2. /\ hdr' = [hdr EXCEPT ![x] = r]
        /\ uncaught' = [uncaught EXCEPT ![t] = @ + 1]
        /\ ctl' = [ctl EXCEPT ![t] = Append(@, f)]
        /\ UNCHANGED <<caught, terminated>>
    <3>1. /\ hdr' = [hdr EXCEPT ![x].handlers = -@]
          /\ uncaught' = [uncaught EXCEPT ![t] = @ + 1]
          /\ ctl' = [ctl EXCEPT ![t] = Append(@, f)]
          /\ UNCHANGED <<caught, terminated>>
      BY <1>4, <2>1 DEF cxa_rethrow, NULL, isOurs, Ours
    <3>2. hdr' = [hdr EXCEPT ![x] = r]
      BY <1>2, <2>1, <3>1 DEF Header
    <3> QED  BY <3>1, <3>2
  <2>3. v \in Int
    <3>1. hdr[x].handlers \in Int
      BY <2>1 DEF Header
    <3> QED  BY <3>1
  <2>4. v = -hdr[x].handlers
    OBVIOUS
  <2> HIDE DEF v
  <2>5. r \in Header /\ r.handlers = v
    BY <2>1, <2>3 DEF Header
  <2>6. /\ r.state = hdr[x].state /\ r.next = hdr[x].next /\ r.refs = hdr[x].refs /\ r.primary = hdr[x].primary
        /\ r.props = hdr[x].props /\ r.nextProp = hdr[x].nextProp
    BY <2>1 DEF Header
  <2>7. f \in Frames /\ f.k = "search" /\ f.e = x
    BY <2>1 DEF Frame, Frames, Kinds, Flight
  <2> HIDE DEF r, f
  <2>8. hdr' \in [Objects -> Header] /\ hdr'[x] = r /\ \A o \in Objects \ {x} : hdr'[o] = hdr[o]
    BY <1>2, <2>1, <2>2, <2>5, HeaderSet
  <2>9. /\ Moves(ctl, ctl', t) /\ Pushes(ctl[t], ctl'[t], f, n)
        /\ ctl' \in [Threads -> Seq(Frames)] /\ PushCounted(ctl, ctl', t, n, f)
    <3>1. f.k \in {"construct", "search", "destroy"}
      BY <2>7
    <3> QED  BY <1>0, <2>2, <2>7, <3>1, PushFrame
  <2> HIDE DEF n
  <2>10. /\ HandlersIn(ctl[t], x) # {} /\ hdr[x].state = "live" /\ Used(ctl, x)
         /\ \A u \in Threads : \A i \in DOMAIN ctl[u] : ctl[u][i].e = x =>
              u = t /\ ctl[u][i].k \in Flight \cup {"handler"}
    BY <1>4, CaughtNative
  <2>11. \A u \in Threads : \A i \in DOMAIN ctl[u] : ctl[u][i].e = x => u = t /\ ctl[u][i].k = "handler"
    <3>1. ASSUME NEW i \in DOMAIN ctl[t], ctl[t][i].e = x, ctl[t][i].k \in Flight
          PROVE  FALSE
      <4>1. ctl[t][i] = [k |-> ctl[t][i].k, e |-> x]
        BY <1>2, <3>1, FrameOf
      <4>2. ctl[t][i] \in {Frame(k, x) : k \in {"search", "raise", "cleanup"}}
        BY <3>1, <4>1 DEF Frame, Flight
      <4> QED  BY <1>1, <4>2 DEF InFlight
    <3> QED  BY <2>10, <3>1
  <2>12. FlightsCounted(ctl', uncaught', foreignCaught') /\ uncaught' \in [Threads -> Int]
    <3>1. FlightsCounted(ctl, uncaught, foreignCaught) /\ f.e \in Ours
      BY <1>4, <2>7 DEF CxaInv
    <3>2. UNCHANGED foreignCaught
      BY <1>1
    <3> QED  BY <1>0, <2>2, <2>7, <2>9, <3>1, <3>2, OneMoreFlight
  <2>13. CxaTypeOK'
    BY <1>0, <1>1, <2>2, <2>8, <2>9, <2>12 DEF CxaTypeOK
  <2>14. Placed(ctl', hdr', caught')
    <3>1. HeadersKept(Objects \ {x}, hdr, hdr')
      BY <2>8 DEF HeadersKept
    <3>2. Admits(ctl, hdr, hdr', caught, caught, t, f)
      BY <1>4, <2>1, <2>4, <2>5, <2>6, <2>7, <2>8, <2>10, <2>11, <3>1 DEF Admits, StateOfFrame
    <3>3. f.k \in {"construct", "search", "destroy"}
      BY <2>7
    <3>4. Placed(ctl', hdr', caught)
      BY <1>0, <2>7, <2>9, <3>2, <3>3, PushPlaced
    <3> QED  BY <2>2, <3>4
  <2>15. RefsCounted(ctl', hdr', ptrs')
    <3>1. \A o \in Ours : Used(ctl', o) <=> Used(ctl, o)
      BY <2>7, <2>9, <2>10 DEF PushCounted
    <3>2. /\ \A o \in Primaries : hdr'[o].refs = hdr[o].refs /\ (hdr'[o].state = "live" <=> hdr[o].state = "live")
          /\ \A d \in Dependents : hdr'[d].state = hdr[d].state /\ hdr'[d].primary = hdr[d].primary
      BY <2>6, <2>8 DEF Objects
    <3>3. RefsCounted(ctl, hdr, ptrs)
      BY DEF CxaInv
    <3>4. RefsCounted(ctl', hdr', ptrs)
      BY <3>1, <3>2, <3>3, RefsKept
    <3> QED  BY <1>1, <3>4
  <2>16. EHABI => Propagates(ctl', hdr', propagating')
    <3>1. \A o \in Ours : hdr'[o].props = hdr[o].props /\ hdr'[o].nextProp = hdr[o].nextProp
      BY <2>6, <2>8 DEF Objects, Ours
    <3>2. EHABI => Propagates(ctl', hdr', propagating)
      BY <2>9, <3>1, CleanupsKept DEF PushCounted
    <3> QED  BY <1>1, <3>2
  <2> QED  BY <2>12, <2>13, <2>14, <2>15, <2>16 DEF CxaInv
<1>5. CASE x \notin Ours /\ x # NULL
  <2>1. x \in Foreigns /\ x \in Objects
    BY <1>2, <1>5 DEF Objects, Ours
  <2>2. /\ caught' = [caught EXCEPT ![t] = NULL]
        /\ ctl' = [ctl EXCEPT ![t] = Append(@, f)]
        /\ UNCHANGED <<hdr, uncaught, terminated>>
    BY <1>5 DEF cxa_rethrow, NULL, isOurs, Ours
  <2>3. f \in Frames /\ f.k = "search" /\ f.e = x
    BY <2>1 DEF Frame, Frames, Kinds, Flight
  <2> HIDE DEF f
  <2>4. f.k \in {"construct", "search", "destroy"}
    BY <2>3
  <2>5. /\ Moves(ctl, ctl', t) /\ Pushes(ctl[t], ctl'[t], f, n)
        /\ ctl' \in [Threads -> Seq(Frames)] /\ PushCounted(ctl, ctl', t, n, f)
    BY <1>0, <2>2, <2>3, <2>4, PushFrame
  <2> HIDE DEF n
  <2>6. NativeIn(ctl[t]) = {}
    BY <1>5, CaughtNative
  <2>7. caught' \in [Threads -> Objects \cup {NULL}] /\ caught'[t] = NULL
        /\ \A u \in Threads \ {t} : caught'[u] = caught[u]
    BY <1>2, <2>2
  <2>8. CxaTypeOK'
    BY <1>0, <1>1, <2>2, <2>5, <2>7 DEF CxaTypeOK
  <2>9. Placed(ctl', hdr', caught')
    <3>1. Holds(ctl, hdr, caught, t, x)
      BY DEF Holds
    <3>2. /\ hdr[x].state = "live"
          /\ \A u \in Threads : /\ Holds(ctl, hdr, caught, u, x) => u = t
                                /\ \A i \in DOMAIN ctl[u] : ctl[u][i].e = x => ctl[u][i].k = "handler"
      BY <1>0, <2>1, <3>1 DEF Placed, ForeignHeld
    <3>3. \A u \in Threads : ~Holds(ctl, hdr, caught', u, x)
      <4>1. ~Holds(ctl, hdr, caught', t, x)
        BY <1>5, <2>6, <2>7 DEF Holds
      <4>2. \A u \in Threads \ {t} : ~Holds(ctl, hdr, caught', u, x)
        BY <2>7, <3>2 DEF Holds
      <4> QED  BY <4>1, <4>2
    <3>4. \A u \in Threads : caught'[u] = caught[u] \/ (caught'[u] = NULL /\ NativeIn(ctl[u]) = {})
      BY <2>6, <2>7
    <3>5. HeadersKept(Objects \ {x}, hdr, hdr)
      BY DEF HeadersKept
    <3>6. Admits(ctl, hdr, hdr, caught, caught', t, f)
      BY <1>5, <2>1, <2>3, <3>2, <3>3, <3>4, <3>5 DEF Admits, StateOfFrame
    <3>7. Placed(ctl', hdr, caught')
      BY <1>0, <2>3, <2>4, <2>5, <3>6, PushPlaced
    <3> QED  BY <2>2, <3>7
  <2>10. RefsCounted(ctl', hdr', ptrs')
    <3>1. \A o \in Ours : Used(ctl', o) <=> Used(ctl, o)
      BY <1>5, <2>3, <2>5 DEF PushCounted
    <3>2. RefsCounted(ctl, hdr, ptrs)
      BY DEF CxaInv
    <3>3. RefsCounted(ctl', hdr, ptrs)
      BY <3>1, <3>2, RefsKept
    <3> QED  BY <1>1, <2>2, <3>3
  <2>11. FlightsCounted(ctl', uncaught', foreignCaught')
    <3>1. \A u \in Threads : FlightsIn(ctl'[u]) = FlightsIn(ctl[u])
      BY <1>5, <2>3, <2>5 DEF PushCounted, Moves
    <3> QED  BY <1>1, <2>2, <3>1 DEF CxaInv, FlightsCounted
  <2>12. EHABI => Propagates(ctl', hdr', propagating')
    <3>1. EHABI => Propagates(ctl', hdr, propagating)
      BY <2>5, CleanupsKept DEF PushCounted
    <3> QED  BY <1>1, <2>2, <3>1
  <2> QED  BY <2>8, <2>9, <2>10, <2>11, <2>12 DEF CxaInv
<1> QED  BY <1>3, <1>4, <1>5

\* The primary of a live exception is alive.
LEMMA OwnerLive ==
  ASSUME ObjectsAssumption, CxaInv, NEW x \in Ours, hdr[x].state = "live", NEW p, p = OwnedBy(hdr, x)
  PROVE  p \in Primaries /\ hdr[p].state = "live"
<1>0. RefsCounted(ctl, hdr, ptrs) /\ ptrs \in [Primaries -> Nat]
  BY DEF CxaInv, CxaTypeOK
<1>1. CASE x \notin Dependents
  BY <1>1 DEF OwnedBy, Ours
<1>2. CASE x \in Dependents
  <2>1. p = hdr[x].primary /\ p \in Primaries
    BY <1>0, <1>2 DEF OwnedBy, RefsCounted
  <2>2. IsFiniteSet(DependentsOf(hdr, p)) /\ Cardinality(DependentsOf(hdr, p)) \in Nat
    BY DependentsCounted
  <2>3. x \in DependentsOf(hdr, p)
    BY <1>2, <2>1 DEF DependentsOf
  <2>4. Cardinality(DependentsOf(hdr, p)) # 0
    BY <2>2, <2>3, FS_EmptySet
  <2>5. ptrs[p] \in Nat /\ One(Used(ctl, p)) \in Nat
    BY <1>0, <2>1 DEF One
  <2>6. hdr[p].refs > 0
    BY <1>0, <2>1, <2>2, <2>4, <2>5 DEF RefsCounted
  <2> QED  BY <1>0, <2>1, <2>6 DEF RefsCounted
<1> QED  BY <1>1, <1>2

\* An exception_ptr keeps its exception alive.
LEMMA PointedToLive ==
  ASSUME ObjectsAssumption, CxaInv, NEW p \in Primaries, ptrs[p] > 0
  PROVE  hdr[p].state = "live"
<1>1. RefsCounted(ctl, hdr, ptrs) /\ ptrs[p] \in Nat /\ Cardinality(DependentsOf(hdr, p)) \in Nat
  BY DependentsCounted DEF CxaInv, CxaTypeOK
<1>2. One(Used(ctl, p)) \in Nat
  BY DEF One
<1>3. hdr[p].refs > 0
  BY <1>1, <1>2 DEF RefsCounted
<1> QED  BY <1>1, <1>3 DEF RefsCounted

\* One more exception_ptr to p.
PointsTo(p) ==
  /\ hdr' = [hdr EXCEPT ![p].refs = @ + 1] /\ ptrs' = [ptrs EXCEPT ![p] = @ + 1]
  /\ UNCHANGED <<caught, uncaught, propagating, ctl, foreignCaught, terminated>>

\* One more exception_ptr to a live exception.
LEMMA PointerKeeps ==
  ASSUME ObjectsAssumption, CxaInv, NEW p \in Primaries, hdr[p].state = "live", PointsTo(p)
  PROVE  CxaInv'
<1> DEFINE v == hdr[p].refs + 1
           r == [hdr[p] EXCEPT !.refs = v]
<1>0. CxaTypeOK /\ Placed(ctl, hdr, caught) /\ RefsCounted(ctl, hdr, ptrs)
  BY DEF CxaInv
<1>1. p \in Objects /\ p \notin Dependents
  BY DEF Objects, ObjectsAssumption
<1>2. /\ hdr \in [Objects -> Header] /\ hdr[p] \in Header /\ hdr[p].refs \in Int
      /\ ctl \in [Threads -> Seq(Frames)] /\ ptrs \in [Primaries -> Nat]
  BY <1>0, <1>1 DEF CxaTypeOK, Header
<1>3. /\ hdr' = [hdr EXCEPT ![p] = r] /\ ptrs' = [ptrs EXCEPT ![p] = ptrs[p] + 1]
      /\ UNCHANGED <<caught, uncaught, propagating, ctl, foreignCaught, terminated>>
  BY <1>1, <1>2 DEF PointsTo
<1>v. v \in Int /\ v = hdr[p].refs + 1
  BY <1>2
<1> HIDE DEF v
<1>4. r \in Header /\ r.refs = v
  BY <1>2, <1>v DEF Header
<1>5. /\ r.state = hdr[p].state /\ r.next = hdr[p].next /\ r.handlers = hdr[p].handlers /\ r.primary = hdr[p].primary
      /\ r.props = hdr[p].props /\ r.nextProp = hdr[p].nextProp
  BY <1>2 DEF Header
<1> HIDE DEF r
<1>6. hdr' \in [Objects -> Header] /\ hdr'[p] = r /\ \A o \in Objects \ {p} : hdr'[o] = hdr[o]
  BY <1>1, <1>2, <1>3, <1>4, HeaderSet
<1>7. ptrs' \in [Primaries -> Nat] /\ ptrs'[p] = ptrs[p] + 1 /\ \A o \in Primaries \ {p} : ptrs'[o] = ptrs[o]
  BY <1>2, <1>3
<1>8. CxaTypeOK'
  BY <1>0, <1>3, <1>6, <1>7 DEF CxaTypeOK
<1>9. Placed(ctl', hdr', caught')
  <2>1. HeadersKept(Objects, hdr, hdr')
    BY <1>5, <1>6 DEF HeadersKept
  <2>2. Placed(ctl, hdr', caught)
    BY <1>0, <1>2, <2>1, PlacedAlike
  <2> QED  BY <1>3, <2>2
<1>10. RefsCounted(ctl', hdr', ptrs')
  <2>1. \A d \in Dependents : hdr'[d] = hdr[d]
    BY <1>1, <1>6 DEF Objects
  <2>2. \A o : DependentsOf(hdr', o) = DependentsOf(hdr, o)
    BY <2>1 DEF DependentsOf
  <2>3. ASSUME NEW o \in Primaries, o # p
        PROVE  /\ hdr'[o].refs = ptrs'[o] + Cardinality(DependentsOf(hdr', o)) + One(Used(ctl, o))
               /\ hdr'[o].state = "live" <=> hdr'[o].refs > 0
    <3>1. hdr'[o] = hdr[o] /\ ptrs'[o] = ptrs[o]
      BY <1>6, <1>7, <2>3 DEF Objects
    <3> QED  BY <1>0, <2>2, <3>1 DEF RefsCounted
  <2>4. /\ hdr'[p].refs = ptrs'[p] + Cardinality(DependentsOf(hdr', p)) + One(Used(ctl, p))
        /\ hdr'[p].state = "live" <=> hdr'[p].refs > 0
    <3>1. hdr[p].refs = ptrs[p] + Cardinality(DependentsOf(hdr, p)) + One(Used(ctl, p)) /\ hdr[p].refs > 0
      BY <1>0 DEF RefsCounted
    <3>2. ptrs[p] \in Nat /\ Cardinality(DependentsOf(hdr, p)) \in Nat /\ One(Used(ctl, p)) \in Nat
      BY <1>2, DependentsCounted DEF One
    <3>3. hdr'[p].refs = hdr[p].refs + 1 /\ hdr'[p].state = "live"
      BY <1>v, <1>4, <1>5, <1>6
    <3> QED  BY <1>2, <1>7, <2>2, <3>1, <3>2, <3>3
  <2>5. RefsCounted(ctl, hdr', ptrs')
    BY <1>0, <2>1, <2>3, <2>4 DEF RefsCounted
  <2> QED  BY <1>3, <2>5
<1>11. FlightsCounted(ctl', uncaught', foreignCaught')
  BY <1>3 DEF CxaInv, FlightsCounted
<1>12. EHABI => Propagates(ctl', hdr', propagating')
  <2>1. \A o \in Ours : hdr'[o].props = hdr[o].props /\ hdr'[o].nextProp = hdr[o].nextProp
    BY <1>5, <1>6 DEF Objects, Ours
  <2>2. SameCleanups(ctl, ctl)
    BY DEF SameCleanups
  <2>3. EHABI => Propagates(ctl, hdr', propagating)
    BY <2>1, <2>2, CleanupsKept
  <2> QED  BY <1>3, <2>3
<1> QED  BY <1>8, <1>9, <1>10, <1>11, <1>12 DEF CxaInv

\* __cxa_current_primary_exception: of a caught exception or of the primary of a caught
\* dependent one, both alive.
LEMMA CurrentPrimaryKeeps ==
  ASSUME ObjectsAssumption, CxaInv, NEW t \in Threads, cxa_current_primary_exception(t)
  PROVE  CxaInv'
<1> DEFINE x == caught[t]
           p == OwnedBy(hdr, x)
<1>1. x \in Ours /\ PointsTo(p)
  BY DEF PointsTo, cxa_current_primary_exception, isOurs, Ours
<1>2. hdr[x].state = "live"
  BY <1>1, CaughtNative
<1>3. p \in Primaries /\ hdr[p].state = "live"
  BY <1>1, <1>2, OwnerLive
<1> QED  BY <1>1, <1>3, PointerKeeps

\* __cxa_increment_exception_refcount: an exception_ptr is copied.
LEMMA IncrementKeeps ==
  ASSUME ObjectsAssumption, CxaInv, NEW t \in Threads, NEW p \in Primaries, cxa_increment_exception_refcount(t, p)
  PROVE  CxaInv'
<1>1. ptrs[p] > 0 /\ PointsTo(p)
  BY DEF PointsTo, cxa_increment_exception_refcount, CxaInv, CxaTypeOK, ObjectsAssumption
<1>2. hdr[p].state = "live"
  BY <1>1, PointedToLive
<1> QED  BY <1>1, <1>2, PointerKeeps

\* __cxa_decrement_exception_refcount: an exception_ptr is destroyed, perhaps the last owner.
LEMMA DecrementKeeps ==
  ASSUME ObjectsAssumption, CxaInv, NEW t \in Threads, NEW p \in Primaries, cxa_decrement_exception_refcount(t, p)
  PROVE  CxaInv'
<1>0. CxaTypeOK /\ Placed(ctl, hdr, caught) /\ RefsCounted(ctl, hdr, ptrs)
  BY DEF CxaInv
<1>1. /\ hdr \in [Objects -> Header] /\ ctl \in [Threads -> Seq(Frames)] /\ ptrs \in [Primaries -> Nat]
      /\ p \in Objects
  BY <1>0 DEF CxaTypeOK, Objects
<1>2. /\ ptrs[p] > 0
      /\ LosesOwner(hdr, hdr', p) /\ MayDestroy(hdr, ctl, ctl', t, p)
      /\ ptrs' = [ptrs EXCEPT ![p] = @ - 1]
      /\ UNCHANGED <<caught, uncaught, propagating, foreignCaught, terminated>>
  BY <1>1 DEF cxa_decrement_exception_refcount, Decremented, DestroysIfLast, LosesOwner, MayDestroy
<1>3. ptrs' \in [Primaries -> Nat] /\ ptrs'[p] = ptrs[p] - 1 /\ \A o \in Primaries \ {p} : ptrs'[o] = ptrs[o]
  BY <1>1, <1>2
<1>4. RefsOwed(ctl, hdr, ptrs', p)
  <2>1. hdr[p].refs = ptrs'[p] + Cardinality(DependentsOf(hdr, p)) + One(Used(ctl, p)) + One(p = p)
    <3>1. hdr[p].refs = ptrs[p] + Cardinality(DependentsOf(hdr, p)) + One(Used(ctl, p))
      BY <1>0 DEF RefsCounted
    <3>2. ptrs[p] \in Nat /\ Cardinality(DependentsOf(hdr, p)) \in Nat /\ One(Used(ctl, p)) \in Nat /\ One(p = p) = 1
      BY <1>1, DependentsCounted DEF One
    <3> QED  BY <1>3, <3>1, <3>2
  <2>2. ASSUME NEW o \in Primaries, o # p
        PROVE  hdr[o].refs = ptrs'[o] + Cardinality(DependentsOf(hdr, o)) + One(Used(ctl, o)) + One(o = p)
    <3>1. hdr[o].refs = ptrs[o] + Cardinality(DependentsOf(hdr, o)) + One(Used(ctl, o)) /\ ptrs'[o] = ptrs[o]
      BY <1>0, <1>3, <2>2 DEF RefsCounted
    <3>2. ptrs[o] \in Nat /\ Cardinality(DependentsOf(hdr, o)) \in Nat /\ One(Used(ctl, o)) \in Nat /\ One(o = p) = 0
      BY <1>1, <2>2, DependentsCounted DEF One
    <3> QED  BY <3>1, <3>2
  <2> QED  BY <1>0, <2>1, <2>2 DEF RefsOwed, RefsCounted
<1>5. /\ ctl' \in [Threads -> Seq(Frames)] /\ Placed(ctl', hdr', caught) /\ RefsCounted(ctl', hdr', ptrs')
      /\ FlightsIn(ctl'[t]) = FlightsIn(ctl[t]) /\ SameCleanups(ctl, ctl')
  <2>1. LosesOwner(hdr, hdr', p) /\ MayDestroy(hdr, ctl, ctl', t, p) /\ ptrs' \in [Primaries -> Nat]
    BY <1>2, <1>3
  <2> QED  BY <1>0, <1>1, <1>4, <2>1, OwnerGone
<1>6. /\ hdr' \in [Objects -> Header]
      /\ \A o \in Objects : hdr'[o].props = hdr[o].props /\ hdr'[o].nextProp = hdr[o].nextProp
  BY <1>1, <1>2, DecrementView
<1>7. CxaTypeOK'
  BY <1>0, <1>2, <1>3, <1>5, <1>6 DEF CxaTypeOK
<1>8. FlightsCounted(ctl', uncaught', foreignCaught')
  <2>1. \A u \in Threads : FlightsIn(ctl'[u]) = FlightsIn(ctl[u])
    BY <1>1, <1>2, <1>5 DEF MayDestroy
  <2> QED  BY <1>2, <2>1 DEF CxaInv, FlightsCounted
<1>9. EHABI => Propagates(ctl', hdr', propagating')
  <2>1. \A o \in Ours : hdr'[o].props = hdr[o].props /\ hdr'[o].nextProp = hdr[o].nextProp
    BY <1>6 DEF Objects, Ours
  <2>2. EHABI => Propagates(ctl', hdr', propagating)
    BY <1>5, <2>1, CleanupsKept
  <2> QED  BY <1>2, <2>2
<1> QED  BY <1>2, <1>5, <1>7, <1>8, <1>9 DEF CxaInv

\* __cxa_rethrow_primary_exception: a dependent exception is made, which owns its primary.
LEMMA RethrowPrimaryKeeps ==
  ASSUME ObjectsAssumption, CxaInv, NEW t \in Threads, NEW p \in Primaries, NEW d \in Dependents,
         cxa_rethrow_primary_exception(t, p, d)
  PROVE  CxaInv'
<1> DEFINE f == Frame("search", d)
           n == Len(ctl[t]) + 1
           m == DependentOf(p)
           H == [hdr EXCEPT ![d] = m]
           v == hdr[p].refs + 1
           r == [hdr[p] EXCEPT !.refs = v]
<1>0. CxaTypeOK /\ Placed(ctl, hdr, caught) /\ RefsCounted(ctl, hdr, ptrs) /\ FramesMatch(ctl, hdr)
  BY DEF CxaInv, Placed
<1>1. /\ p \in Objects /\ d \in Objects /\ d \in Ours /\ p # d /\ d \notin Foreigns /\ d \notin Primaries
      /\ NULL \notin Primaries
  BY DEF Objects, Ours, ObjectsAssumption
<1>2. /\ hdr \in [Objects -> Header] /\ hdr[p] \in Header /\ hdr[p].refs \in Int
      /\ ctl \in [Threads -> Seq(Frames)] /\ ptrs \in [Primaries -> Nat]
  BY <1>0, <1>1 DEF CxaTypeOK, Header
<1>3. /\ ptrs[p] > 0 /\ hdr[d].state = "free"
      /\ hdr' = CountsOwner(H, p)
      /\ uncaught' = [uncaught EXCEPT ![t] = @ + 1]
      /\ ctl' = [ctl EXCEPT ![t] = Append(@, f)]
      /\ UNCHANGED <<caught, propagating, ptrs, foreignCaught, terminated>>
  BY DEF cxa_rethrow_primary_exception
<1>4. /\ m \in Header /\ m.state = "live" /\ m.primary = p /\ m.handlers = 0 /\ m.props = 0
  <2> DEFINE u == Unused
             w == [u EXCEPT !.state = "live"]
  <2>1. u \in Header /\ u.handlers = 0 /\ u.props = 0
    BY DEF Unused, NULL, Header
  <2>2. m = [[u EXCEPT !.state = "live"] EXCEPT !.primary = p]
    BY DEF DependentOf, Unused
  <2> HIDE DEF u
  <2>3. w \in Header /\ w.state = "live" /\ w.handlers = 0 /\ w.props = 0
    BY <2>1 DEF Header
  <2>4. m = [w EXCEPT !.primary = p]
    BY <2>2
  <2> HIDE DEF w, m
  <2>5. m \in Header /\ m.primary = p
    BY <2>3, <2>4 DEF Header
  <2>6. m.state = w.state /\ m.handlers = w.handlers /\ m.props = w.props
    BY <2>3, <2>4 DEF Header
  <2> QED  BY <2>3, <2>5, <2>6
<1>5. v \in Int /\ v = hdr[p].refs + 1
  BY <1>2
<1> HIDE DEF m
<1>6. H \in [Objects -> Header] /\ H[d] = m /\ \A o \in Objects \ {d} : H[o] = hdr[o]
  BY <1>1, <1>2, <1>4, HeaderSet
<1> HIDE DEF H
<1>7. hdr' = [H EXCEPT ![p] = r]
  BY <1>1, <1>3, <1>6 DEF CountsOwner
<1> HIDE DEF v
<1>8. r \in Header /\ r.refs = v
  BY <1>2, <1>5 DEF Header
<1>9. /\ r.state = hdr[p].state /\ r.next = hdr[p].next /\ r.handlers = hdr[p].handlers /\ r.primary = hdr[p].primary
      /\ r.props = hdr[p].props /\ r.nextProp = hdr[p].nextProp
  BY <1>2 DEF Header
<1> HIDE DEF r
<1>10. hdr' \in [Objects -> Header] /\ hdr'[p] = r /\ \A o \in Objects \ {p} : hdr'[o] = H[o]
  BY <1>1, <1>6, <1>7, <1>8, HeaderSet
<1>11. hdr'[d] = m /\ \A o \in Objects \ {p, d} : hdr'[o] = hdr[o]
  BY <1>1, <1>6, <1>10
<1>12. f \in Frames /\ f.k = "search" /\ f.e = d
  BY <1>1 DEF Frame, Frames, Kinds, Flight
<1> HIDE DEF f
<1>13. f.k \in {"construct", "search", "destroy"}
  BY <1>12
<1>14. /\ Moves(ctl, ctl', t) /\ Pushes(ctl[t], ctl'[t], f, n)
       /\ ctl' \in [Threads -> Seq(Frames)] /\ PushCounted(ctl, ctl', t, n, f)
  BY <1>0, <1>3, <1>12, <1>13, PushFrame
<1> HIDE DEF n
<1>15. /\ \A u \in Threads : \A i \in DOMAIN ctl[u] : ctl[u][i].e # d
       /\ \A u \in Threads : HandlersIn(ctl[u], d) = {}
       /\ ~Used(ctl, d) /\ ~InCleanup(ctl, d)
  BY <1>0, <1>1, <1>2, <1>3, Nowhere
<1>16. FlightsCounted(ctl', uncaught', foreignCaught') /\ uncaught' \in [Threads -> Int]
  <2>1. FlightsCounted(ctl, uncaught, foreignCaught) /\ f.e \in Ours
    BY <1>1, <1>12 DEF CxaInv
  <2>2. UNCHANGED foreignCaught
    BY <1>3
  <2> QED  BY <1>0, <1>3, <1>12, <1>14, <2>1, <2>2, OneMoreFlight
<1>17. CxaTypeOK'
  BY <1>0, <1>3, <1>10, <1>14, <1>16 DEF CxaTypeOK
<1>18. Placed(ctl', hdr', caught')
  <2>1. HeadersKept(Objects \ {d}, hdr, hdr')
    BY <1>9, <1>10, <1>11 DEF HeadersKept
  <2>2. Admits(ctl, hdr, hdr', caught, caught, t, f)
    BY <1>1, <1>4, <1>11, <1>12, <1>15, <2>1 DEF Admits, StateOfFrame
  <2>3. Placed(ctl', hdr', caught)
    BY <1>0, <1>12, <1>13, <1>14, <2>2, PushPlaced
  <2> QED  BY <1>3, <2>3
<1>19. RefsCounted(ctl', hdr', ptrs')
  <2>1. hdr[d].primary = NULL
    BY <1>0, <1>3 DEF RefsCounted
  <2>2. /\ \A o \in Dependents : o # d => hdr'[o] = hdr[o]
        /\ hdr'[d].primary = p /\ hdr'[d].state = "live"
    <3>1. \A o \in Dependents : o \in Objects /\ o # p
      BY DEF Objects, ObjectsAssumption
    <3> QED  BY <1>4, <1>11, <3>1
  <2>3. DependentsOf(hdr', p) = DependentsOf(hdr, p) \cup {d} /\ d \notin DependentsOf(hdr, p)
    BY <1>1, <2>1, <2>2 DEF DependentsOf
  <2>4. \A o \in Primaries : o # p => DependentsOf(hdr', o) = DependentsOf(hdr, o)
    BY <1>1, <2>1, <2>2 DEF DependentsOf
  <2>5. IsFiniteSet(DependentsOf(hdr, p)) /\ Cardinality(DependentsOf(hdr, p)) \in Nat
    BY DependentsCounted
  <2>6. Cardinality(DependentsOf(hdr', p)) = Cardinality(DependentsOf(hdr, p)) + 1
    BY <2>3, <2>5, FS_AddElement
  <2>7. /\ \A o \in Ours : o # d => (Used(ctl', o) <=> Used(ctl, o))
        /\ Used(ctl', d)
    BY <1>12, <1>14 DEF PushCounted
  <2>8. \A o \in Primaries : o \in Ours /\ o # d
    BY <1>1 DEF Ours
  <2>9. hdr[p].refs = ptrs[p] + Cardinality(DependentsOf(hdr, p)) + One(Used(ctl, p)) /\ hdr[p].state = "live"
    BY <1>0, <1>3, PointedToLive DEF RefsCounted
  <2>10. ptrs[p] \in Nat /\ One(Used(ctl, p)) \in Nat /\ One(Used(ctl', p)) = One(Used(ctl, p))
    BY <1>2, <2>7, <2>8 DEF One
  <2>11. hdr'[p].refs = hdr[p].refs + 1 /\ hdr'[p].state = "live"
    BY <1>5, <1>8, <1>9, <1>10, <2>9
  <2>12. /\ hdr'[p].refs = ptrs[p] + Cardinality(DependentsOf(hdr', p)) + One(Used(ctl', p))
         /\ hdr'[p].state = "live" <=> hdr'[p].refs > 0
    BY <2>5, <2>6, <2>9, <2>10, <2>11
  <2>13. ASSUME NEW o \in Primaries, o # p
         PROVE  /\ hdr'[o].refs = ptrs[o] + Cardinality(DependentsOf(hdr', o)) + One(Used(ctl', o))
                /\ hdr'[o].state = "live" <=> hdr'[o].refs > 0
    <3>1. hdr'[o] = hdr[o]
      BY <1>11, <2>8, <2>13 DEF Objects
    <3>2. One(Used(ctl', o)) = One(Used(ctl, o)) /\ DependentsOf(hdr', o) = DependentsOf(hdr, o)
      BY <2>4, <2>7, <2>8, <2>13 DEF One
    <3> QED  BY <1>0, <3>1, <3>2 DEF RefsCounted
  <2>14. ASSUME NEW o \in Dependents
         PROVE  /\ hdr'[o].state = "live" => hdr'[o].primary \in Primaries /\ Used(ctl', o)
                /\ hdr'[o].state # "live" => hdr'[o].state = "free" /\ hdr'[o].primary = NULL
    <3>1. CASE o = d
      BY <2>2, <2>7, <3>1
    <3>2. CASE o # d
      <4>1. hdr'[o] = hdr[o] /\ (Used(ctl', o) <=> Used(ctl, o))
        BY <2>2, <2>7, <3>2 DEF Ours
      <4> QED  BY <1>0, <4>1 DEF RefsCounted
    <3> QED  BY <3>1, <3>2
  <2>15. RefsCounted(ctl', hdr', ptrs)
    BY <2>12, <2>13, <2>14 DEF RefsCounted
  <2> QED  BY <1>3, <2>15
<1>20. EHABI => Propagates(ctl', hdr', propagating')
  <2>1. \A o \in Ours : o # d => hdr'[o].props = hdr[o].props /\ hdr'[o].nextProp = hdr[o].nextProp
    <3>1. \A o \in Ours : o \in Objects
      BY DEF Objects, Ours
    <3> QED  BY <1>9, <1>10, <1>11, <3>1
  <2>2. hdr'[d].props = 0
    BY <1>4, <1>11
  <2>3. /\ \A o \in Ours : hdr'[o].props = hdr[o].props \/ (hdr'[o].props = 0 /\ ~InCleanup(ctl, o))
        /\ \A o \in Ours : InCleanup(ctl, o) => hdr'[o].nextProp = hdr[o].nextProp
    BY <1>15, <2>1, <2>2
  <2>4. EHABI => Propagates(ctl', hdr', propagating)
    BY <1>14, <2>3, CleanupsKept DEF PushCounted
  <2> QED  BY <1>3, <2>4
<1> QED  BY <1>16, <1>17, <1>18, <1>19, <1>20 DEF CxaInv

\* An exception that is not alive is neither in flight nor in a handler, and
\* nothing refers to it.
LEMMA Dead ==
  ASSUME ObjectsAssumption, CxaInv, NEW x \in Ours, hdr[x].state # "live"
  PROVE  /\ ~Used(ctl, x) /\ ~InCleanup(ctl, x) /\ \A u \in Threads : HandlersIn(ctl[u], x) = {}
         /\ x \in Primaries => ptrs[x] = 0 /\ Cardinality(DependentsOf(hdr, x)) = 0 /\ hdr[x].refs = 0
<1>0. FramesMatch(ctl, hdr) /\ RefsCounted(ctl, hdr, ptrs) /\ ptrs \in [Primaries -> Nat] /\ hdr \in [Objects -> Header]
  BY DEF CxaInv, CxaTypeOK, Placed
<1>1. \A u \in Threads : \A i \in DOMAIN ctl[u] : ctl[u][i].e = x => ctl[u][i].k \notin Flight \cup {"handler"}
  BY <1>0 DEF FramesMatch, StateOfFrame, Flight
<1>2. \A u \in Threads : HandlersIn(ctl[u], x) = {} /\ ~FliesIn(ctl[u], x)
  BY <1>1 DEF HandlersIn, FliesIn
<1>3. ~Used(ctl, x)
  BY <1>2 DEF Used
<1>4. ~InCleanup(ctl, x)
  BY <1>1 DEF InCleanup, CleanupsIn, Flight
<1>5. ASSUME x \in Primaries
      PROVE  ptrs[x] = 0 /\ Cardinality(DependentsOf(hdr, x)) = 0 /\ hdr[x].refs = 0
  <2>1. hdr[x].refs = ptrs[x] + Cardinality(DependentsOf(hdr, x)) + 0 /\ ~(hdr[x].refs > 0)
    BY <1>0, <1>3, <1>5 DEF RefsCounted, One
  <2>2. ptrs[x] \in Nat /\ Cardinality(DependentsOf(hdr, x)) \in Nat
    BY <1>0, <1>5, DependentsCounted
  <2> QED  BY <2>1, <2>2
<1> QED  BY <1>2, <1>3, <1>4, <1>5

\* __cxa_free_exception of the exception x.
Frees(H, G, x) == G = [H EXCEPT ![x] = Unused]

\* What the freeing of an exception does to the headers.
LEMMA FreesView ==
  ASSUME NEW H \in [Objects -> Header], NEW x \in Objects, NEW G, Frees(H, G, x)
  PROVE  /\ G \in [Objects -> Header] /\ \A o \in Objects \ {x} : G[o] = H[o]
         /\ G[x].state = "free" /\ G[x].refs = 0 /\ G[x].handlers = 0 /\ G[x].next = NULL
         /\ G[x].primary = NULL /\ G[x].props = 0 /\ G[x].nextProp = NULL
<1> DEFINE r == Unused
<1>1. r \in Header
  BY DEF Unused, NULL, Header
<1>2. /\ r.state = "free" /\ r.refs = 0 /\ r.handlers = 0 /\ r.next = NULL
      /\ r.primary = NULL /\ r.props = 0 /\ r.nextProp = NULL
  BY DEF Unused, NULL
<1>3. G = [H EXCEPT ![x] = r]
  BY DEF Frees
<1> HIDE DEF r
<1>4. G \in [Objects -> Header] /\ G[x] = r /\ \A o \in Objects \ {x} : G[o] = H[o]
  BY <1>1, <1>3, HeaderSet
<1> QED  BY <1>2, <1>4

\* The frame h of t goes, whose exception was being constructed or destroyed.
LEMMA FreeKeeps ==
  ASSUME ObjectsAssumption, CxaInv, NEW t \in Threads, NEW n, NEW h, NEW x,
         Moves(ctl, ctl', t), Removes(ctl[t], ctl'[t], h, n), h # n => ctl[t][n].k = "raise" /\ ctl[t][h].k = "construct",
         ctl[t][h].k \in {"construct", "destroy"}, x = ctl[t][h].e, Frees(hdr, hdr', x),
         UNCHANGED <<caught, uncaught, propagating, ptrs, foreignCaught, terminated>>
  PROVE  CxaInv'
<1>0. CxaTypeOK /\ Placed(ctl, hdr, caught) /\ RefsCounted(ctl, hdr, ptrs) /\ FramesMatch(ctl, hdr)
  BY DEF CxaInv, Placed
<1>1. h \in DOMAIN ctl[t] /\ n \in DOMAIN ctl[t]
  BY DEF Removes, Ends
<1>2. x \in Primaries /\ x \in Ours /\ x \in Objects /\ hdr[x].state # "live" /\ x \notin Dependents
  <2>1. x \in Primaries
    BY <1>0, <1>1 DEF FramesMatch
  <2>2. hdr[x].state = StateOfFrame(ctl[t][h].k)
    BY <1>0, <1>1 DEF FramesMatch
  <2> QED  BY <2>1, <2>2 DEF StateOfFrame, Ours, Objects, ObjectsAssumption
<1>3. hdr \in [Objects -> Header] /\ ctl' \in [Threads -> Seq(Frames)]
  BY <1>0 DEF CxaTypeOK, Moves
<1>4. /\ hdr' \in [Objects -> Header] /\ \A o \in Objects \ {x} : hdr'[o] = hdr[o]
      /\ hdr'[x].state = "free" /\ hdr'[x].refs = 0 /\ hdr'[x].handlers = 0 /\ hdr'[x].props = 0
  BY <1>2, <1>3, FreesView
<1>5. /\ ~Used(ctl, x) /\ ~InCleanup(ctl, x) /\ \A u \in Threads : HandlersIn(ctl[u], x) = {}
      /\ ptrs[x] = 0 /\ Cardinality(DependentsOf(hdr, x)) = 0
  BY <1>2, Dead
<1>6. CxaTypeOK'
  BY <1>0, <1>3, <1>4 DEF CxaTypeOK
<1>7. Placed(ctl', hdr', caught')
  <2>1. h # n => ctl[t][n].k \in Flight
    BY DEF Flight
  <2>2. ctl[t][h].k # "handler"
    OBVIOUS
  <2>3. \A o \in Objects \ {x} :
          hdr'[o].state = hdr[o].state /\ hdr'[o].next = hdr[o].next /\ hdr'[o].handlers = hdr[o].handlers
    BY <1>4
  <2>4. ctl[t][h].e = x /\ HandlersIn(ctl[t], x) = {} /\ hdr'[x].handlers = 0
    BY <1>4, <1>5
  <2>5. Placed(ctl', hdr', caught)
    BY <1>0, <1>2, <2>1, <2>2, <2>3, <2>4, RemovePlaced
  <2> QED  BY <2>5
<1>8. RemoveCounted(ctl, ctl', t, h, n)
  <2>1. ctl[t][h].k # "cleanup" /\ (h # n => ctl[t][n].k = "raise" /\ ctl[t][h].k \in {"handler", "construct"})
    OBVIOUS
  <2> QED  BY <2>1, RemoveCounts
<1>9. \A o \in Ours : Used(ctl', o) <=> Used(ctl, o)
  <2>1. ~Used(ctl', x)
    <3>1. \A u \in Threads : \A i \in DOMAIN ctl[u] : ~UsedAt(ctl, u, i, x)
      BY <1>5, UsedWhere
    <3> QED  BY <1>8, <3>1 DEF RemoveCounted
  <2> QED  BY <1>5, <1>8, <2>1 DEF RemoveCounted
<1>10. RefsCounted(ctl', hdr', ptrs')
  <2>1. \A d \in Dependents : hdr'[d] = hdr[d]
    BY <1>2, <1>4 DEF Objects
  <2>2. \A o : DependentsOf(hdr', o) = DependentsOf(hdr, o)
    BY <2>1 DEF DependentsOf
  <2>3. ASSUME NEW o \in Primaries
        PROVE  /\ hdr'[o].refs = ptrs[o] + Cardinality(DependentsOf(hdr', o)) + One(Used(ctl', o))
               /\ hdr'[o].state = "live" <=> hdr'[o].refs > 0
    <3>1. CASE o = x
      <4>1. One(Used(ctl', x)) = 0
        BY <1>2, <1>5, <1>9 DEF One
      <4> QED  BY <1>4, <1>5, <2>2, <3>1, <4>1
    <3>2. CASE o # x
      <4>1. hdr'[o] = hdr[o] /\ One(Used(ctl', o)) = One(Used(ctl, o))
        BY <1>4, <1>9, <3>2 DEF Objects, Ours, One
      <4> QED  BY <1>0, <2>2, <4>1 DEF RefsCounted
    <3> QED  BY <3>1, <3>2
  <2>4. ASSUME NEW d \in Dependents
        PROVE  /\ hdr'[d].state = "live" => hdr'[d].primary \in Primaries /\ Used(ctl', d)
               /\ hdr'[d].state # "live" => hdr'[d].state = "free" /\ hdr'[d].primary = NULL
    BY <1>0, <1>9, <2>1 DEF RefsCounted, Ours
  <2>5. RefsCounted(ctl', hdr', ptrs)
    BY <2>3, <2>4 DEF RefsCounted
  <2> QED  BY <2>5
<1>11. FlightsCounted(ctl', uncaught', foreignCaught')
  <2>1. CASE h = n
    <3>1. n \notin FlightsIn(ctl[t])
      BY <2>1 DEF FlightsIn, Flight
    <3>2. FlightsIn(ctl'[t]) = FlightsIn(ctl[t])
      BY <1>8, <2>1, <3>1 DEF RemoveCounted
    <3>3. \A u \in Threads : FlightsIn(ctl'[u]) = FlightsIn(ctl[u])
      BY <3>2 DEF Moves
    <3> QED  BY <3>3 DEF CxaInv, FlightsCounted
  <2>2. CASE h # n
    <3>1. FlightsIn(ctl'[t]) = IF n \in FlightsIn(ctl[t]) THEN (FlightsIn(ctl[t]) \ {n}) \cup {h} ELSE FlightsIn(ctl[t])
      BY <1>8, <2>2 DEF RemoveCounted
    <3>2. IsFiniteSet(FlightsIn(ctl[t])) /\ h \notin FlightsIn(ctl[t])
      BY <1>0, <1>8, <2>2, FlightsFinite DEF RemoveCounted, CxaTypeOK
    <3>3. Cardinality(FlightsIn(ctl'[t])) = Cardinality(FlightsIn(ctl[t]))
      BY <3>1, <3>2, FlightMoves
    <3>4. \A u \in Threads : Cardinality(FlightsIn(ctl'[u])) = Cardinality(FlightsIn(ctl[u]))
      BY <3>3 DEF Moves
    <3> QED  BY <3>4 DEF CxaInv, FlightsCounted
  <2> QED  BY <2>1, <2>2
<1>12. EHABI => Propagates(ctl', hdr', propagating')
  <2>1. \A o \in Ours : o # x => hdr'[o] = hdr[o]
    BY <1>4 DEF Objects, Ours
  <2>2. /\ \A o \in Ours : hdr'[o].props = hdr[o].props \/ (hdr'[o].props = 0 /\ ~InCleanup(ctl, o))
        /\ \A o \in Ours : InCleanup(ctl, o) => hdr'[o].nextProp = hdr[o].nextProp
    BY <1>4, <1>5, <2>1
  <2>3. EHABI => Propagates(ctl', hdr', propagating)
    BY <1>8, <2>2, CleanupsKept DEF RemoveCounted
  <2> QED  BY <2>3
<1> QED  BY <1>6, <1>7, <1>10, <1>11, <1>12 DEF CxaInv

\* The destructor of an exception object has returned and __cxa_free_exception frees it.
LEMMA EndDestroyKeeps ==
  ASSUME ObjectsAssumption, CxaInv, NEW t \in Threads, EndDestroy(t)
  PROVE  CxaInv'
<1> DEFINE n == Len(ctl[t])
<1>0. CxaTypeOK /\ TopIs(t, "destroy")
  BY DEF CxaInv, EndDestroy
<1>1. /\ ctl[t] \in Seq(Frames) /\ ctl[t] # <<>> /\ ctl[t][n].k = "destroy" /\ ctl[t][n].e = Top(t).e
      /\ ctl \in [Threads -> Seq(Frames)]
  BY <1>0, TopView DEF CxaTypeOK
<1>2. /\ Frees(hdr, hdr', Top(t).e)
      /\ ctl' = [ctl EXCEPT ![t] = Front(ctl[t])]
      /\ UNCHANGED <<caught, uncaught, propagating, ptrs, foreignCaught, terminated>>
  BY <1>1 DEF EndDestroy, Frees
<1>3. Front(ctl[t]) \in Seq(Frames) /\ Removes(ctl[t], Front(ctl[t]), n, n)
  BY <1>1, PopView
<1>4. Moves(ctl, ctl', t) /\ Removes(ctl[t], ctl'[t], n, n)
  BY <1>1, <1>2, <1>3 DEF Moves
<1>5. UNCHANGED <<caught, uncaught, propagating, ptrs, foreignCaught, terminated>> /\ Frees(hdr, hdr', ctl[t][n].e)
  BY <1>1, <1>2
<1>6. ctl[t][n].k \in {"construct", "destroy"}
  BY <1>1
<1> HIDE DEF n
<1> QED  BY <1>4, <1>5, <1>6, FreeKeeps

\* The flights of native exceptions remain as many when a frame is removed
\* that is not one of them.
LEMMA ShrinkFlights ==
  ASSUME NEW C, NEW D, NEW t \in Threads, NEW h, NEW n, Moves(C, D, t), RemoveCounted(C, D, t, h, n),
         C[t][h].k \notin Flight
  PROVE  \A u \in Threads : Cardinality(FlightsIn(D[u])) = Cardinality(FlightsIn(C[u]))
<1>1. CASE h = n
  <2>1. n \notin FlightsIn(C[t])
    BY <1>1 DEF FlightsIn
  <2>2. FlightsIn(D[t]) = FlightsIn(C[t])
    BY <1>1, <2>1 DEF RemoveCounted
  <2> QED  BY <2>2 DEF Moves
<1>2. CASE h # n
  <2>1. FlightsIn(D[t]) = IF n \in FlightsIn(C[t]) THEN (FlightsIn(C[t]) \ {n}) \cup {h} ELSE FlightsIn(C[t])
    BY <1>2 DEF RemoveCounted
  <2>2. IsFiniteSet(FlightsIn(C[t])) /\ h \notin FlightsIn(C[t])
    BY <1>2, FlightsFinite DEF RemoveCounted, Moves
  <2>3. Cardinality(FlightsIn(D[t])) = Cardinality(FlightsIn(C[t]))
    BY <2>1, <2>2, FlightMoves
  <2> QED  BY <2>3 DEF Moves
<1> QED  BY <1>1, <1>2

\* H without x, if x is a dependent exception.
WithoutUser(H, G, x) ==
  /\ G \in [Objects -> Header] /\ \A o \in Objects \ {x} : G[o] = H[o]
  /\ x \in Dependents => G[x].state = "free" /\ G[x].primary = NULL /\ G[x].props = 0
  /\ x \notin Dependents => /\ G[x].state = H[x].state /\ G[x].refs = H[x].refs /\ G[x].primary = H[x].primary
                            /\ G[x].props = H[x].props /\ G[x].nextProp = H[x].nextProp

\* The last use of the exception x ends, which leaves the frames C and the
\* headers H: it is freed if it is a dependent one, and its primary loses an
\* owner.
LEMMA LastUse ==
  ASSUME ObjectsAssumption, CxaInv, NEW t \in Threads, NEW x \in Ours, hdr[x].state = "live",
         NEW C \in [Threads -> Seq(Frames)], SameCleanups(ctl, C), ~InCleanup(ctl, x),
         Used(ctl, x), ~Used(C, x), \A e \in Ours : e # x => (Used(C, e) <=> Used(ctl, e)),
         NEW H, WithoutUser(hdr, H, x), NEW z, Placed(C, H, z),
         NEW p, OwnerOf(hdr, x, p),
         NEW G, LosesOwner(H, G, p), NEW D, MayDestroy(H, C, D, t, p)
  PROVE  /\ G \in [Objects -> Header] /\ D \in [Threads -> Seq(Frames)]
         /\ Placed(D, G, z) /\ RefsCounted(D, G, ptrs)
         /\ EHABI => Propagates(D, G, propagating)
         /\ \A u \in Threads : FlightsIn(D[u]) = FlightsIn(C[u])
<1>0. /\ RefsCounted(ctl, hdr, ptrs) /\ ptrs \in [Primaries -> Nat] /\ x \in Objects
      /\ Primaries \cap Dependents = {}
  BY DEF CxaInv, CxaTypeOK, Ours, Objects, ObjectsAssumption
<1>1. p \in Primaries /\ RefsOwed(C, H, ptrs, p)
  <2>2. ASSUME NEW o \in Primaries PROVE H[o].refs = hdr[o].refs /\ H[o].state = hdr[o].state
    <3>1. CASE o = x
      BY <1>0, <3>1 DEF WithoutUser
    <3>2. CASE o # x
      BY <3>2 DEF WithoutUser, Objects
    <3> QED  BY <3>1, <3>2
  <2>3. \A d \in Dependents : d # x => H[d].state = hdr[d].state /\ H[d].primary = hdr[d].primary
    BY DEF WithoutUser, Objects
  <2>4. x \in Dependents => H[x].state = "free" /\ H[x].primary = NULL
    BY DEF WithoutUser
  <2>5. /\ RefsCounted(ctl, hdr, ptrs) /\ Used(ctl, x) /\ ~Used(C, x) /\ hdr[x].state = "live"
        /\ \A e \in Ours : e # x => (Used(C, e) <=> Used(ctl, e))
    BY <1>0
  <2>6. UserGone(ctl, C, hdr, H, x)
    BY <2>2, <2>3, <2>4, <2>5 DEF UserGone
  <2> QED  BY <1>0, <2>6, Released
<1>2. H \in [Objects -> Header]
  BY DEF WithoutUser
<1>3. /\ D \in [Threads -> Seq(Frames)] /\ Placed(D, G, z) /\ RefsCounted(D, G, ptrs)
      /\ FlightsIn(D[t]) = FlightsIn(C[t]) /\ SameCleanups(C, D)
  BY <1>0, <1>1, <1>2, OwnerGone
<1>4. /\ G \in [Objects -> Header]
      /\ \A o \in Objects : G[o].props = H[o].props /\ G[o].nextProp = H[o].nextProp
  BY <1>1, <1>2, DecrementView
<1>5. \A u \in Threads : FlightsIn(D[u]) = FlightsIn(C[u])
  BY <1>3 DEF MayDestroy
<1>6. EHABI => Propagates(D, G, propagating)
  <2>1. SameCleanups(ctl, D)
    BY <1>3 DEF SameCleanups
  <2>2. ASSUME NEW o \in Ours
        PROVE  /\ G[o].props = hdr[o].props \/ (G[o].props = 0 /\ ~InCleanup(ctl, o))
               /\ InCleanup(ctl, o) => G[o].nextProp = hdr[o].nextProp
    <3>1. G[o].props = H[o].props /\ G[o].nextProp = H[o].nextProp /\ o \in Objects
      BY <1>4 DEF Objects, Ours
    <3>2. CASE o # x
      BY <3>1, <3>2 DEF WithoutUser
    <3>3. CASE o = x
      BY <3>1, <3>3 DEF WithoutUser
    <3> QED  BY <3>2, <3>3
  <2> QED  BY <2>1, <2>2, CleanupsKept
<1> QED  BY <1>3, <1>4, <1>5, <1>6

\* The header of x with another handlerCount.
Recounts(H, G, x, v) == G = [H EXCEPT ![x] = [H[x] EXCEPT !.handlers = v]]

\* What a new handlerCount does to the headers.
LEMMA RecountsView ==
  ASSUME NEW H \in [Objects -> Header], NEW x \in Objects, NEW v \in Int, NEW G, Recounts(H, G, x, v)
  PROVE  /\ G \in [Objects -> Header] /\ \A o \in Objects \ {x} : G[o] = H[o]
         /\ G[x].handlers = v
         /\ G[x].state = H[x].state /\ G[x].next = H[x].next /\ G[x].refs = H[x].refs
         /\ G[x].primary = H[x].primary /\ G[x].props = H[x].props /\ G[x].nextProp = H[x].nextProp
<1> DEFINE r == [H[x] EXCEPT !.handlers = v]
<1>1. H[x] \in Header
  OBVIOUS
<1>2. r \in Header /\ r.handlers = v
  BY <1>1 DEF Header
<1>3. /\ r.state = H[x].state /\ r.next = H[x].next /\ r.refs = H[x].refs
      /\ r.primary = H[x].primary /\ r.props = H[x].props /\ r.nextProp = H[x].nextProp
  BY <1>1 DEF Header
<1>4. G = [H EXCEPT ![x] = r]
  BY DEF Recounts
<1> HIDE DEF r
<1>5. G \in [Objects -> Header] /\ G[x] = r /\ \A o \in Objects \ {x} : G[o] = H[o]
  BY <1>2, <1>4, HeaderSet
<1> QED  BY <1>2, <1>3, <1>5

\* How many handlers the caught exception of t has, when its handler h ends.
LEMMA CountOfCaught ==
  ASSUME ObjectsAssumption, CxaInv, NEW t \in Threads, NEW x \in Ours, NEW h \in HandlersIn(ctl[t], x)
  PROVE  /\ hdr[x].handlers \in Int /\ hdr[x].handlers # 0
         /\ hdr[x].handlers < 0 <=> FliesIn(ctl[t], x)
         /\ HandlersIn(ctl[t], x) = {h} <=> hdr[x].handlers \in {-1, 1}
<1> DEFINE K == Cardinality(HandlersIn(ctl[t], x))
<1>0. ctl[t] \in Seq(Frames) /\ hdr \in [Objects -> Header] /\ x \in Objects
  BY DEF CxaInv, CxaTypeOK, Objects, Ours
<1>1. IsFiniteSet(HandlersIn(ctl[t], x)) /\ K \in Nat /\ K # 0
  BY <1>0, HandlersFinite
<1>2. hdr[x].handlers = IF FliesIn(ctl[t], x) THEN -K ELSE K
  BY DEF CxaInv, Placed, HandlerCounts, HandlerCount
<1>3. HandlersIn(ctl[t], x) = {h} <=> K = 1
  BY <1>1, FS_Singleton
<1> HIDE DEF K
<1> QED  BY <1>1, <1>2, <1>3

\* What remains to be shown of the end of a handler of t, after which the
\* frames are D and the headers G.
Ended(C, D, H, G, z, P, g) ==
  /\ D \in [Threads -> Seq(Frames)] /\ G \in [Objects -> Header] /\ z \in [Threads -> Objects \cup {NULL}]
  /\ Placed(D, G, z) /\ RefsCounted(D, G, P)
  /\ EHABI => Propagates(D, G, g)
  /\ \A u \in Threads : Cardinality(FlightsIn(D[u])) = Cardinality(FlightsIn(C[u]))

\* What is to be shown of the end of a handler.
LEMMA EndedKeeps ==
  ASSUME CxaInv, Ended(ctl, ctl', hdr, hdr', caught', ptrs, propagating), terminated' \in BOOLEAN,
         UNCHANGED <<uncaught, propagating, ptrs, foreignCaught>>
  PROVE  CxaInv'
<1>1. CxaTypeOK'
  BY DEF CxaInv, CxaTypeOK, Ended
<1>2. FlightsCounted(ctl', uncaught', foreignCaught')
  BY DEF CxaInv, FlightsCounted, Ended
<1>3. RefsCounted(ctl', hdr', ptrs')
  BY DEF Ended
<1>4. EHABI => Propagates(ctl', hdr', propagating')
  BY DEF Ended
<1> QED  BY <1>1, <1>2, <1>3, <1>4 DEF CxaInv, Ended

\* A frame with a handler of t is left: C are the frames without it.
HandlerLeft(C, t, h, n) ==
  /\ Moves(ctl, C, t) /\ Removes(ctl[t], C[t], h, n)
  /\ ctl[t][h].k = "handler" /\ (h # n => ctl[t][n].k = "raise")

\* What is known when the innermost handler of a thread is left.
LEMMA HandlerLeftView ==
  ASSUME ObjectsAssumption, CxaInv, NEW t \in Threads, NEW C, NEW h, NEW n, HandlerLeft(C, t, h, n)
  PROVE  /\ HandlerEnds(ctl, caught, t, h) /\ h \in DOMAIN ctl[t]
         /\ C \in [Threads -> Seq(Frames)] /\ SameCleanups(ctl, C)
         /\ \A u \in Threads : Cardinality(FlightsIn(C[u])) = Cardinality(FlightsIn(ctl[u]))
         /\ \A e : e # ctl[t][h].e => (Used(C, e) <=> Used(ctl, e))
         /\ Used(C, ctl[t][h].e) <=> \E u \in Threads : \E i \in DOMAIN ctl[u] :
              (u # t \/ i # h) /\ UsedAt(ctl, u, i, ctl[t][h].e)
<1>0. Placed(ctl, hdr, caught)
  BY DEF CxaInv
<1>1. /\ Moves(ctl, C, t) /\ Removes(ctl[t], C[t], h, n)
      /\ ctl[t][h].k = "handler" /\ (h # n => ctl[t][n].k = "raise")
  BY DEF HandlerLeft
<1>2. HandlerEnds(ctl, caught, t, h)
  <2>1. h # n => ctl[t][n].k \in Flight
    BY <1>1 DEF Flight
  <2> QED  BY <1>0, <1>1, <2>1, WhichEnds
<1>3. RemoveCounted(ctl, C, t, h, n)
  <2>1. ctl[t][h].k # "cleanup" /\ (h # n => ctl[t][n].k = "raise" /\ ctl[t][h].k \in {"handler", "construct"})
    BY <1>1
  <2> QED  BY <1>1, <2>1, RemoveCounts
<1>4. \A u \in Threads : Cardinality(FlightsIn(C[u])) = Cardinality(FlightsIn(ctl[u]))
  <2>1. ctl[t][h].k \notin Flight
    BY <1>1 DEF Flight
  <2> QED  BY <1>1, <1>3, <2>1, ShrinkFlights
<1>5. h \in DOMAIN ctl[t] /\ C \in [Threads -> Seq(Frames)]
  BY <1>1 DEF Removes, Moves
<1> QED  BY <1>2, <1>3, <1>4, <1>5 DEF RemoveCounted

\* The handler of a foreign exception ends: _Unwind_DeleteException, or it was rethrown.
LEMMA AlienHandlerEnds ==
  ASSUME ObjectsAssumption, CxaInv, NEW t \in Threads, NEW C, NEW h, NEW n, HandlerLeft(C, t, h, n),
         caught[t] \notin Ours,
         NEW G \in [Objects -> Header], \A o \in Objects : o # caught[t] => G[o] = hdr[o],
         NEW z \in [Threads -> Objects \cup {NULL}], z[t] = NULL, \A u \in Threads \ {t} : z[u] = caught[u]
  PROVE  Ended(ctl, C, hdr, G, z, ptrs, propagating)
<1>0. /\ Placed(ctl, hdr, caught) /\ RefsCounted(ctl, hdr, ptrs)
      /\ Moves(ctl, C, t) /\ Removes(ctl[t], C[t], h, n) /\ ctl[t][h].k = "handler"
      /\ h # n => ctl[t][n].k \in Flight
  BY DEF CxaInv, HandlerLeft, Flight
<1>1. /\ h \in ForeignIn(ctl[t])
      /\ C \in [Threads -> Seq(Frames)] /\ SameCleanups(ctl, C)
      /\ \A u \in Threads : Cardinality(FlightsIn(C[u])) = Cardinality(FlightsIn(ctl[u]))
      /\ \A e : e # ctl[t][h].e => (Used(C, e) <=> Used(ctl, e))
  BY HandlerLeftView DEF HandlerEnds
<1>2. ctl[t][h].e \notin Ours
  BY <1>1 DEF ForeignIn, ObjectsAssumption
<1>3. \A o \in Ours : G[o] = hdr[o]
  BY DEF Objects, Ours
<1>4. Placed(C, G, z)
  <2>1. HeadersKept(Objects \ {caught[t]}, hdr, G)
    BY DEF HeadersKept
  <2> QED  BY <1>0, <2>1, AlienLeaves
<1>5. RefsCounted(C, G, ptrs)
  <2>1. \A e \in Ours : Used(C, e) <=> Used(ctl, e)
    BY <1>1, <1>2
  <2>2. /\ \A p \in Primaries : G[p].refs = hdr[p].refs /\ (G[p].state = "live" <=> hdr[p].state = "live")
        /\ \A d \in Dependents : G[d].state = hdr[d].state /\ G[d].primary = hdr[d].primary
    BY <1>3 DEF Ours
  <2> QED  BY <1>0, <2>1, <2>2, RefsKept
<1>6. EHABI => Propagates(C, G, propagating)
  BY <1>1, <1>3, CleanupsKept
<1> QED  BY <1>1, <1>4, <1>5, <1>6 DEF Ended

\* The handlerCount v after the end of a handler of x.
NextCount(H, x, v) == v = IF H[x].handlers < 0 THEN H[x].handlers + 1 ELSE H[x].handlers - 1

\* The top y of the caught stack of t after the end of handler h of x.
NextTop(C, H, t, x, h, y) == y = IF HandlersIn(C[t], x) = {h} THEN H[x].next ELSE x

\* A handler of x ends, and x is still used.
LEMMA StillUsed ==
  ASSUME ObjectsAssumption, CxaInv, NEW t \in Threads, NEW C, NEW h, NEW n, HandlerLeft(C, t, h, n),
         NEW x, x = caught[t], x \in Ours, HandlersIn(ctl[t], x) # {h} \/ FliesIn(ctl[t], x),
         NEW v \in Int, NextCount(hdr, x, v),
         NEW G, Recounts(hdr, G, x, v),
         NEW z \in [Threads -> Objects \cup {NULL}], \A u \in Threads \ {t} : z[u] = caught[u],
         NextTop(ctl, hdr, t, x, h, z[t])
  PROVE  Ended(ctl, C, hdr, G, z, ptrs, propagating)
<1>0. /\ Placed(ctl, hdr, caught) /\ RefsCounted(ctl, hdr, ptrs)
      /\ hdr \in [Objects -> Header] /\ x \in Objects
      /\ Moves(ctl, C, t) /\ Removes(ctl[t], C[t], h, n) /\ ctl[t][h].k = "handler"
      /\ h # n => ctl[t][n].k \in Flight
  BY DEF CxaInv, CxaTypeOK, Objects, Ours, HandlerLeft, Flight
<1>1. /\ ctl[t][h].e = x /\ h \in DOMAIN ctl[t]
      /\ C \in [Threads -> Seq(Frames)] /\ SameCleanups(ctl, C)
      /\ \A u \in Threads : Cardinality(FlightsIn(C[u])) = Cardinality(FlightsIn(ctl[u]))
      /\ \A e : e # x => (Used(C, e) <=> Used(ctl, e))
      /\ Used(C, x) <=> \E u \in Threads : \E i \in DOMAIN ctl[u] : (u # t \/ i # h) /\ UsedAt(ctl, u, i, x)
  BY HandlerLeftView DEF HandlerEnds
<1>2. /\ G \in [Objects -> Header] /\ \A o \in Objects \ {x} : G[o] = hdr[o]
      /\ G[x].handlers = v
      /\ G[x].state = hdr[x].state /\ G[x].next = hdr[x].next /\ G[x].refs = hdr[x].refs
      /\ G[x].primary = hdr[x].primary /\ G[x].props = hdr[x].props /\ G[x].nextProp = hdr[x].nextProp
  BY <1>0, RecountsView
<1>3. \A o \in Ours : /\ G[o].state = hdr[o].state /\ G[o].refs = hdr[o].refs /\ G[o].primary = hdr[o].primary
                      /\ G[o].props = hdr[o].props /\ G[o].nextProp = hdr[o].nextProp
  BY <1>2 DEF Objects, Ours
<1>4. Placed(C, G, z)
  <2>1. HeadersKept(Objects \ {x}, hdr, G)
    BY <1>2 DEF HeadersKept
  <2>2. Leaves(ctl, hdr, G, caught, z, t, h)
    BY <1>2, <2>1 DEF Leaves, NextCount, NextTop
  <2>3. x = caught[t] /\ x \in Ours
    OBVIOUS
  <2> QED  BY <1>0, <2>2, <2>3, NativeLeaves
<1>5. Used(C, x) /\ Used(ctl, x)
  <2>1. Used(ctl, x)
    BY CaughtNative
  <2>2. CASE FliesIn(ctl[t], x)
    <3>1. PICK i \in DOMAIN ctl[t] : ctl[t][i].e = x /\ ctl[t][i].k \in Flight
      BY <2>2 DEF FliesIn
    <3>2. i # h /\ UsedAt(ctl, t, i, x)
      BY <1>0, <3>1 DEF UsedAt, Flight
    <3> QED  BY <1>1, <2>1, <3>2
  <2>3. CASE HandlersIn(ctl[t], x) # {h}
    <3>1. h \in HandlersIn(ctl[t], x)
      BY <1>0, <1>1 DEF HandlersIn
    <3>2. PICK i \in HandlersIn(ctl[t], x) : i # h
      BY <2>3, <3>1
    <3>3. i \in DOMAIN ctl[t] /\ UsedAt(ctl, t, i, x)
      BY DEF HandlersIn, UsedAt
    <3> QED  BY <1>1, <2>1, <3>2, <3>3
  <2> QED  BY <2>2, <2>3
<1>6. RefsCounted(C, G, ptrs)
  <2>1. \A e \in Ours : Used(C, e) <=> Used(ctl, e)
    BY <1>1, <1>5
  <2>2. /\ \A p \in Primaries : G[p].refs = hdr[p].refs /\ (G[p].state = "live" <=> hdr[p].state = "live")
        /\ \A d \in Dependents : G[d].state = hdr[d].state /\ G[d].primary = hdr[d].primary
    BY <1>3 DEF Ours
  <2> QED  BY <1>0, <2>1, <2>2, RefsKept
<1>7. EHABI => Propagates(C, G, propagating)
  BY <1>1, <1>3, CleanupsKept
<1> QED  BY <1>1, <1>2, <1>4, <1>6, <1>7 DEF Ended

\* The header of x when its last handler has ended.
Dropped(H, G, x) == IF x \in Dependents THEN Frees(H, G, x) ELSE Recounts(H, G, x, 0)

\* What the end of the last handler does to the headers.
LEMMA DroppedView ==
  ASSUME NEW H \in [Objects -> Header], NEW x \in Ours, NEW G, Dropped(H, G, x)
  PROVE  WithoutUser(H, G, x) /\ G[x].handlers = 0 /\ HeadersKept(Objects \ {x}, H, G)
<1>0. x \in Objects /\ 0 \in Int
  BY DEF Objects, Ours
<1>1. CASE x \in Dependents
  <2>1. Frees(H, G, x)
    BY <1>1 DEF Dropped
  <2>2. /\ G \in [Objects -> Header] /\ \A o \in Objects \ {x} : G[o] = H[o]
        /\ G[x].state = "free" /\ G[x].handlers = 0 /\ G[x].primary = NULL /\ G[x].props = 0
    BY <1>0, <2>1, FreesView
  <2> QED  BY <1>1, <2>2 DEF WithoutUser, HeadersKept
<1>2. CASE x \notin Dependents
  <2>1. PICK v \in Int : v = 0
    BY <1>0
  <2>2. Recounts(H, G, x, v)
    BY <1>2, <2>1 DEF Dropped
  <2>3. /\ G \in [Objects -> Header] /\ \A o \in Objects \ {x} : G[o] = H[o]
        /\ G[x].handlers = v
        /\ G[x].state = H[x].state /\ G[x].next = H[x].next /\ G[x].refs = H[x].refs
        /\ G[x].primary = H[x].primary /\ G[x].props = H[x].props /\ G[x].nextProp = H[x].nextProp
    BY <1>0, <2>2, RecountsView
  <2> QED  BY <1>2, <2>1, <2>3 DEF WithoutUser, HeadersKept
<1> QED  BY <1>1, <1>2

\* The last handler of an exception ends: the exception, or the dependent one and its primary,
\* loses an owner and leaves the caught stack.
LEMMA LastHandlerEnds ==
  ASSUME ObjectsAssumption, CxaInv, NEW t \in Threads, NEW C, NEW h, NEW n, HandlerLeft(C, t, h, n),
         NEW x, x = caught[t], x \in Ours, HandlersIn(ctl[t], x) = {h}, ~FliesIn(ctl[t], x), hdr[x].handlers = 1,
         NEW H, Dropped(hdr, H, x), NEW p, OwnerOf(hdr, x, p),
         NEW G, LosesOwner(H, G, p), NEW D, MayDestroy(H, C, D, t, p),
         NEW z \in [Threads -> Objects \cup {NULL}], \A u \in Threads \ {t} : z[u] = caught[u], z[t] = hdr[x].next
  PROVE  Ended(ctl, D, hdr, G, z, ptrs, propagating)
<1>0. /\ Placed(ctl, hdr, caught) /\ hdr \in [Objects -> Header] /\ x \in Objects
      /\ Moves(ctl, C, t) /\ Removes(ctl[t], C[t], h, n) /\ ctl[t][h].k = "handler"
      /\ h # n => ctl[t][n].k \in Flight
  BY DEF CxaInv, CxaTypeOK, Objects, Ours, HandlerLeft, Flight
<1>1. /\ ctl[t][h].e = x /\ h \in DOMAIN ctl[t]
      /\ C \in [Threads -> Seq(Frames)] /\ SameCleanups(ctl, C)
      /\ \A u \in Threads : Cardinality(FlightsIn(C[u])) = Cardinality(FlightsIn(ctl[u]))
      /\ \A e : e # x => (Used(C, e) <=> Used(ctl, e))
      /\ Used(C, x) <=> \E u \in Threads : \E i \in DOMAIN ctl[u] : (u # t \/ i # h) /\ UsedAt(ctl, u, i, x)
  BY HandlerLeftView DEF HandlerEnds
<1>2. WithoutUser(hdr, H, x) /\ H[x].handlers = 0 /\ HeadersKept(Objects \ {x}, hdr, H)
  BY <1>0, DroppedView
<1>3. Placed(C, H, z)
  <2>1. Leaves(ctl, hdr, H, caught, z, t, h)
    BY <1>2 DEF Leaves
  <2>2. x = caught[t] /\ x \in Ours
    OBVIOUS
  <2> QED  BY <1>0, <2>1, <2>2, NativeLeaves
<1>4. /\ hdr[x].state = "live" /\ Used(ctl, x)
      /\ \A u \in Threads : \A i \in DOMAIN ctl[u] : ctl[u][i].e = x => u = t /\ ctl[u][i].k \in Flight \cup {"handler"}
  BY CaughtNative
<1>5. ~Used(C, x)
  <2>1. ASSUME NEW u \in Threads, NEW i \in DOMAIN ctl[u], UsedAt(ctl, u, i, x)
        PROVE  u = t /\ i = h
    <3>1. ctl[u][i].e = x /\ u = t
      BY <1>4, <2>1 DEF UsedAt
    <3>2. ctl[u][i].k = "handler"
      BY <1>4, <3>1 DEF FliesIn
    <3>3. i \in HandlersIn(ctl[t], x)
      BY <3>1, <3>2 DEF HandlersIn
    <3> QED  BY <3>1, <3>3
  <2> QED  BY <1>1, <2>1
<1>6. ~InCleanup(ctl, x)
  BY <1>4 DEF InCleanup, CleanupsIn, FliesIn, Flight
<1>7. \A e \in Ours : e # x => (Used(C, e) <=> Used(ctl, e))
  BY <1>1
<1>8. /\ G \in [Objects -> Header] /\ D \in [Threads -> Seq(Frames)]
      /\ Placed(D, G, z) /\ RefsCounted(D, G, ptrs)
      /\ EHABI => Propagates(D, G, propagating)
      /\ \A u \in Threads : FlightsIn(D[u]) = FlightsIn(C[u])
  BY <1>1, <1>2, <1>3, <1>4, <1>5, <1>6, <1>7, LastUse
<1> QED  BY <1>1, <1>8 DEF Ended

(***************************************************************************)
(* __cxa_end_catch of the handler in frame h of t, which leaves below.     *)
(***************************************************************************)
LEMMA EndCatchKeeps ==
  ASSUME ObjectsAssumption, CxaInv, NEW t \in Threads, NEW n, NEW h, NEW below \in Seq(Frames),
         Removes(ctl[t], below, h, n), ctl[t][h].k = "handler", h # n => ctl[t][n].k = "raise",
         EndCatch(t, below), terminated' \in BOOLEAN, UNCHANGED <<uncaught, propagating, ptrs, foreignCaught>>
  PROVE  CxaInv'
<1> DEFINE C == [ctl EXCEPT ![t] = below]
           x == caught[t]
<1>0. /\ hdr \in [Objects -> Header] /\ ctl \in [Threads -> Seq(Frames)]
      /\ caught \in [Threads -> Objects \cup {NULL}] /\ x \in Objects \cup {NULL}
      /\ NULL \notin Objects /\ RefsCounted(ctl, hdr, ptrs)
  BY DEF CxaInv, CxaTypeOK, ObjectsAssumption
<1>1. C \in [Threads -> Seq(Frames)] /\ C[t] = below /\ \A u \in Threads \ {t} : C[u] = ctl[u]
  BY <1>0
<1>2. HandlerLeft(C, t, h, n)
  BY <1>0, <1>1 DEF HandlerLeft, Moves
<1>3. ASSUME Ended(ctl, ctl', hdr, hdr', caught', ptrs, propagating) PROVE CxaInv'
  BY <1>3, EndedKeeps
<1>4. CASE x \notin Ours
  <2>1. /\ ctl' = C
        /\ \/ x = NULL /\ UNCHANGED <<hdr, caught>>
           \/ x # NULL /\ Frees(hdr, hdr', x) /\ caught' = [caught EXCEPT ![t] = NULL]
    BY <1>4 DEF EndCatch, isOurs, Ours, Frees, NULL
  <2>2. hdr' \in [Objects -> Header] /\ \A o \in Objects : o # x => hdr'[o] = hdr[o]
    <3>1. CASE x = NULL
      BY <1>0, <2>1, <3>1
    <3>2. CASE x # NULL
      <4>1. x \in Objects /\ Frees(hdr, hdr', x)
        BY <1>0, <2>1, <3>2
      <4> QED  BY <1>0, <4>1, FreesView
    <3> QED  BY <3>1, <3>2
  <2>3. /\ caught' \in [Threads -> Objects \cup {NULL}] /\ caught'[t] = NULL
        /\ \A u \in Threads \ {t} : caught'[u] = caught[u]
    BY <1>0, <2>1
  <2> HIDE DEF C
  <2>4. Ended(ctl, C, hdr, hdr', caught', ptrs, propagating)
    BY <1>2, <1>4, <2>2, <2>3, AlienHandlerEnds
  <2> QED  BY <1>3, <2>1, <2>4
<1>5. CASE x \in Ours
  <2>1. x \in Objects /\ x # NULL /\ hdr[x] \in Header
    BY <1>0, <1>5 DEF Objects, Ours
  <2>2. hdr[x].next \in Objects \cup {NULL} /\ hdr[x].handlers \in Int
    BY <2>1 DEF Header
  <2>3. h \in HandlersIn(ctl[t], x)
    <3>1. h \in NativeIn(ctl[t]) /\ ctl[t][h].e = x
      BY <1>2, <1>5, HandlerLeftView DEF HandlerEnds
    <3> QED  BY <3>1 DEF NativeIn, HandlersIn
  <2>4. /\ hdr[x].handlers # 0
        /\ hdr[x].handlers < 0 <=> FliesIn(ctl[t], x)
        /\ HandlersIn(ctl[t], x) = {h} <=> hdr[x].handlers \in {-1, 1}
    BY <1>5, <2>3, CountOfCaught
  <2>5. CASE hdr[x].handlers < 0
    <3> DEFINE v == hdr[x].handlers + 1
    <3>1. /\ hdr' = [hdr EXCEPT ![x].handlers = @ + 1]
          /\ caught' = [caught EXCEPT ![t] = IF hdr[x].handlers = -1 THEN hdr[x].next ELSE x]
          /\ ctl' = C
      BY <1>5, <2>1, <2>2, <2>5 DEF EndCatch, Rethrown, isOurs, Ours, NULL
    <3>2. Recounts(hdr, hdr', x, v)
      BY <1>0, <2>1, <3>1 DEF Recounts
    <3>3. v \in Int /\ NextCount(hdr, x, v)
      BY <2>2, <2>5 DEF NextCount
    <3> HIDE DEF v, C
    <3>4. /\ caught' \in [Threads -> Objects \cup {NULL}]
          /\ \A u \in Threads \ {t} : caught'[u] = caught[u]
          /\ NextTop(ctl, hdr, t, x, h, caught'[t])
      <4>1. HandlersIn(ctl[t], x) = {h} <=> hdr[x].handlers = -1
        BY <2>2, <2>4, <2>5
      <4> QED  BY <1>0, <2>1, <2>2, <3>1, <4>1 DEF NextTop
    <3>5. FliesIn(ctl[t], x)
      BY <2>4, <2>5
    <3>6. Ended(ctl, C, hdr, hdr', caught', ptrs, propagating)
      BY <1>2, <1>5, <3>2, <3>3, <3>4, <3>5, StillUsed
    <3> QED  BY <1>3, <3>1, <3>6
  <2>6. CASE hdr[x].handlers > 1
    <3> DEFINE v == hdr[x].handlers - 1
    <3>1. /\ hdr' = [hdr EXCEPT ![x].handlers = @ - 1]
          /\ ctl' = C /\ UNCHANGED caught
      BY <1>5, <2>1, <2>2, <2>6 DEF EndCatch, isOurs, Ours, NULL
    <3>2. Recounts(hdr, hdr', x, v)
      BY <1>0, <2>1, <3>1 DEF Recounts
    <3>3. v \in Int /\ NextCount(hdr, x, v)
      BY <2>2, <2>6 DEF NextCount
    <3> HIDE DEF v, C
    <3>4. HandlersIn(ctl[t], x) # {h}
      BY <2>2, <2>4, <2>6
    <3>5. NextTop(ctl, hdr, t, x, h, caught[t])
      BY <3>4 DEF NextTop
    <3>6. Ended(ctl, C, hdr, hdr', caught, ptrs, propagating)
      BY <1>0, <1>2, <1>5, <3>2, <3>3, <3>4, <3>5, StillUsed
    <3> QED  BY <1>3, <3>1, <3>6
  <2>7. CASE hdr[x].handlers = 1
    <3> DEFINE g == [hdr EXCEPT ![x].handlers = @ - 1]
               p == OwnedBy(g, x)
               H == FreedIfDependent(g, x)
    <3>1. /\ hdr' = Decremented(H, p)
          /\ caught' = [caught EXCEPT ![t] = hdr[x].next]
          /\ ctl' = [ctl EXCEPT ![t] = DestroysIfLast(g, p, below)]
      BY <1>5, <2>1, <2>2, <2>7 DEF EndCatch, isOurs, Ours, NULL
    <3>2. g[x].primary = hdr[x].primary
      BY <1>0, <2>1 DEF Header
    <3>3. OwnerOf(hdr, x, p)
      BY <3>2 DEF OwnerOf, OwnedBy
    <3>4. Dropped(hdr, H, x)
      <4>1. CASE x \in Dependents
        <5>1. H = [hdr EXCEPT ![x] = Unused]
          BY <1>0, <2>1, <4>1 DEF FreedIfDependent
        <5> QED  BY <4>1, <5>1 DEF Dropped, Frees
      <4>2. CASE x \notin Dependents
        <5>1. H = [hdr EXCEPT ![x] = [hdr[x] EXCEPT !.handlers = 0]]
          BY <1>0, <2>1, <2>7, <4>2 DEF FreedIfDependent
        <5> QED  BY <4>2, <5>1 DEF Dropped, Recounts
      <4> QED  BY <4>1, <4>2
    <3>5. H[p].refs = g[p].refs
      <4>1. x \in Dependents => p # x /\ p \in Objects
        <5>1. x \in Dependents => hdr[x].primary \in Primaries
          <6>1. hdr[x].state = "live"
            BY <1>5, CaughtNative
          <6> QED  BY <1>0, <6>1 DEF RefsCounted
        <5> QED  BY <3>3, <5>1 DEF OwnerOf, ObjectsAssumption, Objects
      <4> QED  BY <1>0, <4>1 DEF FreedIfDependent
    <3>6. LosesOwner(H, hdr', p)
      BY <3>1 DEF LosesOwner, Decremented
    <3>7. MayDestroy(H, C, ctl', t, p)
      BY <1>0, <3>1, <3>5 DEF MayDestroy, DestroysIfLast
    <3> HIDE DEF C, H, g, p
    <3>8. /\ caught' \in [Threads -> Objects \cup {NULL}]
          /\ \A u \in Threads \ {t} : caught'[u] = caught[u]
          /\ caught'[t] = hdr[x].next
      BY <1>0, <2>2, <3>1
    <3>9. HandlersIn(ctl[t], x) = {h} /\ ~FliesIn(ctl[t], x)
      BY <2>4, <2>7
    <3>10. Ended(ctl, ctl', hdr, hdr', caught', ptrs, propagating)
      BY <1>2, <1>5, <2>7, <3>3, <3>4, <3>6, <3>7, <3>8, <3>9, LastHandlerEnds
    <3> QED  BY <1>3, <3>10
  <2> QED  BY <2>2, <2>4, <2>5, <2>6, <2>7
<1> QED  BY <1>4, <1>5

\* A handler ends: __cxa_end_catch.
LEMMA CxaEndCatchKeeps ==
  ASSUME ObjectsAssumption, CxaInv, NEW t \in Threads, cxa_end_catch(t)
  PROVE  CxaInv'
<1> DEFINE n == Len(ctl[t])
<1>0. CxaTypeOK /\ TopIs(t, "handler")
  BY DEF CxaInv, cxa_end_catch
<1>1. ctl[t] \in Seq(Frames) /\ ctl[t] # <<>> /\ ctl[t][n].k = "handler" /\ terminated \in BOOLEAN
  BY <1>0, TopView DEF CxaTypeOK
<1>2. /\ EndCatch(t, Front(ctl[t]))
      /\ UNCHANGED <<uncaught, propagating, ptrs, foreignCaught, terminated>>
  BY DEF cxa_end_catch
<1>3. Front(ctl[t]) \in Seq(Frames) /\ Removes(ctl[t], Front(ctl[t]), n, n)
  BY <1>1, PopView
<1>4. terminated' \in BOOLEAN /\ UNCHANGED <<uncaught, propagating, ptrs, foreignCaught>>
  BY <1>1, <1>2
<1> HIDE DEF n
<1> QED  BY <1>1, <1>2, <1>3, <1>4, EndCatchKeeps

\* The unwinder leaves a frame: a handler through __cxa_end_catch, an exception that is not
\* constructed yet is freed, and std::terminate ends what leaves a destructor.
LEMMA UnwindKeeps ==
  ASSUME ObjectsAssumption, CxaInv, NEW t \in Threads, Unwind(t)
  PROVE  CxaInv'
<1> DEFINE n == Len(ctl[t])
           h == Len(ctl[t]) - 1
           rest == Append(SubSeq(ctl[t], 1, Len(ctl[t]) - 2), Top(t))
<1>0. CxaTypeOK /\ TopIs(t, "raise") /\ Len(ctl[t]) > 1
  BY DEF CxaInv, Unwind
<1>1. /\ ctl[t] \in Seq(Frames) /\ ctl[t] # <<>> /\ ctl[t][n].k = "raise" /\ terminated \in BOOLEAN
      /\ ctl \in [Threads -> Seq(Frames)]
  BY <1>0, TopView DEF CxaTypeOK
<1>2. /\ \/ ctl[t][h].k = "handler" /\ EndCatch(t, rest) /\ UNCHANGED terminated
         \/ /\ ctl[t][h].k = "construct"
            /\ hdr' = [hdr EXCEPT ![ctl[t][h].e] = Unused]
            /\ ctl' = [ctl EXCEPT ![t] = rest]
            /\ UNCHANGED <<caught, terminated>>
         \/ terminated' = TRUE /\ UNCHANGED <<hdr, caught, ctl>>
      /\ UNCHANGED <<uncaught, propagating, ptrs, foreignCaught>>
  BY DEF Unwind
<1>3. rest \in Seq(Frames) /\ Removes(ctl[t], rest, h, n)
  BY <1>0, <1>1, DropView DEF Top
<1>4. CASE ctl[t][h].k = "handler" /\ EndCatch(t, rest) /\ UNCHANGED terminated
  <2>1. terminated' \in BOOLEAN /\ UNCHANGED <<uncaught, propagating, ptrs, foreignCaught>>
    BY <1>1, <1>2, <1>4
  <2>2. EndCatch(t, rest) /\ ctl[t][h].k = "handler" /\ (h # n => ctl[t][n].k = "raise")
    BY <1>1, <1>4
  <2> HIDE DEF n, h, rest
  <2> QED  BY <1>3, <2>1, <2>2, EndCatchKeeps
<1>5. CASE /\ ctl[t][h].k = "construct"
           /\ hdr' = [hdr EXCEPT ![ctl[t][h].e] = Unused]
           /\ ctl' = [ctl EXCEPT ![t] = rest]
           /\ UNCHANGED <<caught, terminated>>
  <2>1. Moves(ctl, ctl', t) /\ Removes(ctl[t], ctl'[t], h, n)
    <3> HIDE DEF rest, h, n
    <3> QED  BY <1>1, <1>3, <1>5 DEF Moves
  <2>2. /\ Frees(hdr, hdr', ctl[t][h].e)
        /\ UNCHANGED <<caught, uncaught, propagating, ptrs, foreignCaught, terminated>>
    BY <1>2, <1>5 DEF Frees
  <2>3. /\ h # n => ctl[t][n].k = "raise" /\ ctl[t][h].k = "construct"
        /\ ctl[t][h].k \in {"construct", "destroy"}
    BY <1>1, <1>5
  <2> HIDE DEF n, h, rest
  <2> QED  BY <2>1, <2>2, <2>3, FreeKeeps
<1>6. CASE terminated' = TRUE /\ UNCHANGED <<hdr, caught, ctl>>
  <2>1. terminated' \in BOOLEAN /\ UNCHANGED <<hdr, caught, uncaught, propagating, ctl, ptrs, foreignCaught>>
    BY <1>2, <1>6
  <2> QED  BY <2>1, TerminateKeeps
<1> QED  BY <1>2, <1>4, <1>5, <1>6

\* exception_cleanup_func and dependent_exception_cleanup: another runtime's handler deletes
\* a native exception.
LEMMA CleanupFuncKeeps ==
  ASSUME ObjectsAssumption, CxaInv, NEW t \in Threads, exception_cleanup_func(t)
  PROVE  CxaInv'
<1> DEFINE n == Len(ctl[t])
           x == Top(t).e
           C == [ctl EXCEPT ![t] = Front(ctl[t])]
           H == FreedIfDependent(hdr, x)
           p == OwnedBy(hdr, x)
<1>0. CxaTypeOK /\ Placed(ctl, hdr, caught) /\ TopIs(t, "raise") /\ RefsCounted(ctl, hdr, ptrs)
  BY DEF CxaInv, exception_cleanup_func
<1>1. /\ ctl[t] \in Seq(Frames) /\ ctl[t] # <<>> /\ n \in DOMAIN ctl[t] /\ Ends(ctl[t], n)
      /\ ctl[t][n].k = "raise" /\ ctl[t][n].e = x /\ x \in Objects
  BY <1>0, TopView
<1>2. /\ hdr \in [Objects -> Header] /\ ctl \in [Threads -> Seq(Frames)] /\ foreignCaught \in [Threads -> Nat]
      /\ uncaught \in [Threads -> Int]
  BY <1>0 DEF CxaTypeOK
<1>3. x \in Ours /\ Handlers(t, x) = {} /\ UNCHANGED <<caught, uncaught, propagating, ptrs, terminated>>
  BY DEF exception_cleanup_func, isOurs, Ours
<1>4. /\ hdr' = Decremented(H, p)
      /\ ctl' = [ctl EXCEPT ![t] = DestroysIfLast(hdr, p, Front(ctl[t]))]
      /\ foreignCaught' = [foreignCaught EXCEPT ![t] = foreignCaught[t] + 1]
  BY <1>2 DEF exception_cleanup_func
<1>5. OwnerOf(hdr, x, p)
  BY DEF OwnerOf, OwnedBy
<1>6. H = IF x \in Dependents THEN [hdr EXCEPT ![x] = Unused] ELSE hdr
  BY DEF FreedIfDependent
<1>7. hdr[x].state = "live"
  BY <1>0, <1>1, <1>3 DEF Placed, FramesMatch, StateOfFrame
<1>8. x \in Dependents => p # x /\ p \in Objects
  BY <1>0, <1>5, <1>7 DEF OwnerOf, ObjectsAssumption, Objects, RefsCounted
<1>9. LosesOwner(H, hdr', p)
  BY <1>4 DEF LosesOwner, Decremented
<1>10. Front(ctl[t]) \in Seq(Frames) /\ Removes(ctl[t], Front(ctl[t]), n, n)
  BY <1>1, PopView
<1>11. Moves(ctl, C, t) /\ Removes(ctl[t], C[t], n, n) /\ C \in [Threads -> Seq(Frames)]
  <2> HIDE DEF n
  <2> QED  BY <1>2, <1>10 DEF Moves
<1>12. MayDestroy(H, C, ctl', t, p)
  <2>1. H[p].refs = hdr[p].refs
    BY <1>2, <1>6, <1>8
  <2> QED  BY <1>2, <1>4, <2>1 DEF MayDestroy, DestroysIfLast
<1> HIDE DEF C, H, p, x
<1>13. WithoutUser(hdr, H, x) /\ HeadersKept(Objects \ {x}, hdr, H) /\ (H[x].handlers = hdr[x].handlers \/ H[x].handlers = 0)
  <2>1. CASE x \in Dependents
    <3>0. PICK y \in Objects : y = x
      BY <1>1
    <3>1. Frees(hdr, H, y)
      BY <1>6, <2>1, <3>0 DEF Frees
    <3>2. /\ H \in [Objects -> Header] /\ \A o \in Objects \ {x} : H[o] = hdr[o]
          /\ H[x].state = "free" /\ H[x].handlers = 0 /\ H[x].primary = NULL /\ H[x].props = 0
      <4>1. /\ H \in [Objects -> Header] /\ \A o \in Objects \ {y} : H[o] = hdr[o]
            /\ H[y].state = "free" /\ H[y].handlers = 0 /\ H[y].primary = NULL /\ H[y].props = 0
        <5>1. y \in Objects /\ hdr \in [Objects -> Header]
          BY <1>2, <3>0
        <5>2. PICK g : g = H
          OBVIOUS
        <5>3. Frees(hdr, g, y)
          BY <3>1, <5>2
        <5>4. /\ g \in [Objects -> Header] /\ \A o \in Objects \ {y} : g[o] = hdr[o]
              /\ g[y].state = "free" /\ g[y].handlers = 0 /\ g[y].primary = NULL /\ g[y].props = 0
          BY <5>1, <5>3, FreesView
        <5> QED  BY <5>2, <5>4
      <4> QED  BY <3>0, <4>1
    <3> QED  BY <2>1, <3>2 DEF WithoutUser, HeadersKept
  <2>2. CASE x \notin Dependents
    BY <1>2, <1>6, <2>2 DEF WithoutUser, HeadersKept
  <2> QED  BY <2>1, <2>2
<1>14. /\ HandlersIn(ctl[t], x) = {}
       /\ \A u \in Threads : \A i \in DOMAIN ctl[u] : ctl[u][i].e = x => u = t /\ (i = n \/ ctl[u][i].k = "handler")
  <2>1. HandlersIn(ctl[t], x) = {}
    <3>1. ASSUME NEW i \in HandlersIn(ctl[t], x) PROVE FALSE
      <4>1. i \in DOMAIN ctl[t] /\ ctl[t][i].k = "handler" /\ ctl[t][i].e = x
        BY DEF HandlersIn
      <4>2. ctl[t][i] = [k |-> "handler", e |-> x]
        BY <1>2, <4>1, FrameOf
      <4> QED  BY <1>3, <4>1, <4>2 DEF Handlers, Frame
    <3> QED  BY <3>1
  <2>2. ctl[t][n].k \in Flight
    BY <1>1 DEF Flight
  <2>3. AllOn(ctl, caught, t, n, x)
    BY <1>0, <1>1, <1>2, <1>3, <2>2, InnermostFirst
  <2> QED  BY <2>1, <2>3 DEF AllOn
<1>15. \A u \in Threads : \A i \in DOMAIN ctl[u] : ctl[u][i].e = x => u = t /\ i = n
  BY <1>14 DEF HandlersIn
<1>16. H[x].handlers = 0
  <2>1. HandlerCount(ctl, hdr, x)
    BY <1>0, <1>3 DEF Placed, HandlerCounts
  <2>2. \A u \in Threads : HandlersIn(ctl[u], x) = {}
    BY <1>1, <1>15 DEF HandlersIn
  <2>3. hdr[x].handlers = 0
    BY <2>1, <2>2 DEF HandlerCount
  <2> QED  BY <1>13, <2>3
<1>17. Placed(C, H, caught)
  <2>1. \A o \in Objects \ {x} : H[o].state = hdr[o].state /\ H[o].next = hdr[o].next /\ H[o].handlers = hdr[o].handlers
    BY <1>13 DEF HeadersKept
  <2>2. HandlersIn(ctl[t], x) = {} /\ (n # n => ctl[t][n].k \in Flight)
    BY <1>14
  <2>3. ctl[t][n].k # "handler" /\ ctl[t][n].e = x
    BY <1>1
  <2> HIDE DEF n
  <2> QED  BY <1>0, <1>3, <1>11, <1>16, <2>1, <2>2, <2>3, RemovePlaced
<1>18. RemoveCounted(ctl, C, t, n, n)
  <2>1. ctl[t][n].k # "cleanup"
    BY <1>1
  <2> HIDE DEF n
  <2> QED  BY <1>11, <2>1, RemoveCounts
<1>19. /\ Used(ctl, x) /\ ~Used(C, x) /\ ~InCleanup(ctl, x) /\ SameCleanups(ctl, C)
       /\ \A e \in Ours : e # x => (Used(C, e) <=> Used(ctl, e))
  <2>1. FliesIn(ctl[t], x)
    BY <1>1 DEF FliesIn, Flight
  <2>2. Used(ctl, x)
    BY <2>1 DEF Used
  <2>3. ~Used(C, x)
    BY <1>1, <1>15, <1>18 DEF RemoveCounted, UsedAt
  <2>4. ~InCleanup(ctl, x)
    BY <1>1, <1>15 DEF InCleanup, CleanupsIn
  <2> QED  BY <1>1, <1>18, <2>2, <2>3, <2>4 DEF RemoveCounted
<1>20. /\ hdr' \in [Objects -> Header] /\ ctl' \in [Threads -> Seq(Frames)]
       /\ Placed(ctl', hdr', caught) /\ RefsCounted(ctl', hdr', ptrs)
       /\ EHABI => Propagates(ctl', hdr', propagating)
       /\ \A u \in Threads : FlightsIn(ctl'[u]) = FlightsIn(C[u])
  BY <1>3, <1>5, <1>7, <1>9, <1>11, <1>12, <1>13, <1>17, <1>19, LastUse
<1>21. foreignCaught' \in [Threads -> Nat] /\ foreignCaught'[t] = foreignCaught[t] + 1
       /\ \A u \in Threads \ {t} : foreignCaught'[u] = foreignCaught[u]
  BY <1>2, <1>4
<1>22. CxaTypeOK'
  BY <1>0, <1>3, <1>20, <1>21 DEF CxaTypeOK
<1>23. FlightsCounted(ctl', uncaught', foreignCaught')
  <2>1. FlightsIn(C[t]) = FlightsIn(ctl[t]) \ {n} /\ n \in FlightsIn(ctl[t])
    BY <1>1, <1>3, <1>18 DEF RemoveCounted, FlightsIn, Flight
  <2>2. IsFiniteSet(FlightsIn(ctl[t])) /\ Cardinality(FlightsIn(ctl[t])) \in Nat
    BY <1>1, FlightsFinite
  <2>3. Cardinality(FlightsIn(C[t])) = Cardinality(FlightsIn(ctl[t])) - 1
    BY <2>1, <2>2, FS_RemoveElement
  <2>4. uncaught[t] = Cardinality(FlightsIn(ctl[t])) + foreignCaught[t] /\ foreignCaught[t] \in Nat
    BY <1>2 DEF CxaInv, FlightsCounted
  <2>5. uncaught[t] = Cardinality(FlightsIn(ctl'[t])) + foreignCaught'[t]
    <3>1. FlightsIn(ctl'[t]) = FlightsIn(C[t])
      BY <1>20
    <3>2. foreignCaught'[t] = foreignCaught[t] + 1
      BY <1>21
    <3> QED  BY <2>2, <2>3, <2>4, <3>1, <3>2
  <2>6. \A u \in Threads \ {t} : uncaught[u] = Cardinality(FlightsIn(ctl'[u])) + foreignCaught'[u]
    BY <1>11, <1>20, <1>21 DEF CxaInv, FlightsCounted, Moves
  <2>7. uncaught' = uncaught
    BY <1>3
  <2> QED  BY <2>5, <2>6, <2>7 DEF FlightsCounted
<1> QED  BY <1>3, <1>20, <1>22, <1>23 DEF CxaInv

\* Only the exception x changes its place on the propagating stacks.
OthersPropagate(H, G, x) ==
  \A o \in Ours : o # x => G[o].props = H[o].props /\ G[o].nextProp = H[o].nextProp

\* A cleanup of the exception in the top frame of t begins.
LEMMA CleanupBegins ==
  ASSUME ObjectsAssumption, NEW C, NEW D, NEW t \in Threads, NEW n, NEW f \in Frames, NEW H, NEW G, NEW g, NEW z,
         Moves(C, D, t), Retops(C[t], D[t], f, n), RetopCounted(C, D, t, n, f), Propagates(C, H, g),
         f.k = "cleanup", C[t][n].k = "raise", ~InCleanup(C, f.e), OthersPropagate(H, G, f.e),
         f.e \in Ours => G[f.e].props = 1 /\ G[f.e].nextProp = g[t],
         f.e \notin Ours => g[t] = NULL,
         z[t] = f.e, \A u \in Threads \ {t} : z[u] = g[u]
  PROVE  Propagates(D, G, z)
<1> DEFINE S == CleanupsIn(C[t])
<1>0. /\ C \in [Threads -> Seq(Frames)] /\ \A u \in Threads \ {t} : D[u] = C[u]
      /\ n \in Int /\ D[t][n] = f /\ \A i \in DOMAIN C[t] : i \in Int /\ i <= n /\ (i # n => D[t][i] = C[t][i])
      /\ f.e \in Objects /\ NULL \notin Objects
  BY DEF Moves, Retops, Ends, Frames, ObjectsAssumption
<1>1. CleanupsIn(D[t]) = S \cup {n} /\ n \notin S
  BY DEF RetopCounted, CleanupsIn
<1>2. \A u \in Threads :
           /\ \A j \in CleanupsIn(C[u]) :
                /\ IsLast(CleanupsIn(C[u]), j) => g[u] = C[u][j].e
                /\ IsFirst(CleanupsIn(C[u]), j) /\ C[u][j].e \in Ours => H[C[u][j].e].nextProp = NULL
                /\ \A i \in CleanupsIn(C[u]) : Before(CleanupsIn(C[u]), i, j) =>
                     C[u][j].e \in Ours /\ H[C[u][j].e].nextProp = C[u][i].e
           /\ CleanupsIn(C[u]) = {} => g[u] = NULL
  BY DEF Propagates
<1>3. \A u \in Threads : \A i \in CleanupsIn(C[u]) : C[u][i].e # f.e /\ i \in DOMAIN C[u] /\ i \in Int
  BY <1>0 DEF InCleanup, CleanupsIn
<1>4. \A i \in S : D[t][i] = C[t][i] /\ i < n
  BY <1>0, <1>1, <1>3
<1>5. \A o \in Ours : InCleanup(D, o) <=> InCleanup(C, o) \/ o = f.e
  <2>1. ASSUME NEW o \in Ours, InCleanup(D, o), o # f.e PROVE InCleanup(C, o)
    <3>1. PICK u \in Threads : \E i \in CleanupsIn(D[u]) : D[u][i].e = o
      BY <2>1 DEF InCleanup
    <3>2. PICK i \in CleanupsIn(D[u]) : D[u][i].e = o
      BY <3>1
    <3>3. i \in CleanupsIn(C[u]) /\ C[u][i].e = o
      BY <1>0, <1>1, <1>4, <2>1, <3>2
    <3> QED  BY <3>3 DEF InCleanup
  <2>2. ASSUME NEW o \in Ours, InCleanup(C, o) PROVE InCleanup(D, o)
    <3>1. PICK u \in Threads : \E i \in CleanupsIn(C[u]) : C[u][i].e = o
      BY <2>2 DEF InCleanup
    <3>2. PICK i \in CleanupsIn(C[u]) : C[u][i].e = o
      BY <3>1
    <3>3. i \in CleanupsIn(D[u]) /\ D[u][i].e = o
      BY <1>0, <1>1, <1>4, <3>2
    <3> QED  BY <3>3 DEF InCleanup
  <2>3. InCleanup(D, f.e)
    BY <1>0, <1>1 DEF InCleanup
  <2> QED  BY <2>1, <2>2, <2>3
<1>6. ASSUME NEW o \in Ours PROVE G[o].props = One(InCleanup(D, o))
  <2>1. H[o].props = One(InCleanup(C, o))
    BY DEF Propagates
  <2> QED  BY <1>5, <2>1 DEF One, OthersPropagate
\* No cleanup runs below that of a foreign exception.
<1>7. f.e \notin Ours => S = {}
  <2> SUFFICES ASSUME f.e \notin Ours, S # {} PROVE FALSE
    OBVIOUS
  <2>1. Len(C[t]) \in Nat /\ S \in SUBSET (1 .. Len(C[t]))
    BY <1>0, <1>3
  <2> HIDE DEF S
  <2>2. PICK j \in S : IsLast(S, j)
    BY <2>1, LastExists
  <2>3. g[t] = C[t][j].e
    BY <1>2, <2>2 DEF S
  <2>4. C[t][j].e \in Objects
    BY <1>0, <1>3, <2>2, FrameOf DEF S
  <2> QED  BY <1>0, <2>3, <2>4
<1>8. ASSUME NEW u \in Threads, u # t
      PROVE  /\ \A j \in CleanupsIn(D[u]) :
                  /\ IsLast(CleanupsIn(D[u]), j) => z[u] = D[u][j].e
                  /\ IsFirst(CleanupsIn(D[u]), j) /\ D[u][j].e \in Ours => G[D[u][j].e].nextProp = NULL
                  /\ \A i \in CleanupsIn(D[u]) : Before(CleanupsIn(D[u]), i, j) =>
                       D[u][j].e \in Ours /\ G[D[u][j].e].nextProp = D[u][i].e
             /\ CleanupsIn(D[u]) = {} => z[u] = NULL
  <2>1. D[u] = C[u] /\ z[u] = g[u]
    BY <1>0, <1>8
  <2>2. \A j \in CleanupsIn(C[u]) : C[u][j].e \in Ours => G[C[u][j].e].nextProp = H[C[u][j].e].nextProp
    BY <1>3 DEF OthersPropagate
  <2> QED  BY <1>2, <2>1, <2>2
<1>9. ASSUME NEW j \in CleanupsIn(D[t])
      PROVE  /\ IsLast(CleanupsIn(D[t]), j) => z[t] = D[t][j].e
             /\ IsFirst(CleanupsIn(D[t]), j) /\ D[t][j].e \in Ours => G[D[t][j].e].nextProp = NULL
             /\ \A i \in CleanupsIn(D[t]) : Before(CleanupsIn(D[t]), i, j) =>
                  D[t][j].e \in Ours /\ G[D[t][j].e].nextProp = D[t][i].e
  <2>1. CASE j = n
    <3>1. IsFirst(CleanupsIn(D[t]), n) => S = {}
      BY <1>1, <1>3, <1>4, <1>0 DEF IsFirst
    <3>2. ASSUME NEW i \in CleanupsIn(D[t]), Before(CleanupsIn(D[t]), i, n)
          PROVE  f.e \in Ours /\ G[f.e].nextProp = D[t][i].e
      <4>1. i < n /\ \A k \in S : k <= i
        BY <1>1, <1>4, <3>2 DEF Before
      <4>2. i \in S
        BY <1>0, <1>1, <4>1
      <4>3. g[t] = C[t][i].e
        BY <1>2, <4>1, <4>2 DEF IsLast
      <4> QED  BY <1>4, <1>7, <4>2, <4>3
    <3> QED  BY <1>0, <1>2, <2>1, <3>1, <3>2
  <2>2. CASE j # n
    <3>1. j \in S /\ D[t][j] = C[t][j] /\ C[t][j].e # f.e /\ j < n
      BY <1>1, <1>3, <1>4, <2>2
    <3>2. ~IsLast(CleanupsIn(D[t]), j)
      BY <1>0, <1>1, <1>3, <3>1 DEF IsLast
    <3>3. IsFirst(CleanupsIn(D[t]), j) => IsFirst(S, j)
      BY <1>1, <3>1 DEF IsFirst
    <3>4. ASSUME NEW i \in CleanupsIn(D[t]), Before(CleanupsIn(D[t]), i, j)
          PROVE  i \in S /\ Before(S, i, j) /\ D[t][i] = C[t][i]
      <4>1. i < j
        BY <3>4 DEF Before
      <4>2. i # n
        BY <1>0, <1>3, <3>1, <4>1
      <4>3. i \in S
        BY <1>1, <4>2
      <4> QED  BY <1>1, <1>4, <3>4, <4>3 DEF Before
    <3>5. C[t][j].e \in Ours => G[C[t][j].e].nextProp = H[C[t][j].e].nextProp
      BY <3>1 DEF OthersPropagate
    <3> QED  BY <1>2, <3>1, <3>2, <3>3, <3>4, <3>5
  <2> QED  BY <2>1, <2>2
<1>10. CleanupsIn(D[t]) # {}
  BY <1>1
<1> QED  BY <1>6, <1>8, <1>9, <1>10 DEF Propagates

\* The cleanup in the top frame of t ends, which is the innermost one.
LEMMA CleanupEnds ==
  ASSUME ObjectsAssumption, NEW C, NEW D, NEW t \in Threads, NEW n, NEW f \in Frames, NEW H, NEW G, NEW g, NEW z,
         Moves(C, D, t), Retops(C[t], D[t], f, n), RetopCounted(C, D, t, n, f), Propagates(C, H, g), OnePlace(C),
         f.k = "raise", C[t][n].k = "cleanup", C[t][n].e = f.e, OthersPropagate(H, G, f.e),
         f.e \in Ours => G[f.e].props = 0,
         z[t] = IF f.e \in Ours THEN H[f.e].nextProp ELSE NULL, \A u \in Threads \ {t} : z[u] = g[u]
  PROVE  Propagates(D, G, z)
<1> DEFINE S == CleanupsIn(C[t])
<1>0. /\ C \in [Threads -> Seq(Frames)] /\ \A u \in Threads \ {t} : D[u] = C[u]
      /\ n \in Int /\ \A i \in DOMAIN C[t] : i \in Int /\ i <= n /\ (i # n => D[t][i] = C[t][i])
  BY DEF Moves, Retops, Ends
<1>1. CleanupsIn(D[t]) = S \ {n} /\ n \in S
  BY DEF RetopCounted, CleanupsIn, Retops, Ends
<1>2. \A u \in Threads :
           /\ \A j \in CleanupsIn(C[u]) :
                /\ IsLast(CleanupsIn(C[u]), j) => g[u] = C[u][j].e
                /\ IsFirst(CleanupsIn(C[u]), j) /\ C[u][j].e \in Ours => H[C[u][j].e].nextProp = NULL
                /\ \A i \in CleanupsIn(C[u]) : Before(CleanupsIn(C[u]), i, j) =>
                     C[u][j].e \in Ours /\ H[C[u][j].e].nextProp = C[u][i].e
           /\ CleanupsIn(C[u]) = {} => g[u] = NULL
  BY DEF Propagates
<1>3. \A u \in Threads : \A i \in CleanupsIn(C[u]) : i \in DOMAIN C[u] /\ C[u][i].k = "cleanup"
  BY DEF CleanupsIn
<1>4. \A u \in Threads : \A i \in CleanupsIn(C[u]) : u # t \/ i # n => C[u][i].e # f.e
  BY <1>1, <1>3 DEF OnePlace
<1>5. \A i \in S \ {n} : D[t][i] = C[t][i] /\ i < n /\ i \in Int
  BY <1>0, <1>3
<1>6. \A o \in Ours : InCleanup(D, o) <=> InCleanup(C, o) /\ o # f.e
  <2>1. ASSUME NEW o \in Ours, InCleanup(D, o) PROVE InCleanup(C, o) /\ o # f.e
    <3>1. PICK u \in Threads : \E i \in CleanupsIn(D[u]) : D[u][i].e = o
      BY <2>1 DEF InCleanup
    <3>2. PICK i \in CleanupsIn(D[u]) : D[u][i].e = o
      BY <3>1
    <3>3. i \in CleanupsIn(C[u]) /\ C[u][i].e = o /\ (u # t \/ i # n)
      BY <1>0, <1>1, <1>5, <3>2
    <3> QED  BY <1>4, <3>3 DEF InCleanup
  <2>2. ASSUME NEW o \in Ours, InCleanup(C, o), o # f.e PROVE InCleanup(D, o)
    <3>1. PICK u \in Threads : \E i \in CleanupsIn(C[u]) : C[u][i].e = o
      BY <2>2 DEF InCleanup
    <3>2. PICK i \in CleanupsIn(C[u]) : C[u][i].e = o
      BY <3>1
    <3>3. u # t \/ i # n
      BY <2>2, <3>2
    <3>4. i \in CleanupsIn(D[u]) /\ D[u][i].e = o
      BY <1>0, <1>1, <1>5, <3>2, <3>3
    <3> QED  BY <3>4 DEF InCleanup
  <2> QED  BY <2>1, <2>2
<1>7. ASSUME NEW o \in Ours PROVE G[o].props = One(InCleanup(D, o))
  <2>1. H[o].props = One(InCleanup(C, o))
    BY DEF Propagates
  <2> QED  BY <1>6, <2>1 DEF One, OthersPropagate
<1>8. ASSUME NEW u \in Threads, u # t
      PROVE  /\ \A j \in CleanupsIn(D[u]) :
                  /\ IsLast(CleanupsIn(D[u]), j) => z[u] = D[u][j].e
                  /\ IsFirst(CleanupsIn(D[u]), j) /\ D[u][j].e \in Ours => G[D[u][j].e].nextProp = NULL
                  /\ \A i \in CleanupsIn(D[u]) : Before(CleanupsIn(D[u]), i, j) =>
                       D[u][j].e \in Ours /\ G[D[u][j].e].nextProp = D[u][i].e
             /\ CleanupsIn(D[u]) = {} => z[u] = NULL
  <2>1. D[u] = C[u] /\ z[u] = g[u]
    BY <1>0, <1>8
  <2>2. \A j \in CleanupsIn(C[u]) : C[u][j].e \in Ours => G[C[u][j].e].nextProp = H[C[u][j].e].nextProp
    BY <1>4, <1>8 DEF OthersPropagate
  <2> QED  BY <1>2, <2>1, <2>2
\* The one before it is the innermost one now.
<1>9. \A i \in S : Before(S, i, n) => z[t] = C[t][i].e
  BY <1>1, <1>2
<1>10. ASSUME NEW j \in CleanupsIn(D[t])
       PROVE  /\ IsLast(CleanupsIn(D[t]), j) => z[t] = D[t][j].e
              /\ IsFirst(CleanupsIn(D[t]), j) /\ D[t][j].e \in Ours => G[D[t][j].e].nextProp = NULL
              /\ \A i \in CleanupsIn(D[t]) : Before(CleanupsIn(D[t]), i, j) =>
                   D[t][j].e \in Ours /\ G[D[t][j].e].nextProp = D[t][i].e
  <2>1. j \in S \ {n} /\ D[t][j] = C[t][j] /\ C[t][j].e # f.e /\ j < n
    BY <1>1, <1>4, <1>5
  <2>2. IsLast(CleanupsIn(D[t]), j) => Before(S, j, n)
    BY <1>0, <1>1, <1>5, <2>1 DEF IsLast, Before
  <2>3. ASSUME IsFirst(CleanupsIn(D[t]), j) PROVE IsFirst(S, j)
    <3>1. ASSUME NEW k \in S PROVE j <= k
      <4>1. CASE k = n
        <5>1. j \in Int /\ n \in Int /\ j < n
          BY <1>0, <1>5, <2>1
        <5>2. j <= n
          BY <5>1
        <5> QED  BY <4>1, <5>2
      <4>2. CASE k # n
        BY <1>1, <2>3, <4>2 DEF IsFirst
      <4> QED  BY <4>1, <4>2
    <3> QED  BY <2>1, <3>1 DEF IsFirst
  <2>4. ASSUME NEW i \in CleanupsIn(D[t]), Before(CleanupsIn(D[t]), i, j)
        PROVE  i \in S /\ Before(S, i, j) /\ D[t][i] = C[t][i]
    <3>1. i \in S \ {n} /\ i < j /\ D[t][i] = C[t][i]
      BY <1>1, <1>5, <2>4 DEF Before
    <3>2. ~(n < j)
      BY <1>0, <1>5, <2>1
    <3> QED  BY <1>1, <2>4, <3>1, <3>2 DEF Before
  <2>5. C[t][j].e \in Ours => G[C[t][j].e].nextProp = H[C[t][j].e].nextProp
    BY <2>1 DEF OthersPropagate
  <2> QED  BY <1>2, <1>9, <2>1, <2>2, <2>3, <2>4, <2>5
<1>11. CleanupsIn(D[t]) = {} => z[t] = NULL
  <2>1. CleanupsIn(D[t]) = {} => IsFirst(S, n)
    BY <1>0, <1>1 DEF IsFirst
  <2> QED  BY <1>1, <1>2, <2>1
<1> QED  BY <1>7, <1>8, <1>10, <1>11 DEF Propagates

\* __cxa_begin_cleanup: the exception is put on the propagating stack.
LEMMA BeginCleanupKeeps ==
  ASSUME ObjectsAssumption, CxaInv, NEW t \in Threads, cxa_begin_cleanup(t)
  PROVE  CxaInv'
<1> DEFINE x == Top(t).e
           f == Frame("cleanup", x)
           n == Len(ctl[t])
           H == hdr'
           g == propagating'
<1>0. /\ CxaTypeOK /\ TopIs(t, "raise") /\ Placed(ctl, hdr, caught)
      /\ UNCHANGED <<caught, uncaught, ptrs, foreignCaught>>
  BY DEF CxaInv, cxa_begin_cleanup
<1>1. /\ ctl[t] # <<>> /\ n \in DOMAIN ctl[t] /\ ctl[t][n].k = "raise" /\ ctl[t][n].e = x /\ x \in Objects
  BY <1>0, TopView
<1>2. f \in Frames /\ f.k = "cleanup" /\ f.e = x
  BY <1>1 DEF Frame, Frames, Kinds, Flight
<1>3. /\ hdr \in [Objects -> Header] /\ ctl \in [Threads -> Seq(Frames)] /\ terminated \in BOOLEAN
      /\ propagating \in [Threads -> Objects \cup {NULL}]
  BY <1>0 DEF CxaTypeOK
\* No cleanup of x runs yet.
<1>4. ~InCleanup(ctl, x)
  <2>1. ASSUME InCleanup(ctl, x) PROVE FALSE
    <3>1. PICK u \in Threads : \E i \in CleanupsIn(ctl[u]) : ctl[u][i].e = x
      BY <2>1 DEF InCleanup
    <3>2. PICK i \in CleanupsIn(ctl[u]) : ctl[u][i].e = x
      BY <3>1
    <3>3. i \in DOMAIN ctl[u] /\ ctl[u][i].k = "cleanup"
      BY <3>2 DEF CleanupsIn
    <3>4. u = t /\ i = n
      BY <1>0, <1>1, <3>2, <3>3 DEF Placed, OnePlace
    <3> QED  BY <1>1, <3>3, <3>4
  <2> QED  BY <2>1
<1>5. EHABI => Propagates(ctl, hdr, propagating)
  BY DEF CxaInv
\* What a step does that puts x on the propagating stack, or does not.
<1>6. ASSUME ctl' = [ctl EXCEPT ![t] = Replaced(t, f)], OwnersAlike(hdr, H),
             H \in [Objects -> Header], g \in [Threads -> Objects \cup {NULL}], terminated' \in BOOLEAN,
             EHABI => /\ OthersPropagate(hdr, H, x)
                      /\ x \in Ours => H[x].props = 1 /\ H[x].nextProp = propagating[t]
                      /\ x \notin Ours => propagating[t] = NULL
                      /\ g[t] = x /\ \A u \in Threads \ {t} : g[u] = propagating[u]
      PROVE  CxaInv'
  <2> HIDE DEF f, x
  <2>1. Moves(ctl, ctl', t) /\ Retops(ctl[t], ctl'[t], f, n) /\ ctl' \in [Threads -> Seq(Frames)]
    BY <1>0, <1>1, <1>2, <1>6, TopBecomes
  <2>2. CxaTypeOK'
    BY <1>0, <1>6, <2>1 DEF CxaTypeOK
  <2> HIDE DEF n
  <2>3. /\ Placed(ctl', hdr', caught') /\ RefsCounted(ctl', hdr', ptrs')
        /\ FlightsCounted(ctl', uncaught', foreignCaught')
        /\ RetopCounted(ctl, ctl', t, n, f)
    <3>1. ctl[t][n].k \in Flight /\ f.k \in Flight /\ ctl[t][n].e = f.e
      BY <1>1, <1>2 DEF Flight
    <3>2. OwnersAlike(hdr, hdr')
      BY <1>6
    <3> QED  BY <1>0, <1>2, <2>1, <3>1, <3>2, FliesFurther
  <2>4. ASSUME EHABI PROVE Propagates(ctl', hdr', propagating')
    <3>1. /\ Propagates(ctl, hdr, propagating) /\ f.k = "cleanup" /\ ctl[t][n].k = "raise"
          /\ ~InCleanup(ctl, f.e) /\ OthersPropagate(hdr, H, f.e)
          /\ f.e \in Ours => H[f.e].props = 1 /\ H[f.e].nextProp = propagating[t]
          /\ f.e \notin Ours => propagating[t] = NULL
          /\ g[t] = f.e /\ \A u \in Threads \ {t} : g[u] = propagating[u]
      BY <1>1, <1>2, <1>4, <1>5, <1>6, <2>4
    <3>2. Propagates(ctl', H, g)
      <4> HIDE DEF H, g
      <4> QED  BY <1>2, <2>1, <2>3, <3>1, CleanupBegins
    <3> QED  BY <3>2
  <2> QED  BY <2>2, <2>3, <2>4 DEF CxaInv
<1>7. CASE /\ ~EHABI /\ ctl' = [ctl EXCEPT ![t] = Replaced(t, f)]
           /\ UNCHANGED <<hdr, propagating, terminated>>
  <2>1. OwnersAlike(hdr, H)
    BY <1>7 DEF OwnersAlike, HeadersKept
  <2> QED  BY <1>3, <1>6, <1>7, <2>1
<1>8. CASE /\ EHABI /\ x \in Ours
           /\ hdr' = [hdr EXCEPT ![x].props = @ + 1,
                                 ![x].nextProp = IF hdr[x].props = 0 THEN propagating[t] ELSE @]
           /\ propagating' = [propagating EXCEPT ![t] = IF hdr[x].props = 0 THEN x ELSE @]
           /\ ctl' = [ctl EXCEPT ![t] = Replaced(t, f)] /\ UNCHANGED terminated
  <2>1. hdr[x].props = 0
    BY <1>4, <1>5, <1>8 DEF Propagates, One
  <2>2. /\ propagating' = [propagating EXCEPT ![t] = x]
        /\ hdr' = [hdr EXCEPT ![x].props = 1, ![x].nextProp = propagating[t]]
    BY <1>8, <2>1
  <2> DEFINE v == propagating[t]
             r == [hdr[x] EXCEPT !.props = 1, !.nextProp = v]
  <2>3. hdr' = [hdr EXCEPT ![x] = r]
    BY <1>1, <1>3, <2>2
  <2>4. v \in Objects \cup {NULL} /\ hdr[x] \in Header
    BY <1>1, <1>3
  <2> HIDE DEF v, x
  <2>5. r \in Header /\ r.props = 1 /\ r.nextProp = v
    <3>1. [hdr[x] EXCEPT !.props = 1] \in Header
      BY <2>4 DEF Header
    <3> QED  BY <2>4, <3>1 DEF Header
  <2>6. /\ r.state = hdr[x].state /\ r.next = hdr[x].next /\ r.handlers = hdr[x].handlers
        /\ r.refs = hdr[x].refs /\ r.primary = hdr[x].primary
    BY <2>4 DEF Header
  <2> HIDE DEF r
  <2>7. /\ hdr' \in [Objects -> Header] /\ hdr'[x] = r /\ \A o \in Objects \ {x} : hdr'[o] = hdr[o]
    BY <1>1, <1>3, <2>3, <2>5
  <2>8. OwnersAlike(hdr, H)
    BY <2>6, <2>7 DEF OwnersAlike, HeadersKept
  <2>9. propagating' \in [Threads -> Objects \cup {NULL}] /\ propagating'[t] = x /\ \A u \in Threads \ {t} : propagating'[u] = propagating[u]
    BY <1>1, <1>3, <2>2
  <2>10. OthersPropagate(hdr, H, x) /\ H[x].props = 1 /\ H[x].nextProp = propagating[t]
    BY <2>5, <2>7 DEF OthersPropagate, Objects, Ours, v
  <2>11. terminated' \in BOOLEAN /\ ctl' = [ctl EXCEPT ![t] = Replaced(t, f)] /\ x \in Ours
    BY <1>3, <1>8
  <2> HIDE DEF f
  <2> QED  BY <1>6, <2>7, <2>8, <2>9, <2>10, <2>11
<1>9. CASE /\ EHABI /\ x \notin Ours /\ propagating[t] = NULL
           /\ propagating' = [propagating EXCEPT ![t] = x]
           /\ ctl' = [ctl EXCEPT ![t] = Replaced(t, f)] /\ UNCHANGED <<hdr, terminated>>
  <2>1. OwnersAlike(hdr, H) /\ OthersPropagate(hdr, H, x)
    BY <1>9 DEF OwnersAlike, HeadersKept, OthersPropagate
  <2>2. propagating' \in [Threads -> Objects \cup {NULL}] /\ propagating'[t] = x /\ \A u \in Threads \ {t} : propagating'[u] = propagating[u]
    BY <1>1, <1>3, <1>9
  <2>3. H \in [Objects -> Header] /\ terminated' \in BOOLEAN
    BY <1>3, <1>9
  <2> HIDE DEF f, x
  <2> QED  BY <1>6, <1>9, <2>1, <2>2, <2>3
<1>10. CASE terminated' = TRUE /\ UNCHANGED <<hdr, propagating, ctl>>
  BY <1>0, <1>10, TerminateKeeps
<1>11. x \in Ours <=> isOurs(x)
  BY DEF isOurs, Ours
<1>12. \/ /\ ~EHABI /\ ctl' = [ctl EXCEPT ![t] = Replaced(t, f)]
          /\ UNCHANGED <<hdr, propagating, terminated>>
       \/ /\ EHABI /\ isOurs(x)
          /\ hdr' = [hdr EXCEPT ![x].props = @ + 1,
                                ![x].nextProp = IF hdr[x].props = 0 THEN propagating[t] ELSE @]
          /\ propagating' = [propagating EXCEPT ![t] = IF hdr[x].props = 0 THEN x ELSE @]
          /\ ctl' = [ctl EXCEPT ![t] = Replaced(t, f)] /\ UNCHANGED terminated
       \/ /\ EHABI /\ ~isOurs(x) /\ propagating[t] = NULL
          /\ propagating' = [propagating EXCEPT ![t] = x]
          /\ ctl' = [ctl EXCEPT ![t] = Replaced(t, f)] /\ UNCHANGED <<hdr, terminated>>
       \/ terminated' = TRUE /\ UNCHANGED <<hdr, propagating, ctl>>
  BY DEF cxa_begin_cleanup, NULL
<1> HIDE DEF x, f, n, H, g
<1> QED  BY <1>7, <1>8, <1>9, <1>10, <1>11, <1>12

\* __cxa_end_cleanup: the innermost cleanup ends, and what it takes from the propagating
\* stack is the exception of its frame.
LEMMA EndCleanupKeeps ==
  ASSUME ObjectsAssumption, CxaInv, NEW t \in Threads, cxa_end_cleanup(t)
  PROVE  CxaInv'
<1> DEFINE x == Top(t).e
           f == Frame("raise", x)
           n == Len(ctl[t])
           H == hdr'
           g == propagating'
<1>0. /\ CxaTypeOK /\ TopIs(t, "cleanup") /\ Placed(ctl, hdr, caught)
      /\ UNCHANGED <<caught, uncaught, ptrs, foreignCaught>>
  BY DEF CxaInv, cxa_end_cleanup
<1>1. /\ ctl[t] # <<>> /\ n \in DOMAIN ctl[t] /\ ctl[t][n].k = "cleanup" /\ ctl[t][n].e = x /\ x \in Objects
      /\ Ends(ctl[t], n)
  BY <1>0, TopView
<1>2. f \in Frames /\ f.k = "raise" /\ f.e = x
  BY <1>1 DEF Frame, Frames, Kinds, Flight
<1>3. /\ hdr \in [Objects -> Header] /\ ctl \in [Threads -> Seq(Frames)] /\ terminated \in BOOLEAN
      /\ propagating \in [Threads -> Objects \cup {NULL}]
  BY <1>0 DEF CxaTypeOK
<1>4. EHABI => Propagates(ctl, hdr, propagating)
  BY DEF CxaInv
\* The cleanup that ends is the innermost one.
<1>5. EHABI => propagating[t] = x
  <2>1. IsLast(CleanupsIn(ctl[t]), n)
    BY <1>1 DEF CleanupsIn, IsLast, Ends
  <2>2. n \in CleanupsIn(ctl[t])
    BY <1>1 DEF CleanupsIn
  <2> HIDE DEF n, x
  <2> QED  BY <1>1, <1>4, <2>1, <2>2 DEF Propagates
<1>6. ASSUME OwnersAlike(hdr, H), H \in [Objects -> Header], g \in [Threads -> Objects \cup {NULL}],
             ctl' = [ctl EXCEPT ![t] = Replaced(t, f)], terminated' \in BOOLEAN,
             EHABI => /\ OthersPropagate(hdr, H, x)
                      /\ x \in Ours => H[x].props = 0
                      /\ g[t] = IF x \in Ours THEN hdr[x].nextProp ELSE NULL
                      /\ \A u \in Threads \ {t} : g[u] = propagating[u]
      PROVE  CxaInv'
  <2> HIDE DEF f, x
  <2>1. Moves(ctl, ctl', t) /\ Retops(ctl[t], ctl'[t], f, n) /\ ctl' \in [Threads -> Seq(Frames)]
    BY <1>0, <1>1, <1>2, <1>6, TopBecomes
  <2>2. CxaTypeOK'
    BY <1>0, <1>6, <2>1 DEF CxaTypeOK
  <2> HIDE DEF n
  <2>3. /\ Placed(ctl', hdr', caught') /\ RefsCounted(ctl', hdr', ptrs')
        /\ FlightsCounted(ctl', uncaught', foreignCaught')
        /\ RetopCounted(ctl, ctl', t, n, f)
    <3>1. ctl[t][n].k \in Flight /\ f.k \in Flight /\ ctl[t][n].e = f.e
      BY <1>1, <1>2 DEF Flight
    <3>2. OwnersAlike(hdr, hdr')
      BY <1>6
    <3> QED  BY <1>0, <1>2, <2>1, <3>1, <3>2, FliesFurther
  <2>4. ASSUME EHABI PROVE Propagates(ctl', hdr', propagating')
    <3>1. /\ Propagates(ctl, hdr, propagating) /\ f.k = "raise" /\ ctl[t][n].k = "cleanup" /\ ctl[t][n].e = f.e
          /\ OthersPropagate(hdr, H, f.e) /\ Placed(ctl, hdr, caught)
          /\ f.e \in Ours => H[f.e].props = 0
          /\ g[t] = (IF f.e \in Ours THEN hdr[f.e].nextProp ELSE NULL)
          /\ \A u \in Threads \ {t} : g[u] = propagating[u]
      BY <1>0, <1>1, <1>2, <1>4, <1>6, <2>4
    <3>2. OnePlace(ctl)
      BY <3>1 DEF Placed
    <3>3. Propagates(ctl', H, g)
      <4> HIDE DEF H, g
      <4> QED  BY <1>2, <2>1, <2>3, <3>1, <3>2, CleanupEnds
    <3> QED  BY <3>3
  <2> QED  BY <2>2, <2>3, <2>4 DEF CxaInv
<1>7. CASE /\ ~EHABI /\ ctl' = [ctl EXCEPT ![t] = Replaced(t, f)]
           /\ UNCHANGED <<hdr, propagating, terminated>>
  <2>1. OwnersAlike(hdr, H)
    BY <1>7 DEF OwnersAlike, HeadersKept
  <2> QED  BY <1>3, <1>6, <1>7, <2>1
<1>8. CASE /\ EHABI /\ x \in Ours /\ EndCleanupNative(t, x)
           /\ ctl' = [ctl EXCEPT ![t] = Replaced(t, f)] /\ UNCHANGED terminated
  <2>1. hdr[x].props = 1
    <3>1. n \in CleanupsIn(ctl[t])
      BY <1>1 DEF CleanupsIn
    <3>2. InCleanup(ctl, x)
      BY <1>1, <3>1 DEF InCleanup
    <3> QED  BY <1>4, <1>8, <3>2 DEF Propagates, One
  <2> DEFINE r == [hdr[x] EXCEPT !.props = 0, !.nextProp = NULL]
             v == hdr[x].nextProp
  <2>2. propagating' = [propagating EXCEPT ![t] = v] /\ hdr' = [hdr EXCEPT ![x] = r]
    <3>1. /\ propagating' = [propagating EXCEPT ![t] = v]
          /\ hdr' = [hdr EXCEPT ![x].props = 0, ![x].nextProp = NULL]
      BY <1>8, <2>1 DEF EndCleanupNative, NULL
    <3> QED  BY <1>1, <1>3, <3>1
  <2>3. hdr[x] \in Header
    BY <1>1, <1>3
  <2> HIDE DEF x
  <2>4. r \in Header /\ r.props = 0
    <3>1. [hdr[x] EXCEPT !.props = 0] \in Header
      BY <2>3 DEF Header
    <3> QED  BY <2>3, <3>1 DEF Header
  <2>5. /\ r.state = hdr[x].state /\ r.next = hdr[x].next /\ r.handlers = hdr[x].handlers
        /\ r.refs = hdr[x].refs /\ r.primary = hdr[x].primary /\ v \in Objects \cup {NULL}
    BY <2>3 DEF Header
  <2> HIDE DEF r, v
  <2>6. /\ hdr' \in [Objects -> Header] /\ hdr'[x] = r /\ \A o \in Objects \ {x} : hdr'[o] = hdr[o]
    BY <1>1, <1>3, <2>2, <2>4
  <2>7. OwnersAlike(hdr, H)
    BY <2>5, <2>6 DEF OwnersAlike, HeadersKept
  <2>8. /\ propagating' \in [Threads -> Objects \cup {NULL}] /\ propagating'[t] = v
        /\ \A u \in Threads \ {t} : propagating'[u] = propagating[u]
    BY <1>3, <2>2, <2>5
  <2>9. OthersPropagate(hdr, H, x) /\ H[x].props = 0
    BY <2>4, <2>6 DEF OthersPropagate, Objects, Ours
  <2>10. terminated' \in BOOLEAN /\ ctl' = [ctl EXCEPT ![t] = Replaced(t, f)] /\ x \in Ours
    BY <1>3, <1>8
  <2>11. g[t] = IF x \in Ours THEN hdr[x].nextProp ELSE NULL
    BY <2>8, <2>10 DEF v
  <2> HIDE DEF f
  <2> QED  BY <1>6, <2>6, <2>7, <2>8, <2>9, <2>10, <2>11
<1>9. CASE /\ EHABI /\ x \notin Ours /\ propagating' = [propagating EXCEPT ![t] = NULL]
           /\ ctl' = [ctl EXCEPT ![t] = Replaced(t, f)] /\ UNCHANGED <<hdr, terminated>>
  <2>1. OwnersAlike(hdr, H) /\ OthersPropagate(hdr, H, x)
    BY <1>9 DEF OwnersAlike, HeadersKept, OthersPropagate
  <2>2. /\ propagating' \in [Threads -> Objects \cup {NULL}]
        /\ propagating'[t] = IF x \in Ours THEN hdr[x].nextProp ELSE NULL
        /\ \A u \in Threads \ {t} : propagating'[u] = propagating[u]
    BY <1>3, <1>9
  <2>3. H \in [Objects -> Header] /\ terminated' \in BOOLEAN
    BY <1>3, <1>9
  <2> HIDE DEF f, x
  <2> QED  BY <1>6, <1>9, <2>1, <2>2, <2>3
<1>10. \/ /\ ~EHABI /\ ctl' = [ctl EXCEPT ![t] = Replaced(t, f)]
          /\ UNCHANGED <<hdr, propagating, terminated>>
       \/ /\ EHABI /\ x \in Ours /\ EndCleanupNative(t, x)
          /\ ctl' = [ctl EXCEPT ![t] = Replaced(t, f)] /\ UNCHANGED terminated
       \/ /\ EHABI /\ x \notin Ours /\ propagating' = [propagating EXCEPT ![t] = NULL]
          /\ ctl' = [ctl EXCEPT ![t] = Replaced(t, f)] /\ UNCHANGED <<hdr, terminated>>
  <2>1. x # NULL /\ (x \in Ours <=> isOurs(x)) /\ EHABI \in BOOLEAN
    BY <1>1 DEF isOurs, Ours, NULL, ObjectsAssumption
  <2>2. CASE EHABI
    <3>1. ctl' = [ctl EXCEPT ![t] = Replaced(t, f)] /\ UNCHANGED terminated
      BY <1>5, <2>1, <2>2 DEF cxa_end_cleanup
    <3>2. \/ isOurs(x) /\ EndCleanupNative(t, x)
          \/ ~isOurs(x) /\ propagating' = [propagating EXCEPT ![t] = NULL] /\ UNCHANGED hdr
      BY <1>5, <2>1, <2>2 DEF cxa_end_cleanup
    <3> QED  BY <2>1, <2>2, <3>1, <3>2 DEF NULL
  <2>3. CASE ~EHABI
    BY <2>3 DEF cxa_end_cleanup
  <2> QED  BY <2>1, <2>2, <2>3
<1> HIDE DEF x, f, n, H, g
<1> QED  BY <1>7, <1>8, <1>9, <1>10

-----------------------------------------------------------------------------
\* Before anything is thrown.
LEMMA InitHolds ==
  ASSUME ObjectsAssumption, Init
  PROVE  CxaInv
<1>1. /\ hdr = [e \in Objects |-> Unused]
      /\ caught = [t \in Threads |-> NULL] /\ uncaught = [t \in Threads |-> 0]
      /\ propagating = [t \in Threads |-> NULL] /\ ctl = [t \in Threads |-> <<>>]
      /\ ptrs = [e \in Primaries |-> 0] /\ foreignCaught = [t \in Threads |-> 0] /\ terminated = FALSE
  BY DEF Init, Objects, NULL
<1>2. /\ Unused \in Header
      /\ Unused.state = "free" /\ Unused.refs = 0 /\ Unused.handlers = 0
      /\ Unused.primary = NULL /\ Unused.props = 0
  BY DEF Unused, Header, NULL
<1>3. CxaTypeOK
  <2>1. /\ caught \in [Threads -> Objects \cup {NULL}] /\ propagating \in [Threads -> Objects \cup {NULL}]
        /\ uncaught \in [Threads -> Int] /\ foreignCaught \in [Threads -> Nat] /\ ptrs \in [Primaries -> Nat]
        /\ hdr \in [Objects -> Header] /\ terminated \in BOOLEAN
    <3>1. caught \in [Threads -> Objects \cup {NULL}] /\ propagating \in [Threads -> Objects \cup {NULL}]
      BY <1>1
    <3>2. uncaught \in [Threads -> Int] /\ foreignCaught \in [Threads -> Nat] /\ ptrs \in [Primaries -> Nat]
      BY <1>1
    <3>3. hdr \in [Objects -> Header] /\ terminated \in BOOLEAN
      BY <1>1, <1>2
    <3> QED  BY <3>1, <3>2, <3>3
  <2>2. ctl \in [Threads -> Seq(Frames)]
    <3>1. <<>> \in Seq(Frames)
      OBVIOUS
    <3> QED  BY <1>1, <3>1
  <2> QED  BY <2>1, <2>2 DEF CxaTypeOK
\* There is no frame.
<1>4. \A t \in Threads : DOMAIN ctl[t] = {}
  BY <1>1
<1>5. /\ \A t \in Threads : /\ NativeIn(ctl[t]) = {} /\ ForeignIn(ctl[t]) = {} /\ CleanupsIn(ctl[t]) = {}
                            /\ FlightsIn(ctl[t]) = {}
      /\ \A t \in Threads : \A e \in Objects : HandlersIn(ctl[t], e) = {} /\ ~FliesIn(ctl[t], e)
      /\ \A e \in Objects : ~Used(ctl, e) /\ ~InCleanup(ctl, e)
  <2>1. /\ \A t \in Threads : /\ NativeIn(ctl[t]) = {} /\ ForeignIn(ctl[t]) = {} /\ CleanupsIn(ctl[t]) = {}
                              /\ FlightsIn(ctl[t]) = {}
        /\ \A t \in Threads : \A e \in Objects : HandlersIn(ctl[t], e) = {} /\ ~FliesIn(ctl[t], e)
    BY <1>4 DEF NativeIn, ForeignIn, CleanupsIn, FlightsIn, HandlersIn, FliesIn
  <2> QED  BY <2>1 DEF Used, InCleanup
<1>6. /\ \A e \in Objects : /\ hdr[e].state = "free" /\ hdr[e].refs = 0 /\ hdr[e].handlers = 0
                            /\ hdr[e].primary = NULL /\ hdr[e].props = 0
      /\ \A t \in Threads : caught[t] = NULL /\ uncaught[t] = 0 /\ propagating[t] = NULL /\ foreignCaught[t] = 0
      /\ \A p \in Primaries : ptrs[p] = 0
  BY <1>1, <1>2
<1>7. \A p \in Primaries : p \in Objects /\ p # NULL
  BY DEF Objects, ObjectsAssumption
<1>8. \A o \in Ours : o \in Objects
  BY DEF Ours, Objects
<1>9. Placed(ctl, hdr, caught)
  <2>1. FramesMatch(ctl, hdr) /\ OnePlace(ctl)
    BY <1>4 DEF FramesMatch, OnePlace
  <2>2. CaughtInOrder(ctl, hdr, caught) /\ HandlersTogether(ctl)
    BY <1>5, <1>6 DEF CaughtInOrder, HandlersTogether
  <2>3. ForeignHeld(ctl, hdr, caught)
    <3>1. \A u \in Threads, f \in Foreigns : ~Holds(ctl, hdr, caught, u, f)
      BY <1>5, <1>6 DEF Holds, ObjectsAssumption, Objects
    <3> QED  BY <1>5, <3>1 DEF ForeignHeld
  <2>4. HandlerCounts(ctl, hdr)
    BY <1>5, <1>6, <1>8 DEF HandlerCounts, HandlerCount
  <2> QED  BY <2>1, <2>2, <2>3, <2>4 DEF Placed
<1>10. RefsCounted(ctl, hdr, ptrs)
  <2>1. ASSUME NEW p \in Primaries
        PROVE  /\ hdr[p].refs = ptrs[p] + Cardinality(DependentsOf(hdr, p)) + One(Used(ctl, p))
               /\ hdr[p].state = "live" <=> hdr[p].refs > 0
    <3>1. DependentsOf(hdr, p) = {}
      BY <1>6, <1>7 DEF DependentsOf, Objects
    <3>2. Cardinality(DependentsOf(hdr, p)) = 0
      BY <3>1, FS_EmptySet
    <3> QED  BY <1>5, <1>6, <1>7, <3>2 DEF One
  <2>2. ASSUME NEW d \in Dependents PROVE hdr[d].state = "free" /\ hdr[d].primary = NULL
    BY <1>6 DEF Objects
  <2> QED  BY <2>1, <2>2 DEF RefsCounted
<1>11. FlightsCounted(ctl, uncaught, foreignCaught)
  BY <1>5, <1>6, FS_EmptySet DEF FlightsCounted
<1>12. Propagates(ctl, hdr, propagating)
  BY <1>5, <1>6, <1>8 DEF Propagates, One
<1> QED  BY <1>3, <1>9, <1>10, <1>11, <1>12 DEF CxaInv

\* Every step of the program and of the unwinder keeps the invariant.
LEMMA StepKeeps ==
  ASSUME ObjectsAssumption, CxaInv, [Next]_(vars)
  PROVE  CxaInv'
<1>1. CASE UNCHANGED vars
  <2>1. UNCHANGED <<hdr, caught, uncaught, propagating, ctl, ptrs, foreignCaught, terminated>>
    BY <1>1 DEF vars
  <2>2. terminated' \in BOOLEAN
    BY <2>1 DEF CxaInv, CxaTypeOK
  <2> QED  BY <2>1, <2>2, TerminateKeeps
<1>2. ASSUME NEW t \in Threads, Program(t) PROVE CxaInv'
  <2>1. ASSUME NEW e \in Primaries, cxa_allocate_exception(t, e) PROVE CxaInv'
    BY <2>1, AllocateKeeps
  <2>2. ASSUME NEW e \in Foreigns, ForeignThrow(t, e) PROVE CxaInv'
    BY <2>2, ForeignThrowKeeps
  <2>3. CASE cxa_throw(t)
    BY <2>3, ThrowKeeps
  <2>4. CASE cxa_rethrow(t)
    BY <2>4, RethrowKeeps
  <2>5. CASE cxa_end_catch(t)
    BY <2>5, CxaEndCatchKeeps
  <2>6. CASE EndDestroy(t)
    BY <2>6, EndDestroyKeeps
  <2>7. CASE cxa_current_primary_exception(t)
    BY <2>7, CurrentPrimaryKeeps
  <2>8. ASSUME NEW p \in Primaries, cxa_increment_exception_refcount(t, p) PROVE CxaInv'
    BY <2>8, IncrementKeeps
  <2>9. ASSUME NEW p \in Primaries, cxa_decrement_exception_refcount(t, p) PROVE CxaInv'
    BY <2>9, DecrementKeeps
  <2>10. ASSUME NEW p \in Primaries, NEW d \in Dependents, cxa_rethrow_primary_exception(t, p, d)
         PROVE CxaInv'
    BY <2>10, RethrowPrimaryKeeps
  <2> QED  BY <1>2, <2>1, <2>2, <2>3, <2>4, <2>5, <2>6, <2>7, <2>8, <2>9, <2>10 DEF Program
<1>3. ASSUME NEW t \in Threads, Unwinder(t) PROVE CxaInv'
  <2>1. CASE HandlerFound(t)
    BY <2>1, HandlerFoundKeeps
  <2>2. CASE failed_throw(t)
    BY <2>2, FailedThrowKeeps
  <2>3. CASE cxa_begin_catch(t)
    BY <2>3, CxaBeginCatchKeeps
  <2>4. CASE Unwind(t)
    BY <2>4, UnwindKeeps
  <2>5. CASE cxa_begin_cleanup(t)
    BY <2>5, BeginCleanupKeeps
  <2>6. CASE cxa_end_cleanup(t)
    BY <2>6, EndCleanupKeeps
  <2>7. CASE exception_cleanup_func(t)
    BY <2>7, CleanupFuncKeeps
  <2> QED  BY <1>3, <2>1, <2>2, <2>3, <2>4, <2>5, <2>6, <2>7 DEF Unwinder
<1> QED  BY <1>1, <1>2, <1>3 DEF Next

-----------------------------------------------------------------------------
\* What CxaException calls handlers and flights of an exception.
LEMMA SameViews ==
  ASSUME CxaTypeOK, NEW t \in Threads, NEW e \in Objects
  PROVE  /\ Handlers(t, e) = HandlersIn(ctl[t], e)
         /\ InFlight(t, e) <=> FliesIn(ctl[t], e)
<1>0. ctl \in [Threads -> Seq(Frames)]
  BY DEF CxaTypeOK
<1>1. \A i \in DOMAIN ctl[t] : ctl[t][i] = [k |-> ctl[t][i].k, e |-> ctl[t][i].e]
  BY <1>0, FrameOf
<1>2. \A i \in DOMAIN ctl[t], k \in Kinds : ctl[t][i] = Frame(k, e) <=> ctl[t][i].k = k /\ ctl[t][i].e = e
  BY <1>1 DEF Frame
<1>3. "handler" \in Kinds /\ \A k \in Flight : k \in Kinds
  BY DEF Kinds
<1>4. Handlers(t, e) = HandlersIn(ctl[t], e)
  BY <1>2, <1>3 DEF Handlers, HandlersIn
<1>5. InFlight(t, e) <=> \E i \in DOMAIN ctl[t] : \E k \in Flight : ctl[t][i] = Frame(k, e)
  BY DEF InFlight, Flight
<1>6. FliesIn(ctl[t], e) <=> \E i \in DOMAIN ctl[t] : \E k \in Flight : ctl[t][i].k = k /\ ctl[t][i].e = e
  BY DEF FliesIn
<1> QED  BY <1>2, <1>3, <1>4, <1>5, <1>6

\* A set of frames has a first one.
LEMMA FirstExists ==
  ASSUME NEW n \in Nat, NEW S \in SUBSET (1 .. n), S # {}
  PROVE  \E j \in S : IsFirst(S, j)
<1> DEFINE Less == OpToRel(<, Nat)
<1>1. IsWellFoundedOn(Less, Nat)
  BY NatLessThanWellFounded
<1>2. \A y, z \in Nat : z < y => <<z, y>> \in Less
  BY DEF OpToRel
<1>3. S \subseteq Nat
  OBVIOUS
<1> HIDE DEF Less
<1>4. PICK m \in S : \A y \in S : ~(<<y, m>> \in Less)
  BY <1>1, <1>3, WFMin
<1>5. ASSUME NEW k \in S PROVE m <= k
  <2>1. k \in Nat /\ m \in Nat
    BY <1>3, <1>4
  <2>2. ~(k < m)
    BY <2>1, <1>2, <1>4
  <2> QED  BY <2>1, <2>2
<1> QED  BY <1>4, <1>5 DEF IsFirst

\* What the caught stack of t leads to is in a native handler of t, or it is
\* the foreign exception at its end.
LEMMA StackHolds ==
  ASSUME ObjectsAssumption, CxaInv, NEW t \in Threads, NEW e \in CaughtStack(t)
  PROVE  \/ \E i \in NativeIn(ctl[t]) : ctl[t][i].e = e
         \/ e \in Foreigns /\ Holds(ctl, hdr, caught, t, e)
<1> DEFINE N == NativeIn(ctl[t])
           S == {ctl[t][i].e : i \in N} \cup {f \in Foreigns : Holds(ctl, hdr, caught, t, f)}
<1>0. /\ ctl \in [Threads -> Seq(Frames)] /\ hdr \in [Objects -> Header] /\ CaughtInOrder(ctl, hdr, caught)
      /\ N \in SUBSET (1 .. Len(ctl[t])) /\ Len(ctl[t]) \in Nat
  BY DEF CxaInv, CxaTypeOK, Placed, NativeIn
<1>1. /\ \A j \in N :
           /\ IsLast(N, j) => caught[t] = ctl[t][j].e
           /\ IsFirst(N, j) => hdr[ctl[t][j].e].next \in Foreigns \cup {NULL}
           /\ \A i \in N : Before(N, i, j) => ctl[t][i].e = ctl[t][j].e \/ hdr[ctl[t][j].e].next = ctl[t][i].e
      /\ N = {} => caught[t] \in Foreigns \cup {NULL}
  BY <1>0 DEF CaughtInOrder
<1>2. \A i \in N : i \in DOMAIN ctl[t] /\ ctl[t][i].e \in Ours
  BY DEF NativeIn
<1> HIDE DEF N
<1>3. caught[t] # NULL /\ \A T \in SUBSET Objects : caught[t] \in T /\ Linked(T) => e \in T
  BY DEF CaughtStack, Objects, NULL
<1>4. S \in SUBSET Objects
  BY <1>2 DEF Ours, Objects
<1>5. caught[t] \in S
  <2>1. CASE N = {}
    BY <1>1, <1>3, <2>1 DEF Holds
  <2>2. CASE N # {}
    <3>1. PICK j \in N : IsLast(N, j)
      BY <1>0, <2>2, LastExists
    <3> QED  BY <1>1, <3>1
  <2> QED  BY <2>1, <2>2
<1>6. ASSUME NEW o \in S, isOurs(o), hdr[o].next # NULL PROVE hdr[o].next \in S
  <2>0. o \in Ours /\ o \notin Foreigns
    BY <1>6 DEF isOurs, Ours, ObjectsAssumption
  <2> DEFINE R == {i \in N : ctl[t][i].e = o}
  <2>1. R # {} /\ R \in SUBSET (1 .. Len(ctl[t]))
    BY <1>0, <2>0
  <2> HIDE DEF R
  <2>2. PICK j \in R : IsFirst(R, j)
    BY <1>0, <2>1, FirstExists
  <2>3. j \in N /\ ctl[t][j].e = o
    BY <2>2 DEF R
  <2>4. CASE IsFirst(N, j)
    <3>1. hdr[o].next \in Foreigns
      BY <1>1, <1>6, <2>3, <2>4
    <3>2. Holds(ctl, hdr, caught, t, hdr[o].next)
      BY <2>3 DEF Holds, N
    <3> QED  BY <3>1, <3>2
  <2>5. CASE ~IsFirst(N, j)
    <3>1. PICK i \in N : Before(N, i, j)
      BY <1>0, <2>3, <2>5, BeforeExists
    <3>2. i < j /\ i \in Int /\ j \in Int
      BY <1>0, <2>3, <3>1 DEF Before
    <3>3. ctl[t][i].e # o
      <4>1. ASSUME ctl[t][i].e = o PROVE FALSE
        <5>1. i \in R
          BY <3>1, <4>1 DEF R
        <5>2. j <= i
          BY <2>2, <5>1 DEF IsFirst
        <5> QED  BY <3>2, <5>2
      <4> QED  BY <4>1
    <3>4. hdr[o].next = ctl[t][i].e
      BY <1>1, <2>3, <3>1, <3>3
    <3> QED  BY <3>1, <3>4
  <2> QED  BY <2>4, <2>5
<1>7. Linked(S)
  BY <1>6 DEF Linked, NULL
<1>8. e \in S
  BY <1>3, <1>4, <1>5, <1>7
<1> QED  BY <1>8 DEF N

\* What is caught, in flight, pointed to or a primary is alive.
LEMMA NothingDead ==
  ASSUME ObjectsAssumption, CxaInv
  PROVE  NoUseAfterFree
<1>0. /\ FramesMatch(ctl, hdr) /\ ForeignHeld(ctl, hdr, caught) /\ RefsCounted(ctl, hdr, ptrs) /\ CxaTypeOK
      /\ ptrs \in [Primaries -> Nat] /\ hdr \in [Objects -> Header]
  BY DEF CxaInv, Placed, CxaTypeOK
<1>1. ASSUME NEW t \in Threads, NEW e \in CaughtStack(t) PROVE hdr[e].state = "live"
  <2>1. ASSUME NEW i \in NativeIn(ctl[t]), ctl[t][i].e = e PROVE hdr[e].state = "live"
    BY <1>0, <2>1 DEF NativeIn, FramesMatch, StateOfFrame
  <2>2. ASSUME e \in Foreigns, Holds(ctl, hdr, caught, t, e) PROVE hdr[e].state = "live"
    BY <1>0, <2>2 DEF ForeignHeld
  <2> QED  BY <2>1, <2>2, StackHolds
<1>2. ASSUME NEW t \in Threads, NEW i \in FliesOn(t) PROVE hdr[ctl[t][i].e].state = "live"
  BY <1>0 DEF FliesOn, FramesMatch, StateOfFrame
<1>3. \A p \in Primaries : /\ hdr[p].refs = ptrs[p] + Cardinality(DependentsOf(hdr, p)) + One(Used(ctl, p))
                           /\ hdr[p].state = "live" <=> hdr[p].refs > 0
                           /\ ptrs[p] \in Nat /\ One(Used(ctl, p)) \in Nat
  BY <1>0 DEF RefsCounted, One
<1>4. \A p \in Primaries : IsFiniteSet(DependentsOf(hdr, p)) /\ Cardinality(DependentsOf(hdr, p)) \in Nat
  BY DependentsCounted
<1>5. ASSUME NEW p \in Primaries, ptrs[p] > 0 PROVE hdr[p].state = "live"
  BY <1>3, <1>4, <1>5
<1>6. ASSUME NEW d \in Dependents, hdr[d].state = "live" PROVE hdr[hdr[d].primary].state = "live"
  <2>1. PICK p \in Primaries : hdr[d].primary = p
    BY <1>0, <1>6 DEF RefsCounted
  <2>2. d \in DependentsOf(hdr, p)
    BY <2>1 DEF DependentsOf
  <2>3. Cardinality(DependentsOf(hdr, p)) # 0
    BY <1>4, <2>2, FS_EmptySet
  <2>4. hdr[p].refs > 0
    BY <1>3, <1>4, <2>3
  <2> QED  BY <1>3, <2>1, <2>4
<1> QED  BY <1>1, <1>2, <1>5, <1>6 DEF NoUseAfterFree

\* referenceCount is the number of owners.
LEMMA OwnersRight ==
  ASSUME ObjectsAssumption, CxaInv
  PROVE  OwnersCounted
<1>0. RefsCounted(ctl, hdr, ptrs) /\ CxaTypeOK
  BY DEF CxaInv
<1>1. ASSUME NEW e \in Objects PROVE InUse(e) <=> Used(ctl, e)
  BY <1>0, SameViews DEF InUse, Used
<1>2. ASSUME NEW p \in Primaries, hdr[p].state = "live"
      PROVE  /\ hdr[p].refs = ptrs[p] + Cardinality({d \in Dependents : hdr[d].primary = p})
                                      + (IF InUse(p) THEN 1 ELSE 0)
             /\ hdr[p].refs > 0
  <2>1. p \in Objects
    BY DEF Objects
  <2>2. /\ hdr[p].refs = ptrs[p] + Cardinality(DependentsOf(hdr, p)) + One(Used(ctl, p))
        /\ hdr[p].refs > 0
    BY <1>0, <1>2 DEF RefsCounted
  <2>3. Cardinality({d \in Dependents : hdr[d].primary = p}) = Cardinality(DependentsOf(hdr, p))
    BY DEF DependentsOf, Cardinality
  <2> QED  BY <1>1, <2>1, <2>2, <2>3 DEF One
<1>3. ASSUME NEW d \in Dependents, hdr[d].state = "live" PROVE InUse(d)
  BY <1>0, <1>1, <1>3 DEF RefsCounted, Objects
<1> QED  BY <1>2, <1>3 DEF OwnersCounted

\* uncaughtExceptions is the number of exceptions in flight.
LEMMA UncaughtRight ==
  ASSUME ObjectsAssumption, CxaInv
  PROVE  UncaughtCounted
<1>1. ASSUME NEW t \in Threads
      PROVE  uncaught[t] = Cardinality({i \in FliesOn(t) : isOurs(ctl[t][i].e)}) + foreignCaught[t]
  <2>1. {i \in FliesOn(t) : isOurs(ctl[t][i].e)} = FlightsIn(ctl[t])
    BY DEF FliesOn, isOurs, FlightsIn, Ours, Flight
  <2>2. Cardinality({i \in FliesOn(t) : isOurs(ctl[t][i].e)}) = Cardinality(FlightsIn(ctl[t]))
    BY <2>1 DEF Cardinality
  <2> QED  BY <2>2 DEF CxaInv, FlightsCounted
<1> QED  BY <1>1 DEF UncaughtCounted

\* The top of caughtExceptions is the exception of the innermost handler.
LEMMA CurrentRight ==
  ASSUME ObjectsAssumption, CxaInv
  PROVE  CurrentIsInnermost
<1> DEFINE N(t) == {i \in DOMAIN ctl[t] : ctl[t][i].k = "handler" /\ isOurs(ctl[t][i].e)}
           F(t) == {i \in DOMAIN ctl[t] : ctl[t][i].k = "handler" /\ ~isOurs(ctl[t][i].e)}
<1>0. /\ CxaTypeOK /\ ctl \in [Threads -> Seq(Frames)] /\ CaughtInOrder(ctl, hdr, caught)
      /\ ForeignHeld(ctl, hdr, caught) /\ HandlerCounts(ctl, hdr)
  BY DEF CxaInv, CxaTypeOK, Placed
<1>1. ASSUME NEW t \in Threads PROVE N(t) = NativeIn(ctl[t]) /\ F(t) = ForeignIn(ctl[t])
  <2>1. \A i \in DOMAIN ctl[t] : ctl[t][i].e \in Objects
    BY <1>0, FrameOf
  <2> QED  BY <2>1 DEF NativeIn, ForeignIn, isOurs, Ours, Objects, ObjectsAssumption
<1>2. ASSUME NEW t \in Threads, NativeIn(ctl[t]) # {}
      PROVE  caught[t] = ctl[t][CHOOSE i \in NativeIn(ctl[t]) : \A j \in NativeIn(ctl[t]) : j <= i].e
  <2> DEFINE m == CHOOSE i \in NativeIn(ctl[t]) : \A j \in NativeIn(ctl[t]) : j <= i
  <2>1. \E i \in NativeIn(ctl[t]) : \A j \in NativeIn(ctl[t]) : j <= i
    BY <1>0, <1>2, NativeLast DEF IsLast
  <2>2. m \in NativeIn(ctl[t]) /\ \A j \in NativeIn(ctl[t]) : j <= m
    BY <2>1
  <2> HIDE DEF m
  <2>3. IsLast(NativeIn(ctl[t]), m)
    BY <2>2 DEF IsLast
  <2>4. caught[t] = ctl[t][m].e
    BY <1>0, <2>2, <2>3 DEF CaughtInOrder
  <2> QED  BY <2>4 DEF m
<1>3. ASSUME NEW t \in Threads, NativeIn(ctl[t]) = {}, ForeignIn(ctl[t]) = {}
      PROVE  caught[t] = NULL
  <2>1. caught[t] \in Foreigns \cup {NULL}
    BY <1>0, <1>3 DEF CaughtInOrder
  <2>2. caught[t] \notin Foreigns
    BY <1>0, <1>3 DEF ForeignHeld, Holds
  <2> QED  BY <2>1, <2>2
<1>4. ASSUME NEW t \in Threads, NEW i \in NativeIn(ctl[t])
      PROVE  LET e == ctl[t][i].e
             IN  hdr[e].handlers \in {Cardinality(Handlers(t, e)), -Cardinality(Handlers(t, e))}
  <2>1. PICK e \in Objects : e = ctl[t][i].e
    BY <1>0, FrameOf DEF NativeIn
  <2>2. e \in Ours /\ i \in HandlersIn(ctl[t], e)
    BY <2>1 DEF NativeIn, HandlersIn
  <2>3. HandlerCount(ctl, hdr, e) /\ HandlersIn(ctl[t], e) # {}
    BY <1>0, <2>2 DEF HandlerCounts
  <2>4. hdr[e].handlers \in {Cardinality(HandlersIn(ctl[t], e)), -Cardinality(HandlersIn(ctl[t], e))}
    BY <2>3 DEF HandlerCount
  <2>5. Handlers(t, e) = HandlersIn(ctl[t], e)
    BY <1>0, <2>1, SameViews
  <2>6. Cardinality(Handlers(t, e)) = Cardinality(HandlersIn(ctl[t], e))
    BY <2>5 DEF Cardinality
  <2> QED  BY <2>1, <2>4, <2>6
<1> HIDE DEF N, F
<1>5. ASSUME NEW t \in Threads
      PROVE  /\ N(t) # {} => caught[t] = ctl[t][CHOOSE i \in N(t) : \A j \in N(t) : j <= i].e
             /\ N(t) = {} /\ F(t) = {} => caught[t] = NULL
             /\ \A i \in N(t) :
                  LET e == ctl[t][i].e
                  IN  hdr[e].handlers \in {Cardinality(Handlers(t, e)), -Cardinality(Handlers(t, e))}
  <2>1. N(t) = NativeIn(ctl[t]) /\ F(t) = ForeignIn(ctl[t])
    BY <1>1
  <2>2. N(t) # {} => caught[t] = ctl[t][CHOOSE i \in N(t) : \A j \in N(t) : j <= i].e
    BY <1>2, <2>1
  <2>3. N(t) = {} /\ F(t) = {} => caught[t] = NULL
    BY <1>3, <2>1
  <2>4. \A i \in N(t) :
          LET e == ctl[t][i].e
          IN  hdr[e].handlers \in {Cardinality(Handlers(t, e)), -Cardinality(Handlers(t, e))}
    BY <1>4, <2>1
  <2> QED  BY <2>2, <2>3, <2>4
<1> QED  BY <1>5 DEF CurrentIsInnermost, N, F, NULL

\* The top of propagatingExceptions is the exception that the innermost cleanup interrupted.
LEMMA ResumesRight ==
  ASSUME ObjectsAssumption, CxaInv
  PROVE  ResumesInterrupted
<1>1. ASSUME EHABI, NEW t \in Threads, TopIs(t, "cleanup") PROVE propagating[t] = Top(t).e
  <2> DEFINE n == Len(ctl[t])
             x == Top(t).e
  <2>1. CxaTypeOK /\ Propagates(ctl, hdr, propagating)
    BY <1>1 DEF CxaInv
  <2>2. /\ n \in DOMAIN ctl[t] /\ ctl[t][n].k = "cleanup" /\ ctl[t][n].e = x /\ Ends(ctl[t], n)
    BY <1>1, <2>1, TopView
  <2>3. IsLast(CleanupsIn(ctl[t]), n) /\ n \in CleanupsIn(ctl[t])
    BY <2>2 DEF CleanupsIn, IsLast, Ends
  <2> HIDE DEF n, x
  <2>4. propagating[t] = x
    BY <2>1, <2>2, <2>3 DEF Propagates
  <2> QED  BY <2>4 DEF x
<1> QED  BY <1>1 DEF ResumesInterrupted

(***************************************************************************)
(* The invariant of the exception objects, for any threads, exceptions and *)
(* bounds, with and without ARM EHABI: every step of cxa_exception.cpp     *)
(* keeps it.                                                               *)
(***************************************************************************)
THEOREM CxaInvariant ==
  ASSUME ObjectsAssumption
  PROVE  Spec => []CxaInv
<1>1. Init => CxaInv
  BY InitHolds
<1>2. CxaInv /\ [Next]_(vars) => CxaInv'
  BY StepKeeps
<1> QED  BY <1>1, <1>2, PTL DEF Spec

\* What CxaInv says of the properties of CxaException.
LEMMA InvShows ==
  ASSUME ObjectsAssumption, CxaInv
  PROVE  /\ NoUseAfterFree /\ OwnersCounted
         /\ UncaughtCounted
         /\ CurrentIsInnermost /\ ResumesInterrupted
BY NothingDead, OwnersRight, UncaughtRight, CurrentRight, ResumesRight

=============================================================================
