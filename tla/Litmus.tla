------------------------------- MODULE Litmus --------------------------------
(***************************************************************************)
(* Small programs of C++ atomic operations, the instructions the library   *)
(* emits for them, and their runs on the memories of the targets, which    *)
(* are external.                                                           *)
(*                                                                         *)
(* The device atomics of atomic_cuda_generated.h turn an operation with a  *)
(* memory order and a scope into PTX: one list for sm_70 and later, where  *)
(* loads, stores and fences carry an order, and one for older devices,     *)
(* which only have volatile accesses and membar.  The host atomics for     *)
(* MSVC in atomic_msvc.h are volatile accesses and Interlocked functions   *)
(* between barriers.  Where only an order against other accesses is asked  *)
(* for, the barrier is one of the processor on ARM and only one of the     *)
(* compiler on x86.                                                        *)
(*                                                                         *)
(* On a device and on ARM a location keeps its writes in modification      *)
(* order, a load may return any write that the view of the thread does not *)
(* exclude, and what a release makes known reaches a thread by an acquire  *)
(* that reads from it, or by a later fence, if the two are in each other's *)
(* scope.  On x86 each processor has a store buffer: a store waits in it,  *)
(* a load takes the newest value of its own buffer, a barrier and an       *)
(* Interlocked function wait for it to be empty.                           *)
(*                                                                         *)
(* Beside the first runs happens-before as C++ defines it from the orders  *)
(* that the program states, whatever the instructions are.                 *)
(***************************************************************************)
EXTENDS AtomicOps, SequencesExt, FiniteSets

CONSTANTS
  Thread, Loc,
  Cases     \* a program, [block, device] of each thread, and "sm_70", "sm_60", "arm" or "x86"

Relaxed == 0
Consume == 1
Acquire == 2
Release == 3
AcqRel  == 4
SeqCst  == 5

(***************************************************************************)
(* Instructions.  membar is a fence.sc, and a volatile access is a relaxed *)
(* access of system scope; an atom without an order is relaxed.            *)
(***************************************************************************)
Fence(sem, s) == [i |-> "fence", sem |-> sem, s |-> s]
Ld(sem, s) == [i |-> "ld", sem |-> sem, s |-> s]
St(sem, s) == [i |-> "st", sem |-> sem, s |-> s]
Atom(what, sem, s) == [i |-> "atom", what |-> what, sem |-> sem, s |-> s]
Membar(s) == Fence("sc", s)
LdVolatile == Ld("relaxed", "system")
StVolatile == St("relaxed", "system")
AtomVolatile(what, s) == Atom(what, "relaxed", s)

\* There is no back end for a single thread: its scope is the block.
scope_tag(s) == IF s = "thread" THEN "block" ELSE s

\* Mutant: the larger number is taken for the stronger order.
stronger_order_max(a, b) == IF a > b THEN a ELSE b

stronger_order_cuda(a, b) ==
  LET max == IF a > b THEN a ELSE b
      min == IF a < b THEN a ELSE b
  IN  IF max # Release THEN max
      ELSE <<Release, AcqRel, AcqRel, Release>>[min + 1]

atomic_thread_fence_cuda(o, s, sm70) ==
  CASE o = Relaxed -> <<>>
    [] o = SeqCst /\ sm70 -> <<Fence("sc", s)>>
    [] o # Relaxed /\ ~sm70 -> <<Membar(s)>>
    [] OTHER -> <<Fence("acq_rel", s)>>

atomic_load_cuda(o, s, sm70) ==
  IF sm70
    THEN CASE o = SeqCst -> <<Fence("sc", s), Ld("acquire", s)>>
           [] o \in {Consume, Acquire} -> <<Ld("acquire", s)>>
           [] o = Relaxed -> <<Ld("relaxed", s)>>
    ELSE CASE o = SeqCst -> <<Membar(s), LdVolatile, Membar(s)>>
           [] o \in {Consume, Acquire} -> <<LdVolatile, Membar(s)>>
           [] o = Relaxed -> <<LdVolatile>>

\* Mutant: a seq_cst store is only a release.
atomic_store_unfenced(o, s, sm70) ==
  IF sm70 /\ o = SeqCst THEN <<St("release", s)>>
  ELSE <<Membar(s), StVolatile>>

atomic_store_cuda(o, s, sm70) ==
  IF sm70
    THEN CASE o = Release -> <<St("release", s)>>
           [] o = SeqCst -> <<Fence("sc", s), St("relaxed", s)>>
           [] o = Relaxed -> <<St("relaxed", s)>>
    ELSE CASE o \in {Release, SeqCst} -> <<Membar(s), StVolatile>>
           [] o = Relaxed -> <<StVolatile>>

(***************************************************************************)
(* The switch that exchange, compare_exchange and the fetch functions      *)
(* share, around the atom instruction of each.                             *)
(***************************************************************************)
ReadModifyWrite(what, o, s, sm70) ==
  IF sm70
    THEN CASE o = SeqCst -> <<Fence("sc", s), Atom(what, "acquire", s)>>
           [] o \in {Consume, Acquire} -> <<Atom(what, "acquire", s)>>
           [] o = AcqRel -> <<Atom(what, "acq_rel", s)>>
           [] o = Release -> <<Atom(what, "release", s)>>
           [] o = Relaxed -> <<Atom(what, "relaxed", s)>>
    ELSE CASE o \in {SeqCst, AcqRel} -> <<Membar(s), AtomVolatile(what, s), Membar(s)>>
           [] o \in {Consume, Acquire} -> <<AtomVolatile(what, s), Membar(s)>>
           [] o = Release -> <<Membar(s), AtomVolatile(what, s)>>
           [] o = Relaxed -> <<AtomVolatile(what, s)>>

atomic_compare_exchange_cuda(o, f, s, sm70) ==
  ReadModifyWrite("cas", stronger_order_cuda(o, f), s, sm70)
atomic_exchange_cuda(o, s, sm70)  == ReadModifyWrite("exchange", o, s, sm70)
atomic_fetch_and_cuda(o, s, sm70) == ReadModifyWrite("and", o, s, sm70)
atomic_fetch_or_cuda(o, s, sm70)  == ReadModifyWrite("or", o, s, sm70)
atomic_fetch_xor_cuda(o, s, sm70) == ReadModifyWrite("xor", o, s, sm70)
atomic_fetch_add_cuda(o, s, sm70) == ReadModifyWrite("add", o, s, sm70)
atomic_fetch_max_cuda(o, s, sm70) == ReadModifyWrite("max", o, s, sm70)
atomic_fetch_min_cuda(o, s, sm70) == ReadModifyWrite("min", o, s, sm70)
\* The operand is negated: __op = -__op in front of atom.add.
atomic_fetch_sub_cuda(o, s, sm70) == ReadModifyWrite("add_neg", o, s, sm70)

\* What atom writes when it finds old.
AtomWrites(what, old, v, e) ==
  CASE what = "cas" -> IF old = e THEN v ELSE old
    [] what = "add_neg" -> Updated("add", old, Trunc(-v))
    [] OTHER -> Updated(what, old, v)

(***************************************************************************)
(* A C++ operation: op, location x, operand v, expected value e, order o,  *)
(* failure order f and scope s.                                            *)
(***************************************************************************)
Code(c, sm70) ==
  LET s == scope_tag(c.s)
  IN  CASE c.op = "fence"    -> atomic_thread_fence_cuda(c.o, s, sm70)
        [] c.op = "load"     -> atomic_load_cuda(c.o, s, sm70)
        [] c.op = "store"    -> atomic_store_cuda(c.o, s, sm70)
        [] c.op = "cas"      -> atomic_compare_exchange_cuda(c.o, c.f, s, sm70)
        [] c.op = "exchange" -> atomic_exchange_cuda(c.o, s, sm70)
        [] c.op = "and"      -> atomic_fetch_and_cuda(c.o, s, sm70)
        [] c.op = "or"       -> atomic_fetch_or_cuda(c.o, s, sm70)
        [] c.op = "xor"      -> atomic_fetch_xor_cuda(c.o, s, sm70)
        [] c.op = "add"      -> atomic_fetch_add_cuda(c.o, s, sm70)
        [] c.op = "max"      -> atomic_fetch_max_cuda(c.o, s, sm70)
        [] c.op = "min"      -> atomic_fetch_min_cuda(c.o, s, sm70)
        [] c.op = "sub"      -> atomic_fetch_sub_cuda(c.o, s, sm70)

-----------------------------------------------------------------------------
(* The host atomics for MSVC. *)
Memory_barrier == <<Fence("sc", "system")>>
Compiler_or_memory_barrier(arm) == IF arm THEN Memory_barrier ELSE <<>>

msvc_thread_fence(o) == IF o # Relaxed THEN Memory_barrier ELSE <<>>

load_relaxed == <<Ld("relaxed", "system")>>
store_relaxed == <<St("relaxed", "system")>>
interlocked(what) == <<Atom(what, "relaxed", "system")>>

msvc_load(o, arm) ==
  CASE o = SeqCst -> Memory_barrier \o load_relaxed \o Compiler_or_memory_barrier(arm)
    [] o \in {Consume, Acquire} -> load_relaxed \o Compiler_or_memory_barrier(arm)
    [] o = Relaxed -> load_relaxed

msvc_store(o, arm) ==
  CASE o = Release -> Compiler_or_memory_barrier(arm) \o store_relaxed
    [] o = SeqCst -> Memory_barrier \o store_relaxed
    [] o = Relaxed -> store_relaxed

msvc_read_modify_write(what, o, arm) ==
  CASE o = Release -> Compiler_or_memory_barrier(arm) \o interlocked(what)
    [] o = AcqRel -> Compiler_or_memory_barrier(arm) \o interlocked(what) \o Compiler_or_memory_barrier(arm)
    [] o \in {Consume, Acquire} -> interlocked(what) \o Compiler_or_memory_barrier(arm)
    [] o = SeqCst -> Memory_barrier \o interlocked(what) \o Compiler_or_memory_barrier(arm)
    [] o = Relaxed -> interlocked(what)

msvc_compare_exchange(o, f, arm) == msvc_read_modify_write("cas", stronger_order_cuda(o, f), arm)
msvc_exchange(o, arm)  == msvc_read_modify_write("exchange", o, arm)
msvc_fetch_add(o, arm) == msvc_read_modify_write("add", o, arm)
msvc_fetch_sub(o, arm) == msvc_read_modify_write("add_neg", o, arm)     \* fetch_add of 0 - val
msvc_fetch_and(o, arm) == msvc_read_modify_write("and", o, arm)
msvc_fetch_xor(o, arm) == msvc_read_modify_write("xor", o, arm)
msvc_fetch_or(o, arm)  == msvc_read_modify_write("or", o, arm)

MsvcCode(c, arm) ==
  CASE c.op = "fence"    -> msvc_thread_fence(c.o)
    [] c.op = "load"     -> msvc_load(c.o, arm)
    [] c.op = "store"    -> msvc_store(c.o, arm)
    [] c.op = "cas"      -> msvc_compare_exchange(c.o, c.f, arm)
    [] c.op = "exchange" -> msvc_exchange(c.o, arm)
    [] c.op = "add"      -> msvc_fetch_add(c.o, arm)
    [] c.op = "sub"      -> msvc_fetch_sub(c.o, arm)
    [] c.op = "and"      -> msvc_fetch_and(c.o, arm)
    [] c.op = "xor"      -> msvc_fetch_xor(c.o, arm)
    [] c.op = "or"       -> msvc_fetch_or(c.o, arm)

-----------------------------------------------------------------------------
\* A program is a function from threads to sequences of operations.

Length(p) == MapThenSumSet(LAMBDA t : Len(p[t]), Thread)
Orders(p) == {s \in [1..Length(p) -> {t \in Thread : p[t] # <<>>}] :
               \A t \in Thread : Cardinality({i \in 1..Length(p) : s[i] = t}) = Len(p[t])}

Reference(c, old) ==
  CASE c.op = "cas" -> IF old = c.e THEN c.v ELSE old
    [] OTHER -> Updated(c.op, old, c.v)

Ran(p, order) ==
  LET RunOp(st, t) ==
        LET c == p[t][st.n[t]]
            old == st.mem[c.x]
            next == [st EXCEPT !.n[t] = @ + 1]
        IN  [next EXCEPT !.mem[c.x] = Reference(c, old),
                         !.reads[t] = IF c.op = "store" THEN @ ELSE Append(@, old)]
      end == FoldLeft(RunOp, [n |-> [t \in Thread |-> 1], mem |-> [x \in Loc |-> 0],
                              reads |-> [t \in Thread |-> <<>>]], order)
  IN  [mem |-> end.mem, reads |-> end.reads]

\* The outcomes of the interleavings, in which fences do nothing.
Accesses(p) == [t \in Thread |-> SelectSeq(p[t], LAMBDA c : c.op # "fence")]
Interleaved(p) == {Ran(Accesses(p), o) : o \in Orders(Accesses(p))}

\* All operations are seq_cst, or a seq_cst fence is between any two accesses.
IsSeqCst(c) == c.o = 5
IsSeqCstFence(c) == IsSeqCst(c) /\ c.op = "fence"
Ordered(p) == \A t \in Thread : \A i \in 1..(Len(p[t]) - 1) :
                \/ IsSeqCst(p[t][i]) /\ IsSeqCst(p[t][i + 1])
                \/ IsSeqCstFence(p[t][i])
                \/ IsSeqCstFence(p[t][i + 1])

-----------------------------------------------------------------------------
(* The runs. *)
VARIABLES
  prog, place, target,
  pc,       \* pc[t]: the operation t is in
  step,     \* step[t]: the instruction of it t is at
  msgs,     \* the writes: location, time stamp in its modification order, value, ...
  view,     \* view[t][x]: the oldest write to x that t may still read
  pending,  \* pending[t]: releases t has read from without acquiring
  fences,   \* fences[t]: what the last fences of t, by scope, make known
  scf,      \* what the last fence.sc of each thread and scope made known
  mem,      \* x86: the memory
  buffer,   \* x86: buffer[t], the stores of t that have not reached it
  reads,    \* reads[t]: what the operations of t have returned
  at,       \* at[e]: time stamp of the write of operation e
  before,   \* C++: before[t], the operations that happen before t's next one
  cpending, cfences \* C++: the counterparts of pending and fences
given == <<prog, place, target>>
scoped == <<msgs, view, pending, fences, scf>>
tso == <<mem, buffer>>
cpp == <<at, before, cpending, cfences>>
vars == <<given, pc, step, reads, scoped, tso, cpp>>

-----------------------------------------------------------------------------
(* Scopes. *)
Includes(s, t, u) == CASE s = "thread" -> t = u
                       [] s = "block"  -> place[t] = place[u]
                       [] s = "device" -> place[t].device = place[u].device
                       [] s = "system" -> TRUE
\* Morally strong: each is in the scope of the other.
Strong(t, s, r) == Includes(s, t, r.t) /\ Includes(r.s, r.t, t)

Join(v, rels) == [x \in Loc |-> Max({v[x]} \cup {r.view[x] : r \in rels})]
Known(events, rels) == events \cup UNION {r.view : r \in rels}

\* The latest record of t for scope s replaces the one before.
Replace(recs, r) == {q \in recs : q.t # r.t \/ q.s # r.s} \cup {r}

Op(t) == prog[t][pc[t]]
\* sm_60 stands for the devices before sm_70; arm and x86 are Windows on them.
Instrs(t) == IF target \in {"arm", "x86"} THEN MsvcCode(Op(t), target = "arm")
                                          ELSE Code(Op(t), target = "sm_70")
Is(t, i) == Instrs(t)[step[t]].i = i
Running(t) == pc[t] <= Len(prog[t])

IsAcquire(o) == o \in {Consume, Acquire, AcqRel, SeqCst}
IsRelease(o) == o \in {Release, AcqRel, SeqCst}

\* The slots of a location: one for each operation that may write it.
Writes(c) == c.op \notin {"load", "fence"}
Slots(x) == Cardinality({<<t, i>> \in Thread \X (1..4) :
                           i <= Len(prog[t]) /\ Writes(prog[t][i]) /\ prog[t][i].x = x})

-----------------------------------------------------------------------------
\* The threads are about to run the case c.
Started(c) ==
  /\ prog = c.prog /\ place = c.place /\ target = c.target
  /\ pc = [t \in Thread |-> 1]
  /\ step = [t \in Thread |-> 1]
  /\ msgs = {[x |-> x, ts |-> 0, val |-> 0, rels |-> {}, heads |-> {}] : x \in Loc}
  /\ view = [t \in Thread |-> [x \in Loc |-> 0]]
  /\ pending = [t \in Thread |-> {}]
  /\ fences = [t \in Thread |-> {}]
  /\ scf = {}
  /\ mem = [x \in Loc |-> 0]
  /\ buffer = [t \in Thread |-> <<>>]
  /\ reads = [t \in Thread |-> <<>>]
  /\ at = [e \in {} |-> 0]
  /\ before = [t \in Thread |-> {}]
  /\ cpending = [t \in Thread |-> {}]
  /\ cfences = [t \in Thread |-> {}]

Init == \E c \in Cases : Started(c)

\* The next instruction, or the next operation after the last one.
Advance(t) ==
  IF step[t] < Len(Instrs(t))
    THEN /\ step' = [step EXCEPT ![t] = @ + 1]
         /\ UNCHANGED pc
    ELSE /\ step' = [step EXCEPT ![t] = 1]
         /\ pc' = [pc EXCEPT ![t] = @ + 1]

(***************************************************************************)
(* What t knows after it has read m, by an instruction or by a C++         *)
(* operation with scope s: an acquire takes in the releases it reads from. *)
(***************************************************************************)
Acquired(t, s, rels) == {r \in rels : Strong(t, s, r)}

\* C++: the operation c of t reads m, with order o; the releases that a write of c heads.
CppRead(t, c, m, o) ==
  /\ cpending' = [cpending EXCEPT ![t] = @ \cup m.heads]
  /\ before' = [before EXCEPT ![t] =
       Known(@ \cup {<<t, pc[t]>>}, IF IsAcquire(o) THEN Acquired(t, c.s, m.heads) ELSE {})]
CppHeads(t, c, known) ==
  cfences[t] \cup IF IsRelease(c.o) THEN {[t |-> t, s |-> c.s, view |-> known]} ELSE {}

Load(t) ==
  LET c == Op(t)
      i == Instrs(t)[step[t]]
  IN  /\ i.i = "ld"
      /\ \E m \in msgs :
           /\ m.x = c.x
           /\ m.ts >= view[t][c.x]
           /\ view' = [view EXCEPT ![t] =
                Join([@ EXCEPT ![c.x] = m.ts],
                     IF i.sem = "acquire" THEN Acquired(t, i.s, m.rels) ELSE {})]
           /\ pending' = [pending EXCEPT ![t] = @ \cup m.rels]
           /\ reads' = [reads EXCEPT ![t] = Append(@, m.val)]
           /\ CppRead(t, c, m, c.o)
      /\ Advance(t)
      /\ UNCHANGED <<given, msgs, fences, scf, tso, at, cfences>>

(***************************************************************************)
(* A write of val with stamp ts: it carries the releases it has read from, *)
(* the fences before it and, if it is a release, itself.                   *)
(***************************************************************************)
Write(t, i, c, ts, val, v, rels, heads, known) ==
  LET w == [v EXCEPT ![c.x] = ts]
      own == IF i.sem \in {"release", "acq_rel"} THEN {[t |-> t, s |-> i.s, view |-> w]} ELSE {}
  IN  /\ msgs' = msgs \cup {[x |-> c.x, ts |-> ts, val |-> val,
                             rels |-> rels \cup fences[t] \cup own,
                             heads |-> heads \cup CppHeads(t, c, known)]}
      /\ view' = [view EXCEPT ![t] = w]
      /\ at' = at @@ (<<t, pc[t]>> :> ts)

Taken(x) == {m.ts : m \in {n \in msgs : n.x = x}}

Store(t) ==
  LET c == Op(t)
      i == Instrs(t)[step[t]]
  IN  /\ i.i = "st"
      /\ \E ts \in (view[t][c.x] + 1)..Slots(c.x) :
           /\ ts \notin Taken(c.x)
           /\ Write(t, i, c, ts, c.v, view[t], {}, {}, before[t] \cup {<<t, pc[t]>>})
      /\ before' = [before EXCEPT ![t] = @ \cup {<<t, pc[t]>>}]
      /\ Advance(t)
      /\ UNCHANGED <<given, pending, fences, scf, tso, reads, cpending, cfences>>

\* atom takes the stamp after the one it reads; a cas that fails only reads.
AtomStep(t) ==
  LET c == Op(t)
      i == Instrs(t)[step[t]]
  IN  /\ i.i = "atom"
      /\ \E m \in msgs :
           LET fails == i.what = "cas" /\ m.val # c.e
               v == Join([view[t] EXCEPT ![c.x] = m.ts],
                         IF i.sem \in {"acquire", "acq_rel"} THEN Acquired(t, i.s, m.rels) ELSE {})
           IN  /\ m.x = c.x
               /\ m.ts >= view[t][c.x]
               /\ CppRead(t, c, m, IF fails THEN c.f ELSE c.o)
               /\ pending' = [pending EXCEPT ![t] = @ \cup m.rels]
               /\ reads' = [reads EXCEPT ![t] = Append(@, m.val)]
               /\ \/ /\ fails
                     /\ view' = [view EXCEPT ![t] = v]
                     /\ UNCHANGED <<msgs, at>>
                  \/ /\ ~fails
                     /\ m.ts + 1 <= Slots(c.x)
                     /\ m.ts + 1 \notin Taken(c.x)
                     /\ Write(t, i, c, m.ts + 1, AtomWrites(i.what, m.val, c.v, c.e),
                              v, m.rels, m.heads, before'[t])
      /\ Advance(t)
      /\ UNCHANGED <<given, fences, scf, tso, cfences>>

(***************************************************************************)
(* A fence takes in what t has read from, and the fences it is ordered     *)
(* after when it is a fence.sc; what t knows then, its later writes carry. *)
(***************************************************************************)
FenceStep(t) ==
  LET c == Op(t)
      i == Instrs(t)[step[t]]
      v == Join(view[t], Acquired(t, i.s, pending[t])
                         \cup IF i.sem = "sc" THEN Acquired(t, i.s, scf) ELSE {})
      r == [t |-> t, s |-> i.s, view |-> v]
  IN  /\ i.i = "fence"
      /\ view' = [view EXCEPT ![t] = v]
      /\ fences' = [fences EXCEPT ![t] = Replace(@, r)]
      /\ scf' = IF i.sem = "sc" THEN Replace(scf, r) ELSE scf
      /\ IF c.op = "fence"
           THEN /\ before' = [before EXCEPT ![t] =
                     Known(@ \cup {<<t, pc[t]>>},
                           IF IsAcquire(c.o) THEN Acquired(t, c.s, cpending[t]) ELSE {})]
                /\ cfences' = IF IsRelease(c.o)
                     THEN [cfences EXCEPT ![t] = Replace(@, [t |-> t, s |-> c.s, view |-> before'[t]])]
                     ELSE cfences
           ELSE UNCHANGED <<before, cfences>>
      /\ Advance(t)
      /\ UNCHANGED <<given, msgs, pending, tso, reads, at, cpending>>

\* A relaxed fence is no instruction at all.
NoInstruction(t) ==
  /\ Instrs(t) = <<>>
  /\ pc' = [pc EXCEPT ![t] = @ + 1]
  /\ before' = [before EXCEPT ![t] = @ \cup {<<t, pc[t]>>}]
  /\ UNCHANGED <<given, step, scoped, tso, reads, at, cpending, cfences>>

-----------------------------------------------------------------------------
(* x86, where the order of the program is not followed: cpp stays. *)

Buffered(t, x) == SelectSeq(buffer[t], LAMBDA w : w[1] = x)
Seen(t, x) == IF Buffered(t, x) = <<>> THEN mem[x] ELSE Last(Buffered(t, x))[2]

TsoLoad(t) ==
  /\ Is(t, "ld")
  /\ reads' = [reads EXCEPT ![t] = Append(@, Seen(t, Op(t).x))]
  /\ Advance(t)
  /\ UNCHANGED <<given, scoped, tso, cpp>>

TsoStore(t) ==
  /\ Is(t, "st")
  /\ buffer' = [buffer EXCEPT ![t] = Append(@, <<Op(t).x, Op(t).v>>)]
  /\ Advance(t)
  /\ UNCHANGED <<given, scoped, mem, reads, cpp>>

Interlocked(t) ==
  LET c == Op(t)
  IN  /\ Is(t, "atom")
      /\ buffer[t] = <<>>
      /\ mem' = [mem EXCEPT ![c.x] = AtomWrites(Instrs(t)[step[t]].what, @, c.v, c.e)]
      /\ reads' = [reads EXCEPT ![t] = Append(@, mem[c.x])]
      /\ Advance(t)
      /\ UNCHANGED <<given, scoped, buffer, cpp>>

Barrier(t) ==
  /\ Is(t, "fence")
  /\ buffer[t] = <<>>
  /\ Advance(t)
  /\ UNCHANGED <<given, scoped, tso, reads, cpp>>

\* The oldest store of the buffer reaches the memory.
Drain(t) ==
  /\ buffer[t] # <<>>
  /\ mem' = [mem EXCEPT ![Head(buffer[t])[1]] = Head(buffer[t])[2]]
  /\ buffer' = [buffer EXCEPT ![t] = Tail(@)]
  /\ UNCHANGED <<given, pc, step, reads, scoped, cpp>>

-----------------------------------------------------------------------------
ScopedStep(t) == Load(t) \/ Store(t) \/ AtomStep(t) \/ FenceStep(t)
TsoStep(t) == TsoLoad(t) \/ TsoStore(t) \/ Interlocked(t) \/ Barrier(t)

ThreadStep(t) ==
  /\ Running(t)
  /\ \/ NoInstruction(t)
     \/ Instrs(t) # <<>> /\ target # "x86" /\ ScopedStep(t)
     \/ Instrs(t) # <<>> /\ target = "x86" /\ TsoStep(t)

Next == \E t \in Thread : ThreadStep(t) \/ Drain(t)
Spec == Init /\ [][Next]_vars

-----------------------------------------------------------------------------
(* What the properties are about. *)
Done == \A t \in Thread : ~Running(t) /\ buffer[t] = <<>>

Newest(x) == CHOOSE m \in msgs : m.x = x /\ \A n \in msgs : n.x = x => n.ts <= m.ts
Outcome == [mem |-> IF target = "x86" THEN mem ELSE [x \in Loc |-> Newest(x).val],
            reads |-> reads]

(***************************************************************************)
(* Programs of seq_cst operations, or with seq_cst fences between their    *)
(* accesses, only have outcomes of interleavings, on devices and on ARM    *)
(* (what fence.sc in front of each access, or membar, is for) and on x86   *)
(* (what __faststorefence beside an ordinary load or store is for).        *)
(***************************************************************************)
OnlyInterleavings == Done /\ Ordered(prog) => Outcome \in Interleaved(prog)

(***************************************************************************)
(* What happens before an operation, by the orders and scopes the program  *)
(* states, the thread sees: no later read returns an older value.  (On     *)
(* devices and ARM: cpp follows the programs there.)                       *)
(***************************************************************************)
HappensBeforeSeen ==
  \A t \in Thread : step[t] = 1 =>
    \A e \in before[t] \cap DOMAIN at : view[t][prog[e[1]][e[2]].x] >= at[e]
=============================================================================
