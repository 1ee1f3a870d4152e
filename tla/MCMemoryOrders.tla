--------------------------- MODULE MCMemoryOrders ---------------------------
(***************************************************************************)
(* What the atomic operations are compiled to, run on the memory of a GPU, *)
(* of ARM and of x86, for the programs listed here.                        *)
(***************************************************************************)
EXTENDS Litmus

CONSTANTS t1, t2, t3, t4, x, y

Cpp(op, l, v, o, s) == [op |-> op, x |-> l, v |-> v, e |-> 1, o |-> o, f |-> o, s |-> s]
Of(a, b, c, d) == (t1 :> a) @@ (t2 :> b) @@ (t3 :> c) @@ (t4 :> d)

-----------------------------------------------------------------------------
(* seq_cst: two operations for each of two threads, and four threads of    *)
(* which two write and two read in different orders; the same programs of  *)
(* relaxed operations with seq_cst fences between them.                    *)
Sc(op, l, v) == Cpp(op, l, v, SeqCst, "device")
ScOps(v) == {Sc(op, l, v) : op \in {"load", "store", "sub"}, l \in {x, y}}
Pairs(v) == {<<a, b>> : a \in ScOps(v), b \in ScOps(v)}
Writer(l) == <<Sc("store", l, 1)>>
Reader(l, k) == <<Sc("load", l, 0), Sc("load", k, 0)>>

Weakened(c) == [c EXCEPT !.o = Relaxed, !.f = Relaxed]
FenceOp(o, s) == Cpp("fence", x, 0, o, s)
Fenced(cs) == IF Len(cs) < 2 THEN [i \in DOMAIN cs |-> Weakened(cs[i])]
              ELSE <<Weakened(cs[1]), FenceOp(SeqCst, "device"), Weakened(cs[2])>>

ScPrograms == {Of(a, b, <<>>, <<>>) : a \in Pairs(1), b \in Pairs(2)}
              \cup {Of(Fenced(a), Fenced(b), <<>>, <<>>) : a \in Pairs(1), b \in {p \in Pairs(2) : p[1].op # "sub"}}
              \cup {Of(Writer(x), Writer(y), Reader(x, y), Reader(y, x)),
                    Of(Writer(x), Writer(y), Fenced(Reader(x, y)), Fenced(Reader(y, x)))}

-----------------------------------------------------------------------------
(* Publication: t1 writes x and then y, t3 reads y; t2 may come between    *)
(* them with a read-modify-write of y.                                     *)
Orders6 == {Relaxed, Consume, Acquire, Release, AcqRel, SeqCst}
Data == Cpp("store", x, 1, Relaxed, "system")
Publish(s) == {<<Data, Cpp("store", y, 1, o, s)>> : o \in {Relaxed, Release, SeqCst}}
              \cup {<<Data, Cpp("exchange", y, 1, o, s)>> : o \in Orders6}
              \cup {<<Data, FenceOp(o, s), Cpp("store", y, 1, Relaxed, "system")>> : o \in Orders6}
Compare(o, f, e, s) == [Cpp("cas", y, 3, o, s) EXCEPT !.f = f, !.e = e]
Consumes(s) == {<<Cpp("load", y, 0, o, s)>> : o \in {Relaxed, Consume, Acquire, SeqCst}}
               \cup {<<Cpp("add", y, 1, o, s)>> : o \in Orders6}
               \cup {<<Compare(o, f, e, s)>> : o \in Orders6, f \in {Relaxed, Consume, Acquire, SeqCst}, e \in {0, 1}}
               \cup {<<Cpp("load", y, 0, Relaxed, "system"), FenceOp(o, s)>> : o \in Orders6}

Between == {<<Cpp(op, y, 2, Relaxed, "device")>> : op \in {"and", "or", "xor", "add", "max", "min", "sub"}}

OrderPrograms ==
  {Of(a, <<>>, c, <<>>) : a \in Publish("device"), c \in Consumes("device")}
  \cup {Of(<<Data, Cpp("store", y, 1, Release, "device")>>, b, <<Cpp("load", y, 0, o, "device")>>, <<>>) :
          b \in Between, o \in {Relaxed, Acquire, SeqCst}}

Scopes == {"thread", "block", "device", "system"}
ScopePrograms ==
  {Of(a, <<>>, c, <<>>) :
     a \in UNION {{p \in Publish(s) : p[2].o \in {Release, SeqCst}} : s \in Scopes},
     c \in UNION {{p \in Consumes(s) : p[1].op = "load" /\ (p[1].o \in {Acquire, SeqCst} \/ (Len(p) = 2 /\ p[2].o = Acquire))} : s \in Scopes}}

\* For the host: no max and min, and one scope.
HostPrograms ==
  {Of(a, <<>>, c, <<>>) : a \in Publish("system"), c \in Consumes("system")}
  \cup {Of(<<Data, Cpp("store", y, 1, Release, "system")>>, b, <<Cpp("load", y, 0, o, "system")>>, <<>>) :
          b \in {b \in Between : b[1].op \notin {"max", "min"}}, o \in {Relaxed, Acquire, SeqCst}}
  \cup {Of(a, b, <<>>, <<>>) : a \in Pairs(1), b \in {p \in Pairs(2) : p[1].op = "store"}}

TsoPrograms == ScPrograms \cup HostPrograms

-----------------------------------------------------------------------------
OwnBlocks == [t \in Thread |-> [block |-> t, device |-> 1]]
OneDevice == {OwnBlocks}
\* t3 in the block of t1, in another block of its device, on another device.
Apart == {[t \in Thread |-> IF t = t3 THEN p ELSE [block |-> 1, device |-> 1]] :
            p \in {[block |-> 1, device |-> 1], [block |-> 2, device |-> 1], [block |-> 3, device |-> 2]}}

Gpu == {"sm_70", "sm_60"}
MCCases == [prog : ScPrograms \cup OrderPrograms, place : OneDevice, target : Gpu]
           \cup [prog : ScopePrograms, place : Apart, target : Gpu]
           \cup [prog : HostPrograms, place : OneDevice, target : {"arm"}]
           \cup [prog : TsoPrograms, place : OneDevice, target : {"x86"}]
=============================================================================
