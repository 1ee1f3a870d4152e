----------------------------- MODULE SmallAtomic -----------------------------
(***************************************************************************)
(* Atomics of types smaller than 32 bits: __cxx_atomic_base_small_impl     *)
(* keeps the value in a 32-bit proxy (signed for a signed type) and every  *)
(* operation is one on the proxy, with a conversion before and after.      *)
(*                                                                         *)
(* Arithmetic of 32 bits leaves more in the proxy than the small value:    *)
(* the bits above it are dirty after a carry.  Loads and conversions do    *)
(* not see them; compare_exchange does, and cleans them with a fetch_and   *)
(* when that is why it failed.                                             *)
(***************************************************************************)
EXTENDS Integers

CONSTANTS
  Thread,
  SmallBits,     \* 8 or 16
  WordBits,      \* 32
  Signed,        \* is_signed<_Tp>
  Ops,           \* the operations the client uses
  Args,          \* the arguments it gives them
  Spurious,      \* compare_exchange_weak of the target may fail without a reason
  Calls          \* bound: calls the threads make together

BitsAssumption == SmallBits \in Nat /\ WordBits \in Nat /\ 0 < SmallBits /\ SmallBits < WordBits
FlagAssumption == Signed \in BOOLEAN /\ Spurious \in BOOLEAN
CallsAssumption == Calls \in Nat

S == INSTANCE AtomicOps WITH Bits <- SmallBits
W == INSTANCE AtomicOps WITH Bits <- WordBits

OpsAssumption == Ops \subseteq S!Updates \cup S!Compares /\ Args \subseteq S!Value

VARIABLES
  proxy,     \* __a_value
  pc,
  call,      \* call[t]: the operation t is in and its arguments
  last,      \* last[t]: what t's last operation returned
  calls      \* calls the threads may still make

vars == <<proxy, pc, call, last, calls>>

(* __cxx_small_to_32 and __cxx_small_from_32: extension and truncation. *)
To32(v) == W!Trunc(v)
From32(w) == S!Trunc(w)

NoCall == [op |-> "none"]
Result(old, ok) == [old |-> old, ok |-> ok]

Init ==
  /\ proxy \in {To32(v) : v \in S!Value}
  /\ pc = [t \in Thread |-> "idle"]
  /\ call = [t \in Thread |-> NoCall]
  /\ last = [t \in Thread |-> Result(0, FALSE)]
  /\ calls = Calls

Return(t, r) ==
  /\ pc' = [pc EXCEPT ![t] = "idle"]
  /\ call' = [call EXCEPT ![t] = NoCall]
  /\ last' = [last EXCEPT ![t] = r]

Call(t) ==
  /\ pc[t] = "idle" /\ calls > 0
  /\ \E op \in Ops, arg \in Args : \E exp \in IF op \in S!Compares THEN S!Value ELSE {0} :
       call' = [call EXCEPT ![t] = [op |-> op, cell |-> 0, arg |-> arg, exp |-> exp]]
  /\ pc' = [pc EXCEPT ![t] = "run"]
  /\ calls' = calls - 1
  /\ UNCHANGED <<proxy, last>>

(* An operation that is the same one on the proxy. *)
Apply(t) ==
  LET o == call[t]
  IN  /\ pc[t] = "run"
      /\ proxy' = W!Updated(o.op, proxy, To32(o.arg))
      /\ Return(t, Result(From32(proxy), TRUE))
      /\ UNCHANGED calls

Access(t) == call[t].op \in {"load", "store", "exchange"} /\ Apply(t)
Fetch(t) == call[t].op \in {"add", "sub", "and", "or", "xor", "max", "min"} /\ Apply(t)

(* The comparison of the 32-bit compare_exchange. *)
Matches(o) == proxy = To32(o.exp)

CasSucceeds(t) ==
  LET o == call[t]
  IN  /\ pc[t] = "run" /\ o.op \in S!Compares
      /\ Matches(o)
      /\ proxy' = To32(o.arg)
      /\ Return(t, Result(o.exp, TRUE))
      /\ UNCHANGED calls

(* Mutant: every failure is taken for a difference. *)
NeverDirty(o) == FALSE

(* __actual and __expected agree: only the bits above differ (or nothing   *)
(* does, if the target's compare_exchange failed without a reason).        *)
OnlyDirty(o) == From32(proxy) = o.exp

CasFails(t) ==
  LET o == call[t]
  IN  /\ pc[t] = "run" /\ o.op \in S!Compares
      /\ ~Matches(o) \/ Spurious
      /\ IF OnlyDirty(o)
           THEN pc' = [pc EXCEPT ![t] = "clean"] /\ UNCHANGED <<call, last>>
           ELSE Return(t, Result(From32(proxy), FALSE))
      /\ UNCHANGED <<proxy, calls>>

Mask == W!Trunc(S!Modulus - 1)

(* The fetch_and with the mask.  compare_exchange_weak then returns false, *)
(* the loop of compare_exchange_strong tries again.                        *)
Clean(t) ==
  /\ pc[t] = "clean"
  /\ proxy' = W!Updated("and", proxy, Mask)
  /\ IF call[t].op = "weak"
       THEN Return(t, Result(call[t].exp, FALSE))
       ELSE pc' = [pc EXCEPT ![t] = "run"] /\ UNCHANGED <<call, last>>
  /\ UNCHANGED calls

ThreadStep(t) == Access(t) \/ Fetch(t) \/ CasSucceeds(t) \/ CasFails(t) \/ Clean(t)

Next == \E t \in Thread : Call(t) \/ ThreadStep(t)

Spec == Init /\ [][Next]_vars

(* A thread inside an operation is scheduled, and a compare_exchange that  *)
(* can succeed does not fail for ever.                                     *)
FairSpec ==
  Spec /\ \A t \in Thread : WF_vars(ThreadStep(t)) /\ SF_vars(CasSucceeds(t))

-----------------------------------------------------------------------------
(* The proxy stays a 32-bit value and every local has its type. *)
TypeOK ==
  /\ proxy \in W!Value
  /\ pc \in [Thread -> {"idle", "run", "clean"}]
  /\ \A t \in Thread : (pc[t] = "idle") <=> (call[t] = NoCall)
  /\ \A t \in Thread : last[t].old \in S!Value /\ last[t].ok \in BOOLEAN
  /\ calls \in 0..Calls

(* Every operation returns.  In particular compare_exchange_strong, which  *)
(* goes on as long as the value it finds is the expected one, does not     *)
(* clean the proxy and fail again for ever.                                *)
CallReturns == \A t \in Thread : pc[t] # "idle" ~> pc[t] = "idle"

Abs == INSTANCE AtomicCells
         WITH Bits <- SmallBits, Cell <- {0}, cells <- [c \in {0} |-> From32(proxy)]

(* The proxy is invisible: the operations are those of an atomic of the    *)
(* small type, whatever earlier operations left above it.                  *)
Implements == Abs!CellsSpec

=============================================================================
