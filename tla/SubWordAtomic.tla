---------------------------- MODULE SubWordAtomic ----------------------------
(***************************************************************************)
(* Read-modify-write operations as loops of compare_exchange, and the      *)
(* compare_exchange of a value that is part of an aligned 32-bit word.     *)
(*                                                                         *)
(* The word is all that is compared and exchanged: the operation on one    *)
(* value reads, and writes back, its neighbours.  It begins with a guess   *)
(* of the word in which the neighbours are 0.                              *)
(***************************************************************************)
EXTENDS Integers, FiniteSets

CONSTANTS
  Thread,
  Cell,        \* the values that share the word
  Bits,        \* width of a value; the values are unsigned
  Ops,         \* the operations the client uses
  Calls        \* bound: calls the threads make together

A == INSTANCE AtomicOps WITH Signed <- FALSE

CellAssumption == IsFiniteSet(Cell) /\ Cell # {}
BitsAssumption == Bits \in Nat \ {0}
OpsAssumption == Ops \subseteq A!Updates \cup A!Compares
CallsAssumption == Calls \in Nat

VARIABLES
  word,       \* the aligned word, as the values of its parts
  pc,
  call, last, calls,
  expected,   \* expected[t]: __expected of the operation
  guess       \* guess[t]: __old, the word t believes to be there

vars == <<word, pc, call, last, calls, expected, guess>>

NoCall == [op |-> "none"]
Result(old, ok) == [old |-> old, ok |-> ok]
Zeros == [c \in Cell |-> 0]

Init ==
  /\ word \in [Cell -> A!Value]
  /\ pc = [t \in Thread |-> "idle"]
  /\ call = [t \in Thread |-> NoCall]
  /\ last = [t \in Thread |-> Result(0, FALSE)]
  /\ calls = Calls
  /\ expected = [t \in Thread |-> 0]
  /\ guess = [t \in Thread |-> Zeros]

Return(t, r) ==
  /\ pc' = [pc EXCEPT ![t] = "idle"]
  /\ call' = [call EXCEPT ![t] = NoCall]
  /\ last' = [last EXCEPT ![t] = r]
  /\ expected' = [expected EXCEPT ![t] = 0]
  /\ guess' = [guess EXCEPT ![t] = Zeros]

(* __desired, computed anew from __expected before every attempt. *)
Desired(t) ==
  IF call[t].op \in A!Compares THEN call[t].arg
  ELSE A!Updated(call[t].op, expected[t], call[t].arg)

(* __old at first: the expected value in its place. *)
FirstGuess(t, v) == [Zeros EXCEPT ![call[t].cell] = v]

(* The loops of fetch_max and fetch_min end without a compare_exchange     *)
(* when the value found stands: __desired == __val fails.                  *)
Stops(o, v) == o.op \in {"max", "min"} /\ A!Updated(o.op, v, o.arg) # o.arg

(* The operation has found v: done, or an attempt with v expected. *)
With(t, v) ==
  IF Stops(call[t], v) THEN Return(t, Result(v, TRUE))
  ELSE /\ pc' = [pc EXCEPT ![t] = "try"]
       /\ expected' = [expected EXCEPT ![t] = v]
       /\ guess' = [guess EXCEPT ![t] = FirstGuess(t, v)]
       /\ UNCHANGED <<call, last>>

Call(t) ==
  /\ pc[t] = "idle" /\ calls > 0
  /\ \E op \in Ops, c \in Cell, arg \in A!Value :
       \E exp \in IF op \in A!Compares THEN A!Value ELSE {0} :
         call' = [call EXCEPT ![t] = [op |-> op, cell |-> c, arg |-> arg, exp |-> exp]]
  /\ pc' = [pc EXCEPT ![t] = "load"]
  /\ calls' = calls - 1
  /\ UNCHANGED <<word, last, expected, guess>>

(* The relaxed load the loops begin with; compare_exchange has none, it    *)
(* begins with the value its caller expects.                               *)
Load(t) ==
  /\ pc[t] = "load"
  /\ With(t, IF call[t].op \in A!Compares THEN call[t].exp ELSE word[call[t].cell])
  /\ UNCHANGED <<word, calls>>

(* Mutant: the neighbours are written as they were guessed at first. *)
AttemptZeros(t) == FirstGuess(t, Desired(t))

(* __attempt: __old with the desired value in its place. *)
Attempt(t) == [guess[t] EXCEPT ![call[t].cell] = Desired(t)]

Hits(t) == word = guess[t]

CasSucceeds(t) ==
  /\ pc[t] = "try"
  /\ Hits(t)
  /\ word' = Attempt(t)
  /\ Return(t, Result(expected[t], TRUE))
  /\ UNCHANGED calls

(* Mutant: the guess is not replaced by what was found. *)
KeepGuess(t) == guess[t]

NewGuess(t) == word

(* The word differs.  If the value itself is as expected the neighbours    *)
(* were guessed wrong: try again with what was found.  If not, a           *)
(* compare_exchange has failed and a loop goes round.                      *)
CasFails(t) ==
  LET v == word[call[t].cell]
  IN  /\ pc[t] = "try"
      /\ ~Hits(t)
      /\ \/ /\ v = expected[t]
            /\ guess' = [guess EXCEPT ![t] = NewGuess(t)]
            /\ UNCHANGED <<pc, call, last, expected>>
         \/ /\ v # expected[t] /\ call[t].op \in A!Compares
            /\ Return(t, Result(v, FALSE))
         \/ /\ v # expected[t] /\ call[t].op \notin A!Compares
            /\ With(t, v)
      /\ UNCHANGED <<word, calls>>

ThreadStep(t) == Load(t) \/ CasSucceeds(t) \/ CasFails(t)

Next == \E t \in Thread : Call(t) \/ ThreadStep(t)

Spec == Init /\ [][Next]_vars
FairSpec == Spec /\ \A t \in Thread : WF_vars(ThreadStep(t))

-----------------------------------------------------------------------------
(* Every part of the word and every guess stays within its width. *)
TypeOK ==
  /\ word \in [Cell -> A!Value]
  /\ pc \in [Thread -> {"idle", "load", "try"}]
  /\ expected \in [Thread -> A!Value]
  /\ guess \in [Thread -> [Cell -> A!Value]]
  /\ calls \in 0..Calls

(* A loop ends once the other threads stop writing, although every round   *)
(* begins with a guess that is wrong about the neighbours.                 *)
CallReturns == \A t \in Thread : pc[t] # "idle" ~> pc[t] = "idle"

Abs == INSTANCE AtomicCells WITH Signed <- FALSE, cells <- word

(* The loops are atomic operations on the value they name, and leave the   *)
(* neighbours as other threads left them.                                  *)
Implements == Abs!CellsSpec

=============================================================================
