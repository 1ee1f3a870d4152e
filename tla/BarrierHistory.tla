--------------------------- MODULE BarrierHistory ---------------------------
(***************************************************************************)
(* The history variables the barrier modules share: what PhaseBarrier      *)
(* talks about, kept up to date from the tests the code itself makes.      *)
(***************************************************************************)
EXTENDS Naturals, FiniteSets

CONSTANT Thread    \* the participants; a barrier is constructed with their number

ASSUME ThreadAssumption == IsFiniteSet(Thread) /\ Thread # {}

VARIABLES
  phase,     \* number of phases that have ended
  members,   \* the threads expected in the current phase
  arrived,   \* the members that have arrived in the current phase
  leaving,   \* the arrived members that dropped
  at         \* at[t]: the phase in which t arrived last

history == <<phase, members, arrived, leaving, at>>

InitHistory ==
  /\ phase = 0
  /\ members = Thread
  /\ arrived = {}
  /\ leaving = {}
  /\ at = [t \in Thread |-> 0]

HistoryTypeOK ==
  /\ phase \in Nat
  /\ members \in SUBSET Thread
  /\ arrived \in SUBSET Thread
  /\ leaving \in SUBSET Thread
  /\ at \in [Thread -> Nat]

(* S arrive and L of them leave; completes is the verdict of the code on   *)
(* whether this arrival ends the phase.                                    *)
Record(S, L, completes) ==
  /\ at' = [t \in Thread |-> IF t \in S THEN phase ELSE at[t]]
  /\ IF completes
       THEN /\ phase' = phase + 1
            /\ members' = members \ (leaving \cup L)
            /\ arrived' = {}
            /\ leaving' = {}
       ELSE /\ arrived' = arrived \cup S
            /\ leaving' = leaving \cup L
            /\ UNCHANGED <<phase, members>>

=============================================================================
