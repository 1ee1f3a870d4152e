---------------------------- MODULE PhaseBarrier ----------------------------
(***************************************************************************)
(* What every barrier of the library promises, whatever its layout: the    *)
(* members of a phase arrive, the phase ends at the moment the last member *)
(* has arrived, and a thread that arrived in a phase is released only      *)
(* after that phase has ended.  A member that leaves arrives one last time *)
(* and is not a member of the next phase.                                  *)
(*                                                                         *)
(* The three implementations (packed word, completion function, tree) are  *)
(* shown to implement this specification.                                  *)
(***************************************************************************)
EXTENDS Naturals

CONSTANT Thread        \* the threads that may take part

VARIABLES
  phase,     \* number of phases that have ended
  members,   \* the threads expected in the current phase
  arrived,   \* the members that have arrived in the current phase
  leaving,   \* the arrived members that will not be expected again
  mode,      \* mode[t]: "run" outside the barrier, "held" until release, "gone"
  at         \* at[t]: the phase in which t arrived last

absVars == <<phase, members, arrived, leaving, mode, at>>

AbsInit(M0) ==
  /\ phase = 0
  /\ members = M0
  /\ arrived = {}
  /\ leaving = {}
  /\ mode = [t \in Thread |-> IF t \in M0 THEN "run" ELSE "gone"]
  /\ at = [t \in Thread |-> 0]

(***************************************************************************)
(* The threads of S arrive in one step; those of L (a subset of S) leave.  *)
(***************************************************************************)
Account(S, L) ==
  /\ at' = [t \in Thread |-> IF t \in S THEN phase ELSE at[t]]
  /\ IF arrived \cup S = members
       THEN /\ phase' = phase + 1
            /\ members' = members \ (leaving \cup L)
            /\ arrived' = {}
            /\ leaving' = {}
       ELSE /\ arrived' = arrived \cup S
            /\ leaving' = leaving \cup L
            /\ UNCHANGED <<phase, members>>

AbsArrive(S) ==
  /\ S # {}
  /\ S \subseteq members \ arrived
  /\ \A t \in S : mode[t] = "run"
  /\ mode' = [t \in Thread |-> IF t \in S THEN "held" ELSE mode[t]]
  /\ Account(S, {})

AbsDrop(t) ==
  /\ t \in members \ arrived
  /\ mode[t] = "run"
  /\ mode' = [mode EXCEPT ![t] = "gone"]
  /\ Account({t}, {t})

AbsRelease(t) ==
  /\ mode[t] = "held"
  /\ at[t] < phase
  /\ mode' = [mode EXCEPT ![t] = "run"]
  /\ UNCHANGED <<phase, members, arrived, leaving, at>>

AbsNext ==
  \/ \E S \in SUBSET Thread : AbsArrive(S)
  \/ \E t \in Thread : AbsDrop(t) \/ AbsRelease(t)

AbsSpec == AbsInit(Thread) /\ [][AbsNext]_absVars

=============================================================================
