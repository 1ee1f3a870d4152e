----------------------------- MODULE MCBarriers -----------------------------
(***************************************************************************)
(* The three barriers, checked in one run: "which" says which of them the  *)
(* threads of a behaviour use.  The state of the packed barrier has the    *)
(* names of its module; c... is the state of the barrier with a            *)
(* completion function, t... that of the tree barrier.                     *)
(***************************************************************************)
EXTENDS PackedBarrier

CONSTANT TreeByte     \* 2^8 of the tree barrier: the range of its phases and tickets

VARIABLES
  which,
  cExpected, cCount, cBit, cCompletions, cPc, cQuit, cOld, cNext, cTeam,
  cPhase, cMembers, cArrived, cLeaving, cAt,
  tExpected, tAdjustment, tPh, tTicket, tFavorite, tCompletions, tPc, tQuit, tTodo, tTeam,
  tOld, tClimb, tPhase, tMembers, tArrived, tLeaving, tAt

cVars == <<cExpected, cCount, cBit, cCompletions, cPc, cQuit, cOld, cNext, cTeam,
           cPhase, cMembers, cArrived, cLeaving, cAt>>
tVars == <<tExpected, tAdjustment, tPh, tTicket, tFavorite, tCompletions, tPc, tQuit, tTodo, tTeam,
           tOld, tClimb, tPhase, tMembers, tArrived, tLeaving, tAt>>
allVars == <<which, vars, cVars, tVars>>

C == INSTANCE CompletionBarrier
       WITH expected <- cExpected, count <- cCount, bit <- cBit, completions <- cCompletions,
            pc <- cPc, quit <- cQuit, old <- cOld, next <- cNext, team <- cTeam,
            phase <- cPhase, members <- cMembers, arrived <- cArrived, leaving <- cLeaving, at <- cAt

T == INSTANCE TreeBarrier
       WITH Byte <- TreeByte, Favorite <- FALSE, StartAt <- {0},
            expected <- tExpected, adjustment <- tAdjustment, ph <- tPh, ticket <- tTicket,
            favorite <- tFavorite, completions <- tCompletions, pc <- tPc, quit <- tQuit,
            todo <- tTodo, team <- tTeam, old <- tOld, climb <- tClimb,
            phase <- tPhase, members <- tMembers, arrived <- tArrived, leaving <- tLeaving, at <- tAt

ASSUME TreeByteAssumption == T!ByteAssumption /\ T!FavoriteAssumption

BarriersInit == which \in {"packed", "completion", "tree"} /\ Init /\ C!Init /\ T!Init

BarrierStep(t) ==
  /\ \/ which = "packed" /\ ThreadStep(t) /\ UNCHANGED <<cVars, tVars>>
     \/ which = "completion" /\ C!ThreadStep(t) /\ UNCHANGED <<vars, tVars>>
     \/ which = "tree" /\ T!ThreadStep(t) /\ UNCHANGED <<vars, cVars>>
  /\ UNCHANGED which

BarriersNext ==
  \/ \E t \in Thread : BarrierStep(t)
  \/ /\ which = "packed" /\ UNCHANGED <<which, cVars, tVars>>
     /\ Finished \/ \E o \in Observer : WatchStart(o) \/ WatchEnd(o)
  \/ which = "completion" /\ C!Finished /\ UNCHANGED allVars
  \/ which = "tree" /\ T!Finished /\ UNCHANGED allVars

BarriersSpec ==
  BarriersInit /\ [][BarriersNext]_allVars /\ \A t \in Thread : WF_allVars(BarrierStep(t))

-----------------------------------------------------------------------------
(* The debug assertion __result >= 0 of arrive, and more: while nobody     *)
(* completes, __arrived of the barrier with a completion function is the   *)
(* number of members that are missing, and from the last arrival of a      *)
(* phase to the flip of __phase one thread has the barrier to itself.      *)
CompletionCounts == C!CompletionCounts

(* assert(__current <= __last_node) of the tree barrier's __arrive, and    *)
(* more: the search for a free node stays inside __state, above round 0 no *)
(* thread finds its node taken, and one thread reaches the root per phase, *)
(* after everyone else arrived, whatever tickets earlier phases left.      *)
TreeClimbed == T!TypeOK /\ T!InTree /\ T!SearchOnlyBelow /\ T!RootAlone

Waiting(t) == pc[t] = Wait \/ cPc[t] = "wait" \/ tPc[t] = "wait"

(* Every thread that holds a token is released, by each of the barriers:   *)
(* no phase is left without an end, whoever drops out when.                *)
AllReturn == \A t \in Thread : Waiting(t) ~> ~Waiting(t)

(* The barrier with a completion function and the tree barrier implement   *)
(* the abstract barrier: a phase ends at its last arrival and no other,    *)
(* and no token is accepted before the completion function of its phase    *)
(* has run, which it does once per phase.                                  *)
OthersImplement ==
  /\ C!Implements /\ C!ReleasedAfterCompletion
  /\ T!Implements /\ T!ReleasedAfterCompletion
=============================================================================
