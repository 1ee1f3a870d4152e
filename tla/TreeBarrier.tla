----------------------------- MODULE TreeBarrier -----------------------------
(***************************************************************************)
(* The tree barrier, __barrier_base in builds without                      *)
(* _LIBCUDACXX_HAS_NO_TREE_BARRIER.  Arrivals pair up on tickets: the      *)
(* first of two threads at a node marks it half and returns, the second    *)
(* marks it full and climbs one round.  The thread that reaches the root   *)
(* runs the completion function, adjusts __expected and advances the       *)
(* phase.  Ticket and phase values are bytes that only grow, modulo 2^8.   *)
(*                                                                         *)
(* A search for a free node starts at 0 or, with Favorite, at the node the *)
(* thread used last in any tree barrier (a thread_local index).            *)
(*                                                                         *)
(* Client: as for the packed barrier.  arrive(n) arrives n times in turn;  *)
(* here t arrives for the threads of a set, itself last.                   *)
(***************************************************************************)
EXTENDS BarrierHistory, Integers

CONSTANTS
  MaxPhase,     \* bound: no participant stays beyond this many phases
  Byte,         \* 2^8, the range of phases and tickets
  Favorite,     \* thread_local favorite index, or always 0
  StartAt       \* the favorite indices threads may bring from other barriers

PhaseAssumption == MaxPhase \in Nat \ {0}
ByteAssumption == Byte \in Nat /\ Byte % 4 = 0 /\ Byte > 0
FavoriteAssumption == Favorite \in BOOLEAN /\ StartAt \in SUBSET Nat /\ StartAt # {}

N == Cardinality(Thread)
Size == (N + 1) \div 2                       \* __state.size()
Rounds == 0..(N - 1)                         \* rounds that can be reached
Node == 0..(Size - 1)

VARIABLES
  expected, adjustment,   \* __expected, __expected_adjustment
  ph,                     \* __phase
  ticket,                 \* ticket[i][r]: __state[i].__tickets[r].__phase
  favorite,               \* favorite[t]: __libcpp_thread_favorite_barrier_index
  completions,            \* how often the completion function has run
  pc, quit,
  todo,                   \* todo[t]: the threads t has still to arrive for
  team,                   \* team[t]: all the threads of this call
  old,                    \* old[t]: __old_phase, then the token
  climb                   \* climb[t]: __current, __current_expected, __last_node, __round

vars == <<expected, adjustment, ph, ticket, favorite, completions, pc, quit, todo, team,
          old, climb, history>>

Labels == {"idle", "enter", "start", "try", "second", "lane", "landed",
           "complete", "adjust", "reset", "advance", "wait", "gone"}

Step(p, n) == (p + n) % Byte

Init ==
  /\ expected = N /\ adjustment = 0 /\ ph = 0
  /\ ticket = [i \in Node |-> [r \in Rounds |-> 0]]
  /\ favorite \in [Thread -> StartAt]
  /\ completions = 0
  /\ pc = [t \in Thread |-> "idle"]
  /\ quit = [t \in Thread |-> FALSE]
  /\ todo = [t \in Thread |-> {}]
  /\ team = [t \in Thread |-> {}]
  /\ old = [t \in Thread |-> 0]
  /\ climb = [t \in Thread |-> [cur |-> 0, exp |-> 0, last |-> 0, round |-> 0]]
  /\ InitHistory

-----------------------------------------------------------------------------
(* A call of arrive(|S|) by t. *)
Call(t, S) ==
  /\ t \in S /\ \A u \in S : pc[u] = "idle"
  /\ phase + 1 < MaxPhase
  /\ pc' = [u \in Thread |-> IF u = t THEN "enter" ELSE IF u \in S THEN "lane" ELSE pc[u]]
  /\ todo' = [todo EXCEPT ![t] = S]
  /\ team' = [team EXCEPT ![t] = S]
  /\ UNCHANGED <<expected, adjustment, ph, ticket, favorite, completions, quit, old, climb, history>>

DropAmount(t) == 1

(* arrive_and_drop announces that one thread fewer is expected, then arrives. *)
CallDrop(t) ==
  /\ pc[t] = "idle"
  /\ pc' = [pc EXCEPT ![t] = "enter"]
  /\ quit' = [quit EXCEPT ![t] = TRUE]
  /\ adjustment' = adjustment - DropAmount(t)
  /\ todo' = [todo EXCEPT ![t] = {t}]
  /\ team' = [team EXCEPT ![t] = {t}]
  /\ UNCHANGED <<expected, ph, ticket, favorite, completions, old, climb, history>>

LoadPhase(t) ==
  /\ pc[t] = "enter"
  /\ pc' = [pc EXCEPT ![t] = "start"]
  /\ old' = [old EXCEPT ![t] = ph]
  /\ UNCHANGED <<expected, adjustment, ph, ticket, favorite, completions, quit, todo, team,
                 climb, history>>

(* The index where round 0 looks next: past the end it restarts at 0. *)
Wrap(i, exp) == IF Favorite /\ i >= exp THEN 0 ELSE i

(* The thread t is arriving for: itself last. *)
Served(t) == IF todo[t] = {t} THEN t ELSE CHOOSE u \in todo[t] : u # t

Token(t) == old[t]

(* The call of t is over: every thread of the team goes its way. *)
Return(t) ==
  /\ pc' = [u \in Thread |-> IF u \in team[t] THEN IF quit[t] THEN "gone" ELSE "wait" ELSE pc[u]]
  /\ old' = [u \in Thread |-> IF u \in team[t] THEN Token(t) ELSE old[u]]

(* One arrival of the call is done: go on with the next, or return. *)
Arrived(t) ==
  LET u == Served(t)
  IN  /\ todo' = [todo EXCEPT ![t] = @ \ {u}]
      /\ IF u = t THEN Return(t)
         ELSE pc' = [pc EXCEPT ![t] = "start", ![u] = "landed"] /\ old' = old

Note(t, completes) == Record({Served(t)}, IF quit[t] THEN {t} ELSE {}, completes)

LastNode(exp) == exp \div 2

(* Entering __arrive: the locals of the climb, and the test for a barrier  *)
(* of one thread.                                                          *)
StartClimb(t) ==
  LET first == IF Favorite THEN Wrap(favorite[t], expected) ELSE 0
  IN  /\ pc[t] = "start"
      /\ IF expected = 1
           THEN /\ pc' = [pc EXCEPT ![t] = "complete"]
                /\ Note(t, TRUE)
                /\ UNCHANGED <<climb, favorite>>
           ELSE /\ pc' = [pc EXCEPT ![t] = "try"]
                /\ climb' = [climb EXCEPT ![t] =
                       [cur |-> first, exp |-> expected, last |-> LastNode(expected), round |-> 0]]
                /\ favorite' = [favorite EXCEPT ![t] = IF Favorite THEN first ELSE @]
                /\ UNCHANGED history
      /\ UNCHANGED <<expected, adjustment, ph, ticket, completions, quit, todo, team, old>>

(* Mutant: the odd node at the end of a round is lost. *)
HalvedDown(exp) == exp \div 2

(* The number of nodes of a round is that of the arrivals of the next. *)
Halved(exp) == (exp \div 2) + (exp % 2)

(* i & ~(1 << r) *)
ClearBit(i, r) == IF (i \div 2^r) % 2 = 1 THEN i - 2^r ELSE i

(* The node is full: climb one round, or have reached the root. *)
Climb(t) ==
  LET c == climb[t]
      e == Halved(c.exp)
  IN  /\ climb' = [climb EXCEPT ![t] =
            [cur |-> ClearBit(c.cur, c.round), exp |-> e,
             last |-> ClearBit(c.last, c.round), round |-> c.round + 1]]
      /\ IF e = 1
           THEN /\ pc' = [pc EXCEPT ![t] = "complete"]
                /\ Note(t, TRUE)
           ELSE /\ pc' = [pc EXCEPT ![t] = "try"]
                /\ UNCHANGED history
      /\ UNCHANGED <<todo, old, favorite>>

(* The node is taken: look at the next one. *)
Advance(t) ==
  LET c == climb[t]
      i == IF c.round = 0 THEN Wrap(c.cur + 1, c.exp) ELSE c.cur + 1
  IN  /\ climb' = [climb EXCEPT ![t].cur = i]
      /\ favorite' = [favorite EXCEPT ![t] = IF Favorite /\ c.round = 0 THEN i ELSE @]
      /\ pc' = [pc EXCEPT ![t] = "try"]
      /\ UNCHANGED <<todo, old, history>>

At(t) == ticket[climb[t].cur][climb[t].round]
SetTicket(t, v) == ticket' = [ticket EXCEPT ![climb[t].cur][climb[t].round] = v]

(* Mutant: the last node of a round is taken to be odd. *)
SingleAnyParity(c) == c.cur = c.last

(* The odd node at the end of a round, which one thread fills alone. *)
Single(c) == c.cur = c.last /\ c.exp % 2 = 1

(* The first compare_exchange at a node. *)
TryTicket(t) ==
  LET c == climb[t]
  IN  /\ pc[t] = "try"
      /\ c.cur \in Node
      /\ \/ /\ At(t) = old[t] /\ Single(c)
            /\ SetTicket(t, Step(old[t], 2)) /\ Climb(t)
         \/ /\ At(t) = old[t] /\ ~Single(c)
            /\ SetTicket(t, Step(old[t], 1)) /\ Note(t, FALSE) /\ Arrived(t) /\ UNCHANGED <<climb, favorite>>
         \/ /\ At(t) = Step(old[t], 1) /\ ~Single(c)
            /\ pc' = [pc EXCEPT ![t] = "second"]
            /\ UNCHANGED <<ticket, climb, favorite, todo, old, history>>
         \/ /\ At(t) # old[t] /\ (Single(c) \/ At(t) # Step(old[t], 1))
            /\ Advance(t) /\ UNCHANGED ticket
      /\ UNCHANGED <<expected, adjustment, ph, completions, quit, team>>

(* The second compare_exchange, half to full. *)
SecondTicket(t) ==
  /\ pc[t] = "second"
  /\ \/ /\ At(t) = Step(old[t], 1)
        /\ SetTicket(t, Step(old[t], 2)) /\ Climb(t)
     \/ /\ At(t) # Step(old[t], 1)
        /\ Advance(t) /\ UNCHANGED ticket
  /\ UNCHANGED <<expected, adjustment, ph, completions, quit, team>>

RunCompletion(t) ==
  /\ pc[t] = "complete"
  /\ pc' = [pc EXCEPT ![t] = "adjust"]
  /\ completions' = completions + 1
  /\ UNCHANGED <<expected, adjustment, ph, ticket, favorite, quit, todo, team, old, climb, history>>

AdjustExpected(t) ==
  /\ pc[t] = "adjust"
  /\ pc' = [pc EXCEPT ![t] = "reset"]
  /\ expected' = expected + adjustment
  /\ UNCHANGED <<adjustment, ph, ticket, favorite, completions, quit, todo, team, old, climb, history>>

ResetValue(t) == 0

ResetAdjustment(t) ==
  /\ pc[t] = "reset"
  /\ pc' = [pc EXCEPT ![t] = "advance"]
  /\ adjustment' = ResetValue(t)
  /\ UNCHANGED <<expected, ph, ticket, favorite, completions, quit, todo, team, old, climb, history>>

AdvancePhase(t) ==
  /\ pc[t] = "advance"
  /\ ph' = Step(old[t], 2)
  /\ Arrived(t)
  /\ UNCHANGED <<expected, adjustment, ticket, favorite, completions, quit, team, climb, history>>

(* A successful poll of wait. *)
WaitToken(t) ==
  /\ pc[t] = "wait"
  /\ ph # old[t]
  /\ pc' = [pc EXCEPT ![t] = "idle"]
  /\ UNCHANGED <<expected, adjustment, ph, ticket, favorite, completions, quit, todo, team, old,
                 climb, history>>

Finished ==
  /\ \A t \in Thread : pc[t] = "gone"
  /\ UNCHANGED vars

ThreadStep(t) ==
  \/ \E S \in SUBSET Thread : Call(t, S)
  \/ CallDrop(t)
  \/ LoadPhase(t)
  \/ StartClimb(t)
  \/ TryTicket(t)
  \/ SecondTicket(t)
  \/ RunCompletion(t)
  \/ AdjustExpected(t)
  \/ ResetAdjustment(t)
  \/ AdvancePhase(t)
  \/ WaitToken(t)

Next == (\E t \in Thread : ThreadStep(t)) \/ Finished

Spec == Init /\ [][Next]_vars
FairSpec == Spec /\ \A t \in Thread : WF_vars(ThreadStep(t))

-----------------------------------------------------------------------------
(* Phases and tickets stay bytes, and no thread drops out twice. *)
TypeOK ==
  /\ expected \in 0..N /\ -adjustment \in 0..N /\ ph \in 0..(Byte - 1)
  /\ ticket \in [Node -> [Rounds -> 0..(Byte - 1)]]
  /\ pc \in [Thread -> Labels]
  /\ HistoryTypeOK

(* The search for a free node stays inside the tree:                       *)
(* assert(__current <= __last_node) of __arrive, and the index inside __state. *)
InTree ==
  \A t \in Thread : pc[t] \in {"try", "second"} =>
    climb[t].cur <= climb[t].last /\ climb[t].cur \in Node

(* Above round 0 a thread never finds its node taken: the last assertion   *)
(* of the loop, which lets the search move on in round 0 only.             *)
SearchOnlyBelow ==
  \A t \in Thread : pc[t] = "try" /\ climb[t].cur \in Node /\ climb[t].round > 0 =>
    \/ At(t) = old[t]
    \/ At(t) = Step(old[t], 1) /\ ~Single(climb[t])

(* One thread reaches the root per phase, after everyone else arrived. *)
RootAlone ==
  \A t \in Thread : pc[t] \in {"complete", "adjust", "reset", "advance"} =>
    /\ arrived = {}
    /\ \A u \in Thread \ {t} : pc[u] \in {"wait", "landed", "gone"}

(* A token is accepted only after its phase's completion function ran. *)
ReleasedAfterCompletion ==
  [][\A t \in Thread : pc[t] = "wait" /\ pc'[t] = "idle" =>
        at[t] < phase /\ completions = phase]_vars

(* Every thread that waits for its token is released. *)
WaitReturns == \A t \in Thread : pc[t] = "wait" ~> pc[t] # "wait"

ModeOf(t) == IF pc[t] \in {"idle", "enter", "start", "try", "second", "lane"} THEN "run"
             ELSE IF quit[t] THEN "gone" ELSE "held"
Abs == INSTANCE PhaseBarrier WITH mode <- [t \in Thread |-> ModeOf(t)]

(* The tree implements the abstract barrier: the arrival of the thread     *)
(* that reaches the root is the one that ends the phase.                   *)
Implements == Abs!AbsSpec

=============================================================================
