------------------------- MODULE CompletionBarrier -------------------------
(***************************************************************************)
(* The barrier with a completion function, __barrier_base<_CompletionF>:   *)
(* three atomics, __expected, __arrived and the Boolean __phase.           *)
(*                                                                         *)
(* The thread whose fetch_sub takes __arrived to zero reads __expected,    *)
(* runs the completion function, stores __arrived and only then flips      *)
(* __phase: the order that keeps this barrier free of the window the       *)
(* packed one has.  Every access is a step of its own.                     *)
(*                                                                         *)
(* Client: as for the packed barrier; a thread may arrive for others,      *)
(* arrive(n), and drops out no later than in phase MaxPhase - 1.           *)
(***************************************************************************)
EXTENDS BarrierHistory

CONSTANT MaxPhase      \* bound: no participant stays beyond this many phases

PhaseAssumption == MaxPhase \in Nat \ {0}

VARIABLES
  expected,     \* __expected
  count,        \* __arrived
  bit,          \* __phase
  completions,  \* how often the completion function has run
  pc,
  quit,         \* quit[t]: t is in arrive_and_drop
  old,          \* old[t]: __old_phase of the call t is in, then its token
  next,         \* next[t]: __new_expected of a completing thread
  team          \* team[t]: the threads a completing t arrived for

vars == <<expected, count, bit, completions, pc, quit, old, next, team, history>>

Labels == {"idle", "enter", "loaded", "lane", "last", "complete", "store", "flip", "wait", "gone"}

Init ==
  /\ expected = Cardinality(Thread)
  /\ count = Cardinality(Thread)
  /\ bit = FALSE
  /\ completions = 0
  /\ pc = [t \in Thread |-> "idle"]
  /\ quit = [t \in Thread |-> FALSE]
  /\ old = [t \in Thread |-> FALSE]
  /\ next = [t \in Thread |-> 0]
  /\ team = [t \in Thread |-> {}]
  /\ InitHistory

Goto(t, from, to) == pc[t] = from /\ pc' = [pc EXCEPT ![t] = to]

(* A call of arrive ... *)
Call(t) ==
  /\ Goto(t, "idle", "enter")
  /\ phase + 1 < MaxPhase
  /\ UNCHANGED <<expected, count, bit, completions, quit, old, next, team, history>>

(* ... or of arrive_and_drop, which lowers __expected first. *)
DropExpected(t) ==
  /\ Goto(t, "idle", "enter")
  /\ quit' = [quit EXCEPT ![t] = TRUE]
  /\ expected' = expected - 1
  /\ UNCHANGED <<count, bit, completions, old, next, team, history>>

LoadPhase(t) ==
  /\ Goto(t, "enter", "loaded")
  /\ old' = [old EXCEPT ![t] = bit]
  /\ UNCHANGED <<expected, count, bit, completions, quit, next, team, history>>

(* Where a call ends: arrive returns a token, arrive_and_drop none. *)
After(t) == IF quit[t] THEN "gone" ELSE "wait"

(* if(0 == __result) *)
IsLast(result) == result = 0

(* __arrived.fetch_sub(|S|): t arrives for S and tests the result. *)
FetchSub(t, S) ==
  LET result == count - Cardinality(S)
  IN  /\ pc[t] = "loaded" /\ t \in S
      /\ \A u \in S \ {t} : pc[u] = "idle" /\ ~quit[t]
      /\ count' = result
      /\ Record(S, IF quit[t] THEN S ELSE {}, IsLast(result))
      /\ IF IsLast(result)
           THEN /\ team' = [team EXCEPT ![t] = S]
                /\ pc' = [u \in Thread |-> IF u = t THEN "last"
                                           ELSE IF u \in S THEN "lane" ELSE pc[u]]
           ELSE /\ team' = team
                /\ pc' = [u \in Thread |-> IF u \in S THEN After(t) ELSE pc[u]]
      /\ old' = [u \in Thread |-> IF u \in S THEN old[t] ELSE old[u]]
      /\ UNCHANGED <<expected, bit, completions, quit, next>>

LoadExpected(t) ==
  /\ Goto(t, "last", "complete")
  /\ next' = [next EXCEPT ![t] = expected]
  /\ UNCHANGED <<expected, count, bit, completions, quit, old, team, history>>

(* How often a completing thread calls the completion function. *)
Runs(t) == 1

(* __completion() *)
RunCompletion(t) ==
  /\ Goto(t, "complete", "store")
  /\ completions' = completions + Runs(t)
  /\ UNCHANGED <<expected, count, bit, quit, old, next, team, history>>

(* Mutant: __arrived is not lowered for a thread that dropped. *)
ReloadStale(t) == IF quit[t] THEN next[t] + 1 ELSE next[t]

(* The value stored to __arrived. *)
ReloadValue(t) == next[t]

StoreArrived(t) ==
  /\ Goto(t, "store", "flip")
  /\ count' = ReloadValue(t)
  /\ UNCHANGED <<expected, bit, completions, quit, old, next, team, history>>

(* Mutant: the phase is set instead of flipped. *)
SetPhase(t) == TRUE

(* The value stored to __phase. *)
FlippedPhase(t) == ~old[t]

(* __phase.store(!__old_phase), notify_all and the return. *)
FlipPhase(t) ==
  /\ pc[t] = "flip"
  /\ bit' = FlippedPhase(t)
  /\ pc' = [u \in Thread |-> IF u \in team[t] THEN After(t) ELSE pc[u]]
  /\ UNCHANGED <<expected, count, completions, quit, old, next, team, history>>

(* A poll of wait, __try_wait or __try_wait_parity that succeeds. *)
WaitToken(t) ==
  /\ Goto(t, "wait", "idle")
  /\ bit # old[t]
  /\ UNCHANGED <<expected, count, bit, completions, quit, old, next, team, history>>

(* Every participant has dropped: the barrier may be destroyed. *)
Finished ==
  /\ \A t \in Thread : pc[t] = "gone"
  /\ UNCHANGED vars

ThreadStep(t) ==
  \/ Call(t)
  \/ DropExpected(t)
  \/ LoadPhase(t)
  \/ \E S \in SUBSET Thread : FetchSub(t, S)
  \/ LoadExpected(t)
  \/ RunCompletion(t)
  \/ StoreArrived(t)
  \/ FlipPhase(t)
  \/ WaitToken(t)

Next == (\E t \in Thread : ThreadStep(t)) \/ Finished

Spec == Init /\ [][Next]_vars
FairSpec == Spec /\ \A t \in Thread : WF_vars(ThreadStep(t))

-----------------------------------------------------------------------------
(* The two counts never become negative, and every local has its type. *)
TypeOK ==
  /\ expected \in Nat /\ count \in Nat /\ bit \in BOOLEAN /\ completions \in Nat
  /\ pc \in [Thread -> Labels]
  /\ quit \in [Thread -> BOOLEAN] /\ old \in [Thread -> BOOLEAN]
  /\ next \in [Thread -> Nat] /\ team \in [Thread -> SUBSET Thread]
  /\ HistoryTypeOK

Completing == {t \in Thread : pc[t] \in {"last", "complete", "store", "flip"}}
Odd(p) == p % 2 = 1

(* The debug assertion __result >= 0 of arrive, for every arrival a client *)
(* may make, and more: while nobody completes, __arrived is the number of  *)
(* members that are missing.                                               *)
CountsMissing ==
  /\ Completing = {} => count = Cardinality(members) - Cardinality(arrived)
  /\ \A t \in Completing : pc[t] = "flip" => count = Cardinality(members)

(* From the last arrival of a phase to the flip of __phase one thread has   *)
(* the barrier to itself: nobody has arrived in the next phase, nobody's    *)
(* token is accepted, and every other thread is inside the barrier or gone. *)
CompletionAlone ==
  Completing # {} =>
    /\ \E t \in Thread : Completing = {t}
    /\ arrived = {}
    /\ bit = Odd(phase - 1)
    /\ \A t \in Thread : pc[t] \in {"wait", "lane", "gone"} \cup {pc[u] : u \in Completing}

(* Where each thread stands, which is what the two invariants above rest   *)
(* on.  __expected counts the threads that have not dropped; __phase is    *)
(* the parity of the phase, and so is every token; a thread that runs the  *)
(* completion function holds the next value of __arrived.                  *)
Kept == {t \in Thread : ~quit[t]}

Standing(t) ==
  /\ pc[t] \in {"idle", "enter", "loaded"} => t \in members \ arrived
  /\ pc[t] \in {"idle", "wait", "lane"} => ~quit[t]
  /\ pc[t] = "loaded" => (old[t] <=> bit)
  /\ pc[t] = "wait" => at[t] = phase - (IF t \in arrived THEN 0 ELSE 1)
  /\ pc[t] = "gone" => quit[t] /\ (t \in members => t \in arrived)
  /\ pc[t] = "lane" => at[t] = phase - 1 /\ \E u \in Completing : t \in team[u]
  /\ pc[t] \in {"wait", "lane"} \/ t \in Completing => (old[t] <=> Odd(at[t]))

Completion(t) ==
  /\ at[t] = phase - 1
  /\ t \in team[t]
  /\ \A u \in team[t] \ {t} : pc[u] = "lane" /\ ~quit[t]
  /\ t \in members => ~quit[t]
  /\ completions = IF pc[t] \in {"last", "complete"} THEN phase - 1 ELSE phase
  /\ pc[t] \in {"complete", "store"} => next[t] = expected

Roles ==
  /\ arrived \subseteq members /\ Kept \subseteq members
  /\ leaving = arrived \ Kept
  /\ expected = Cardinality(Kept)
  /\ Completing = {} => completions = phase /\ (bit <=> Odd(phase))
  /\ \A t \in Thread : Standing(t)
  /\ \A t \in Completing : Completion(t)

CompletionCounts == TypeOK /\ CountsMissing /\ CompletionAlone /\ Roles

(* A token is accepted only after the completion function of its phase     *)
(* has run, which it does once per phase.                                  *)
ReleasedAfterCompletion ==
  [][\A t \in Thread : pc[t] = "wait" /\ pc'[t] = "idle" =>
        at[t] < phase /\ completions = phase]_vars

(* Every participant that holds a token is released. *)
WaitReturns == \A t \in Thread : pc[t] = "wait" ~> pc[t] # "wait"

ModeOf(t) == IF pc[t] \in {"idle", "enter", "loaded"} THEN "run"
             ELSE IF quit[t] THEN "gone" ELSE "held"
Abs == INSTANCE PhaseBarrier WITH mode <- [t \in Thread |-> ModeOf(t)]

(* The barrier with a completion function implements the abstract barrier: *)
(* a phase ends at the fetch_sub that takes __arrived to zero.             *)
Implements == Abs!AbsSpec

=============================================================================
