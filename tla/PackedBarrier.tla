---------------------------- MODULE PackedBarrier ---------------------------
(***************************************************************************)
(* The barrier without completion function, __barrier_base<                *)
(* __empty_completion>, and the block-scope barrier built on it.           *)
(*                                                                         *)
(* The whole barrier is one 64-bit word: the upper half is the phase bit   *)
(* above a 31-bit arrival counter, the lower half counts up from           *)
(* 2^31 - expected.  The arrival counter starts at 2^31 - expected too, so *)
(* the last arrival carries into the phase bit; the thread that caused the *)
(* carry then adds the lower half to the upper one with a second           *)
(* fetch_add.  Between the two the new phase is visible to every waiter    *)
(* and the counter has not been reloaded: the window this module is about. *)
(*                                                                         *)
(* Client: each expected arrival belongs to one thread, which waits for    *)
(* its token before it arrives again, and which drops out no later than in *)
(* phase MaxPhase - 1.  Several threads may arrive in one call: the leader *)
(* lane of a warp arrives for all its lanes, which stay in the call until  *)
(* the leader's token is broadcast.                                        *)
(***************************************************************************)
EXTENDS BarrierHistory

CONSTANTS
  Observer,    \* threads that only call wait_parity
  M,           \* 2^31: the range of the arrival counter
  Quiesce,     \* TRUE: clients do not start an arrival while a completing
               \* arrive_and_drop has not returned
  MaxPhase     \* bound: no participant stays beyond this many phases

ASSUME RangeAssumption == M \in Nat /\ Cardinality(Thread) < M
ASSUME PhaseAssumption == MaxPhase \in Nat \ {0}
ASSUME QuiesceAssumption == Quiesce \in BOOLEAN

VARIABLES
  word,      \* __phase_arrived_expected, as its two halves
  pc,        \* where each participant is
  token,     \* the arrival_token each participant holds: its phase bit
  snap,      \* a completing thread's  __old & __expected_mask
  team,      \* the lanes a completing leader arrived for
  watch      \* watch[o]: 0, or 1 + the phase whose parity o waits on

vars == <<word, pc, token, snap, team, watch, phase, members, arrived, leaving, at>>

Idle == "idle"           \* outside the barrier
Reload == "reload"       \* between the two fetch_adds of arrive
Lane == "lane"           \* in __shfl_sync, waiting for the leader
Wait == "wait"           \* holds a token
Drop == "drop"           \* between the fetch_add of arrive_and_drop and its arrive
DropReload == "dropreload"
Gone == "gone"

Half == 2 * M

(* fetch_add of dh to the upper and dl to the lower half of the word. *)
FetchAdd(w, dh, dl) ==
  [hi |-> (w.hi + dh + ((w.lo + dl) \div Half)) % Half,
   lo |-> (w.lo + dl) % Half]

PhaseBit(w) == IF w.hi >= M THEN 1 ELSE 0

InitWord(count) == [hi |-> M - count, lo |-> M - count]

Init ==
  /\ word = InitWord(Cardinality(Thread))
  /\ pc = [t \in Thread |-> Idle]
  /\ token = [t \in Thread |-> 0]
  /\ snap = [t \in Thread |-> 0]
  /\ team = [t \in Thread |-> {}]
  /\ watch = [o \in Observer |-> 0]
  /\ InitHistory

-----------------------------------------------------------------------------
(* The word after the first fetch_add of arrive(|S|). *)
Added(S) == FetchAdd(word, Cardinality(S), 0)

(* The test of arrive: has the fetch_add changed the phase bit? *)
Completes(S) == PhaseBit(word) # PhaseBit(Added(S))

FetchAddArrived(S, L) ==
  /\ word' = Added(S)
  /\ Record(S, L, Completes(S))

(* The client's side of a new arrival. *)
MayArrive(t) == pc[t] = Idle /\ (Quiesce => \A u \in Thread : pc[u] # DropReload)

(* The token an arrival returns: the phase bit of __old. *)
TokenOf(S) == PhaseBit(word)

(* arrive(|S|): t arrives for the threads of S. *)
Arrive(t, S) ==
  /\ t \in S
  /\ \A u \in S : MayArrive(u)
  /\ phase + 1 < MaxPhase
  /\ FetchAddArrived(S, {})
  /\ token' = [u \in Thread |-> IF u \in S THEN TokenOf(S) ELSE token[u]]
  /\ \/ /\ ~Completes(S)
        /\ pc' = [u \in Thread |-> IF u \in S THEN Wait ELSE pc[u]]
        /\ UNCHANGED <<snap, team>>
     \/ /\ Completes(S)
        /\ pc' = [u \in Thread |-> IF u = t THEN Reload
                                   ELSE IF u \in S THEN Lane ELSE pc[u]]
        /\ snap' = [snap EXCEPT ![t] = word.lo]
        /\ team' = [team EXCEPT ![t] = S]
  /\ UNCHANGED watch

(* Mutant: the expected count is read again instead of taken from __old. *)
AmountStale(t) == word.lo

(* (__old & __expected_mask) << 32, in units of the upper half. *)
ReloadAmount(t) == snap[t]

(* The lanes that return from arrive together with t. *)
Returning(t) == team[t]

(* The second fetch_add of arrive; the token is returned to every lane. *)
ArriveReload(t) ==
  /\ pc[t] = Reload
  /\ word' = FetchAdd(word, ReloadAmount(t), 0)
  /\ pc' = [u \in Thread |-> IF u \in Returning(t) THEN Wait ELSE pc[u]]
  /\ team' = [team EXCEPT ![t] = {}]
  /\ UNCHANGED <<token, snap, watch, history>>

(* A poll of wait, wait_parity or a (timed) try_wait that succeeds; one    *)
(* that fails changes nothing.                                             *)
WaitToken(t) ==
  /\ pc[t] = Wait
  /\ PhaseBit(word) # token[t]
  /\ pc' = [pc EXCEPT ![t] = Idle]
  /\ UNCHANGED <<word, token, snap, team, watch, history>>

(* Mutant: arrive_and_drop forgets to lower the expected count. *)
DropExpectedForgotten(t) ==
  /\ MayArrive(t)
  /\ pc' = [pc EXCEPT ![t] = Drop]
  /\ UNCHANGED <<word, token, snap, team, watch, history>>

(* arrive_and_drop: one fewer thread is expected in later phases ... *)
DropExpected(t) ==
  /\ MayArrive(t)
  /\ word' = FetchAdd(word, 0, 1)
  /\ pc' = [pc EXCEPT ![t] = Drop]
  /\ UNCHANGED <<token, snap, team, watch, history>>

(* ... and its arrive(1), whose token is discarded. *)
DropArrive(t) ==
  /\ pc[t] = Drop
  /\ FetchAddArrived({t}, {t})
  /\ \/ /\ ~Completes({t})
        /\ pc' = [pc EXCEPT ![t] = Gone]
        /\ UNCHANGED snap
     \/ /\ Completes({t})
        /\ pc' = [pc EXCEPT ![t] = DropReload]
        /\ snap' = [snap EXCEPT ![t] = word.lo]
  /\ UNCHANGED <<token, team, watch>>

DropReloadStep(t) ==
  /\ pc[t] = DropReload
  /\ word' = FetchAdd(word, ReloadAmount(t), 0)
  /\ pc' = [pc EXCEPT ![t] = Gone]
  /\ UNCHANGED <<token, snap, team, watch, history>>

(* wait_parity by a thread that is no participant: it asks for the end of  *)
(* the phase that is current when it starts.                               *)
WatchStart(o) ==
  /\ watch[o] = 0
  /\ members # {}
  /\ watch' = [watch EXCEPT ![o] = 1 + phase]
  /\ UNCHANGED <<word, pc, token, snap, team, history>>

(* Mutant: the sense of the parity is inverted. *)
WatchEndInverted(o) ==
  /\ watch[o] # 0
  /\ PhaseBit(word) = (watch[o] - 1) % 2
  /\ watch' = [watch EXCEPT ![o] = 0]
  /\ UNCHANGED <<word, pc, token, snap, team, history>>

WatchEnd(o) ==
  /\ watch[o] # 0
  /\ PhaseBit(word) # (watch[o] - 1) % 2
  /\ watch' = [watch EXCEPT ![o] = 0]
  /\ UNCHANGED <<word, pc, token, snap, team, history>>

(* Every participant has dropped: the barrier may be destroyed. *)
Finished ==
  /\ \A t \in Thread : pc[t] = Gone
  /\ UNCHANGED vars

ThreadStep(t) ==
  \/ \E S \in SUBSET Thread : Arrive(t, S)
  \/ ArriveReload(t)
  \/ WaitToken(t)
  \/ DropExpected(t)
  \/ DropArrive(t)
  \/ DropReloadStep(t)

Next ==
  \/ \E t \in Thread : ThreadStep(t)
  \/ \E o \in Observer : WatchStart(o) \/ WatchEnd(o)
  \/ Finished

Spec == Init /\ [][Next]_vars
FairSpec == Spec /\ \A t \in Thread : WF_vars(ThreadStep(t))

-----------------------------------------------------------------------------
(* The word's halves stay 32 bits wide and every local has its type. *)
TypeOK ==
  /\ word \in [hi : 0..(Half - 1), lo : 0..(Half - 1)]
  /\ pc \in [Thread -> {Idle, Reload, Lane, Wait, Drop, DropReload, Gone}]
  /\ token \in [Thread -> {0, 1}]
  /\ snap \in [Thread -> 0..(Half - 1)]
  /\ team \in [Thread -> SUBSET Thread]
  /\ watch \in [Observer -> Nat]
  /\ HistoryTypeOK

Reloading == {t \in Thread : pc[t] \in {Reload, DropReload}}
Dropping == {t \in Thread : pc[t] = Drop}

(* The two fetch_adds of arrive are not atomic together, but no second      *)
(* phase can end inside the window: at most one thread is about to reload. *)
OneReload == \A t, u \in Reloading : t = u

(* The expected half of the word always says how many members the next     *)
(* phase will have, drops that are under way included.                     *)
ExpectedCounts ==
  word.lo = M - Cardinality(members) + Cardinality(leaving) + Cardinality(Dropping)

(* The phase bit of a phase, in place. *)
Base(p) == IF p % 2 = 0 THEN 0 ELSE M

(* The arrival counter says how many members are still missing: counted    *)
(* from M - |members| outside the window, from 0 inside it, where the      *)
(* completing thread holds the amount that is missing.                     *)
ArrivedCounts ==
  members # {} =>
    IF Reloading = {}
      THEN word.hi = Base(phase) + M - Cardinality(members) + Cardinality(arrived)
      ELSE /\ word.hi = Base(phase) + Cardinality(arrived)
           /\ \A t \in Reloading : snap[t] = M - Cardinality(members)

(* Where a participant stands decides which sets it is in.  In particular  *)
(* a thread about to reload, and its lanes, have not arrived in the new    *)
(* phase (a dropper's phase has no arrival at all), so that phase cannot   *)
(* end inside the window; and no phase is complete and still current.      *)
Roles ==
  /\ leaving \subseteq arrived
  /\ arrived \subseteq members
  /\ members # {} => arrived # members
  /\ \A t \in Thread :
       /\ pc[t] \in {Idle, Drop, Lane, Reload} => t \in members \ arrived
       /\ pc[t] = Wait => t \in members \ leaving
       /\ pc[t] = Gone => t \in leaving \/ t \notin members
       /\ pc[t] = DropReload => t \notin members /\ arrived = {} /\ Dropping = {}
       /\ pc[t] \in {Wait, Lane, Reload} => (at[t] = phase <=> t \in arrived)
       /\ t \in leaving => pc[t] = Gone
       /\ pc[t] = Reload => t \in team[t] /\ \A u \in team[t] : pc[u] \in {Lane, Reload}
       /\ pc[t] = Lane => \E u \in Thread : pc[u] = Reload /\ t \in team[u]

(* A thread that holds a token is never two phases behind, so that one     *)
(* parity bit is enough to tell its phase from the current one.            *)
NeverTwoBehind ==
  \A t \in Thread : pc[t] \in {Wait, Lane, Reload} =>
    /\ token[t] = at[t] % 2
    /\ at[t] \in {phase, phase - 1}

(* An observer waits on a phase that has begun, and that has ended once    *)
(* no member is left.                                                      *)
Watching ==
  \A o \in Observer : watch[o] # 0 =>
    /\ watch[o] <= phase + 1
    /\ members = {} => watch[o] <= phase

(* The inductive invariant of the proofs: both halves of the word count    *)
(* what they should, one thread at a time is between its two fetch_adds,   *)
(* no phase ends there, and no token is two phases old.                    *)
WordInv == TypeOK /\ OneReload /\ ExpectedCounts /\ ArrivedCounts /\ Roles /\ NeverTwoBehind /\ Watching

(* wait_parity never returns before the phase it was asked about ended. *)
ObserverNotEarly ==
  [][\A o \in Observer : watch[o] # 0 /\ watch'[o] = 0 => watch[o] <= phase]_vars

(* Every participant that holds a token is released. *)
WaitReturns == \A t \in Thread : pc[t] = Wait ~> pc[t] # Wait

ModeOf(l) == IF l \in {Idle, Drop} THEN "run"
             ELSE IF l \in {Reload, Lane, Wait} THEN "held" ELSE "gone"
Abs == INSTANCE PhaseBarrier WITH mode <- [t \in Thread |-> ModeOf(pc[t])]

(* The packed word implements the abstract barrier: a phase ends at the    *)
(* fetch_add that changes the phase bit, exactly when the last member has  *)
(* arrived, and nobody is released before.                                 *)
Implements == Abs!AbsSpec

=============================================================================
