------------------------------ MODULE CallOnce ------------------------------
(***************************************************************************)
(* call_once: a mutex and a condition variable serve the flags of the      *)
(* whole program.  The initializer runs with the mutex free; the mutex is  *)
(* held from the test of a flag to the sleep, so each critical section is  *)
(* one step.                                                               *)
(***************************************************************************)
EXTENDS Naturals

CONSTANTS Thread, Flag,
  Calls      \* bound: calls the threads make together

CallsAssumption == Calls \in Nat
FlagAssumption == "none" \notin Flag

VARIABLES
  flag,     \* flag[f]: 0, 1 while the initializer runs, Done
  pc,
  on,       \* on[t]: the flag of t's call
  calls

vars == <<flag, pc, on, calls>>

Done == 2        \* ~_State_type(0)
NoFlag == "none"

Init ==
  /\ flag = [f \in Flag |-> 0]
  /\ pc = [t \in Thread |-> "idle"]
  /\ on = [t \in Thread |-> NoFlag]
  /\ calls = Calls

Go(t, l) == pc' = [pc EXCEPT ![t] = l]
Return(t) == Go(t, "idle") /\ on' = [on EXCEPT ![t] = NoFlag]

Call(t) ==
  /\ pc[t] = "idle" /\ calls > 0
  /\ \E f \in Flag : on' = [on EXCEPT ![t] = f]
  /\ Go(t, "enter")
  /\ calls' = calls - 1
  /\ UNCHANGED flag

(* while (flag == 1) *)
Waits(t) == flag[on[t]] = 1

(* The critical section before the initializer, entered at first or after  *)
(* a sleep: sleep, run the initializer or return.                          *)
Enter(t) ==
  /\ pc[t] \in {"enter", "woken"}
  /\ \/ /\ Waits(t)
        /\ Go(t, "asleep")
        /\ UNCHANGED <<flag, on>>
     \/ /\ ~Waits(t) /\ flag[on[t]] = 0
        /\ flag' = [flag EXCEPT ![on[t]] = 1]
        /\ Go(t, "running")
        /\ UNCHANGED on
     \/ /\ ~Waits(t) /\ flag[on[t]] # 0
        /\ Return(t)
        /\ UNCHANGED flag
  /\ UNCHANGED calls

(* A condition variable may wake up for no reason. *)
SpuriousWake(t) ==
  /\ pc[t] = "asleep"
  /\ Go(t, "woken")
  /\ UNCHANGED <<flag, on, calls>>

AfterFailure(f) == 0

(* func returns, or throws: the critical section after it. *)
RunEnds(t) ==
  /\ pc[t] = "running"
  /\ \E v \in {Done, AfterFailure(on[t])} : flag' = [flag EXCEPT ![on[t]] = v]
  /\ Go(t, "broadcast")
  /\ UNCHANGED <<on, calls>>

WokenThreads == {t \in Thread : pc[t] = "asleep"}

Broadcast(t) ==
  /\ pc[t] = "broadcast"
  /\ pc' = [u \in Thread |-> IF u = t THEN "idle" ELSE IF u \in WokenThreads THEN "woken" ELSE pc[u]]
  /\ on' = [on EXCEPT ![t] = NoFlag]
  /\ UNCHANGED <<flag, calls>>

ThreadStep(t) == Enter(t) \/ RunEnds(t) \/ Broadcast(t)

Next == \E t \in Thread : Call(t) \/ SpuriousWake(t) \/ ThreadStep(t)

Spec == Init /\ [][Next]_vars

(* Threads are scheduled and initializers end. *)
FairSpec == Spec /\ \A t \in Thread : WF_vars(ThreadStep(t))

-----------------------------------------------------------------------------
Initializing(f) == {t \in Thread : pc[t] = "running" /\ on[t] = f}

(* A flag is 1 exactly while one thread runs its initializer. *)
TypeOK ==
  /\ flag \in [Flag -> {0, 1, Done}]
  /\ pc \in [Thread -> {"idle", "enter", "asleep", "woken", "running", "broadcast"}]
  /\ on \in [Thread -> Flag \cup {NoFlag}]
  /\ \A f \in Flag : /\ flag[f] = 1 => \E t \in Thread : Initializing(f) = {t}
                     /\ flag[f] # 1 => Initializing(f) = {}
  /\ \A t \in Thread : (pc[t] = "idle") <=> (on[t] = NoFlag)

(* Every call returns: no thread stays asleep after the run it waited for  *)
(* has succeeded or failed, and a failed run is taken over.                *)
CallReturns == \A t \in Thread : pc[t] # "idle" ~> pc[t] = "idle"

StateOf(f) == CASE flag[f] = 0 -> "new" [] flag[f] = 1 -> "running" [] OTHER -> "done"

CallOf(t) == CASE pc[t] \in {"idle", "broadcast"} -> <<"out">>
               [] pc[t] = "running" -> <<"running", on[t]>>
               [] OTHER -> <<"calling", on[t]>>

O == INSTANCE OnceInit
       WITH state <- [f \in Flag |-> StateOf(f)], call <- [t \in Thread |-> CallOf(t)]

(* call_once is one-time initialization. *)
Implements == O!OnceSpec

=============================================================================
