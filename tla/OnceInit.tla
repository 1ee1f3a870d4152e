------------------------------ MODULE OnceInit ------------------------------
(***************************************************************************)
(* What one-time initialization promises, be it of a function-local static *)
(* or under a once_flag: one thread at a time runs the initializer, a run  *)
(* that fails leaves the initialization to another call, and no call       *)
(* returns before a run has succeeded.                                     *)
(***************************************************************************)
CONSTANTS Thread, Flag

VARIABLES
  state,    \* state[f]: "new", "running" or "done"
  call      \* call[t]: what t is doing, and for which flag

onceVars == <<state, call>>

Out == <<"out">>
Calling(f) == <<"calling", f>>
Running(f) == <<"running", f>>

OnceInit == state = [f \in Flag |-> "new"] /\ call = [t \in Thread |-> Out]

Begin(t, f) ==
  /\ call[t] = Out
  /\ call' = [call EXCEPT ![t] = Calling(f)]
  /\ UNCHANGED state

Run(t, f) ==
  /\ call[t] = Calling(f) /\ state[f] = "new"
  /\ call' = [call EXCEPT ![t] = Running(f)]
  /\ state' = [state EXCEPT ![f] = "running"]

(* The initializer returns or throws. *)
End(t, f) ==
  /\ call[t] = Running(f)
  /\ \E s \in {"done", "new"} : state' = [state EXCEPT ![f] = s]
  /\ call' = [call EXCEPT ![t] = Out]

Pass(t, f) ==
  /\ call[t] = Calling(f) /\ state[f] = "done"
  /\ call' = [call EXCEPT ![t] = Out]
  /\ UNCHANGED state

OnceNext == \E t \in Thread, f \in Flag : Begin(t, f) \/ Run(t, f) \/ End(t, f) \/ Pass(t, f)

OnceSpec == OnceInit /\ [][OnceNext]_onceVars

=============================================================================
