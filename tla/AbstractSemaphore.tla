-------------------------- MODULE AbstractSemaphore --------------------------
(***************************************************************************)
(* What a semaphore promises: a permit is taken by one caller at a time,   *)
(* only while there is one, and a caller is turned away only if the        *)
(* semaphore was empty at some moment of its call.                         *)
(***************************************************************************)
EXTENDS Naturals

CONSTANTS Thread, MaxCount     \* MaxCount: the value of max()

VARIABLES
  permits,    \* the permits left
  mode,       \* mode[t]: "out", "blocking" (acquire) or "trying" (the others)
  empty       \* empty[t]: there was no permit at some moment of t's call

semVars == <<permits, mode, empty>>

SemInit(n) ==
  /\ permits = n
  /\ mode = [t \in Thread |-> "out"]
  /\ empty = [t \in Thread |-> FALSE]

(* Every call under way watches the number of permits. *)
Watch ==
  empty' = [t \in Thread |->
              IF mode'[t] = "out" THEN FALSE
              ELSE (mode[t] # "out" /\ empty[t]) \/ permits' = 0]

SemCall(t) ==
  /\ mode[t] = "out"
  /\ \E m \in {"blocking", "trying"} : mode' = [mode EXCEPT ![t] = m]
  /\ UNCHANGED permits
  /\ Watch

SemTake(t) ==
  /\ mode[t] # "out"
  /\ permits > 0
  /\ permits' = permits - 1
  /\ mode' = [mode EXCEPT ![t] = "out"]
  /\ Watch

SemFail(t) ==
  /\ mode[t] = "trying"
  /\ empty[t]
  /\ mode' = [mode EXCEPT ![t] = "out"]
  /\ UNCHANGED permits
  /\ Watch

SemGive(n) ==
  /\ permits + n <= MaxCount
  /\ permits' = permits + n
  /\ UNCHANGED mode
  /\ Watch

SemNext ==
  \/ \E t \in Thread : SemCall(t) \/ SemTake(t) \/ SemFail(t)
  \/ \E n \in 1..MaxCount : SemGive(n)

SemSpec == (\E n \in 0..MaxCount : SemInit(n)) /\ [][SemNext]_semVars

=============================================================================
