--------------------------- MODULE SharedWeakCount ---------------------------
(***************************************************************************)
(* The control block of shared_ptr and weak_ptr: two counts, each one less *)
(* than the number it stands for.  All shared owners together hold one     *)
(* weak owner.  Each atomic operation is one step.                         *)
(***************************************************************************)
EXTENDS Integers, FiniteSets

CONSTANTS Thread,
  Copies     \* bound: copies and lock() calls made

CopiesAssumption == Copies \in Nat

VARIABLES
  owners, weakOwners,   \* __shared_owners_, __shared_weak_owners_
  destroyed, freed,     \* how often the object and the block were disposed of
  strong, weak,         \* threads with a shared_ptr, with a weak_ptr
  pc,
  seen,                 \* seen[t]: object_owners in lock()
  copies

vars == <<owners, weakOwners, destroyed, freed, strong, weak, pc, seen, copies>>

Init ==
  /\ owners = 0 /\ weakOwners = 0
  /\ destroyed = 0 /\ freed = 0
  /\ \E t \in Thread : strong = {t}
  /\ weak = {}
  /\ pc = [t \in Thread |-> "idle"]
  /\ seen = [t \in Thread |-> 0]
  /\ copies = Copies

Go(t, l) == pc' = [pc EXCEPT ![t] = l]

(* __add_shared for a copy t gives to u. *)
CopyShared(t) ==
  /\ pc[t] = "idle" /\ t \in strong /\ copies > 0
  /\ \E u \in Thread \ strong : pc[u] = "idle" /\ strong' = strong \cup {u}
  /\ owners' = owners + 1 /\ copies' = copies - 1
  /\ UNCHANGED <<weakOwners, destroyed, freed, weak, pc, seen>>

(* __add_weak for a weak_ptr t gives to u. *)
CopyWeak(t) ==
  /\ pc[t] = "idle" /\ t \in strong \cup weak /\ copies > 0
  /\ \E u \in Thread \ weak : pc[u] = "idle" /\ weak' = weak \cup {u}
  /\ weakOwners' = weakOwners + 1 /\ copies' = copies - 1
  /\ UNCHANGED <<owners, destroyed, freed, strong, pc, seen>>

(* __release_shared: the decrement. *)
ReleaseShared(t) ==
  /\ pc[t] = "idle" /\ t \in strong
  /\ strong' = strong \ {t}
  /\ owners' = owners - 1
  /\ Go(t, IF owners' = -1 THEN "onzero" ELSE "idle")
  /\ UNCHANGED <<weakOwners, destroyed, freed, weak, seen, copies>>

(* __on_zero_shared destroys the object; then __release_weak. *)
OnZeroShared(t) ==
  /\ pc[t] = "onzero"
  /\ destroyed' = destroyed + 1
  /\ Go(t, "relweak")
  /\ UNCHANGED <<owners, weakOwners, freed, strong, weak, seen, copies>>

(* ~weak_ptr *)
DropWeak(t) ==
  /\ pc[t] = "idle" /\ t \in weak
  /\ weak' = weak \ {t}
  /\ Go(t, "relweak")
  /\ UNCHANGED <<owners, weakOwners, destroyed, freed, strong, seen, copies>>

(* Mutant: the shortcut is taken while another weak owner is left. *)
LastWeakTooSoon == weakOwners <= 1

LastWeak == weakOwners = 0

(* __release_weak: the load that spares the last owner the decrement. *)
LoadWeak(t) ==
  /\ pc[t] = "relweak"
  /\ IF LastWeak THEN freed' = freed + 1 /\ Go(t, "idle")
                 ELSE Go(t, "decweak") /\ UNCHANGED freed
  /\ UNCHANGED <<owners, weakOwners, destroyed, strong, weak, seen, copies>>

DecFrees == weakOwners' = -1

DecWeak(t) ==
  /\ pc[t] = "decweak"
  /\ weakOwners' = weakOwners - 1
  /\ freed' = IF DecFrees THEN freed + 1 ELSE freed
  /\ Go(t, "idle")
  /\ UNCHANGED <<owners, destroyed, strong, weak, seen, copies>>

(* lock(): the load. *)
Lock(t) ==
  /\ pc[t] = "idle" /\ t \in weak /\ t \notin strong /\ copies > 0
  /\ copies' = copies - 1
  /\ seen' = [seen EXCEPT ![t] = owners]
  /\ Go(t, "lock")
  /\ UNCHANGED <<owners, weakOwners, destroyed, freed, strong, weak>>

CasSucceeds(t) == owners = seen[t]

(* What a failed compare_exchange leaves in object_owners. *)
Requeue(t) == [seen EXCEPT ![t] = owners]

(* lock(): the loop. *)
LockCas(t) ==
  /\ pc[t] = "lock"
  /\ \/ /\ seen[t] = -1                      \* nullptr
        /\ Go(t, "idle")
        /\ UNCHANGED <<owners, strong, seen>>
     \/ /\ seen[t] # -1 /\ CasSucceeds(t)
        /\ owners' = seen[t] + 1
        /\ strong' = strong \cup {t}
        /\ Go(t, "idle")
        /\ UNCHANGED seen
     \/ /\ seen[t] # -1 /\ ~CasSucceeds(t)
        /\ seen' = Requeue(t)
        /\ UNCHANGED <<owners, strong, pc>>
  /\ UNCHANGED <<weakOwners, destroyed, freed, weak, copies>>

ThreadStep(t) == OnZeroShared(t) \/ LoadWeak(t) \/ DecWeak(t) \/ LockCas(t)

Next == \E t \in Thread :
  CopyShared(t) \/ CopyWeak(t) \/ ReleaseShared(t) \/ DropWeak(t) \/ Lock(t) \/ ThreadStep(t)

Spec == Init /\ [][Next]_vars

FairSpec == Spec /\ \A t \in Thread : WF_vars(ThreadStep(t))

-----------------------------------------------------------------------------
Busy == {t \in Thread : pc[t] # "idle"}

(* As long as somebody has a shared_ptr, one from lock() too, the object   *)
(* is alive; as long as somebody has a weak_ptr or is in an operation, the *)
(* counts can be read.                                                     *)
NoUseAfterFree ==
  /\ strong # {} => destroyed = 0
  /\ strong \cup weak \cup Busy # {} => freed = 0

(* When all are gone the object was destroyed once and the block freed     *)
(* once: neither leaks and neither is disposed of twice.                   *)
NoLeak ==
  /\ destroyed <= 1 /\ freed <= destroyed
  /\ strong \cup weak \cup Busy = {} => freed = 1

(* The loop of lock() ends: it repeats only when another thread has        *)
(* changed the count.                                                      *)
OperationEnds == \A t \in Thread : pc[t] # "idle" ~> pc[t] = "idle"

=============================================================================
