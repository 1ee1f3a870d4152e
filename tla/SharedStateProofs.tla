-------------------------- MODULE SharedStateProofs --------------------------
(***************************************************************************)
(* State that threads set once and share.  call_once and the two guards of *)
(* function-local statics are one-time initializations, for any number of  *)
(* threads, flags and calls; the counts of a control block are right for   *)
(* any number of threads and pointers; the state of a future is, for any   *)
(* number of threads that share it.  Each component has its own variables, *)
(* so a theorem about several is about a program that uses all of them.    *)
(***************************************************************************)
EXTENDS MCSharedState, FiniteSetTheorems, TLAPS

CONSTANT Kind     \* of a future's state, one of the three the suite has

Assoc == INSTANCE Future
  WITH Waiter <- Thread, Waits <- WaitCalls,
       has <- fHas, ready <- fReady, deferred <- fDeferred, attached <- fAttached, owners <- fOwners,
       freed <- fFreed, pc <- fPc, refs <- fRefs, atExit <- fAtExit, got <- fGot, runs <- fRuns, waits <- fWaits

-----------------------------------------------------------------------------
(* call_once. *)
LEMMA OnceInitInv == Once!FlagAssumption /\ Once!Init => Once!TypeOK
BY DEF Once!FlagAssumption, Once!Init, Once!TypeOK, Once!Initializing, Once!NoFlag, Once!Done

LEMMA OnceStepInv ==
  ASSUME Once!FlagAssumption, Once!TypeOK, NEW t \in Thread,
         Once!Call(t) \/ Once!SpuriousWake(t) \/ Once!ThreadStep(t)
  PROVE  Once!TypeOK'
<1> USE DEF Once!FlagAssumption, Once!TypeOK, Once!Go, Once!NoFlag, Once!Done
<1>1. CASE Once!Call(t)
  <2>1. \A f \in Flag : Once!Initializing(f)' = Once!Initializing(f)
    BY <1>1 DEF Once!Call, Once!Initializing
  <2> QED BY <1>1, <2>1 DEF Once!Call
<1>2. CASE Once!SpuriousWake(t)
  <2>1. \A f \in Flag : Once!Initializing(f)' = Once!Initializing(f)
    BY <1>2 DEF Once!SpuriousWake, Once!Initializing
  <2> QED BY <1>2, <2>1 DEF Once!SpuriousWake
<1>3. CASE Once!Enter(t)
  <2>0. oOn[t] \in Flag /\ oPc[t] \in {"enter", "woken"}
    BY <1>3 DEF Once!Enter
  <2>1. CASE oFlag[oOn[t]] = 0 /\ oPc' = [oPc EXCEPT ![t] = "running"]
             /\ oFlag' = [oFlag EXCEPT ![oOn[t]] = 1] /\ oOn' = oOn
    <3>1. \A f \in Flag : Once!Initializing(f)'
                            = IF f = oOn[t] THEN Once!Initializing(f) \cup {t}
                              ELSE Once!Initializing(f)
      BY <2>0, <2>1 DEF Once!Initializing
    <3>2. Once!Initializing(oOn[t])' = {t}
      BY <2>0, <2>1, <3>1
    <3> QED BY <2>0, <2>1, <3>1, <3>2
  <2>2. CASE oFlag' = oFlag /\ ~(oPc' = [oPc EXCEPT ![t] = "running"])
    <3>1. oPc'[t] \in {"asleep", "idle"}
      BY <1>3, <2>2 DEF Once!Enter, Once!Return
    <3>2. \A f \in Flag : Once!Initializing(f)' = Once!Initializing(f)
      BY <1>3, <2>0, <2>2, <3>1 DEF Once!Enter, Once!Return, Once!Initializing
    <3> QED BY <1>3, <2>0, <2>2, <3>2 DEF Once!Enter, Once!Return
  <2> QED BY <1>3, <2>0, <2>1, <2>2 DEF Once!Enter, Once!Return, Once!Waits
<1>4. CASE Once!RunEnds(t)
  <2>0. oOn[t] \in Flag /\ oPc[t] = "running"
    BY <1>4 DEF Once!RunEnds
  <2>1. Once!Initializing(oOn[t]) = {t}
    BY <2>0 DEF Once!Initializing
  <2>2. \A f \in Flag : Once!Initializing(f)'
                          = IF f = oOn[t] THEN {} ELSE Once!Initializing(f)
    BY <1>4, <2>0, <2>1 DEF Once!RunEnds, Once!Initializing
  <2> QED BY <1>4, <2>0, <2>2 DEF Once!RunEnds, Once!AfterFailure
<1>5. CASE Once!Broadcast(t)
  <2>1. \A u \in Thread : oPc'[u] = "running" <=> oPc[u] = "running"
    BY <1>5 DEF Once!Broadcast, Once!WokenThreads
  <2>2. \A f \in Flag : Once!Initializing(f)' = Once!Initializing(f)
    BY <1>5, <2>1 DEF Once!Broadcast, Once!Initializing
  <2>3. oPc' \in [Thread -> {"idle", "enter", "asleep", "woken", "running", "broadcast"}]
    BY <1>5 DEF Once!Broadcast, Once!WokenThreads
  <2>4. \A u \in Thread : (oPc'[u] = "idle") <=> (oOn'[u] = "none")
    BY <1>5 DEF Once!Broadcast, Once!WokenThreads
  <2> QED BY <1>5, <2>2, <2>3, <2>4 DEF Once!Broadcast
<1> QED BY <1>1, <1>2, <1>3, <1>4, <1>5 DEF Once!ThreadStep

LEMMA OnceCorrect == Once!FlagAssumption => (Once!Spec => []Once!TypeOK)
<1>1. Once!FlagAssumption /\ Once!TypeOK /\ [Once!Next]_(Once!vars) => Once!TypeOK'
  <2>1. Once!TypeOK /\ UNCHANGED Once!vars => Once!TypeOK'
    BY DEF Once!vars, Once!TypeOK, Once!Initializing
  <2> QED BY <2>1, OnceStepInv DEF Once!Next
<1>2. ASSUME Once!FlagAssumption PROVE Once!Spec => []Once!TypeOK
  BY <1>1, <1>2, OnceInitInv, PTL DEF Once!Spec
<1> QED BY <1>2

-----------------------------------------------------------------------------
(* The guard with a mutex and a condition variable. *)
MutexInv == Mutex!TypeOK /\ Mutex!SleepersMarked /\ Mutex!RecursionDetected

LEMMA MutexInitInv == Mutex!FlagAssumption /\ Mutex!Init => MutexInv
BY DEF Mutex!FlagAssumption, Mutex!Init, MutexInv, Mutex!TypeOK, Mutex!Initializing, Mutex!NoFlag,
       Mutex!Unset, Mutex!Complete, Mutex!Pending, Mutex!SleepersMarked, Mutex!RecursionDetected

(* The threads that are in an initialization, whatever the guard. *)
Busy(u) == mPc[u] \in {"running", "release"} \/ mAgain[u]

(* A step that lets nobody begin or end an initialization.                 *)
LEMMA MutexSame ==
  ASSUME \A u \in Thread : (Busy(u)' <=> Busy(u)) /\ (Busy(u) => mOn'[u] = mOn[u])
  PROVE  \A f : Mutex!Initializing(f)' = Mutex!Initializing(f)
<1> TAKE f
<1>1. \A u \in Thread : u \in Mutex!Initializing(f)' <=> u \in Mutex!Initializing(f)
  BY Zenon DEF Mutex!Initializing, Busy
<1>2. Mutex!Initializing(f) \subseteq Thread /\ Mutex!Initializing(f)' \subseteq Thread
  BY DEF Mutex!Initializing
<1> QED BY <1>1, <1>2

(* The only thread that initializes a guard. *)
LEMMA MutexSole ==
  ASSUME MutexInv, NEW t \in Thread, Busy(t)
  PROVE  /\ mOn[t] \in Flag /\ "pending" \in mInit[mOn[t]]
         /\ Mutex!Initializing(mOn[t]) = {t}
         /\ HasThreadId => mOwner[mOn[t]] = t
         /\ mComplete[mOn[t]] <=> mPc[t] = "release"
<1> USE DEF MutexInv, Mutex!TypeOK
<1>1. mOn[t] \in Flag
  BY DEF Busy, Mutex!NoFlag
<1>2. t \in Mutex!Initializing(mOn[t])
  BY DEF Busy, Mutex!Initializing
<1>3. "pending" \in mInit[mOn[t]] /\ Mutex!Initializing(mOn[t]) = {t}
  BY <1>1, <1>2
<1>4. HasThreadId => mOwner[mOn[t]] = t
  BY <1>1, <1>3
<1>5. mComplete[mOn[t]] <=> mPc[t] = "release"
  BY <1>1, <1>3 DEF Mutex!Complete
<1> QED BY <1>1, <1>3, <1>4, <1>5

LEMMA MutexCallInv ==
  ASSUME Mutex!FlagAssumption, MutexInv, NEW t \in Thread,
         Mutex!Call(t) \/ Mutex!Recurse(t) \/ Mutex!SpuriousWake(t) \/ Mutex!Acquire(t)
  PROVE  MutexInv'
<1> USE DEF Mutex!FlagAssumption, MutexInv, Mutex!TypeOK, Mutex!Go, Mutex!NoFlag, Mutex!Return
<1> USE DEF Mutex!Call, Mutex!Recurse, Mutex!SpuriousWake, Mutex!Acquire
<1>0. mAgain[t] /\ mPc[t] = "acquire" => ~mComplete[mOn[t]]
  BY MutexSole DEF Busy
<1>1. \A u \in Thread : (Busy(u)' <=> Busy(u)) /\ (Busy(u) => mOn'[u] = mOn[u])
  BY <1>0 DEF Busy, Mutex!IsDone
<1>2. \A f : Mutex!Initializing(f)' = Mutex!Initializing(f)
  BY <1>1, MutexSame
<1>3. mPc'[t] \notin {"release", "asleep"} /\ mPc[t] # "release"
  OBVIOUS
<1>4. /\ mComplete' = mComplete /\ mInit' = mInit /\ mOwner' = mOwner
      /\ \A u \in Thread \ {t} : mPc'[u] = mPc[u] /\ mOn'[u] = mOn[u] /\ mAgain'[u] = mAgain[u]
  OBVIOUS
<1>5. \A f \in Flag : (\E u \in Mutex!Initializing(f) : mPc'[u] = "release")
                      <=> (\E u \in Mutex!Initializing(f) : mPc[u] = "release")
  BY <1>3, <1>4 DEF Mutex!Initializing
<1>6. \A u \in Thread : /\ (mPc'[u] = "idle") <=> (mOn'[u] = "none")
                        /\ mAgain'[u] => mPc'[u] \in {"acquire", "enter", "asleep", "woken"}
  BY <1>1 DEF Busy
<1>7. Mutex!TypeOK'
  <2>1. /\ mPc' \in [Thread -> {"idle", "acquire", "enter", "asleep", "woken", "running", "release", "broadcast"}]
        /\ mOn' \in [Thread -> Flag \cup {"none"}] /\ mAgain' \in [Thread -> BOOLEAN]
        /\ mAborted' \in BOOLEAN
    <3>1. CASE Mutex!Call(t)
      BY <3>1
    <3>2. CASE Mutex!Recurse(t)
      BY <3>2
    <3>3. CASE Mutex!SpuriousWake(t)
      BY <3>3
    <3>4. CASE Mutex!Acquire(t)
      BY <3>4
    <3> QED BY <3>1, <3>2, <3>3, <3>4
  <2> QED BY <1>2, <1>4, <1>5, <1>6, <2>1
<1>8. Mutex!SleepersMarked'
  BY <1>3, <1>4 DEF Mutex!SleepersMarked
<1>9. Mutex!RecursionDetected'
  BY <1>0 DEF Mutex!RecursionDetected, Mutex!IsDone
<1> QED BY <1>7, <1>8, <1>9

(* The critical section of acquire_init_byte. *)
LEMMA MutexEnterInv ==
  ASSUME Mutex!FlagAssumption, MutexInv, NEW t \in Thread, Mutex!Enter(t)
  PROVE  MutexInv'
<1> USE DEF Mutex!FlagAssumption, MutexInv, Mutex!TypeOK, Mutex!Go, Mutex!NoFlag, Mutex!Return,
            Mutex!Unset, Mutex!Complete, Mutex!Pending
<1> DEFINE f == mOn[t]
<1>0. /\ f \in Flag /\ mPc[t] \in {"enter", "woken"}
      /\ mComplete' = mComplete /\ mAgain' = mAgain
  BY DEF Mutex!Enter
<1>a. mAgain[t] => /\ "pending" \in mInit[f]
                   /\ HasThreadId => mPc[t] = "enter" /\ Mutex!Recursive(t)
  BY <1>0, MutexSole DEF Busy, Mutex!RecursionDetected, Mutex!Recursive
<1>1. CASE /\ mPc[t] = "enter" /\ Mutex!Recursive(t)
           /\ mAborted' = TRUE
           /\ UNCHANGED <<mInit, mOwner, mPc, mOn>>
  <2>1. mAgain[t]
    BY <1>0, <1>1 DEF Mutex!Recursive, Mutex!Initializing
  <2>2. \A g : Mutex!Initializing(g)' = Mutex!Initializing(g)
    BY <1>0, <1>1, MutexSame DEF Busy
  <2> QED BY <1>0, <1>1, <2>1, <2>2 DEF Mutex!SleepersMarked, Mutex!RecursionDetected
<1>2. CASE /\ ~(mPc[t] = "enter" /\ Mutex!Recursive(t))
           /\ "pending" \in mInit[f]
           /\ mInit' = [mInit EXCEPT ![f] = Mutex!Marked(f)]
           /\ mPc' = [mPc EXCEPT ![t] = "asleep"]
           /\ UNCHANGED <<mOwner, mOn, mAborted>>
  <2>1. \A g : Mutex!Initializing(g)' = Mutex!Initializing(g)
    BY <1>0, <1>2, MutexSame DEF Busy
  <2>2. mInit'[f] = {"pending", "waiting"} /\ \A g \in Flag \ {f} : mInit'[g] = mInit[g]
    BY <1>0, <1>2 DEF Mutex!Marked
  <2>3. mInit' \in [Flag -> {{}, {"complete"}, {"pending"}, {"pending"} \cup {"waiting"}}]
    BY <1>0, <1>2, <2>2
  <2>4. \A g \in Flag : /\ "pending" \in mInit'[g] <=> "pending" \in mInit[g]
                        /\ mInit'[g] = {"complete"} <=> mInit[g] = {"complete"}
    BY <1>2, <2>2
  <2>5. \A g \in Flag : (\E u \in Mutex!Initializing(g) : mPc'[u] = "release")
                      <=> (\E u \in Mutex!Initializing(g) : mPc[u] = "release")
    BY <1>0, <1>2 DEF Mutex!Initializing
  <2>6. Mutex!TypeOK'
    <3>1. \A u \in Thread : /\ (mPc'[u] = "idle") <=> (mOn'[u] = "none")
                            /\ mAgain'[u] => mPc'[u] \in {"acquire", "enter", "asleep", "woken"}
      BY <1>0, <1>2
    <3>2. HasThreadId => \A g \in Flag : "pending" \in mInit'[g] => mOwner'[g] \in Mutex!Initializing(g)
      BY <1>2, <2>4
    <3>3. \A g \in Flag : /\ "pending" \in mInit'[g] => \E u \in Thread : Mutex!Initializing(g) = {u}
                          /\ "pending" \notin mInit'[g] => Mutex!Initializing(g) = {}
      BY <2>4, Zenon
    <3>4. \A g \in Flag : mComplete[g] <=> \/ mInit'[g] = {"complete"}
                                           \/ \E u \in Mutex!Initializing(g) : mPc'[u] = "release"
      BY <2>4, <2>5, Zenon
    <3> QED BY <1>0, <1>2, <2>1, <2>3, <3>1, <3>2, <3>3, <3>4
  <2>7. Mutex!SleepersMarked'
    BY <1>0, <1>2, <2>2 DEF Mutex!SleepersMarked
  <2>8. Mutex!RecursionDetected'
    BY <1>0, <1>2, <1>a DEF Mutex!RecursionDetected
  <2> QED BY <2>6, <2>7, <2>8
<1>3. CASE /\ mInit[f] = {"complete"}
           /\ mPc' = [mPc EXCEPT ![t] = "idle"] /\ mOn' = [mOn EXCEPT ![t] = "none"]
           /\ UNCHANGED <<mInit, mOwner, mAborted>>
  <2>0. ~mAgain[t]
    BY <1>a, <1>3
  <2>1. \A g : Mutex!Initializing(g)' = Mutex!Initializing(g)
    BY <1>0, <1>3, <2>0, MutexSame DEF Busy
  <2>2. \A g \in Flag : (\E u \in Mutex!Initializing(g) : mPc'[u] = "release")
                      <=> (\E u \in Mutex!Initializing(g) : mPc[u] = "release")
    BY <1>0, <1>3 DEF Mutex!Initializing
  <2>3. Mutex!TypeOK'
    BY <1>0, <1>3, <2>0, <2>1, <2>2
  <2> QED BY <1>0, <1>3, <2>0, <2>3 DEF Mutex!SleepersMarked, Mutex!RecursionDetected
<1>4. CASE /\ "pending" \notin mInit[f] /\ mInit[f] # {"complete"}
           /\ mInit' = [mInit EXCEPT ![f] = {"pending"}]
           /\ mOwner' = IF HasThreadId THEN [mOwner EXCEPT ![f] = t] ELSE mOwner
           /\ mPc' = [mPc EXCEPT ![t] = "running"]
           /\ UNCHANGED <<mOn, mAborted>>
  <2>0. ~mAgain[t] /\ mInit[f] = {} /\ Mutex!Initializing(f) = {}
    BY <1>0, <1>a, <1>4
  <2>1. Mutex!Initializing(f)' = {t}
    BY <1>0, <1>4, <2>0 DEF Mutex!Initializing
  <2>2. \A g \in Flag \ {f} : Mutex!Initializing(g)' = Mutex!Initializing(g)
    BY <1>0, <1>4 DEF Mutex!Initializing
  <2>3. \A g \in Flag \ {f} : (\E u \in Mutex!Initializing(g) : mPc'[u] = "release")
                      <=> (\E u \in Mutex!Initializing(g) : mPc[u] = "release")
    BY <1>0, <1>4 DEF Mutex!Initializing
  <2>4. ~mComplete[f]
    BY <1>0, <1>4, <2>0
  <2>5. \A g \in Flag : mComplete[g] <=> \/ mInit'[g] = {"complete"}
                                         \/ \E u \in Mutex!Initializing(g)' : mPc'[u] = "release"
    BY <1>0, <1>4, <2>1, <2>2, <2>3, <2>4
  <2>6. HasThreadId => \A g \in Flag : "pending" \in mInit'[g] => mOwner'[g] \in Mutex!Initializing(g)'
    BY <1>0, <1>4, <2>1, <2>2
  <2>7. mOwner' \in [Flag -> Thread \cup {NoThread}]
    BY <1>0, <1>4
  <2>8. Mutex!TypeOK'
    BY <1>0, <1>4, <2>0, <2>1, <2>2, <2>5, <2>6, <2>7
  <2>9. Mutex!SleepersMarked'
    BY <1>0, <1>4, <2>0 DEF Mutex!SleepersMarked
  <2> QED BY <1>0, <1>4, <2>0, <2>8, <2>9 DEF Mutex!RecursionDetected
<1> QED BY <1>1, <1>2, <1>3, <1>4 DEF Mutex!Enter

(* cxa_guard_release sets the guard byte. *)
LEMMA MutexReleaseInv ==
  ASSUME Mutex!FlagAssumption, MutexInv, NEW t \in Thread, Mutex!Release(t)
  PROVE  MutexInv'
<1> USE DEF Mutex!FlagAssumption, MutexInv, Mutex!TypeOK, Mutex!Go, Mutex!NoFlag,
            Mutex!Unset, Mutex!Complete, Mutex!Pending, Mutex!Release
<1> DEFINE f == mOn[t]
<1>0. /\ f \in Flag /\ "pending" \in mInit[f] /\ Mutex!Initializing(f) = {t}
      /\ mPc[t] = "running" /\ ~mAgain[t]
  BY MutexSole DEF Busy
<1>1. \A g : Mutex!Initializing(g)' = Mutex!Initializing(g)
  BY <1>0, MutexSame DEF Busy
<1>2. \A g \in Flag \ {f} : (\E u \in Mutex!Initializing(g) : mPc'[u] = "release")
                      <=> (\E u \in Mutex!Initializing(g) : mPc[u] = "release")
  BY <1>0 DEF Mutex!Initializing
<1>3. \A g \in Flag : mComplete'[g] <=> \/ mInit[g] = {"complete"}
                                        \/ \E u \in Mutex!Initializing(g) : mPc'[u] = "release"
  BY <1>0, <1>2
<1>4. Mutex!TypeOK'
  BY <1>0, <1>1, <1>3
<1>5. Mutex!SleepersMarked'
  BY <1>0 DEF Mutex!SleepersMarked
<1> QED BY <1>0, <1>4, <1>5 DEF Mutex!RecursionDetected

(* cxa_guard_release and cxa_guard_abort write the init byte. *)
LEMMA MutexFinishInv ==
  ASSUME Mutex!FlagAssumption, MutexInv, NEW t \in Thread, Mutex!Finish(t)
  PROVE  MutexInv'
<1> USE DEF Mutex!FlagAssumption, MutexInv, Mutex!TypeOK, Mutex!Go, Mutex!NoFlag, Mutex!Return,
            Mutex!Unset, Mutex!Complete, Mutex!Pending
<1> DEFINE f == mOn[t]
<1>0. /\ f \in Flag /\ "pending" \in mInit[f] /\ Mutex!Initializing(f) = {t}
      /\ mPc[t] \in {"running", "release"} /\ ~mAgain[t]
      /\ mComplete[f] <=> mPc[t] = "release"
  BY MutexSole DEF Busy, Mutex!Finish
<1>1. /\ mComplete' = mComplete /\ mAgain' = mAgain /\ mAborted' = mAborted
      /\ mInit' = [mInit EXCEPT ![f] = IF mPc[t] = "release" THEN {"complete"} ELSE {}]
      /\ mOwner' = IF mPc[t] = "running" /\ HasThreadId THEN [mOwner EXCEPT ![f] = NoThread] ELSE mOwner
  BY DEF Mutex!Finish, Mutex!AfterAbort
<1>2. \/ "waiting" \in mInit[f] /\ mPc' = [mPc EXCEPT ![t] = "broadcast"] /\ mOn' = mOn
      \/ /\ "waiting" \notin mInit[f] /\ mPc' = [mPc EXCEPT ![t] = "idle"]
         /\ mOn' = [mOn EXCEPT ![t] = "none"]
  BY DEF Mutex!Finish, Mutex!HadWaiting
<1>3. \A g \in Flag : g = f => Mutex!Initializing(g)' = {}
  BY <1>0, <1>1, <1>2 DEF Mutex!Initializing
<1>4. \A g \in Flag \ {f} : Mutex!Initializing(g)' = Mutex!Initializing(g)
  BY <1>0, <1>1, <1>2 DEF Mutex!Initializing
<1>5. \A g \in Flag \ {f} : (\E u \in Mutex!Initializing(g) : mPc'[u] = "release")
                      <=> (\E u \in Mutex!Initializing(g) : mPc[u] = "release")
  BY <1>0, <1>2 DEF Mutex!Initializing
<1>6. \A g \in Flag : mComplete'[g] <=> \/ mInit'[g] = {"complete"}
                                        \/ \E u \in Mutex!Initializing(g)' : mPc'[u] = "release"
  <2> TAKE g \in Flag
  <2>1. CASE g = f
    BY <2>1, <1>0, <1>1, <1>3
  <2>2. CASE g # f
    BY <2>2, <1>1, <1>4, <1>5
  <2> QED BY <2>1, <2>2
<1>7. HasThreadId => \A g \in Flag : "pending" \in mInit'[g] => mOwner'[g] \in Mutex!Initializing(g)'
  BY <1>0, <1>1, <1>4
<1>8. \A u \in Thread : /\ (mPc'[u] = "idle") <=> (mOn'[u] = "none")
                        /\ mAgain'[u] => mPc'[u] \in {"acquire", "enter", "asleep", "woken"}
  BY <1>0, <1>1, <1>2
<1>9. /\ mInit' \in [Flag -> {{}, {"complete"}, {"pending"}, {"pending"} \cup {"waiting"}}]
      /\ mOwner' \in [Flag -> Thread \cup {NoThread}]
  BY <1>0, <1>1
<1>10. /\ mPc' \in [Thread -> {"idle", "acquire", "enter", "asleep", "woken", "running", "release", "broadcast"}]
       /\ mOn' \in [Thread -> Flag \cup {"none"}]
  BY <1>0, <1>2
<1>11. Mutex!TypeOK'
  <2>1. \A g \in Flag : /\ "pending" \in mInit'[g] => \E u \in Thread : Mutex!Initializing(g)' = {u}
                        /\ "pending" \notin mInit'[g] => Mutex!Initializing(g)' = {}
    <3> TAKE g \in Flag
    <3>1. CASE g = f
      BY <3>1, <1>0, <1>1, <1>3
    <3>2. CASE g # f
      BY <3>2, <1>1, <1>4
    <3> QED BY <3>1, <3>2
  <2> QED BY <1>1, <1>6, <1>7, <1>8, <1>9, <1>10, <2>1
<1>12. Mutex!SleepersMarked'
  <2> SUFFICES ASSUME NEW u \in Thread, mPc'[u] = "asleep"
               PROVE  "waiting" \in mInit'[mOn'[u]] \/ \E v \in Thread : mPc'[v] = "broadcast"
    BY DEF Mutex!SleepersMarked
  <2>1. u # t /\ mPc[u] = "asleep" /\ mOn'[u] = mOn[u]
    BY <1>2
  <2>2. "waiting" \in mInit[mOn[u]] \/ \E v \in Thread : mPc[v] = "broadcast"
    BY <2>1 DEF Mutex!SleepersMarked
  <2>3. CASE \E v \in Thread : mPc[v] = "broadcast"
    BY <2>3, <1>0, <1>2
  <2>4. CASE "waiting" \in mInit[mOn[u]] /\ mOn[u] = f
    BY <2>4, <1>2
  <2>5. CASE "waiting" \in mInit[mOn[u]] /\ mOn[u] # f
    BY <2>5, <2>1, <1>1
  <2> QED BY <2>2, <2>3, <2>4, <2>5
<1>13. Mutex!RecursionDetected'
  BY <1>0, <1>1, <1>2 DEF Mutex!RecursionDetected
<1> QED BY <1>11, <1>12, <1>13

LEMMA MutexBroadcastInv ==
  ASSUME Mutex!FlagAssumption, MutexInv, NEW t \in Thread, Mutex!Broadcast(t)
  PROVE  MutexInv'
<1> USE DEF Mutex!FlagAssumption, MutexInv, Mutex!TypeOK, Mutex!NoFlag, Mutex!Broadcast,
            Mutex!Unset, Mutex!Complete, Mutex!Pending
<1>0. ~mAgain[t] /\ mPc[t] = "broadcast"
  OBVIOUS
<1>1. \A g : Mutex!Initializing(g)' = Mutex!Initializing(g)
  BY <1>0, MutexSame DEF Busy
<1>2. \A g \in Flag : (\E u \in Mutex!Initializing(g) : mPc'[u] = "release")
                      <=> (\E u \in Mutex!Initializing(g) : mPc[u] = "release")
  BY <1>0 DEF Mutex!Initializing
<1>3. \A u \in Thread : /\ (mPc'[u] = "idle") <=> (mOn'[u] = "none")
                        /\ mAgain'[u] => mPc'[u] \in {"acquire", "enter", "asleep", "woken"}
  BY <1>0
<1>4. Mutex!TypeOK'
  <2>1. /\ mPc' \in [Thread -> {"idle", "acquire", "enter", "asleep", "woken", "running", "release", "broadcast"}]
        /\ mOn' \in [Thread -> Flag \cup {"none"}]
    OBVIOUS
  <2>2. /\ mComplete' = mComplete /\ mInit' = mInit /\ mOwner' = mOwner
        /\ mAgain' = mAgain /\ mAborted' = mAborted
    OBVIOUS
  <2>3. \A g \in Flag : mComplete[g] <=> \/ mInit[g] = {"complete"}
                                         \/ \E u \in Mutex!Initializing(g) : mPc'[u] = "release"
    BY <1>2
  <2>4. /\ mComplete' \in [Flag -> BOOLEAN] /\ mOwner' \in [Flag -> Thread \cup {NoThread}]
        /\ mInit' \in [Flag -> {{}, {"complete"}, {"pending"}, {"pending"} \cup {"waiting"}}]
        /\ mAgain' \in [Thread -> BOOLEAN] /\ mAborted' \in BOOLEAN
    BY <2>2
  <2>5. /\ \A g \in Flag : /\ "pending" \in mInit'[g] => \E u \in Thread : Mutex!Initializing(g)' = {u}
                           /\ "pending" \notin mInit'[g] => Mutex!Initializing(g)' = {}
        /\ HasThreadId => \A g \in Flag : "pending" \in mInit'[g] => mOwner'[g] \in Mutex!Initializing(g)'
    BY <1>1, <2>2
  <2>6. \A g \in Flag : mComplete'[g] <=> \/ mInit'[g] = {"complete"}
                                          \/ \E u \in Mutex!Initializing(g)' : mPc'[u] = "release"
    <3> HIDE DEF Mutex!TypeOK, Mutex!Broadcast
    <3> TAKE g \in Flag
    <3>1. Mutex!Initializing(g)' = Mutex!Initializing(g) /\ mComplete'[g] = mComplete[g] /\ mInit'[g] = mInit[g]
      BY <1>1, <2>2
    <3>2. mComplete[g] <=> \/ mInit[g] = {"complete"}
                           \/ \E u \in Mutex!Initializing(g) : mPc'[u] = "release"
      BY <2>3
    <3> QED BY <3>1, <3>2, Zenon
  <2> QED BY <1>3, <2>1, <2>4, <2>5, <2>6
<1>5. Mutex!SleepersMarked'
  BY DEF Mutex!SleepersMarked
<1>6. Mutex!RecursionDetected'
  BY DEF Mutex!RecursionDetected
<1> QED BY <1>4, <1>5, <1>6

LEMMA MutexStepInv ==
  ASSUME Mutex!FlagAssumption, MutexInv, [Mutex!Next]_(Mutex!vars)
  PROVE  MutexInv'
<1>1. CASE UNCHANGED Mutex!vars
  BY <1>1 DEF Mutex!vars, MutexInv, Mutex!TypeOK, Mutex!SleepersMarked, Mutex!RecursionDetected,
              Mutex!Initializing
<1>2. CASE Mutex!Next
  BY <1>2, MutexCallInv, MutexEnterInv, MutexReleaseInv, MutexFinishInv, MutexBroadcastInv
  DEF Mutex!Next, Mutex!ThreadStep
<1> QED BY <1>1, <1>2

LEMMA MutexCorrect == Mutex!FlagAssumption => (Mutex!Spec => []MutexInv)
<1>1. ASSUME Mutex!FlagAssumption PROVE Mutex!Spec => []MutexInv
  <2>1. MutexInv /\ [Mutex!Next]_(Mutex!vars) => MutexInv'
    BY <1>1, MutexStepInv
  <2> QED BY <1>1, <2>1, MutexInitInv, PTL DEF Mutex!Spec
<1> QED BY <1>1

-----------------------------------------------------------------------------
(* The guard with a futex. *)
FutexInv ==
  /\ Futex!TypeOK /\ Futex!SleepersMarked
  /\ \A t \in Thread : Futex!InLoop(t)
  /\ Futex!RecursionDetected

LEMMA FutexInitInv == Futex!FlagAssumption /\ Futex!Init => FutexInv
BY DEF Futex!FlagAssumption, Futex!Init, FutexInv, Futex!TypeOK, Futex!Initializing, Futex!Labels,
       Futex!Unset, Futex!Complete, Futex!Pending, Futex!Waiting, Futex!SleepersMarked, Futex!InLoop,
       Futex!RecursionDetected

(* The threads that are in the initialization. *)
FutexBusy(u) == xPc[u] \in {"own", "running", "release", "abort"} \/ xAgain[u]

(* The only thread that initializes. *)
LEMMA FutexSole ==
  ASSUME Futex!FlagAssumption, FutexInv, NEW t \in Thread, FutexBusy(t)
  PROVE  /\ "pending" \in xInit /\ Futex!Initializing = {t}
         /\ \A u \in Thread : FutexBusy(u) <=> u = t
         /\ xOwner \in {NoThread, t}
         /\ xComplete <=> xPc[t] = "release"
<1> USE DEF FutexInv, Futex!TypeOK
<1>1. t \in Futex!Initializing
  BY DEF FutexBusy, Futex!Initializing
<1>2. "pending" \in xInit /\ Futex!Initializing = {t}
  BY <1>1
<1>3. \A u \in Thread : FutexBusy(u) <=> u = t
  BY <1>2 DEF FutexBusy, Futex!Initializing
<1>4. xOwner \in {NoThread, t}
  BY <1>2 DEF Futex!Complete
<1>5. xComplete <=> xPc[t] = "release"
  BY <1>2 DEF Futex!Complete
<1> QED BY <1>2, <1>3, <1>4, <1>5

(* Nobody initializes: the byte is not pending and no thread id is left by *)
(* a failure.                                                              *)
LEMMA FutexNone ==
  ASSUME FutexInv, "pending" \notin xInit
  PROVE  /\ Futex!Initializing = {} /\ \A u \in Thread : ~FutexBusy(u)
         /\ xInit = Futex!Unset => xOwner = NoThread
         /\ xComplete <=> xInit = Futex!Complete
<1> USE DEF FutexInv, Futex!TypeOK
<1>1. Futex!Initializing = {}
  OBVIOUS
<1>2. \A u \in Thread : ~FutexBusy(u)
  BY <1>1 DEF FutexBusy, Futex!Initializing
<1> QED BY <1>1, <1>2 DEF Futex!Unset, Futex!Complete

(* A step of one thread that writes no shared word and lets it neither     *)
(* begin nor end an initialization.                                        *)
LEMMA FutexMoves ==
  ASSUME Futex!FlagAssumption, FutexInv, NEW t \in Thread,
         UNCHANGED <<xInit, xComplete, xOwner>>,
         xPc' \in [Thread -> Futex!Labels], xAgain' \in [Thread -> BOOLEAN],
         xLast' \in [Thread -> {{}, {"pending"}, {"pending", "waiting"}}],
         \A u \in Thread \ {t} : xPc'[u] = xPc[u] /\ xAgain'[u] = xAgain[u] /\ xLast'[u] = xLast[u],
         FutexBusy(t)' <=> FutexBusy(t),
         xPc'[t] = "release" <=> xPc[t] = "release",
         xPc[t] # "wake", xPc'[t] = "asleep" => xInit = Futex!Waiting,
         Futex!InLoop(t)',
         xAborted' \in BOOLEAN, Futex!RecursionDetected'
  PROVE  FutexInv'
<1> USE DEF FutexInv, Futex!TypeOK
<1>1. \A u \in Thread : FutexBusy(u)' <=> FutexBusy(u)
  BY DEF FutexBusy
<1>2. Futex!Initializing' = Futex!Initializing
  BY <1>1 DEF FutexBusy, Futex!Initializing
<1>3. (\E u \in Futex!Initializing : xPc'[u] = "release") <=> \E u \in Futex!Initializing : xPc[u] = "release"
  BY DEF Futex!Initializing
<1>4. Futex!TypeOK'
  BY <1>2, <1>3 DEF Futex!Unset, Futex!Complete, Futex!Pending, Futex!Waiting
<1>5. Futex!SleepersMarked'
  BY DEF Futex!SleepersMarked, Futex!Waiting
<1>6. \A u \in Thread : Futex!InLoop(u)'
  BY DEF Futex!InLoop, Futex!Pending, Futex!Unset
<1> QED BY <1>4, <1>5, <1>6

LEMMA FutexCallInv ==
  ASSUME Futex!FlagAssumption, FutexInv, NEW t \in Thread,
         Futex!Call(t) \/ Futex!Recurse(t) \/ Futex!SpuriousWake(t) \/ Futex!Acquire(t)
  PROVE  FutexInv'
<1> USE DEF Futex!FlagAssumption, Futex!Go, Futex!Labels, Futex!Call, Futex!Recurse,
            Futex!SpuriousWake, Futex!Acquire
<1>0. xAgain[t] /\ xPc[t] = "acquire" => ~xComplete
  BY FutexSole DEF FutexBusy
<1>1. /\ UNCHANGED <<xInit, xComplete, xOwner, xLast, xAborted>>
      /\ xPc' \in [Thread -> Futex!Labels] /\ xAgain' \in [Thread -> BOOLEAN]
      /\ \A u \in Thread \ {t} : xPc'[u] = xPc[u] /\ xAgain'[u] = xAgain[u]
  BY DEF FutexInv, Futex!TypeOK
<1>2. xAgain[t] => xPc[t] \notin {"idle", "running"} /\ xPc'[t] \in {"try", "acquire"}
  BY <1>0 DEF FutexInv, Futex!TypeOK, Futex!InLoop
<1>3. FutexBusy(t)' <=> FutexBusy(t)
  BY <1>0 DEF FutexBusy, FutexInv, Futex!TypeOK
<1>4. xPc[t] \notin {"release", "wake"} /\ xPc'[t] \notin {"release", "asleep"}
  BY DEF FutexInv, Futex!TypeOK
<1>5. Futex!InLoop(t)'
  BY <1>0 DEF FutexInv, Futex!TypeOK, Futex!InLoop
<1>6. Futex!RecursionDetected'
  BY <1>0, <1>1 DEF FutexInv, Futex!TypeOK, Futex!RecursionDetected, Futex!InLoop
<1>7. xLast' \in [Thread -> {{}, {"pending"}, {"pending", "waiting"}}] /\ xAborted' \in BOOLEAN
  BY <1>1 DEF FutexInv, Futex!TypeOK, Futex!Unset, Futex!Pending, Futex!Waiting
<1> QED BY <1>1, <1>3, <1>4, <1>5, <1>6, <1>7, FutexMoves

(* The compare_exchange at the head of the loop. *)
LEMMA FutexTryInv ==
  ASSUME Futex!FlagAssumption, FutexInv, NEW t \in Thread, Futex!TryPending(t)
  PROVE  FutexInv'
<1> USE DEF Futex!FlagAssumption, Futex!Go, Futex!Saw, Futex!Labels, Futex!TryPending, Futex!Wins,
            Futex!Unset, Futex!Complete, Futex!Pending, Futex!Waiting, FutexInv, Futex!TypeOK
<1>1. CASE Futex!Wins
  <2>1. ~FutexBusy(t) /\ Futex!Initializing = {} /\ xOwner = NoThread /\ ~xComplete
    BY <1>1, FutexNone
  <2>2. Futex!Initializing' = {t}
    BY <1>1, <2>1 DEF Futex!Initializing
  <2>3. Futex!TypeOK'
    BY <1>1, <2>1, <2>2
  <2>4. Futex!SleepersMarked'
    BY <1>1 DEF Futex!SleepersMarked
  <2>5. \A u \in Thread : Futex!InLoop(u)'
    BY <1>1, <2>1 DEF Futex!InLoop, FutexBusy
  <2>6. Futex!RecursionDetected'
    BY <1>1, <2>1 DEF Futex!RecursionDetected, FutexBusy
  <2> QED BY <2>3, <2>4, <2>5, <2>6
<1>2. CASE ~Futex!Wins
  <2>1. xAgain[t] => "pending" \in xInit
    BY FutexSole DEF FutexBusy
  <2>2. /\ UNCHANGED <<xInit, xComplete, xOwner, xAgain, xAborted>>
        /\ xPc' = [xPc EXCEPT ![t] = IF xInit = {"complete"} THEN "idle" ELSE "recursion"]
        /\ xLast' = [xLast EXCEPT ![t] = IF xInit = {"complete"} THEN {} ELSE xInit]
    BY <1>2
  <2>3. /\ xPc' \in [Thread -> Futex!Labels]
        /\ xLast' \in [Thread -> {{}, {"pending"}, {"pending", "waiting"}}]
        /\ \A u \in Thread \ {t} : xPc'[u] = xPc[u] /\ xLast'[u] = xLast[u]
    BY <2>2, <1>2
  <2>4. FutexBusy(t)' <=> FutexBusy(t)
    BY <2>2 DEF FutexBusy
  <2>5. xPc'[t] = "recursion" /\ xOwner = t => xAgain[t]
    BY <2>2, <1>2 DEF Futex!Initializing
  <2>6. Futex!InLoop(t)'
    BY <1>2, <2>1, <2>2, <2>5 DEF Futex!InLoop
  <2>7. Futex!RecursionDetected'
    BY <2>1, <2>2 DEF Futex!RecursionDetected
  <2>8. xPc[t] = "try" /\ xPc'[t] \in {"idle", "recursion"} /\ xAgain' = xAgain /\ xAborted' = xAborted
    BY <2>2
  <2> HIDE DEF Futex!TryPending, Futex!TypeOK, Futex!Wins, FutexInv
  <2>9. xAgain' \in [Thread -> BOOLEAN] /\ xAborted' \in BOOLEAN
    BY <2>8 DEF FutexInv, Futex!TypeOK
  <2> QED BY <2>2, <2>3, <2>4, <2>6, <2>7, <2>8, <2>9, FutexMoves
<1> QED BY <1>1, <1>2

LEMMA FutexLoopInv ==
  ASSUME Futex!FlagAssumption, FutexInv, NEW t \in Thread,
         Futex!CheckRecursion(t) \/ Futex!FutexWait(t) \/ (Futex!Mark(t) /\ xInit # xLast[t])
  PROVE  FutexInv'
<1> USE DEF Futex!FlagAssumption, Futex!Go, Futex!Saw, Futex!Labels, Futex!Unset, Futex!Complete,
            Futex!Pending, Futex!Waiting
<1> USE DEF Futex!CheckRecursion, Futex!FutexWait, Futex!Mark, Futex!Recursive, Futex!FutexMatches
<1>1. xAgain[t] => "pending" \in xInit
  BY FutexSole DEF FutexBusy
<1>2. /\ UNCHANGED <<xInit, xComplete, xOwner, xAgain>>
      /\ \A u \in Thread \ {t} : xPc'[u] = xPc[u] /\ xLast'[u] = xLast[u] /\ xAgain'[u] = xAgain[u]
  BY DEF FutexInv, Futex!TypeOK
<1>3. /\ xPc[t] \in {"recursion", "futex", "mark"} /\ xPc' \in [Thread -> Futex!Labels]
      /\ xPc'[t] \in {"recursion", "futex", "mark", "asleep", "try", "idle"}
      /\ xAgain[t] => xPc'[t] # "idle"
      /\ xPc'[t] = "asleep" => xInit = {"pending", "waiting"}
  BY <1>1 DEF FutexInv, Futex!TypeOK
<1>4. /\ xLast' \in [Thread -> {{}, {"pending"}, {"pending", "waiting"}}]
      /\ xAgain' \in [Thread -> BOOLEAN] /\ xAborted' \in BOOLEAN
  BY DEF FutexInv, Futex!TypeOK
<1>5. FutexBusy(t)' <=> FutexBusy(t)
  BY <1>2, <1>3 DEF FutexBusy
<1>6. Futex!InLoop(t)'
  BY <1>1 DEF FutexInv, Futex!TypeOK, Futex!InLoop
<1>7. Futex!RecursionDetected'
  BY DEF FutexInv, Futex!TypeOK, Futex!InLoop, Futex!RecursionDetected
<1> HIDE DEF Futex!CheckRecursion, Futex!FutexWait, Futex!Mark, Futex!Recursive, Futex!FutexMatches
<1> QED BY <1>2, <1>3, <1>4, <1>5, <1>6, <1>7, FutexMoves

(* The waiting bit is set, and the thread id is stored. *)
LEMMA FutexMarkInv ==
  ASSUME Futex!FlagAssumption, FutexInv, NEW t \in Thread,
         Futex!StoreOwner(t) \/ (Futex!Mark(t) /\ xInit = xLast[t])
  PROVE  FutexInv'
<1> USE DEF Futex!FlagAssumption, Futex!Go, Futex!Saw, Futex!Labels, Futex!Unset, Futex!Complete,
            Futex!Pending, Futex!Waiting, FutexInv
<1>1. CASE Futex!StoreOwner(t)
  <2>1. /\ "pending" \in xInit /\ Futex!Initializing = {t} /\ ~xComplete /\ ~xAgain[t]
        /\ \A u \in Thread : FutexBusy(u) <=> u = t
    BY <1>1, FutexSole DEF FutexBusy, Futex!StoreOwner, Futex!InLoop
  <2>2. /\ UNCHANGED <<xInit, xComplete, xLast, xAgain, xAborted>>
        /\ xPc' = [xPc EXCEPT ![t] = "running"] /\ xPc[t] = "own"
        /\ xOwner' = IF HasThreadId THEN t ELSE xOwner
    BY <1>1 DEF Futex!StoreOwner
  <2>3. Futex!Initializing' = {t}
    BY <2>1, <2>2 DEF Futex!Initializing, Futex!TypeOK
  <2>4. Futex!TypeOK'
    BY <2>1, <2>2, <2>3 DEF Futex!TypeOK
  <2>5. Futex!SleepersMarked'
    BY <2>2 DEF Futex!SleepersMarked, Futex!TypeOK
  <2>6. \A u \in Thread : Futex!InLoop(u)'
    BY <2>1, <2>2 DEF Futex!InLoop, Futex!TypeOK, FutexBusy
  <2>7. Futex!RecursionDetected'
    BY <2>1, <2>2 DEF Futex!RecursionDetected, Futex!TypeOK
  <2> QED BY <2>4, <2>5, <2>6, <2>7
<1>2. CASE Futex!Mark(t) /\ xInit = xLast[t]
  <2>1. xInit = {"pending"} /\ xInit' = {"pending", "waiting"}
    BY <1>2 DEF Futex!Mark, Futex!InLoop
  <2>2. /\ UNCHANGED <<xComplete, xOwner, xAgain, xAborted>>
        /\ xPc' = [xPc EXCEPT ![t] = "futex"] /\ xPc[t] = "mark"
        /\ xLast' = [xLast EXCEPT ![t] = {}]
    BY <1>2 DEF Futex!Mark
  <2>3. Futex!Initializing' = Futex!Initializing
    BY <2>2 DEF Futex!Initializing, Futex!TypeOK
  <2>4. (\E u \in Futex!Initializing : xPc'[u] = "release") <=> \E u \in Futex!Initializing : xPc[u] = "release"
    BY <2>2 DEF Futex!Initializing, Futex!TypeOK
  <2>5. Futex!TypeOK'
    BY <2>1, <2>2, <2>3, <2>4 DEF Futex!TypeOK
  <2>6. Futex!SleepersMarked'
    BY <2>1 DEF Futex!SleepersMarked
  <2>7. \A u \in Thread : Futex!InLoop(u)'
    BY <2>1, <2>2 DEF Futex!InLoop, Futex!TypeOK
  <2>8. Futex!RecursionDetected'
    BY <2>2 DEF Futex!RecursionDetected, Futex!TypeOK
  <2> QED BY <2>5, <2>6, <2>7, <2>8
<1> QED BY <1>1, <1>2

(* The first store of cxa_guard_release and of cxa_guard_abort. *)
LEMMA FutexEndInv ==
  ASSUME Futex!FlagAssumption, FutexInv, NEW t \in Thread, Futex!Release(t) \/ Futex!Abort(t)
  PROVE  FutexInv'
<1> USE DEF Futex!FlagAssumption, Futex!Go, Futex!Labels, Futex!Unset, Futex!Complete,
            Futex!Pending, Futex!Waiting, FutexInv
<1>1. /\ "pending" \in xInit /\ Futex!Initializing = {t} /\ ~xComplete /\ ~xAgain[t]
      /\ \A u \in Thread : FutexBusy(u) <=> u = t
  BY FutexSole DEF FutexBusy, Futex!Release, Futex!Abort, Futex!InLoop
<1>2. /\ UNCHANGED <<xInit, xLast, xAgain, xAborted>> /\ xPc[t] = "running"
      /\ \/ xPc' = [xPc EXCEPT ![t] = "release"] /\ xComplete' = TRUE /\ xOwner' = xOwner
         \/ /\ xPc' = [xPc EXCEPT ![t] = "abort"] /\ xComplete' = xComplete
            /\ xOwner' = IF HasThreadId THEN NoThread ELSE xOwner
  BY DEF Futex!Release, Futex!Abort
<1>3. Futex!Initializing' = {t}
  BY <1>1, <1>2 DEF Futex!Initializing, Futex!TypeOK
<1>4. Futex!TypeOK'
  <2>1. xPc'[t] = "release" <=> xComplete'
    BY <1>1, <1>2 DEF Futex!TypeOK
  <2>2. /\ xOwner' \in Thread \cup {NoThread} /\ xComplete' \in BOOLEAN
        /\ xOwner' = NoThread \/ (HasThreadId /\ xOwner' \in Futex!Initializing)
    BY <1>1, <1>2 DEF Futex!TypeOK
  <2>3. /\ xInit' = xInit /\ xLast' = xLast /\ xAgain' = xAgain /\ xAborted' = xAborted
        /\ xPc' \in [Thread -> Futex!Labels]
    BY <1>2 DEF Futex!TypeOK
  <2> QED BY <1>1, <1>3, <2>1, <2>2, <2>3 DEF Futex!TypeOK
<1>5. Futex!SleepersMarked'
  BY <1>2 DEF Futex!SleepersMarked, Futex!TypeOK
<1>6. \A u \in Thread : Futex!InLoop(u)'
  BY <1>1, <1>2 DEF Futex!InLoop, Futex!TypeOK, FutexBusy
<1>7. Futex!RecursionDetected'
  BY <1>1, <1>2 DEF Futex!RecursionDetected, Futex!TypeOK
<1> QED BY <1>4, <1>5, <1>6, <1>7

(* The exchange of the init byte, and the wake call after it. *)
LEMMA FutexFinishInv ==
  ASSUME Futex!FlagAssumption, FutexInv, NEW t \in Thread, Futex!Finish(t) \/ Futex!WakeAll(t)
  PROVE  FutexInv'
<1> USE DEF Futex!FlagAssumption, Futex!Go, Futex!Labels, Futex!Unset, Futex!Complete,
            Futex!Pending, Futex!Waiting, FutexInv
<1>1. CASE Futex!Finish(t)
  <2>1. /\ "pending" \in xInit /\ Futex!Initializing = {t} /\ ~xAgain[t]
        /\ xComplete <=> xPc[t] = "release"
        /\ \A u \in Thread : FutexBusy(u) <=> u = t
        /\ xOwner \in {NoThread, t}
    BY <1>1, FutexSole DEF FutexBusy, Futex!Finish, Futex!InLoop
  <2>2. /\ UNCHANGED <<xComplete, xOwner, xLast, xAgain, xAborted>> /\ xPc[t] \in {"release", "abort"}
        /\ xInit' = IF xPc[t] = "release" THEN {"complete"} ELSE {}
        /\ xPc' = [xPc EXCEPT ![t] = IF "waiting" \in xInit THEN "wake" ELSE "idle"]
    BY <1>1 DEF Futex!Finish, Futex!Wakes
  <2>3. Futex!Initializing' = {}
    BY <2>1, <2>2 DEF Futex!Initializing, Futex!TypeOK
  <2>4. xPc[t] = "abort" => xOwner = NoThread
    BY DEF Futex!InLoop
  <2>5. Futex!TypeOK'
    BY <2>1, <2>2, <2>3, <2>4 DEF Futex!TypeOK
  <2>6. Futex!SleepersMarked'
    BY <2>2 DEF Futex!SleepersMarked, Futex!TypeOK
  <2>7. \A u \in Thread : Futex!InLoop(u)'
    BY <2>1, <2>2 DEF Futex!InLoop, Futex!TypeOK, FutexBusy
  <2>8. Futex!RecursionDetected'
    BY <2>1, <2>2 DEF Futex!RecursionDetected, Futex!TypeOK
  <2> QED BY <2>5, <2>6, <2>7, <2>8
<1>2. CASE Futex!WakeAll(t)
  <2>1. /\ UNCHANGED <<xInit, xComplete, xOwner, xLast, xAgain, xAborted>> /\ xPc[t] = "wake" /\ ~xAgain[t]
        /\ xPc' = [u \in Thread |-> IF u = t THEN "idle" ELSE IF xPc[u] = "asleep" THEN "try" ELSE xPc[u]]
    BY <1>2 DEF Futex!WakeAll, Futex!InLoop
  <2>2. /\ \A u \in Thread : xPc'[u] \notin {"idle", "try"} => xPc'[u] = xPc[u] /\ xPc[u] # "asleep"
        /\ \A u \in Thread : (FutexBusy(u)' <=> FutexBusy(u)) /\ (xPc'[u] = "release" <=> xPc[u] = "release")
    BY <2>1 DEF FutexBusy, Futex!TypeOK
  <2>3. Futex!Initializing' = Futex!Initializing
    BY <2>2 DEF Futex!Initializing, FutexBusy
  <2>4. (\E u \in Futex!Initializing : xPc'[u] = "release") <=> \E u \in Futex!Initializing : xPc[u] = "release"
    BY <2>2 DEF Futex!Initializing
  <2>5. xPc' \in [Thread -> Futex!Labels]
    BY <2>1 DEF Futex!TypeOK
  <2>6. Futex!TypeOK'
    BY <2>1, <2>3, <2>4, <2>5 DEF Futex!TypeOK
  <2>7. Futex!SleepersMarked'
    BY <2>1 DEF Futex!SleepersMarked, Futex!TypeOK
  <2>8. \A u \in Thread : Futex!InLoop(u)'
    BY <2>1 DEF Futex!InLoop, Futex!TypeOK
  <2>9. Futex!RecursionDetected'
    BY <2>1 DEF Futex!RecursionDetected, Futex!TypeOK
  <2> QED BY <2>6, <2>7, <2>8, <2>9
<1> QED BY <1>1, <1>2

LEMMA FutexStepInv ==
  ASSUME Futex!FlagAssumption, FutexInv, [Futex!Next]_(Futex!vars)
  PROVE  FutexInv'
<1>1. CASE UNCHANGED Futex!vars
  BY <1>1 DEF Futex!vars, FutexInv, Futex!TypeOK, Futex!SleepersMarked, Futex!RecursionDetected,
              Futex!Initializing, Futex!InLoop
<1>2. CASE Futex!Next
  <2>1. PICK t \in Thread : Futex!Call(t) \/ Futex!Recurse(t) \/ Futex!SpuriousWake(t) \/ Futex!ThreadStep(t)
    BY <1>2 DEF Futex!Next
  <2>2. CASE Futex!Mark(t)
    BY <2>2, FutexLoopInv, FutexMarkInv
  <2> QED BY <2>1, <2>2, FutexCallInv, FutexTryInv, FutexLoopInv, FutexMarkInv, FutexEndInv, FutexFinishInv
      DEF Futex!ThreadStep
<1> QED BY <1>1, <1>2

LEMMA FutexCorrect == Futex!FlagAssumption => (Futex!Spec => []FutexInv)
<1>1. ASSUME Futex!FlagAssumption PROVE Futex!Spec => []FutexInv
  <2>1. FutexInv /\ [Futex!Next]_(Futex!vars) => FutexInv'
    BY <1>1, FutexStepInv
  <2> QED BY <1>1, <2>1, FutexInitInv, PTL DEF Futex!Spec
<1> QED BY <1>1

-----------------------------------------------------------------------------
(* call_once and both guards keep GuardsRight, for any number of threads   *)
(* and guards, with and without thread ids.                                *)
THEOREM GuardsCorrect == Once!Spec /\ Mutex!Spec /\ Futex!Spec => []GuardsRight
<1>0. GuardsAssumption
  BY SuiteAssumption
<1>1. Once!TypeOK /\ MutexInv /\ FutexInv => GuardsRight
  BY DEF GuardsRight, MutexInv, FutexInv
<1>2. (Once!Spec => []Once!TypeOK) /\ (Mutex!Spec => []MutexInv) /\ (Futex!Spec => []FutexInv)
  BY <1>0, OnceCorrect, MutexCorrect, FutexCorrect DEF GuardsAssumption
<1> QED BY <1>1, <1>2, PTL

-----------------------------------------------------------------------------
(* Each is one-time initialization.  What a step of OnceInit is, given     *)
(* what becomes of one call and one flag.                                  *)
LEMMA OnceMoves ==
  ASSUME NEW t \in Thread, NEW f \in Flag,
         \A u \in Thread \ {t} : Once!CallOf(u)' = Once!CallOf(u),
         \A g \in Flag \ {f} : Once!StateOf(g)' = Once!StateOf(g),
         \/ /\ Once!CallOf(t) = Once!O!Out /\ Once!CallOf(t)' = Once!O!Calling(f)
            /\ Once!StateOf(f)' = Once!StateOf(f)
         \/ /\ Once!CallOf(t) = Once!O!Calling(f) /\ Once!CallOf(t)' = Once!O!Running(f)
            /\ Once!StateOf(f) = "new" /\ Once!StateOf(f)' = "running"
         \/ /\ Once!CallOf(t) = Once!O!Running(f) /\ Once!CallOf(t)' = Once!O!Out
            /\ Once!StateOf(f)' \in {"done", "new"}
         \/ /\ Once!CallOf(t) = Once!O!Calling(f) /\ Once!CallOf(t)' = Once!O!Out
            /\ Once!StateOf(f) = "done" /\ Once!StateOf(f)' = "done"
  PROVE  Once!O!OnceNext
<1>1. CASE Once!StateOf(f)' = Once!StateOf(f) /\ Once!CallOf(t) = Once!O!Out /\ Once!CallOf(t)' = Once!O!Calling(f)
  BY <1>1 DEF Once!O!OnceNext, Once!O!Begin
<1>2. CASE /\ Once!CallOf(t) = Once!O!Calling(f) /\ Once!CallOf(t)' = Once!O!Running(f)
           /\ Once!StateOf(f) = "new" /\ Once!StateOf(f)' = "running"
  <2>1. [g \in Flag |-> Once!StateOf(g)]' = [[g \in Flag |-> Once!StateOf(g)] EXCEPT ![f] = Once!StateOf(f)']
    OBVIOUS
  <2>2. [u \in Thread |-> Once!CallOf(u)]' = [[u \in Thread |-> Once!CallOf(u)] EXCEPT ![t] = Once!O!Running(f)]
    BY <1>2
  <2>3. Once!O!Run(t, f)
    BY <1>2, <2>1, <2>2 DEF Once!O!Run
  <2> QED BY <2>3 DEF Once!O!OnceNext
<1>3. CASE /\ Once!CallOf(t) = Once!O!Running(f) /\ Once!CallOf(t)' = Once!O!Out
           /\ Once!StateOf(f)' \in {"done", "new"}
  <2>1. [g \in Flag |-> Once!StateOf(g)]' = [[g \in Flag |-> Once!StateOf(g)] EXCEPT ![f] = Once!StateOf(f)']
    OBVIOUS
  <2>2. [u \in Thread |-> Once!CallOf(u)]' = [[u \in Thread |-> Once!CallOf(u)] EXCEPT ![t] = Once!O!Out]
    BY <1>3
  <2>3. Once!O!End(t, f)
    BY <1>3, <2>1, <2>2 DEF Once!O!End
  <2> QED BY <2>3 DEF Once!O!OnceNext
<1>4. CASE /\ Once!CallOf(t) = Once!O!Calling(f) /\ Once!CallOf(t)' = Once!O!Out
           /\ Once!StateOf(f) = "done" /\ Once!StateOf(f)' = "done"
  BY <1>4 DEF Once!O!OnceNext, Once!O!Pass
<1> QED BY <1>1, <1>2, <1>3, <1>4

LEMMA OnceStutters ==
  ASSUME \A u \in Thread : Once!CallOf(u)' = Once!CallOf(u),
         \A g \in Flag : Once!StateOf(g)' = Once!StateOf(g)
  PROVE  UNCHANGED Once!O!onceVars
BY DEF Once!O!onceVars

(* A call and a flag stay what they are while their variables do. *)
LEMMA OnceSame ==
  /\ \A u \in Thread : oPc'[u] = oPc[u] /\ oOn'[u] = oOn[u] => Once!CallOf(u)' = Once!CallOf(u)
  /\ \A f \in Flag : oFlag'[f] = oFlag[f] => Once!StateOf(f)' = Once!StateOf(f)
BY DEF Once!CallOf, Once!StateOf

LEMMA OnceOut == \A u \in Thread : /\ oPc[u] \in {"idle", "broadcast"} => Once!CallOf(u) = Once!O!Out
                                   /\ oPc'[u] \in {"idle", "broadcast"} => Once!CallOf(u)' = Once!O!Out
BY DEF Once!CallOf, Once!O!Out

LEMMA OnceRunning == \A u \in Thread : /\ oPc[u] = "running" => Once!CallOf(u) = Once!O!Running(oOn[u])
                                       /\ oPc'[u] = "running" => Once!CallOf(u)' = Once!O!Running(oOn'[u])
BY DEF Once!CallOf, Once!O!Running

LEMMA OnceCalling ==
  \A u \in Thread : /\ oPc[u] \in {"enter", "asleep", "woken"} => Once!CallOf(u) = Once!O!Calling(oOn[u])
                    /\ oPc'[u] \in {"enter", "asleep", "woken"} => Once!CallOf(u)' = Once!O!Calling(oOn'[u])
BY DEF Once!CallOf, Once!O!Calling

LEMMA OnceStepImplements ==
  ASSUME Once!FlagAssumption, Once!TypeOK, [Once!Next]_(Once!vars)
  PROVE  [Once!O!OnceNext]_(Once!O!onceVars)
<1> USE DEF Once!FlagAssumption, Once!TypeOK, Once!Go, Once!NoFlag, Once!Done
<1>1. CASE UNCHANGED Once!vars
  <2>1. UNCHANGED Once!O!onceVars
    BY <1>1, OnceSame, OnceStutters DEF Once!vars
  <2> QED BY <2>1
<1>2. ASSUME NEW t \in Thread, Once!Call(t) PROVE Once!O!OnceNext
  <2>1. PICK f \in Flag : oOn' = [oOn EXCEPT ![t] = f]
    BY <1>2 DEF Once!Call
  <2>2. /\ \A u \in Thread \ {t} : oPc'[u] = oPc[u] /\ oOn'[u] = oOn[u]
        /\ oFlag' = oFlag /\ oPc[t] = "idle" /\ oPc'[t] = "enter" /\ oOn'[t] = f
    BY <1>2, <2>1 DEF Once!Call
  <2> QED BY <2>2, OnceSame, OnceOut, OnceCalling, OnceMoves
<1>3. ASSUME NEW t \in Thread, Once!SpuriousWake(t) PROVE UNCHANGED Once!O!onceVars
  <2>1. /\ \A u \in Thread \ {t} : oPc'[u] = oPc[u]
        /\ oFlag' = oFlag /\ oPc[t] = "asleep" /\ oPc'[t] = "woken" /\ oOn' = oOn
    BY <1>3 DEF Once!SpuriousWake
  <2> QED BY <2>1, OnceSame, OnceCalling, OnceStutters
<1>4. ASSUME NEW t \in Thread, Once!Enter(t) PROVE Once!O!OnceNext \/ UNCHANGED Once!O!onceVars
  <2>0. /\ oOn[t] \in Flag /\ oPc[t] \in {"enter", "woken"}
        /\ \A u \in Thread \ {t} : oPc'[u] = oPc[u] /\ oOn'[u] = oOn[u]
        /\ \A g \in Flag \ {oOn[t]} : oFlag'[g] = oFlag[g]
    BY <1>4 DEF Once!Enter, Once!Return
  <2>1. \/ oPc'[t] = "asleep" /\ oOn'[t] = oOn[t] /\ oFlag' = oFlag
        \/ oPc'[t] = "running" /\ oOn'[t] = oOn[t] /\ oFlag[oOn[t]] = 0 /\ oFlag'[oOn[t]] = 1
        \/ oPc'[t] = "idle" /\ oFlag[oOn[t]] = 2 /\ oFlag'[oOn[t]] = 2
    BY <1>4, <2>0 DEF Once!Enter, Once!Return, Once!Waits
  <2>2. CASE oPc'[t] = "asleep"
    BY <2>0, <2>1, <2>2, OnceSame, OnceCalling, OnceStutters
  <2>3. CASE oPc'[t] = "running"
    <3>1. Once!StateOf(oOn[t]) = "new" /\ Once!StateOf(oOn[t])' = "running"
      BY <2>1, <2>3 DEF Once!StateOf
    <3> QED BY <2>0, <2>1, <2>3, <3>1, OnceSame, OnceCalling, OnceRunning, OnceMoves
  <2>4. CASE oPc'[t] = "idle"
    <3>1. \A f \in Flag : oFlag[f] = 2 /\ oFlag'[f] = 2 => Once!StateOf(f) = "done" /\ Once!StateOf(f)' = "done"
      BY DEF Once!StateOf
    <3> QED BY <2>0, <2>1, <2>4, <3>1, OnceSame, OnceCalling, OnceOut, OnceMoves
  <2> QED BY <2>1, <2>2, <2>3, <2>4
<1>5. ASSUME NEW t \in Thread, Once!RunEnds(t) PROVE Once!O!OnceNext
  <2>0. /\ oOn[t] \in Flag /\ oPc[t] = "running" /\ oPc'[t] = "broadcast" /\ oOn' = oOn
        /\ \A u \in Thread \ {t} : oPc'[u] = oPc[u]
        /\ \A g \in Flag \ {oOn[t]} : oFlag'[g] = oFlag[g]
        /\ oFlag'[oOn[t]] \in {0, 2}
    BY <1>5 DEF Once!RunEnds, Once!AfterFailure
  <2>1. \A f \in Flag : oFlag'[f] \in {0, 2} => Once!StateOf(f)' \in {"done", "new"}
    BY DEF Once!StateOf
  <2> QED BY <2>0, <2>1, OnceSame, OnceRunning, OnceOut, OnceMoves
<1>6. ASSUME NEW t \in Thread, Once!Broadcast(t) PROVE UNCHANGED Once!O!onceVars
  <2>1. /\ oFlag' = oFlag /\ oPc[t] = "broadcast" /\ oPc'[t] = "idle"
        /\ \A u \in Thread \ {t} : /\ oOn'[u] = oOn[u]
                                   /\ oPc'[u] = oPc[u] \/ (oPc[u] = "asleep" /\ oPc'[u] = "woken")
    BY <1>6 DEF Once!Broadcast, Once!WokenThreads
  <2>2. \A u \in Thread : Once!CallOf(u)' = Once!CallOf(u)
    BY <2>1, OnceSame, OnceCalling, OnceOut
  <2> QED BY <2>1, <2>2, OnceSame, OnceStutters
<1> QED BY <1>1, <1>2, <1>3, <1>4, <1>5, <1>6 DEF Once!Next, Once!ThreadStep

LEMMA MutexMoves ==
  ASSUME NEW t \in Thread, NEW f \in Flag,
         \A u \in Thread \ {t} : Mutex!CallOf(u)' = Mutex!CallOf(u),
         \A g \in Flag \ {f} : Mutex!StateOf(g)' = Mutex!StateOf(g),
         \/ /\ Mutex!CallOf(t) = Mutex!O!Out /\ Mutex!CallOf(t)' = Mutex!O!Calling(f)
            /\ Mutex!StateOf(f)' = Mutex!StateOf(f)
         \/ /\ Mutex!CallOf(t) = Mutex!O!Calling(f) /\ Mutex!CallOf(t)' = Mutex!O!Running(f)
            /\ Mutex!StateOf(f) = "new" /\ Mutex!StateOf(f)' = "running"
         \/ /\ Mutex!CallOf(t) = Mutex!O!Running(f) /\ Mutex!CallOf(t)' = Mutex!O!Out
            /\ Mutex!StateOf(f)' \in {"done", "new"}
         \/ /\ Mutex!CallOf(t) = Mutex!O!Calling(f) /\ Mutex!CallOf(t)' = Mutex!O!Out
            /\ Mutex!StateOf(f) = "done" /\ Mutex!StateOf(f)' = "done"
  PROVE  Mutex!O!OnceNext
<1>1. CASE Mutex!StateOf(f)' = Mutex!StateOf(f) /\ Mutex!CallOf(t) = Mutex!O!Out /\ Mutex!CallOf(t)' = Mutex!O!Calling(f)
  BY <1>1 DEF Mutex!O!OnceNext, Mutex!O!Begin
<1>2. CASE /\ Mutex!CallOf(t) = Mutex!O!Calling(f) /\ Mutex!CallOf(t)' = Mutex!O!Running(f)
           /\ Mutex!StateOf(f) = "new" /\ Mutex!StateOf(f)' = "running"
  <2>1. [g \in Flag |-> Mutex!StateOf(g)]' = [[g \in Flag |-> Mutex!StateOf(g)] EXCEPT ![f] = Mutex!StateOf(f)']
    OBVIOUS
  <2>2. [u \in Thread |-> Mutex!CallOf(u)]' = [[u \in Thread |-> Mutex!CallOf(u)] EXCEPT ![t] = Mutex!O!Running(f)]
    BY <1>2
  <2>3. Mutex!O!Run(t, f)
    BY <1>2, <2>1, <2>2 DEF Mutex!O!Run
  <2> QED BY <2>3 DEF Mutex!O!OnceNext
<1>3. CASE /\ Mutex!CallOf(t) = Mutex!O!Running(f) /\ Mutex!CallOf(t)' = Mutex!O!Out
           /\ Mutex!StateOf(f)' \in {"done", "new"}
  <2>1. [g \in Flag |-> Mutex!StateOf(g)]' = [[g \in Flag |-> Mutex!StateOf(g)] EXCEPT ![f] = Mutex!StateOf(f)']
    OBVIOUS
  <2>2. [u \in Thread |-> Mutex!CallOf(u)]' = [[u \in Thread |-> Mutex!CallOf(u)] EXCEPT ![t] = Mutex!O!Out]
    BY <1>3
  <2>3. Mutex!O!End(t, f)
    BY <1>3, <2>1, <2>2 DEF Mutex!O!End
  <2> QED BY <2>3 DEF Mutex!O!OnceNext
<1>4. CASE /\ Mutex!CallOf(t) = Mutex!O!Calling(f) /\ Mutex!CallOf(t)' = Mutex!O!Out
           /\ Mutex!StateOf(f) = "done" /\ Mutex!StateOf(f)' = "done"
  BY <1>4 DEF Mutex!O!OnceNext, Mutex!O!Pass
<1> QED BY <1>1, <1>2, <1>3, <1>4

LEMMA MutexStutters ==
  ASSUME \A u \in Thread : Mutex!CallOf(u)' = Mutex!CallOf(u),
         \A g \in Flag : Mutex!StateOf(g)' = Mutex!StateOf(g)
  PROVE  UNCHANGED Mutex!O!onceVars
BY DEF Mutex!O!onceVars

LEMMA MutexSameCall ==
  /\ \A u \in Thread : mPc'[u] = mPc[u] /\ mOn'[u] = mOn[u] /\ mAgain'[u] = mAgain[u]
                         => Mutex!CallOf(u)' = Mutex!CallOf(u)
  /\ \A f \in Flag : mComplete'[f] = mComplete[f] /\ mInit'[f] = mInit[f]
                      => Mutex!StateOf(f)' = Mutex!StateOf(f)
BY DEF Mutex!CallOf, Mutex!StateOf

LEMMA MutexOut ==
  \A u \in Thread : /\ mPc[u] \in {"idle", "broadcast", "release"} => Mutex!CallOf(u) = Mutex!O!Out
                    /\ mPc'[u] \in {"idle", "broadcast", "release"} => Mutex!CallOf(u)' = Mutex!O!Out
BY DEF Mutex!CallOf, Mutex!O!Out

LEMMA MutexRunning ==
  \A u \in Thread :
    /\ mPc[u] = "running" \/ (mAgain[u] /\ mPc[u] \in {"acquire", "enter", "asleep", "woken"})
         => Mutex!CallOf(u) = Mutex!O!Running(mOn[u])
    /\ mPc'[u] = "running" \/ (mAgain'[u] /\ mPc'[u] \in {"acquire", "enter", "asleep", "woken"})
         => Mutex!CallOf(u)' = Mutex!O!Running(mOn'[u])
BY DEF Mutex!CallOf, Mutex!O!Running

LEMMA MutexCalling ==
  \A u \in Thread : /\ mPc[u] \in {"acquire", "enter", "asleep", "woken"} /\ ~mAgain[u]
                         => Mutex!CallOf(u) = Mutex!O!Calling(mOn[u])
                    /\ mPc'[u] \in {"acquire", "enter", "asleep", "woken"} /\ ~mAgain'[u]
                         => Mutex!CallOf(u)' = Mutex!O!Calling(mOn'[u])
BY DEF Mutex!CallOf, Mutex!O!Calling

LEMMA MutexStepImplements ==
  ASSUME Mutex!FlagAssumption, MutexInv, [Mutex!Next]_(Mutex!vars)
  PROVE  [Mutex!O!OnceNext]_(Mutex!O!onceVars)
<1> USE DEF Mutex!FlagAssumption, MutexInv, Mutex!TypeOK, Mutex!Go, Mutex!NoFlag, Mutex!Return,
            Mutex!Unset, Mutex!Complete, Mutex!Pending
<1>1. CASE UNCHANGED Mutex!vars
  <2>1. UNCHANGED Mutex!O!onceVars
    BY <1>1, MutexSameCall, MutexStutters DEF Mutex!vars
  <2> QED BY <2>1
<1>2. ASSUME NEW t \in Thread, Mutex!Call(t) PROVE Mutex!O!OnceNext
  <2>1. PICK f \in Flag : mOn' = [mOn EXCEPT ![t] = f]
    BY <1>2 DEF Mutex!Call
  <2>2. /\ \A u \in Thread \ {t} : mPc'[u] = mPc[u] /\ mOn'[u] = mOn[u]
        /\ mComplete' = mComplete /\ mInit' = mInit /\ mAgain' = mAgain /\ ~mAgain[t]
        /\ mPc[t] = "idle" /\ mPc'[t] = "acquire" /\ mOn'[t] = f
    BY <1>2, <2>1 DEF Mutex!Call
  <2> QED BY <2>2, MutexSameCall, MutexOut, MutexCalling, MutexMoves
<1>3. ASSUME NEW t \in Thread, Mutex!Recurse(t) \/ Mutex!SpuriousWake(t) PROVE UNCHANGED Mutex!O!onceVars
  <2>1. /\ \A u \in Thread \ {t} : mPc'[u] = mPc[u] /\ mAgain'[u] = mAgain[u]
        /\ mComplete' = mComplete /\ mInit' = mInit /\ mOn' = mOn
        /\ \/ mPc[t] = "running" /\ mPc'[t] = "acquire" /\ mAgain'[t]
           \/ mPc[t] = "asleep" /\ mPc'[t] = "woken" /\ (mAgain'[t] <=> mAgain[t])
    BY <1>3 DEF Mutex!Recurse, Mutex!SpuriousWake
  <2> QED BY <2>1, MutexSameCall, MutexRunning, MutexCalling, MutexStutters
<1>4. ASSUME NEW t \in Thread, Mutex!Acquire(t) PROVE Mutex!O!OnceNext \/ UNCHANGED Mutex!O!onceVars
  <2>0. mOn[t] \in Flag /\ (mAgain[t] => ~mComplete[mOn[t]])
    BY <1>4, MutexSole DEF Mutex!Acquire, Busy
  <2>1. /\ \A u \in Thread \ {t} : mPc'[u] = mPc[u] /\ mOn'[u] = mOn[u]
        /\ mComplete' = mComplete /\ mInit' = mInit /\ mAgain' = mAgain /\ mPc[t] = "acquire"
        /\ \/ mComplete[mOn[t]] /\ mPc'[t] = "idle"
           \/ mPc'[t] = "enter" /\ mOn'[t] = mOn[t]
    BY <1>4 DEF Mutex!Acquire, Mutex!IsDone
  <2>2. CASE mComplete[mOn[t]] /\ mPc'[t] = "idle"
    <3> DEFINE f == mOn[t]
    <3>1. Mutex!StateOf(f) = "done" /\ \A g \in Flag : Mutex!StateOf(g)' = Mutex!StateOf(g)
      BY <2>0, <2>1, <2>2, MutexSameCall DEF Mutex!StateOf
    <3> QED BY <2>0, <2>1, <2>2, <3>1, MutexSameCall, MutexOut, MutexCalling, MutexMoves
  <2>3. CASE mPc'[t] = "enter" /\ mOn'[t] = mOn[t]
    BY <2>1, <2>3, MutexSameCall, MutexRunning, MutexCalling, MutexStutters
  <2> QED BY <2>1, <2>2, <2>3
<1>5. ASSUME NEW t \in Thread, Mutex!Enter(t) PROVE Mutex!O!OnceNext \/ UNCHANGED Mutex!O!onceVars
  <2>0. /\ mOn[t] \in Flag /\ mPc[t] \in {"enter", "woken"} /\ mComplete' = mComplete /\ mAgain' = mAgain
        /\ \A u \in Thread \ {t} : mPc'[u] = mPc[u] /\ mOn'[u] = mOn[u]
        /\ \A g \in Flag \ {mOn[t]} : mInit'[g] = mInit[g]
    BY <1>5 DEF Mutex!Enter
  <2>1. mAgain[t] => "pending" \in mInit[mOn[t]]
    BY <2>0, MutexSole DEF Busy
  <2>2. \/ /\ mPc'[t] \in {"asleep", "enter"} /\ mOn'[t] = mOn[t]
           /\ \A g \in Flag : "pending" \in mInit'[g] <=> "pending" \in mInit[g]
        \/ mPc'[t] = "idle" /\ mInit[mOn[t]] = {"complete"} /\ mInit' = mInit
        \/ /\ mPc'[t] = "running" /\ mOn'[t] = mOn[t] /\ mInit[mOn[t]] = {}
           /\ mInit' = [mInit EXCEPT ![mOn[t]] = {"pending"}]
    <3>1. CASE /\ mPc[t] = "enter" /\ Mutex!Recursive(t)
               /\ UNCHANGED <<mInit, mOwner, mPc, mOn>>
      BY <3>1
    <3>2. CASE /\ "pending" \in mInit[mOn[t]]
               /\ mInit' = [mInit EXCEPT ![mOn[t]] = Mutex!Marked(mOn[t])]
               /\ mPc' = [mPc EXCEPT ![t] = "asleep"] /\ mOn' = mOn
      BY <2>0, <3>2 DEF Mutex!Marked
    <3>3. CASE /\ mInit[mOn[t]] = {"complete"} /\ mInit' = mInit
               /\ mPc' = [mPc EXCEPT ![t] = "idle"]
      BY <2>0, <3>3
    <3>4. CASE /\ "pending" \notin mInit[mOn[t]] /\ mInit[mOn[t]] # {"complete"}
               /\ mInit' = [mInit EXCEPT ![mOn[t]] = {"pending"}]
               /\ mPc' = [mPc EXCEPT ![t] = "running"] /\ mOn' = mOn
      BY <2>0, <3>4
    <3> QED BY <1>5, <3>1, <3>2, <3>3, <3>4 DEF Mutex!Enter
  <2>3. CASE /\ mPc'[t] \in {"asleep", "enter"} /\ mOn'[t] = mOn[t]
             /\ \A g \in Flag : "pending" \in mInit'[g] <=> "pending" \in mInit[g]
    <3>1. \A g \in Flag : Mutex!StateOf(g)' = Mutex!StateOf(g)
      BY <2>0, <2>3 DEF Mutex!StateOf
    <3>2. \A u \in Thread : Mutex!CallOf(u)' = Mutex!CallOf(u)
      BY <2>0, <2>3, MutexSameCall, MutexRunning, MutexCalling
    <3> QED BY <3>1, <3>2, MutexStutters
  <2>4. CASE mPc'[t] = "idle" /\ mInit[mOn[t]] = {"complete"} /\ mInit' = mInit
    <3> DEFINE f == mOn[t]
    <3>1. f \in Flag /\ Mutex!StateOf(f) = "done" /\ \A g \in Flag : Mutex!StateOf(g)' = Mutex!StateOf(g)
      BY <2>0, <2>4, MutexSameCall DEF Mutex!StateOf
    <3>2. ~mAgain[t]
      BY <2>1, <2>4
    <3> QED BY <2>0, <2>4, <3>1, <3>2, MutexSameCall, MutexOut, MutexCalling, MutexMoves
  <2>5. CASE /\ mPc'[t] = "running" /\ mOn'[t] = mOn[t] /\ mInit[mOn[t]] = {}
             /\ mInit' = [mInit EXCEPT ![mOn[t]] = {"pending"}]
    <3> DEFINE f == mOn[t]
    <3>1. ~mAgain[t]
      BY <2>1, <2>5
    <3>2. ~mComplete[f] /\ mInit'[f] = {"pending"} /\ Mutex!Initializing(f) = {}
      BY <2>0, <2>5
    <3>3. Mutex!StateOf(f) = "new" /\ \A g \in Flag : g = f => Mutex!StateOf(g)' = "running"
      BY <2>0, <2>5, <3>2 DEF Mutex!StateOf
    <3>4. \A g \in Flag \ {f} : Mutex!StateOf(g)' = Mutex!StateOf(g)
      BY <2>0, MutexSameCall
    <3> QED BY <2>0, <2>5, <3>1, <3>3, <3>4, MutexSameCall, MutexRunning, MutexCalling, MutexMoves
  <2> QED BY <2>2, <2>3, <2>4, <2>5
<1>6. ASSUME NEW t \in Thread, Mutex!Release(t) PROVE Mutex!O!OnceNext
  <2>0. /\ mOn[t] \in Flag /\ mPc[t] = "running" /\ mPc'[t] = "release" /\ mOn' = mOn /\ mInit' = mInit
        /\ mAgain' = mAgain /\ \A u \in Thread \ {t} : mPc'[u] = mPc[u]
        /\ mComplete'[mOn[t]] /\ \A g \in Flag \ {mOn[t]} : mComplete'[g] = mComplete[g]
    BY <1>6 DEF Mutex!Release
  <2>1. \A g \in Flag : g = mOn[t] => Mutex!StateOf(g)' = "done"
    BY <2>0 DEF Mutex!StateOf
  <2> QED BY <2>0, <2>1, MutexSameCall, MutexRunning, MutexOut, MutexMoves
<1>7. ASSUME NEW t \in Thread, Mutex!Finish(t) PROVE Mutex!O!OnceNext \/ UNCHANGED Mutex!O!onceVars
  <2>0. /\ mOn[t] \in Flag /\ mPc[t] \in {"running", "release"}
        /\ mComplete[mOn[t]] <=> mPc[t] = "release"
    BY <1>7, MutexSole DEF Busy, Mutex!Finish
  <2>1. /\ mComplete' = mComplete /\ mAgain' = mAgain /\ mPc'[t] \in {"idle", "broadcast"}
        /\ \A u \in Thread \ {t} : mPc'[u] = mPc[u] /\ mOn'[u] = mOn[u]
        /\ \A g \in Flag \ {mOn[t]} : mInit'[g] = mInit[g]
        /\ mPc[t] = "running" => mInit'[mOn[t]] = {}
    BY <1>7, <2>0 DEF Mutex!Finish, Mutex!AfterAbort
  <2>2. CASE mPc[t] = "running"
    <3>1. \A g \in Flag : g = mOn[t] => Mutex!StateOf(g)' = "new"
      BY <2>0, <2>1, <2>2 DEF Mutex!StateOf
    <3> QED BY <2>0, <2>1, <2>2, <3>1, MutexSameCall, MutexRunning, MutexOut, MutexMoves
  <2>3. CASE mPc[t] = "release"
    <3>1. \A g \in Flag : g = mOn[t] => Mutex!StateOf(g) = "done" /\ Mutex!StateOf(g)' = "done"
      BY <2>0, <2>1, <2>3 DEF Mutex!StateOf
    <3>2. \A g \in Flag : Mutex!StateOf(g)' = Mutex!StateOf(g)
      BY <2>1, <3>1, MutexSameCall
    <3> QED BY <2>1, <2>3, <3>2, MutexSameCall, MutexOut, MutexStutters
  <2> QED BY <2>0, <2>2, <2>3
<1>8. ASSUME NEW t \in Thread, Mutex!Broadcast(t) PROVE UNCHANGED Mutex!O!onceVars
  <2>1. /\ mComplete' = mComplete /\ mInit' = mInit /\ mAgain' = mAgain
        /\ mPc[t] = "broadcast" /\ mPc'[t] = "idle"
        /\ \A u \in Thread \ {t} : /\ mOn'[u] = mOn[u]
                                   /\ mPc'[u] = mPc[u] \/ (mPc[u] = "asleep" /\ mPc'[u] = "woken")
    BY <1>8 DEF Mutex!Broadcast
  <2>2. \A u \in Thread : Mutex!CallOf(u)' = Mutex!CallOf(u)
    BY <2>1, MutexSameCall, MutexCalling, MutexRunning, MutexOut
  <2> QED BY <2>1, <2>2, MutexSameCall, MutexStutters
<1> QED BY <1>1, <1>2, <1>3, <1>4, <1>5, <1>6, <1>7, <1>8 DEF Mutex!Next, Mutex!ThreadStep

LEMMA FutexDoes ==
  ASSUME NEW t \in Thread,
         \A u \in Thread \ {t} : Futex!CallOf(u)' = Futex!CallOf(u),
         \/ /\ Futex!CallOf(t) = Futex!O!Out /\ Futex!CallOf(t)' = Futex!O!Calling("guard")
            /\ Futex!State' = Futex!State
         \/ /\ Futex!CallOf(t) = Futex!O!Calling("guard") /\ Futex!CallOf(t)' = Futex!O!Running("guard")
            /\ Futex!State = "new" /\ Futex!State' = "running"
         \/ /\ Futex!CallOf(t) = Futex!O!Running("guard") /\ Futex!CallOf(t)' = Futex!O!Out
            /\ Futex!State' \in {"done", "new"}
         \/ /\ Futex!CallOf(t) = Futex!O!Calling("guard") /\ Futex!CallOf(t)' = Futex!O!Out
            /\ Futex!State = "done" /\ Futex!State' = "done"
  PROVE  Futex!O!OnceNext
<1>1. CASE /\ Futex!CallOf(t) = Futex!O!Out /\ Futex!CallOf(t)' = Futex!O!Calling("guard")
           /\ Futex!State' = Futex!State
  BY <1>1 DEF Futex!O!OnceNext, Futex!O!Begin
<1>a. [g \in {"guard"} |-> Futex!State]' = [[g \in {"guard"} |-> Futex!State] EXCEPT !["guard"] = Futex!State']
  OBVIOUS
<1>2. CASE /\ Futex!CallOf(t) = Futex!O!Calling("guard") /\ Futex!CallOf(t)' = Futex!O!Running("guard")
           /\ Futex!State = "new" /\ Futex!State' = "running"
  <2>2. [u \in Thread |-> Futex!CallOf(u)]' = [[u \in Thread |-> Futex!CallOf(u)] EXCEPT ![t] = Futex!O!Running("guard")]
    BY <1>2
  <2>3. Futex!O!Run(t, "guard")
    BY <1>2, <1>a, <2>2 DEF Futex!O!Run
  <2> QED BY <2>3 DEF Futex!O!OnceNext
<1>3. CASE /\ Futex!CallOf(t) = Futex!O!Running("guard") /\ Futex!CallOf(t)' = Futex!O!Out
           /\ Futex!State' \in {"done", "new"}
  <2>2. [u \in Thread |-> Futex!CallOf(u)]' = [[u \in Thread |-> Futex!CallOf(u)] EXCEPT ![t] = Futex!O!Out]
    BY <1>3
  <2>3. Futex!O!End(t, "guard")
    BY <1>3, <1>a, <2>2 DEF Futex!O!End
  <2> QED BY <2>3 DEF Futex!O!OnceNext
<1>4. CASE /\ Futex!CallOf(t) = Futex!O!Calling("guard") /\ Futex!CallOf(t)' = Futex!O!Out
           /\ Futex!State = "done" /\ Futex!State' = "done"
  BY <1>4 DEF Futex!O!OnceNext, Futex!O!Pass
<1> QED BY <1>1, <1>2, <1>3, <1>4

LEMMA FutexStutters ==
  ASSUME \A u \in Thread : Futex!CallOf(u)' = Futex!CallOf(u), Futex!State' = Futex!State
  PROVE  UNCHANGED Futex!O!onceVars
BY DEF Futex!O!onceVars

LEMMA FutexSameCall ==
  \A u \in Thread : xPc'[u] = xPc[u] /\ xAgain'[u] = xAgain[u] => Futex!CallOf(u)' = Futex!CallOf(u)
BY DEF Futex!CallOf

LEMMA FutexOut ==
  \A u \in Thread : /\ xPc[u] \in {"idle", "release", "wake"} => Futex!CallOf(u) = Futex!O!Out
                    /\ xPc'[u] \in {"idle", "release", "wake"} => Futex!CallOf(u)' = Futex!O!Out
BY DEF Futex!CallOf, Futex!O!Out

(* The labels of the loop of acquire, where the call may be one of the     *)
(* initializer itself.                                                     *)
Loop == {"acquire", "try", "recursion", "mark", "futex", "asleep"}

LEMMA FutexRunning ==
  \A u \in Thread :
    /\ xPc[u] \in {"own", "running", "abort"} \/ (xAgain[u] /\ xPc[u] \in Loop)
         => Futex!CallOf(u) = Futex!O!Running("guard")
    /\ xPc'[u] \in {"own", "running", "abort"} \/ (xAgain'[u] /\ xPc'[u] \in Loop)
         => Futex!CallOf(u)' = Futex!O!Running("guard")
BY DEF Futex!CallOf, Futex!O!Running, Loop

LEMMA FutexCalling ==
  \A u \in Thread : /\ xPc[u] \in Loop /\ ~xAgain[u] => Futex!CallOf(u) = Futex!O!Calling("guard")
                    /\ xPc'[u] \in Loop /\ ~xAgain'[u] => Futex!CallOf(u)' = Futex!O!Calling("guard")
BY DEF Futex!CallOf, Futex!O!Calling, Loop

(* Inside the loop nothing is decided. *)
LEMMA FutexLoops ==
  ASSUME NEW t \in Thread, xAgain' = xAgain, \A u \in Thread \ {t} : xPc'[u] = xPc[u],
         xPc[t] \in Loop, xPc'[t] \in Loop, Futex!State' = Futex!State, xAgain[t] \in BOOLEAN
  PROVE  UNCHANGED Futex!O!onceVars
BY FutexSameCall, FutexRunning, FutexCalling, FutexStutters

(* A call finds the initialization done. *)
LEMMA FutexPasses ==
  ASSUME NEW t \in Thread, FutexInv, Futex!FlagAssumption, xAgain' = xAgain,
         \A u \in Thread \ {t} : xPc'[u] = xPc[u],
         xPc[t] \in Loop, xPc'[t] = "idle", UNCHANGED <<xComplete, xInit>>,
         xInit = {"complete"} \/ (xComplete /\ xPc[t] = "acquire")
  PROVE  Futex!O!OnceNext
<1>1. xComplete
  BY DEF FutexInv, Futex!TypeOK, Futex!Complete
<1>2. ~xAgain[t]
  BY <1>1, FutexSole DEF FutexBusy, Loop
<1>3. Futex!State = "done" /\ Futex!State' = "done"
  BY <1>1 DEF Futex!State
<1> QED BY <1>2, <1>3, FutexSameCall, FutexOut, FutexCalling, FutexDoes

LEMMA FutexStepImplements ==
  ASSUME Futex!FlagAssumption, FutexInv, [Futex!Next]_(Futex!vars)
  PROVE  [Futex!O!OnceNext]_(Futex!O!onceVars)
<1> USE DEF Futex!FlagAssumption, FutexInv, Futex!TypeOK, Futex!Go, Futex!Saw, Futex!Labels,
            Futex!Unset, Futex!Complete, Futex!Pending, Futex!Waiting
<1> DEFINE Implemented == Futex!O!OnceNext \/ UNCHANGED Futex!O!onceVars
<1>1. CASE UNCHANGED Futex!vars
  BY <1>1, FutexSameCall, FutexStutters DEF Futex!vars, Futex!State
<1>2. ASSUME NEW t \in Thread, Futex!Call(t) PROVE Implemented
  <2>1. /\ \A u \in Thread \ {t} : xPc'[u] = xPc[u]
        /\ UNCHANGED <<xComplete, xInit, xAgain>> /\ xPc[t] = "idle" /\ xPc'[t] = "acquire" /\ ~xAgain[t]
    BY <1>2 DEF Futex!Call, Futex!InLoop
  <2>2. Futex!State' = Futex!State /\ xPc'[t] \in Loop
    BY <2>1 DEF Futex!State, Loop
  <2> QED BY <2>1, <2>2, FutexSameCall, FutexOut, FutexCalling, FutexDoes
<1>3. ASSUME NEW t \in Thread, Futex!Recurse(t) \/ Futex!StoreOwner(t) \/ Futex!Abort(t) PROVE Implemented
  <2>1. /\ UNCHANGED <<xComplete, xInit>> /\ xPc[t] \in {"own", "running"}
        /\ xPc'[t] \in {"own", "running", "abort"} \/ (xAgain'[t] /\ xPc'[t] \in Loop)
        /\ \A u \in Thread \ {t} : xPc'[u] = xPc[u] /\ xAgain'[u] = xAgain[u]
    BY <1>3 DEF Futex!Recurse, Futex!StoreOwner, Futex!Abort, Loop
  <2>2. Futex!State' = Futex!State
    BY <2>1 DEF Futex!State
  <2> QED BY <2>1, <2>2, FutexSameCall, FutexRunning, FutexStutters
<1>4. ASSUME NEW t \in Thread, Futex!SpuriousWake(t) \/ Futex!CheckRecursion(t) \/ Futex!FutexWait(t) PROVE Implemented
  <2>1. /\ UNCHANGED <<xComplete, xInit, xAgain>> /\ xPc[t] \in Loop /\ xPc'[t] \in Loop
        /\ \A u \in Thread \ {t} : xPc'[u] = xPc[u]
    BY <1>4 DEF Futex!SpuriousWake, Futex!CheckRecursion, Futex!FutexWait, Loop
  <2>2. Futex!State' = Futex!State
    BY <2>1 DEF Futex!State
  <2> QED BY <2>1, <2>2, FutexLoops
<1>5. ASSUME NEW t \in Thread, Futex!Acquire(t) PROVE Implemented
  <2>1. /\ UNCHANGED <<xComplete, xInit, xAgain>> /\ xPc[t] = "acquire"
        /\ \A u \in Thread \ {t} : xPc'[u] = xPc[u]
        /\ xPc'[t] = IF xComplete THEN "idle" ELSE "try"
    BY <1>5 DEF Futex!Acquire
  <2>2. CASE xComplete
    BY <2>1, <2>2, FutexPasses DEF Loop
  <2>3. CASE ~xComplete
    <3>1. Futex!State' = Futex!State /\ xPc[t] \in Loop /\ xPc'[t] \in Loop
      BY <2>1, <2>3 DEF Futex!State, Loop
    <3> QED BY <2>1, <3>1, FutexLoops
  <2> QED BY <2>2, <2>3
<1>6. ASSUME NEW t \in Thread, Futex!TryPending(t) PROVE Implemented
  <2>1. UNCHANGED <<xComplete, xAgain>> /\ xPc[t] = "try" /\ \A u \in Thread \ {t} : xPc'[u] = xPc[u]
    BY <1>6 DEF Futex!TryPending
  <2>2. CASE xInit = {}
    <3>1. xInit' = {"pending"} /\ xPc'[t] = "own"
      BY <1>6, <2>2 DEF Futex!TryPending, Futex!Wins
    <3>2. ~xComplete /\ ~xAgain[t]
      BY <2>1, <2>2, FutexNone DEF FutexBusy
    <3>3. Futex!State = "new" /\ Futex!State' = "running" /\ xPc[t] \in Loop
      BY <2>1, <2>2, <3>1, <3>2 DEF Futex!State, Loop
    <3> QED BY <2>1, <3>1, <3>2, <3>3, FutexSameCall, FutexRunning, FutexCalling, FutexDoes
  <2>3. CASE xInit = {"complete"}
    <3>1. xInit' = xInit /\ xPc'[t] = "idle"
      BY <1>6, <2>3 DEF Futex!TryPending, Futex!Wins
    <3> QED BY <2>1, <2>3, <3>1, FutexPasses DEF Loop
  <2>4. CASE xInit \notin {{}, {"complete"}}
    <3>1. xInit' = xInit /\ xPc'[t] = "recursion"
      BY <1>6, <2>4 DEF Futex!TryPending, Futex!Wins
    <3>2. Futex!State' = Futex!State /\ xPc[t] \in Loop /\ xPc'[t] \in Loop
      BY <2>1, <3>1 DEF Futex!State, Loop
    <3> QED BY <2>1, <3>2, FutexLoops
  <2> QED BY <2>2, <2>3, <2>4
<1>7. ASSUME NEW t \in Thread, Futex!Mark(t) PROVE Implemented
  <2>1. UNCHANGED <<xComplete, xAgain>> /\ xPc[t] = "mark" /\ \A u \in Thread \ {t} : xPc'[u] = xPc[u]
    BY <1>7 DEF Futex!Mark
  <2>2. xLast[t] = {"pending"}
    BY <2>1 DEF Futex!InLoop
  <2>3. CASE xInit = {"complete"}
    <3>1. xInit' = xInit /\ xPc'[t] = "idle"
      BY <1>7, <2>2, <2>3 DEF Futex!Mark
    <3> QED BY <2>1, <2>3, <3>1, FutexPasses DEF Loop
  <2>4. CASE xInit # {"complete"}
    <3>1. ("pending" \in xInit' <=> "pending" \in xInit) /\ xPc'[t] \in {"try", "futex"}
      BY <1>7, <2>2, <2>4 DEF Futex!Mark
    <3>2. Futex!State' = Futex!State /\ xPc[t] \in Loop /\ xPc'[t] \in Loop
      BY <2>1, <3>1 DEF Futex!State, Loop
    <3> QED BY <2>1, <3>2, FutexLoops
  <2> QED BY <2>3, <2>4
<1>8. ASSUME NEW t \in Thread, Futex!Release(t) PROVE Implemented
  <2>1. /\ xComplete' /\ xAgain' = xAgain /\ xPc[t] = "running" /\ xPc'[t] = "release"
        /\ \A u \in Thread \ {t} : xPc'[u] = xPc[u]
    BY <1>8 DEF Futex!Release
  <2>2. Futex!State' = "done"
    BY <2>1 DEF Futex!State
  <2> QED BY <2>1, <2>2, FutexSameCall, FutexRunning, FutexOut, FutexDoes
<1>9. ASSUME NEW t \in Thread, Futex!Finish(t) PROVE Implemented
  <2>1. /\ UNCHANGED <<xComplete, xAgain>> /\ xPc[t] \in {"release", "abort"} /\ xPc'[t] \in {"wake", "idle"}
        /\ xInit' = IF xPc[t] = "release" THEN {"complete"} ELSE {}
        /\ \A u \in Thread \ {t} : xPc'[u] = xPc[u]
    BY <1>9 DEF Futex!Finish
  <2>2. xComplete <=> xPc[t] = "release"
    BY <2>1, FutexSole DEF FutexBusy
  <2>3. CASE xPc[t] = "release"
    <3>1. Futex!State' = Futex!State
      BY <2>1, <2>2, <2>3 DEF Futex!State
    <3> QED BY <2>1, <2>3, <3>1, FutexSameCall, FutexOut, FutexStutters
  <2>4. CASE xPc[t] = "abort"
    <3>1. Futex!State' = "new"
      BY <2>1, <2>2, <2>4 DEF Futex!State
    <3> QED BY <2>1, <2>4, <3>1, FutexSameCall, FutexRunning, FutexOut, FutexDoes
  <2> QED BY <2>1, <2>3, <2>4
<1>10. ASSUME NEW t \in Thread, Futex!WakeAll(t) PROVE Implemented
  <2>1. /\ UNCHANGED <<xComplete, xInit, xAgain>> /\ xPc[t] = "wake" /\ xPc'[t] = "idle"
        /\ \A u \in Thread \ {t} : xPc'[u] = xPc[u] \/ (xPc[u] \in Loop /\ xPc'[u] \in Loop)
    BY <1>10 DEF Futex!WakeAll, Loop
  <2>2. Futex!State' = Futex!State
    BY <2>1 DEF Futex!State
  <2>3. \A u \in Thread : Futex!CallOf(u)' = Futex!CallOf(u)
    BY <2>1, FutexSameCall, FutexRunning, FutexCalling, FutexOut
  <2> QED BY <2>2, <2>3, FutexStutters
<1> QED BY <1>1, <1>2, <1>3, <1>4, <1>5, <1>6, <1>7, <1>8, <1>9, <1>10 DEF Futex!Next, Futex!ThreadStep

-----------------------------------------------------------------------------
LEMMA InitImplements ==
  /\ Once!Init => Once!O!OnceInit
  /\ Mutex!Init => Mutex!O!OnceInit
  /\ Futex!Init => Futex!O!OnceInit
<1>1. Once!Init => Once!O!OnceInit
  BY DEF Once!Init, Once!O!OnceInit, Once!StateOf, Once!CallOf, Once!O!Out
<1>2. Mutex!Init => Mutex!O!OnceInit
  BY DEF Mutex!Init, Mutex!O!OnceInit, Mutex!StateOf, Mutex!CallOf, Mutex!O!Out, Mutex!Unset
<1>3. Futex!Init => Futex!O!OnceInit
  BY DEF Futex!Init, Futex!O!OnceInit, Futex!State, Futex!CallOf, Futex!O!Out, Futex!Unset
<1> QED BY <1>1, <1>2, <1>3

(* call_once, the guard with mutex and condition variable, and the guard   *)
(* with compare_exchange and futex are one-time initializations: no call   *)
(* returns before a run of the initializer has succeeded, one thread at a  *)
(* time runs it, and a failed run leaves it to another call.               *)
THEOREM OnceImplements == Once!Spec /\ Mutex!Spec /\ Futex!Spec => InitializedOnce
<1>0. GuardsAssumption
  BY SuiteAssumption
<1> USE <1>0 DEF GuardsAssumption
<1>1. Once!Spec => Once!Implements
  <2>1. Once!TypeOK /\ [Once!Next]_(Once!vars) => [Once!O!OnceNext]_(Once!O!onceVars)
    BY OnceStepImplements
  <2> QED BY <2>1, InitImplements, OnceCorrect, PTL DEF Once!Spec, Once!Implements, Once!O!OnceSpec
<1>2. Mutex!Spec => Mutex!Implements
  <2>1. MutexInv /\ [Mutex!Next]_(Mutex!vars) => [Mutex!O!OnceNext]_(Mutex!O!onceVars)
    BY MutexStepImplements
  <2> QED BY <2>1, InitImplements, MutexCorrect, PTL DEF Mutex!Spec, Mutex!Implements, Mutex!O!OnceSpec
<1>3. Futex!Spec => Futex!Implements
  <2>1. FutexInv /\ [Futex!Next]_(Futex!vars) => [Futex!O!OnceNext]_(Futex!O!onceVars)
    BY FutexStepImplements
  <2> QED BY <2>1, InitImplements, FutexCorrect, PTL DEF Futex!Spec, Futex!Implements, Futex!O!OnceSpec
<1> QED BY <1>1, <1>2, <1>3 DEF InitializedOnce

-----------------------------------------------------------------------------
(* The control block.  The invariant: the counts are those of the pointers *)
(* and of the releases under way, where all shared pointers and the        *)
(* destruction of the object have one weak owner together; and the object  *)
(* is there, about to be destroyed by one thread, or gone.                 *)
BlockLabels == {"idle", "onzero", "relweak", "decweak", "lock"}

BlockTypes ==
  /\ wOwners \in Int /\ wWeakOwners \in Int
  /\ wStrong \subseteq Thread /\ wWeak \subseteq Thread
  /\ wPc \in [Thread -> BlockLabels]
  /\ \A t \in Thread : wPc[t] = "lock" => t \in wWeak /\ t \notin wStrong

Destroying == {t \in Thread : wPc[t] = "onzero"}
Releasing == {t \in Thread : wPc[t] \in {"relweak", "decweak"}}

(* The weak owner that all shared owners are together. *)
Group == IF wStrong # {} \/ Destroying # {} THEN 1 ELSE 0

ObjectLife ==
  \/ wStrong # {} /\ Destroying = {} /\ wDestroyed = 0
  \/ wStrong = {} /\ (\E t \in Thread : Destroying = {t}) /\ wDestroyed = 0
  \/ wStrong = {} /\ Destroying = {} /\ wDestroyed = 1

BlockLife ==
  \/ /\ wFreed = 0 /\ wWeakOwners >= 0
     /\ wWeakOwners + 1 = Cardinality(wWeak) + Cardinality(Releasing) + Group
  \/ wFreed = 1 /\ wWeak = {} /\ Releasing = {} /\ Group = 0

BlockInv ==
  /\ BlockTypes /\ ObjectLife /\ BlockLife
  /\ wOwners + 1 = Cardinality(wStrong)

BlockAssumption == IsFiniteSet(Thread)

LEMMA BlockFinite ==
  BlockAssumption /\ BlockTypes =>
    /\ IsFiniteSet(wStrong) /\ IsFiniteSet(wWeak) /\ IsFiniteSet(Releasing) /\ IsFiniteSet(Destroying)
    /\ Cardinality(wStrong) \in Nat /\ Cardinality(wWeak) \in Nat /\ Cardinality(Releasing) \in Nat
    /\ Cardinality(wStrong) = 0 <=> wStrong = {}
    /\ Cardinality(wWeak) = 0 <=> wWeak = {}
    /\ Cardinality(Releasing) = 0 <=> Releasing = {}
<1> SUFFICES ASSUME BlockAssumption, BlockTypes
             PROVE  /\ IsFiniteSet(wStrong) /\ IsFiniteSet(wWeak) /\ IsFiniteSet(Releasing) /\ IsFiniteSet(Destroying)
                    /\ Cardinality(wStrong) \in Nat /\ Cardinality(wWeak) \in Nat /\ Cardinality(Releasing) \in Nat
                    /\ Cardinality(wStrong) = 0 <=> wStrong = {}
                    /\ Cardinality(wWeak) = 0 <=> wWeak = {}
                    /\ Cardinality(Releasing) = 0 <=> Releasing = {}
  OBVIOUS
<1>1. Releasing \subseteq Thread /\ Destroying \subseteq Thread /\ wStrong \subseteq Thread /\ wWeak \subseteq Thread
  BY DEF Releasing, Destroying, BlockTypes
<1>2. IsFiniteSet(wStrong) /\ IsFiniteSet(wWeak) /\ IsFiniteSet(Releasing) /\ IsFiniteSet(Destroying)
  BY <1>1, FS_Subset DEF BlockAssumption
<1> QED BY <1>2, FS_CardinalityType, FS_EmptySet

(* How many are in a set after one has come or gone. *)
LEMMA OneMore ==
  ASSUME NEW S, NEW T, NEW t, IsFiniteSet(S), t \notin S, T = S \cup {t}
  PROVE  Cardinality(T) = Cardinality(S) + 1
BY FS_AddElement

LEMMA OneLess ==
  ASSUME NEW S, NEW T, NEW t, IsFiniteSet(S), t \in S, T = S \ {t}
  PROVE  Cardinality(T) = Cardinality(S) - 1
BY FS_RemoveElement

LEMMA BlockInit == BlockAssumption /\ Weak!Init => BlockInv
<1> SUFFICES ASSUME BlockAssumption, Weak!Init PROVE BlockInv
  OBVIOUS
<1>1. PICK t \in Thread : wStrong = {t}
  BY DEF Weak!Init
<1>2. Releasing = {} /\ Destroying = {} /\ wWeak = {}
  BY DEF Weak!Init, Releasing, Destroying
<1>3. Cardinality(wStrong) = 1 /\ Cardinality(wWeak) = 0 /\ Cardinality(Releasing) = 0
  BY <1>1, <1>2, FS_Singleton, FS_EmptySet
<1>4. BlockTypes
  BY <1>1, <1>2 DEF Weak!Init, BlockTypes, BlockLabels
<1> QED BY <1>1, <1>2, <1>3, <1>4 DEF Weak!Init, BlockInv, ObjectLife, BlockLife, Group

(* A thread that has a pointer, or is inside lock(), keeps the block. *)
LEMMA BlockThere ==
  ASSUME BlockAssumption, BlockInv, wStrong # {} \/ wWeak # {} \/ Destroying # {} \/ Releasing # {}
  PROVE  wFreed = 0 /\ wWeakOwners >= 0 /\ wWeakOwners + 1 = Cardinality(wWeak) + Cardinality(Releasing) + Group
BY DEF BlockInv, BlockLife, Group

LEMMA BlockCopies ==
  ASSUME BlockAssumption, BlockInv, NEW t \in Thread, Weak!CopyShared(t) \/ Weak!CopyWeak(t) \/ Weak!Lock(t)
  PROVE  BlockInv'
<1> USE DEF Weak!Go
<1>1. CASE Weak!CopyShared(t)
  <2>1. PICK u \in Thread \ wStrong : wPc[u] = "idle" /\ wStrong' = wStrong \cup {u}
    BY <1>1 DEF Weak!CopyShared
  <2>2. /\ t \in wStrong /\ wOwners' = wOwners + 1
        /\ UNCHANGED <<wWeakOwners, wDestroyed, wFreed, wWeak, wPc>>
    BY <1>1 DEF Weak!CopyShared
  <2>3. Destroying' = Destroying /\ Releasing' = Releasing /\ wStrong # {} /\ wStrong' # {}
    BY <2>1, <2>2 DEF Destroying, Releasing
  <2>4. Group' = Group
    BY <2>3 DEF Group
  <2>5. BlockTypes'
    BY <2>1, <2>2 DEF BlockInv, BlockTypes
  <2>6. wOwners' + 1 = Cardinality(wStrong')
    BY <2>1, <2>2, BlockFinite, OneMore DEF BlockInv, BlockTypes
  <2>7. ObjectLife' /\ BlockLife'
    BY <2>2, <2>3, <2>4 DEF BlockInv, ObjectLife, BlockLife
  <2> QED BY <2>5, <2>6, <2>7 DEF BlockInv
<1>2. CASE Weak!CopyWeak(t)
  <2>1. PICK u \in Thread \ wWeak : wWeak' = wWeak \cup {u}
    BY <1>2 DEF Weak!CopyWeak
  <2>2. /\ t \in wStrong \cup wWeak /\ wWeakOwners' = wWeakOwners + 1
        /\ UNCHANGED <<wOwners, wDestroyed, wFreed, wStrong, wPc>>
    BY <1>2 DEF Weak!CopyWeak
  <2>3. Destroying' = Destroying /\ Releasing' = Releasing
    BY <2>2 DEF Destroying, Releasing
  <2>4. Group' = Group
    BY <2>2, <2>3 DEF Group
  <2>5. BlockTypes'
    BY <2>1, <2>2 DEF BlockInv, BlockTypes
  <2>6. wFreed = 0 /\ wWeakOwners >= 0 /\ wWeakOwners + 1 = Cardinality(wWeak) + Cardinality(Releasing) + Group
    BY <2>2, BlockThere
  <2>7. Cardinality(wWeak') = Cardinality(wWeak) + 1
    BY <2>1, BlockFinite, OneMore DEF BlockInv
  <2>8. Cardinality(wWeak) \in Nat /\ Cardinality(Releasing) \in Nat /\ Group \in {0, 1} /\ wWeakOwners \in Int
    BY BlockFinite DEF BlockInv, BlockTypes, Group
  <2>9. BlockLife'
    BY <2>2, <2>3, <2>4, <2>6, <2>7, <2>8 DEF BlockLife
  <2> QED BY <2>2, <2>3, <2>5, <2>9 DEF BlockInv, ObjectLife
<1>3. CASE Weak!Lock(t)
  <2>1. /\ wPc[t] = "idle" /\ t \in wWeak /\ t \notin wStrong /\ wPc' = [wPc EXCEPT ![t] = "lock"]
        /\ UNCHANGED <<wOwners, wWeakOwners, wDestroyed, wFreed, wStrong, wWeak>>
    BY <1>3 DEF Weak!Lock
  <2>2. Destroying' = Destroying /\ Releasing' = Releasing
    BY <2>1 DEF Destroying, Releasing, BlockInv, BlockTypes
  <2>3. Group' = Group
    BY <2>1, <2>2 DEF Group
  <2>4. BlockTypes'
    BY <2>1 DEF BlockInv, BlockTypes, BlockLabels
  <2> QED BY <2>1, <2>2, <2>3, <2>4 DEF BlockInv, ObjectLife, BlockLife
<1> QED BY <1>1, <1>2, <1>3

(* A shared owner goes; the last one is left with the destruction. *)
LEMMA BlockReleases ==
  ASSUME BlockAssumption, BlockInv, NEW t \in Thread, Weak!ReleaseShared(t)
  PROVE  BlockInv'
<1> USE DEF Weak!Go
<1>1. /\ wPc[t] = "idle" /\ t \in wStrong /\ wStrong' = wStrong \ {t} /\ wOwners' = wOwners - 1
      /\ wPc' = [wPc EXCEPT ![t] = IF wOwners' = -1 THEN "onzero" ELSE "idle"]
      /\ UNCHANGED <<wWeakOwners, wDestroyed, wFreed, wWeak>>
  BY DEF Weak!ReleaseShared
<1>2. wOwners' + 1 = Cardinality(wStrong')
  BY <1>1, BlockFinite, OneLess DEF BlockInv, BlockTypes
<1>3. BlockTypes'
  BY <1>1 DEF BlockInv, BlockTypes, BlockLabels
<1>4. wOwners' = -1 <=> wStrong' = {}
  <2>1. Cardinality(wStrong') = 0 <=> wStrong' = {}
    BY <1>1, BlockFinite, FS_RemoveElement, FS_EmptySet DEF BlockInv
  <2> QED BY <1>2, <1>3, <2>1 DEF BlockTypes
<1>5. Releasing' = Releasing
  BY <1>1 DEF Releasing, BlockInv, BlockTypes
<1>6. Destroying = {} /\ wDestroyed = 0
  BY <1>1 DEF BlockInv, ObjectLife
<1>7. Destroying' = IF wStrong' = {} THEN {t} ELSE {}
  BY <1>1, <1>4, <1>6 DEF Destroying, BlockInv, BlockTypes
<1>8. Group = 1 /\ Group' = 1
  BY <1>1, <1>7 DEF Group
<1>9. ObjectLife'
  BY <1>1, <1>6, <1>7 DEF ObjectLife
<1>10. BlockLife'
  BY <1>1, <1>5, <1>8 DEF BlockInv, BlockLife
<1> QED BY <1>2, <1>3, <1>9, <1>10 DEF BlockInv

(* The object is destroyed, or a weak pointer goes: a weak owner to release. *)
LEMMA BlockDrops ==
  ASSUME BlockAssumption, BlockInv, NEW t \in Thread, Weak!OnZeroShared(t) \/ Weak!DropWeak(t)
  PROVE  BlockInv'
<1> USE DEF Weak!Go
<1>1. /\ wPc[t] \in {"onzero", "idle"} /\ wPc' = [wPc EXCEPT ![t] = "relweak"]
      /\ UNCHANGED <<wOwners, wWeakOwners, wFreed, wStrong>>
  BY DEF Weak!OnZeroShared, Weak!DropWeak
<1>2. t \notin Releasing /\ Releasing' = Releasing \cup {t}
  BY <1>1 DEF Releasing, BlockInv, BlockTypes
<1>3. Cardinality(Releasing') = Cardinality(Releasing) + 1
  BY <1>2, BlockFinite, OneMore DEF BlockInv
<1>4. Destroying' = Destroying \ {t}
  BY <1>1 DEF Destroying, BlockInv, BlockTypes
<1>5. Cardinality(wWeak) \in Nat /\ Cardinality(Releasing) \in Nat /\ wWeakOwners \in Int /\ wOwners \in Int
  BY BlockFinite DEF BlockInv, BlockTypes
<1>6. CASE Weak!OnZeroShared(t)
  <2>1. wPc[t] = "onzero" /\ wDestroyed' = wDestroyed + 1 /\ wWeak' = wWeak
    BY <1>6 DEF Weak!OnZeroShared
  <2>2. t \in Destroying
    BY <2>1 DEF Destroying
  <2>3. Destroying = {t} /\ wStrong = {} /\ wDestroyed = 0
    BY <2>2 DEF BlockInv, ObjectLife
  <2>4. Destroying' = {} /\ Group = 1 /\ Group' = 0
    BY <1>1, <1>4, <2>3 DEF Group
  <2>5. BlockTypes'
    BY <1>1, <2>1 DEF BlockInv, BlockTypes, BlockLabels
  <2>6. wFreed = 0 /\ wWeakOwners >= 0 /\ wWeakOwners + 1 = Cardinality(wWeak) + Cardinality(Releasing) + Group
    BY <2>2, BlockThere
  <2>7. ObjectLife'
    BY <1>1, <2>1, <2>3, <2>4 DEF ObjectLife
  <2>8. BlockLife'
    BY <1>1, <1>3, <1>5, <2>1, <2>4, <2>6 DEF BlockLife
  <2> QED BY <1>1, <2>5, <2>7, <2>8 DEF BlockInv
<1>7. CASE Weak!DropWeak(t)
  <2>1. wPc[t] = "idle" /\ t \in wWeak /\ wWeak' = wWeak \ {t} /\ wDestroyed' = wDestroyed
    BY <1>7 DEF Weak!DropWeak
  <2>2. Destroying' = Destroying
    BY <1>4, <2>1 DEF Destroying
  <2>3. Group' = Group /\ Group \in {0, 1}
    BY <1>1, <2>2 DEF Group
  <2>4. Cardinality(wWeak') = Cardinality(wWeak) - 1
    BY <2>1, BlockFinite, OneLess DEF BlockInv
  <2>5. BlockTypes'
    BY <1>1, <2>1 DEF BlockInv, BlockTypes, BlockLabels
  <2>6. wFreed = 0 /\ wWeakOwners >= 0 /\ wWeakOwners + 1 = Cardinality(wWeak) + Cardinality(Releasing) + Group
    BY <2>1, BlockThere
  <2>7. BlockLife'
    BY <1>1, <1>3, <1>5, <2>3, <2>4, <2>6 DEF BlockLife
  <2> QED BY <1>1, <2>1, <2>2, <2>5, <2>7 DEF BlockInv, ObjectLife
<1> QED BY <1>6, <1>7

(* __release_weak: the last one frees the block. *)
LEMMA BlockFrees ==
  ASSUME BlockAssumption, BlockInv, NEW t \in Thread, Weak!LoadWeak(t) \/ Weak!DecWeak(t)
  PROVE  BlockInv'
<1> USE DEF Weak!Go
<1>1. /\ wPc[t] \in {"relweak", "decweak"} /\ UNCHANGED <<wOwners, wDestroyed, wStrong, wWeak>>
      /\ wPc' = [wPc EXCEPT ![t] = wPc'[t]] /\ wPc'[t] \in {"idle", "decweak"}
  BY DEF Weak!LoadWeak, Weak!DecWeak, BlockInv, BlockTypes
<1>2. t \in Releasing /\ Destroying' = Destroying
  BY <1>1 DEF Releasing, Destroying, BlockInv, BlockTypes
<1>3. Group' = Group /\ Group \in {0, 1}
  BY <1>1, <1>2 DEF Group
<1>4. wFreed = 0 /\ wWeakOwners >= 0 /\ wWeakOwners + 1 = Cardinality(wWeak) + Cardinality(Releasing) + Group
  BY <1>2, BlockThere
<1>5. /\ Cardinality(wWeak) \in Nat /\ Cardinality(Releasing) \in Nat /\ wWeakOwners \in Int
      /\ IsFiniteSet(Releasing) /\ (Cardinality(wWeak) = 0 <=> wWeak = {})
  BY BlockFinite DEF BlockInv, BlockTypes
<1>6. ObjectLife'
  BY <1>1, <1>2 DEF BlockInv, ObjectLife
<1>7. CASE wPc'[t] = "decweak"
  <2>1. wWeakOwners' = wWeakOwners /\ wFreed' = wFreed
    BY <1>1, <1>7 DEF Weak!LoadWeak, Weak!DecWeak, BlockInv, BlockTypes
  <2>2. Releasing' = Releasing
    BY <1>1, <1>7 DEF Releasing, BlockInv, BlockTypes
  <2>3. BlockTypes'
    BY <1>1, <2>1 DEF BlockInv, BlockTypes, BlockLabels
  <2> QED BY <1>1, <1>3, <1>4, <1>6, <2>1, <2>2, <2>3 DEF BlockInv, BlockLife
<1>8. CASE wPc'[t] = "idle"
  <2>1. Releasing' = Releasing \ {t}
    BY <1>1, <1>2, <1>8 DEF Releasing, BlockInv, BlockTypes
  <2>2. Cardinality(Releasing') = Cardinality(Releasing) - 1
    BY <1>2, <1>5, <2>1, OneLess
  <2>3. Cardinality(Releasing') \in Nat /\ (Cardinality(Releasing') = 0 <=> Releasing' = {})
    BY <1>5, <2>1, FS_RemoveElement, FS_CardinalityType, FS_EmptySet
  <2>4. \/ wWeakOwners = 0 /\ wWeakOwners' = 0 /\ wFreed' = wFreed + 1
        \/ wWeakOwners' = wWeakOwners - 1 /\ wFreed' = IF wWeakOwners' = -1 THEN wFreed + 1 ELSE wFreed
    BY <1>1, <1>8 DEF Weak!LoadWeak, Weak!DecWeak, Weak!LastWeak, Weak!DecFrees, BlockInv, BlockTypes
  <2>5. CASE wWeakOwners = 0
    <3>1. wFreed' = 1 /\ wWeakOwners' \in Int
      BY <1>4, <2>4, <2>5
    <3>2. Cardinality(wWeak) + Cardinality(Releasing') + Group = 0
      BY <1>3, <1>4, <1>5, <2>2, <2>5
    <3>3. wWeak = {} /\ Releasing' = {} /\ Group = 0
      BY <1>3, <1>5, <2>3, <3>2
    <3>4. BlockTypes'
      BY <1>1, <3>1 DEF BlockInv, BlockTypes, BlockLabels
    <3> QED BY <1>1, <1>3, <1>6, <3>1, <3>3, <3>4 DEF BlockInv, BlockLife
  <2>6. CASE wWeakOwners # 0
    <3>1. wFreed' = 0 /\ wWeakOwners' >= 0 /\ wWeakOwners' = wWeakOwners - 1 /\ wWeakOwners' \in Int
      BY <1>4, <1>5, <2>4, <2>6
    <3>2. wWeakOwners' + 1 = Cardinality(wWeak') + Cardinality(Releasing') + Group'
      BY <1>1, <1>3, <1>4, <1>5, <2>2, <3>1
    <3>3. BlockTypes'
      BY <1>1, <3>1 DEF BlockInv, BlockTypes, BlockLabels
    <3> QED BY <1>1, <1>6, <3>1, <3>2, <3>3 DEF BlockInv, BlockLife
  <2> QED BY <2>5, <2>6
<1> QED BY <1>1, <1>7, <1>8

(* The loop of lock(): a success finds an owner. *)
LEMMA BlockLocks ==
  ASSUME BlockAssumption, BlockInv, NEW t \in Thread, Weak!LockCas(t)
  PROVE  BlockInv'
<1> USE DEF Weak!Go
<1>1. /\ wPc[t] = "lock" /\ UNCHANGED <<wWeakOwners, wDestroyed, wFreed, wWeak>>
      /\ wPc' = [wPc EXCEPT ![t] = wPc'[t]] /\ wPc'[t] \in {"idle", "lock"}
      /\ \/ UNCHANGED <<wOwners, wStrong>>
         \/ wOwners # -1 /\ wOwners' = wOwners + 1 /\ wStrong' = wStrong \cup {t} /\ wPc'[t] = "idle"
  BY DEF Weak!LockCas, Weak!CasSucceeds, BlockInv, BlockTypes
<1>2. Destroying' = Destroying /\ Releasing' = Releasing /\ t \notin wStrong
  BY <1>1 DEF Destroying, Releasing, BlockInv, BlockTypes
<1>3. BlockTypes'
  BY <1>1 DEF BlockInv, BlockTypes, BlockLabels
<1>4. CASE UNCHANGED <<wOwners, wStrong>>
  <2>1. Group' = Group
    BY <1>2, <1>4 DEF Group
  <2> QED BY <1>1, <1>2, <1>3, <1>4, <2>1 DEF BlockInv, ObjectLife, BlockLife
<1>5. CASE wOwners # -1 /\ wOwners' = wOwners + 1 /\ wStrong' = wStrong \cup {t}
  <2>1. wStrong # {} /\ wStrong' # {}
    BY <1>5, BlockFinite DEF BlockInv, BlockTypes
  <2>2. Group' = Group
    BY <1>2, <2>1 DEF Group
  <2>3. wOwners' + 1 = Cardinality(wStrong')
    BY <1>2, <1>5, BlockFinite, OneMore DEF BlockInv, BlockTypes
  <2>4. ObjectLife' /\ BlockLife'
    BY <1>1, <1>2, <2>1, <2>2 DEF BlockInv, ObjectLife, BlockLife
  <2> QED BY <1>3, <2>3, <2>4 DEF BlockInv
<1> QED BY <1>1, <1>4, <1>5

LEMMA BlockStep == BlockAssumption /\ BlockInv /\ [Weak!Next]_Weak!vars => BlockInv'
<1> SUFFICES ASSUME BlockAssumption, BlockInv, [Weak!Next]_Weak!vars PROVE BlockInv'
  OBVIOUS
<1>1. CASE UNCHANGED Weak!vars
  <2>1. UNCHANGED <<wOwners, wWeakOwners, wDestroyed, wFreed, wStrong, wWeak, wPc>>
    BY <1>1 DEF Weak!vars
  <2> QED BY <2>1 DEF BlockInv, BlockTypes, ObjectLife, BlockLife, Group, Destroying, Releasing
<1>2. CASE Weak!Next
  <2> HIDE DEF BlockInv
  <2>1. PICK t \in Thread :
          \/ Weak!CopyShared(t) \/ Weak!CopyWeak(t) \/ Weak!ReleaseShared(t) \/ Weak!DropWeak(t)
          \/ Weak!Lock(t) \/ Weak!ThreadStep(t)
    BY <1>2 DEF Weak!Next
  <2> QED BY <2>1, BlockCopies, BlockReleases, BlockDrops, BlockFrees, BlockLocks DEF Weak!ThreadStep
<1> QED BY <1>1, <1>2

LEMMA BlockMeans == BlockAssumption /\ BlockInv => ControlBlockRight
<1> SUFFICES ASSUME BlockAssumption, BlockInv PROVE ControlBlockRight
  OBVIOUS
<1>1. \A t \in Weak!Busy : t \in Destroying \cup Releasing \cup wWeak
  BY DEF Weak!Busy, Destroying, Releasing, BlockInv, BlockTypes, BlockLabels
<1>2. Destroying \cup Releasing \subseteq Weak!Busy
  BY DEF Weak!Busy, Destroying, Releasing
<1>3. wStrong \cup wWeak \cup Weak!Busy # {} => wFreed = 0
  BY <1>1, BlockThere
<1>4. wStrong # {} => wDestroyed = 0
  BY DEF BlockInv, ObjectLife
<1>5. wDestroyed \in {0, 1} /\ wFreed \in {0, 1} /\ (wFreed = 1 => wDestroyed = 1)
  BY DEF BlockInv, ObjectLife, BlockLife, Group
<1>6. ASSUME wStrong \cup wWeak \cup Weak!Busy = {} PROVE wFreed = 1
  <2>1. wWeak = {} /\ Releasing = {} /\ Group = 0
    BY <1>2, <1>6 DEF Group
  <2>2. Cardinality(wWeak) = 0 /\ Cardinality(Releasing) = 0
    BY <2>1, FS_EmptySet
  <2> QED BY <2>1, <2>2 DEF BlockInv, BlockLife, BlockTypes
<1> QED BY <1>3, <1>4, <1>5, <1>6 DEF ControlBlockRight, Weak!NoUseAfterFree, Weak!NoLeak

(* The counts of the control block are right for any number of threads,    *)
(* copies and calls of lock(): the object is destroyed once, after the last *)
(* shared_ptr, and the block freed once, after everybody who could look at *)
(* its counts (__release_shared, __release_weak and lock of memory.cpp).   *)
THEOREM BlockCorrect == Weak!Spec => []ControlBlockRight
<1>0. BlockAssumption
  BY SuiteAssumption DEF BlockAssumption, PartiesAssumption
<1>1. Weak!Init => BlockInv
  BY <1>0, BlockInit
<1>2. BlockInv /\ [Weak!Next]_Weak!vars => BlockInv'
  BY <1>0, BlockStep
<1>3. BlockInv => ControlBlockRight
  BY <1>0, BlockMeans
<1> QED BY <1>1, <1>2, <1>3, PTL DEF Weak!Spec

-----------------------------------------------------------------------------
(* The state of a future.  The invariant: besides the promised properties, *)
(* who waits holds a reference; the last owner of an async state, alone    *)
(* with it, waits for the function; and what each kind of state can meet.  *)
OwnerLabels == {"launch", "open", "break", "release", "gone", "exit", "exited", "zero", "zeroasleep"}
WaiterLabels ==
  {"idle", "asleep", "woken", "timedwait", "timedwoken", "running", "read", "zero", "zeroasleep", "gone"}
RunnerLabels == {"absent", "running", "gone"}
FutureLabels == OwnerLabels \cup WaiterLabels \cup RunnerLabels

Results == {"value", "exception", "broken", "none"}

FutureTypes ==
  /\ fHas \in Results /\ fOwners \in Int /\ fRefs \subseteq Thread /\ fRuns \in {0, 1}
  /\ fGot \in [Assoc!Party -> Results]
  /\ fPc \in [Assoc!Party -> FutureLabels]
  /\ fPc[Owner] \in OwnerLabels /\ fPc[Runner] \in RunnerLabels
  /\ \A w \in Thread : fPc[w] \in WaiterLabels

Zeroing == {t \in Assoc!Party : fPc[t] \in {"zero", "zeroasleep"}}

(* Nobody owns the state. *)
Unowned == fRefs = {} /\ ~fAtExit /\ ~Assoc!FirstRef

Counted ==
  fOwners + 1 = Cardinality(fRefs) + (IF Assoc!FirstRef THEN 1 ELSE 0) + (IF fAtExit THEN 1 ELSE 0)

WaitersHold == \A w \in Thread : Assoc!InCall(w) => w \in fRefs

ZeroAlone == \A t \in Zeroing : Kind = "async" /\ Unowned /\ ~fFreed /\ \A u \in Zeroing : u = t

FreedLast == fFreed => Unowned /\ fPc[Runner] # "running" /\ Zeroing = {}

KindsMeet ==
  /\ Kind # "async" => fPc[Runner] = "absent"
  /\ Kind = "async" => (fHas # "none" <=> fPc[Runner] = "gone")
  /\ fPc[Owner] = "launch" => Kind = "async" /\ fPc[Runner] = "absent" /\ fRuns = 0
  /\ fPc[Owner] = "break" => Kind = "promise"
  /\ \A w \in Thread : fPc[w] = "running" => Kind = "deferred"
  /\ fDeferred => Kind = "deferred" /\ fRuns = 0
  /\ ~fAttached => fRefs = {}

ResultsRight ==
  /\ fAtExit => fHas # "none"
  /\ fPc[Owner] = "exit" => fAtExit
  /\ fReady => fHas # "none"
  /\ fReady /\ fAtExit => fPc[Owner] = "exit"
  /\ \A t \in Assoc!Party : fGot[t] # "none" => fGot[t] = fHas

FutureInv ==
  FutureTypes /\ Counted /\ WaitersHold /\ ZeroAlone /\ FreedLast /\ KindsMeet /\ ResultsRight

FutureAssumption == Assoc!KindAssumption /\ PartiesAssumption

LEMMA FutureFinite ==
  FutureAssumption =>
    \A S \in SUBSET Thread : /\ IsFiniteSet(S) /\ Cardinality(S) \in Nat
                             /\ (Cardinality(S) = 0 <=> S = {})
BY FS_Subset, FS_CardinalityType, FS_EmptySet DEF FutureAssumption, PartiesAssumption

LEMMA FutureInit == FutureAssumption /\ Assoc!Init => FutureInv
<1> SUFFICES ASSUME FutureAssumption, Assoc!Init PROVE FutureInv
  OBVIOUS
<1> USE DEF Assoc!Init, Assoc!None
<1>1. /\ fPc[Owner] = (IF Kind = "async" THEN "launch" ELSE "open") /\ fPc[Runner] = "absent"
      /\ \A w \in Thread : fPc[w] = "idle"
  BY DEF FutureAssumption, PartiesAssumption, Assoc!Party
<1>2. FutureTypes
  BY <1>1 DEF FutureTypes, FutureLabels, OwnerLabels, WaiterLabels, RunnerLabels, Results, Assoc!Party
<1>3. Counted
  <2>1. Assoc!FirstRef /\ fRefs = {} /\ ~fAtExit /\ fOwners = 0
    BY <1>1 DEF Assoc!FirstRef
  <2> QED BY <2>1, FS_EmptySet DEF Counted
<1>4. Zeroing = {}
  BY <1>1 DEF Zeroing, Assoc!Party
<1>5. WaitersHold
  BY <1>1 DEF WaitersHold, Assoc!InCall
<1>6. ZeroAlone /\ FreedLast
  BY <1>4 DEF ZeroAlone, FreedLast
<1>7. KindsMeet
  <2>1. fDeferred => Kind = "deferred"
    BY Zenon
  <2>2. fHas = "none" /\ fRuns = 0 /\ fRefs = {}
    OBVIOUS
  <2> QED BY <1>1, <2>1, <2>2 DEF KindsMeet
<1>8. ResultsRight
  <2>1. \A t \in Assoc!Party : fGot[t] = "none"
    OBVIOUS
  <2> QED BY <1>1, <2>1 DEF ResultsRight
<1> QED BY <1>2, <1>3, <1>5, <1>6, <1>7, <1>8 DEF FutureInv

(* While somebody owns the state it is there, and nobody is deleting it. *)
LEMMA FutureThere == ASSUME FutureInv, ~Unowned PROVE ~fFreed /\ Zeroing = {}
BY DEF FutureInv, FreedLast, ZeroAlone

(* What a notification, or a spurious wake-up, does to the others. *)
Stays(u) ==
  \/ fPc'[u] = fPc[u]
  \/ fPc[u] = "asleep" /\ fPc'[u] = "woken"
  \/ fPc[u] = "timedwait" /\ fPc'[u] = "timedwoken"
  \/ fPc[u] = "zeroasleep" /\ fPc'[u] = "zero"

LEMMA FutureNotify ==
  ASSUME FutureTypes, NEW t \in Assoc!Party, NEW l \in FutureLabels, t \notin Assoc!Asleep,
         fPc' = Assoc!NotifyAll([fPc EXCEPT ![t] = l]) \/ fPc' = [fPc EXCEPT ![t] = l]
  PROVE  /\ fPc' \in [Assoc!Party -> FutureLabels] /\ fPc'[t] = l
         /\ \A u \in Assoc!Party : u # t => Stays(u)
<1>1. CASE fPc' = [fPc EXCEPT ![t] = l]
  BY <1>1 DEF FutureTypes, Stays
<1>2. CASE fPc' = Assoc!NotifyAll([fPc EXCEPT ![t] = l])
  <2>1. fPc' = [u \in Assoc!Party |-> IF u \in Assoc!Asleep THEN Assoc!Woken(fPc[u]) ELSE [fPc EXCEPT ![t] = l][u]]
    BY <1>2 DEF Assoc!NotifyAll
  <2>2. fPc'[t] = l
    BY <2>1 DEF FutureTypes
  <2>3. ASSUME NEW u \in Assoc!Party, u # t PROVE Stays(u) /\ fPc'[u] \in FutureLabels
    <3>1. CASE u \in Assoc!Asleep
      <4>1. fPc'[u] = Assoc!Woken(fPc[u])
        BY <2>1, <3>1
      <4> QED BY <3>1, <4>1 DEF Stays, Assoc!Asleep, Assoc!Woken, FutureLabels, WaiterLabels
    <3>2. CASE u \notin Assoc!Asleep
      <4>1. fPc'[u] = fPc[u]
        BY <2>1, <2>3, <3>2 DEF FutureTypes
      <4> QED BY <4>1 DEF Stays, FutureTypes
    <3> QED BY <3>1, <3>2
  <2>4. \A u \in Assoc!Party : fPc'[u] \in FutureLabels
    BY <2>2, <2>3
  <2>5. fPc' \in [Assoc!Party -> FutureLabels]
    BY <2>1, <2>4
  <2> QED BY <2>2, <2>3, <2>5
<1> QED BY <1>1, <1>2

LEMMA FutureStays ==
  ASSUME FutureAssumption, FutureTypes, NEW u \in Assoc!Party, Stays(u)
  PROVE  /\ Assoc!InCall(u)' <=> Assoc!InCall(u)
         /\ fPc'[u] \in {"zero", "zeroasleep"} <=> fPc[u] \in {"zero", "zeroasleep"}
         /\ fPc'[u] = "running" <=> fPc[u] = "running"
         /\ u \in Thread => fPc'[u] \in WaiterLabels
         /\ u = Runner => fPc'[u] = fPc[u]
         /\ u = Owner => /\ fPc'[u] \in OwnerLabels
                         /\ fPc[u] \notin {"zero", "zeroasleep"} => fPc'[u] = fPc[u]
BY DEF Stays, FutureTypes, Assoc!InCall, OwnerLabels, WaiterLabels, RunnerLabels

(* The calls of a future, except those that change who owns the state. *)
Waiting == {"idle", "asleep", "woken", "timedwait", "timedwoken", "read"}

LEMMA FutureWaits ==
  ASSUME FutureAssumption, FutureInv, NEW t \in Thread, t \in fRefs,
         fPc' = [fPc EXCEPT ![t] = fPc'[t]],
         \/ fPc'[t] \in Waiting /\ UNCHANGED <<fDeferred, fRuns>>
         \/ fPc'[t] = "running" /\ fDeferred /\ ~fDeferred' /\ fRuns' = fRuns + 1,
         fGot' = fGot \/ fGot' = [fGot EXCEPT ![t] = fHas],
         UNCHANGED <<fHas, fReady, fAttached, fOwners, fFreed, fRefs, fAtExit>>
  PROVE  FutureInv'
<1>1. /\ fPc'[t] \in Waiting \cup {"running"} /\ t \in Assoc!Party /\ t # Owner /\ t # Runner
      /\ Owner \in Assoc!Party /\ Runner \in Assoc!Party /\ Thread \subseteq Assoc!Party
  BY DEF FutureAssumption, PartiesAssumption, Assoc!Party
<1>2. /\ fPc'[Owner] = fPc[Owner] /\ fPc'[Runner] = fPc[Runner]
      /\ \A u \in Assoc!Party : u # t => fPc'[u] = fPc[u]
  BY <1>1 DEF FutureInv, FutureTypes
<1>3. ~fFreed /\ Zeroing = {}
  BY FutureThere DEF Unowned
<1>4. Zeroing' = {}
  BY <1>1, <1>2, <1>3 DEF Zeroing, Waiting
<1>5. Assoc!FirstRef' <=> Assoc!FirstRef
  BY <1>2 DEF Assoc!FirstRef
<1>6. /\ fRuns' \in {0, 1}
      /\ fDeferred' => fDeferred /\ fRuns' = fRuns
      /\ fPc'[t] = "running" => Kind = "deferred"
      /\ Kind = "async" => fRuns' = fRuns
  BY DEF FutureInv, FutureTypes, KindsMeet, Waiting
<1>7. FutureTypes'
  <2>1. fGot' \in [Assoc!Party -> Results]
    BY DEF FutureInv, FutureTypes
  <2>2. fPc' \in [Assoc!Party -> FutureLabels]
    BY <1>1 DEF FutureInv, FutureTypes, FutureLabels, WaiterLabels, Waiting
  <2>3. \A w \in Thread : fPc'[w] \in WaiterLabels
    BY <1>1, <1>2 DEF FutureInv, FutureTypes, WaiterLabels, Waiting
  <2> QED BY <1>2, <1>6, <2>1, <2>2, <2>3 DEF FutureInv, FutureTypes
<1>8. Counted'
  BY <1>5 DEF FutureInv, Counted
<1>9. WaitersHold'
  <2>1. \A w \in Thread : w # t => (Assoc!InCall(w)' <=> Assoc!InCall(w))
    BY <1>1, <1>2 DEF Assoc!InCall
  <2> QED BY <2>1 DEF FutureInv, WaitersHold
<1>10. ZeroAlone' /\ FreedLast'
  BY <1>3, <1>4 DEF ZeroAlone, FreedLast
<1>11. KindsMeet'
  <2>1. \A w \in Thread : fPc'[w] = "running" => Kind = "deferred"
    BY <1>1, <1>2, <1>6 DEF FutureInv, KindsMeet
  <2> QED BY <1>2, <1>6, <2>1 DEF FutureInv, KindsMeet
<1>12. ResultsRight'
  <2>1. \A u \in Assoc!Party : fGot'[u] # "none" => fGot'[u] = fHas
    BY DEF FutureInv, FutureTypes, ResultsRight
  <2> QED BY <1>2, <2>1 DEF FutureInv, ResultsRight
<1> QED BY <1>7, <1>8, <1>9, <1>10, <1>11, <1>12 DEF FutureInv

LEMMA FutureCalls ==
  ASSUME FutureAssumption, FutureInv, NEW w \in Thread,
         Assoc!SubWait(w) \/ Assoc!Wake(w) \/ Assoc!Read(w) \/ Assoc!WaitUntil(w) \/ Assoc!TimedWake(w)
  PROVE  FutureInv'
<1> USE DEF Assoc!Go, Assoc!Returns, Assoc!DeferredCleared, Assoc!bits
<1>1. w \in fRefs
  <2>1. Assoc!InCall(w) \/ w \in fRefs
    BY DEF Assoc!SubWait, Assoc!Wake, Assoc!Read, Assoc!WaitUntil, Assoc!TimedWake, Assoc!InCall, FutureAssumption, PartiesAssumption
  <2> QED BY <2>1 DEF FutureInv, WaitersHold
<1>2. w \in Assoc!Party /\ fPc \in [Assoc!Party -> FutureLabels]
  BY DEF Assoc!Party, FutureInv, FutureTypes
<1>3. fPc' = [fPc EXCEPT ![w] = fPc'[w]]
  BY <1>2 DEF Assoc!SubWait, Assoc!Wake, Assoc!Read, Assoc!WaitUntil, Assoc!TimedWake
<1>4. \/ fPc'[w] \in Waiting /\ UNCHANGED <<fDeferred, fRuns>>
      \/ fPc'[w] = "running" /\ fDeferred /\ ~fDeferred' /\ fRuns' = fRuns + 1
  BY <1>2 DEF Assoc!SubWait, Assoc!Wake, Assoc!Read, Assoc!WaitUntil, Assoc!TimedWake, Waiting
<1>5. fGot' = fGot \/ fGot' = [fGot EXCEPT ![w] = fHas]
  BY DEF Assoc!SubWait, Assoc!Wake, Assoc!Read, Assoc!WaitUntil, Assoc!TimedWake
<1>6. UNCHANGED <<fHas, fReady, fAttached, fOwners, fFreed, fRefs, fAtExit>>
  BY DEF Assoc!SubWait, Assoc!Wake, Assoc!Read, Assoc!WaitUntil, Assoc!TimedWake
<1> QED BY <1>1, <1>3, <1>4, <1>5, <1>6, FutureWaits

LEMMA FutureSpurious ==
  ASSUME FutureAssumption, FutureInv, NEW t \in Assoc!Party, Assoc!SpuriousWake(t)
  PROVE  FutureInv'
<1>1. /\ t \in Assoc!Asleep /\ fPc' = [fPc EXCEPT ![t] = Assoc!Woken(fPc[t])]
      /\ UNCHANGED <<fHas, fReady, fDeferred, fAttached, fOwners, fFreed, fRefs, fAtExit, fGot, fRuns>>
  BY DEF Assoc!SpuriousWake, Assoc!Go, Assoc!bits
<1>2. \A u \in Assoc!Party : Stays(u)
  BY <1>1 DEF Stays, Assoc!Asleep, Assoc!Woken, FutureInv, FutureTypes
<1>3. fPc' \in [Assoc!Party -> FutureLabels]
  BY <1>1 DEF Assoc!Asleep, Assoc!Woken, FutureInv, FutureTypes, FutureLabels, WaiterLabels
<1>4. Owner \in Assoc!Party /\ Runner \in Assoc!Party /\ Thread \subseteq Assoc!Party
  BY DEF Assoc!Party
<1>5. FutureTypes
  BY DEF FutureInv
<1>6. /\ fPc'[Runner] = fPc[Runner] /\ fPc'[Owner] \in OwnerLabels
      /\ fPc[Owner] \notin {"zero", "zeroasleep"} => fPc'[Owner] = fPc[Owner]
      /\ fPc'[Owner] \in {"zero", "zeroasleep"} <=> fPc[Owner] \in {"zero", "zeroasleep"}
      /\ \A w \in Thread : /\ fPc'[w] \in WaiterLabels
                           /\ Assoc!InCall(w)' <=> Assoc!InCall(w)
                           /\ fPc'[w] = "running" <=> fPc[w] = "running"
  BY <1>2, <1>4, <1>5, FutureStays
<1>7. Zeroing' = Zeroing
  BY <1>2, <1>5, FutureStays DEF Zeroing
<1>8. Assoc!FirstRef' <=> Assoc!FirstRef
  BY <1>6 DEF Assoc!FirstRef
<1>9. Unowned' <=> Unowned
  BY <1>1, <1>8 DEF Unowned
<1>10. FutureTypes'
  BY <1>1, <1>3, <1>6 DEF FutureInv, FutureTypes
<1>11. Counted'
  BY <1>1, <1>8 DEF FutureInv, Counted
<1>12. WaitersHold'
  BY <1>1, <1>6 DEF FutureInv, WaitersHold
<1>13. ZeroAlone' /\ FreedLast'
  BY <1>1, <1>6, <1>7, <1>9 DEF FutureInv, ZeroAlone, FreedLast
<1>14. KindsMeet'
  BY <1>1, <1>6 DEF FutureInv, KindsMeet
<1>15. ResultsRight'
  BY <1>1, <1>6 DEF FutureInv, ResultsRight
<1> QED BY <1>10, <1>11, <1>12, <1>13, <1>14, <1>15 DEF FutureInv

(* The state becomes ready, or gets what it will be ready with.  t may be  *)
(* the owner, the runner or a waiter; l is where it goes on.               *)
LEMMA FutureSets ==
  ASSUME FutureAssumption, FutureInv, NEW t \in Assoc!Party, NEW l \in FutureLabels,
         NEW o \in {"value", "exception", "broken"}, NEW atexit \in BOOLEAN, Assoc!Set(t, o, atexit, l),
         \/ t = Owner /\ Kind = "promise" /\ fPc[t] \in {"open", "break"} /\ l \in {"open", "release"}
         \/ t = Runner /\ fPc[t] = "running" /\ l = "gone" /\ ~atexit
         \/ t \in Thread /\ fPc[t] = "running" /\ l = "read" /\ ~atexit,
         UNCHANGED <<fFreed, fRefs, fGot, fRuns>>
  PROVE  FutureInv'
<1>1. /\ fHas = "none" /\ fHas' = o /\ fReady' = (fReady \/ ~atexit) /\ fAtExit' = (fAtExit \/ atexit)
      /\ fOwners' = (IF atexit THEN fOwners + 1 ELSE fOwners)
      /\ UNCHANGED <<fDeferred, fAttached>>
      /\ fPc' = Assoc!NotifyAll([fPc EXCEPT ![t] = l]) \/ fPc' = [fPc EXCEPT ![t] = l]
  BY DEF Assoc!Set, Assoc!HasValue, Assoc!None, Assoc!AddShared, Assoc!ReadyNow
<1>2. FutureTypes /\ t \notin Assoc!Asleep
  BY DEF FutureInv, Assoc!Asleep
<1>3. /\ fPc' \in [Assoc!Party -> FutureLabels] /\ fPc'[t] = l
      /\ \A u \in Assoc!Party : u # t => Stays(u)
  BY <1>1, <1>2, FutureNotify
<1>4. Owner \in Assoc!Party /\ Runner \in Assoc!Party /\ Thread \subseteq Assoc!Party
  BY DEF Assoc!Party
<1>5. ~fAtExit /\ ~fReady
  BY <1>1 DEF FutureInv, ResultsRight
<1>6. ~fFreed
  <2>1. CASE t = Owner
    BY <2>1, FutureThere DEF Unowned, Assoc!FirstRef, FutureAssumption, PartiesAssumption
  <2>2. CASE t = Runner
    BY <2>2 DEF FutureInv, FreedLast, FutureAssumption, PartiesAssumption, Assoc!Party
  <2>3. CASE t \in Thread /\ fPc[t] = "running"
    BY <2>3, FutureThere DEF FutureInv, WaitersHold, Assoc!InCall, Unowned, FutureAssumption, PartiesAssumption
  <2> QED BY <2>1, <2>2, <2>3
<1>7. \A u \in Assoc!Party : u # t =>
        /\ Assoc!InCall(u)' <=> Assoc!InCall(u)
        /\ fPc'[u] \in {"zero", "zeroasleep"} <=> fPc[u] \in {"zero", "zeroasleep"}
        /\ fPc'[u] = "running" <=> fPc[u] = "running"
        /\ u \in Thread => fPc'[u] \in WaiterLabels
        /\ u = Runner => fPc'[u] = fPc[u]
        /\ u = Owner => /\ fPc'[u] \in OwnerLabels
                        /\ fPc[u] \notin {"zero", "zeroasleep"} => fPc'[u] = fPc[u]
  BY <1>2, <1>3, FutureStays
<1>8. Zeroing' = Zeroing
  <2>1. fPc[t] \notin {"zero", "zeroasleep"} /\ fPc'[t] \notin {"zero", "zeroasleep"}
    BY <1>3
  <2> QED BY <1>7, <2>1 DEF Zeroing
<1>9. Assoc!FirstRef' <=> Assoc!FirstRef
  <2>1. CASE t = Owner
    BY <1>3, <2>1 DEF Assoc!FirstRef
  <2>2. CASE t # Owner
    <3>1. /\ fPc'[Owner] \in {"zero", "zeroasleep"} <=> fPc[Owner] \in {"zero", "zeroasleep"}
          /\ fPc[Owner] \notin {"zero", "zeroasleep"} => fPc'[Owner] = fPc[Owner]
      BY <1>4, <1>7, <2>2
    <3> QED BY <3>1 DEF Assoc!FirstRef
  <2> QED BY <2>1, <2>2
<1>10. fPc[Owner] # "exit" /\ fPc'[Owner] # "exit"
  <2>1. fPc[Owner] # "exit"
    BY <1>5 DEF FutureInv, ResultsRight
  <2> QED BY <1>3, <1>4, <1>7, <2>1 DEF FutureAssumption, PartiesAssumption
<1>11. FutureTypes'
  <2>1. fHas' \in Results /\ fOwners' \in Int
    BY <1>1, <1>2 DEF FutureTypes, Results
  <2>2. fPc'[Owner] \in OwnerLabels
    BY <1>3, <1>4, <1>7 DEF FutureAssumption, PartiesAssumption, OwnerLabels
  <2>3. fPc'[Runner] \in RunnerLabels
    BY <1>2, <1>3, <1>4, <1>7 DEF FutureTypes, FutureAssumption, PartiesAssumption, RunnerLabels
  <2>4. \A w \in Thread : fPc'[w] \in WaiterLabels
    BY <1>3, <1>4, <1>7 DEF FutureAssumption, PartiesAssumption, WaiterLabels
  <2> QED BY <1>2, <1>3, <2>1, <2>2, <2>3, <2>4 DEF FutureTypes
<1>12. Counted'
  <2>2. Cardinality(fRefs) \in Nat
    BY <1>2, FutureFinite DEF FutureTypes
  <2>1. fOwners \in Int /\ fOwners + 1 = Cardinality(fRefs) + (IF Assoc!FirstRef THEN 1 ELSE 0)
    <3>1. Counted
      BY DEF FutureInv
    <3> QED BY <1>2, <1>5, <2>2, <3>1 DEF Counted, FutureTypes
  <2> QED BY <1>1, <1>5, <1>9, <2>1, <2>2 DEF Counted
<1>13. WaitersHold'
  BY <1>2, <1>3, <1>4, <1>7 DEF FutureInv, WaitersHold, Assoc!InCall, FutureAssumption, PartiesAssumption
<1>14. ZeroAlone' /\ FreedLast'
  <2>1. CASE t = Owner
    <3>1. Zeroing = {}
      BY <2>1, FutureThere DEF Unowned, Assoc!FirstRef, FutureAssumption, PartiesAssumption
    <3> QED BY <1>6, <1>8, <3>1 DEF ZeroAlone, FreedLast
  <2>2. CASE ~atexit
    <3>1. Unowned' <=> Unowned
      BY <1>1, <1>9, <2>2 DEF Unowned
    <3> QED BY <1>6, <1>8, <3>1 DEF FutureInv, ZeroAlone, FreedLast
  <2> QED BY <2>1, <2>2, <1>4
<1>15. KindsMeet'
  <2>1. Kind # "async" => fPc'[Runner] = "absent"
    BY <1>4, <1>7 DEF FutureInv, KindsMeet, FutureAssumption, PartiesAssumption
  <2>2. Kind = "async" => t = Runner
    BY DEF FutureInv, KindsMeet
  <2>3. fHas' # "none" /\ (t = Runner => fPc'[Runner] = "gone")
    BY <1>1, <1>3 DEF FutureAssumption, PartiesAssumption
  <2>4. fPc'[Owner] = "launch" => fPc[Owner] = "launch" /\ t # Owner
    BY <1>3, <1>4, <1>7 DEF FutureAssumption, PartiesAssumption
  <2>5. fPc'[Owner] = "break" => fPc[Owner] = "break"
    BY <1>3, <1>4, <1>7 DEF FutureAssumption, PartiesAssumption
  <2>6. \A w \in Thread : fPc'[w] = "running" => fPc[w] = "running"
    BY <1>3, <1>4, <1>7 DEF FutureAssumption, PartiesAssumption
  <2>7. fPc'[Owner] = "launch" => Kind = "async" /\ fPc'[Runner] = "absent" /\ fRuns = 0
    <3>1. fPc[Owner] = "launch" => fPc[Runner] = "absent" /\ Kind = "async" /\ fRuns = 0
      BY DEF FutureInv, KindsMeet
    <3> QED BY <2>2, <2>4, <3>1
  <2> QED BY <1>1, <2>1, <2>2, <2>3, <2>5, <2>6, <2>7 DEF FutureInv, KindsMeet
<1>16. ResultsRight'
  <2>1. \A u \in Assoc!Party : fGot[u] = "none"
    BY <1>1 DEF FutureInv, ResultsRight
  <2>2. fHas' # "none" /\ ~(fReady' /\ fAtExit')
    BY <1>1, <1>5
  <2> QED BY <1>10, <2>1, <2>2 DEF ResultsRight
<1> QED BY <1>11, <1>12, <1>13, <1>14, <1>15, <1>16 DEF FutureInv

(* While somebody owns the state and nobody begins to delete it.           *)
LEMMA FutureOwned ==
  ASSUME FutureInv, ~Unowned, fFreed' = fFreed, Zeroing' = {}
  PROVE  ZeroAlone' /\ FreedLast'
BY FutureThere DEF ZeroAlone, FreedLast

LEMMA FutureParties ==
  FutureAssumption =>
    /\ Owner \in Assoc!Party /\ Runner \in Assoc!Party /\ Thread \subseteq Assoc!Party
    /\ Assoc!Party \subseteq Thread \cup {Owner, Runner}
    /\ Owner \notin Thread /\ Runner \notin Thread /\ Owner # Runner
BY DEF FutureAssumption, PartiesAssumption, Assoc!Party

(* The thread of async starts, or cannot; the promise goes.                *)
LEMMA FutureOwnerGoes ==
  ASSUME FutureAssumption, FutureInv, Assoc!Launch \/ Assoc!DestroyPromise
  PROVE  FutureInv'
<1> USE DEF Assoc!Go, Assoc!bits
<1>1. /\ fPc[Owner] \in {"launch", "open"} /\ fPc'[Owner] \in {"open", "break", "release"}
      /\ fPc'[Owner] = "break" => Kind = "promise"
      /\ \A u \in Assoc!Party : u # Owner /\ u # Runner => fPc'[u] = fPc[u]
      /\ fPc' \in [Assoc!Party -> FutureLabels]
      /\ \/ fPc'[Runner] = fPc[Runner] /\ fRuns' = fRuns
         \/ fPc[Owner] = "launch" /\ fPc'[Runner] = "running" /\ fRuns' = fRuns + 1
      /\ UNCHANGED <<fHas, fReady, fDeferred, fAttached, fOwners, fFreed, fRefs, fAtExit, fGot>>
  <2>1. CASE Assoc!Launch
    <3>1. /\ fPc[Owner] = "launch"
          /\ UNCHANGED <<fHas, fReady, fDeferred, fAttached, fOwners, fFreed, fRefs, fAtExit, fGot>>
      BY <2>1 DEF Assoc!Launch
    <3>2. CASE fPc' = [fPc EXCEPT ![Owner] = "open", ![Runner] = "running"] /\ fRuns' = fRuns + 1
      BY <3>1, <3>2, FutureParties DEF FutureInv, FutureTypes, FutureLabels, OwnerLabels, RunnerLabels
    <3>3. CASE fPc' = [fPc EXCEPT ![Owner] = "release"] /\ fRuns' = fRuns
      BY <3>1, <3>3, FutureParties DEF FutureInv, FutureTypes, FutureLabels, OwnerLabels
    <3> QED BY <2>1, <3>2, <3>3 DEF Assoc!Launch
  <2>2. CASE Assoc!DestroyPromise
    <3>1. PICK l \in {"break", "release"} : fPc' = [fPc EXCEPT ![Owner] = l]
      BY <2>2 DEF Assoc!DestroyPromise
    <3> QED BY <2>2, <3>1, FutureParties DEF Assoc!DestroyPromise, FutureInv, FutureTypes, FutureLabels, OwnerLabels
  <2> QED BY <2>1, <2>2
<1>2. ~Unowned /\ Assoc!FirstRef /\ Assoc!FirstRef'
  BY <1>1 DEF Unowned, Assoc!FirstRef
<1>3. Zeroing = {}
  BY <1>2, FutureThere
<1>4. Zeroing' = {}
  BY <1>1, <1>3, FutureParties DEF Zeroing
<1>5. \A w \in Thread : fPc'[w] = fPc[w] /\ (Assoc!InCall(w)' <=> Assoc!InCall(w))
  BY <1>1, FutureParties DEF Assoc!InCall
<1>6. FutureTypes'
  <2>1. fRuns' \in {0, 1}
    BY <1>1 DEF FutureInv, FutureTypes, KindsMeet
  <2>2. fPc'[Owner] \in OwnerLabels /\ fPc'[Runner] \in RunnerLabels
    BY <1>1 DEF FutureInv, FutureTypes, OwnerLabels, RunnerLabels
  <2> QED BY <1>1, <1>5, <2>1, <2>2 DEF FutureInv, FutureTypes
<1>7. Counted'
  BY <1>1, <1>2 DEF FutureInv, Counted
<1>8. WaitersHold'
  BY <1>1, <1>5 DEF FutureInv, WaitersHold
<1>9. ZeroAlone' /\ FreedLast'
  BY <1>1, <1>2, <1>4, FutureOwned
<1>10. KindsMeet'
  <2>0. fPc[Owner] = "launch" => Kind = "async" /\ fHas = "none" /\ ~fDeferred
    BY DEF FutureInv, KindsMeet
  <2>1. fPc'[Runner] = fPc[Runner] \/ (Kind = "async" /\ fHas = "none" /\ fPc'[Runner] = "running" /\ ~fDeferred)
    BY <1>1, <2>0
  <2>2. fRuns' = fRuns \/ ~fDeferred
    BY <1>1 DEF FutureInv, KindsMeet
  <2> QED BY <1>1, <1>5, <2>1, <2>2 DEF FutureInv, KindsMeet
<1>11. ResultsRight'
  BY <1>1 DEF FutureInv, ResultsRight
<1> QED BY <1>6, <1>7, <1>8, <1>9, <1>10, <1>11 DEF FutureInv

(* A future is made or copied. *)
LEMMA FutureGrows ==
  ASSUME FutureAssumption, FutureInv, Assoc!GetFuture \/ \E w \in Thread : Assoc!CopyFuture(w)
  PROVE  FutureInv'
<1> USE DEF Assoc!Go, Assoc!bits, Assoc!AddShared
<1>1. /\ fOwners' = fOwners + 1 /\ ~Unowned
      /\ UNCHANGED <<fHas, fReady, fDeferred, fFreed, fAtExit, fGot, fRuns>>
      /\ fAttached' \/ (fAttached' = fAttached /\ fRefs # {})
  <2>1. CASE Assoc!GetFuture
    <3>1. Assoc!FirstRef /\ fAttached'
      BY <2>1 DEF Assoc!GetFuture, Assoc!FirstRef
    <3> QED BY <2>1, <3>1 DEF Assoc!GetFuture, Unowned
  <2>2. CASE \E w \in Thread : Assoc!CopyFuture(w)
    BY <2>2 DEF Assoc!CopyFuture, Unowned
  <2> QED BY <2>1, <2>2
<1>2. PICK u \in Thread : u \notin fRefs /\ fRefs' = fRefs \cup {u}
  <2>1. CASE Assoc!GetFuture
    <3>1. fRefs = {}
      BY <2>1 DEF Assoc!GetFuture, FutureInv, KindsMeet
    <3>2. PICK u \in Thread : fRefs' = {u}
      BY <2>1 DEF Assoc!GetFuture
    <3> QED BY <3>1, <3>2
  <2>2. CASE \E w \in Thread : Assoc!CopyFuture(w)
    BY <2>2 DEF Assoc!CopyFuture
  <2> QED BY <2>1, <2>2
<1>3. /\ fPc' \in [Assoc!Party -> FutureLabels] /\ fPc'[Owner] \in OwnerLabels
      /\ \/ fPc'[Owner] = fPc[Owner]
         \/ fPc[Owner] = "open" /\ fPc'[Owner] \in {"open", "release"}
      /\ \A v \in Assoc!Party : v # Owner => fPc'[v] = fPc[v]
  <2>1. CASE Assoc!GetFuture
    <3>1. PICK l \in {"open", "release"} : fPc[Owner] = "open" /\ fPc' = [fPc EXCEPT ![Owner] = l]
      BY <2>1 DEF Assoc!GetFuture
    <3> QED BY <3>1, FutureParties DEF FutureInv, FutureTypes, FutureLabels, OwnerLabels
  <2>2. CASE \E w \in Thread : Assoc!CopyFuture(w)
    <3>1. fPc' = fPc
      BY <2>2 DEF Assoc!CopyFuture
    <3> QED BY <3>1 DEF FutureInv, FutureTypes
  <2> QED BY <2>1, <2>2
<1>4. Assoc!FirstRef' <=> Assoc!FirstRef
  BY <1>3 DEF Assoc!FirstRef
<1>5. Zeroing = {}
  BY <1>1, FutureThere
<1>6. Zeroing' = {}
  BY <1>3, <1>5, FutureParties DEF Zeroing
<1>7. \A w \in Thread : fPc'[w] = fPc[w] /\ (Assoc!InCall(w)' <=> Assoc!InCall(w))
  BY <1>3, FutureParties DEF Assoc!InCall
<1>8. fPc'[Runner] = fPc[Runner]
  BY <1>3, FutureParties
<1>9. FutureTypes'
  BY <1>1, <1>2, <1>3, <1>7, <1>8 DEF FutureInv, FutureTypes
<1>10. Counted'
  <2>1. IsFiniteSet(fRefs) /\ Cardinality(fRefs) \in Nat
    BY FutureFinite DEF FutureInv, FutureTypes
  <2>2. Cardinality(fRefs') = Cardinality(fRefs) + 1
    BY <1>2, <2>1, OneMore
  <2>3. Counted /\ fOwners \in Int
    BY DEF FutureInv, FutureTypes
  <2> QED BY <1>1, <1>4, <2>1, <2>2, <2>3 DEF Counted
<1>11. WaitersHold'
  BY <1>2, <1>7 DEF FutureInv, WaitersHold
<1>12. ZeroAlone' /\ FreedLast'
  BY <1>1, <1>6, FutureOwned
<1>13. KindsMeet'
  <2>1. fAttached'
    BY <1>1 DEF FutureInv, KindsMeet
  <2>2. /\ fPc'[Owner] = "launch" => fPc[Owner] = "launch"
        /\ fPc'[Owner] = "break" => fPc[Owner] = "break"
    BY <1>3
  <2> QED BY <1>1, <1>7, <1>8, <2>1, <2>2 DEF FutureInv, KindsMeet
<1>14. ResultsRight'
  BY <1>1, <1>3 DEF FutureInv, ResultsRight
<1> QED BY <1>9, <1>10, <1>11, <1>12, <1>13, <1>14 DEF FutureInv

(* The thread of the promise exits and makes the state ready.              *)
LEMMA FutureExits ==
  ASSUME FutureAssumption, FutureInv, Assoc!MakeReady
  PROVE  FutureInv'
<1>1. /\ fPc[Owner] = "gone" /\ fAtExit /\ fReady'
      /\ fPc' = Assoc!NotifyAll([fPc EXCEPT ![Owner] = "exit"])
      /\ UNCHANGED <<fHas, fDeferred, fAttached, fOwners, fFreed, fRefs, fAtExit, fGot, fRuns>>
  BY DEF Assoc!MakeReady
<1>2. FutureTypes /\ Owner \notin Assoc!Asleep /\ "exit" \in FutureLabels
  BY <1>1 DEF FutureInv, Assoc!Asleep, FutureLabels, OwnerLabels
<1>3. /\ fPc' \in [Assoc!Party -> FutureLabels] /\ fPc'[Owner] = "exit"
      /\ \A u \in Assoc!Party : u # Owner => Stays(u)
  BY <1>1, <1>2, FutureParties, FutureNotify
<1>4. \A u \in Assoc!Party : u # Owner =>
        /\ Assoc!InCall(u)' <=> Assoc!InCall(u)
        /\ fPc'[u] \in {"zero", "zeroasleep"} <=> fPc[u] \in {"zero", "zeroasleep"}
        /\ fPc'[u] = "running" <=> fPc[u] = "running"
        /\ u \in Thread => fPc'[u] \in WaiterLabels
        /\ u = Runner => fPc'[u] = fPc[u]
  BY <1>2, <1>3, FutureStays
<1>5. ~Unowned /\ ~Assoc!FirstRef /\ ~Assoc!FirstRef'
  BY <1>1, <1>3 DEF Unowned, Assoc!FirstRef
<1>6. Zeroing = {}
  BY <1>5, FutureThere
<1>7. Zeroing' = {}
  BY <1>3, <1>4, <1>6, FutureParties DEF Zeroing
<1>8. fPc'[Runner] = fPc[Runner]
  BY <1>4, FutureParties
<1>9. FutureTypes'
  BY <1>1, <1>2, <1>3, <1>4, <1>8, FutureParties DEF FutureTypes, OwnerLabels
<1>10. Counted'
  BY <1>1, <1>5 DEF FutureInv, Counted
<1>11. WaitersHold'
  BY <1>1, <1>4, FutureParties DEF FutureInv, WaitersHold
<1>12. ZeroAlone' /\ FreedLast'
  BY <1>1, <1>5, <1>7, FutureOwned
<1>13. KindsMeet'
  BY <1>1, <1>3, <1>4, <1>8, FutureParties DEF FutureInv, KindsMeet
<1>14. ResultsRight'
  BY <1>1, <1>3 DEF FutureInv, ResultsRight
<1> QED BY <1>9, <1>10, <1>11, <1>12, <1>13, <1>14 DEF FutureInv

(* __release_shared, by the promise or the __h of a function, by the       *)
(* thread that exits, and by a future.                                     *)
LEMMA FutureReleases ==
  ASSUME FutureAssumption, FutureInv, NEW t \in Assoc!Party, NEW l, Assoc!Release(t, l),
         \/ t = Owner /\ fPc[t] = "release" /\ l = "gone" /\ UNCHANGED <<fRefs, fAtExit>>
         \/ t = Owner /\ fPc[t] = "exit" /\ l = "exited" /\ ~fAtExit' /\ UNCHANGED fRefs
         \/ t \in Thread /\ fPc[t] = "idle" /\ l = "idle" /\ t \in fRefs /\ fRefs' = fRefs \ {t} /\ UNCHANGED fAtExit,
         UNCHANGED <<fHas, fReady, fDeferred, fAttached, fGot, fRuns>>
  PROVE  FutureInv'
<1>1. /\ fOwners' = fOwners - 1
      /\ \/ fOwners' = -1 /\ Kind = "async" /\ fPc' = [fPc EXCEPT ![t] = "zero"] /\ fFreed' = fFreed
         \/ fOwners' = -1 /\ Kind # "async" /\ fPc' = [fPc EXCEPT ![t] = l]
         \/ fOwners' # -1 /\ fPc' = [fPc EXCEPT ![t] = l] /\ fFreed' = fFreed
  BY DEF Assoc!Release, Assoc!Go, Assoc!ZeroWaits
<1>2. FutureTypes /\ Counted
  BY DEF FutureInv
<1>3. /\ fPc'[t] \in {l, "zero"} /\ fPc' \in [Assoc!Party -> FutureLabels]
      /\ \A u \in Assoc!Party : u # t => fPc'[u] = fPc[u]
  BY <1>1, <1>2 DEF FutureTypes, FutureLabels, OwnerLabels, WaiterLabels
<1>4. ~Unowned
  BY DEF Unowned, Assoc!FirstRef, FutureInv, ResultsRight
<1>5. ~fFreed /\ Zeroing = {}
  BY <1>4, FutureThere
<1>6. Zeroing' = IF fPc'[t] = "zero" THEN {t} ELSE {}
  BY <1>3, <1>5 DEF Zeroing
<1>7. fRefs' \subseteq Thread
  BY <1>2 DEF FutureTypes
<1>8. /\ Cardinality(fRefs) \in Nat /\ Cardinality(fRefs') \in Nat /\ IsFiniteSet(fRefs)
      /\ Cardinality(fRefs') = 0 <=> fRefs' = {}
  BY <1>2, <1>7, FutureFinite DEF FutureTypes
<1>9. Counted'
  <2>1. CASE t = Owner /\ fPc[t] = "release" /\ UNCHANGED <<fRefs, fAtExit>>
    <3>1. Assoc!FirstRef /\ ~Assoc!FirstRef'
      BY <1>3, <2>1, FutureParties DEF Assoc!FirstRef
    <3> QED BY <1>1, <1>2, <1>8, <2>1, <3>1 DEF Counted, FutureTypes
  <2>2. CASE t = Owner /\ fPc[t] = "exit" /\ ~fAtExit' /\ UNCHANGED fRefs
    <3>1. ~Assoc!FirstRef /\ ~Assoc!FirstRef'
      BY <1>3, <2>2, FutureParties DEF Assoc!FirstRef
    <3>2. fAtExit
      BY <2>2 DEF FutureInv, ResultsRight
    <3> QED BY <1>1, <1>2, <1>8, <2>2, <3>1, <3>2 DEF Counted, FutureTypes
  <2>3. CASE t \in Thread /\ t \in fRefs /\ fRefs' = fRefs \ {t} /\ UNCHANGED fAtExit
    <3>1. Assoc!FirstRef' <=> Assoc!FirstRef
      BY <1>3, <2>3, FutureParties DEF Assoc!FirstRef
    <3>2. Cardinality(fRefs') = Cardinality(fRefs) - 1
      BY <1>8, <2>3, OneLess
    <3> QED BY <1>1, <1>2, <1>8, <2>3, <3>1, <3>2 DEF Counted, FutureTypes
  <2> QED BY <2>1, <2>2, <2>3
<1>10. fOwners' = -1 => Unowned'
  <2>1. fOwners' = -1 => Cardinality(fRefs') = 0 /\ ~Assoc!FirstRef' /\ ~fAtExit'
    BY <1>8, <1>9 DEF Counted
  <2> QED BY <1>8, <2>1 DEF Unowned
<1>11. FutureTypes'
  <2>1. /\ t = Owner => fPc'[t] \in OwnerLabels
        /\ t \in Thread => fPc'[t] \in WaiterLabels
        /\ t # Runner
    BY <1>3, FutureParties DEF OwnerLabels, WaiterLabels
  <2>2. /\ fPc'[Owner] \in OwnerLabels /\ fPc'[Runner] \in RunnerLabels
        /\ \A w \in Thread : fPc'[w] \in WaiterLabels
    BY <1>2, <1>3, <2>1, FutureParties DEF FutureTypes
  <2> QED BY <1>1, <1>2, <1>3, <1>7, <2>2 DEF FutureTypes
<1>12. WaitersHold'
  <2>1. \A w \in Thread : w # t => (Assoc!InCall(w)' <=> Assoc!InCall(w))
    BY <1>3, FutureParties DEF Assoc!InCall
  <2>2. \A w \in Thread : w # t /\ w \in fRefs => w \in fRefs'
    OBVIOUS
  <2>3. ~Assoc!InCall(t)'
    BY <1>3 DEF Assoc!InCall
  <2> QED BY <2>1, <2>2, <2>3 DEF FutureInv, WaitersHold
<1>13. fPc'[Runner] = fPc[Runner] /\ t # Runner
  BY <1>3, FutureParties
<1>14. ZeroAlone'
  <2>1. fPc'[t] = "zero" => fOwners' = -1 /\ Kind = "async" /\ fFreed' = fFreed
    BY <1>1, <1>2 DEF FutureTypes
  <2> QED BY <1>5, <1>6, <1>10, <2>1 DEF ZeroAlone
<1>15. FreedLast'
  <2>1. fFreed' => fOwners' = -1 /\ Kind # "async" /\ fPc'[t] # "zero"
    BY <1>1, <1>2, <1>5 DEF FutureTypes
  <2>2. Kind # "async" => fPc[Runner] # "running"
    BY DEF FutureInv, KindsMeet
  <2> QED BY <1>6, <1>10, <1>13, <2>1, <2>2 DEF FreedLast
<1>16. KindsMeet'
  <2>1. /\ fPc'[Owner] = "launch" => fPc[Owner] = "launch"
        /\ fPc'[Owner] = "break" => fPc[Owner] = "break"
        /\ \A w \in Thread : fPc'[w] = "running" => fPc[w] = "running"
    BY <1>3, FutureParties
  <2>2. ~fAttached => fRefs' = {}
    BY DEF FutureInv, KindsMeet
  <2> QED BY <1>13, <2>1, <2>2 DEF FutureInv, KindsMeet
<1>17. ResultsRight'
  <2>1. fPc'[Owner] = "exit" => fPc[Owner] = "exit" /\ t # Owner
    BY <1>3, FutureParties
  <2>2. fPc[Owner] = "exit" /\ t # Owner => fPc'[Owner] = "exit"
    BY <1>3, FutureParties
  <2>3. fAtExit' => fAtExit
    OBVIOUS
  <2>4. t # Owner => fAtExit' = fAtExit
    BY FutureParties
  <2>5. fReady /\ fAtExit' => fPc'[Owner] = "exit"
    <3>1. CASE t = Owner /\ fPc[t] = "release"
      BY <2>3, <3>1 DEF FutureInv, ResultsRight
    <3>2. CASE t = Owner /\ fPc[t] = "exit"
      BY <3>2
    <3>3. CASE t # Owner
      BY <2>2, <2>4, <3>3 DEF FutureInv, ResultsRight
    <3> QED BY <3>1, <3>2, <3>3, FutureParties
  <2> QED BY <2>1, <2>3, <2>4, <2>5 DEF FutureInv, ResultsRight
<1> QED BY <1>2, <1>9, <1>11, <1>12, <1>14, <1>15, <1>16, <1>17 DEF FutureInv

(* The wait of __on_zero_shared, and the delete after it. *)
LEMMA FutureZeroes ==
  ASSUME FutureAssumption, FutureInv, NEW t \in Assoc!Party, t # Runner, Assoc!Zero(t)
  PROVE  FutureInv'
<1>1. /\ fPc[t] = "zero"
      /\ \/ fReady /\ fFreed' /\ fPc' = [fPc EXCEPT ![t] = "gone"]
         \/ ~fReady /\ fFreed' = fFreed /\ fPc' = [fPc EXCEPT ![t] = "zeroasleep"]
      /\ UNCHANGED <<fHas, fReady, fDeferred, fAttached, fOwners, fRefs, fAtExit, fGot, fRuns>>
  BY DEF Assoc!Zero, Assoc!Go, Assoc!bits
<1>2. FutureTypes
  BY DEF FutureInv
<1>3. /\ fPc'[t] \in {"gone", "zeroasleep"} /\ fPc' \in [Assoc!Party -> FutureLabels]
      /\ \A u \in Assoc!Party : u # t => fPc'[u] = fPc[u]
  BY <1>1, <1>2 DEF FutureTypes, FutureLabels, OwnerLabels, WaiterLabels
<1>4. t \in Zeroing
  BY <1>1 DEF Zeroing
<1>5. Kind = "async" /\ Unowned /\ Zeroing = {t}
  BY <1>4 DEF FutureInv, ZeroAlone
<1>6. Zeroing' = IF fPc'[t] = "gone" THEN {} ELSE {t}
  BY <1>3, <1>5 DEF Zeroing
<1>7. fPc'[Runner] = fPc[Runner]
  BY <1>3, FutureParties
<1>8. ~Assoc!FirstRef /\ ~Assoc!FirstRef'
  BY <1>1, <1>3, <1>5, FutureParties DEF Assoc!FirstRef, Unowned
<1>9. Unowned'
  BY <1>1, <1>5, <1>8 DEF Unowned
<1>10. FutureTypes'
  <2>1. /\ t = Owner => fPc'[t] \in OwnerLabels
        /\ t \in Thread => fPc'[t] \in WaiterLabels
    BY <1>3 DEF OwnerLabels, WaiterLabels
  <2>2. /\ fPc'[Owner] \in OwnerLabels /\ fPc'[Runner] \in RunnerLabels
        /\ \A w \in Thread : fPc'[w] \in WaiterLabels
    BY <1>2, <1>3, <1>7, <2>1, FutureParties DEF FutureTypes
  <2> QED BY <1>1, <1>2, <1>3, <2>2 DEF FutureTypes
<1>11. Counted'
  BY <1>1, <1>8 DEF FutureInv, Counted
<1>12. WaitersHold'
  <2>1. \A w \in Thread : Assoc!InCall(w)' => Assoc!InCall(w)
    BY <1>3, FutureParties DEF Assoc!InCall
  <2> QED BY <1>1, <2>1 DEF FutureInv, WaitersHold
<1>13. ZeroAlone'
  <2>1. fPc'[t] # "gone" => ~fFreed'
    BY <1>1, <1>2, <1>4 DEF FutureInv, ZeroAlone, FutureTypes
  <2> QED BY <1>5, <1>6, <1>9, <2>1 DEF ZeroAlone
<1>14. FreedLast'
  <2>1. fFreed' => fReady /\ fPc'[t] = "gone"
    BY <1>1, <1>2, <1>4 DEF FutureInv, ZeroAlone, FutureTypes
  <2>2. fReady => fPc[Runner] = "gone"
    BY <1>5 DEF FutureInv, ResultsRight, KindsMeet
  <2> QED BY <1>6, <1>7, <1>9, <2>1, <2>2 DEF FreedLast
<1>15. KindsMeet'
  <2>1. /\ fPc'[Owner] = "launch" => fPc[Owner] = "launch"
        /\ fPc'[Owner] = "break" => fPc[Owner] = "break"
        /\ \A w \in Thread : fPc'[w] = "running" => fPc[w] = "running"
    BY <1>3, FutureParties
  <2> QED BY <1>1, <1>7, <2>1 DEF FutureInv, KindsMeet
<1>16. ResultsRight'
  <2>1. fPc'[Owner] = "exit" => fPc[Owner] = "exit"
    BY <1>3, FutureParties
  <2> QED BY <1>1, <1>5, <2>1 DEF FutureInv, ResultsRight, Unowned
<1> QED BY <1>10, <1>11, <1>12, <1>13, <1>14, <1>15, <1>16 DEF FutureInv

LEMMA FutureStep == FutureAssumption /\ FutureInv /\ [Assoc!Next]_Assoc!vars => FutureInv'
<1> SUFFICES ASSUME FutureAssumption, FutureInv, [Assoc!Next]_Assoc!vars PROVE FutureInv'
  OBVIOUS
<1>1. CASE UNCHANGED Assoc!vars
  <2>1. UNCHANGED <<fHas, fReady, fDeferred, fAttached, fOwners, fFreed, fPc, fRefs, fAtExit, fGot, fRuns>>
    BY <1>1 DEF Assoc!vars, Assoc!bits
  <2>2. /\ Assoc!FirstRef' <=> Assoc!FirstRef
        /\ \A w \in Thread : Assoc!InCall(w)' <=> Assoc!InCall(w)
    BY <2>1 DEF Assoc!FirstRef, Assoc!InCall
  <2>3. (Unowned' <=> Unowned) /\ Zeroing' = Zeroing
    BY <2>1, <2>2 DEF Unowned, Zeroing
  <2>4. FutureTypes' /\ KindsMeet' /\ ResultsRight'
    BY <2>1 DEF FutureInv, FutureTypes, KindsMeet, ResultsRight
  <2>5. Counted' /\ WaitersHold'
    BY <2>1, <2>2 DEF FutureInv, Counted, WaitersHold
  <2>6. ZeroAlone' /\ FreedLast'
    BY <2>1, <2>3 DEF FutureInv, ZeroAlone, FreedLast
  <2> QED BY <2>4, <2>5, <2>6 DEF FutureInv
<1>2. CASE Assoc!OwnerStep
  <2>1. CASE Assoc!Launch \/ Assoc!DestroyPromise
    BY <2>1, FutureOwnerGoes
  <2>2. CASE Assoc!GetFuture
    BY <2>2, FutureGrows
  <2>3. CASE Assoc!SetResult
    <3>1. PICK o \in {"value", "exception"}, atexit \in BOOLEAN : Assoc!Set(Owner, o, atexit, "open")
      BY <2>3 DEF Assoc!SetResult
    <3>2. /\ fPc[Owner] = "open" /\ Kind = "promise" /\ UNCHANGED <<fFreed, fRefs, fGot, fRuns>>
          /\ "open" \in FutureLabels /\ o \in {"value", "exception", "broken"}
      BY <2>3 DEF Assoc!SetResult, FutureLabels, OwnerLabels
    <3> QED BY <3>1, <3>2, FutureParties, FutureSets
  <2>4. CASE Assoc!BreakPromise
    <3>1. Kind = "promise"
      BY <2>4 DEF Assoc!BreakPromise, FutureInv, KindsMeet
    <3>2. /\ fPc[Owner] = "break" /\ UNCHANGED <<fFreed, fRefs, fGot, fRuns>>
          /\ "release" \in FutureLabels /\ Assoc!Set(Owner, "broken", FALSE, "release")
          /\ "broken" \in {"value", "exception", "broken"} /\ FALSE \in BOOLEAN
      BY <2>4 DEF Assoc!BreakPromise, FutureLabels, OwnerLabels
    <3> QED BY <3>1, <3>2, FutureParties, FutureSets
  <2>5. CASE Assoc!ReleaseFirst
    BY <2>5, FutureParties, FutureReleases DEF Assoc!ReleaseFirst, Assoc!bits
  <2>6. CASE Assoc!MakeReady
    BY <2>6, FutureExits
  <2>7. CASE Assoc!ReleaseAtExit
    BY <2>7, FutureParties, FutureReleases DEF Assoc!ReleaseAtExit, Assoc!bits
  <2> QED BY <1>2, <2>1, <2>2, <2>3, <2>4, <2>5, <2>6, <2>7 DEF Assoc!OwnerStep
<1>3. ASSUME NEW t \in Thread \cup {Runner}, Assoc!Execute(t)
      PROVE  FutureInv'
  <2>1. PICK o \in {"value", "exception"} : Assoc!Set(t, o, FALSE, IF t = Runner THEN "gone" ELSE "read")
    BY <1>3 DEF Assoc!Execute
  <2>2. /\ fPc[t] = "running" /\ UNCHANGED <<fFreed, fRefs, fGot, fRuns>> /\ t \in Assoc!Party
        /\ o \in {"value", "exception", "broken"} /\ FALSE \in BOOLEAN
        /\ "gone" \in FutureLabels /\ "read" \in FutureLabels
    BY <1>3, FutureParties DEF Assoc!Execute, FutureLabels, WaiterLabels
  <2>3. CASE t = Runner
    <3>1. Assoc!Set(t, o, FALSE, "gone")
      BY <2>1, <2>3
    <3> QED BY <2>2, <2>3, <3>1, FutureSets
  <2>4. CASE t \in Thread
    <3>1. Assoc!Set(t, o, FALSE, "read")
      BY <2>1, <2>4, FutureParties
    <3> QED BY <2>2, <2>4, <3>1, FutureSets
  <2> QED BY <2>3, <2>4
<1>4. ASSUME NEW w \in Thread, Assoc!Drop(w)
      PROVE  FutureInv'
  <2>1. /\ fPc[w] = "idle" /\ w \in fRefs /\ fRefs' = fRefs \ {w} /\ Assoc!Release(w, "idle") /\ w \in Assoc!Party
        /\ UNCHANGED <<fHas, fReady, fDeferred, fAttached, fAtExit, fGot, fRuns>>
    BY <1>4, FutureParties DEF Assoc!Drop, Assoc!bits
  <2> QED BY <2>1, FutureReleases
<1>5. ASSUME NEW w \in Thread,
             \/ Assoc!CopyFuture(w) \/ Assoc!SubWait(w) \/ Assoc!WaitUntil(w) \/ Assoc!Drop(w)
             \/ Assoc!WaiterStep(w)
      PROVE  FutureInv'
  <2>1. w \in Assoc!Party /\ w # Runner
    BY FutureParties
  <2>2. CASE Assoc!CopyFuture(w)
    BY <2>2, FutureGrows
  <2>3. CASE Assoc!SubWait(w) \/ Assoc!WaitUntil(w) \/ Assoc!Wake(w) \/ Assoc!Read(w) \/ Assoc!TimedWake(w)
    BY <2>3, FutureCalls
  <2>4. CASE Assoc!Execute(w)
    BY <2>4, <1>3
  <2>5. CASE Assoc!Zero(w)
    BY <2>1, <2>5, FutureZeroes
  <2> QED BY <1>4, <1>5, <2>2, <2>3, <2>4, <2>5 DEF Assoc!WaiterStep
<1>6. CASE Assoc!Zero(Owner)
  BY <1>6, FutureParties, FutureZeroes
<1>7. CASE \E t \in Assoc!Party : Assoc!SpuriousWake(t)
  BY <1>7, FutureSpurious
<1>8. Runner \in Thread \cup {Runner}
  OBVIOUS
<1> QED BY <1>1, <1>2, <1>3, <1>5, <1>6, <1>7, <1>8 DEF Assoc!Next

(* What the suite asks of the state does not depend on its kind. *)
LEMMA KindsAgree ==
  /\ Assoc!OwnersCounted /\ Assoc!NoUseAfterFree => FutureNotUsedAfterFree
  /\ Assoc!OneResult /\ Assoc!ReadyInTime => OneResult
<1>1. \A S : Assoc!Cardinality(S) = Promise!Cardinality(S)
  BY DEF Assoc!Cardinality, Promise!Cardinality
<1>2. Assoc!OwnersCounted => Promise!OwnersCounted
  BY <1>1 DEF Assoc!OwnersCounted, Promise!OwnersCounted, Assoc!FirstRef, Promise!FirstRef
<1>3. Assoc!NoUseAfterFree => Promise!NoUseAfterFree
  BY DEF Assoc!NoUseAfterFree, Promise!NoUseAfterFree, Assoc!FirstRef, Promise!FirstRef,
         Assoc!Party, Promise!Party, Assoc!InCall, Promise!InCall
<1>4. Assoc!OneResult => Promise!OneResult
  BY DEF Assoc!OneResult, Promise!OneResult, Assoc!Party, Promise!Party, Assoc!None, Promise!None
<1>5. Assoc!ReadyInTime => Promise!ReadyInTime
  BY DEF Assoc!ReadyInTime, Promise!ReadyInTime, Assoc!None, Promise!None
<1> QED BY <1>2, <1>3, <1>4, <1>5 DEF FutureNotUsedAfterFree, OneResult

LEMMA FutureMeans == FutureAssumption /\ FutureInv => FutureNotUsedAfterFree /\ OneResult
<1> SUFFICES ASSUME FutureAssumption, FutureInv PROVE FutureNotUsedAfterFree /\ OneResult
  OBVIOUS
<1>1. Assoc!OwnersCounted
  <2>1. \A S : Assoc!Cardinality(S) = Cardinality(S)
    BY DEF Assoc!Cardinality, Cardinality
  <2> QED BY <2>1 DEF FutureInv, Counted, Assoc!OwnersCounted
<1>2. Assoc!NoUseAfterFree
  <2>1. SUFFICES ASSUME fFreed
                 PROVE  /\ Unowned /\ fPc[Runner] # "running"
                        /\ \A t \in Assoc!Party : ~Assoc!InCall(t) /\ fPc[t] \notin {"zero", "zeroasleep"}
    BY DEF Assoc!NoUseAfterFree, Unowned
  <2>2. Unowned /\ fPc[Runner] # "running" /\ Zeroing = {}
    BY <2>1 DEF FutureInv, FreedLast
  <2>3. \A w \in Thread : ~Assoc!InCall(w)
    BY <2>2 DEF FutureInv, WaitersHold, Unowned
  <2>4. ~Assoc!InCall(Owner) /\ ~Assoc!InCall(Runner)
    BY DEF FutureInv, FutureTypes, OwnerLabels, Assoc!InCall
  <2> QED BY <2>2, <2>3, <2>4, FutureParties DEF Zeroing
<1>3. Assoc!OneResult
  BY DEF FutureInv, FutureTypes, ResultsRight, Assoc!OneResult, Assoc!None
<1>4. Assoc!ReadyInTime
  BY DEF FutureInv, ResultsRight, Assoc!ReadyInTime, Assoc!None
<1> QED BY <1>1, <1>2, <1>3, <1>4, KindsAgree

LEMMA FutureHolds == Assoc!KindAssumption => (Assoc!Spec => []FutureInv)
<1> SUFFICES ASSUME Assoc!KindAssumption PROVE Assoc!Spec => []FutureInv
  OBVIOUS
<1>0. FutureAssumption
  BY SuiteAssumption DEF FutureAssumption
<1>1. Assoc!Init => FutureInv
  BY <1>0, FutureInit
<1>2. FutureInv /\ [Assoc!Next]_Assoc!vars => FutureInv'
  BY <1>0, FutureStep
<1> QED BY <1>1, <1>2, PTL DEF Assoc!Spec

(* The state of a promise, of a deferred and of an asynchronous function,  *)
(* for any number of threads that share the future, is deleted after its   *)
(* last user (__assoc_sub_state and its subclasses in <future> and         *)
(* future.cpp).                                                            *)
THEOREM FutureCorrect == Assoc!KindAssumption => (Assoc!Spec => []FutureNotUsedAfterFree)
<1> SUFFICES ASSUME Assoc!KindAssumption PROVE Assoc!Spec => []FutureNotUsedAfterFree
  OBVIOUS
<1>1. FutureInv => FutureNotUsedAfterFree
  BY SuiteAssumption, FutureMeans DEF FutureAssumption
<1>2. Assoc!Spec => []FutureInv
  BY FutureHolds
<1> QED BY <1>1, <1>2, PTL

(* And it gives all of them one result: wait, get and the destructor of    *)
(* promise agree on it, and the function in it runs once.                  *)
THEOREM FutureGivesOneResult == Assoc!KindAssumption => (Assoc!Spec => []OneResult)
<1> SUFFICES ASSUME Assoc!KindAssumption PROVE Assoc!Spec => []OneResult
  OBVIOUS
<1>1. FutureInv => OneResult
  BY SuiteAssumption, FutureMeans DEF FutureAssumption
<1>2. Assoc!Spec => []FutureInv
  BY FutureHolds
<1> QED BY <1>1, <1>2, PTL
=============================================================================
