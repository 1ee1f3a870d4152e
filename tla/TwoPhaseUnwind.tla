--------------------------- MODULE TwoPhaseUnwind ---------------------------
(***************************************************************************)
(* One thread throwing exceptions through its stack: the two phases of the *)
(* unwinder (UnwindLevel1.c), the personality                              *)
(* routine that reads the tables of a function (cxa_personality.cpp), and  *)
(* __cxa_call_unexpected.  A forced unwinding calls its stop function for  *)
(* every frame, and once more at the end of the stack.                     *)
(*                                                                         *)
(* A frame is a function of kind k that is somewhere in its code:          *)
(*   body      the statements its table describes (row, actions),          *)
(*   landing   its landing pad runs cleanups for the exception exc,        *)
(*   handler   one of its handlers runs,                                   *)
(*   resume    it called _Unwind_Resume,                                   *)
(*   spec      it called __cxa_call_unexpected, the frame above it.        *)
(* The code the compiler makes for a landing pad is external.              *)
(***************************************************************************)
EXTENDS Integers, Sequences, SequencesExt, FiniteSetsExt

CONSTANTS Kinds,        \* what a function's table says about its calls
          Types,        \* the types thrown
          Bases,        \* the types whose handlers catch a type
          Foreign,      \* another runtime throws too
          Forced,       \* _Unwind_ForcedUnwind is called
          MaxDepth,     \* bound: frames
          MaxExceptions \* bound: exceptions at a time

UnwindAssumption ==
  /\ {Foreign, Forced} \subseteq BOOLEAN
  /\ MaxDepth \in Nat \ {0} /\ MaxExceptions \in Nat
  /\ Types \cup {"bad_exception"} \subseteq DOMAIN Bases

VARIABLES stack,        \* the frames, innermost last
          caught,       \* caughtExceptions, top last
          ex,           \* the exception objects
          uw,           \* where the unwinder is
          ended,        \* how the thread ended
          hist          \* history: what each exception should do, and did
vars == <<stack, caught, ex, uw, ended, hist>>

Ids == 1 .. MaxExceptions

(***************************************************************************)
(* What the exception table of a function says about one of its calls:     *)
(* whether the function has a personality routine, what row the call has,  *)
(* and the actions of its landing pad in their order.                      *)
(***************************************************************************)
CatchAny == [a |-> "catch", types |-> {}]
Catch(t) == [a |-> "catch", types |-> {t}]
SpecOf(ts) == [a |-> "spec", types |-> ts]
CleanupAction == [a |-> "cleanup", types |-> {}]
None == [a |-> "none", types |-> {}]

\* row: the call-site table has no row for the call, a row without a landing
\* pad, or one with a landing pad and a list of actions.
Kind(pers, row, actions) == [pers |-> pers, row |-> row, actions |-> actions]
UnexpectedKind == Kind(TRUE, "pad", <<CatchAny>>)

NewFrame(k) == [kind |-> k, fn |-> "program", at |-> "body", exc |-> 0, sel |-> None, holds |-> <<>>, saved |-> None]
Idle == [mode |-> "idle", exc |-> 0, cur |-> 0]
Running == [why |-> "no", exc |-> 0]
Dead == [live |-> FALSE, native |-> TRUE, type |-> "none", stop |-> -1, private_2 |-> 0,
         switchValue |-> None, handlerCount |-> 0]
NoHist == [lands |-> <<>>, plan |-> <<>>, ends |-> "none"]

Init == /\ \E k \in Kinds : stack = <<NewFrame(k)>>
        /\ caught = <<>>
        /\ ex = [e \in Ids |-> Dead]
        /\ uw = Idle
        /\ ended = Running
        /\ hist = [e \in Ids |-> NoHist]

-----------------------------------------------------------------------------
(***************************************************************************)
(* What the tables say where a frame is.  A call in a handler is covered   *)
(* by the clean-up that ends the handler, inside the function's exception  *)
(* specification; a call in a cleanup must not throw.                      *)
(***************************************************************************)
IsSpec(a) == a.a = "spec"

SiteOf(f) ==
  CASE f.at = "body" -> f.kind
    [] f.at = "landing" -> Kind(TRUE, "none", <<>>)
    [] f.at = "handler" -> Kind(TRUE, "pad", Append(SelectSeq(f.kind.actions, IsSpec), CleanupAction))
    [] f.at \in {"resume", "spec"} -> Kind(f.kind.pers, "nopad", <<>>)

can_catch(t, type) == t \in Bases[type]

\* An exception specification catches what none of its types catches.
exception_spec_can_catch(types, type) == \A t \in types : ~can_catch(t, type)

(***************************************************************************)
(* scan_eh_tab.  A scan is for a handler (search), for the handler of a    *)
(* foreign exception that was found before (again), for cleanups on the    *)
(* way to a handler (cleanup), or in a forced unwinding (forced).          *)
(***************************************************************************)
Verdict(a, scan, e) ==
  LET catches == IF ex[e].native THEN scan = "search" ELSE scan \in {"search", "again"}
      handler == IF catches THEN "found" ELSE IF scan = "forced" THEN "next" ELSE "terminate"
  IN  CASE a = CatchAny -> IF scan \in {"search", "again"} THEN "found"
                           ELSE IF scan = "forced" THEN "next" ELSE "terminate"
        [] a.a = "catch" /\ a # CatchAny ->
             IF ex[e].native /\ \E t \in a.types : can_catch(t, ex[e].type) THEN handler ELSE "next"
        [] a.a = "spec" ->
             IF ex[e].native /\ ~exception_spec_can_catch(a.types, ex[e].type) THEN "next" ELSE handler
        [] a.a = "cleanup" -> IF scan \in {"cleanup", "forced"} THEN "found" ELSE "next"

Result(reason, sel) == [reason |-> reason, sel |-> sel]

scan_eh_tab(site, scan, e) ==
  CASE site.row = "nopad" -> Result("continue", None)
    [] site.row = "none"  -> Result("terminate", None)
    [] site.row = "pad" /\ site.actions = <<>> ->
         Result(Verdict(CleanupAction, scan, e), CleanupAction)
    [] OTHER ->
         LET hits == {i \in DOMAIN site.actions : Verdict(site.actions[i], scan, e) # "next"}
             a == site.actions[Min(hits)]
         IN  IF hits = {} THEN Result("continue", None) ELSE Result(Verdict(a, scan, e), a)

\* _Unwind_Reason_Code of the personality routine; a native exception keeps
\* what the search found in its header.
gxx_personality_v0(site, scan, e) ==
  IF scan = "again" /\ ex[e].native THEN Result("found", ex[e].switchValue)
  ELSE LET r == scan_eh_tab(site, scan, e)
       IN  IF r.reason = "next" \/ (scan = "again" /\ r.reason = "continue")
             THEN Result(IF scan = "again" THEN "terminate" ELSE "continue", None) ELSE r

-----------------------------------------------------------------------------
(***************************************************************************)
(* What C++ asks for, as a reference: the innermost frame that handles e,  *)
(* or is not to be left by an exception, and the cleanups on the way.      *)
(***************************************************************************)
Handles(a, x) ==
  \/ a = CatchAny
  \/ a.a = "catch" /\ x.native /\ a.types \cap Bases[x.type] # {}
  \/ a.a = "spec" /\ (~x.native \/ a.types \cap Bases[x.type] = {})

Handler(f, x) ==
  LET s == SiteOf(f)
      hs == {i \in DOMAIN s.actions : s.row = "pad" /\ Handles(s.actions[i], x)}
  IN  IF ~f.kind.pers \/ hs = {} THEN None ELSE s.actions[Min(hs)]

CleansUp(f) == LET s == SiteOf(f) IN /\ f.kind.pers /\ s.row = "pad"
                                     /\ s.actions = <<>> \/ CleanupAction \in Range(s.actions)

NotToLeave(f) == f.kind.pers /\ SiteOf(f).row = "none"

\* The landings in frames i down to j, the last one with selector sel.
Landings(stk, i, j, sel) ==
  SelectSeq([n \in 1 .. i - j + 1 |->
               <<i - n + 1, IF n = i - j + 1 /\ sel # None THEN sel
                            ELSE IF CleansUp(stk[i - n + 1]) THEN CleanupAction ELSE None>>],
            LAMBDA l : l[2] # None)

Planned(stk, x) ==
  LET n == Len(stk)
      stops == {i \in 1 .. n : Handler(stk[i], x) # None \/ NotToLeave(stk[i])}
      h == Max(stops)
  IN  IF stops = {} \/ NotToLeave(stk[h])
        THEN [lands |-> <<>>, plan |-> <<>>, ends |-> "terminate"]
        ELSE [lands |-> <<>>, plan |-> Landings(stk, n, h, Handler(stk[h], x)), ends |-> "handler"]

\* A forced unwinding runs the cleanups of all frames above its target.
PlannedForced(target) ==
  LET n == Len(stack)
      stops == {i \in target + 1 .. n : NotToLeave(stack[i])}
      last == IF stops = {} THEN target + 1 ELSE Max(stops) + 1
  IN  [lands |-> <<>>, plan |-> Landings(stack, n, last, None),
       ends |-> IF stops = {} THEN "stop" ELSE "terminate"]

-----------------------------------------------------------------------------
(***************************************************************************)
(* __cxa_begin_catch and __cxa_end_catch, on the caught stack c and the    *)
(* exceptions x.  CxaException has them with reference counts.             *)
(***************************************************************************)
State(c, x) == [c |-> c, x |-> x]
Now == State(caught, ex)

begin_catch(s, e) ==
  IF ~s.x[e].native THEN State(<<e>>, s.x)
  ELSE State(IF s.c # <<>> /\ Last(s.c) = e THEN s.c ELSE Append(s.c, e),
             [s.x EXCEPT ![e].handlerCount = IF @ < 0 THEN -@ + 1 ELSE @ + 1])

end_catch(s) ==
  LET e == Last(s.c)
      n == s.x[e].handlerCount
  IN  CASE s.c = <<>> -> s
        [] s.c # <<>> /\ ~s.x[e].native -> State(<<>>, [s.x EXCEPT ![e] = Dead])
        [] s.c # <<>> /\ s.x[e].native /\ n < 0 ->
             State(IF n = -1 THEN Front(s.c) ELSE s.c, [s.x EXCEPT ![e].handlerCount = n + 1])
        [] s.c # <<>> /\ s.x[e].native /\ n > 0 ->
             IF n = 1 THEN State(Front(s.c), [s.x EXCEPT ![e] = Dead])
                      ELSE State(s.c, [s.x EXCEPT ![e].handlerCount = n - 1])

Becomes(s) == caught' = s.c /\ ex' = s.x

-----------------------------------------------------------------------------
Top == Last(stack)
Below == Front(stack)
TopBecomes(f) == stack' = Append(Below, f)
Terminate(why, e) == ended' = [why |-> why, exc |-> e]

\* Code of the program runs in the top frame.
Runs == ended = Running /\ uw = Idle
MayThrow == Runs /\ (Top.at = "body" \/ (Top.at = "handler" /\ Top.fn = "program"))
Free == {e \in Ids : ~ex[e].live}

\* A function is called, from a cleanup too, or returns.
Call(k) ==
  /\ Runs /\ Len(stack) < MaxDepth
  /\ MayThrow \/ Top.at = "landing"
  /\ stack' = Append(stack, NewFrame(k))
  /\ UNCHANGED <<caught, ex, uw, ended, hist>>

Return ==
  /\ Runs /\ Top.at = "body"
  /\ \/ /\ Len(stack) > 1 /\ Top.fn = "program"
        /\ stack' = Below
        /\ UNCHANGED ended
     \/ /\ Top.fn = "call_unexpected"       \* an unexpected handler must not return
        /\ Terminate("unexpected", Last(Top.holds))
        /\ UNCHANGED stack
  /\ UNCHANGED <<caught, ex, uw, hist>>

\* _Unwind_RaiseException: the marks of an earlier flight are reset, then
\* the search starts at the innermost frame.
Raise(x, e) ==
  /\ ex' = [x EXCEPT ![e].stop = -1, ![e].private_2 = 0]
  /\ uw' = [mode |-> "search", exc |-> e, cur |-> Len(stack)]

Plans(e) == hist' = [hist EXCEPT ![e] = Planned(stack, ex'[e])]

\* __cxa_throw, or the throw of another runtime.
Throw(native, t) ==
  LET e == Min(Free)
  IN  /\ MayThrow /\ Free # {}
      /\ Raise([ex EXCEPT ![e] = [Dead EXCEPT !.live = TRUE, !.native = native, !.type = t]], e)
      /\ UNCHANGED <<stack, caught, ended>>
      /\ Plans(e)

\* throw; outside of a handler.
RethrowNothing ==
  /\ MayThrow /\ caught = <<>>
  /\ Terminate("rethrow", 0)
  /\ UNCHANGED <<stack, caught, ex, uw, hist>>

\* throw; of an exception that is not in flight already.
Rethrow ==
  /\ MayThrow /\ caught # <<>>
  /\ LET e == Last(caught)
     IN  /\ ex[e].handlerCount >= 0
         /\ IF ex[e].native
              THEN /\ Raise([ex EXCEPT ![e].handlerCount = -@], e)
                   /\ UNCHANGED caught
              ELSE /\ Raise(ex, e)
                   /\ caught' = <<>>
         /\ UNCHANGED <<stack, ended>>
         /\ Plans(e)

\* _Unwind_ForcedUnwind, with a stop function that leaves for the frame
\* target, or ends the thread when it is told of the end of the stack.
ForcedUnwind(target) ==
  LET e == Min(Free)
  IN  /\ Forced /\ MayThrow /\ Free # {}
      /\ ex' = [ex EXCEPT ![e] = [Dead EXCEPT !.live = TRUE, !.native = FALSE, !.stop = target]]
      /\ uw' = [mode |-> "forced", exc |-> e, cur |-> Len(stack)]
      /\ hist' = [hist EXCEPT ![e] = PlannedForced(target)]
      /\ UNCHANGED <<stack, caught, ended>>

-----------------------------------------------------------------------------
(***************************************************************************)
(* The unwinder's loops, a frame at a time.                                *)
(***************************************************************************)
At(mode) == ended = Running /\ uw.mode = mode
Cursor == stack[uw.cur]
Asks(scan) == IF Cursor.kind.pers THEN gxx_personality_v0(SiteOf(Cursor), scan, uw.exc)
                                  ELSE Result("continue", None)
NextFrame == uw' = [uw EXCEPT !.cur = @ - 1] /\ UNCHANGED <<stack, ex, ended, hist>>

\* The personality routine terminates.
Gives(r) == r.reason = "terminate" /\ Terminate("raise", uw.exc) /\ UNCHANGED <<stack, ex, uw, hist>>

\* Control is passed to the landing pad of the frame; those above are gone.
InstallContext(sel) ==
  LET e == uw.exc
  IN  /\ stack' = Append(SubSeq(stack, 1, uw.cur - 1),
                         [Cursor EXCEPT !.at = "landing", !.exc = e, !.sel = sel])
      /\ uw' = Idle
      /\ hist' = [hist EXCEPT ![e].lands = Append(@, <<uw.cur, sel>>)]
      /\ UNCHANGED <<ex, ended>>

unwind_phase1 ==
  LET e == uw.exc
      r == Asks("search")
  IN  /\ At("search")
      /\ UNCHANGED caught
      /\ \/ /\ uw.cur = 0                       \* _URC_END_OF_STACK
            /\ Terminate("raise", e)
            /\ UNCHANGED <<stack, ex, uw, hist>>
         \/ /\ uw.cur > 0 /\ r.reason = "continue" /\ NextFrame
         \/ /\ uw.cur > 0 /\ Gives(r)
         \/ /\ uw.cur > 0 /\ r.reason = "found"
            /\ ex' = [ex EXCEPT ![e].private_2 = uw.cur,
                                ![e].switchValue = IF ex[e].native THEN r.sel ELSE @]
            /\ uw' = [mode |-> "cleanup", exc |-> e, cur |-> Len(stack)]
            /\ UNCHANGED <<stack, ended, hist>>

unwind_phase2 ==
  LET marked == uw.cur = ex[uw.exc].private_2
      r == Asks(IF marked THEN "again" ELSE "cleanup")
  IN  /\ At("cleanup")
      /\ UNCHANGED caught
      /\ \/ /\ uw.cur > 0 /\ r.reason = "continue" /\ ~marked /\ NextFrame
         \/ /\ uw.cur > 0 /\ Gives(r)
         \/ /\ uw.cur > 0 /\ r.reason = "found" /\ InstallContext(r.sel)
         \/ /\ uw.cur = 0 \/ (r.reason = "continue" /\ marked)
            /\ Terminate("abort", uw.exc)
            /\ UNCHANGED <<stack, ex, uw, hist>>

\* The stop function is called first; it leaves, or the frame is cleaned up.
unwind_phase2_forced ==
  LET e == uw.exc
      r == Asks("forced")
  IN  /\ At("forced")
      /\ UNCHANGED caught
      /\ \/ /\ uw.cur = 0
            /\ ended' = [why |-> "end", exc |-> e]
            /\ UNCHANGED <<stack, ex, uw, hist>>
         \/ /\ uw.cur > 0 /\ uw.cur = ex[e].stop
            /\ ended' = [why |-> "stop", exc |-> e]
            /\ UNCHANGED <<stack, ex, uw, hist>>
         \/ /\ uw.cur > 0 /\ uw.cur # ex[e].stop /\ r.reason = "continue" /\ NextFrame
         \/ /\ uw.cur > 0 /\ uw.cur # ex[e].stop /\ Gives(r)
         \/ /\ uw.cur > 0 /\ uw.cur # ex[e].stop /\ r.reason = "found" /\ InstallContext(r.sel)

-----------------------------------------------------------------------------
(***************************************************************************)
(* Landing pads and handlers.  A landing pad of a frame that was in a      *)
(* handler ends the handler first.                                         *)
(***************************************************************************)
Unhandled == IF Top.holds = <<>> THEN Now ELSE end_catch(Now)
ReleaseHeld == [Top EXCEPT !.holds = IF @ = <<>> THEN @ ELSE Front(@), !.exc = 0, !.sel = None]
Forgets(s) == hist' = [e \in Ids |-> IF s.x[e].live THEN hist[e] ELSE NoHist]
InPad(a) == Runs /\ Top.at = "landing" /\ Top.sel.a = a

\* Mutant: the marks of the unwinding are ignored.
ResumeNotForced ==
  LET e == Top.exc
  IN  /\ InPad("cleanup")
      /\ Becomes(Unhandled) /\ Forgets(Unhandled)
      /\ TopBecomes([ReleaseHeld EXCEPT !.at = "resume"])
      /\ uw' = [mode |-> "cleanup", exc |-> e, cur |-> Len(stack)]
      /\ UNCHANGED ended

\* _Unwind_Resume, which goes on in the mode the exception is marked with.
Resume ==
  LET e == Top.exc
  IN  /\ InPad("cleanup")
      /\ Becomes(Unhandled) /\ Forgets(Unhandled)
      /\ TopBecomes([ReleaseHeld EXCEPT !.at = "resume"])
      /\ uw' = [mode |-> IF ex[e].stop = -1 THEN "cleanup" ELSE "forced", exc |-> e, cur |-> Len(stack)]
      /\ UNCHANGED ended

\* A foreign exception cannot be caught while another one is.
Refused(e, s) == ~s.x[e].native /\ s.c # <<>>

EnterHandler ==
  LET e == Top.exc
  IN  /\ InPad("catch")
      /\ IF Refused(e, Now)
           THEN Terminate("foreign", e) /\ UNCHANGED <<stack, caught, ex, hist>>
           ELSE /\ Becomes(begin_catch(Now, e))
                /\ TopBecomes([Top EXCEPT !.at = "handler", !.exc = 0, !.sel = None, !.holds = Append(@, e)])
                /\ UNCHANGED <<ended, hist>>
      /\ UNCHANGED uw

LeaveHandler ==
  /\ Runs /\ Top.at = "handler" /\ Top.fn = "program"
  /\ Becomes(end_catch(Now)) /\ Forgets(end_catch(Now))
  /\ TopBecomes([ReleaseHeld EXCEPT !.at = "body"])
  /\ UNCHANGED <<uw, ended>>

\* __cxa_call_unexpected up to the call of the unexpected handler.  What the
\* header says of the violated specification is saved before the call.
call_unexpected ==
  LET e == Top.exc
      s == begin_catch(Unhandled, e)
  IN  /\ InPad("spec")
      /\ IF Refused(e, Unhandled)
           THEN Terminate("foreign", e) /\ UNCHANGED <<stack, caught, ex, hist>>
           ELSE /\ Becomes(s) /\ Forgets(s)
                /\ stack' = Below \o <<[ReleaseHeld EXCEPT !.at = "spec", !.sel = Top.sel],
                                       [NewFrame(UnexpectedKind) EXCEPT !.fn = "call_unexpected", !.holds = <<e>>,
                                          !.saved = IF ex[e].native THEN ex[e].switchValue ELSE None]>>
                /\ UNCHANGED ended
      /\ UNCHANGED uw

\* Mutant: what was saved before the handler ran is read again after it.
SpecReread(f) == ex[f.holds[1]].switchValue
SpecSaved(f) == f.saved

\* The rest of it: the unexpected handler threw new while old is caught.
ReplaceBy(new) ==
  LET disguised == State(caught, [ex EXCEPT ![new].handlerCount = -@])
      s == begin_catch(end_catch(end_catch(disguised)), new)
  IN  /\ Raise([s.x EXCEPT ![new].handlerCount = -@], new)
      /\ caught' = s.c
      /\ TopBecomes([Top EXCEPT !.holds = <<new>>])
      /\ hist' = [e \in Ids |-> IF e = new THEN Planned(stack', ex'[new]) ELSE IF s.x[e].live THEN hist[e] ELSE NoHist]

ThrowBadException ==
  LET s == end_catch(Now)
      e == Min({i \in Ids : ~s.x[i].live})
  IN  /\ Raise([s.x EXCEPT ![e] = [Dead EXCEPT !.live = TRUE, !.type = "bad_exception"]], e)
      /\ caught' = s.c
      /\ TopBecomes([Top EXCEPT !.holds = Front(@)])
      /\ hist' = [i \in Ids |-> IF i = e THEN Planned(stack', ex'[e]) ELSE IF s.x[i].live THEN hist[i] ELSE NoHist]

\* The new exception replaces the old one where the specification admits it.
Passes(new, old, spec) ==
  ex[new].native /\ new # old /\ ~exception_spec_can_catch(spec, ex[new].type)

UnexpectedThrew ==
  LET old == Head(Top.holds)
      new == Last(caught)
      spec == SpecSaved(Top).types
      passes == Passes(new, old, spec)
  IN  /\ Runs /\ Top.fn = "call_unexpected" /\ Top.at = "handler"
      /\ \/ /\ ex[old].native /\ passes
            /\ ReplaceBy(new)
            /\ UNCHANGED ended
         \/ /\ ex[old].native /\ ~passes /\ ~exception_spec_can_catch(spec, "bad_exception")
            /\ Free # {} \/ new # old
            /\ ThrowBadException
            /\ UNCHANGED ended
         \/ /\ ex[old].native => ~passes /\ exception_spec_can_catch(spec, "bad_exception")
            /\ Terminate("unexpected", old)
            /\ UNCHANGED <<stack, caught, ex, uw, hist>>

Next == \/ \E k \in Kinds : Call(k)
        \/ Return
        \/ \E t \in Types : Throw(TRUE, t)
        \/ Foreign /\ Throw(FALSE, "none")
        \/ Rethrow \/ RethrowNothing
        \/ \E target \in 0 .. Len(stack) - 1 : ForcedUnwind(target)
        \/ unwind_phase1 \/ unwind_phase2 \/ unwind_phase2_forced
        \/ Resume \/ EnterHandler \/ LeaveHandler
        \/ call_unexpected \/ UnexpectedThrew

Spec == Init /\ [][Next]_vars

-----------------------------------------------------------------------------
Flying(e) == uw.exc = e \/ \E i \in DOMAIN stack : stack[i].exc = e

\* Every exception lands where C++ says, on whatever was thrown and caught
\* in between: the cleanups from the throw outward, each once, then the
\* innermost handler.  If there is none, or a frame is not to be left, the
\* program terminates with the stack as it was, and the two phases never
\* disagree (the aborts of unwind_phase2 and the terminations of scan_eh_tab).
UnwindsAsPlanned ==
  /\ \A e \in Ids : IsPrefix(hist[e].lands, hist[e].plan)
  /\ ended.why = "raise" => LET h == hist[ended.exc] IN h.ends = "terminate" /\ h.lands = h.plan
  /\ ended.why \in {"stop", "end"} => LET h == hist[ended.exc] IN h.ends = "stop" /\ h.lands = h.plan
  /\ ended.why # "abort"

\* The handler count of an exception in its header is the number of handlers
\* that run for it, rethrows and replaced exceptions included, and its
\* object lives exactly as long as it is in flight or in a handler.
HandlersCounted ==
  \A e \in Ids :
    LET held == Cardinality({p \in (DOMAIN stack) \X (1 .. 2) :
                               p[2] \in DOMAIN stack[p[1]].holds /\ stack[p[1]].holds[p[2]] = e})
    IN  /\ ex[e].live /\ ex[e].native =>
              held = IF ex[e].handlerCount < 0 THEN -ex[e].handlerCount ELSE ex[e].handlerCount
        /\ ex[e].live <=> (held > 0 \/ Flying(e))

\* No exception of this runtime leaves a function whose exception
\* specification does not admit it, also when the unexpected handler or
\* __cxa_call_unexpected threw it.
PassesOnlyAdmitted ==
  Len(stack') <= Len(stack) /\ uw.mode = "cleanup" /\ uw' = Idle /\ ex[uw.exc].native =>
    \A i \in Len(stack') + 1 .. Len(stack) :
      \A a \in Range(stack[i].kind.actions) :
        a.a = "spec" => \E t \in a.types : can_catch(t, ex[uw.exc].type)
SpecHonoured == [][PassesOnlyAdmitted]_vars

\* __cxa_call_unexpected only ends the program when the violated
\* specification admits neither what was thrown nor bad_exception, whatever
\* the unexpected handler did to the header of the old exception.
SpecGivesWay ==
  ended.why = "unexpected" /\ Top.at = "handler" /\ ex[ended.exc].native =>
    LET violated == Last(Below).sel.types
    IN  /\ exception_spec_can_catch(violated, "bad_exception")
        /\ Last(caught) = ended.exc \/ exception_spec_can_catch(violated, ex[Last(caught)].type)
=============================================================================
