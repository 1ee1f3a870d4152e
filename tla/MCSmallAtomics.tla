--------------------------- MODULE MCSmallAtomics ---------------------------
(***************************************************************************)
(* Atomics narrower than the words the hardware works on, checked in one   *)
(* run: "which" says what the threads of a behaviour share.  u... is an    *)
(* unsigned value in a 32-bit proxy, s... a signed one, w... two values in *)
(* one aligned word.                                                       *)
(***************************************************************************)
EXTENDS Integers

CONSTANTS
  Thread,
  SmallBits, WordBits,   \* 8 or 16, and 32: a small value and its proxy
  PartBits, Parts,       \* the width of the values in one word, and the values
  ProxyCalls, WordCalls  \* bounds: the calls made together

VARIABLES
  which,
  uProxy, uPc, uCall, uLast, uCalls,
  sProxy, sPc, sCall, sLast, sCalls,
  wWord, wPc, wCall, wLast, wCalls, wExpected, wGuess

uVars == <<uProxy, uPc, uCall, uLast, uCalls>>
sVars == <<sProxy, sPc, sCall, sLast, sCalls>>
wVars == <<wWord, wPc, wCall, wLast, wCalls, wExpected, wGuess>>
allVars == <<which, uVars, sVars, wVars>>

\* max and min of a proxy that a carry has left dirty are those of the dirty proxy and are not used here.
U == INSTANCE SmallAtomic
       WITH Signed <- FALSE, Args <- {1, 2^SmallBits - 1}, Spurious <- TRUE, Calls <- ProxyCalls,
            Ops <- {"load", "exchange", "add", "sub", "xor", "weak", "strong"},
            proxy <- uProxy, pc <- uPc, call <- uCall, last <- uLast, calls <- uCalls

\* The least and the greatest value; without add and sub, whose
\* overflow keeps compare_exchange_strong from ever ending.
S == INSTANCE SmallAtomic
       WITH Signed <- TRUE, Args <- {-2^(SmallBits - 1), 2^(SmallBits - 1) - 1}, Spurious <- FALSE, Calls <- ProxyCalls,
            Ops <- {"store", "and", "or", "max", "min", "weak", "strong"},
            proxy <- sProxy, pc <- sPc, call <- sCall, last <- sLast, calls <- sCalls

W == INSTANCE SubWordAtomic
       WITH Cell <- Parts, Bits <- PartBits, Calls <- WordCalls,
            Ops <- {"exchange", "add", "sub", "and", "or", "xor", "max", "min", "strong"},
            word <- wWord, pc <- wPc, call <- wCall, last <- wLast, calls <- wCalls,
            expected <- wExpected, guess <- wGuess

ASSUME SuiteAssumption ==
  /\ U!BitsAssumption /\ U!OpsAssumption /\ S!OpsAssumption /\ U!CallsAssumption
  /\ W!BitsAssumption /\ W!OpsAssumption /\ W!CellAssumption /\ W!CallsAssumption

Init ==
  /\ which \in {"unsigned", "signed", "word"}
  /\ U!Init /\ S!Init /\ W!Init
  \* What is not used starts in one state.
  /\ which # "unsigned" => uProxy = 0
  /\ which # "signed" => sProxy = 0
  /\ which # "word" => \A c \in Parts : wWord[c] = 0

Step(t) ==
  \/ which = "unsigned" /\ U!ThreadStep(t) /\ UNCHANGED <<which, sVars, wVars>>
  \/ which = "signed" /\ S!ThreadStep(t) /\ UNCHANGED <<which, uVars, wVars>>
  \/ which = "word" /\ W!ThreadStep(t) /\ UNCHANGED <<which, uVars, sVars>>

Begin(t) ==
  \/ which = "unsigned" /\ U!Call(t) /\ UNCHANGED <<which, sVars, wVars>>
  \/ which = "signed" /\ S!Call(t) /\ UNCHANGED <<which, uVars, wVars>>
  \/ which = "word" /\ W!Call(t) /\ UNCHANGED <<which, uVars, sVars>>

Next == \E t \in Thread : Begin(t) \/ Step(t)

\* A thread inside an operation is scheduled, and a compare_exchange of the
\* target that can succeed does not fail for ever.
Spec ==
  /\ Init /\ [][Next]_allVars
  /\ \A t \in Thread :
       /\ WF_allVars(Step(t))
       /\ SF_allVars(which = "unsigned" /\ U!CasSucceeds(t) /\ UNCHANGED <<which, sVars, wVars>>)

-----------------------------------------------------------------------------
(* Every operation returns: compare_exchange_strong of a proxy does not    *)
(* clean it and fail again for ever, and the loops on a shared word end    *)
(* once the other threads stop writing.                                    *)
CallsReturn ==
  \A t \in Thread :
    (uPc[t] # "idle" \/ sPc[t] # "idle" \/ wPc[t] # "idle")
      ~> (uPc[t] = "idle" /\ sPc[t] = "idle" /\ wPc[t] = "idle")

(* The proxy of a small value is invisible: the operations are those of an *)
(* atomic of the small type, whatever a carry left above an unsigned value *)
(* and whatever the sign extension of a signed one that never overflows.   *)
ProxyImplements == [](U!TypeOK /\ S!TypeOK) /\ U!Implements /\ S!Implements

(* The compare_exchange loops on a shared word are atomic operations on    *)
(* the value they name and leave the neighbours as other threads left      *)
(* them.                                                                   *)
WordImplements == []W!TypeOK /\ W!Implements
=============================================================================
