---------------------------- MODULE MCAlgorithms ----------------------------
(***************************************************************************)
(* The algorithms of the libraries, checked in one run; "which" says which. *)
(* "orders": the programs of MCMemoryOrders, for the code that an atomic    *)
(* operation is compiled to.  Streams of locale.cpp, in two parts over the  *)
(* same variables: "cut" with all boundaries of the encodings and three     *)
(* sizes of buffer, for what a call may do, and "steady" with one code      *)
(* point of each length, for what must happen.  "casts", "handlers":        *)
(* dynamic_cast and can_catch.                                              *)
(***************************************************************************)
EXTENDS MCMemoryOrders

VARIABLES
  which,
  kind, header, maxcode, items, input, avail, pos, out, res,
  types, handler, thrown

streamVars == <<kind, header, maxcode, items, input, avail, pos, out, res>>
typeVars == <<types, handler, thrown>>
allVars == <<which, vars, streamVars, typeVars>>

Kinds == {"utf8_to_utf16", "utf8_to_utf16_wide", "utf8_to_ucs4", "utf8_to_ucs2",
          "utf16_to_utf8", "utf16_wide_to_utf8", "ucs4_to_utf8", "ucs2_to_utf8",
          "ucs4_to_utf16be", "ucs4_to_utf16le", "utf16be_to_ucs4", "utf16le_to_ucs4",
          "ucs2_to_utf16be", "ucs2_to_utf16le", "utf16be_to_ucs2", "utf16le_to_ucs2"}

\* U+0041, U+07FF, U+0800, U+D7FF, U+E000, U+FFFF, U+10000, U+10FFFF
Boundaries == {65, 2047, 2048, 55295, 57344, 65535, 65536, 1114111}

\* One code point of each length.
Lengths == {65, 2048, 65536}

\* A malformed item for every check of the conversions.
Malformed(encoding) ==
  CASE encoding = "utf8" -> {<<128>>, <<193, 191>>, <<194, 65>>, <<224, 159, 191>>, <<237, 160, 128>>,
                             <<226, 130, 65>>, <<240, 143, 191, 191>>, <<244, 144, 128, 128>>,
                             <<241, 128, 65, 128>>, <<245, 128, 128, 128>>}
    [] encoding = "utf16" -> {<<56320>>, <<55296, 65>>}
    [] encoding = "utf16be" -> {<<220, 0>>, <<216, 0, 0, 65>>}
    [] encoding = "utf16le" -> {<<0, 220>>, <<0, 216, 65, 0>>}
    [] encoding = "ucs4" -> {<<55296>>, <<57343>>, <<1114112>>}
    [] encoding = "ucs2" -> {<<55296>>, <<57343>>}

Cut == INSTANCE UtfStream
         WITH HeaderModes <- BOOLEAN, CodePoints <- Boundaries, MaxItems <- 2,
              Rooms <- {1, 3, 7}, Maxcodes <- {1114111, 4095}
Steady == INSTANCE UtfStream
         WITH HeaderModes <- BOOLEAN, CodePoints <- Lengths, MaxItems <- 2,
              Rooms <- {1, 7}, Maxcodes <- {1114111}

-----------------------------------------------------------------------------
(* Casts over four classes, defined in every way; handlers for two classes *)
(* and types of up to three levels.                                        *)
Cast == INSTANCE TypeInfo WITH Classes <- 4, MaxBases <- 2, Handlers <- {}, Thrown <- {}

Cv == SUBSET {"const", "volatile"}
NoexceptOrNot == SUBSET {"noexcept"}

Pointers(n, leaves) == {Cast!Type([i \in 1 .. n |-> Cast!Level(0, f[i])], l) : f \in [1 .. n -> Cv], l \in leaves}

Leaves == {Cast!Type(<<>>, l) : l \in {1, 2, Cast!Fundamental, Cast!Nullptr}}

\* Pointers to data, to functions and to members, and pointers to those.
MCThrown ==
  UNION {Leaves, Pointers(1, {1, 2, Cast!Fundamental, Cast!Void}), Pointers(2, {1, 2, Cast!Fundamental}), Pointers(3, {Cast!Fundamental}),
         {Cast!Type(<<Cast!Level(m, f)>>, Cast!Function) : m \in {0, 1}, f \in NoexceptOrNot},
         {Cast!Type(<<Cast!Level(m, f)>>, Cast!Fundamental) : m \in {1, 2}, f \in Cv},
         {Cast!Type(<<Cast!Level(0, f), Cast!Level(1, g)>>, Cast!Fundamental) : f \in Cv, g \in Cv},
         {Cast!Type(<<Cast!Level(0, f), Cast!Level(0, g)>>, Cast!Function) : f \in SUBSET {"const"}, g \in NoexceptOrNot}}

\* noexcept below the first level is not compared: disagreement 16 of the README.
MCHandlers == {t \in MCThrown : Len(t.levels) > 1 => "noexcept" \notin t.levels[2].flags}

Match == INSTANCE TypeInfo WITH Classes <- 2, MaxBases <- 2, Handlers <- MCHandlers, Thrown <- MCThrown

-----------------------------------------------------------------------------
ASSUME TypesAssumption == Cast!ClassesAssumption /\ Match!ClassesAssumption

\* What is not used starts in one state; the program is one that nobody runs.
NoStream == Steady!Init /\ kind = "ucs4_to_utf8" /\ ~header /\ input = <<65>>

NoProgram == Started([prog |-> Of(Writer(x), <<>>, <<>>, <<>>), place |-> OwnBlocks, target |-> "x86"])

AlgorithmsInit ==
  /\ Cast!Init
  /\ \/ which = "orders" /\ NoStream /\ Init
     \/ which = "cut" /\ NoProgram /\ Cut!Init
     \/ which = "steady" /\ NoProgram /\ Steady!Init
     \/ which \in {"casts", "handlers"} /\ NoStream /\ NoProgram

OrdersStep == which = "orders" /\ Next /\ UNCHANGED <<which, streamVars, typeVars>>
CutStep == which = "cut" /\ Cut!Next /\ UNCHANGED <<which, vars, typeVars>>
SteadyArrive == which = "steady" /\ Steady!Arrive /\ UNCHANGED <<which, vars, typeVars>>
SteadyCall(room) == which = "steady" /\ Steady!Call(room) /\ UNCHANGED <<which, vars, typeVars>>
TypesStep ==
  /\ \/ which = "casts" /\ Cast!Next
     \/ which = "handlers" /\ Match!Next
  /\ UNCHANGED <<which, vars, streamVars>>

AlgorithmsNext ==
  OrdersStep \/ CutStep \/ SteadyArrive \/ (\E room \in {1, 7} : SteadyCall(room)) \/ TypesStep

\* The fairness of UtfStream's specification, for the steady part.
AlgorithmsSpec ==
  /\ AlgorithmsInit
  /\ [][AlgorithmsNext]_allVars
  /\ WF_allVars(SteadyArrive)
  /\ WF_allVars(SteadyCall(Steady!LargestRoom))

-----------------------------------------------------------------------------
(***************************************************************************)
(* However the input is cut and whatever the buffers, the loops of          *)
(* locale.cpp write the conversion of the characters they consume, whole    *)
(* characters only, and an error stops at the first item that cannot be     *)
(* converted and at no other.                                               *)
(***************************************************************************)
Faithful == /\ which = "cut" => Cut!Faithful
            /\ which = "steady" => Steady!Faithful

(***************************************************************************)
(* length(), whose loop is written apart from that of do_in, consumes       *)
(* exactly what do_in consumes when it has that much room.                  *)
(***************************************************************************)
LengthAgrees == which = "cut" => Cut!LengthAgrees

(***************************************************************************)
(* A stream that goes on calling with room for the longest character gets   *)
(* through: in the end everything is converted, or the conversion stopped   *)
(* with an error; no character is left unfinished for ever.                 *)
(***************************************************************************)
GetsThrough == <>(which # "steady" \/ Steady!Through)

(* dynamic_cast finds the object the language asks for in every hierarchy  *)
(* of four classes, wherever it ends its search early.                     *)
CastRight == which = "casts" => Cast!CastRight

(* A handler takes an exception of a class, a pointer or a pointer to      *)
(* member exactly when the language says so, apart from the ambiguous base *)
(* of the run ambiguous_base.                                              *)
CatchRight ==
  /\ which = "casts" => Cast!CatchRight
  /\ which = "handlers" => Match!HandlersRight
=============================================================================
