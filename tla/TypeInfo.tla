------------------------------ MODULE TypeInfo ------------------------------
(***************************************************************************)
(* dynamic_cast and the matching of handlers (private_typeinfo.cpp).  Both  *)
(* search the graph of subobjects depth first, keep what they found in a    *)
(* __dynamic_cast_info, and stop as soon as they know enough; these early   *)
(* ends are what could be wrong.  Each search is a function from the info   *)
(* it is given to the info it leaves.                                       *)
(*                                                                         *)
(* First the type_info objects of classes (private_typeinfo.h) and the      *)
(* objects they describe.  Classes are numbered in the order they are       *)
(* defined, so a base has a smaller number than what derives from it.       *)
(*                                                                         *)
(* A subobject is named by the bases that lead to it: <<c>> is the complete *)
(* object or, of a virtual base, the only one there is, and Append(s, b) is *)
(* the non-virtual base b of the subobject s.  "No two objects of one type  *)
(* share an address", so a pointer and a type are the name of a subobject.  *)
(***************************************************************************)
EXTENDS Integers, Sequences, FiniteSets, SequencesExt

CONSTANTS Classes,   \* bound: how many classes are defined
          MaxBases,  \* bound: direct bases of one class
          Handlers, Thrown   \* the types to look at

ClassesAssumption == Classes \in Nat \ {0} /\ MaxBases \in Nat

VARIABLES types,     \* types[c] is the type_info of class c
          handler, thrown    \* an exception of type thrown meets a handler

vars == <<types, handler, thrown>>

\* One __base_class_type_info: __base_type and the two flags beside the offset.
BaseInfo(c) == [type : 1 .. c - 1, virtual : BOOLEAN, public : BOOLEAN]

\* The lists of bases a class c may have: no direct base twice.
BaseLists(c) ==
  {bs \in UNION {[1 .. n -> BaseInfo(c)] : n \in 0 .. MaxBases} :
     \A i, j \in DOMAIN bs : i # j => bs[i].type # bs[j].type}

Bases(c) == types[c].bases

\* The kinds of type_info: none; one that is public and not virtual; others.
IsPlain(c)  == Bases(c) = <<>>
IsSingle(c) == Len(Bases(c)) = 1 /\ Bases(c)[1].public /\ ~Bases(c)[1].virtual

-----------------------------------------------------------------------------
\* Where __base_class_type_info goes from the subobject s to its base b.
BaseOf(s, b) == IF b.virtual THEN <<b.type>> ELSE Append(s, b.type)
TypeOf(s) == Last(s)

RECURSIVE Parts(_), PublicParts(_)
\* s and the base subobjects of s, and those on a path of public bases.
Parts(s) == {s} \cup UNION {Parts(BaseOf(s, b)) : b \in Range(Bases(TypeOf(s)))}
PublicParts(s) ==
  {s} \cup UNION {PublicParts(BaseOf(s, b)) : b \in {x \in Range(Bases(TypeOf(s))) : x.public}}

\* The subobjects of a complete object of the class c with bases bs, and the
\* masks the compiler stores for it.
PartsWith(c, bs) == UNION {Parts(BaseOf(<<c>>, bs[i])) : i \in DOMAIN bs}

DerivedFrom(c, bs, n) ==
  {s \in PartsWith(c, bs) : \E b \in Range(Bases(TypeOf(s))) : BaseOf(s, b) = n}
  \cup {s \in {<<c>>} : \E i \in DOMAIN bs : BaseOf(s, bs[i]) = n}

\* __diamond_shaped_mask: a base class object with two or more derived objects.
DiamondShaped(c, bs) ==
  \E n \in PartsWith(c, bs) : Cardinality(DerivedFrom(c, bs, n)) > 1

\* __non_diamond_repeat_mask: two distinct base class objects of one type.
Repeats(c, bs) ==
  \E n, m \in PartsWith(c, bs) : n # m /\ TypeOf(n) = TypeOf(m)

-----------------------------------------------------------------------------
(***************************************************************************)
(* The types of exceptions and handlers, as their type_info objects give   *)
(* them.  A type is a list of levels, the outermost first, over a leaf: a  *)
(* pointer level has member = 0, a pointer to a member of the class c has  *)
(* member = c; its flags are what is pointed to: const, volatile, noexcept. *)
(***************************************************************************)
\* Leaves: a class is its number.
Void == 0
Function == -1
Nullptr == -2
Fundamental == -3
IsClass(leaf) == leaf > 0

Level(member, flags) == [member |-> member, flags |-> flags]
Type(levels, leaf) == [levels |-> levels, leaf |-> leaf]
NoType == Type(<<>>, Void)

Flags(t) == t.levels[1].flags
Pointee(t) == Type(Tail(t.levels), t.leaf)
IsPointer(t) == t.levels # <<>> /\ t.levels[1].member = 0
IsMember(t)  == t.levels # <<>> /\ t.levels[1].member # 0
IsLeaf(t)    == t.levels = <<>>

-----------------------------------------------------------------------------
\* A hierarchy is defined, then something is thrown.
Init == types = <<>> /\ handler = NoType /\ thrown = NoType

\* The next class is defined with the bases bs.
DefineClass(bs) ==
  LET c == Len(types) + 1
  IN  /\ types' = Append(types, [bases |-> bs, diamond |-> DiamondShaped(c, bs),
                                repeat |-> Repeats(c, bs)])
      /\ UNCHANGED <<handler, thrown>>

Complete == Len(types) = Classes

Throw == /\ Complete /\ handler = NoType
         /\ handler' \in Handlers
         /\ thrown' \in Thrown
         /\ UNCHANGED types

Next == \/ Len(types) < Classes /\ \E bs \in BaseLists(Len(types) + 1) : DefineClass(bs)
        \/ Throw

Spec == Init /\ [][Next]_vars

-----------------------------------------------------------------------------
NULL == <<>>

\* __dynamic_cast_info.  path1 is path_dst_ptr_to_static_ptr, path2 is
\* path_dynamic_ptr_to_static_ptr, path3 is path_dynamic_ptr_to_dst_ptr, and
\* derived is is_dst_type_derived_from_static_type.
NoInfo ==
  [leading |-> NULL, notLeading |-> NULL,
   path1 |-> "unknown", path2 |-> "unknown", path3 |-> "unknown",
   toStatic |-> 0, toDst |-> 0, derived |-> "unknown", dstTypes |-> 0,
   our |-> FALSE, any |-> FALSE, done |-> FALSE]

Via(b, path) == IF b.public THEN path ELSE "private"

\* A search for (static_ptr, static_type) from the type dst is a record q.
StaticType(q) == TypeOf(q.static)

-----------------------------------------------------------------------------
(***************************************************************************)
(* Above a dst_type: is (static_ptr, static_type) there, and publicly?      *)
(***************************************************************************)
\* The only dst_type has a public path to static_ptr: nothing is left to find.
Settled(i) == [i EXCEPT !.done = @ \/ (i.dstTypes = 1 /\ i.path1 = "public")]

process_static_type_above_dst(q, i, dst, cur, path) ==
  LET f == [i EXCEPT !.any = TRUE, !.our = @ \/ cur = q.static]
  IN  CASE cur # q.static    -> f
        [] i.leading = NULL  -> Settled([f EXCEPT !.leading = dst, !.path1 = path, !.toStatic = 1])
        [] i.leading = dst   -> Settled([f EXCEPT !.path1 = IF @ = "private" THEN path ELSE @])
        [] OTHER             -> [f EXCEPT !.toStatic = @ + 1, !.done = TRUE]

\* Mutant: static_ptr found by a private path is not looked for again.
EnoughAboveHasty(i, c) == i.our \/ (i.any /\ ~types[c].repeat)

\* What a base of cur had above it need not be looked for in the next one.
EnoughAbove(i, c) ==
  \/ i.our /\ (i.path1 = "public" \/ ~types[c].diamond)
  \/ ~i.our /\ i.any /\ ~types[c].repeat

\* A search starts with both flags cleared, and what either of two found is found.
Unfound(i) == [i EXCEPT !.our = FALSE, !.any = FALSE]
Join(i, j) == [i EXCEPT !.our = @ \/ j.our, !.any = @ \/ j.any]

RECURSIVE search_above_dst(_, _, _, _, _), AboveBases(_, _, _, _, _, _), AboveOthers(_, _, _, _, _, _)
search_above_dst(q, i, dst, cur, path) ==
  LET c == TypeOf(cur)
  IN  CASE c = StaticType(q) -> process_static_type_above_dst(q, i, dst, cur, path)
        [] c # StaticType(q) /\ IsPlain(c) -> i
        [] c # StaticType(q) /\ IsSingle(c) ->
             search_above_dst(q, i, dst, BaseOf(cur, Bases(c)[1]), path)
        [] OTHER -> Join(AboveBases(q, i, dst, cur, path, 1), i)

\* The bases of cur from the k-th.
AboveBases(q, i, dst, cur, path, k) ==
  LET b == Bases(TypeOf(cur))[k]
  IN  AboveOthers(q, search_above_dst(q, Unfound(i), dst, BaseOf(cur, b), Via(b, path)), dst, cur, path, k)

AboveOthers(q, i, dst, cur, path, k) ==
  IF k = Len(Bases(TypeOf(cur))) \/ i.done \/ EnoughAbove(i, TypeOf(cur)) THEN i
  ELSE Join(AboveBases(q, i, dst, cur, path, k + 1), i)

-----------------------------------------------------------------------------
(***************************************************************************)
(* Below a dst_type: which objects of that type are there, which of them    *)
(* have (static_ptr, static_type) above them, which paths are public?       *)
(***************************************************************************)
process_static_type_below_dst(q, i, cur, path) ==
  IF cur = q.static /\ i.path2 # "public" THEN [i EXCEPT !.path2 = path] ELSE i

\* Does cur derive from static_type, does it lead to static_ptr?
Answer(i, ended) == [info |-> i, any |-> ~ended /\ i.any, our |-> ~ended /\ i.any /\ i.our]

\* The bases of a dst_type cur from the k-th: a base that ends the search
\* ends it before the answers are taken.
RECURSIVE AboveDst(_, _, _, _), AboveDstOthers(_, _, _, _)
AboveDst(q, i, cur, k) ==
  LET b == Bases(TypeOf(cur))[k]
  IN  AboveDstOthers(q, search_above_dst(q, Unfound(i), cur, BaseOf(cur, b), Via(b, "public")), cur, k)

AboveDstOthers(q, i, cur, k) ==
  IF k = Len(Bases(TypeOf(cur))) \/ i.done \/ EnoughAbove(i, TypeOf(cur)) THEN Answer(i, i.done)
  ELSE Join(AboveDst(q, i, cur, k + 1), Answer(i, FALSE))

AboveSingle(q, i, cur) ==
  Answer(search_above_dst(q, Unfound(i), cur, BaseOf(cur, Bases(TypeOf(cur))[1]), "public"), FALSE)

\* This dst_type does not lead to static_ptr.  If another one does, by a
\* private path, the cast is ambiguous.
NotLeading(i, cur) ==
  [i EXCEPT !.notLeading = cur, !.toDst = @ + 1,
            !.done = @ \/ (i.toStatic = 1 /\ i.path1 = "private")]

Derives(i, any) == [i EXCEPT !.derived = IF any THEN "yes" ELSE "no"]

Answered(f, cur) ==
  IF f.our THEN Derives(f.info, f.any) ELSE NotLeading(Derives(f.info, f.any), cur)

\* A dst_type that was not met before.
NewDst(q, i, cur) ==
  LET c == TypeOf(cur)
  IN  CASE IsPlain(c) -> NotLeading(Derives(i, FALSE), cur)
        [] ~IsPlain(c) /\ i.derived = "no" -> NotLeading(i, cur)
        [] OTHER -> Answered(IF IsSingle(c) THEN AboveSingle(q, i, cur) ELSE AboveDst(q, i, cur, 1), cur)

\* After the first base of a class that is neither: no need for the others.
EnoughBelow(i, c, mode) ==
  CASE mode = "all"    -> FALSE
    [] mode = "repeat" -> i.toStatic = 1 /\ i.path1 = "public"
    [] mode = "once"   -> i.toStatic = 1

Mode(i, c) == CASE types[c].diamond \/ i.toStatic = 1 -> "all"
                [] ~types[c].diamond /\ i.toStatic # 1 /\ types[c].repeat -> "repeat"
                [] OTHER -> "once"

RECURSIVE search_below_dst(_, _, _, _), BelowOthers(_, _, _, _), BelowBases(_, _, _, _, _, _)
search_below_dst(q, i, cur, path) ==
  LET c == TypeOf(cur)
      b == Bases(c)[1]
  IN  CASE c = StaticType(q) -> process_static_type_below_dst(q, i, cur, path)
        [] c = q.dst /\ cur \in {i.leading, i.notLeading} ->
             [i EXCEPT !.path3 = IF path = "public" THEN path ELSE @]
        [] c = q.dst /\ cur \notin {i.leading, i.notLeading} ->
             NewDst(q, [i EXCEPT !.path3 = path], cur)
        [] OTHER -> IF IsPlain(c) THEN i
                    ELSE BelowOthers(q, search_below_dst(q, i, BaseOf(cur, b), Via(b, path)), cur, path)

BelowOthers(q, i, cur, path) == BelowBases(q, i, cur, path, 2, Mode(i, TypeOf(cur)))

BelowBases(q, i, cur, path, k, mode) ==
  LET b == Bases(TypeOf(cur))[k]
  IN  IF k > Len(Bases(TypeOf(cur))) \/ i.done \/ EnoughBelow(i, TypeOf(cur), mode) THEN i
      ELSE BelowBases(q, search_below_dst(q, i, BaseOf(cur, b), Via(b, path)), cur, path, k + 1, mode)

-----------------------------------------------------------------------------
(***************************************************************************)
(* __dynamic_cast of the subobject static of an object of class c to the    *)
(* class dst.                                                               *)
(***************************************************************************)
ShortCut(q, c) ==
  IF search_above_dst(q, [NoInfo EXCEPT !.dstTypes = 1], <<c>>, <<c>>, "public").path1 = "public"
  THEN <<c>> ELSE NULL

Across(i) == i.path2 = "public" /\ i.path3 = "public"

Choice(i) ==
  CASE i.toStatic = 0 /\ i.toDst = 1 /\ Across(i) -> i.notLeading
    [] i.toStatic = 1 /\ (i.path1 = "public" \/ (i.toDst = 0 /\ Across(i))) -> i.leading
    [] OTHER -> NULL

FullSearch(q, c) == Choice(search_below_dst(q, NoInfo, <<c>>, "public"))

dynamic_cast(static, c, dst) ==
  LET q == [static |-> static, dst |-> dst]
  IN  IF c = dst THEN ShortCut(q, c) ELSE FullSearch(q, c)

-----------------------------------------------------------------------------
(***************************************************************************)
(* __class_type_info::can_catch: the handler is for the class h.  A null    *)
(* pointer has no subobjects, its bases are null pointers too.              *)
(***************************************************************************)
\* Mutant: the second subobject does not take the public path back.
FoundFirstWins(i, cur, path, isNull) ==
  IF i.leading = NULL THEN [i EXCEPT !.leading = IF isNull THEN NULL ELSE cur,
                                     !.path1 = path, !.toStatic = 1]
  ELSE [i EXCEPT !.toStatic = @ + 1, !.done = TRUE]

process_found_base_class(i, cur, path, isNull) ==
  CASE i.leading = NULL -> [i EXCEPT !.leading = IF isNull THEN NULL ELSE cur,
                                     !.path1 = path, !.toStatic = 1]
    [] i.leading = cur  -> [i EXCEPT !.path1 = IF @ = "private" THEN path ELSE @]
    [] OTHER            -> [i EXCEPT !.toStatic = @ + 1, !.path1 = "private", !.done = TRUE]

RECURSIVE has_unambiguous_public_base(_, _, _, _, _), FoundInBases(_, _, _, _, _, _), FoundInOthers(_, _, _, _, _, _)
has_unambiguous_public_base(i, h, cur, path, isNull) ==
  LET c == TypeOf(cur)
  IN  CASE c = h -> process_found_base_class(i, cur, path, isNull)
        [] c # h /\ IsPlain(c) -> i
        [] OTHER -> FoundInBases(i, h, cur, path, isNull, 1)

FoundInBases(i, h, cur, path, isNull, k) ==
  LET b == Bases(TypeOf(cur))[k]
  IN  FoundInOthers(has_unambiguous_public_base(i, h, BaseOf(cur, b), Via(b, path), isNull), h, cur, path, isNull, k)

\* search_done is looked at from the second base on.
FoundInOthers(i, h, cur, path, isNull, k) ==
  IF k = Len(Bases(TypeOf(cur))) \/ (k > 1 /\ i.done) THEN i
  ELSE FoundInBases(i, h, cur, path, isNull, k + 1)

can_catch(h, c, isNull) ==
  \/ h = c
  \/ has_unambiguous_public_base(NoInfo, h, <<c>>, "public", isNull).path1 = "public"

-----------------------------------------------------------------------------
(***************************************************************************)
(* can_catch of every other kind of type_info.                              *)
(***************************************************************************)
NoRemoveFlags == {"const", "volatile"}
NoAddFlags == {"noexcept"}

\* Flags a conversion may not drop, and may not add.
FlagsAllow(h, e) ==
  /\ (Flags(e) \ Flags(h)) \cap NoRemoveFlags = {}
  /\ (Flags(h) \ Flags(e)) \cap NoAddFlags = {}

-----------------------------------------------------------------------------
\* __pointer_to_member_type_info::can_catch_nested
MemberNested(h, e) ==
  /\ IsMember(e)
  /\ Flags(e) \subseteq Flags(h)
  /\ Pointee(h) = Pointee(e)
  /\ h.levels[1].member = e.levels[1].member

\* __pointer_type_info::can_catch_nested
RECURSIVE can_catch_nested(_, _)
can_catch_nested(h, e) ==
  /\ IsPointer(e)
  /\ Flags(e) \subseteq Flags(h)
  /\ \/ Pointee(h) = Pointee(e)
     \/ /\ "const" \in Flags(h)
        /\ \/ IsPointer(Pointee(h)) /\ can_catch_nested(Pointee(h), Pointee(e))
           \/ IsMember(Pointee(h)) /\ MemberNested(Pointee(h), Pointee(e))

\* What the pointer is known to point to when neither is the same type.
PointeeCatches(h, e, isNull) ==
  \/ h = Type(<<>>, Void) /\ e # Type(<<>>, Function)
  \/ IsLeaf(h) /\ IsLeaf(e) /\ IsClass(h.leaf) /\ IsClass(e.leaf)
     /\ h # e /\ can_catch(h.leaf, e.leaf, isNull)

\* __pointer_type_info::can_catch
PointerCatches(h, e, isNull) ==
  \/ e = Type(<<>>, Nullptr)
  \/ h = e
  \/ /\ IsPointer(e)
     /\ FlagsAllow(h, e)
     /\ \/ Pointee(h) = Pointee(e)
        \/ PointeeCatches(Pointee(h), Pointee(e), isNull)
        \/ "const" \in Flags(h) /\ IsPointer(Pointee(h)) /\ can_catch_nested(Pointee(h), Pointee(e))
        \/ "const" \in Flags(h) /\ IsMember(Pointee(h)) /\ MemberNested(Pointee(h), Pointee(e))

\* __pointer_to_member_type_info::can_catch
MemberCatches(h, e) ==
  \/ e = Type(<<>>, Nullptr)
  \/ h = e
  \/ /\ IsMember(e)
     /\ FlagsAllow(h, e)
     /\ Pointee(h) = Pointee(e)
     /\ h.levels[1].member = e.levels[1].member

\* can_catch of the handler h; function types catch nothing.
Catches(h, e, isNull) ==
  CASE IsPointer(h) -> PointerCatches(h, e, isNull)
    [] IsMember(h)  -> MemberCatches(h, e)
    [] IsLeaf(h) /\ IsClass(h.leaf) ->
         IsLeaf(e) /\ IsClass(e.leaf) /\ can_catch(h.leaf, e.leaf, FALSE)
    [] IsLeaf(h) /\ ~IsClass(h.leaf) -> h = e /\ h.leaf # Function

-----------------------------------------------------------------------------
(***************************************************************************)
(* What C++ asks for ([expr.dynamic.cast], [except.handle]).                *)
(***************************************************************************)
PartsOfType(c, dst) == {n \in Parts(<<c>>) : TypeOf(n) = dst}

CastByRule(static, c, dst) ==
  LET targets == PartsOfType(c, dst)
      below == {n \in targets : static \in Parts(n)}
      down == {n \in below : below = {n} /\ static \in PublicParts(n)}
      across == {n \in targets : targets = {n} /\ {static, n} \subseteq PublicParts(<<c>>)}
  IN  CASE down # {} -> CHOOSE n \in down : TRUE
        [] down = {} /\ across # {} -> CHOOSE n \in across : TRUE
        [] OTHER -> NULL

CatchByRule(h, c) ==
  \E n \in PublicParts(<<c>>) : PartsOfType(c, h) = {n}

\* The casts that the compiler leaves to the library.
Casts(c) == {q \in [static : Parts(<<c>>) \ {<<c>>}, dst : 1 .. c] :
               \A n \in Parts(q.static) : TypeOf(n) # q.dst}

(* dynamic_cast gives the object the rules of the language ask for, in every *)
(* hierarchy, whatever the order of the bases and wherever a search stops:   *)
(* no early end loses an ambiguity, or a public path met after a private one. *)
CastRight ==
  Complete => \A q \in Casts(Classes) :
    dynamic_cast(q.static, Classes, q.dst) = CastByRule(q.static, Classes, q.dst)

\* A handler for the class h takes an exception of the class c.
Takes(h, c) == can_catch(h, c, FALSE)

(* "T is an unambiguous public base class of E": every handler for such a   *)
(* class takes the exception.  No other handler does where the bases met    *)
(* twice are not both of the same object and of different ones, and where   *)
(* none is met twice a null pointer is treated like any other.              *)
CatchRight ==
  Complete => \A h \in 1 .. Classes :
    /\ CatchByRule(h, Classes) => Takes(h, Classes)
    /\ ~(types[Classes].diamond /\ types[Classes].repeat) =>
         (Takes(h, Classes) => CatchByRule(h, Classes))
    /\ ~types[Classes].diamond /\ ~types[Classes].repeat =>
         (can_catch(h, Classes, TRUE) <=> CatchByRule(h, Classes))

(* Bullet 2 of can_catch: a handler takes an exception of another class only *)
(* if its type is an unambiguous public base class of the exception's.       *)
OnlyUnambiguous ==
  Complete => \A h \in 1 .. Classes : Takes(h, Classes) => CatchByRule(h, Classes)

(***************************************************************************)
(* And for other types: [except.handle] with [conv.qual], [conv.ptr] and      *)
(* [conv.fctptr].                                                           *)
(***************************************************************************)
\* The qualifiers at level k may grow if every level above has const.
Qualifies(h, e) ==
  /\ Len(h.levels) = Len(e.levels) /\ h.leaf = e.leaf
  /\ \A k \in DOMAIN h.levels :
       /\ h.levels[k].member = e.levels[k].member
       /\ e.levels[k].flags \subseteq h.levels[k].flags
       /\ h.levels[k].flags # e.levels[k].flags =>
            \A j \in 1 .. k - 1 : "const" \in h.levels[j].flags

\* A pointer to a function, or to a member function, may lose its noexcept.
WithoutNoexcept(t) == [t EXCEPT !.levels[1].flags = @ \ NoAddFlags]
DropsNoexcept(h, e) ==
  Len(e.levels) = 1 /\ Len(h.levels) = 1 /\ e.leaf = Function /\ Flags(h) \subseteq Flags(e)
  /\ WithoutNoexcept(h) = WithoutNoexcept(e)

\* To a base class that is public and unambiguous, or to void.
PointsToBase(h, e) ==
  /\ IsPointer(h) /\ IsPointer(e) /\ Flags(e) \subseteq Flags(h)
  /\ \/ /\ Len(h.levels) = 1 /\ Len(e.levels) = 1 /\ IsClass(h.leaf) /\ IsClass(e.leaf)
        /\ CatchByRule(h.leaf, e.leaf)
     \/ Pointee(h) = Type(<<>>, Void) /\ Pointee(e) # Type(<<>>, Function)

MatchesByRule(h, e) ==
  \/ h = e /\ h # Type(<<>>, Function)
  \/ IsLeaf(h) /\ IsLeaf(e) /\ IsClass(h.leaf) /\ IsClass(e.leaf) /\ CatchByRule(h.leaf, e.leaf)
  \/ ~IsLeaf(h) /\ e = Type(<<>>, Nullptr)
  \/ ~IsLeaf(h) /\ (DropsNoexcept(h, e) \/ PointsToBase(h, e))
  \/ ~IsLeaf(h) /\ "noexcept" \notin UNION {h.levels[k].flags : k \in DOMAIN h.levels} /\ Qualifies(h, e)

(* A handler takes exactly what the language lets it take, a null pointer  *)
(* as well as any other.                                                   *)
HandlersRight ==
  thrown # NoType => \A isNull \in BOOLEAN : Catches(handler, thrown, isNull) <=> MatchesByRule(handler, thrown)
=============================================================================
