--------------------------- MODULE FallbackMalloc ---------------------------
(***************************************************************************)
(* The emergency heap of libcxxabi (fallback_malloc.cpp) and the allocation *)
(* functions that fall back on it when the system's allocator fails: what   *)
(* a throw needs must come from somewhere even when memory is exhausted.    *)
(*                                                                          *)
(* The heap is HeapUnits heap_nodes of four bytes.  A chunk is a header     *)
(* (next_node, len) followed by what the caller uses; the free chunks form  *)
(* a list that ends at offset HeapUnits (list_end).  heap_mutex makes each  *)
(* fallback_malloc and fallback_free one step.                              *)
(***************************************************************************)
EXTENDS Integers, Sequences, SequencesExt

CONSTANTS HeapUnits,     \* HEAP_SIZE / sizeof(heap_node)
          Lens,          \* sizes in bytes of exceptions with their headers
          GlobalsLen,    \* sizeof(__cxa_eh_globals)
          MaxHeld,       \* bound: how many blocks callers hold at once
          LastFirst,     \* callers free the block they asked for last, as
                         \* exceptions thrown and handled inside a handler do
          FrontInMiddle  \* callers free a block in front of a free chunk that
                         \* is not the first of the list

HeapAssumption ==
  /\ HeapUnits \in Nat \ {0}
  /\ Lens \cup {GlobalsLen} \subseteq Nat \ {0}
  /\ MaxHeld \in Nat \ {0}
  /\ LastFirst \in BOOLEAN /\ FrontInMiddle \in BOOLEAN

VARIABLES freelist,      \* NULL before the first use
          next, len,     \* next_node and len of the chunks' headers, by offset
          held           \* history: the blocks callers hold, in the order
                         \* they were handed out
vars == <<freelist, next, len, held>>

NULL == -1
ListEnd == HeapUnits
Offsets == 0 .. HeapUnits - 1
SizeofNode == 4
DefaultAlignment == 16       \* __attribute__((aligned)) on the 64-bit targets

(***************************************************************************)
(* Pointers are offsets too; the system's allocator returns SystemPtr,      *)
(* which is outside the heap.                                               *)
(***************************************************************************)
SystemPtr == HeapUnits + 1

Init == /\ freelist = NULL
        /\ next = <<>>
        /\ len = <<>>
        /\ held = <<>>

alloc_size(bytes) == (bytes + SizeofNode - 1) \div SizeofNode + 1

is_fallback_ptr(ptr) == ptr < HeapUnits

after(lens, p) == p + lens[p]

(***************************************************************************)
(* The free list as the loops walk it: node k of the list that starts at f. *)
(***************************************************************************)
Walk(f, nexts) ==
  LET node[k \in 0 .. HeapUnits] ==
        IF k = 0 THEN f
        ELSE IF node[k - 1] = ListEnd THEN ListEnd ELSE nexts[node[k - 1]]
  IN  node

\* The position where the walk first meets one of the nodes ps, or ends.
StopAt(walk, ps) ==
  CHOOSE k \in 0 .. HeapUnits :
    /\ walk[k] \in ps \cup {ListEnd}
    /\ \A j \in 0 .. k - 1 : walk[j] \notin ps \cup {ListEnd}

\* The loop ends: a damaged list may have a cycle.
Ends(walk, ps) == {k \in 0 .. HeapUnits : walk[k] \in ps \cup {ListEnd}} # {}

(***************************************************************************)
(* What fallback_malloc leaves: the headers and the head of the list with   *)
(* the chunk cut off the tail of node p or, when the sizes match, p taken   *)
(* off the list; prev is the node before p, NULL at the head.               *)
(***************************************************************************)
CutTail(f, nexts, lens, p, nelems) ==
  LET q == p + lens[p] - nelems
  IN  [list |-> f,
       next |-> (q :> 0) @@ nexts,
       len  |-> (q :> nelems) @@ [lens EXCEPT ![p] = @ - nelems],
       ptr  |-> q + 1]

\* Mutant: the chunk is taken off as if it were the first of the list.
UnlinkFirst(f, nexts, lens, prev, p) ==
  [list |-> nexts[p], next |-> [nexts EXCEPT ![p] = 0], len |-> lens, ptr |-> p + 1]

Unlink(f, nexts, lens, prev, p) ==
  [list |-> IF prev = NULL THEN nexts[p] ELSE f,
   next |-> [o \in DOMAIN nexts |-> IF o = p THEN 0 ELSE IF o = prev THEN nexts[p] ELSE nexts[o]],
   len  |-> lens,
   ptr  |-> p + 1]

\* The state of the heap after init_heap, if it has not run before.
Initialised == [list |-> IF freelist = NULL THEN 0 ELSE freelist,
                next |-> IF freelist = NULL THEN 0 :> ListEnd ELSE next,
                len  |-> IF freelist = NULL THEN 0 :> HeapUnits ELSE len]

(***************************************************************************)
(* fallback_malloc for a caller that asks for bytes: it fails, or the       *)
(* caller holds a new block.                                                *)
(***************************************************************************)
fallback_malloc(bytes, aligned) ==
  LET nelems == alloc_size(bytes)
      h == Initialised
      walk == Walk(h.list, h.next)
      big_enough == {o \in DOMAIN h.len : h.len[o] >= nelems}
      k == StopAt(walk, big_enough)
      p == walk[k]
      prev == IF k = 0 THEN NULL ELSE walk[k - 1]
      after_malloc == IF h.len[p] > nelems
                        THEN CutTail(h.list, h.next, h.len, p, nelems)
                        ELSE Unlink(h.list, h.next, h.len, prev, p)
  IN  /\ Ends(walk, big_enough)
      /\ IF p = ListEnd
           THEN /\ freelist' = h.list
                /\ next' = h.next
                /\ len' = h.len
                /\ UNCHANGED held
           ELSE /\ freelist' = after_malloc.list
                /\ next' = after_malloc.next
                /\ len' = after_malloc.len
                /\ held' = Append(held, [ptr |-> after_malloc.ptr, bytes |-> bytes, aligned |-> aligned])

(***************************************************************************)
(* What fallback_free leaves when it meets node p next to the chunk cp: p   *)
(* grows when cp follows it; otherwise cp takes p's place on the list.  In  *)
(* the middle of the list only prev is changed: cp keeps the next_node 0    *)
(* that fallback_malloc gave it.                                            *)
(***************************************************************************)
Without(headers, o) == Restrict(headers, DOMAIN headers \ {o})

Appended(p, cp) ==
  [list |-> freelist, next |-> Without(next, cp), len |-> Without([len EXCEPT ![p] = @ + len[cp]], cp)]

TakesPlace(prev, p, cp) ==
  [list |-> IF prev = NULL THEN cp ELSE freelist,
   next |-> Without(IF prev = NULL THEN [next EXCEPT ![cp] = next[p]] ELSE [next EXCEPT ![prev] = cp], p),
   len  |-> Without([len EXCEPT ![cp] = @ + len[p]], p)]

Pushed(cp) ==
  [list |-> cp, next |-> [next EXCEPT ![cp] = freelist], len |-> len]

Neighbour(cp, p) == after(len, p) = cp \/ after(len, cp) = p

fallback_free(cp) ==
  LET walk == Walk(freelist, next)
      mergeable == {o \in DOMAIN len : Neighbour(cp, o)}
      k == StopAt(walk, mergeable)
      p == walk[k]
      prev == IF k = 0 THEN NULL ELSE walk[k - 1]
      after_free == IF p = ListEnd THEN Pushed(cp)
                    ELSE IF after(len, p) = cp THEN Appended(p, cp)
                    ELSE TakesPlace(prev, p, cp)
  IN  /\ Ends(walk, mergeable)
      /\ p # ListEnd /\ prev # NULL /\ after(len, cp) = p => FrontInMiddle
      /\ freelist' = after_free.list
      /\ next' = after_free.next
      /\ len' = after_free.len

(***************************************************************************)
(* The functions with fallback.  The system's allocator may fail.           *)
(***************************************************************************)
SystemMalloc(bytes, aligned) ==
  /\ held' = Append(held, [ptr |-> SystemPtr, bytes |-> bytes, aligned |-> aligned])
  /\ UNCHANGED <<freelist, next, len>>

MayHoldMore == Len(held) < MaxHeld

aligned_malloc_with_fallback(bytes) ==
  /\ MayHoldMore
  /\ \/ SystemMalloc(bytes, TRUE)
     \/ fallback_malloc(bytes, TRUE)

calloc_with_fallback(bytes) ==
  /\ MayHoldMore
  /\ \/ SystemMalloc(bytes, FALSE)
     \/ fallback_malloc(bytes, FALSE)

free_with_fallback(i) ==
  /\ LastFirst => i = Len(held)
  /\ held' = RemoveAt(held, i)
  /\ IF is_fallback_ptr(held[i].ptr)
       THEN fallback_free(held[i].ptr - 1)
       ELSE UNCHANGED <<freelist, next, len>>

Next == \/ \E bytes \in Lens : aligned_malloc_with_fallback(bytes)
        \/ calloc_with_fallback(GlobalsLen)
        \/ \E i \in DOMAIN held : free_with_fallback(i)

Spec == Init /\ [][Next]_vars

-----------------------------------------------------------------------------
\* The nodes of the free list, as the loops of the code reach them.
FreeNodes == LET walk == Walk(freelist, next)
             IN  {walk[k] : k \in 0 .. HeapUnits} \ {ListEnd}

\* The units of a free chunk, and those a held block needs: a header and
\* enough units for the bytes asked for.
FreeUnits(p) == p .. (p + len[p] - 1)
HeldUnits(b) == (b.ptr - 1) .. (b.ptr - 1 + (b.bytes + SizeofNode - 1) \div SizeofNode)
InHeap == {i \in DOMAIN held : held[i].ptr # SystemPtr}

(***************************************************************************)
(* "Walk the free list, looking for a big enough chunk" (111): what a       *)
(* caller gets is free, no part of it is in another caller's hands.         *)
(***************************************************************************)
HandedOutOnce ==
  \A i, j \in InHeap : i # j => HeldUnits(held[i]) \cap HeldUnits(held[j]) = {}

(***************************************************************************)
(* The free chunks and the held blocks tile the heap: none overlaps another *)
(* (two callers never write to the same bytes, and the list's headers are   *)
(* out of their reach), and no unit is lost to both.  In particular, when   *)
(* every block is freed the whole heap is free again, and the walks of      *)
(* fallback_malloc and fallback_free end.                                   *)
(***************************************************************************)
Tiled ==
  freelist # NULL =>
    /\ UNION {FreeUnits(p) : p \in FreeNodes} \cup UNION {HeldUnits(held[i]) : i \in InHeap} = Offsets
    /\ \A p, q \in FreeNodes : p # q => FreeUnits(p) \cap FreeUnits(q) = {}
    /\ HandedOutOnce
    /\ \A p \in FreeNodes, i \in InHeap : FreeUnits(p) \cap HeldUnits(held[i]) = {}
    /\ Walk(freelist, next)[HeapUnits] = ListEnd

(***************************************************************************)
(* The list does not fall to pieces: once no block of the heap is held, the *)
(* whole heap is one chunk again, so that the largest request succeeds.     *)
(* fallback_free merges a chunk with one neighbour only; this holds when    *)
(* blocks come back in the reverse order of the requests (LastFirst).       *)
(***************************************************************************)
OneChunkAgain == freelist # NULL /\ InHeap = {} => FreeNodes = {0} /\ len[0] = HeapUnits

(***************************************************************************)
(* What __aligned_malloc_with_fallback returns has the alignment of         *)
(* __aligned_type, wherever it comes from.                                  *)
(***************************************************************************)
Aligned ==
  \A i \in InHeap : held[i].aligned => (held[i].ptr * SizeofNode) % DefaultAlignment = 0
=============================================================================
