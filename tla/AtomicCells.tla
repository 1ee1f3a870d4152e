----------------------------- MODULE AtomicCells -----------------------------
(***************************************************************************)
(* What the atomics promise: every call takes effect in one step between   *)
(* its beginning and its end, on the cell it names and on no other, and    *)
(* returns the value it found there.  compare_exchange_weak may fail       *)
(* without a reason.                                                       *)
(***************************************************************************)
EXTENDS AtomicOps

CONSTANTS Thread, Cell

VARIABLES
  cells,    \* the value of each cell
  call,     \* call[t]: the operation t is in, or NoCall
  last      \* last[t]: what t's last operation returned

cellVars == <<cells, call, last>>

NoCall == [op |-> "none"]
Result(old, ok) == [old |-> old, ok |-> ok]

CellsInit ==
  /\ cells \in [Cell -> Value]
  /\ call = [t \in Thread |-> NoCall]
  /\ last = [t \in Thread |-> Result(0, FALSE)]

Begin(t) ==
  /\ call[t] = NoCall
  /\ call'[t] \in [op : Updates \cup Compares, cell : Cell, arg : Value, exp : Value]
  /\ call' = [call EXCEPT ![t] = call'[t]]
  /\ UNCHANGED <<cells, last>>

(* The value the call of t leaves in a cell with value v, and its success. *)
Leaves(o, v) == IF o.op \in Updates THEN Updated(o.op, v, o.arg)
                ELSE IF v = o.exp THEN o.arg ELSE v
Succeeds(o, v) == o.op \in Updates \/ v = o.exp

Effect(t) ==
  LET o == call[t]
  IN  /\ o # NoCall
      /\ cells' = [cells EXCEPT ![o.cell] = Leaves(o, @)]
      /\ last' = [last EXCEPT ![t] = Result(cells[o.cell], Succeeds(o, cells[o.cell]))]
      /\ call' = [call EXCEPT ![t] = NoCall]

FailForNoReason(t) ==
  /\ call[t].op = "weak"
  /\ last' = [last EXCEPT ![t] = Result(call[t].exp, FALSE)]
  /\ call' = [call EXCEPT ![t] = NoCall]
  /\ UNCHANGED cells

CellsNext == \E t \in Thread : Begin(t) \/ Effect(t) \/ FailForNoReason(t)

CellsSpec == CellsInit /\ [][CellsNext]_cellVars

=============================================================================
