-------------------------------- MODULE TradeRows --------------------------------
(***************************************************************************)
(* The trade rows of one symbol: what the lifecycle (`lifecycle.py`) and   *)
(* `_record_late_fill` write when a live order's fill is booked.           *)
(*                                                                         *)
(* A BUY has a row; a SELL closes open rows, newest first, and splits one  *)
(* sold in part.  Every write is a call of its own that may fail, or whose *)
(* answer may be lost though it was applied.  Nothing locks the rows: the  *)
(* bookings of several processes interleave between any two calls.         *)
(* A row's P&L is the number of sold shares whose P&L it holds.            *)
(***************************************************************************)
EXTENDS Integers, Sequences, FiniteSetsExt, Functions

CONSTANTS
    Procs,          \* processes that book
    Orders,         \* BUY orders
    NoOrder,        \* the order_id of a row no order has
    Size,           \* shares of a BUY order
    MaxLots,        \* _MAX_LOTS
    MaxSales,       \* bound: SELL bookings
    MaxFaults       \* bound: calls that fail or whose answer is lost

ASSUME RowsAssumption ==
    /\ NoOrder \notin Orders /\ IsFiniteSet(Orders) /\ IsFiniteSet(Procs)
    /\ Size \in Nat \ {0} /\ MaxLots \in Nat \ {0} /\ MaxSales \in Nat /\ MaxFaults \in Nat

VARIABLES
    trades,     \* the BUY rows, oldest first
    filled,     \* what the broker filled of each BUY order
    reported,   \* ... and what its callers count as booked
    sold,       \* shares of the SELLs booked, or being booked
    sales,      \* SELL bookings begun
    call,       \* the booking under way in each process
    faults,
    told,       \* an alert said that the rows need a look
    owed,       \* orders whose late fill was not booked: their caller knows
    unseen,     \* of them, those whose rows have it nevertheless
    silent      \* what went wrong and nobody was told

rowsVars == <<trades, filled, reported, sold, sales, call, faults, told, owed, unseen, silent>>

Qty == 0 .. Size
Shares == 0 .. Size * Cardinality(Orders)
Ways == {"crash", "overlap", "unsaved entry", "written twice", "row not closed",
         "beyond the rows"}

\* status: a row undone is "gone".  pend: pending_partials
Row(order, qty, pend) == [order |-> order, qty |-> qty, pend |-> pend, status |-> "open", pnl |-> 0]
Idle == [pc |-> "idle", order |-> NoOrder, left |-> 0, lots |-> 0, handled |-> {},
         row |-> 0, qty |-> 0, pend |-> 0, saved |-> 0, again |-> FALSE]

RowsTypeOK ==
    /\ \A i \in DOMAIN trades :
         trades[i] \in [order : Orders \cup {NoOrder}, qty : Shares, pend : Shares,
                        status : {"open", "closed", "gone"}, pnl : Shares]
    /\ filled \in [Orders -> Qty] /\ reported \in [Orders -> Qty]
    /\ \A o \in Orders : reported[o] <= filled[o]
    /\ sold \in Shares /\ sales \in 0 .. MaxSales /\ faults \in 0 .. MaxFaults
    /\ \A p \in Procs :
         /\ call[p].pc \in {"idle", "late", "find", "split", "keep", "part", "undo", "whole"}
         /\ call[p].left \in Shares /\ call[p].qty \in Shares /\ call[p].lots \in 0 .. MaxLots - 1
         /\ call[p].row \in 0 .. Len(trades) /\ call[p].handled \subseteq DOMAIN trades
    /\ told \in BOOLEAN /\ owed \subseteq Orders /\ unseen \subseteq owed /\ silent \subseteq Ways

RowsInit ==
    /\ trades = <<>> /\ filled = [o \in Orders |-> 0] /\ reported = filled
    /\ sold = 0 /\ sales = 0 /\ call = [p \in Procs |-> Idle] /\ faults = 0
    /\ told = FALSE /\ owed = {} /\ unseen = {} /\ silent = {}

-----------------------------------------------------------------------------
(* One call to the table. *)

\* What becomes of it: whether it is applied, and whether the caller sees it succeed
Calls(applied, seen) ==
    /\ seen => applied
    /\ faults' = IF seen THEN faults ELSE faults + 1
    /\ faults' <= MaxFaults

Stored(applied, new) == trades' = IF applied THEN new ELSE trades

Inserted(row) == Append(trades, row)
Updated(i, row) == [trades EXCEPT ![i] = row]

SharesOf(shares) == SumFunction(shares)

\* find_open_buy
OpenRows == {i \in DOMAIN trades : trades[i].status = "open"}
Newest == Max(OpenRows)

\* find_by_order_id
OrderRows(o) == {i \in DOMAIN trades : trades[i].order = o /\ trades[i].status # "gone"}

At(p, pc) == call[p].pc = pc
AtRest == \A p \in Procs : At(p, "idle")
Becomes(p, c) == call' = [call EXCEPT ![p] = c]

\* Bookings of two processes at once read rows the other is about to write
Overlap == IF AtRest THEN {} ELSE {"overlap"}

Begins(p, c) ==
    /\ At(p, "idle")
    /\ Becomes(p, c)
    /\ silent' = silent \cup Overlap

-----------------------------------------------------------------------------
(* BUYs. *)

\* _run_lifecycle of an entry: its row, or (False) nothing, which its callers only log
Enter(p, o) ==
    /\ At(p, "idle") /\ filled[o] = 0
    /\ \E n \in Qty \ {0}, applied \in BOOLEAN, seen \in BOOLEAN :
         /\ Calls(applied, seen)
         /\ Stored(applied, Inserted(Row(o, n, 0)))
         /\ filled' = [filled EXCEPT ![o] = n] /\ reported' = [reported EXCEPT ![o] = n]
         /\ silent' = silent \cup (IF applied THEN {} ELSE {"unsaved entry"}) \cup Overlap
    /\ UNCHANGED <<sold, sales, call, told, owed, unseen>>

\* A fill after the order was reported, if it was (LateFillBooking: one process at a time)
FillsLate(o) ==
    /\ filled[o] < Size
    /\ \A p \in Procs : call[p].order # o
    /\ filled' = [filled EXCEPT ![o] = @ + 1]
    /\ owed' = owed \cup {o}
    /\ UNCHANGED <<trades, reported, sold, sales, call, faults, told, unseen, silent>>

\* _record_late_fill reads the order's row ...
LateBegins(p, o) ==
    /\ reported[o] < filled[o]
    /\ \A q \in Procs : call[q].order # o
    /\ \/ /\ Begins(p, [Idle EXCEPT !.pc = "late", !.order = o,
                                    !.row = IF OrderRows(o) = {} THEN 0 ELSE Max(OrderRows(o)),
                                    !.again = \E i \in OrderRows(o) : trades[i].status = "closed"])
          /\ UNCHANGED faults
       \/ Calls(FALSE, FALSE) /\ UNCHANGED <<call, silent>>
    /\ UNCHANGED <<trades, filled, reported, sold, sales, told, owed, unseen>>

\* The open row's new quantity; a row of its own if that row is closed; or the order's row
LateFill(o, i, closed) ==
    IF i = 0 THEN Inserted(Row(o, filled[o], 0))
    ELSE IF closed THEN Inserted(Row(NoOrder, filled[o] - reported[o], 0))
    ELSE Updated(i, [trades[i] EXCEPT !.qty = filled[o]])

\* ... and writes.  What was applied without an answer is written again next time: on the
\* same row, or, once that is closed, on another one
LateWrites(p) ==
    /\ At(p, "late")
    /\ LET o == call[p].order IN
       \E applied \in BOOLEAN, seen \in BOOLEAN :
         /\ Calls(applied, seen)
         /\ Stored(applied, LateFill(o, call[p].row, call[p].again))
         /\ reported' = IF seen THEN [reported EXCEPT ![o] = filled[o]] ELSE reported
         /\ owed' = IF seen THEN owed \ {o} ELSE owed
         /\ unseen' = IF seen THEN unseen \ {o} ELSE IF applied THEN unseen \cup {o} ELSE unseen
         /\ silent' = silent \cup IF applied /\ call[p].again /\ o \in unseen
                                  THEN {"written twice"} ELSE {}
    /\ Becomes(p, Idle)
    /\ UNCHANGED <<filled, sold, sales, told>>

-----------------------------------------------------------------------------
(* SELLs: _handle_live_sell. *)

\* n shares bought and not sold yet
SellBegins(p, n) ==
    /\ sales < MaxSales /\ sales' = sales + 1
    /\ n \in 1 .. SharesOf(filled) - sold
    /\ sold' = sold + n
    /\ Begins(p, [Idle EXCEPT !.pc = "find", !.left = n])
    /\ UNCHANGED <<trades, filled, reported, faults, told, owed, unseen>>

\* A late fill without any price is left to the user (exit-late-unpriced)
SellUnpriced ==
    /\ sales < MaxSales /\ sales' = sales + 1
    /\ \E n \in 1 .. SharesOf(filled) - sold : sold' = sold + n
    /\ told' = TRUE
    /\ UNCHANGED <<trades, filled, reported, call, faults, owed, unseen, silent>>

\* What is left to close of the row as it was read
OpenQty(c) == c.qty - c.pend

Piece(c) == Min({c.left, Max({0, OpenQty(c)})})

\* (mutant) a row may come back
HandledNever(c, i) == FALSE

\* Its close did not save: it is not closed again
Handled(c, i) == i \in c.handled

\* The row as it is read, and where to go with it
Lot(c, i) ==
    LET read == [c EXCEPT !.row = i, !.qty = trades[i].qty, !.pend = trades[i].pend,
                          !.handled = @ \cup {i}, !.again = FALSE, !.saved = 0]
    IN [read EXCEPT !.pc = IF Piece(read) < OpenQty(read) THEN "split" ELSE "whole"]

Find(p) ==
    /\ At(p, "find")
    /\ LET c == call[p] IN
       \/ \* no answer: nothing booked yet, so False; later, sell-not-booked
          /\ Calls(FALSE, FALSE)
          /\ Becomes(p, Idle)
          /\ IF c.lots = 0 THEN sold' = sold - c.left /\ UNCHANGED told
                           ELSE told' = TRUE /\ UNCHANGED sold
          /\ UNCHANGED silent
       \/ \* sold more than the open rows hold: logged
          /\ OpenRows = {}
          /\ Becomes(p, Idle)
          /\ silent' = silent \cup {"beyond the rows"}
          /\ UNCHANGED <<sold, faults, told>>
       \/ /\ OpenRows # {}
          /\ IF Handled(c, Newest) THEN told' = TRUE /\ Becomes(p, Idle)
                                   ELSE Becomes(p, Lot(c, Newest)) /\ UNCHANGED told
          /\ UNCHANGED <<sold, faults, silent>>
    /\ UNCHANGED <<trades, filled, reported, sales, owed, unseen>>

LotsSpent(c) == c.lots + 1 = MaxLots

\* (mutant) no alert for what is left after the last row
NextLotUnalerted(p, alerted) ==
    LET c == call[p]  rest == c.left - Piece(c) IN
    /\ Becomes(p, IF rest = 0 \/ Piece(c) = 0 \/ LotsSpent(c) THEN Idle
                  ELSE [c EXCEPT !.pc = "find", !.left = rest, !.lots = @ + 1])
    /\ told' = (told \/ alerted)

\* On to the next row.  A lot may end the SELL with an alert: its own, or that of _MAX_LOTS
NextLot(p, alerted) ==
    LET c == call[p]  rest == c.left - Piece(c) IN
    /\ Becomes(p, IF rest = 0 \/ Piece(c) = 0 \/ LotsSpent(c) THEN Idle
                  ELSE [c EXCEPT !.pc = "find", !.left = rest, !.lots = @ + 1])
    /\ told' = (told \/ alerted \/ (Piece(c) > 0 /\ rest > 0 /\ LotsSpent(c)))

\* _remainder
RestOf(c) == Row(NoOrder, OpenQty(c) - Piece(c), 0)

\* Sold in part: the remainder first
Split(p) ==
    /\ At(p, "split")
    /\ \E applied \in BOOLEAN, seen \in BOOLEAN :
         /\ Calls(applied, seen)
         /\ Stored(applied, Inserted(RestOf(call[p])))
         /\ Becomes(p, IF seen THEN [call[p] EXCEPT !.pc = "part", !.saved = Len(trades) + 1]
                               ELSE [call[p] EXCEPT !.pc = "keep"])
    /\ UNCHANGED <<filled, reported, sold, sales, told, owed, unseen, silent>>

\* The remainder was not saved: pending_partials of the open row, and partial-not-split
Keep(p) ==
    /\ At(p, "keep")
    /\ \E applied \in BOOLEAN, seen \in BOOLEAN :
         /\ Calls(applied, seen)
         /\ Stored(applied, Updated(call[p].row,
                       [trades[call[p].row] EXCEPT !.pend = call[p].pend + Piece(call[p])]))
    /\ NextLot(p, TRUE)
    /\ UNCHANGED <<filled, reported, sold, sales, owed, unseen, silent>>

\* (mutant) with the P&L of the whole row
ClosedInPartForAll(c) == [trades[c.row] EXCEPT !.qty = Piece(c) + c.pend, !.status = "closed",
                                               !.pnl = c.qty]

\* The row closed for the sold part, with the P&L of the partials it kept
ClosedInPart(c) == [trades[c.row] EXCEPT !.qty = Piece(c) + c.pend, !.status = "closed",
                                         !.pnl = Piece(c) + c.pend]
ClosedInFull(c) == [trades[c.row] EXCEPT !.status = "closed", !.pnl = Piece(c) + c.pend]

\* _update_twice, then what follows its success or its second failure
Closes(p, pc, row, Saved, Unsaved) ==
    /\ At(p, pc)
    /\ \E applied \in BOOLEAN, seen \in BOOLEAN :
         /\ Calls(applied, seen)
         /\ Stored(applied, Updated(call[p].row, row))
         /\ \/ seen /\ Saved
            \/ ~seen /\ call[p].again /\ Unsaved
            \/ /\ ~seen /\ ~call[p].again
               /\ Becomes(p, [call[p] EXCEPT !.again = TRUE])
               /\ UNCHANGED <<told, silent>>
    /\ UNCHANGED <<filled, reported, sold, sales, owed, unseen>>

ClosePart(p) ==
    Closes(p, "part", ClosedInPart(call[p]), NextLot(p, FALSE) /\ UNCHANGED silent,
           Becomes(p, [call[p] EXCEPT !.pc = "undo"]) /\ UNCHANGED <<told, silent>>)

\* The open quantity would count twice: the remainder goes again, and partial-not-split
Undo(p) ==
    /\ At(p, "undo")
    /\ \E applied \in BOOLEAN, seen \in BOOLEAN :
         /\ Calls(applied, seen)
         /\ Stored(applied, Updated(call[p].saved,
                                    [trades[call[p].saved] EXCEPT !.status = "gone"]))
    /\ NextLot(p, TRUE)
    /\ UNCHANGED <<filled, reported, sold, sales, owed, unseen, silent>>

\* A row that could not be closed is logged.  If more is left to sell, Find meets it again
CloseWhole(p) ==
    Closes(p, "whole", ClosedInFull(call[p]), NextLot(p, FALSE) /\ UNCHANGED silent,
           /\ NextLot(p, FALSE)
           /\ silent' = silent \cup IF call[p].left > Piece(call[p]) THEN {}
                                    ELSE {"row not closed"})

\* The process dies between two calls.  A late fill's claim is not given again
Dies(p) ==
    /\ ~At(p, "idle")
    /\ Becomes(p, Idle)
    /\ silent' = silent \cup {"crash"}
    /\ reported' = IF At(p, "late") THEN [reported EXCEPT ![call[p].order] = filled[call[p].order]]
                                    ELSE reported
    /\ UNCHANGED <<trades, filled, sold, sales, faults, told, owed, unseen>>

Buys(p) == LateWrites(p) \/ \E o \in Orders : Enter(p, o) \/ LateBegins(p, o)

Sells(p) ==
    \/ \E n \in Shares : SellBegins(p, n)
    \/ Find(p) \/ Split(p) \/ Keep(p) \/ ClosePart(p) \/ Undo(p) \/ CloseWhole(p)

RowsNext ==
    \/ \E p \in Procs : Buys(p) \/ Sells(p) \/ Dies(p)
    \/ \E o \in Orders : FillsLate(o)
    \/ SellUnpriced

RowsSpec == RowsInit /\ [][RowsNext]_rowsVars

-----------------------------------------------------------------------------
(* Properties. *)

Open == SumFunctionOnSet([i \in OpenRows |-> trades[i].qty - trades[i].pend], OpenRows)

\* Between two bookings the open rows hold what was bought and not sold, unless an alert asked
\* for a look at them, a late fill is still to be booked, or something of Ways happened
RowsAddUp ==
    AtRest /\ owed = {} /\ ~told /\ silent = {} =>
        Open = SharesOf(reported) - sold

ClosedRows == {i \in DOMAIN trades : trades[i].status = "closed"}
BookedPnl == SumFunctionOnSet([i \in ClosedRows |-> trades[i].pnl], ClosedRows)

\* Whatever fails, whoever interleaves or dies: the closed rows, which the loss limits add up,
\* hold the P&L of no more shares than were sold
PnlOnce == BookedPnl <= sold

\* Nor do the loss limits miss a sale: between two bookings its P&L is in the closed rows,
\* unless an alert said so or something of Ways happened.  (lifecycle.py, on_trade)
PnlComplete == AtRest /\ ~told /\ silent = {} => BookedPnl = sold
=============================================================================
