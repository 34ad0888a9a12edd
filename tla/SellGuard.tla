------------------------------- MODULE SellGuard -------------------------------
(***************************************************************************)
(* The no-short-sale check of a live SELL: one instrument, sold by any     *)
(* process of the host under its sell lock (skopaq/execution/executor.py:  *)
(* execute_signal), from one read of the order book, then positions, then  *)
(* holdings (broker/book_snapshot.py), with the arithmetic of sellable.py. *)
(*                                                                         *)
(* The book lags behind accepted orders, positions lag behind fills, for   *)
(* at most the lag window.  Orders are left stuck, uncertain, or with an   *)
(* unknown fill and trade on after the lock is free; other sellers use the *)
(* account.                                                                *)
(***************************************************************************)
EXTENDS Integers, FiniteSets, Functions

CONSTANTS
    Ids,        \* order ids
    None,       \* no order
    Held,       \* shares in the holdings
    Bought,     \* shares of the day's position, before any SELL
    Remarks,    \* settings: orders carry the remarks tag of their placement
    Surprises   \* what the instance includes: a subset of Kinds

\* "booklag": the book does not list an order yet; "stuckfill": an order left stuck
\* trades, or traded, more than was seen; "unknown": a final order whose fill no read
\* gave; "killed": a process killed between POST and its journal line; "others": SELLs
\* that are not Skopaq's
Kinds == {"booklag", "stuckfill", "unknown", "killed", "others"}

ASSUME SharesAssumption == Held \in Nat /\ Bought \in Nat
ASSUME GuardIdsAssumption == IsFiniteSet(Ids) /\ None \notin Ids
ASSUME RemarksAssumption == Remarks \in BOOLEAN
ASSUME SurprisesAssumption == Surprises \subseteq Kinds

VARIABLES
    order,     \* the broker's SELL orders, with what Skopaq knows of each
    exits,     \* SellContext.position_only: the SELLs are protective exits
    pc,        \* the holder of the sell lock ("free": nobody)
    rows,      \* its read of the order book
    shown,     \* its read of positions: the sells they show
    cur        \* the order it placed

checkVars == <<pc, rows, shown, cur>>
vars == <<order, exits, checkVars>>

-----------------------------------------------------------------------------
Larger(a, b)  == IF a >= b THEN a ELSE b
Smaller(a, b) == IF a <= b THEN a ELSE b
Sum(S, f) == SumFunctionOnSet(f, S)

Total == Held + Bought
\* know: "no" (not Skopaq's, or nothing was journalled), "uncertain", "open" or "final"
\* knownDone: the fill Skopaq confirmed, noted: within the lag window (it may confirm, or
\* confirm again, long after the trade).  age: "new" when placed within the window, "recent"
\* when placed before and changed within it, else "old"
Absent == [st |-> "absent", qty |-> 0, done |-> 0, know |-> "no", knownDone |-> 0,
           noted |-> FALSE, age |-> "old", own |-> FALSE]

AtBroker == {o \in Ids : order[o].st \in {"sent", "open", "final"}}
Mine == {o \in Ids : order[o].own}
\* The shares an order has sold or may still sell
Committed == [o \in Ids |-> IF order[o].st = "final" THEN order[o].done ELSE order[o].qty]
Taken(S) == Sum(S \cap AtBroker, Committed)

\* What the book may show of order o: nothing yet, an older open row, or the row as it
\* is.  Once the lag window is over it shows what is
NoRow == [st |-> "none", traded |-> 0]
RowsOf(o) ==
    LET k == order[o]
        now == [st |-> k.st, traded |-> k.done]
    IN  IF k.st \notin {"open", "final"} THEN {NoRow}
        ELSE IF k.age = "old" THEN {now}
        ELSE {now} \cup [st : {"open"}, traded : 0 .. k.done]
                   \cup (IF "booklag" \in Surprises /\ k.age = "new" THEN {NoRow} ELSE {})

\* The sells positions may show of order o
ShownOf(o) == IF order[o].age # "old" THEN 0 .. order[o].done ELSE {order[o].done}

-----------------------------------------------------------------------------
(* sellable_quantity, over the rows and positions read and what the registry and the *)
(* journal say when it runs.                                                         *)

Listed == {o \in Ids : rows[o].st # "none"}
Recent == {o \in Ids : order[o].age # "old"}
\* (mutant) an uncertain placement that never stops counting
UncertainForGood == {o \in Ids : order[o].know = "uncertain"}

Uncertain == {o \in Ids : order[o].know = "uncertain" /\ order[o].age = "new"}
OwnIds == {o \in Ids : order[o].know \in {"open", "final"}}

Remainder == [o \in Ids |-> IF rows[o].st = "open" THEN order[o].qty - rows[o].traded ELSE 0]
Traded    == [o \in Ids |-> rows[o].traded]
KnownDone == [o \in Ids |-> order[o].knownDone]
KnownOpen == [o \in Ids |-> order[o].qty - order[o].knownDone]
Quantity  == [o \in Ids |-> order[o].qty]

PendingQty     == Sum(Listed, Remainder)
OwnPending     == Sum(Listed \cap OwnIds, Remainder)
BookFilled     == Sum(Listed, Traded)
RecentFilled   == Sum(Listed \cap Recent, Traded)
OwnRecentExit  == Sum({o \in OwnIds : order[o].noted}, KnownDone)

\* Sells that positions show and that older fills do not account for
ShownRecent == Larger(0, shown - (BookFilled - RecentFilled))

\* (mutant) only the fills of our own exits
UnshownOwnOnly == Larger(0, OwnRecentExit - ShownRecent)

\* Filled SELLs positions do not show yet: by the book, or by our own confirmed exits
Unshown == Larger(Smaller(Larger(0, BookFilled - shown), RecentFilled),
                  Larger(0, OwnRecentExit - ShownRecent))

\* Uncertain placements, unless a listed order carries their tag
UncertainSells ==
    Sum(IF Remarks THEN Uncertain \ Listed ELSE Uncertain, Quantity)

\* Our unresolved orders the book does not list
OwnOpen == Sum({o \in Ids \ Listed : order[o].know = "open"}, KnownOpen)

Sellable == Total - shown - PendingQty - Unshown - UncertainSells - OwnOpen

\* (mutant) an exit allowed whatever the account can cover
PositionSellableUncapped == Sellable

\* What a protective exit may sell: the position less our own SELLs, capped by Sellable
PositionSellable ==
    Smaller(Bought - shown - (OwnPending + OwnOpen + Unshown + UncertainSells), Sellable)

Allowed == IF exits THEN PositionSellable ELSE Sellable

-----------------------------------------------------------------------------
(* The holder of the sell lock.                                            *)

NoRows == [o \in Ids |-> NoRow]

\* SellLock, then the order book
ReadBook ==
    /\ pc = "free"
    /\ rows' \in {f \in [Ids -> UNION {RowsOf(o) : o \in Ids}] :
                    \A o \in Ids : f[o] \in RowsOf(o)}
    /\ pc' = "book"
    /\ UNCHANGED <<order, exits, shown, cur>>

ReadPositions ==
    /\ pc = "book"
    /\ \E f \in [Ids -> UNION {ShownOf(o) : o \in Ids}] :
         /\ \A o \in Ids : f[o] \in ShownOf(o)
         /\ shown' = Sum(Ids, f)
    /\ pc' = "check"
    /\ UNCHANGED <<order, exits, rows, cur>>

\* The safety check passes or refuses; an order that passes is sent
Check ==
    /\ pc = "check"
    /\ \/ \E o \in Ids, q \in 1 .. Allowed :
            /\ order[o].st = "absent"
            /\ order' = [order EXCEPT ![o] = [Absent EXCEPT !.st = "sent", !.qty = q,
                                                           !.own = TRUE, !.age = "new"]]
            /\ cur' = o /\ pc' = "sent"
       \/ /\ pc' = "free" /\ cur' = None
          /\ UNCHANGED order
    /\ rows' = NoRows /\ shown' = 0
    /\ UNCHANGED <<exits>>

\* The worker's call ends, and the lock is released with it
Ends(fields) ==
    /\ order' = [order EXCEPT ![cur] = fields]
    /\ pc' = "free" /\ cur' = None
    /\ UNCHANGED <<exits, rows, shown>>

Refused ==
    /\ pc = "sent" /\ order[cur].st = "sent"
    /\ Ends(Absent)

Unclear ==
    /\ pc = "sent"
    /\ Ends([order[cur] EXCEPT !.know = "uncertain"])

\* Order k as it is recorded, with n shares sold
Knows(k, what, n) == [k EXCEPT !.know = what, !.knownDone = n, !.noted = n > 0]

\* Confirmed final; or final with a fill no read gave, which counts nothing
Confirmed ==
    /\ pc = "sent" /\ order[cur].st = "final"
    /\ \E known \in {TRUE} \cup (IF "unknown" \in Surprises THEN {FALSE} ELSE {}) :
         Ends(Knows(order[cur], "final", IF known THEN order[cur].done ELSE 0))

\* Stuck or interrupted, with the fill its last read saw
LeftOpen ==
    /\ pc = "sent" /\ order[cur].st \in {"open", "final"}
    /\ \E n \in 0 .. order[cur].done :
         /\ n = order[cur].done \/ "stuckfill" \in Surprises
         /\ Ends(Knows(order[cur], "open", n))

\* SIGKILL before the placed line: the lock goes with the process, and only the book
\* knows of the order.  (Of a request still on its way nobody does: not covered)
Killed ==
    /\ pc = "sent" /\ "killed" \in Surprises /\ order[cur].st # "sent"
    /\ Ends(order[cur])

-----------------------------------------------------------------------------
(* Meanwhile: the broker, resumes of orders left open, and other sellers.  *)

Moves(o, fields) ==
    /\ order' = [order EXCEPT ![o] = fields]
    /\ UNCHANGED <<exits, checkVars>>

\* A resync finds an order final, or still open, with its progress or none: what it has sold
\* is recorded as confirmed now, in the registry and in the journal
Resumed(o) ==
    /\ order[o].know = "open"
    /\ \/ /\ order[o].st = "final"
          /\ Moves(o, Knows(order[o], "final", order[o].done))
       \/ \E n \in order[o].knownDone .. order[o].done : Moves(o, Knows(order[o], "open", n))

\* The window of a confirmation is over by the clock of a check, which runs on during its reads
Forgets(o) ==
    /\ pc = "check" /\ order[o].noted
    /\ Moves(o, [order[o] EXCEPT !.noted = FALSE])

\* A monitor finds the order of an uncertain placement in the book by its tag, and takes
\* it over.  (Without tags a match is a guess: watched, and the placement still counts.)  To
\* a check that read the book before the order was there, it is an order the book lacks
TakenOver(o) ==
    /\ Remarks
    /\ order[o].know = "uncertain" /\ order[o].age = "new"
    /\ order[o].st \in {"open", "final"}
    /\ (pc \in {"book", "check"} /\ rows[o] = NoRow) => "booklag" \in Surprises
    /\ Moves(o, [order[o] EXCEPT !.know = "open"])

Accept(o) == order[o].st = "sent" /\ Moves(o, [order[o] EXCEPT !.st = "open"])

Lose(o) == order[o].st = "sent" /\ o # cur /\ Moves(o, [order[o] EXCEPT !.st = "lost"])

Changed(age) == IF age = "old" THEN "recent" ELSE age

Trade(o) ==
    /\ order[o].st = "open"
    /\ order[o].know # "open" \/ "stuckfill" \in Surprises
    /\ \E n \in (order[o].done + 1) .. order[o].qty :
         Moves(o, [order[o] EXCEPT !.done = n, !.age = Changed(@),
                                   !.st = IF n = order[o].qty THEN "final" ELSE "open"])

End(o) ==
    /\ order[o].st = "open"
    /\ Moves(o, [order[o] EXCEPT !.st = "final", !.age = Changed(@)])

\* The lag window of an order ends, as of the next read_at; the broker has caught up
Age(o) ==
    /\ order[o].age # "old" /\ order[o].st # "sent" /\ pc = "free"
    /\ Moves(o, [order[o] EXCEPT !.age = "old"])

\* Somebody else sells what is free, while no check is under way
OtherSell(o) ==
    /\ "others" \in Surprises
    /\ pc = "free" /\ order[o].st = "absent"
    /\ \E q \in 1 .. (Total - Taken(Ids)) :
         Moves(o, [Absent EXCEPT !.st = "open", !.qty = q, !.age = "new"])

-----------------------------------------------------------------------------
Init ==
    /\ order = [o \in Ids |-> Absent]
    /\ exits \in BOOLEAN
    /\ pc = "free" /\ rows = NoRows /\ shown = 0 /\ cur = None

Selling == \/ ReadBook \/ ReadPositions \/ Check
           \/ Refused \/ Unclear \/ Confirmed \/ LeftOpen \/ Killed
Meanwhile == \E o \in Ids : \/ Resumed(o) \/ TakenOver(o) \/ Accept(o) \/ Lose(o)
                            \/ Trade(o) \/ End(o) \/ Age(o) \/ Forgets(o)
                            \/ OtherSell(o)

Next == Selling \/ Meanwhile
Spec == Init /\ [][Next]_vars

-----------------------------------------------------------------------------
(* Properties.                                                             *)

\* The pc, the reads and the order being placed go together, and no fill exceeds its
\* order: what is confirmed of an order it did trade
TypeOK ==
    /\ order \in [Ids -> [st : {"absent", "sent", "open", "final", "lost"}, qty : Nat,
                          done : Nat, know : {"no", "uncertain", "open", "final"},
                          knownDone : Nat, noted : BOOLEAN, age : {"new", "recent", "old"},
                          own : BOOLEAN]]
    /\ exits \in BOOLEAN /\ pc \in {"free", "book", "check", "sent"} /\ shown \in Nat
    /\ rows \in [Ids -> [st : {"none", "open", "final"}, traded : Nat]]
    /\ cur \in Ids \cup {None} /\ (pc = "sent") = (cur # None)
    /\ pc \in {"free", "sent"} => rows = NoRows /\ shown = 0
    /\ \A o \in Ids : /\ order[o].knownDone <= order[o].done /\ order[o].done <= order[o].qty
                      /\ order[o].done = order[o].qty /\ order[o].qty > 0
                            => order[o].st = "final"

\* No short sale, whatever the reads showed: the SELLs of all sellers never commit more
\* than the account had (safety_checker.py: the no-short-sale rule; live-trading.md, "the
\* same shares are not sold twice")
NoSecondSale == Taken(Ids) <= Total

\* Nor is a share blocked for good: once the lag window of every order is over, the check
\* allows exactly what no SELL has taken, whatever stays uncertain, stuck or unknown, less the
\* fills confirmed, or confirmed again, within the last window: those it takes for fills that
\* positions do not show, although they do (sellable.py: recent fills, uncertain and open
\* orders count for their window only; the own exits' window starts when they are recorded)
HeldBack == {o \in Mine : order[o].know \in {"open", "final"} /\ order[o].noted}
ExactOnceShown ==
    pc = "check" /\ Recent = {} =>
        Sellable = Total - Taken(Ids) - Sum(HeldBack, KnownDone)

\* docs/trading/live-trading.md: "a stuck, uncertain or partly filled exit is never taken
\* out of the delivery holdings you already had".  While exits are all that sells, an exit
\* never takes the day's position and more, together with the exits the code knows to be its
\* own when it sends it: those with a journalled order id, and an untagged uncertain one for
\* as long as it counts in full
Counted == {o \in Mine : \/ order[o].know \in {"open", "final"} \/ o = cur
                         \/ o \in Uncertain /\ ~Remarks}
KnownExitsKeepHoldings ==
    [][exits /\ cur = None /\ cur' # None => (Taken(Counted) <= Bought)']_vars

=============================================================================
