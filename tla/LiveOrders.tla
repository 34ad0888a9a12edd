------------------------------ MODULE LiveOrders ------------------------------
(***************************************************************************)
(* One call of LiveOrderWorker.execute (skopaq/execution/live_orders.py)   *)
(* against a broker that runs on its own: a protective exit, cancelled and *)
(* re-placed until Target shares are sold, or a single entry order.        *)
(*                                                                         *)
(* The worker awaits the broker at every step, so between two of its       *)
(* actions orders are accepted, listed in the book, filled, cancelled or   *)
(* refused, the deadline passes, the calling task is cancelled, or the     *)
(* process is killed.  What a read returns may lag behind the order, miss  *)
(* its traded quantity, or fail.                                           *)
(***************************************************************************)
EXTENDS Integers

CONSTANTS
    Ids,          \* order ids the broker can give out
    OtherIds,     \* those it gives to orders of somebody else on the account
    None,         \* no order id
    Target,       \* OrderRequest.quantity
    MaxAttempts,  \* FillSettings.exit_max_attempts
    BackoffCap,   \* RATE_LIMIT_BACKOFF_CAP_S, in pauses of unit length
    Remarks,      \* SKOPAQ_INDSTOCKS_ORDER_REMARKS_ENABLED
    MaxCancels,   \* bound: CancelledErrors delivered to the calling task
    MayCrash,     \* whether the process can be killed (SIGKILL, power)
    JournalFails  \* whether lines of the order journal may fail to be written

ASSUME TargetAssumption == Target \in Nat \ {0}
ASSUME AttemptsAssumption == MaxAttempts \in Nat \ {0}
ASSUME CapAssumption == BackoffCap \in Nat
ASSUME CancelsAssumption == MaxCancels \in Nat
ASSUME FlagsAssumption == Remarks \in BOOLEAN /\ MayCrash \in BOOLEAN /\ JournalFails \in BOOLEAN
ASSUME IdsAssumption == OtherIds \subseteq Ids /\ None \notin Ids

VARIABLES
    order,      \* the broker's orders, by id
    clock,      \* time left before place_by
    sold,       \* history: shares that orders of this call have traded
    flight,     \* the request on the wire: the id the broker has for it
    pc,         \* where execute() is awaiting
    protective, \* _is_protective(order): a MARKET SELL, else an entry (a BUY)
    attempt,    \* attempts of the exit loop
    filled,     \* shares the call has counted as filled
    used,       \* backoff_used
    limit,      \* the current request is a LIMIT (else MARKET)
    forceLimit, \* MARKET orders were refused as blocked
    before,     \* the book's ids read before the request was sent
    active,     \* run.active_id
    seen,       \* fill in the last view of the order being watched
    cxl,        \* the cancel loop: last answer, "due" before the first send
    handling,   \* _interrupted is running the cancel loop
    shielded,   \* that loop outlived a second CancelledError
    cancels,    \* CancelledErrors delivered so far
    alive,      \* the process runs
    open,       \* some piece of the result may still be working
    unconf,     \* some piece ended with an unknown fill
    reg,        \* OrderRegistry: TrackedOrder.state
    rep,        \* OrderRegistry: TrackedOrder.filled_reported
    confirmed,  \* OrderRegistry: confirmed exits (or buys) per order
    uncertain,  \* an UncertainPlacement is registered, and journalled unless that failed
    journal,    \* the last event the order journal holds for an order
    lost        \* history: some line of the journal was not written

brokerVars == <<order, sold>>
loopVars   == <<protective, attempt, filled, used, limit, forceLimit>>
requestVars == <<before, flight>>
endVars    == <<open, unconf>>
runVars    == <<loopVars, requestVars, endVars>>
watchVars  == <<active, seen, cxl>>
stopVars   == <<handling, shielded, cancels, alive>>
bookVars   == <<reg, rep, confirmed, uncertain, journal, lost>>
vars == <<brokerVars, clock, pc, runVars, watchVars, stopVars, bookVars>>

-----------------------------------------------------------------------------
(* Quantities and rows.                                                    *)

Unknown == -1                   \* Python's None where a quantity is expected
Qty == 0 .. Target
MaybeQty == Qty \cup {Unknown}

Larger(a, b)  == IF a >= b THEN a ELSE b
Smaller(a, b) == IF a <= b THEN a ELSE b

Live     == {"sent", "working"}
Terminal == {"filled", "ended", "lost"}   \* "ended": cancelled, rejected or expired

Absent == [st |-> "absent", qty |-> 0, done |-> 0, listed |-> FALSE, mine |-> FALSE]

\* What a read of order k may return: an older open view, or the final row, with its
\* traded quantity or without it.  CANCELLED and REJECTED are one status here; the
\* broker uses it for an order that traded only together with its traded quantity.
OpenRows(k) == [status : {"OPEN"}, traded : (0 .. k.done) \cup {Unknown}]
FinalRows(k) ==
    IF k.st = "filled" THEN [status : {"SUCCESS"}, traded : {Unknown, 0, k.done}]
    ELSE IF k.st # "ended" THEN {}
    ELSE IF k.done = 0 THEN [status : {"CANCELLED"}, traded : {Unknown, 0}]
    ELSE [status : {"PARTIAL"}, traded : {Unknown, 0, k.done}]
           \cup [status : {"CANCELLED"}, traded : {k.done}]
Rows(k) == (IF k.st \in {"working", "filled", "ended"} THEN OpenRows(k) ELSE {})
             \cup FinalRows(k)

\* The sum of GET /trades for order k, or Unknown when unreadable or empty
Fills(k) == IF k.done = 0 THEN {Unknown} ELSE {Unknown, k.done}

\* order_status.classify
Classify(row, requested) ==
    IF row.status = "SUCCESS" \/ row.traded >= requested THEN "FILLED"
    ELSE IF row.status = "PARTIAL" \/ (row.status = "CANCELLED" /\ row.traded > 0)
         THEN "PARTIAL_DONE"
    ELSE IF row.status = "CANCELLED" THEN "CANCELLED"
    ELSE "WORKING"

\* (mutant) a partial final row that reports nothing traded read as nothing traded
FilledQtyPartialIsZero(row, requested) ==
    IF row.traded >= 0 THEN Smaller(row.traded, requested)
    ELSE IF Classify(row, requested) = "FILLED" THEN requested
    ELSE IF Classify(row, requested) = "WORKING" THEN Unknown
    ELSE 0

\* OrderSnapshot.filled_qty: without a traded quantity only the status can answer, and
\* a partial final row that reports nothing traded contradicts itself
FilledQty(row, requested) ==
    LET state == Classify(row, requested) IN
    IF row.traded > 0 \/ (row.traded = 0 /\ state # "PARTIAL_DONE")
    THEN Smaller(row.traded, requested)
    ELSE IF state = "FILLED" THEN requested
    ELSE IF state = "CANCELLED" THEN 0
    ELSE Unknown

\* (mutant) the sources added up
FillDetailsSum(row, requested, fills) ==
    IF FilledQty(row, requested) = Unknown THEN fills
    ELSE Smaller(FilledQty(row, requested) + Larger(fills, 0), requested)

\* LiveOrderWorker._fill_details: the larger of the sources that answered
FillDetails(row, requested, fills) ==
    LET state == Classify(row, requested)
        known == Smaller(Larger(FilledQty(row, requested), fills), requested)
    IN  IF state = "CANCELLED" /\ row.traded = 0 THEN 0
        ELSE IF state = "FILLED" /\ known = 0 THEN Unknown
        ELSE IF state = "FILLED" /\ known = Unknown THEN requested
        ELSE known

-----------------------------------------------------------------------------
(* The broker, and somebody else who trades the same instrument.           *)

\* The request in flight reaches the broker, whether or not an answer comes back;
\* the order book lists it at once or later
Accept(o) ==
    /\ order[o].st = "sent"
    /\ \E shown \in BOOLEAN :
         order' = [order EXCEPT ![o].st = "working", ![o].listed = shown]
    /\ UNCHANGED <<sold, clock, pc, runVars, watchVars, stopVars, bookVars>>

List(o) ==
    /\ order[o].st \in {"working", "filled", "ended"} /\ ~order[o].listed
    /\ order' = [order EXCEPT ![o] = [order[o] EXCEPT !.listed = TRUE]]
    /\ UNCHANGED <<sold, clock, pc, runVars, watchVars, stopVars, bookVars>>

\* A request whose answer was unclear, or whose sender is gone, never arrived
Lose(o) ==
    /\ order[o].st = "sent" /\ (pc # "sent" \/ ~alive)
    /\ order' = [order EXCEPT ![o].st = "lost"]
    /\ UNCHANGED <<sold, clock, pc, runVars, watchVars, stopVars, bookVars>>

Trade(o) ==
    /\ order[o].st = "working"
    /\ \E n \in 1 .. (order[o].qty - order[o].done) :
         /\ order' = [order EXCEPT ![o] =
                [order[o] EXCEPT !.done = order[o].done + n,
                                 !.st = IF order[o].done + n = order[o].qty
                                        THEN "filled" ELSE "working"]]
         /\ sold' = IF order[o].mine THEN sold + n ELSE sold
    /\ UNCHANGED <<clock, pc, runVars, watchVars, stopVars, bookVars>>

\* Cancelled (by the worker's request, the user or the broker's risk checks),
\* rejected by the exchange, or expired: a cancel races the fills above
End(o) ==
    /\ order[o].st = "working"
    /\ order' = [order EXCEPT ![o].st = "ended"]
    /\ UNCHANGED <<sold, clock, pc, runVars, watchVars, stopVars, bookVars>>

\* Somebody else's order of the same instrument and side
OtherOrder(o) ==
    /\ o \in OtherIds /\ order[o].st = "absent"
    /\ \E q \in 1 .. Target :
         order' = [order EXCEPT ![o] = [st |-> "working", qty |-> q, done |-> 0,
                                        listed |-> TRUE, mine |-> FALSE]]
    /\ UNCHANGED <<sold, clock, pc, runVars, watchVars, stopVars, bookVars>>

\* OrderDeadlines: first a whole attempt no longer fits, then no order is placed.  The
\* close gets nearer, or arm_shutdown brings place_by forward: never back
Whole == 2
Tick ==
    /\ clock > 0
    /\ clock' = clock - 1
    /\ UNCHANGED <<brokerVars, pc, runVars, watchVars, stopVars, bookVars>>

Environment == Tick \/ \E o \in Ids : \/ Accept(o) \/ List(o) \/ Lose(o)
                                      \/ Trade(o) \/ End(o) \/ OtherOrder(o)

CanPlace == clock > 0            \* can_place()
CanAttempt == clock = Whole      \* can_place(ATTEMPT_OVERHEAD_S)

-----------------------------------------------------------------------------
(* The attempt loop and the placement.                                     *)

Awaiting(p) == alive /\ pc = p
Wanted == Target - filled
NoBook == [read |-> FALSE, ids |-> {}]
Listed == {o \in Ids : order[o].listed}

\* The loop test of _execute_exit, and the deadline test at its top
GoesOn == filled < Target /\ attempt < MaxAttempts /\ CanAttempt

NextAttempt ==
    /\ Awaiting("attempt")
    /\ \/ /\ GoesOn
          /\ attempt' = attempt + 1
          /\ pc' = IF attempt = 0 THEN "place" ELSE "recheck"
       \/ /\ ~GoesOn
          /\ pc' = "done"
          /\ UNCHANGED attempt
    /\ UNCHANGED <<brokerVars, clock, protective, filled, used, limit, forceLimit,
                   requestVars, endVars, watchVars, stopVars, bookVars>>

\* _sellable_now, then _reprice.  What is sellable is left open here (NoSecondSale of
\* SellGuard is about it): the remainder is covered, or it is not or cannot be read
Recheck ==
    /\ Awaiting("recheck")
    /\ \/ pc' = "done" /\ UNCHANGED limit
       \/ \E priced \in BOOLEAN :
            /\ limit' = priced
            /\ pc' = IF forceLimit /\ ~priced THEN "done" ELSE "place"
    /\ UNCHANGED <<brokerVars, clock, protective, attempt, filled, used, forceLimit,
                   requestVars, endVars, watchVars, stopVars, bookVars>>

\* _place up to its read of the order book
BeforePlacing ==
    /\ Awaiting("place")
    /\ pc' = IF CanPlace THEN "book" ELSE "done"
    /\ UNCHANGED <<brokerVars, clock, runVars, watchVars, stopVars, bookVars>>

\* The book's ids came back, as they were when it was read or cached, or could not be
\* read: the deadline is tested again, and the request is on the wire
Send ==
    /\ Awaiting("book")
    /\ \/ /\ CanPlace
          /\ before' \in {NoBook} \cup [read : {TRUE}, ids : SUBSET Listed]
          /\ \E o \in Ids \ OtherIds :
               /\ order[o].st = "absent"
               /\ order' = [order EXCEPT ![o] = [st |-> "sent", qty |-> Wanted, done |-> 0,
                                                 listed |-> FALSE, mine |-> TRUE]]
               /\ flight' = o
          /\ pc' = "sent"
       \/ /\ ~CanPlace
          /\ pc' = "done"
          /\ UNCHANGED <<order, requestVars>>
    /\ UNCHANGED <<sold, clock, loopVars, endVars, watchVars, stopVars, bookVars>>

\* OrderJournal.record, for the lines that make the journal say this: it swallows the error of
\* any that cannot be written (of these orders, or of the uncertain placement), after a warning
Journals(events) ==
    \/ journal' = events /\ UNCHANGED lost
    \/ /\ JournalFails /\ lost' = TRUE
       /\ \E failed \in SUBSET Ids :
            journal' = [o \in Ids |-> IF o \in failed THEN journal[o] ELSE events[o]]

\* _adopt: the worker watches order o as the one it placed
Adopt(o) ==
    /\ active' = o /\ seen' = Unknown /\ cxl' = "due"
    /\ reg' = [reg EXCEPT ![o] = "working"]
    /\ rep' = [rep EXCEPT ![o] = 0]
    /\ Journals([journal EXCEPT ![o] = "placed"])
    /\ flight' = None /\ before' = NoBook
    /\ pc' = "watch"
    /\ UNCHANGED <<brokerVars, clock, loopVars, endVars, stopVars, confirmed,
                   uncertain>>

\* POST answered with an order id
Answered ==
    /\ Awaiting("sent")
    /\ order[flight].st \in {"working", "filled", "ended"}
    /\ Adopt(flight)

\* POST refused: no order exists.  An entry reports it; an exit backs off, falls back
\* to MARKET, forces the next attempt to LIMIT, or gives up
AfterRefusal(kind) ==
    IF ~protective THEN "done"
    ELSE IF kind = "rate" /\ used < BackoffCap /\ CanPlace THEN "backoff"
    ELSE IF kind = "price" /\ limit THEN "place"
    ELSE IF kind = "marketBlocked" /\ ~limit THEN "attempt"
    ELSE "done"

Refused ==
    /\ Awaiting("sent")
    /\ order[flight].st = "sent"
    /\ \E kind \in {"rate", "price", "marketBlocked", "other"} :
         /\ pc' = AfterRefusal(kind)
         /\ limit' = (limit /\ pc' # "place")
         /\ forceLimit' = (forceLimit \/ pc' = "attempt")
    /\ order' = [order EXCEPT ![flight] = Absent]
    /\ flight' = None /\ before' = NoBook
    /\ UNCHANGED <<sold, clock, protective, attempt, filled, used, endVars, watchVars,
                   stopVars, bookVars>>

\* (mutant) the pause not counted
UsedAfterUncounted(delay) == used

\* _place_with_backoff: 1, 2, 4 s and so on, within what is left of the exit's cap
UsedAfter(delay) == used + delay

Backoff ==
    /\ Awaiting("backoff")
    /\ \E delay \in 1 .. (BackoffCap - used) : used' = UsedAfter(delay)
    /\ pc' = "place"
    /\ UNCHANGED <<brokerVars, clock, protective, attempt, filled, limit, forceLimit,
                   requestVars, endVars, watchVars, stopVars, bookVars>>

-----------------------------------------------------------------------------
(* An uncertain placement: _resolve_uncertain and _reconcile.              *)

\* No answer, a 5xx, a cut call, or an answer without an order id
Unclear ==
    /\ Awaiting("sent")
    /\ pc' = "reconcile"
    /\ UNCHANGED <<brokerVars, clock, runVars, watchVars, stopVars, bookVars>>

\* _could_be: a row of the book that is not known, not in the book before, of this size
Candidates ==
    {o \in Listed : reg[o] = "none" /\ order[o].qty = Wanted
                      /\ (before.read => o \notin before.ids)}

Tagged == IF Remarks THEN Listed \cap {flight} ELSE {}

Reconciled ==
    /\ Awaiting("reconcile")
    /\ \E o \in Ids :
         /\ Tagged = {o} \/ (Tagged = {} /\ before.read /\ Candidates = {o})
         /\ Adopt(o)

\* The window ends: without the book from before, a candidate that stayed alone in
\* every read is taken; otherwise the placement stays uncertain and is never re-sent
ReconcileEnds ==
    /\ Awaiting("reconcile")
    /\ \/ /\ ~before.read
          /\ \E o \in Candidates : Adopt(o)
       \/ /\ uncertain' = TRUE
          /\ open' = TRUE
          /\ flight' = None /\ before' = NoBook
          /\ pc' = "done"
          /\ Journals(journal)
          /\ UNCHANGED <<brokerVars, clock, loopVars, unconf, watchVars, stopVars, reg,
                         rep, confirmed>>

-----------------------------------------------------------------------------
(* Watching and cancelling: _confirm, _cancel_and_settle, _terminal.       *)

Reading == alive /\ (pc = "watch" \/ (pc = "cancel" /\ cxl # "due"))

\* A read finds the order working; a cancel that was "not found" is sent again
ReadOpen ==
    /\ Reading
    /\ \E row \in Rows(order[active]) :
         /\ Classify(row, order[active].qty) = "WORKING"
         /\ seen' = FilledQty(row, order[active].qty)
    /\ cxl' = IF cxl = "notFound" THEN "retry" ELSE cxl
    /\ UNCHANGED <<brokerVars, clock, pc, runVars, active, stopVars, bookVars>>

\* The fills a read that finds order o final can establish
FinalFills(o) ==
    {FillDetails(row, order[o].qty, fills) :
        row \in {r \in Rows(order[o]) : Classify(r, order[o].qty) # "WORKING"},
        fills \in Fills(order[o])}

\* (mutant) an unknown fill not reported as such
UnconfirmedNever(f) == FALSE

\* _finish: a finished piece without a fill makes the result unconfirmed
Unconfirmed(f) == f = Unknown

\* _terminal and _settled: the order is final with fill f; its part counts, and only a
\* known fill lets an exit go on to its next attempt
ReadFinal ==
    /\ Reading /\ ~handling
    /\ \E f \in FinalFills(active) :
         /\ unconf' = Unconfirmed(f)
         /\ filled' = IF f = Unknown THEN filled ELSE filled + f
         /\ rep' = IF f = Unknown THEN rep ELSE [rep EXCEPT ![active] = f]
         /\ confirmed' = [confirmed EXCEPT ![active] = Larger(@, f)]
         /\ pc' = IF protective /\ f # Unknown THEN "attempt" ELSE "done"
    /\ reg' = [reg EXCEPT ![active] = "final"]
    /\ Journals([journal EXCEPT ![active] = "final"])
    /\ active' = None /\ seen' = Unknown /\ cxl' = "due"
    /\ UNCHANGED <<brokerVars, clock, protective, attempt, used, limit, forceLimit,
                   requestVars, open, stopVars, uncertain>>

\* The fill (or attempt) window ends with the order still working, or unreadable
WatchEnds ==
    /\ Awaiting("watch")
    /\ pc' = "cancel" /\ cxl' = "due"
    /\ UNCHANGED <<brokerVars, clock, runVars, active, seen, stopVars, bookVars>>

\* _send_cancel: accepted or to be retried, not found (gone, done, or not registered
\* yet), or refused
SendCancel ==
    /\ Awaiting("cancel") /\ cxl \in {"due", "retry"}
    /\ cxl' \in {"retry", "notFound", "stop"}
    /\ UNCHANGED <<brokerVars, clock, pc, runVars, active, seen, stopVars, bookVars>>

\* (mutant) an exit goes on after a stuck order
AfterStuckGoesOn == IF protective THEN "attempt" ELSE "done"

\* A stuck order ends the loop
AfterStuck == "done"

\* The cancel window ends: the order is stuck, registered and journalled with what the
\* last read said it traded, and nothing is placed over it
CancelWindowEnds ==
    /\ Awaiting("cancel") /\ cxl # "due" /\ ~handling
    /\ filled' = IF seen = Unknown THEN filled ELSE filled + seen
    /\ rep' = IF seen = Unknown THEN rep ELSE [rep EXCEPT ![active] = seen]
    /\ confirmed' = [confirmed EXCEPT ![active] = Larger(@, seen)]
    /\ reg' = [reg EXCEPT ![active] = "stuck"]
    /\ Journals([journal EXCEPT ![active] = "stuck"])
    /\ open' = TRUE
    /\ pc' = AfterStuck
    /\ UNCHANGED <<brokerVars, clock, protective, attempt, used, limit, forceLimit,
                   requestVars, unconf, watchVars, stopVars, uncertain>>

-----------------------------------------------------------------------------
(* The caller's task is cancelled, an error escapes, or the process dies.  *)

Suspended == {"recheck", "book", "backoff", "sent", "reconcile", "watch", "cancel"}

\* (mutant) only the working order
UnreportedActiveOnly(x) == {o \in Ids : o = x}

\* The orders whose shares the caller will never hear of: the earlier pieces that
\* filled, and x, the order still watched (or None)
Unreported(x) == {o \in Ids : (reg[o] = "final" /\ rep[o] > 0) \/ o = x}

\* They go back into the registry, and into the journal, with nothing reported
HandOver(x, states, events) ==
    /\ reg' = [o \in Ids |-> IF o \in Unreported(x) /\ states[o] = "final"
                             THEN "interrupted" ELSE states[o]]
    /\ rep' = [o \in Ids |-> IF o \in Unreported(x) THEN 0 ELSE rep[o]]
    /\ Journals([o \in Ids |-> IF o \in Unreported(x) THEN "interrupted" ELSE events[o]])
    /\ pc' = "interrupted"
    /\ handling' = FALSE

\* (mutant) a request being looked up in the book forgotten
PlacingSentOnly == pc = "sent"

\* run.placing: a request is on the wire, or its order is being looked up
Placing == pc \in {"sent", "reconcile"}

\* CancelledError at an await.  With a working order, _interrupted first cancels and
\* settles it behind asyncio.shield; without one, a request still in flight is recorded
Cancelled ==
    /\ alive /\ pc \in Suspended /\ ~handling /\ cancels < MaxCancels
    /\ cancels' = cancels + 1
    /\ \/ /\ active # None
          /\ handling' = TRUE
          /\ pc' = "cancel" /\ cxl' = "due" /\ seen' = Unknown
          /\ UNCHANGED <<active, requestVars, bookVars>>
       \/ /\ active = None
          /\ HandOver(None, reg, journal)
          /\ uncertain' = (uncertain \/ Placing)
          /\ flight' = None /\ before' = NoBook
          /\ UNCHANGED <<watchVars, confirmed>>
    /\ UNCHANGED <<brokerVars, clock, loopVars, endVars, shielded, alive>>

\* The shielded cancel loop ended in time: the order is final, with its fill unreported
SettledLate ==
    /\ Reading /\ handling
    /\ \E f \in FinalFills(active) :
         HandOver(IF f = 0 THEN None ELSE active,
                  [reg EXCEPT ![active] = "final"], [journal EXCEPT ![active] = "final"])
    /\ UNCHANGED <<brokerVars, clock, runVars, watchVars, shielded, cancels, alive,
                   confirmed, uncertain>>

\* Or the order is stuck, or wait_for's timeout cut the loop before it said so
NotSettled ==
    /\ Awaiting("cancel") /\ cxl # "due" /\ handling
    /\ \E state \in {"working", "stuck"} :
         HandOver(active, [reg EXCEPT ![active] = state], journal)
    /\ UNCHANGED <<brokerVars, clock, runVars, watchVars, shielded, cancels, alive,
                   confirmed, uncertain>>

\* A second CancelledError ends the wait but not the shielded loop behind it
CancelledAgain ==
    /\ Awaiting("cancel") /\ handling /\ cancels < MaxCancels
    /\ cancels' = cancels + 1
    /\ shielded' = TRUE
    /\ HandOver(active, reg, journal)
    /\ UNCHANGED <<brokerVars, clock, runVars, watchVars, alive, confirmed, uncertain>>

\* That loop goes on alone: _terminal, the stuck ending, or wait_for's timeout
ShieldedEnds ==
    /\ alive /\ shielded
    /\ \/ /\ FinalFills(active) # {}
          /\ reg' = [reg EXCEPT ![active] = "final"]
          /\ Journals([journal EXCEPT ![active] = "final"])
       \/ /\ reg' = [reg EXCEPT ![active] = "stuck"]
          /\ Journals([journal EXCEPT ![active] = "stuck"])
       \/ UNCHANGED <<reg, journal, lost>>
    /\ shielded' = FALSE
    /\ UNCHANGED <<brokerVars, clock, pc, runVars, watchVars, handling, cancels, alive,
                   rep, confirmed, uncertain>>

\* _crashed: an order, or a request, that may be at the broker is reported open
WorkerError ==
    /\ alive /\ pc \in Suspended \ {"sent"} /\ ~handling
    /\ open' = (active # None \/ Placing)
    /\ uncertain' = (uncertain \/ Placing)
    /\ reg' = IF active = None THEN reg ELSE [reg EXCEPT ![active] = "stuck"]
    /\ Journals(IF active = None THEN journal ELSE [journal EXCEPT ![active] = "stuck"])
    /\ flight' = None /\ before' = NoBook
    /\ pc' = "done"
    /\ UNCHANGED <<brokerVars, clock, loopVars, unconf, watchVars, stopVars, rep,
                   confirmed>>

\* SIGKILL or a power failure: only the journal is left
Crash ==
    /\ MayCrash /\ alive
    /\ alive' = FALSE
    /\ UNCHANGED <<brokerVars, clock, pc, runVars, watchVars, handling, shielded,
                   cancels, bookVars>>

-----------------------------------------------------------------------------
Init ==
    /\ order = [o \in Ids |-> Absent]
    /\ clock = Whole /\ sold = 0
    /\ protective \in BOOLEAN
    /\ pc = IF protective THEN "attempt" ELSE "place"
    /\ attempt = 0 /\ filled = 0 /\ used = 0
    /\ limit = ~protective /\ forceLimit = FALSE
    /\ before = NoBook /\ flight = None
    /\ active = None /\ seen = Unknown /\ cxl = "due"
    /\ handling = FALSE /\ shielded = FALSE /\ cancels = 0 /\ alive = TRUE
    /\ open = FALSE /\ unconf = FALSE
    /\ reg = [o \in Ids |-> "none"]
    /\ rep = [o \in Ids |-> 0]
    /\ confirmed = [o \in Ids |-> 0]
    /\ uncertain = FALSE
    /\ journal = [o \in Ids |-> "none"] /\ lost = FALSE

Placement == \/ NextAttempt \/ Recheck \/ BeforePlacing \/ Send
             \/ Answered \/ Refused \/ Backoff
Reconciliation == Unclear \/ Reconciled \/ ReconcileEnds
Watching == ReadOpen \/ ReadFinal \/ WatchEnds \/ SendCancel \/ CancelWindowEnds
Interruption == \/ Cancelled \/ SettledLate \/ NotSettled \/ CancelledAgain
                \/ ShieldedEnds \/ WorkerError \/ Crash

Next == Environment \/ Placement \/ Reconciliation \/ Watching \/ Interruption

\* Every await of the worker ends: each broker call has a client timeout, each window a
\* clock.  Nothing is assumed of the broker
Fairness ==
    /\ WF_vars(NextAttempt) /\ WF_vars(Recheck) /\ WF_vars(BeforePlacing)
    /\ WF_vars(Send) /\ WF_vars(Answered \/ Refused \/ Unclear) /\ WF_vars(Backoff)
    /\ WF_vars(ReconcileEnds) /\ WF_vars(WatchEnds) /\ WF_vars(SendCancel)
    /\ WF_vars(CancelWindowEnds) /\ WF_vars(NotSettled)

Spec == Init /\ [][Next]_vars
FairSpec == Spec /\ Fairness

-----------------------------------------------------------------------------
(* Properties.                                                             *)

PCs == {"attempt", "recheck", "place", "book", "backoff", "sent", "reconcile", "watch",
        "cancel", "done", "interrupted"}
OrderStates == {"absent", "sent", "working", "filled", "ended", "lost"}
Orders == [st : OrderStates, qty : Qty, done : Qty, listed : BOOLEAN, mine : BOOLEAN]
RegStates == {"none", "working", "stuck", "interrupted", "final"}
Events == {"none", "placed", "stuck", "interrupted", "final"}

\* The type invariant; filled counts at most what was asked for
TypeOK ==
    /\ order \in [Ids -> Orders]
    /\ clock \in 0 .. Whole
    /\ sold \in Nat
    /\ flight \in Ids \cup {None}
    /\ pc \in PCs
    /\ protective \in BOOLEAN
    /\ attempt \in 0 .. MaxAttempts
    /\ filled \in Nat
    /\ used \in 0 .. BackoffCap
    /\ limit \in BOOLEAN /\ forceLimit \in BOOLEAN
    /\ before \in [read : BOOLEAN, ids : SUBSET Ids]
    /\ active \in Ids \cup {None}
    /\ seen \in MaybeQty
    /\ cxl \in {"due", "retry", "notFound", "stop"}
    /\ handling \in BOOLEAN /\ shielded \in BOOLEAN /\ alive \in BOOLEAN
    /\ cancels \in 0 .. MaxCancels
    /\ open \in BOOLEAN /\ unconf \in BOOLEAN
    /\ reg \in [Ids -> RegStates]
    /\ rep \in [Ids -> Qty]
    /\ confirmed \in [Ids -> Qty]
    /\ uncertain \in BOOLEAN /\ lost \in BOOLEAN
    /\ journal \in [Ids -> Events]

Mine == {o \in Ids : order[o].mine}
AtBroker == {o \in Mine : order[o].st # "lost"}

\* Whatever the reads miss, however late a lost request arrives, and whenever the call
\* is interrupted or killed: the orders of one exit never sell more than it was asked to
NoOversell == sold <= Target

\* The result never counts a share the broker has not traded for this call
NeverOverReports == filled <= sold

\* A result with no order open and no fill unknown is the whole truth: every order of
\* the call is finished at the broker, and what traded is what is reported
ResultIsExact ==
    pc = "done" /\ ~open /\ ~unconf =>
        filled = sold /\ \A o \in AtBroker : order[o].st \in Terminal

\* What the caller was told that order o traded: an interrupted call returns no result
Told(o) == IF pc = "interrupted" THEN 0 ELSE rep[o]

\* What is still working, or traded more than the caller was told, can be found again
Kept ==
    \A o \in AtBroker :
        order[o].st \in Live \/ order[o].done > Told(o) =>
            \/ reg[o] \in {"working", "stuck", "interrupted"}
                 /\ (lost \/ journal[o] \in {"placed", "stuck", "interrupted"})
            \/ reg[o] = "none" /\ uncertain
            \/ reg[o] = "final" /\ pc = "done" /\ unconf

\* When the call is over, every order of it that is still working, or that traded more
\* than its caller was told, is left where a resync or CLOSING finds it: unresolved in
\* the registry and, unless a line of it could not be written, in the journal, or as the
\* uncertain placement; a final order whose fill the broker did not give is reported as
\* unconfirmed.  (Not so after a second
\* CancelledError: docs/trading/live-trading.md:135 says those fills are never lost, but the
\* shielded loop that _interrupted stopped waiting for may make the order final unseen)
NothingForgotten ==
    alive /\ cancels <= 1 /\ pc \in {"done", "interrupted"} => Kept

\* A kill at any await except that of the placement itself (its answer, or its look-up
\* in the book) leaves every order of the call in the journal, if all its lines were written
JournalKnowsOrders ==
    pc \notin {"sent", "reconcile"} /\ ~lost =>
        \A o \in AtBroker : journal[o] # "none" \/ uncertain

\* I3 and I4: a new order is sent only when every earlier order of the call is finished
\* at the broker, not merely believed to be
NoOrderOverAnOpenOne ==
    [][\A o \in Ids : order[o].st = "absent" /\ order'[o].st = "sent" =>
          \A p \in AtBroker : order[p].st \in Terminal]_vars

\* Every call ends, whatever the broker answers, as long as each await ends
CallEnds == <>(pc \in {"done", "interrupted"} \/ ~alive)

=============================================================================
