--------------------------------- MODULE Daemon ---------------------------------
(***************************************************************************)
(* One live session of `skopaq daemon` (`TradingDaemon.run_session`): its  *)
(* phases, the BUYs it sends, MONITORING and its restarts, CLOSING's       *)
(* passes, and what it tells the operator at the end.                      *)
(*                                                                         *)
(* A symbol is one lot: held or not, whoever bought it.  The account may   *)
(* hold positions of the day before the session starts, and others may     *)
(* trade in it (`skopaq trade`, somebody by hand).  What the order worker  *)
(* does with an order (LiveOrders), the sell guard refuses (SellGuard) and *)
(* the monitor does meanwhile (PositionMonitor) is seen by its outcome     *)
(* only: an order fills, falls short, or stays at the broker unresolved.   *)
(* The session implements the contract the scheduler relies on (Child).    *)
(***************************************************************************)
EXTENDS Integers, FiniteSets

CONSTANTS
    Symbols,        \* the scanner's candidates
    Others,         \* bound: those of them that others trade in
    MaxTrades,      \* what max_trades may be
    Restarts,       \* _MONITOR_RESTARTS
    Day,            \* bound: time, in exit attempts, before the last order time
    EodLeft,        \* the EOD exit is due when so many are left
    StopLeft        \* what a stop leaves (shutdown_budget_seconds)

ASSUME SymbolsAssumption == IsFiniteSet(Symbols) /\ Others \subseteq Symbols
ASSUME TimesAssumption ==
    /\ IsFiniteSet(MaxTrades) /\ MaxTrades \subseteq Nat /\ Restarts \in Nat
    /\ Day \in Nat /\ EodLeft \in 0 .. Day /\ StopLeft \in 0 .. Day

VARIABLES
    \* the broker
    net,        \* symbols held as positions of the day
    mine,       \* (ghost) those of them a BUY of this session's has got
    shown,      \* those of them positions show
    buy,        \* our unconfirmed BUYs: "none", "open", "ended" (not read yet)
    stuck,      \* symbols an open SELL of this session's covers (a resume can cancel it)
    other,      \* symbols covered by an open SELL that no resume may cancel
    left,       \* exit attempts that fit before the last order time
    \* the session
    phase, step, stop,
    todo,       \* candidates not analyzed yet
    bought,     \* symbols bought, in full or in part, or left unconfirmed
    known,      \* those of which the broker has confirmed shares
    max,        \* max_trades
    placed,     \* buys_placed
    restarts,
    cleared,    \* the last monitor run said nothing is left
    second,     \* CLOSING is past its first pass
    targets,    \* what the pass still has to sell
    blocked,    \* own_blocked: a stuck exit covers a position
    short,      \* the pass fell short: an exit, or a BUY not shown yet
    rate,       \* an exit was refused for the order rate
    told,       \* the alert at the end: something is left, or nothing could be read
    failed, rc

brokerVars == <<net, mine, shown, buy, stuck, other>>
tradeVars  == <<todo, bought, known, max, placed>>
monVars    == <<restarts, cleared>>
passVars   == <<second, targets, blocked, short, rate>>
endVars    == <<told, failed, rc>>
vars == <<brokerVars, left, phase, step, stop, tradeVars, monVars, passVars, endVars>>

Phases == {"pre_open", "scanning", "analyzing", "monitoring", "closing", "reporting", "over"}
Steps == {"start", "analysis", "loop", "resume", "read", "sell", "final"}

TypeOK ==
    /\ net \subseteq Symbols /\ mine \subseteq net
    /\ shown \subseteq Symbols /\ other \subseteq Others
    /\ buy \in [Symbols -> {"none", "open", "ended"}] /\ stuck \subseteq net
    /\ left \in 0 .. Day
    /\ phase \in Phases /\ step \in Steps /\ stop \in BOOLEAN
    /\ todo \subseteq Symbols /\ bought \subseteq Symbols
    /\ known \subseteq bought /\ max \in MaxTrades /\ placed \in 0 .. max
    /\ restarts \in 0 .. Restarts /\ cleared \in BOOLEAN
    /\ second \in BOOLEAN /\ targets \subseteq Symbols /\ blocked \in BOOLEAN
    /\ short \in BOOLEAN /\ rate \in BOOLEAN
    /\ told \in BOOLEAN /\ failed \in BOOLEAN /\ rc \in {"none", "ok", "preopen", "error"}

\* Positions of the day may be there already: of an earlier session, or bought by hand
Init ==
    /\ net \in SUBSET Others /\ shown = net
    /\ mine = {} /\ stuck = {} /\ other = {}
    /\ buy = [s \in Symbols |-> "none"]
    /\ left = Day
    /\ phase = "pre_open" /\ step = "start" /\ stop = FALSE
    /\ todo = {} /\ bought = {} /\ known = {} /\ placed = 0
    /\ max \in MaxTrades
    /\ restarts = 0 /\ cleared = FALSE
    /\ second = FALSE /\ targets = {} /\ blocked = FALSE /\ short = FALSE /\ rate = FALSE
    /\ told = FALSE /\ failed = FALSE /\ rc = "none"

\* (mutant) the deadline is not looked at
CanPlaceAlways(attempts) == attempts >= 0

CanPlace(attempts) == left > attempts

-----------------------------------------------------------------------------
(* The broker, the clock, the scheduler's SIGTERM. *)

\* Shares a BUY of ours has got: positions show them now, or later
Got(s) ==
    /\ net' = net \cup {s} /\ mine' = mine \cup {s}
    /\ shown' \in {shown, shown \cup {s}}

BuyEnds(s) ==
    /\ buy[s] = "open" /\ buy' = [buy EXCEPT ![s] = "ended"]
    /\ \/ UNCHANGED <<net, mine, shown>>
       \/ Got(s)
    /\ UNCHANGED <<stuck, other>>

Sold(s) == net' = net \ {s} /\ mine' = mine \ {s} /\ shown' = shown \ {s}

SellFills(s) ==
    /\ s \in stuck \cup other /\ Sold(s)
    /\ stuck' = stuck \ {s} /\ other' = other \ {s}
    /\ UNCHANGED buy

\* Somebody sells at the broker, or an order there only looks like ours
OtherSells(s) ==
    /\ s \in (net \cap Others) \ (stuck \cup other)
    /\ other' = other \cup {s}
    /\ UNCHANGED <<net, mine, shown, buy, stuck>>

\* Somebody bought, by `skopaq trade` or by hand, and positions show it now
OtherBuys(s) ==
    /\ s \in Others \ net /\ net' = net \cup {s} /\ shown' = shown \cup {s}
    /\ UNCHANGED <<mine, buy, stuck, other>>

Shows(s) ==
    /\ s \in net \ shown /\ shown' = shown \cup {s}
    /\ UNCHANGED <<net, mine, buy, stuck, other>>

Broker ==
    /\ phase \in {"analyzing", "monitoring", "closing"}
    /\ \E s \in Symbols :
         BuyEnds(s) \/ SellFills(s) \/ OtherSells(s) \/ OtherBuys(s) \/ Shows(s)
    /\ UNCHANGED <<left, phase, step, stop, tradeVars, monVars, passVars, endVars>>

Tick ==
    /\ phase # "over" /\ left > 0 /\ left' = left - 1
    /\ UNCHANGED <<brokerVars, phase, step, stop, tradeVars, monVars, passVars, endVars>>

Sooner(a, b) == IF a < b THEN a ELSE b

\* Before PRE_OPEN is over there is no router to arm
Stops ==
    /\ ~stop /\ phase # "over" /\ stop' = TRUE
    /\ left' = IF phase = "pre_open" THEN left ELSE Sooner(left, StopLeft)
    /\ UNCHANGED <<brokerVars, phase, step, tradeVars, monVars, passVars, endVars>>

-----------------------------------------------------------------------------
(* PRE_OPEN, SCANNING, ANALYZING. *)

Goes(p, s) == phase' = p /\ step' = s

PreOpen ==
    /\ phase = "pre_open"
    /\ \/ /\ phase' \in {"scanning", "reporting"}       \* "reporting": trading is halted
          /\ left' = IF stop THEN Sooner(left, StopLeft) ELSE left
          /\ UNCHANGED failed
       \/ phase' = "reporting" /\ failed' = TRUE /\ UNCHANGED left
    /\ rc' = IF failed' THEN "preopen" ELSE rc
    /\ UNCHANGED <<brokerVars, step, stop, tradeVars, monVars, passVars, told>>

\* No candidates (or none left after a failure), or a stop: nothing to trade
Scan ==
    /\ phase = "scanning"
    /\ \/ ~stop /\ todo' \in SUBSET Symbols \ {{}} /\ Goes("analyzing", "start")
       \/ Goes("reporting", "start") /\ UNCHANGED todo
    /\ UNCHANGED <<brokerVars, left, stop, bought, known, max, placed, monVars, passVars,
                   endVars>>

SlotFree == placed < max

\* A halt ends the analysis as a stop does
Analyzes ==
    /\ phase = "analyzing" /\ step = "start"
    /\ ~stop /\ SlotFree /\ todo # {}
    /\ step' = "analysis"
    /\ UNCHANGED <<brokerVars, left, phase, stop, tradeVars, monVars, passVars, endVars>>

\* HOLD, an error, an order refused, or rejected by the broker
NoTrade(s) ==
    /\ todo' = todo \ {s} /\ UNCHANGED <<brokerVars, bought, known, placed>>

\* (mutant) a BUY the broker did not confirm uses no trade slot
SlotsOfConfirmed(unclear) == IF unclear THEN placed ELSE placed + 1

Slots(unclear) == placed + 1

\* Filled; filled in part, the rest unconfirmed; or unconfirmed
Buys(s) ==
    /\ left > 0 /\ todo' = todo \ {s} /\ bought' = bought \cup {s}
    /\ \/ /\ Got(s)
          /\ buy' \in {buy, [buy EXCEPT ![s] = "open"]}
          /\ placed' = Slots(FALSE) /\ known' = known \cup {s}
       \/ /\ buy' = [buy EXCEPT ![s] = "open"]
          /\ placed' = Slots(TRUE)
          /\ UNCHANGED <<net, mine, shown, known>>
    /\ UNCHANGED <<stuck, other>>

\* A SELL signal for what is held: sold, or its order is left at the broker.  The session does
\* not look at how it ended
Sells(s) ==
    /\ left > 0 /\ todo' = todo \ {s}
    /\ s \in shown \ (stuck \cup other)
    /\ \/ Sold(s) /\ UNCHANGED stuck
       \/ stuck' = stuck \cup {s} /\ UNCHANGED <<net, mine, shown>>
    /\ UNCHANGED <<buy, other, bought, known, placed>>

Analyzed ==
    /\ phase = "analyzing" /\ step = "analysis" /\ step' = "start"
    /\ \E s \in todo : NoTrade(s) \/ Buys(s) \/ Sells(s)
    /\ UNCHANGED <<left, phase, stop, max, monVars, passVars, endVars>>

\* (mutant) only a confirmed BUY is looked after
LookedAfterIfKnown == known # {}

LookedAfter == bought # {}

Forget == todo' = {} /\ placed' = 0 /\ UNCHANGED <<bought, known, max>>

\* run_session: MONITORING only for a BUY, also an unconfirmed one.  A stop before any ends the
\* session; with neither, CLOSING runs at once, on whatever the account holds
AnalysisEnds ==
    /\ phase = "analyzing" /\ step = "start"
    /\ IF LookedAfter THEN Goes("monitoring", "start")
       ELSE IF stop THEN Goes("reporting", "start") ELSE Goes("closing", "loop")
    /\ Forget /\ UNCHANGED <<brokerVars, left, stop, monVars, passVars, endVars>>

-----------------------------------------------------------------------------
(* MONITORING. *)

Unresolved == stuck \cup {s \in Symbols : buy[s] # "none"}

\* A resume cancels what is still open, and finds it final: what a BUY got is confirmed now
FoundFinal(orders) ==
    /\ orders \subseteq Unresolved
    /\ buy' = [s \in Symbols |-> IF s \in orders THEN "none" ELSE buy[s]]
    /\ stuck' = stuck \ orders
    /\ known' = known \cup (orders \cap mine)

\* Its exits sell, or leave an order; its resumes find orders final
MonitorWorks ==
    /\ phase = "monitoring"
    /\ \E s \in Symbols :
         \/ /\ s \in shown \ (stuck \cup other) /\ left > 0
            /\ \/ Sold(s) /\ UNCHANGED stuck
               \/ stuck' = stuck \cup {s} /\ UNCHANGED <<net, mine, shown>>
            /\ UNCHANGED <<buy, known>>
         \/ FoundFinal({s}) /\ UNCHANGED <<net, mine, shown>>
    /\ UNCHANGED <<other, left, phase, step, stop, todo, bought, max, placed, monVars, passVars,
                   endVars>>

\* (mutant) a monitor that ended in the middle of the day is not started again
MonitorAgainNever(positions) == restarts < 0 /\ positions # {}

\* _monitor_again
MonitorAgain(positions) ==
    restarts < Restarts /\ positions # {} /\ ~stop /\ CanPlace(0) /\ left > EodLeft

\* It ends by a stop, after the close, or as soon as its reads show nothing (they may have been
\* wrong); what it says is left comes from its last reads, which may have been wrong too
MonitorEnds ==
    /\ phase = "monitoring"
    /\ \E positions \in SUBSET Symbols :
         IF MonitorAgain(positions)
         THEN restarts' = restarts + 1 /\ UNCHANGED <<phase, step, cleared>>
         ELSE UNCHANGED restarts /\ Goes("closing", "loop") /\ cleared' = (positions = {})
    /\ UNCHANGED <<brokerVars, left, stop, tradeVars, passVars, endVars>>

\* An exception (the monitor's first read, say): CLOSING runs if anything may be held
SessionFails ==
    /\ phase \in {"analyzing", "monitoring"} /\ step = "start"
    /\ failed' = TRUE /\ rc' = "error"
    /\ IF LookedAfter THEN Goes("closing", "loop") ELSE Goes("reporting", "start")
    /\ Forget /\ UNCHANGED <<brokerVars, left, stop, monVars, passVars, told>>

-----------------------------------------------------------------------------
(* CLOSING: _phase_close_live. *)

At(s) == phase = "closing" /\ step = s

PassBegins ==
    /\ At("loop") /\ step' = IF CanPlace(0) THEN "resume" ELSE "final"
    /\ UNCHANGED <<brokerVars, left, phase, stop, tradeVars, monVars, passVars, endVars>>

\* resume_orders: each found final, or left as it was
Resumes ==
    /\ At("resume") /\ step' = "read"
    /\ \E final \in SUBSET Unresolved : FoundFinal(final)
    /\ UNCHANGED <<net, mine, shown, other, left, phase, stop, todo, bought, max, placed, monVars,
                   passVars, endVars>>

Unshown == (mine \ shown) \cap known

\* One snapshot: what can be sold, what our own SELL still covers, what is not shown yet.
\* What only somebody else's SELL covers is alerted
BookRead ==
    /\ blocked' = (shown \cap stuck # {})
    /\ targets' = shown \ (stuck \cup other)
    /\ short' = (Unshown # {})

\* The order book of the snapshot could not be read: everything held is tried, the check of
\* each SELL reads the book again; only an own SELL placed lately still shows as one, and what
\* was bought and sold again counts as not shown
BookFails ==
    /\ blocked' \in {FALSE, shown \cap stuck # {}}
    /\ targets' = shown
    /\ short' = (known \ shown # {})

PassReads ==
    /\ At("read")
    /\ BookRead \/ BookFails
    /\ rate' = FALSE
    /\ step' = IF targets' = {} /\ ~short' /\ ~blocked' THEN "final" ELSE "sell"
    /\ UNCHANGED <<brokerVars, left, phase, stop, tradeVars, monVars, second, endVars>>

ReadFails ==
    /\ At("read") /\ step' = "final"
    /\ UNCHANGED <<brokerVars, left, phase, stop, tradeVars, monVars, passVars, endVars>>

\* _close_one: the exits run at once.  Sold; left at the broker; not filled, refused (an open
\* SELL covers it, the book cannot be read), or refused by the orders-per-minute rule
CloseOne(s) ==
    /\ At("sell") /\ s \in targets /\ targets' = targets \ {s}
    /\ \/ /\ s \in net \ (stuck \cup other) /\ left > 0
          /\ \/ Sold(s) /\ UNCHANGED <<stuck, short>>
             \/ /\ stuck' = stuck \cup {s} /\ short' = TRUE
                /\ UNCHANGED <<net, mine, shown>>
          /\ UNCHANGED rate
       \/ /\ short' = TRUE /\ rate' \in {rate, TRUE}
          /\ UNCHANGED <<net, mine, shown, stuck>>
    /\ UNCHANGED <<buy, other, left, phase, step, stop, tradeVars, monVars, second, blocked,
                   endVars>>

\* _order_rate_wait: none if the rule's window has room again by the end of the pass
Waits == IF rate THEN {0, 1} ELSE {0}

\* Another pass after the first; further ones for a stuck exit, or to wait for the order rate
PassEnds ==
    /\ At("sell") /\ targets = {}
    /\ \E wait \in Waits :
         IF /\ short \/ blocked
            /\ ~second \/ blocked \/ wait > 0
            /\ CanPlace(1 + wait)
         THEN step' = "loop" /\ second' = TRUE /\ left' = left - wait
         ELSE step' = "final" /\ UNCHANGED <<second, left>>
    /\ blocked' = FALSE /\ short' = FALSE /\ rate' = FALSE
    /\ UNCHANGED <<brokerVars, phase, stop, tradeVars, monVars, targets, endVars>>

ForgetPass ==
    /\ second' = FALSE /\ targets' = {} /\ blocked' = FALSE /\ short' = FALSE /\ rate' = FALSE

\* _closing_final_state
FinalState ==
    /\ At("final") /\ Goes("reporting", "start")
    /\ \/ told' = (shown \cup Unshown \cup Unresolved # {})
       \/ told' = TRUE        \* it could not be read
    /\ ForgetPass /\ UNCHANGED <<brokerVars, left, stop, tradeVars, monVars, failed, rc>>

\* An exception in CLOSING ends the session
ClosingFails ==
    /\ phase = "closing" /\ Goes("reporting", "start") /\ failed' = TRUE /\ rc' = "error"
    /\ ForgetPass /\ UNCHANGED <<brokerVars, left, stop, tradeVars, monVars, told>>

\* REPORTING: recordings and alerts are drained
Report ==
    /\ phase = "reporting" /\ phase' = "over"
    /\ rc' = IF failed THEN rc ELSE "ok"
    /\ UNCHANGED <<brokerVars, left, step, stop, tradeVars, monVars, passVars, told, failed>>

-----------------------------------------------------------------------------
Close ==
    \/ PassBegins \/ Resumes \/ PassReads \/ ReadFails \/ PassEnds \/ FinalState
    \/ \E s \in Symbols : CloseOne(s)

Session == PreOpen \/ Scan \/ Analyzes \/ Analyzed \/ AnalysisEnds \/ Close \/ Report

Next ==
    \/ Broker \/ Tick \/ Stops
    \/ Session \/ MonitorWorks \/ MonitorEnds \/ SessionFails \/ ClosingFails

\* Every await of the session ends, and time passes.  A monitor that is stopped, or past the
\* close, ends (PositionMonitor!StopEnds)
Fairness ==
    /\ WF_vars(Session) /\ WF_vars(Tick)
    /\ WF_vars(MonitorEnds /\ (stop \/ left = 0))

Spec == Init /\ [][Next]_vars /\ Fairness

-----------------------------------------------------------------------------
(* Properties. *)

\* Bought by this session and still held, or a BUY that may still fill
Exposed == {s \in Symbols : s \in mine \/ buy[s] = "open"}

Contract == INSTANCE Child WITH
    kind <- "daemon",
    st <- IF phase = "over" THEN "ended" ELSE "running",
    began <- phase # "pre_open" /\ rc # "preopen",
    rc <- IF phase = "over" THEN rc ELSE "none",
    term <- stop,
    exposed <- Exposed # {},
    told <- told

\* The session is what the scheduler takes it for: it trades only after PRE_OPEN, its rc 3 means
\* that nothing was traded, and a session that ends well has sold what it bought or has told the
\* operator to look
KeepsContract == Contract!SessionSpec

\* An unconfirmed BUY may have filled: whatever the broker answers, at most max_trades symbols
\* can have been bought in a session
TradeCap == Cardinality(bought) <= max

ClosingSells == phase = "closing" /\ targets' # targets /\ net' # net

\* A session that has bought something leaves what it and others hold to the monitor: in the
\* middle of the day CLOSING sells at MARKET only after a stop, a failure, or a monitor that has
\* ended too often or says nothing is held.  (One that has bought nothing is not monitored: its
\* CLOSING sells at once the positions of the day it finds)
NoMiddaySale ==
    [][ClosingSells /\ left > EodLeft /\ bought # {} =>
         stop \/ failed \/ restarts = Restarts \/ cleared]_vars

\* However often exits get stuck or are refused, the session ends
SessionEnds == <>(phase = "over")
=============================================================================
