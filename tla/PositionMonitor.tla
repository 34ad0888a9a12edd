---------------------------- MODULE PositionMonitor ----------------------------
(***************************************************************************)
(* `PositionMonitor._run_live`, for one instrument: the loop that protects *)
(* the day's position, the exits it runs as tasks, the resumes of orders   *)
(* nobody works any more, and the resync that tells it what is still held. *)
(*                                                                         *)
(* What it knows comes from reads that may lag (a fill, a BUY), fail, or   *)
(* be plainly wrong: positions without the instrument's row.  Book and     *)
(* positions are two reads; exits, resumes and the broker go on between    *)
(* them.  What an exit may sell is SellGuard's subject, how it is sold     *)
(* LiveOrders': here an exit is sent if the shares are there, fills some,  *)
(* and is reported exactly, or as less, with its order left unresolved.    *)
(***************************************************************************)
EXTENDS Integers, FiniteSetsExt, Functions

CONSTANTS
    SellIds,        \* Skopaq's SELL orders that may be unresolved at one time
    HeldAtStart,    \* what the day's position may hold at the start
    MaxWrong,       \* bound: wrong positions reads in a row
    SellOnStop      \* {TRUE}: `skopaq monitor`; {FALSE}: inside the daemon

ASSUME SellIdsAssumption == IsFiniteSet(SellIds) /\ SellIds # {}
ASSUME HeldAssumption == HeldAtStart \subseteq Nat /\ IsFiniteSet(HeldAtStart)
ASSUME MaxWrongAssumption == MaxWrong \in Nat
ASSUME SellOnStopAssumption == SellOnStop \subseteq BOOLEAN

VARIABLES
    \* the broker
    net, soldToday, boughtToday,    \* the day's CNC position; shares sold and bought today
    positions,          \* what positions show of the three: they lag behind
    foreign,            \* open SELL of somebody else
    sellOrder,          \* our SELLs: who works each, and what is still open of it
    buy,                \* a BUY the broker has not confirmed yet
    \* the process
    stage,              \* where the loop is
    stop,               \* a stop has arrived
    clock,              \* "day", "eod" (EOD exit due), "last" (nothing is placed, after 15:29:55
                        \* or the shutdown deadline), "closed"
    pos,                \* the tracked position, or Untracked
    exit,               \* its exit task
    deferred,           \* orders of other processes that may still work them
    known,              \* shares in confirmed BUYs (registry and journal)
    unshown,            \* some of them are not shown by positions
    standalone,         \* sell_on_stop
    rc,                 \* how it ended
    wrong, blind,       \* for the properties: wrong reads in a row; the final one failed after
    shared              \* a wrong one; a SELL other than the exit of the moment has filled

brokerVars == <<net, soldToday, boughtToday, positions, foreign>>
envVars    == <<stop, clock, standalone>>
knowVars   == <<deferred, known, unshown>>
ghostVars  == <<wrong, blind, shared>>
monitorVars == <<brokerVars, sellOrder, buy, stage, envVars, pos, exit, knowVars, rc, ghostVars>>

\* Who works an order an exit has left: nobody (no order), another process (its line says so,
\* or is too young to tell), nobody any more ("stale"), or the registry
Workers == {"free", "other", "stale", "unresolved"}
Untracked == [q |-> -1, zero |-> 0, seen |-> 0, pending |-> FALSE]
NoExit == [st |-> "none", ask |-> 0]
FirstId == CHOOSE i \in SellIds : TRUE

Top == CHOOSE h \in HeldAtStart : \A g \in HeldAtStart : g <= h
DayQty == 0 .. Top + 1

MonitorTypeOK ==
    /\ net \in DayQty /\ soldToday \in DayQty /\ boughtToday \in DayQty /\ foreign \in 0 .. 1
    /\ positions \in [net : DayQty, sold : DayQty, bought : DayQty]
    /\ sellOrder \in [SellIds -> [by : Workers, open : DayQty]]
    /\ buy \in {"none", "open", "filled", "dead", "final"}
    /\ stage \in {"start", "first", "confirm", "due", "shutdown"} \cup
              {"top", "confirmed", "check", "settle", "abandoned", "shutting", "selling", "final",
               "ended"}
    /\ stop \in BOOLEAN /\ standalone \in SellOnStop
    /\ clock \in {"day", "eod", "last", "closed"}
    /\ pos = Untracked \/
       pos \in [q : DayQty, zero : 0 .. 1, seen : DayQty, pending : BOOLEAN]
    /\ exit \in [st : {"none", "working", "sold", "short"}, ask : DayQty]
    /\ deferred \in BOOLEAN
    /\ known \in DayQty /\ unshown \in BOOLEAN
    /\ rc \in {"none", "ok", "left", "error"}
    /\ wrong \in 0 .. MaxWrong /\ blind \in BOOLEAN /\ shared \in BOOLEAN


OwnSellsOpen == SumFunction([i \in SellIds |-> sellOrder[i].open])

\* The day so far: a position, bought today (known in the journal, or not), all shown; perhaps
\* an order of another process that is alive, or that has left it open, and a BUY of ours
MonitorInit ==
    /\ net \in HeldAtStart /\ soldToday = 0 /\ boughtToday = net
    /\ positions = [net |-> net, sold |-> 0, bought |-> net]
    /\ foreign \in 0 .. 1
    /\ sellOrder \in {[i \in SellIds |-> [by |-> IF i = FirstId THEN by ELSE "free",
                                         open |-> IF i = FirstId /\ by # "free" THEN 1 ELSE 0]] :
                      by \in {"free", "other", "stale"}}
    /\ sellOrder[FirstId].open + foreign <= net
    /\ buy \in {"none", "open"}
    /\ foreign = 0 \/ OwnSellsOpen = 0
    /\ buy = "open" => net = 0
    /\ stage = "start"
    /\ stop = FALSE /\ clock = "day" /\ standalone \in SellOnStop
    /\ pos = Untracked /\ exit = NoExit
    /\ deferred = FALSE /\ unshown = FALSE
    /\ known = net \/ (known = 0 /\ OwnSellsOpen + foreign = 0)
    /\ rc = "none"
    /\ wrong = 0 /\ blind = FALSE /\ shared = (OwnSellsOpen + foreign > 0)

-----------------------------------------------------------------------------
(* The broker, the clock, the other processes. *)

Trades(i) ==
    /\ sellOrder[i].open > 0 /\ net > 0
    /\ net' = net - 1 /\ soldToday' = soldToday + 1
    /\ sellOrder' = [sellOrder EXCEPT ![i].open = @ - 1]
    /\ UNCHANGED <<boughtToday, positions, foreign, buy, stage, envVars, pos, exit, knowVars, rc,
                   ghostVars>>

ForeignSells ==
    /\ foreign > 0 /\ net > 0
    /\ net' = net - 1 /\ soldToday' = soldToday + 1 /\ foreign' = 0 /\ shared' = TRUE
    /\ UNCHANGED <<boughtToday, positions, sellOrder, buy, stage, envVars, pos, exit, knowVars, rc,
                   wrong, blind>>

BuyEnds ==
    /\ buy = "open"
    /\ \/ buy' = "filled" /\ net' = net + 1 /\ boughtToday' = boughtToday + 1
       \/ buy' = "dead" /\ UNCHANGED <<net, boughtToday>>
    /\ UNCHANGED <<soldToday, positions, foreign, sellOrder, stage, envVars, pos, exit, knowVars,
                   rc, ghostVars>>

Truth == [net |-> net, sold |-> soldToday, bought |-> boughtToday]
CatchesUp ==
    /\ positions # Truth
    /\ positions' = Truth
    /\ UNCHANGED <<net, soldToday, boughtToday, foreign, sellOrder, buy, stage, envVars, pos, exit,
                   knowVars, rc, ghostVars>>

\* Another process ends its order, or leaves it, or has been dead for longer than execute()
\* may take
Other(i) ==
    /\ sellOrder[i].by = "other"
    /\ \/ sellOrder' = [sellOrder EXCEPT ![i] = [by |-> "free", open |-> 0]]
       \/ sellOrder' = [sellOrder EXCEPT ![i].by = "stale"]
    /\ UNCHANGED <<brokerVars, buy, stage, envVars, pos, exit, knowVars, rc, ghostVars>>

Passes ==
    /\ clock # "closed"
    /\ \/ clock' = CASE clock = "day" -> "eod" [] clock = "eod" -> "last" [] OTHER -> "closed"
       \/ stop /\ clock = "day" /\ clock' = "last"
    /\ UNCHANGED <<brokerVars, sellOrder, buy, stage, stop, standalone, pos, exit, knowVars, rc,
                   ghostVars>>

Stops ==
    /\ ~stop /\ stop' = TRUE
    /\ UNCHANGED <<brokerVars, sellOrder, buy, stage, clock, standalone, pos, exit, knowVars, rc,
                   ghostVars>>

CanPlace == clock \in {"day", "eod"}

-----------------------------------------------------------------------------
(* The exit task: its worker, and what is counted of its answer. *)

\* (mutant) what an exit sold is not counted as seen
CountedUnseen(p, filled, unclear) ==
    [p EXCEPT !.q = @ - filled, !.pending = @ \/ unclear]

\* _execute_sell: what the broker confirmed is out of the quantity, and proves no drop
CountedExit(p, filled, unclear) ==
    [p EXCEPT !.q = @ - filled, !.seen = @ + filled, !.pending = @ \/ unclear]

Reports(filled, unclear) ==
    /\ pos' = CountedExit(pos, filled, unclear)
    /\ exit' = [st |-> IF filled > 0 /\ filled = exit.ask THEN "sold" ELSE "short", ask |-> 0]

\* An order of the exit stays at the broker, with at most so many shares open of those held
Leaves(rest, held) ==
    \E i \in SellIds, open \in 0 .. rest :
        /\ sellOrder[i].by = "free" /\ open + OwnSellsOpen + foreign <= held
        /\ sellOrder' = [sellOrder EXCEPT ![i] = [by |-> "unresolved", open |-> open]]

\* Sent if the shares are there (SellGuard).  It ends with what it has sold, or with an order
\* that may still work or have traded more than was read
ExitEnds(f) ==
    /\ exit.st = "working" /\ f + OwnSellsOpen + foreign <= net
    /\ net' = net - f /\ soldToday' = soldToday + f
    /\ \/ /\ Reports(f, FALSE)
          /\ UNCHANGED <<sellOrder, shared>>
       \/ /\ \E read \in 0 .. f : Reports(read, TRUE)
          /\ Leaves(exit.ask - f, net - f)
          /\ shared' = TRUE
    /\ UNCHANGED <<boughtToday, positions, foreign, buy, stage, envVars, knowVars, rc, wrong,
                   blind>>

-----------------------------------------------------------------------------
(* Resumes run in the background, until one finds its order final: cancel what still works, *)
(* read the final state.  One that fails, or is cut off, is started again by the next resync. *)

Unresolved == {i \in SellIds : sellOrder[i].by = "unresolved"}
BuyUnresolved == buy \in {"open", "filled", "dead"}

ResumeEnds(i) ==
    /\ sellOrder[i].by = "unresolved"
    /\ sellOrder' = [sellOrder EXCEPT ![i] = [by |-> "free", open |-> 0]]
    /\ UNCHANGED <<brokerVars, buy, stage, envVars, pos, exit, knowVars, rc, ghostVars>>

\* A BUY found final is a confirmed BUY from then on
ResumeBuyEnds ==
    /\ BuyUnresolved
    /\ buy' = "final"
    /\ known' = known + (IF buy = "filled" THEN 1 ELSE 0)
    /\ UNCHANGED <<brokerVars, sellOrder, stage, envVars, pos, exit, deferred, unshown, rc,
                   ghostVars>>

-----------------------------------------------------------------------------
(* The resync. *)

\* _adopt_journal takes over what nobody works any more; _resume_watched
BeginResync(w) ==
    LET taken == {i \in SellIds : sellOrder[i].by = "stale"} IN
    /\ stage' = w
    /\ sellOrder' = [i \in SellIds |->
                       IF i \in taken THEN [sellOrder[i] EXCEPT !.by = "unresolved"]
                       ELSE sellOrder[i]]
    /\ deferred' = \E i \in SellIds : sellOrder[i].by = "other"

\* The book, unless it cannot be read
Book == [error |-> FALSE, sold |-> soldToday, own |-> OwnSellsOpen, foreign |-> foreign]
Unreadable == [error |-> TRUE, sold |-> 0, own |-> 0, foreign |-> 0]

\* What positions may show: they lag, or they lack the instrument's row (bounded until the
\* next read that shows them, and the book)
WithoutRow == [net |-> 0, sold |-> 0, bought |-> 0]
Reading(b, r) ==
    \/ r = positions /\ wrong' = IF b.error THEN wrong ELSE 0
    \/ r = WithoutRow /\ r # positions /\ wrong < MaxWrong /\ wrong' = wrong + 1

UnshownFill(b, r) == IF b.error THEN 0 ELSE Max({0, b.sold - r.sold})
HeldBy(b, r) == r.net - UnshownFill(b, r)
SellableBy(b, r) == Max({0, HeldBy(b, r) - b.own - b.foreign})

\* Confirmed BUYs beyond what positions show was bought, less what has been sold since
UnshownBuys(b, r) ==
    Min({known - Max({r.bought, r.net + r.sold}), known - b.sold}) > 0

\* A filled SELL in the book, beyond those already in the tracked quantity, covers it
SoldSince(p, b) == b.sold - p.seen > 0 /\ b.sold - p.seen >= p.q

\* _resync_position
Resynced(p, b, r) ==
    LET now == [p EXCEPT !.q = SellableBy(b, r), !.pending = b.own + b.foreign > 0]
    IN  IF b.error THEN [p EXCEPT !.q = Min({@, r.net})]
        ELSE IF r.net > 0 \/ b.own + b.foreign > 0
             THEN [now EXCEPT !.zero = 0, !.seen = Max({@, b.sold})]
        ELSE IF p.zero + 1 >= 2 \/ SoldSince(p, b) THEN Untracked
        ELSE [now EXCEPT !.zero = @ + 1]

\* _adopt_untracked: an unreadable book is no order at all here
Adopted(b, r) ==
    IF HeldBy(b, r) <= 0 THEN Untracked
    ELSE [Untracked EXCEPT !.q = IF b.error THEN r.net ELSE SellableBy(b, r),
                           !.seen = b.sold, !.pending = b.own + b.foreign > 0]

AfterResync ==
    /\ stage \in {"first", "confirm", "due", "shutdown"}
    /\ stage' = CASE stage = "first" -> "top" [] stage = "confirm" -> "confirmed"
               [] stage = "due" -> "check" [] stage = "shutdown" -> "shutting"

ReadAs(b, r) ==
    /\ AfterResync
    /\ Reading(b, r)
    /\ LET kept == IF pos = Untracked \/ exit.st # "none" THEN pos ELSE Resynced(pos, b, r)
       IN  pos' = IF kept = Untracked THEN Adopted(b, r) ELSE kept
    /\ unshown' = UnshownBuys(b, r)
    /\ UNCHANGED <<brokerVars, sellOrder, buy, envVars, exit, deferred, known, rc, blind, shared>>
Read == \E b \in {Book, Unreadable}, r \in {positions, WithoutRow} : ReadAs(b, r)

\* A failed read keeps every position as it is; the first raises instead
ReadFails ==
    /\ IF stage = "first" THEN stage' = "ended" /\ rc' = "error" ELSE AfterResync /\ UNCHANGED rc
    /\ UNCHANGED <<brokerVars, sellOrder, buy, envVars, pos, exit, knowVars, ghostVars>>

-----------------------------------------------------------------------------
(* The loop. *)

Start ==
    /\ stage = "start" /\ BeginResync("first")
    /\ UNCHANGED <<brokerVars, buy, envVars, pos, exit, known, unshown, rc, ghostVars>>

\* _reap: what is tracked, and which exit runs, once finished tasks are collected
ReapedPos == IF exit.st = "sold" THEN Untracked ELSE pos
\* (mutant) only an exit that sold everything is collected
ReapedWhenSold == IF exit.st = "sold" THEN NoExit ELSE exit

ReapedExit == IF exit.st \in {"sold", "short"} THEN NoExit ELSE exit
Reap == pos' = ReapedPos /\ exit' = ReapedExit

Watching == Unresolved # {} \/ BuyUnresolved \/ deferred
OpenWork == ReapedPos # Untracked \/ Watching \/ unshown

\* (mutant) a stop waits for the close
OverAtClose == clock = "closed"

Over == stop \/ clock = "closed"

\* Stopped, or after the close
LoopEnds ==
    /\ stage = "top" /\ Over
    /\ Reap /\ stage' = "settle"
    /\ UNCHANGED <<brokerVars, sellOrder, buy, envVars, knowVars, rc, ghostVars>>

\* Nothing to do any more: a fresh read confirms that first
LoopConfirms ==
    /\ stage = "top" /\ ~Over /\ ~OpenWork
    /\ Reap /\ BeginResync("confirm")
    /\ UNCHANGED <<brokerVars, buy, envVars, known, unshown, rc, ghostVars>>

LoopDone ==
    /\ stage = "confirmed" /\ ~OpenWork
    /\ Reap /\ stage' = "settle"
    /\ UNCHANGED <<brokerVars, sellOrder, buy, envVars, knowVars, rc, ghostVars>>

Goes == (stage = "confirmed" \/ (stage = "top" /\ ~Over)) /\ OpenWork

\* Every few polls, and every poll while something is open or not shown
LoopResyncs ==
    /\ Goes /\ Reap /\ BeginResync("due")
    /\ UNCHANGED <<brokerVars, buy, envVars, known, unshown, rc, ghostVars>>

LoopChecks ==
    /\ Goes /\ ~Watching /\ ~unshown /\ ~(ReapedPos # Untracked /\ ReapedPos.pending)
    /\ Reap /\ stage' = "check"
    /\ UNCHANGED <<brokerVars, sellOrder, buy, envVars, knowVars, rc, ghostVars>>

Starts(ask) == [st |-> "working", ask |-> ask]

MaySell == ~stop /\ pos # Untracked /\ exit.st = "none" /\ pos.q > 0 /\ CanPlace

\* _check_positions sells for the rest of a partial exit, at the EOD exit, at a stop-loss, or
\* because the AI says so
CheckSells ==
    /\ stage = "check" /\ MaySell
    /\ exit' = Starts(pos.q) /\ stage' = "top"
    /\ UNCHANGED <<brokerVars, sellOrder, buy, envVars, pos, knowVars, rc, ghostVars>>

\* No reason to sell, or no price
Holds ==
    /\ stage = "check" /\ stage' = "top"
    /\ UNCHANGED <<brokerVars, sellOrder, buy, envVars, pos, exit, knowVars, rc, ghostVars>>

-----------------------------------------------------------------------------
(* The end. *)

\* _settle_exits and _settle_resumes: the exit has ended by itself; resumes are bounded
Settles ==
    /\ stage \in {"settle", "abandoned"} /\ exit.st # "working"
    /\ Reap
    /\ IF standalone /\ ReapedPos # Untracked /\ clock # "day" /\ CanPlace
       THEN BeginResync("shutdown")
       ELSE stage' = "final" /\ UNCHANGED <<sellOrder, deferred>>
    /\ UNCHANGED <<brokerVars, buy, envVars, known, unshown, rc, ghostVars>>

\* _abandon_exits: the exit is cancelled; its order, if one works, is resumed once
Abandons ==
    /\ stage = "settle" /\ exit.st = "working"
    /\ exit' = NoExit /\ stage' = "abandoned" /\ shared' = TRUE
    /\ UNCHANGED sellOrder \/ Leaves(exit.ask, net)
    /\ UNCHANGED <<brokerVars, buy, envVars, pos, knowVars, rc, wrong, blind>>

\* _shutdown_pass
ShutdownSells ==
    /\ stage = "shutting" /\ pos # Untracked /\ pos.q > 0 /\ exit.st = "none"
    /\ exit' = Starts(pos.q) /\ stage' = "selling"
    /\ UNCHANGED <<brokerVars, sellOrder, buy, envVars, pos, knowVars, rc, ghostVars>>

ShutdownSold ==
    /\ \/ stage = "shutting"
       \/ stage = "selling" /\ exit.st # "working"
    /\ Reap /\ stage' = "final"
    /\ UNCHANGED <<brokerVars, sellOrder, buy, envVars, knowVars, rc, ghostVars>>

\* (mutant) a read that shows nothing is believed
LeftByRead(b, r) == HeldBy(b, r) > 0 \/ UnshownBuys(b, r)

\* _final_state: one read showing nothing does not prove a tracked position gone
LeftBy(b, r) ==
    \/ HeldBy(b, r) > 0
    \/ pos # Untracked /\ (pos.q > 0 \/ pos.pending) /\ ~SoldSince(pos, b)
    \/ UnshownBuys(b, r)

Unconfirmed == Unresolved # {} \/ BuyUnresolved \/ deferred

FinalState ==
    /\ stage = "final" /\ stage' = "ended"
    /\ \E b \in {Book, Unreadable}, r \in {positions, WithoutRow} :
         \/ /\ Reading(b, r) /\ UNCHANGED blind
            /\ rc' = IF LeftBy(b, r) \/ Unconfirmed THEN "left" ELSE "ok"
         \/ /\ UNCHANGED wrong /\ blind' = TRUE
            /\ rc' = IF pos # Untracked \/ unshown \/ Unconfirmed THEN "left" ELSE "ok"
    /\ UNCHANGED <<brokerVars, sellOrder, buy, envVars, pos, exit, knowVars, shared>>

-----------------------------------------------------------------------------
Broker == ForeignSells \/ BuyEnds \/ CatchesUp \/ (\E i \in SellIds : Trades(i) \/ Other(i))

Task ==
    \/ \E f \in 0 .. exit.ask : ExitEnds(f)
    \/ ResumeBuyEnds \/ \E i \in SellIds : ResumeEnds(i)

Loop ==
    \/ Start \/ Read \/ ReadFails
    \/ LoopEnds \/ LoopConfirms \/ LoopDone \/ LoopResyncs \/ LoopChecks
    \/ CheckSells \/ Holds
    \/ Settles \/ Abandons \/ ShutdownSells \/ ShutdownSold \/ FinalState

Running == stage # "ended"

MonitorNext == Running /\ (Broker \/ Passes \/ Stops \/ Task \/ Loop)

\* Tasks and loop go on.  Of what is tried again and again, some resyncs between two exits read
\* all there is, some prices are there, some exits trade; a resume finds its order final at last
ReadsAll == exit.st = "none" /\ ReadAs(Book, positions)
ResyncsBetweenExits == LoopResyncs /\ exit'.st = "none"
Resumes == \E i \in SellIds : ResumeEnds(i)
ExitTrades == \E f \in 1 .. exit.ask : ExitEnds(f)
Fairness ==
    /\ WF_monitorVars(Running /\ Loop) /\ WF_monitorVars(Running /\ Task)
    /\ WF_monitorVars(Running /\ Broker)
    /\ SF_monitorVars(Running /\ ReadsAll) /\ SF_monitorVars(Running /\ ResyncsBetweenExits)
    /\ SF_monitorVars(Running /\ CheckSells) /\ SF_monitorVars(Running /\ ExitTrades)
    /\ WF_monitorVars(Running /\ Resumes)

MonitorSpec == MonitorInit /\ [][MonitorNext]_monitorVars /\ Fairness

-----------------------------------------------------------------------------
(* Properties. *)

\* `skopaq monitor` ends with rc 0, which the scheduler records as final, only when nothing is
\* held and no BUY can fill any more; unless its last read failed, or was wrong when more
\* than its own exit has been selling
EndsClean ==
    rc = "ok" /\ standalone => (net = 0 /\ buy # "open") \/ blind \/ (wrong > 0 /\ shared)

\* A position still held is not dropped on a single wrong read because of what its own exit
\* sold earlier: a partial exit proves nothing about the rest (sells_seen)
OwnExitProvesNothing ==
    [][pos # Untracked /\ pos' = Untracked /\ stage # stage' /\ exit.st = "none" /\ net > 0 =>
         pos.zero = 1 \/ shared]_monitorVars

\* The wait for exits, resumes and the broker is bounded: once stopped, or after the close,
\* the monitor ends
StopEnds == stop \/ clock = "closed" ~> stage = "ended"

\* What is held at the EOD exit is sold, by however many partial, refused and unconfirmed
\* exits, if nobody else's SELL covers it and the order window lasts; or a wrong read has
\* ended the monitor (EndsClean)
EodExits ==
    clock = "eod" /\ net > 0 ~> net = 0 \/ clock # "eod" \/ stop \/ foreign > 0 \/ stage = "ended"

=============================================================================
