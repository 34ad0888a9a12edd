---------------------------------- MODULE Gate ----------------------------------
(***************************************************************************)
(* What every order of one process passes before it reaches the broker:    *)
(* the kill switch (`kill_switch`), and the rules of its `SafetyChecker`   *)
(* that remember something: loss limits, cool-down, order rate.            *)
(*                                                                         *)
(* Operators halt and resume from this machine or another, in any order    *)
(* and at the same time; others book gains and losses.  Time is in ticks.  *)
(* What the stateless rules say (hours, sizes, funds, confidence) is a     *)
(* choice; the no-short-sale rule is SellGuard's.                          *)
(***************************************************************************)
EXTENDS Integers, Sequences

CONSTANTS
    CacheTicks,     \* _CACHE_SECONDS
    ReadTicks,      \* bound: the longest read of the Supabase row
    Minute,         \* the order-rate window
    MaxPerMinute,   \* rules.max_orders_per_minute
    CoolTicks,      \* rules.cool_down_after_loss_minutes
    LossLimit,      \* a day's loss that reaches max_daily_loss_pct, in units
    MaxPnl          \* bound: the day's gain or loss, in units

ASSUME TicksAssumption ==
    /\ CacheTicks \in Nat \ {0} /\ ReadTicks \in Nat /\ Minute \in Nat \ {0}
    /\ CoolTicks \in Nat \ {0}
ASSUME LimitsAssumption ==
    /\ MaxPerMinute \in Nat \ {0} /\ LossLimit \in Nat \ {0} /\ MaxPnl \in Nat

VARIABLES
    \* shared
    file,       \* this machine's HALT file is there
    row,        \* the trading_halt row of Supabase says halted
    op,         \* the halt and the resume under way
    booked,     \* realized P&L of the day in the trade rows, of every process
    \* the process
    up,
    cache,      \* its last status: "none", "halted", "active", and how old
    reading,    \* a status() under way: where it is, what it found, for how long
    dayPnl,     \* SafetyChecker._day_pnl
    cool,       \* ticks until the cool-down is over
    orders,     \* _orders_this_minute: how long ago, oldest first
    unbooked,   \* P&L of sales it has made and not booked yet
    \* for the properties
    last,       \* ticks since trading was last halted, the file away, the row not halted
    unseen      \* P&L it was never given: see LossesStop

switchVars == <<file, row, op>>
procVars == <<up, cache, reading, dayPnl, cool, orders, unbooked, unseen>>
vars == <<switchVars, booked, procVars, last>>

Operators == {"halt", "resume"}
Idle == [pc |-> "idle", here |-> TRUE, self |-> FALSE]
NoCache == [status |-> "none", age |-> 0]
NotReading == [found |-> "none", age |-> 0]
Signs == {"halted", "noFile", "noRow"}

\* A status is used for less than this after its source last said so
Late == CacheTicks + ReadTicks

Pnls == -MaxPnl .. MaxPnl

TypeOK ==
    /\ file \in BOOLEAN /\ row \in BOOLEAN
    /\ op \in [Operators -> [pc : {"idle", "file", "row"}, here : BOOLEAN, self : BOOLEAN]]
    /\ booked \in Pnls /\ dayPnl \in Pnls /\ booked + unbooked \in Pnls
    /\ unbooked \in Int /\ unseen \in Int
    /\ up \in BOOLEAN
    /\ cache \in [status : {"none", "halted", "active"}, age : 0 .. CacheTicks]
    /\ reading \in [found : {"none", "noFile", "halted", "active"}, age : 0 .. ReadTicks]
    /\ cool \in 0 .. CoolTicks
    /\ Len(orders) \in 0 .. MaxPerMinute /\ orders \in Seq(0 .. Minute - 1)
    /\ last \in [Signs -> 0 .. Late]

Init ==
    /\ file = FALSE /\ row = FALSE /\ op = [o \in Operators |-> Idle]
    /\ booked = 0
    /\ up = FALSE /\ cache = NoCache /\ reading = NotReading
    /\ dayPnl = 0 /\ cool = 0 /\ orders = <<>> /\ unbooked = 0 /\ unseen = 0
    /\ last = [s \in Signs |-> IF s = "halted" THEN Late ELSE 0]

-----------------------------------------------------------------------------
(* halt and resume. *)

\* What holds of the file and of the row
Holds(f, r) == [halted |-> f \/ r, noFile |-> ~f, noRow |-> ~r]
Sees(f, r) == last' = [s \in Signs |-> IF Holds(f, r)[s] THEN 0 ELSE last[s]]

Writes(o) == op[o].pc # "idle"

\* A tool of the process itself does not return before it is done
Free == up /\ reading = NotReading /\ \A o \in Operators : ~(Writes(o) /\ op[o].self)

Begins(o) ==
    /\ ~Writes(o)
    /\ \E here \in BOOLEAN, self \in BOOLEAN :
         /\ self => here /\ Free
         /\ op' = [op EXCEPT ![o] = [pc |-> "file", here |-> here, self |-> self]]
    /\ UNCHANGED <<file, row, booked, procVars, last>>

\* halt writes the file, or logs that it could not; resume unlinks it
OnFile(o) ==
    /\ op[o].pc = "file"
    /\ \/ file' = IF op[o].here THEN o = "halt" ELSE file
       \/ o = "halt" /\ UNCHANGED file
    /\ op' = [op EXCEPT ![o].pc = "row"]
    /\ Sees(file', row)
    /\ UNCHANGED <<row, booked, procVars>>

\* _cache = None, in the process that ran it
Forgotten(o) == IF op[o].self THEN NoCache ELSE cache

\* Then the row.  (A halt that could be recorded nowhere raises: the operator knows.)
OnRow(o) ==
    /\ op[o].pc = "row"
    /\ row' \in {row, o = "halt"}           \* a failed write is logged
    /\ op' = [op EXCEPT ![o] = Idle]
    /\ cache' = Forgotten(o)
    /\ Sees(file, row')
    /\ UNCHANGED <<file, booked, up, reading, dayPnl, cool, orders, unbooked, unseen>>

-----------------------------------------------------------------------------
(* status(). *)

\* (mutant) a status once read is kept
FreshAlways == cache.status # "none"

Fresh == cache.status # "none" /\ cache.age < CacheTicks

\* Before a BUY, or uncached (the daemon, before each candidate): the file first
FileRead ==
    /\ Free
    /\ reading' = [found |-> IF file THEN "halted" ELSE "noFile", age |-> 0]
    /\ UNCHANGED <<switchVars, booked, up, cache, dayPnl, cool, orders, unbooked, unseen, last>>

\* Then the row; one that cannot be read halts nothing
RowRead ==
    /\ up /\ reading.found = "noFile"
    /\ \E r \in {row, FALSE} :
         /\ reading' = [reading EXCEPT !.found = IF r THEN "halted" ELSE "active"]
         /\ Sees(file, r)
    /\ UNCHANGED <<switchVars, booked, up, cache, dayPnl, cool, orders, unbooked, unseen>>

\* The cache is as old as the answer, not as the question
ReadEnds ==
    /\ up /\ reading.found \in {"halted", "active"}
    /\ cache' = [status |-> reading.found, age |-> 0]
    /\ reading' = NotReading
    /\ UNCHANGED <<switchVars, booked, up, dayPnl, cool, orders, unbooked, unseen, last>>

-----------------------------------------------------------------------------
(* validate(). *)

\* Orders whose time stamps are within the minute, if it were w ticks later (Kept[n]: of
\* the first n)
Within(w) ==
    LET Kept[n \in 0 .. Len(orders)] ==
          IF n = 0 THEN <<>>
          ELSE IF orders[n] + w < Minute THEN Append(Kept[n - 1], orders[n]) ELSE Kept[n - 1]
    IN  Kept[Len(orders)]

\* (mutant) the limit itself passes
RateAllowsInclusive == Len(Within(0)) <= MaxPerMinute

RateAllows == Len(Within(0)) < MaxPerMinute

\* (mutant) the youngest order counts
RateWaitOfYoungest ==
    LET excess == Len(orders) - MaxPerMinute IN
    IF excess < 0 THEN 0 ELSE Minute - orders[Len(orders)]

\* order_rate_wait_s
RateWait ==
    LET excess == Len(orders) - MaxPerMinute IN
    IF excess < 0 THEN 0 ELSE Minute - orders[excess + 1]

\* Passed: its time counts against the rate, whatever becomes of the order
Counted == orders' = Append(orders, 0)

\* _check_trading_halt, once status() has given what it gives
HaltAllows == Free /\ Fresh /\ cache.status = "active"
HaltRefuses == Free /\ Fresh /\ cache.status = "halted"

\* _check_daily_loss
LossAllows == dayPnl > -LossLimit

BuyPasses ==
    /\ HaltAllows /\ LossAllows /\ cool = 0 /\ RateAllows
    /\ Counted
    /\ UNCHANGED <<switchVars, booked, up, cache, reading, dayPnl, cool, unbooked, unseen, last>>

\* record_pnl: the totals take gains and losses, a loss starts the cool-down
Recorded(r) ==
    /\ dayPnl + r \in Pnls
    /\ dayPnl' = dayPnl + r
    /\ cool' = IF r < 0 THEN CoolTicks ELSE cool
    /\ UNCHANGED unseen

\* An exit: neither halt nor losses hold it back.  Its P&L counts at once if the executor
\* knows the fill's price and what the shares cost, and is booked later
SellFills ==
    /\ Free /\ RateAllows
    /\ Counted
    /\ \E r \in {-1, 0, 1} :
         /\ booked + unbooked + r \in Pnls
         /\ unbooked' = unbooked + r
         /\ \/ Recorded(r)
            \/ unseen' = unseen + r /\ UNCHANGED <<dayPnl, cool>>
    /\ UNCHANGED <<switchVars, booked, up, cache, reading, last>>

-----------------------------------------------------------------------------
(* The trade rows, the process, the clock. *)

\* The caller books what the executor returned
Books ==
    /\ up /\ unbooked # 0
    /\ booked' = booked + unbooked /\ unbooked' = 0
    /\ UNCHANGED <<switchVars, up, cache, reading, dayPnl, cool, orders, unseen, last>>

\* Another process, or a late fill of this one, which its executor does not see
OtherBooks ==
    /\ \E r \in {-1, 1} :
         /\ booked + r \in Pnls /\ booked + unbooked + r \in Pnls
         /\ booked' = booked + r
         /\ unseen' = IF up THEN unseen + r ELSE unseen
    /\ UNCHANGED <<switchVars, up, cache, reading, dayPnl, cool, orders, unbooked, last>>

\* (mutant) the loss limits start at zero
SeededNever(read) == IF read THEN 0 ELSE 0

\* seed_safety_checker, if the trade rows can be read
Seeded(read) == IF read THEN booked ELSE 0

Starts ==
    /\ ~up /\ up' = TRUE
    /\ \E read \in BOOLEAN :
         dayPnl' = Seeded(read) /\ unseen' = IF read THEN 0 ELSE booked
    /\ UNCHANGED <<switchVars, booked, cache, reading, cool, orders, unbooked, last>>

\* A death loses what was not booked, and what is under way
Ends ==
    /\ up /\ up' = FALSE
    /\ cache' = NoCache /\ reading' = NotReading
    /\ dayPnl' = 0 /\ cool' = 0 /\ orders' = <<>> /\ unbooked' = 0 /\ unseen' = 0
    /\ op' = [o \in Operators |-> IF op[o].self THEN Idle ELSE op[o]]
    /\ UNCHANGED <<file, row, booked, last>>

Older(n, most) == IF n < most THEN n + 1 ELSE n

Tick ==
    /\ reading # NotReading => reading.age < ReadTicks
    /\ reading' = IF reading = NotReading THEN reading ELSE [reading EXCEPT !.age = @ + 1]
    /\ cache' = [cache EXCEPT !.age = IF cache.status = "none" THEN 0
                                      ELSE Older(cache.age, CacheTicks)]
    /\ cool' = IF cool = 0 THEN 0 ELSE cool - 1
    /\ orders' = [i \in 1 .. Len(Within(1)) |-> Within(1)[i] + 1]
    /\ last' = [s \in Signs |-> IF Holds(file, row)[s] THEN 0 ELSE Older(last[s], Late)]
    /\ UNCHANGED <<switchVars, booked, up, dayPnl, unbooked, unseen>>

Switch == \E o \in Operators : Begins(o) \/ OnFile(o) \/ OnRow(o)

Next ==
    \/ Switch \/ FileRead \/ RowRead \/ ReadEnds \/ BuyPasses \/ SellFills
    \/ Books \/ OtherBooks \/ Starts \/ Ends \/ Tick

Spec == Init /\ [][Next]_vars

-----------------------------------------------------------------------------
(* Properties. *)

\* A BUY passes only if the HALT file was away and the row said (or seemed to say) "not
\* halted" within the cache time and the time of one read, and is refused for a halt only if
\* one of them halted within that time: neither a halt nor a resume that reached the file or
\* the row takes longer to reach a process.  (A resume elsewhere leaves this machine's file.)
HaltIsCurrent ==
    /\ HaltAllows => last["noFile"] < Late /\ last["noRow"] < Late
    /\ HaltRefuses => last["halted"] < Late

\* A BUY passes only while the day's loss of every process, in the trade rows or not booked
\* yet, is below the limit, but for what this process was never given: what others booked
\* since it started, sales it could not price and, if the rows could not be read when it
\* started, all that was in them.  Nothing else is missed or counted twice, over any
\* sequence of sales, bookings, deaths and restarts
LossesStop == [][BuyPasses => booked + unbooked - unseen > -LossLimit]_vars

\* After the time order_rate_wait_s gives, and not before, one more order passes the rate
WaitIsExact == \A w \in 0 .. Minute : Len(Within(w)) < MaxPerMinute <=> w >= RateWait
=============================================================================
