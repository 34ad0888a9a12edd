------------------------------- MODULE Scheduler -------------------------------
(***************************************************************************)
(* `skopaq schedule`: one daemon session a trading day, and a recovery     *)
(* monitor for a live session that ended without managing its positions.   *)
(*                                                                         *)
(* What survives a restart are marker files, one set a day: a start note   *)
(* and an exit code a job.  A tick reads them, and may last for hours,     *)
(* because it waits for the process it starts.  The host, and with it      *)
(* scheduler and child, may die between any two file writes.               *)
(*                                                                         *)
(* The day is cut into slots: 0 before the start, 1..2 the start window, 3 *)
(* until the EOD exit, 4 until the close, 5 until the deadline, 6 and 7    *)
(* after it (7: settle).  A tick that starts nothing takes no time; slots  *)
(* pass while the scheduler sleeps, waits for a child, or is down.         *)
(***************************************************************************)
EXTENDS Child, Integers, FiniteSets

CONSTANTS
    LastDay,        \* days 1 .. LastDay follow one another
    Trading,        \* the trading days among them
    Modes,          \* settings.mode, with "live" split by CONFIRM_LIVE
    MaxDeaths,      \* bound: deaths of the host
    MaxStops        \* bound: SIGTERMs to the scheduler (docker stop)

Days == 1 .. LastDay

ASSUME DaysAssumption == LastDay \in Nat \ {0}
ASSUME TradingAssumption == Trading \subseteq Days
ASSUME ModesAssumption == Modes \subseteq {"live", "unconfirmed", "paper"}
ASSUME BoundsAssumption == MaxDeaths \in Nat /\ MaxStops \in Nat

Start     == 1
LastStart == 3
EodExit   == 4
Close     == 5
Deadline  == 6
SettleAt  == 7
Slots     == 0 .. SettleAt

VARIABLES
    mode, day, slot,        \* settings.mode and the wall clock
    up, stop,               \* the scheduler runs; it has got a SIGTERM
    tick,                   \* its iteration: where it is, and what it has read for it
    noted, deferred,        \* SchedulerState._noted, _not_before (in memory)
    note, code,             \* the daemon's markers: .started (a slot), .rc
    monitor, settled,       \* the monitor's markers; the days settle was started
    hit, stopped,           \* of the running child: JobResult.deadline_hit; stopped, and when
    deaths, stops,          \* bounds
    sessions, lost          \* for the properties

clockVars == <<mode, day, slot>>
procVars  == <<up, stop, noted, deferred>>
fileVars  == <<note, code, monitor, settled>>
jobVars   == <<hit, stopped>>
ghostVars == <<deaths, stops, sessions, lost>>
vars == <<childVars, clockVars, procVars, tick, fileVars, jobVars, ghostVars>>

Never   == -1       \* no start note
Skipped == -2       \* the note says "skipped: live not confirmed"
Codes == {"none", "ok", "preopen", "failed", "interrupted"}

Pcs == {"poll", "monitors", "cutoff", "daemons", "interrupted", "due", "clear", "mark",
        "child", "recorded"}

\* Between two iterations nothing is kept of one
Asleep == [pc |-> "poll", today |-> 1, now |-> 0, todo |-> {}, work |-> 1, back |-> "poll"]

TypeOK ==
    /\ ChildTypeOK
    /\ mode \in Modes /\ day \in Days /\ slot \in Slots
    /\ up \in BOOLEAN /\ stop \in BOOLEAN
    /\ tick \in [pc : Pcs, today : Days, now : Slots, todo : SUBSET Days, work : Days,
                 back : {"monitors", "daemons", "poll"}]
    /\ noted \subseteq {"launch", "left"} /\ deferred \in BOOLEAN
    /\ note \in [Days -> Slots \cup {Never, Skipped}] /\ code \in [Days -> Codes]
    /\ monitor \in [Days -> {"never", "started", "done"}] /\ settled \subseteq Days
    /\ hit \in BOOLEAN /\ stopped \in {"no", "early", "late"}
    /\ deaths \in 0 .. MaxDeaths /\ stops \in 0 .. MaxStops
    /\ sessions \in [Days -> Nat] /\ lost \in BOOLEAN

Init ==
    /\ kind = "none" /\ st = "none" /\ began = FALSE /\ rc = "none"
    /\ term = FALSE /\ exposed = FALSE /\ told = FALSE
    /\ mode \in Modes /\ day = 1 /\ slot = 0
    /\ up = FALSE /\ stop = FALSE /\ tick = Asleep
    /\ noted = {} /\ deferred = FALSE
    /\ note = [d \in Days |-> Never] /\ code = [d \in Days |-> "none"]
    /\ monitor = [d \in Days |-> "never"] /\ settled = {}
    /\ hit = FALSE /\ stopped = "no"
    /\ deaths = 0 /\ stops = 0
    /\ sessions = [d \in Days |-> 0] /\ lost = FALSE

-----------------------------------------------------------------------------
(* The markers, and what is due by them. *)

Live == mode = "live"

\* Launched and never finished: the process that ran it died.  (unfinished; the look-back of
\* seven days is longer than what is modelled)
UnfinishedBy(today, codes) ==
    {d \in Days : d <= today /\ note[d] \in Slots /\ codes[d] = "none"}

\* (mutant) a recovery monitor of an earlier day is forgotten
UnfinishedMonitorsToday == {d \in Days : monitor[d] = "started" /\ d = day}

UnfinishedMonitors == {d \in Days : monitor[d] = "started"}

\* (mutant) a session that was interrupted is started again like one whose PRE_OPEN failed
DaemonMayStartAfterInterruption(d, now, codes) ==
    \/ note[d] = Never
    \/ /\ codes[d] \in {"preopen", "interrupted"}
       /\ note[d] \in Slots /\ now > note[d]

\* Not started today, or only a PRE_OPEN failure, PRE_OPEN_RETRY (a slot) ago
DaemonMayStart(d, now, codes) ==
    \/ note[d] = Never
    \/ /\ codes[d] = "preopen"
       /\ note[d] \in Slots /\ now > note[d]

DaemonDue(d, now, codes) ==
    d \in Trading /\ now \in Start .. LastStart - 1 /\ DaemonMayStart(d, now, codes)

SettleDue(d, now) == d \in Trading /\ now >= SettleAt /\ d \notin settled

\* The rest of _tick from the monitors, or the daemons, it has still to handle; codes are the
\* daemon's exit codes as they are by then
Goes(t, monitors, daemons, codes) ==
    tick' = IF monitors # {} THEN [t EXCEPT !.pc = "monitors", !.todo = monitors]
            ELSE IF daemons # {} THEN [t EXCEPT !.pc = "daemons", !.todo = daemons]
            ELSE IF DaemonDue(t.today, t.now, codes) \/ SettleDue(t.today, t.now)
                 THEN [t EXCEPT !.pc = "due", !.todo = {}]
            ELSE Asleep

\* Back in the loop that handled tick.work
GoesOn(codes) ==
    CASE tick.back = "monitors" -> Goes(tick, tick.todo, UnfinishedBy(tick.today, codes), codes)
      [] tick.back = "daemons"  -> Goes(tick, {}, tick.todo, codes)
      [] tick.back = "poll"     -> tick' = Asleep

At(pc) == up /\ tick.pc = pc

\* An alert that names what happened, and says to look at the broker
Alert == told' = TRUE /\ UNCHANGED <<kind, st, began, rc, term, exposed>>

-----------------------------------------------------------------------------
(* The process: it takes the lock, polls, and goes with its host. *)

\* The container (restart: unless-stopped) starts; the kernel has dropped the lock
StartUp ==
    /\ ~up
    /\ up' = TRUE /\ stop' = FALSE /\ noted' = {} /\ deferred' = FALSE
    /\ UNCHANGED <<childVars, clockVars, tick, fileVars, jobVars, ghostVars>>

Stop ==
    /\ up /\ ~stop /\ stops < MaxStops
    /\ stop' = TRUE /\ stops' = stops + 1
    /\ UNCHANGED <<childVars, clockVars, up, noted, deferred, tick, fileVars, jobVars, deaths,
                   sessions, lost>>

Quit ==
    /\ At("poll") /\ stop
    /\ up' = FALSE /\ noted' = {} /\ deferred' = FALSE
    /\ UNCHANGED <<childVars, clockVars, stop, tick, fileVars, jobVars, ghostVars>>

\* A job is recorded as handled, and what follows from it has not been done yet
Handling ==
    \/ tick.pc \in {"interrupted", "cutoff"}
    \/ tick.pc = "recorded" /\ rc # "ok"
    \/ tick.pc = "mark" /\ tick.back # "monitors"

NoChild ==
    /\ kind' = "none" /\ st' = "none" /\ rc' = "none" /\ began' = FALSE /\ term' = FALSE
    /\ hit' = FALSE /\ stopped' = "no"

\* The host dies, or the container, whose only process but init the scheduler is: scheduler
\* and child go at once
Die ==
    /\ up /\ deaths < MaxDeaths
    /\ deaths' = deaths + 1
    /\ up' = FALSE /\ noted' = {} /\ deferred' = FALSE /\ tick' = Asleep
    /\ NoChild
    /\ lost' = (lost \/ (exposed /\ Handling))
    /\ UNCHANGED <<exposed, told, clockVars, stop, fileVars, stops, sessions>>

\* What is still held when the next trading day begins is delivery stock: no session's
NextSlot ==
    /\ up => tick.pc \in {"poll", "child"}
    /\ \/ /\ slot < SettleAt
          /\ slot' = slot + 1
          /\ UNCHANGED <<day, childVars, lost>>
       \/ /\ slot = SettleAt /\ day + 1 \in Days /\ st = "none"
          /\ slot' = 0 /\ day' = day + 1
          /\ IF day + 1 \in Trading THEN exposed' = FALSE /\ told' = FALSE /\ lost' = FALSE
             ELSE UNCHANGED <<exposed, told, lost>>
          /\ UNCHANGED <<kind, st, began, rc, term>>
    /\ deferred' = FALSE                \* MONITOR_RERUN_BACKOFF is shorter than a slot
    /\ UNCHANGED <<mode, up, stop, noted, tick, fileVars, jobVars, deaths, stops, sessions>>

\* One iteration; one that finds nothing to do changes nothing
Tick ==
    /\ At("poll") /\ ~stop
    /\ Goes([Asleep EXCEPT !.today = day, !.now = slot], UnfinishedMonitors,
            UnfinishedBy(day, code), code)
    /\ tick' # Asleep
    /\ UNCHANGED <<childVars, clockVars, procVars, fileVars, jobVars, ghostVars>>

-----------------------------------------------------------------------------
(* Jobs left by a process that has gone. *)

InTime(d) == Live /\ d = tick.today /\ tick.now < Deadline

\* _resume_recovery_monitor: recorded and alerted, put off, or run again
ResumeMonitor ==
    /\ At("monitors")
    /\ \E d \in tick.todo :
         /\ \A e \in tick.todo : d <= e
         /\ LET t == [tick EXCEPT !.todo = @ \ {d}, !.work = d, !.back = "monitors"] IN
            \/ /\ ~InTime(d)
               /\ monitor' = [monitor EXCEPT ![d] = "done"]
               /\ tick' = [t EXCEPT !.pc = "cutoff"]
            \/ /\ InTime(d) /\ deferred
               /\ Goes(t, t.todo, UnfinishedBy(t.today, code), code)
               /\ UNCHANGED monitor
            \/ /\ InTime(d) /\ ~deferred
               /\ tick' = [t EXCEPT !.pc = "mark"]
               /\ UNCHANGED monitor
    /\ UNCHANGED <<childVars, clockVars, procVars, note, code, settled, jobVars, ghostVars>>

CutOffAlert ==
    /\ At("cutoff")
    /\ Alert /\ GoesOn(code)
    /\ UNCHANGED <<clockVars, procVars, fileVars, jobVars, ghostVars>>

\* _recover_interrupted records first, so that it is handled once
RecoverInterrupted ==
    /\ At("daemons")
    /\ \E d \in tick.todo :
         /\ \A e \in tick.todo : d <= e
         /\ code' = [code EXCEPT ![d] = "interrupted"]
         /\ tick' = [tick EXCEPT !.todo = @ \ {d}, !.work = d, !.back = "daemons",
                                 !.pc = "interrupted"]
    /\ UNCHANGED <<childVars, clockVars, procVars, note, monitor, settled, jobVars, ghostVars>>

\* ... and then goes on to the monitor, or says to check the broker
Interrupted ==
    /\ At("interrupted")
    /\ \/ /\ InTime(tick.work)
          /\ tick' = [tick EXCEPT !.pc = "mark"]
          /\ UNCHANGED childVars
       \/ /\ ~InTime(tick.work)
          /\ Alert /\ GoesOn(code)
    /\ UNCHANGED <<clockVars, procVars, fileVars, jobVars, ghostVars>>

-----------------------------------------------------------------------------
(* The job that is due. *)

DueDaemon == At("due") /\ DaemonDue(tick.today, tick.now, code)

SkipUnconfirmed ==
    /\ DueDaemon /\ mode = "unconfirmed"
    /\ note' = [note EXCEPT ![tick.today] = Skipped]
    /\ tick' = Asleep
    /\ UNCHANGED <<childVars, clockVars, procVars, code, monitor, settled, jobVars, ghostVars>>

\* The start note is written before the launch, an old exit code deleted after it
MarkDaemon ==
    /\ DueDaemon /\ mode # "unconfirmed"
    /\ note' = [note EXCEPT ![tick.today] = tick.now]
    /\ tick' = [tick EXCEPT !.work = tick.today, !.back = "poll", !.pc = "clear"]
    /\ UNCHANGED <<childVars, clockVars, procVars, code, monitor, settled, jobVars, ghostVars>>

\* Popen: from here on the child looks after what is held
Launch(job) ==
    /\ kind' = job /\ st' = "running" /\ told' = (told /\ job = "settle")
    /\ UNCHANGED <<rc, term, began, exposed>>

\* (mutant) the old exit code is kept
LaunchKeepingCode ==
    /\ At("clear")
    /\ UNCHANGED code
    /\ \/ Launch("daemon") /\ tick' = [tick EXCEPT !.pc = "child"]
       \/ UNCHANGED childVars /\ tick' = Asleep
    /\ UNCHANGED <<clockVars, procVars, note, monitor, settled, jobVars, ghostVars>>

\* A launch that fails ends the iteration, with an alert; its marker is handled by the next
LaunchDaemon ==
    /\ At("clear")
    /\ code' = [code EXCEPT ![tick.work] = "none"]
    /\ \/ Launch("daemon") /\ tick' = [tick EXCEPT !.pc = "child"]
       \/ UNCHANGED childVars /\ tick' = Asleep
    /\ UNCHANGED <<clockVars, procVars, note, monitor, settled, jobVars, ghostVars>>

LaunchSettle ==
    /\ At("due") /\ ~DueDaemon
    /\ settled' = settled \cup {tick.today}
    /\ \/ /\ Launch("settle")
          /\ tick' = [tick EXCEPT !.work = tick.today, !.back = "poll", !.pc = "child"]
       \/ UNCHANGED childVars /\ tick' = Asleep
    /\ UNCHANGED <<clockVars, procVars, note, code, monitor, jobVars, ghostVars>>

\* _run_recovery_monitor: marked, launched; a failed launch is alerted once a process
LaunchMonitor ==
    /\ At("mark")
    /\ monitor' = [monitor EXCEPT ![tick.work] = "started"]
    /\ \/ /\ Launch("monitor") /\ tick' = [tick EXCEPT !.pc = "child"]
          /\ UNCHANGED noted
       \/ /\ UNCHANGED <<kind, st, began, rc, term, exposed>>
          /\ told' = (told \/ "launch" \notin noted)
          /\ noted' = noted \cup {"launch"}
          /\ GoesOn(code)
    /\ UNCHANGED <<clockVars, up, stop, deferred, note, code, settled, jobVars, ghostVars>>

-----------------------------------------------------------------------------
(* run_job: the scheduler waits, and passes the stop and the deadline on. *)

Waiting == At("child") /\ st = "running"

SeesStop ==
    /\ Waiting /\ stop /\ stopped = "no"
    /\ stopped' = IF slot < EodExit THEN "early" ELSE "late"
    /\ term' = TRUE
    /\ UNCHANGED <<kind, st, began, rc, exposed, told, hit, clockVars, procVars, tick, fileVars,
                   ghostVars>>

\* (settle's own deadline, an hour after its start, falls into the last slot)
SeesDeadline ==
    /\ Waiting /\ ~hit /\ slot >= Deadline
    /\ hit' = TRUE /\ term' = TRUE
    /\ UNCHANGED <<kind, st, began, rc, exposed, told, stopped, clockVars, procVars, tick,
                   fileVars, ghostVars>>

\* (mutant) only a stop is followed by a SIGKILL
KillsChildOnStop ==
    /\ Waiting /\ Killed /\ ~hit
    /\ UNCHANGED <<clockVars, procVars, tick, fileVars, jobVars, ghostVars>>

\* kill_after_seconds later
KillsChild ==
    /\ Waiting /\ Killed
    /\ UNCHANGED <<clockVars, procVars, tick, fileVars, jobVars, ghostVars>>

\* The child cannot be watched (the thread for its output does not start): it is killed and
\* the error raised, to the loop, or to the recovery that alerts it like a failed launch
CannotWatch ==
    /\ Waiting
    /\ NoChild
    /\ \/ /\ kind # "monitor"
          /\ tick' = Asleep
          /\ UNCHANGED <<told, noted>>
       \/ /\ kind = "monitor"
          /\ told' = (told \/ "launch" \notin noted)
          /\ noted' = noted \cup {"launch"}
          /\ GoesOn(code)
    /\ UNCHANGED <<exposed, clockVars, up, stop, deferred, fileVars, ghostVars>>

\* The child does what its contract allows; a session counts once it may have traded
ChildMoves ==
    /\ ChildStep
    /\ Live \/ ~exposed'                \* paper positions are in the process's memory
    /\ sessions' = IF began' /\ ~began THEN [sessions EXCEPT ![tick.work] = @ + 1]
                   ELSE sessions
    /\ UNCHANGED <<clockVars, procVars, tick, fileVars, jobVars, deaths, stops, lost>>

Ended(k) == up /\ st = "ended" /\ kind = k

-----------------------------------------------------------------------------
(* A daemon session has ended. *)

OnItsOwn == ~hit /\ stopped = "no"

KilledByStop == rc = "killed" /\ stopped # "no" /\ ~hit /\ Live

\* A stop had to SIGKILL it: no exit code, so that the next process recovers it
DaemonKilledByStop ==
    /\ Ended("daemon") /\ At("child") /\ KilledByStop
    /\ NoChild /\ told' = TRUE /\ tick' = Asleep
    /\ UNCHANGED <<exposed, clockVars, procVars, fileVars, ghostVars>>

Marked(result) == IF result \in {"ok", "preopen"} THEN result ELSE "failed"

RecordDaemon ==
    /\ Ended("daemon") /\ At("child") /\ ~KilledByStop
    /\ code' = [code EXCEPT ![tick.work] = Marked(rc)]
    /\ tick' = [tick EXCEPT !.pc = "recorded"]
    /\ UNCHANGED <<childVars, clockVars, procVars, note, monitor, settled, jobVars, ghostVars>>

\* _recover_failed goes by the clock of now, not by the tick's
RecoverFailed ==
    /\ Ended("daemon") /\ At("recorded") /\ rc \notin {"ok", "preopen"} /\ OnItsOwn
    /\ NoChild
    /\ \/ /\ Live /\ day = tick.work /\ slot < Deadline
          /\ tick' = [tick EXCEPT !.pc = "mark", !.today = day, !.now = slot]
          /\ UNCHANGED told
       \/ /\ ~Live \/ day # tick.work \/ slot >= Deadline
          /\ told' = TRUE /\ tick' = Asleep
    /\ UNCHANGED <<exposed, clockVars, procVars, fileVars, ghostVars>>

\* Any other ending.  One killed at its deadline is alerted with "check the broker"; of one that
\* failed after a stop or at its deadline, only the exit code is told
DaemonEnded ==
    /\ Ended("daemon") /\ At("recorded") /\ (rc \in {"ok", "preopen"} \/ ~OnItsOwn)
    /\ told' = (told \/ (rc = "killed" /\ Live))
    /\ lost' = (lost \/ (exposed /\ rc \notin {"ok", "killed"}))
    /\ NoChild /\ tick' = Asleep
    /\ UNCHANGED <<exposed, clockVars, procVars, fileVars, deaths, stops, sessions>>

SettleEnded ==
    /\ Ended("settle")
    /\ NoChild /\ tick' = Asleep
    /\ UNCHANGED <<exposed, told, clockVars, procVars, fileVars, ghostVars>>

-----------------------------------------------------------------------------
(* A recovery monitor has ended. *)

\* Stopped with the scheduler before the EOD exit, or not cleanly: it runs again later
StoppedShort == ~hit /\ (stopped = "early" \/ (stopped = "late" /\ rc # "ok"))

\* It left something while the market is open: not final either
LeftEarly == rc = "left" /\ OnItsOwn /\ day = tick.work /\ slot < Close

MonitorStopped ==
    /\ Ended("monitor") /\ At("child") /\ StoppedShort
    /\ NoChild /\ told' = TRUE /\ GoesOn(code)
    /\ UNCHANGED <<exposed, clockVars, procVars, fileVars, ghostVars>>

\* Alerted once a process; one that ended within a minute is not run again at once
MonitorLeftEarly ==
    /\ Ended("monitor") /\ At("child") /\ LeftEarly
    /\ deferred' \in IF slot = tick.now THEN BOOLEAN ELSE {deferred}
    /\ told' = (told \/ "left" \notin noted)
    /\ noted' = noted \cup {"left"}
    /\ NoChild /\ GoesOn(code)
    /\ UNCHANGED <<exposed, clockVars, up, stop, fileVars, ghostVars>>

RecordMonitor ==
    /\ Ended("monitor") /\ At("child") /\ ~StoppedShort /\ ~LeftEarly
    /\ monitor' = [monitor EXCEPT ![tick.work] = "done"]
    /\ tick' = [tick EXCEPT !.pc = "recorded"]
    /\ UNCHANGED <<childVars, clockVars, procVars, note, code, settled, jobVars, ghostVars>>

MonitorEnded ==
    /\ Ended("monitor") /\ At("recorded")
    /\ told' = (told \/ rc # "ok")
    /\ NoChild /\ GoesOn(code)
    /\ UNCHANGED <<exposed, clockVars, procVars, fileVars, ghostVars>>

-----------------------------------------------------------------------------
Ticking ==
    \/ Tick \/ ResumeMonitor \/ CutOffAlert \/ RecoverInterrupted \/ Interrupted
    \/ SkipUnconfirmed \/ MarkDaemon \/ LaunchDaemon \/ LaunchSettle \/ LaunchMonitor

Job ==
    \/ SeesStop \/ SeesDeadline \/ KillsChild
    \/ DaemonKilledByStop \/ RecordDaemon \/ RecoverFailed \/ DaemonEnded \/ SettleEnded
    \/ MonitorStopped \/ MonitorLeftEarly \/ RecordMonitor \/ MonitorEnded

\* The modelled days are over
Over ==
    /\ At("poll") /\ day = LastDay /\ slot = SettleAt
    /\ UNCHANGED vars

Next ==
    \/ StartUp \/ Stop \/ Quit \/ Die \/ NextSlot \/ Ticking \/ Job \/ CannotWatch \/ ChildMoves
    \/ Over

\* A container that died is restarted (one that was stopped is not); the loop and run_job
\* poll; and time passes, whatever else happens
Fairness ==
    /\ WF_vars(StartUp /\ ~stop) /\ WF_vars(Ticking) /\ WF_vars(Job) /\ WF_vars(Quit)
    /\ SF_vars(NextSlot)

Spec == Init /\ [][Next]_vars /\ Fairness

-----------------------------------------------------------------------------
(* Properties. *)

\* On one day at most one session gets past PRE_OPEN, and may trade, however often the host
\* dies between a marker and what it stands for (the markers of _tick and _daemon_may_start)
OneSessionADay == \A d \in Days : sessions[d] <= 1

\* A session is started in its window by the clock, although the tick that starts it read the
\* time before it waited, perhaps for hours, for a recovery monitor
LaunchedInWindow ==
    [][kind # "daemon" /\ kind' = "daemon" =>
          slot \in Start .. LastStart - 1 /\ day \in Trading /\ tick.work = day]_vars

\* Whenever the scheduler goes back to sleep, live positions that nobody looks after have a
\* marker from which the next tick runs the monitor, or somebody was told to look at the
\* broker; unless the host died while the scheduler was handling a job already recorded as
\* handled, or the session failed by itself after a stop or at its deadline (`lost`)
Attended ==
    At("poll") /\ exposed =>
       told \/ lost \/ UnfinishedBy(day, code) # {} \/ UnfinishedMonitors # {}

\* Live positions nobody looks after do not stay so: they are sold, or told, or a process
\* looks after them again, or an operator has stopped the scheduler
Recovered ==
    exposed /\ st = "none" ~>
       told \/ lost \/ ~exposed \/ st = "running" \/ (stop /\ ~up)

\* No process outlives its deadline: SIGTERM, and SIGKILL if that does not help
ChildrenEnd == st = "running" ~> st # "running"
=============================================================================
