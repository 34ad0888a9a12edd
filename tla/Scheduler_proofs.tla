---------------------------- MODULE Scheduler_proofs ----------------------------
(***************************************************************************)
(* Proofs about Scheduler, for any number of days, trading days, deaths    *)
(* and stops: its state keeps its types, at most one session a day may     *)
(* trade, a session is launched in its window by the clock, and live       *)
(* positions nobody looks after have a marker or somebody who was told.    *)
(***************************************************************************)
EXTENDS Scheduler, TLAPS

-----------------------------------------------------------------------------
(* The invariant. *)

TickType == [pc : Pcs, today : Days, now : Slots, todo : SUBSET Days, work : Days,
             back : {"monitors", "daemons", "poll"}]

\* The day's daemon will not be started any more
Closed(d) == note[d] # Never /\ code[d] \in {"ok", "failed", "interrupted"}

\* There is a child while, and only while, the iteration waits for it or has recorded it
ChildInv ==
    /\ kind = "none" <=> tick.pc \notin {"child", "recorded"}
    /\ kind = "none" => st = "none" /\ rc = "none" /\ ~began
    /\ tick.pc = "recorded" => st = "ended"
    /\ st = "running" => rc = "none"
    /\ tick.pc # "poll" => up
    /\ rc = "preopen" => kind = "daemon" /\ ~began

\* A day whose session may have traded has markers that keep its daemon from starting again
SessionsInv ==
    \A d \in Days : /\ sessions[d] \in {0, 1}
                    /\ sessions[d] = 1 => note[d] # Never /\ code[d] # "preopen"
                    /\ note[d] = Never => code[d] = "none"

\* The start note has just been written, in the window
ClearInv ==
    tick.pc = "clear" => /\ sessions[tick.work] = 0 /\ note[tick.work] # Never
                         /\ code[tick.work] \in {"none", "preopen"}
                         /\ tick.work = day /\ day \in Trading /\ tick.back = "poll"
                         /\ slot \in Start .. LastStart - 1

\* A running daemon has its note and no exit code
DaemonInv ==
    kind = "daemon" => /\ note[tick.work] # Never
                       /\ ~began => sessions[tick.work] = 0
                       /\ tick.pc = "child" => code[tick.work] = "none"
                       /\ tick.pc = "recorded" => code[tick.work] = Marked(rc)

\* A monitor is only run for a day that is closed
MonitorInv == \A d \in Days : monitor[d] # "never" => Closed(d)

InMonitors ==
    \/ tick.pc = "monitors"
    \/ tick.pc \in {"cutoff", "mark", "child", "recorded"} /\ tick.back = "monitors"

TodoInv ==
    /\ \A d \in tick.todo : note[d] # Never
    /\ InMonitors => \A d \in tick.todo : monitor[d] # "never"

WorkInv ==
    /\ tick.pc = "interrupted" => Closed(tick.work) /\ tick.back = "daemons"
    /\ tick.pc = "mark" \/ kind = "monitor" => tick.work = tick.today /\ Closed(tick.today)

\* The iteration has the time of now, or it has waited for a monitor, and the day is closed
NowInv ==
    tick.pc \in {"monitors", "cutoff", "daemons", "interrupted", "due"} =>
      (tick.today = day /\ tick.now = slot) \/ Closed(tick.today)

MarkersInv == SessionsInv /\ ClearInv /\ DaemonInv /\ MonitorInv /\ TodoInv /\ WorkInv /\ NowInv

IInv == TypeOK /\ ChildInv /\ MarkersInv

-----------------------------------------------------------------------------
(* The iteration between two of its waits. *)

\* Between two iterations, tick is well typed
LEMMA AsleepType == Asleep \in TickType
BY DaysAssumption DEF Asleep, TickType, Pcs, Slots, SettleAt, Days

\* TypeOK names the type of the iteration
LEMMA TypeTick == TypeOK => tick \in TickType
BY DEF TypeOK, TickType

\* An unfinished day has a start note
LEMMA Unfinished ==
  ASSUME NEW today, NEW c
  PROVE  /\ UnfinishedBy(today, c) \subseteq Days
         /\ \A d \in UnfinishedBy(today, c) : note[d] # Never
BY DEF UnfinishedBy, Slots, Never

\* What is left of an iteration that goes on to the monitors, or the daemons
Left(t, monitors, daemons) ==
    /\ tick' \in TickType
    /\ tick'.pc \in {"poll", "monitors", "daemons", "due"}
    /\ tick'.pc = "monitors" => tick'.todo = monitors
    /\ tick'.pc = "daemons" => tick'.todo = daemons
    /\ tick'.pc \in {"poll", "due"} => tick'.todo = {}
    /\ tick'.pc # "poll" => tick'.today = t.today /\ tick'.now = t.now

\* Goes goes on to the monitors, to the daemons, to the job that is due, or to sleep
LEMMA GoesTo ==
  ASSUME NEW t \in TickType, NEW monitors \in SUBSET Days, NEW daemons \in SUBSET Days,
         NEW c, Goes(t, monitors, daemons, c)
  PROVE  Left(t, monitors, daemons)
<1>1. tick' = [t EXCEPT !.pc = "monitors", !.todo = monitors]
      \/ tick' = [t EXCEPT !.pc = "daemons", !.todo = daemons]
      \/ tick' = [t EXCEPT !.pc = "due", !.todo = {}]
      \/ tick' = Asleep
  BY Zenon DEF Goes
<1>2. CASE tick' = [t EXCEPT !.pc = "monitors", !.todo = monitors]
  BY <1>2 DEF Left, TickType, Pcs
<1>3. CASE tick' = [t EXCEPT !.pc = "daemons", !.todo = daemons]
  BY <1>3 DEF Left, TickType, Pcs
<1>4. CASE tick' = [t EXCEPT !.pc = "due", !.todo = {}]
  BY <1>4 DEF Left, TickType, Pcs
<1>5. CASE tick' = Asleep
  BY <1>5, AsleepType DEF Left, Asleep
<1> QED  BY <1>1, <1>2, <1>3, <1>4, <1>5

\* Back in the loop, what was still to do is what is still to do
LEMMA GoesOnTo ==
  ASSUME TypeOK, NEW c, GoesOn(c)
  PROVE  /\ \/ tick' = Asleep
            \/ tick.back = "monitors" /\ Left(tick, tick.todo, UnfinishedBy(tick.today, c))
            \/ tick.back = "daemons" /\ Left(tick, {}, tick.todo)
<1>1. tick \in TickType  BY TypeTick
<1>2. tick.todo \in SUBSET Days /\ tick.back \in {"monitors", "daemons", "poll"}
  BY <1>1 DEF TickType
<1>3. CASE tick.back = "monitors"
  <2>1. Goes(tick, tick.todo, UnfinishedBy(tick.today, c), c)  BY <1>3 DEF GoesOn
  <2> QED  BY <2>1, <1>1, <1>2, <1>3, GoesTo, Unfinished
<1>4. CASE tick.back = "daemons"
  <2>1. Goes(tick, {}, tick.todo, c)  BY <1>4 DEF GoesOn
  <2> QED  BY <2>1, <1>1, <1>2, <1>4, GoesTo
<1>5. CASE tick.back = "poll"
  BY <1>5 DEF GoesOn
<1> QED  BY <1>2, <1>3, <1>4, <1>5

-----------------------------------------------------------------------------
(* The steps. *)

\* The type of everything but the iteration
ClockType == mode \in Modes /\ day \in Days /\ slot \in Slots

ProcType ==
    /\ up \in BOOLEAN /\ stop \in BOOLEAN
    /\ noted \subseteq {"launch", "left"} /\ deferred \in BOOLEAN
    /\ hit \in BOOLEAN /\ stopped \in {"no", "early", "late"}

FileType ==
    /\ note \in [Days -> Slots \cup {Never, Skipped}] /\ code \in [Days -> Codes]
    /\ monitor \in [Days -> {"never", "started", "done"}] /\ settled \subseteq Days

GhostType ==
    /\ deaths \in 0 .. MaxDeaths /\ stops \in 0 .. MaxStops
    /\ sessions \in [Days -> Nat] /\ lost \in BOOLEAN

RestType == ChildTypeOK /\ ClockType /\ ProcType /\ FileType /\ GhostType

\* TypeOK, in parts
LEMMA TypeSplit == TypeOK <=> RestType /\ tick \in TickType
BY DEF TypeOK, RestType, TickType, ClockType, ProcType, FileType, GhostType

\* A tick starts with the time of now
LEMMA GoesTick ==
  ASSUME TypeOK, Tick
  PROVE  /\ Left([Asleep EXCEPT !.today = day, !.now = slot], UnfinishedMonitors,
                 UnfinishedBy(day, code))
         /\ tick'.pc # "poll" => tick'.today = day /\ tick'.now = slot
<1>1. Asleep \in TickType /\ day \in Days /\ slot \in Slots
  BY AsleepType DEF TypeOK
<1>2. [Asleep EXCEPT !.today = day, !.now = slot] \in TickType
      /\ [Asleep EXCEPT !.today = day, !.now = slot].today = day
      /\ [Asleep EXCEPT !.today = day, !.now = slot].now = slot
  BY <1>1 DEF TickType
<1>3. UnfinishedMonitors \in SUBSET Days  BY DEF UnfinishedMonitors
<1>4. Left([Asleep EXCEPT !.today = day, !.now = slot], UnfinishedMonitors,
           UnfinishedBy(day, code))
  BY <1>2, <1>3, GoesTo, Unfinished DEF Tick
<1> QED  BY <1>2, <1>4 DEF Left

\* _resume_recovery_monitor has taken one day from those to do
Resumed(d, pc) == [tick EXCEPT !.todo = @ \ {d}, !.work = d, !.back = "monitors", !.pc = pc]

\* What _resume_recovery_monitor does with the earliest unfinished monitor
LEMMA GoesResume ==
  ASSUME TypeOK, ResumeMonitor
  PROVE  \E d \in tick.todo :
           \/ tick' = Resumed(d, "cutoff") /\ monitor' = [monitor EXCEPT ![d] = "done"]
           \/ /\ Left(tick, tick.todo \ {d}, UnfinishedBy(tick.today, code))
              /\ UNCHANGED monitor
           \/ tick' = Resumed(d, "mark") /\ d = tick.today /\ UNCHANGED monitor
<1>0. tick \in TickType  BY TypeTick
<1>1. PICK d \in tick.todo :
        LET t == [tick EXCEPT !.todo = @ \ {d}, !.work = d, !.back = "monitors"] IN
           \/ /\ monitor' = [monitor EXCEPT ![d] = "done"]
              /\ tick' = [t EXCEPT !.pc = "cutoff"]
           \/ /\ Goes(t, t.todo, UnfinishedBy(t.today, code), code)
              /\ UNCHANGED monitor
           \/ /\ tick' = [t EXCEPT !.pc = "mark"] /\ d = tick.today
              /\ UNCHANGED monitor
  BY DEF ResumeMonitor, InTime
<1> DEFINE t == [tick EXCEPT !.todo = @ \ {d}, !.work = d, !.back = "monitors"]
<1>2. /\ t \in TickType /\ t.todo = tick.todo \ {d} /\ t.today = tick.today
      /\ t.now = tick.now /\ t.todo \in SUBSET Days
  BY <1>0, <1>1 DEF TickType
<1>3. CASE Goes(t, t.todo, UnfinishedBy(t.today, code), code) /\ UNCHANGED monitor
  <2>1. Left(t, t.todo, UnfinishedBy(t.today, code))
    <3> HIDE DEF t
    <3> QED  BY <1>2, <1>3, GoesTo, Unfinished
  <2>2. Left(tick, tick.todo \ {d}, UnfinishedBy(tick.today, code))
    <3> HIDE DEF t
    <3> QED  BY <2>1, <1>2 DEF Left
  <2> QED  BY <2>2, <1>1, <1>3
<1>4. CASE tick' = [t EXCEPT !.pc = "cutoff"] /\ monitor' = [monitor EXCEPT ![d] = "done"]
  <2>1. tick' = Resumed(d, "cutoff")  BY <1>0, <1>4 DEF TickType, Resumed
  <2> QED  BY <2>1, <1>1, <1>4
<1>5. CASE tick' = [t EXCEPT !.pc = "mark"] /\ d = tick.today /\ UNCHANGED monitor
  <2>1. tick' = Resumed(d, "mark")  BY <1>0, <1>5 DEF TickType, Resumed
  <2> QED  BY <2>1, <1>1, <1>5
<1> QED  BY <1>1, <1>3, <1>4, <1>5

\* Every step leaves a well-typed iteration
LEMMA TickStep ==
  ASSUME IInv, Next
  PROVE  (tick \in TickType)'
<1>0. tick \in TickType /\ day \in Days /\ slot \in Slots /\ Asleep \in TickType /\ TypeOK
  BY TypeTick, AsleepType DEF IInv, TypeOK
<1>1. CASE StartUp
  BY <1>1, <1>0 DEF StartUp
<1>2. CASE Stop
  BY <1>2, <1>0 DEF Stop
<1>3. CASE Quit
  BY <1>3, <1>0 DEF Quit
<1>4. CASE Die
  BY <1>4, <1>0 DEF Die
<1>5. CASE NextSlot
  BY <1>5, <1>0 DEF NextSlot
<1>6. CASE Tick
  BY <1>6, <1>0, GoesTick DEF Left
<1>7. CASE ResumeMonitor
  <2>1. PICK d \in tick.todo :
           \/ tick' = Resumed(d, "cutoff") /\ monitor' = [monitor EXCEPT ![d] = "done"]
           \/ /\ Left(tick, tick.todo \ {d}, UnfinishedBy(tick.today, code))
              /\ UNCHANGED monitor
           \/ tick' = Resumed(d, "mark") /\ d = tick.today /\ UNCHANGED monitor
    BY <1>0, <1>7, GoesResume
  <2>2. CASE tick' = Resumed(d, "cutoff") /\ monitor' = [monitor EXCEPT ![d] = "done"]
    BY <2>2, <2>1, <1>0, <1>7 DEF Resumed, TickType, Pcs
  <2>3. CASE Left(tick, tick.todo \ {d}, UnfinishedBy(tick.today, code)) /\ UNCHANGED monitor
    BY <2>3, <2>1, <1>0, <1>7 DEF Left, TickType, Pcs
  <2>4. CASE tick' = Resumed(d, "mark") /\ d = tick.today /\ UNCHANGED monitor
    BY <2>4, <2>1, <1>0, <1>7 DEF Resumed, TickType, Pcs
  <2> QED  BY <2>1, <2>2, <2>3, <2>4
<1>8. CASE CutOffAlert
  BY <1>8, <1>0, GoesOnTo DEF CutOffAlert, Left
<1>9. CASE RecoverInterrupted
  BY <1>9, <1>0 DEF RecoverInterrupted, TickType, Pcs
<1>10. CASE Interrupted
  <2>1. tick' = [tick EXCEPT !.pc = "mark"] \/ GoesOn(code)  BY <1>10 DEF Interrupted
  <2>2. CASE tick' = [tick EXCEPT !.pc = "mark"]  BY <2>2, <1>0 DEF TickType, Pcs
  <2>3. CASE GoesOn(code)  BY <2>3, <1>0, GoesOnTo DEF Left
  <2> QED  BY <2>1, <2>2, <2>3
<1>11. CASE SkipUnconfirmed
  BY <1>11, <1>0 DEF SkipUnconfirmed
<1>12. CASE MarkDaemon
  BY <1>12, <1>0 DEF MarkDaemon, DueDaemon, TickType, Pcs
<1>13. CASE LaunchDaemon
  <2>1. tick' = [tick EXCEPT !.pc = "child"] \/ tick' = Asleep  BY <1>13 DEF LaunchDaemon
  <2>2. CASE tick' = [tick EXCEPT !.pc = "child"]
    BY <2>2, <1>0 DEF TickType, Pcs
  <2> QED  BY <2>1, <2>2, <1>0
<1>14. CASE LaunchSettle
  <2>1. \/ tick' = [tick EXCEPT !.work = tick.today, !.back = "poll", !.pc = "child"]
        \/ tick' = Asleep
    BY <1>14 DEF LaunchSettle
  <2>2. CASE tick' = [tick EXCEPT !.work = tick.today, !.back = "poll", !.pc = "child"]
    BY <2>2, <1>0 DEF TickType, Pcs
  <2> QED  BY <2>1, <2>2, <1>0
<1>15. CASE LaunchMonitor
  <2>1. tick' = [tick EXCEPT !.pc = "child"] \/ GoesOn(code)  BY <1>15 DEF LaunchMonitor
  <2>2. CASE tick' = [tick EXCEPT !.pc = "child"]  BY <2>2, <1>0 DEF TickType, Pcs
  <2>3. CASE GoesOn(code)  BY <2>3, <1>0, GoesOnTo DEF Left
  <2> QED  BY <2>1, <2>2, <2>3
<1>16. CASE SeesStop
  BY <1>16, <1>0 DEF SeesStop
<1>17. CASE SeesDeadline
  BY <1>17, <1>0 DEF SeesDeadline
<1>18. CASE KillsChild
  BY <1>18, <1>0 DEF KillsChild
<1>19. CASE DaemonKilledByStop
  BY <1>19, <1>0 DEF DaemonKilledByStop
<1>20. CASE RecordDaemon
  BY <1>20, <1>0 DEF RecordDaemon, TickType, Pcs
<1>21. CASE RecoverFailed
  <2>1. tick' = [tick EXCEPT !.pc = "mark", !.today = day, !.now = slot] \/ tick' = Asleep
    BY <1>21 DEF RecoverFailed
  <2>2. CASE tick' = [tick EXCEPT !.pc = "mark", !.today = day, !.now = slot]
    BY <2>2, <1>0 DEF TickType, Pcs
  <2> QED  BY <2>1, <2>2, <1>0
<1>22. CASE DaemonEnded
  BY <1>22, <1>0 DEF DaemonEnded
<1>23. CASE SettleEnded
  BY <1>23, <1>0 DEF SettleEnded
<1>24. CASE MonitorStopped
  BY <1>24, <1>0, GoesOnTo DEF MonitorStopped, Left
<1>25. CASE MonitorLeftEarly
  BY <1>25, <1>0, GoesOnTo DEF MonitorLeftEarly, Left
<1>26. CASE RecordMonitor
  BY <1>26, <1>0 DEF RecordMonitor, TickType, Pcs
<1>27. CASE MonitorEnded
  BY <1>27, <1>0, GoesOnTo DEF MonitorEnded, Left
<1>28. CASE ChildMoves
  BY <1>28, <1>0 DEF ChildMoves
<1>29. CASE Over
  BY <1>29, <1>0 DEF Over, vars
<1>30. CASE CannotWatch
  BY <1>30, <1>0, GoesOnTo DEF CannotWatch, Left
<1> QED
  BY <1>1, <1>2, <1>3, <1>4, <1>5, <1>6, <1>7, <1>8, <1>9, <1>10, <1>11, <1>12, <1>13,
     <1>14, <1>15, <1>16, <1>17, <1>18, <1>19, <1>20, <1>21, <1>22, <1>23, <1>24, <1>25,
     <1>26, <1>27, <1>28, <1>29, <1>30 DEF Next, Ticking, Job

\* ... and a well-typed child
LEMMA ChildTypeOKStep ==
  ASSUME IInv, Next
  PROVE  ChildTypeOK'
<1> USE DEF childVars, ChildTypeOK, ExitCodes, vars
<1>0. ChildTypeOK /\ tick.work \in Days /\ tick.today \in Days /\ tick.now \in Slots
  BY TypeTick, TypeSplit DEF IInv, TickType, RestType
<1>1. CASE StartUp
  BY <1>1, <1>0 DEF StartUp
<1>2. CASE Stop
  BY <1>2, <1>0 DEF Stop
<1>3. CASE Quit
  BY <1>3, <1>0 DEF Quit
<1>4. CASE Die
  BY <1>4, <1>0 DEF Die, NoChild
<1>5. CASE NextSlot
  BY <1>5, <1>0 DEF NextSlot
<1>6. CASE Tick
  BY <1>6, <1>0 DEF Tick
<1>7. CASE ResumeMonitor
  BY <1>7, <1>0 DEF ResumeMonitor
<1>8. CASE CutOffAlert
  BY <1>8, <1>0 DEF CutOffAlert, Alert
<1>9. CASE RecoverInterrupted
  BY <1>9, <1>0 DEF RecoverInterrupted
<1>10. CASE Interrupted
  BY <1>10, <1>0 DEF Interrupted, Alert
<1>11. CASE SkipUnconfirmed
  BY <1>11, <1>0 DEF SkipUnconfirmed
<1>12. CASE MarkDaemon
  BY <1>12, <1>0 DEF MarkDaemon
<1>13. CASE LaunchDaemon
  BY <1>13, <1>0 DEF LaunchDaemon, Launch
<1>14. CASE LaunchSettle
  BY <1>14, <1>0 DEF LaunchSettle, Launch
<1>15. CASE LaunchMonitor
  BY <1>15, <1>0 DEF LaunchMonitor, Launch
<1>16. CASE SeesStop
  BY <1>16, <1>0 DEF SeesStop, Waiting
<1>17. CASE SeesDeadline
  BY <1>17, <1>0 DEF SeesDeadline, Waiting
<1>18. CASE KillsChild
  BY <1>18, <1>0 DEF KillsChild, Waiting, Killed, Ends
<1>19. CASE DaemonKilledByStop
  BY <1>19, <1>0 DEF DaemonKilledByStop, Ended, NoChild
<1>20. CASE RecordDaemon
  BY <1>20, <1>0 DEF RecordDaemon, Ended, Marked
<1>21. CASE RecoverFailed
  BY <1>21, <1>0 DEF RecoverFailed, Ended, NoChild
<1>22. CASE DaemonEnded
  BY <1>22, <1>0 DEF DaemonEnded, Ended, NoChild
<1>23. CASE SettleEnded
  BY <1>23, <1>0 DEF SettleEnded, Ended, NoChild
<1>24. CASE MonitorStopped
  BY <1>24, <1>0 DEF MonitorStopped, Ended, NoChild
<1>25. CASE MonitorLeftEarly
  BY <1>25, <1>0 DEF MonitorLeftEarly, Ended, NoChild
<1>26. CASE RecordMonitor
  BY <1>26, <1>0 DEF RecordMonitor, Ended
<1>27. CASE MonitorEnded
  BY <1>27, <1>0 DEF MonitorEnded, Ended, NoChild
<1>28. CASE ChildMoves
  BY <1>28, <1>0
     DEF ChildMoves, ChildStep, Begins, PreOpenFails, Trades, Tells, Finishes, MonitorEnds,
       MonitorLeaves, SettleEnds, Fails, Sold, Runs, Ends
<1>29. CASE Over
  BY <1>29, <1>0 DEF Over, vars
<1>30. CASE CannotWatch
  BY <1>30, <1>0 DEF CannotWatch, NoChild
<1> QED
  BY <1>1, <1>2, <1>3, <1>4, <1>5, <1>6, <1>7, <1>8, <1>9, <1>10, <1>11, <1>12, <1>13,
     <1>14, <1>15, <1>16, <1>17, <1>18, <1>19, <1>20, <1>21, <1>22, <1>23, <1>24, <1>25,
     <1>26, <1>27, <1>28, <1>29, <1>30 DEF Next, Ticking, Job

\* ... clock
LEMMA ClockTypeStep ==
  ASSUME IInv, Next
  PROVE  ClockType'
<1> USE DEF clockVars, vars, ClockType, Slots, SettleAt
<1>0. ClockType /\ tick.work \in Days /\ tick.today \in Days /\ tick.now \in Slots
  BY TypeTick, TypeSplit DEF IInv, TickType, RestType
<1>1. CASE StartUp
  BY <1>1, <1>0 DEF StartUp
<1>2. CASE Stop
  BY <1>2, <1>0 DEF Stop
<1>3. CASE Quit
  BY <1>3, <1>0 DEF Quit
<1>4. CASE Die
  BY <1>4, <1>0 DEF Die, NoChild
<1>5. CASE NextSlot
  BY <1>5, <1>0 DEF NextSlot
<1>6. CASE Tick
  BY <1>6, <1>0 DEF Tick
<1>7. CASE ResumeMonitor
  BY <1>7, <1>0 DEF ResumeMonitor
<1>8. CASE CutOffAlert
  BY <1>8, <1>0 DEF CutOffAlert, Alert
<1>9. CASE RecoverInterrupted
  BY <1>9, <1>0 DEF RecoverInterrupted
<1>10. CASE Interrupted
  BY <1>10, <1>0 DEF Interrupted, Alert
<1>11. CASE SkipUnconfirmed
  BY <1>11, <1>0 DEF SkipUnconfirmed
<1>12. CASE MarkDaemon
  BY <1>12, <1>0 DEF MarkDaemon
<1>13. CASE LaunchDaemon
  BY <1>13, <1>0 DEF LaunchDaemon, Launch
<1>14. CASE LaunchSettle
  BY <1>14, <1>0 DEF LaunchSettle, Launch
<1>15. CASE LaunchMonitor
  BY <1>15, <1>0 DEF LaunchMonitor, Launch
<1>16. CASE SeesStop
  BY <1>16, <1>0 DEF SeesStop, Waiting
<1>17. CASE SeesDeadline
  BY <1>17, <1>0 DEF SeesDeadline, Waiting
<1>18. CASE KillsChild
  BY <1>18, <1>0 DEF KillsChild, Waiting, Killed, Ends
<1>19. CASE DaemonKilledByStop
  BY <1>19, <1>0 DEF DaemonKilledByStop, Ended, NoChild
<1>20. CASE RecordDaemon
  BY <1>20, <1>0 DEF RecordDaemon, Ended, Marked
<1>21. CASE RecoverFailed
  BY <1>21, <1>0 DEF RecoverFailed, Ended, NoChild
<1>22. CASE DaemonEnded
  BY <1>22, <1>0 DEF DaemonEnded, Ended, NoChild
<1>23. CASE SettleEnded
  BY <1>23, <1>0 DEF SettleEnded, Ended, NoChild
<1>24. CASE MonitorStopped
  BY <1>24, <1>0 DEF MonitorStopped, Ended, NoChild
<1>25. CASE MonitorLeftEarly
  BY <1>25, <1>0 DEF MonitorLeftEarly, Ended, NoChild
<1>26. CASE RecordMonitor
  BY <1>26, <1>0 DEF RecordMonitor, Ended
<1>27. CASE MonitorEnded
  BY <1>27, <1>0 DEF MonitorEnded, Ended, NoChild
<1>28. CASE ChildMoves
  BY <1>28, <1>0
     DEF ChildMoves, ChildStep, Begins, PreOpenFails, Trades, Tells, Finishes, MonitorEnds,
       MonitorLeaves, SettleEnds, Fails, Sold, Runs, Ends
<1>29. CASE Over
  BY <1>29, <1>0 DEF Over, vars
<1>30. CASE CannotWatch
  BY <1>30, <1>0 DEF CannotWatch
<1> QED
  BY <1>1, <1>2, <1>3, <1>4, <1>5, <1>6, <1>7, <1>8, <1>9, <1>10, <1>11, <1>12, <1>13,
     <1>14, <1>15, <1>16, <1>17, <1>18, <1>19, <1>20, <1>21, <1>22, <1>23, <1>24, <1>25,
     <1>26, <1>27, <1>28, <1>29, <1>30 DEF Next, Ticking, Job

\* ... process
LEMMA ProcTypeStep ==
  ASSUME IInv, Next
  PROVE  ProcType'
<1> USE DEF procVars, jobVars, ghostVars, vars, ProcType
<1>0. ProcType /\ tick.work \in Days /\ tick.today \in Days /\ tick.now \in Slots
  BY TypeTick, TypeSplit DEF IInv, TickType, RestType
<1>1. CASE StartUp
  BY <1>1, <1>0 DEF StartUp
<1>2. CASE Stop
  BY <1>2, <1>0 DEF Stop
<1>3. CASE Quit
  BY <1>3, <1>0 DEF Quit
<1>4. CASE Die
  BY <1>4, <1>0 DEF Die, NoChild
<1>5. CASE NextSlot
  BY <1>5, <1>0 DEF NextSlot
<1>6. CASE Tick
  BY <1>6, <1>0 DEF Tick
<1>7. CASE ResumeMonitor
  BY <1>7, <1>0 DEF ResumeMonitor
<1>8. CASE CutOffAlert
  BY <1>8, <1>0 DEF CutOffAlert, Alert
<1>9. CASE RecoverInterrupted
  BY <1>9, <1>0 DEF RecoverInterrupted
<1>10. CASE Interrupted
  BY <1>10, <1>0 DEF Interrupted, Alert
<1>11. CASE SkipUnconfirmed
  BY <1>11, <1>0 DEF SkipUnconfirmed
<1>12. CASE MarkDaemon
  BY <1>12, <1>0 DEF MarkDaemon
<1>13. CASE LaunchDaemon
  BY <1>13, <1>0 DEF LaunchDaemon, Launch
<1>14. CASE LaunchSettle
  BY <1>14, <1>0 DEF LaunchSettle, Launch
<1>15. CASE LaunchMonitor
  BY <1>15, <1>0 DEF LaunchMonitor, Launch
<1>16. CASE SeesStop
  BY <1>16, <1>0 DEF SeesStop, Waiting
<1>17. CASE SeesDeadline
  BY <1>17, <1>0 DEF SeesDeadline, Waiting
<1>18. CASE KillsChild
  BY <1>18, <1>0 DEF KillsChild, Waiting, Killed, Ends
<1>19. CASE DaemonKilledByStop
  BY <1>19, <1>0 DEF DaemonKilledByStop, Ended, NoChild
<1>20. CASE RecordDaemon
  BY <1>20, <1>0 DEF RecordDaemon, Ended, Marked
<1>21. CASE RecoverFailed
  BY <1>21, <1>0 DEF RecoverFailed, Ended, NoChild
<1>22. CASE DaemonEnded
  BY <1>22, <1>0 DEF DaemonEnded, Ended, NoChild
<1>23. CASE SettleEnded
  BY <1>23, <1>0 DEF SettleEnded, Ended, NoChild
<1>24. CASE MonitorStopped
  BY <1>24, <1>0 DEF MonitorStopped, Ended, NoChild
<1>25. CASE MonitorLeftEarly
  BY <1>25, <1>0 DEF MonitorLeftEarly, Ended, NoChild
<1>26. CASE RecordMonitor
  BY <1>26, <1>0 DEF RecordMonitor, Ended
<1>27. CASE MonitorEnded
  BY <1>27, <1>0 DEF MonitorEnded, Ended, NoChild
<1>28. CASE ChildMoves
  BY <1>28, <1>0
     DEF ChildMoves, ChildStep, Begins, PreOpenFails, Trades, Tells, Finishes, MonitorEnds,
       MonitorLeaves, SettleEnds, Fails, Sold, Runs, Ends
<1>29. CASE Over
  BY <1>29, <1>0 DEF Over, vars
<1>30. CASE CannotWatch
  BY <1>30, <1>0 DEF CannotWatch, NoChild
<1> QED
  BY <1>1, <1>2, <1>3, <1>4, <1>5, <1>6, <1>7, <1>8, <1>9, <1>10, <1>11, <1>12, <1>13,
     <1>14, <1>15, <1>16, <1>17, <1>18, <1>19, <1>20, <1>21, <1>22, <1>23, <1>24, <1>25,
     <1>26, <1>27, <1>28, <1>29, <1>30 DEF Next, Ticking, Job

\* ... and markers; nothing else is ever written into them
LEMMA FileTypeStep ==
  ASSUME IInv, Next
  PROVE  FileType'
<1> USE DEF fileVars, vars, FileType, Codes
<1>0. FileType /\ tick.work \in Days /\ tick.today \in Days /\ tick.now \in Slots
  BY TypeTick, TypeSplit DEF IInv, TickType, RestType
<1>1. CASE StartUp
  BY <1>1, <1>0 DEF StartUp
<1>2. CASE Stop
  BY <1>2, <1>0 DEF Stop
<1>3. CASE Quit
  BY <1>3, <1>0 DEF Quit
<1>4. CASE Die
  BY <1>4, <1>0 DEF Die, NoChild
<1>5. CASE NextSlot
  BY <1>5, <1>0 DEF NextSlot
<1>6. CASE Tick
  BY <1>6, <1>0 DEF Tick
<1>7. CASE ResumeMonitor
  BY <1>7, <1>0 DEF ResumeMonitor
<1>8. CASE CutOffAlert
  BY <1>8, <1>0 DEF CutOffAlert, Alert
<1>9. CASE RecoverInterrupted
  BY <1>9, <1>0 DEF RecoverInterrupted
<1>10. CASE Interrupted
  BY <1>10, <1>0 DEF Interrupted, Alert
<1>11. CASE SkipUnconfirmed
  BY <1>11, <1>0 DEF SkipUnconfirmed
<1>12. CASE MarkDaemon
  BY <1>12, <1>0 DEF MarkDaemon
<1>13. CASE LaunchDaemon
  BY <1>13, <1>0 DEF LaunchDaemon, Launch
<1>14. CASE LaunchSettle
  BY <1>14, <1>0 DEF LaunchSettle, Launch
<1>15. CASE LaunchMonitor
  BY <1>15, <1>0 DEF LaunchMonitor, Launch
<1>16. CASE SeesStop
  BY <1>16, <1>0 DEF SeesStop, Waiting
<1>17. CASE SeesDeadline
  BY <1>17, <1>0 DEF SeesDeadline, Waiting
<1>18. CASE KillsChild
  BY <1>18, <1>0 DEF KillsChild, Waiting, Killed, Ends
<1>19. CASE DaemonKilledByStop
  BY <1>19, <1>0 DEF DaemonKilledByStop, Ended, NoChild
<1>20. CASE RecordDaemon
  BY <1>20, <1>0 DEF RecordDaemon, Ended, Marked
<1>21. CASE RecoverFailed
  BY <1>21, <1>0 DEF RecoverFailed, Ended, NoChild
<1>22. CASE DaemonEnded
  BY <1>22, <1>0 DEF DaemonEnded, Ended, NoChild
<1>23. CASE SettleEnded
  BY <1>23, <1>0 DEF SettleEnded, Ended, NoChild
<1>24. CASE MonitorStopped
  BY <1>24, <1>0 DEF MonitorStopped, Ended, NoChild
<1>25. CASE MonitorLeftEarly
  BY <1>25, <1>0 DEF MonitorLeftEarly, Ended, NoChild
<1>26. CASE RecordMonitor
  BY <1>26, <1>0 DEF RecordMonitor, Ended
<1>27. CASE MonitorEnded
  BY <1>27, <1>0 DEF MonitorEnded, Ended, NoChild
<1>28. CASE ChildMoves
  BY <1>28, <1>0
     DEF ChildMoves, ChildStep, Begins, PreOpenFails, Trades, Tells, Finishes, MonitorEnds,
       MonitorLeaves, SettleEnds, Fails, Sold, Runs, Ends
<1>29. CASE Over
  BY <1>29, <1>0 DEF Over, vars
<1>30. CASE CannotWatch
  BY <1>30, <1>0 DEF CannotWatch
<1> QED
  BY <1>1, <1>2, <1>3, <1>4, <1>5, <1>6, <1>7, <1>8, <1>9, <1>10, <1>11, <1>12, <1>13,
     <1>14, <1>15, <1>16, <1>17, <1>18, <1>19, <1>20, <1>21, <1>22, <1>23, <1>24, <1>25,
     <1>26, <1>27, <1>28, <1>29, <1>30 DEF Next, Ticking, Job

\* ... and bounds
LEMMA GhostTypeStep ==
  ASSUME IInv, Next
  PROVE  GhostType'
<1> USE DEF ghostVars, vars, GhostType
<1>0. GhostType /\ tick.work \in Days /\ tick.today \in Days /\ tick.now \in Slots
  BY TypeTick, TypeSplit DEF IInv, TickType, RestType
<1>1. CASE StartUp
  BY <1>1, <1>0 DEF StartUp
<1>2. CASE Stop
  BY <1>2, BoundsAssumption, <1>0 DEF Stop
<1>3. CASE Quit
  BY <1>3, <1>0 DEF Quit
<1>4. CASE Die
  BY <1>4, BoundsAssumption, <1>0 DEF Die, NoChild
<1>5. CASE NextSlot
  BY <1>5, <1>0 DEF NextSlot
<1>6. CASE Tick
  BY <1>6, <1>0 DEF Tick
<1>7. CASE ResumeMonitor
  BY <1>7, <1>0 DEF ResumeMonitor
<1>8. CASE CutOffAlert
  BY <1>8, <1>0 DEF CutOffAlert, Alert
<1>9. CASE RecoverInterrupted
  BY <1>9, <1>0 DEF RecoverInterrupted
<1>10. CASE Interrupted
  BY <1>10, <1>0 DEF Interrupted, Alert
<1>11. CASE SkipUnconfirmed
  BY <1>11, <1>0 DEF SkipUnconfirmed
<1>12. CASE MarkDaemon
  BY <1>12, <1>0 DEF MarkDaemon
<1>13. CASE LaunchDaemon
  BY <1>13, <1>0 DEF LaunchDaemon, Launch
<1>14. CASE LaunchSettle
  BY <1>14, <1>0 DEF LaunchSettle, Launch
<1>15. CASE LaunchMonitor
  BY <1>15, <1>0 DEF LaunchMonitor, Launch
<1>16. CASE SeesStop
  BY <1>16, <1>0 DEF SeesStop, Waiting
<1>17. CASE SeesDeadline
  BY <1>17, <1>0 DEF SeesDeadline, Waiting
<1>18. CASE KillsChild
  BY <1>18, <1>0 DEF KillsChild, Waiting, Killed, Ends
<1>19. CASE DaemonKilledByStop
  BY <1>19, <1>0 DEF DaemonKilledByStop, Ended, NoChild
<1>20. CASE RecordDaemon
  BY <1>20, <1>0 DEF RecordDaemon, Ended, Marked
<1>21. CASE RecoverFailed
  BY <1>21, <1>0 DEF RecoverFailed, Ended, NoChild
<1>22. CASE DaemonEnded
  BY <1>22, <1>0 DEF DaemonEnded, Ended, NoChild
<1>23. CASE SettleEnded
  BY <1>23, <1>0 DEF SettleEnded, Ended, NoChild
<1>24. CASE MonitorStopped
  BY <1>24, <1>0 DEF MonitorStopped, Ended, NoChild
<1>25. CASE MonitorLeftEarly
  BY <1>25, <1>0 DEF MonitorLeftEarly, Ended, NoChild
<1>26. CASE RecordMonitor
  BY <1>26, <1>0 DEF RecordMonitor, Ended
<1>27. CASE MonitorEnded
  BY <1>27, <1>0 DEF MonitorEnded, Ended, NoChild
<1>28. CASE ChildMoves
  BY <1>28, <1>0
     DEF ChildMoves, ChildStep, Begins, PreOpenFails, Trades, Tells, Finishes, MonitorEnds,
       MonitorLeaves, SettleEnds, Fails, Sold, Runs, Ends
<1>29. CASE Over
  BY <1>29, <1>0 DEF Over, vars
<1>30. CASE CannotWatch
  BY <1>30, <1>0 DEF CannotWatch
<1> QED
  BY <1>1, <1>2, <1>3, <1>4, <1>5, <1>6, <1>7, <1>8, <1>9, <1>10, <1>11, <1>12, <1>13,
     <1>14, <1>15, <1>16, <1>17, <1>18, <1>19, <1>20, <1>21, <1>22, <1>23, <1>24, <1>25,
     <1>26, <1>27, <1>28, <1>29, <1>30 DEF Next, Ticking, Job

\* There is a child exactly while the iteration waits for it or has recorded it
LEMMA ChildInvStep ==
  ASSUME IInv, Next
  PROVE  ChildInv'
<1> USE DEF ChildInv, TickType, childVars, procVars, clockVars, jobVars, vars
<1>0. ChildInv /\ TypeOK /\ tick \in TickType
  BY TypeTick DEF IInv
<1>1. CASE StartUp
  BY <1>1, <1>0 DEF StartUp
<1>2. CASE Stop
  BY <1>2, <1>0 DEF Stop
<1>3. CASE Quit
  BY <1>3, <1>0 DEF Quit, At
<1>4. CASE Die
  BY <1>4, <1>0 DEF Die, NoChild, Asleep
<1>5. CASE NextSlot
  BY <1>5, <1>0 DEF NextSlot
<1>6. CASE Tick
  BY <1>6, GoesTick, <1>0 DEF Tick, At, Left, Asleep
<1>7. CASE ResumeMonitor
  <2>1. PICK d \in tick.todo :
           \/ tick' = Resumed(d, "cutoff") /\ monitor' = [monitor EXCEPT ![d] = "done"]
           \/ /\ Left(tick, tick.todo \ {d}, UnfinishedBy(tick.today, code))
              /\ UNCHANGED monitor
           \/ tick' = Resumed(d, "mark") /\ d = tick.today /\ UNCHANGED monitor
    BY <1>0, <1>7, GoesResume
  <2>2. CASE tick' = Resumed(d, "cutoff") /\ monitor' = [monitor EXCEPT ![d] = "done"]
    BY <2>2, <2>1, <1>0, <1>7 DEF Resumed, ResumeMonitor, At
  <2>3. CASE Left(tick, tick.todo \ {d}, UnfinishedBy(tick.today, code)) /\ UNCHANGED monitor
    BY <2>3, <2>1, <1>0, <1>7 DEF Left, ResumeMonitor, At
  <2>4. CASE tick' = Resumed(d, "mark") /\ d = tick.today /\ UNCHANGED monitor
    BY <2>4, <2>1, <1>0, <1>7 DEF Resumed, ResumeMonitor, At
  <2> QED  BY <2>1, <2>2, <2>3, <2>4
<1>8. CASE CutOffAlert
  BY <1>8, GoesOnTo, <1>0 DEF CutOffAlert, At, Alert, Left, Asleep
<1>9. CASE RecoverInterrupted
  BY <1>9, <1>0 DEF RecoverInterrupted, At
<1>10. CASE Interrupted
  BY <1>10, GoesOnTo, <1>0 DEF Interrupted, At, InTime, Alert, Left, Asleep
<1>11. CASE SkipUnconfirmed
  BY <1>11, <1>0 DEF SkipUnconfirmed, DueDaemon, At, Asleep
<1>12. CASE MarkDaemon
  BY <1>12, <1>0 DEF MarkDaemon, DueDaemon, At
<1>13. CASE LaunchDaemon
  BY <1>13, <1>0 DEF LaunchDaemon, At, Launch, Asleep
<1>14. CASE LaunchSettle
  <2>1. \/ /\ Launch("settle")
           /\ tick' = [tick EXCEPT !.work = tick.today, !.back = "poll", !.pc = "child"]
        \/ UNCHANGED childVars /\ tick' = Asleep
    BY <1>14 DEF LaunchSettle
  <2>2. up /\ up' = up /\ tick.pc = "due"  BY <1>14 DEF LaunchSettle, At, procVars
  <2>3. CASE /\ Launch("settle")
             /\ tick' = [tick EXCEPT !.work = tick.today, !.back = "poll", !.pc = "child"]
    BY <2>2, <2>3, <1>0 DEF Launch
  <2>4. CASE UNCHANGED childVars /\ tick' = Asleep
    BY <2>2, <2>4, <1>0 DEF Asleep
  <2> QED  BY <2>1, <2>3, <2>4
<1>15. CASE LaunchMonitor
  BY <1>15, GoesOnTo, <1>0 DEF LaunchMonitor, At, Launch, Left, Asleep
<1>16. CASE SeesStop
  BY <1>16, <1>0 DEF SeesStop, Waiting, At
<1>17. CASE SeesDeadline
  BY <1>17, <1>0 DEF SeesDeadline, Waiting, At
<1>18. CASE KillsChild
  BY <1>18, <1>0 DEF KillsChild, Waiting, At, Killed, Ends
<1>19. CASE DaemonKilledByStop
  BY <1>19, <1>0 DEF DaemonKilledByStop, Ended, At, NoChild, Asleep
<1>20. CASE RecordDaemon
  BY <1>20, <1>0 DEF RecordDaemon, Ended, At, Marked
<1>21. CASE RecoverFailed
  <2>1. tick' = [tick EXCEPT !.pc = "mark", !.today = day, !.now = slot] \/ tick' = Asleep
    BY <1>21 DEF RecoverFailed
  <2>2. CASE tick' = [tick EXCEPT !.pc = "mark", !.today = day, !.now = slot]
    BY <2>2, <1>0, <1>21 DEF RecoverFailed, Ended, At, NoChild
  <2>3. CASE tick' = Asleep
    BY <2>3, <1>0, <1>21 DEF RecoverFailed, Ended, At, NoChild, Asleep
  <2> QED  BY <2>1, <2>2, <2>3
<1>22. CASE DaemonEnded
  BY <1>22, <1>0 DEF DaemonEnded, Ended, At, NoChild, Asleep
<1>23. CASE SettleEnded
  BY <1>23, <1>0 DEF SettleEnded, Ended, NoChild, Asleep
<1>24. CASE MonitorStopped
  BY <1>24, GoesOnTo, <1>0 DEF MonitorStopped, Ended, At, NoChild, Left, Asleep
<1>25. CASE MonitorLeftEarly
  BY <1>25, GoesOnTo, <1>0 DEF MonitorLeftEarly, Ended, At, NoChild, Left, Asleep
<1>26. CASE RecordMonitor
  BY <1>26, <1>0 DEF RecordMonitor, Ended, At
<1>27. CASE MonitorEnded
  BY <1>27, GoesOnTo, <1>0 DEF MonitorEnded, Ended, At, NoChild, Left, Asleep
<1>28. CASE ChildMoves
  BY <1>28, <1>0
     DEF ChildMoves, ChildStep, Begins, PreOpenFails, Trades, Tells, Finishes, MonitorEnds,
       MonitorLeaves, SettleEnds, Fails, Sold, Runs, Ends
<1>29. CASE Over
  BY <1>29, <1>0 DEF Over
<1>30. CASE CannotWatch
  BY <1>30, GoesOnTo, <1>0 DEF CannotWatch, Waiting, At, NoChild, Left, Asleep
<1> QED
  BY <1>1, <1>2, <1>3, <1>4, <1>5, <1>6, <1>7, <1>8, <1>9, <1>10, <1>11, <1>12, <1>13,
     <1>14, <1>15, <1>16, <1>17, <1>18, <1>19, <1>20, <1>21, <1>22, <1>23, <1>24, <1>25,
     <1>26, <1>27, <1>28, <1>29, <1>30 DEF Next, Ticking, Job

\* Only a daemon with its start note, and no PRE_OPEN failure behind it, comes to trade
LEMMA SessionsInvStep ==
  ASSUME IInv, Next
  PROVE  SessionsInv'
<1> USE DEF SessionsInv, fileVars, ghostVars, vars
<1>0. /\ SessionsInv /\ ChildInv /\ ClearInv /\ DaemonInv /\ TodoInv
      /\ FileType /\ GhostType /\ day \in Days /\ tick \in TickType
  BY TypeTick, TypeSplit DEF IInv, MarkersInv, RestType, TypeOK
<1>1. CASE StartUp
  BY <1>1, <1>0 DEF StartUp
<1>2. CASE Stop
  BY <1>2, <1>0 DEF Stop
<1>3. CASE Quit
  BY <1>3, <1>0 DEF Quit
<1>4. CASE Die
  BY <1>4, <1>0 DEF Die
<1>5. CASE NextSlot
  BY <1>5, <1>0 DEF NextSlot
<1>6. CASE Tick
  BY <1>6, <1>0 DEF Tick
<1>7. CASE ResumeMonitor
  BY <1>7, <1>0 DEF ResumeMonitor
<1>8. CASE CutOffAlert
  BY <1>8, <1>0 DEF CutOffAlert
<1>9. CASE RecoverInterrupted
  BY <1>9, <1>0 DEF RecoverInterrupted, At, TodoInv, FileType, GhostType, Codes, TickType
<1>10. CASE Interrupted
  BY <1>10, <1>0 DEF Interrupted
<1>11. CASE SkipUnconfirmed
  BY <1>11, <1>0
     DEF SkipUnconfirmed, DueDaemon, DaemonDue, DaemonMayStart, Skipped, Never, FileType,
       GhostType, Codes, TickType
<1>12. CASE MarkDaemon
  BY <1>12, <1>0
     DEF MarkDaemon, DueDaemon, DaemonDue, DaemonMayStart, Never, Slots, FileType,
       GhostType, Codes, TickType
<1>13. CASE LaunchDaemon
  BY <1>13, <1>0 DEF LaunchDaemon, At, ClearInv, FileType, GhostType, Codes, TickType
<1>14. CASE LaunchSettle
  BY <1>14, <1>0 DEF LaunchSettle
<1>15. CASE LaunchMonitor
  BY <1>15, <1>0 DEF LaunchMonitor
<1>16. CASE SeesStop
  BY <1>16, <1>0 DEF SeesStop
<1>17. CASE SeesDeadline
  BY <1>17, <1>0 DEF SeesDeadline
<1>18. CASE KillsChild
  BY <1>18, <1>0 DEF KillsChild
<1>19. CASE DaemonKilledByStop
  BY <1>19, <1>0 DEF DaemonKilledByStop
<1>20. CASE RecordDaemon
  BY <1>20, <1>0
     DEF RecordDaemon, Ended, At, ChildInv, DaemonInv, Marked, FileType, GhostType, Codes,
       TickType
<1>21. CASE RecoverFailed
  BY <1>21, <1>0 DEF RecoverFailed
<1>22. CASE DaemonEnded
  BY <1>22, <1>0 DEF DaemonEnded
<1>23. CASE SettleEnded
  BY <1>23, <1>0 DEF SettleEnded
<1>24. CASE MonitorStopped
  BY <1>24, <1>0 DEF MonitorStopped
<1>25. CASE MonitorLeftEarly
  BY <1>25, <1>0 DEF MonitorLeftEarly
<1>26. CASE RecordMonitor
  BY <1>26, <1>0 DEF RecordMonitor
<1>27. CASE MonitorEnded
  BY <1>27, <1>0 DEF MonitorEnded
<1>28. CASE ChildMoves
  BY <1>28, <1>0
     DEF ChildMoves, ChildStep, Begins, PreOpenFails, Trades, Tells, Finishes, MonitorEnds,
       MonitorLeaves, SettleEnds, Fails, Sold, Runs, Ends, DaemonInv, ChildInv, FileType,
       GhostType, Codes, TickType
<1>29. CASE Over
  BY <1>29, <1>0 DEF Over
<1>30. CASE CannotWatch
  BY <1>30, <1>0 DEF CannotWatch
<1> QED
  BY <1>1, <1>2, <1>3, <1>4, <1>5, <1>6, <1>7, <1>8, <1>9, <1>10, <1>11, <1>12, <1>13,
     <1>14, <1>15, <1>16, <1>17, <1>18, <1>19, <1>20, <1>21, <1>22, <1>23, <1>24, <1>25,
     <1>26, <1>27, <1>28, <1>29, <1>30 DEF Next, Ticking, Job

\* Between the start note and the launch no time passes
LEMMA ClearInvStep ==
  ASSUME IInv, Next
  PROVE  ClearInv'
<1> USE DEF ClearInv, fileVars, ghostVars, clockVars, vars
<1>0. /\ ClearInv /\ ChildInv /\ SessionsInv /\ NowInv
      /\ FileType /\ GhostType /\ day \in Days /\ tick \in TickType
  BY TypeTick, TypeSplit DEF IInv, MarkersInv, RestType, TypeOK
<1>00. TypeOK  BY DEF IInv
<1>1. CASE StartUp
  BY <1>1, <1>0 DEF StartUp
<1>2. CASE Stop
  BY <1>2, <1>0 DEF Stop
<1>3. CASE Quit
  BY <1>3, <1>0 DEF Quit
<1>4. CASE Die
  BY <1>4, <1>0 DEF Die, Asleep
<1>5. CASE NextSlot
  BY <1>5, <1>0 DEF NextSlot, ChildInv
<1>6. CASE Tick
  BY <1>6, GoesTick, <1>00, <1>0 DEF Tick, Left
<1>7. CASE ResumeMonitor
  <2>1. PICK d \in tick.todo :
           \/ tick' = Resumed(d, "cutoff") /\ monitor' = [monitor EXCEPT ![d] = "done"]
           \/ /\ Left(tick, tick.todo \ {d}, UnfinishedBy(tick.today, code))
              /\ UNCHANGED monitor
           \/ tick' = Resumed(d, "mark") /\ d = tick.today /\ UNCHANGED monitor
    BY <1>0, <1>00, <1>7, GoesResume
  <2>2. CASE tick' = Resumed(d, "cutoff") /\ monitor' = [monitor EXCEPT ![d] = "done"]
    BY <2>2, <2>1, <1>0, <1>00, <1>7 DEF Resumed, TickType
  <2>3. CASE Left(tick, tick.todo \ {d}, UnfinishedBy(tick.today, code)) /\ UNCHANGED monitor
    BY <2>3, <2>1, <1>0, <1>00, <1>7 DEF Left, TickType
  <2>4. CASE tick' = Resumed(d, "mark") /\ d = tick.today /\ UNCHANGED monitor
    BY <2>4, <2>1, <1>0, <1>00, <1>7 DEF Resumed, TickType
  <2> QED  BY <2>1, <2>2, <2>3, <2>4
<1>8. CASE CutOffAlert
  BY <1>8, GoesOnTo, <1>00, <1>0 DEF CutOffAlert, Left, Asleep
<1>9. CASE RecoverInterrupted
  BY <1>9, <1>0 DEF RecoverInterrupted, TickType, Asleep
<1>10. CASE Interrupted
  BY <1>10, GoesOnTo, <1>00, <1>0 DEF Interrupted, Left, Asleep, TickType
<1>11. CASE SkipUnconfirmed
  BY <1>11, <1>0 DEF SkipUnconfirmed, Asleep
<1>12. CASE MarkDaemon
  BY <1>12, <1>0
     DEF MarkDaemon, At, DueDaemon, DaemonDue, DaemonMayStart, Start, LastStart, Slots,
       Closed, NowInv, SessionsInv, Never, FileType, GhostType, Codes, TickType
<1>13. CASE LaunchDaemon
  BY <1>13, <1>0 DEF LaunchDaemon, Launch, TickType, Asleep
<1>14. CASE LaunchSettle
  <2>1. tick'.pc # "clear"
    <3>1. \/ tick' = [tick EXCEPT !.work = tick.today, !.back = "poll", !.pc = "child"]
          \/ tick' = Asleep
      BY <1>14 DEF LaunchSettle
    <3>2. [tick EXCEPT !.work = tick.today, !.back = "poll", !.pc = "child"].pc # "clear"
      BY <1>0 DEF TickType
    <3>3. Asleep.pc # "clear"  BY DEF Asleep
    <3> QED  BY <3>1, <3>2, <3>3
  <2> QED  BY <2>1
<1>15. CASE LaunchMonitor
  BY <1>15, GoesOnTo, <1>00, <1>0 DEF LaunchMonitor, Left, Asleep, TickType
<1>16. CASE SeesStop
  BY <1>16, <1>0 DEF SeesStop
<1>17. CASE SeesDeadline
  BY <1>17, <1>0 DEF SeesDeadline
<1>18. CASE KillsChild
  BY <1>18, <1>0 DEF KillsChild
<1>19. CASE DaemonKilledByStop
  BY <1>19, <1>0 DEF DaemonKilledByStop, Asleep
<1>20. CASE RecordDaemon
  BY <1>20, <1>0 DEF RecordDaemon, TickType, Asleep
<1>21. CASE RecoverFailed
  <2>1. tick'.pc # "clear"
    <3>1. tick' = [tick EXCEPT !.pc = "mark", !.today = day, !.now = slot] \/ tick' = Asleep
      BY <1>21 DEF RecoverFailed
    <3>2. [tick EXCEPT !.pc = "mark", !.today = day, !.now = slot].pc # "clear"
      BY <1>0 DEF TickType
    <3>3. Asleep.pc # "clear"  BY DEF Asleep
    <3> QED  BY <3>1, <3>2, <3>3
  <2> QED  BY <2>1
<1>22. CASE DaemonEnded
  BY <1>22, <1>0 DEF DaemonEnded, Asleep
<1>23. CASE SettleEnded
  BY <1>23, <1>0 DEF SettleEnded, Asleep
<1>24. CASE MonitorStopped
  BY <1>24, GoesOnTo, <1>00, <1>0 DEF MonitorStopped, Left, Asleep
<1>25. CASE MonitorLeftEarly
  BY <1>25, GoesOnTo, <1>00, <1>0 DEF MonitorLeftEarly, Left, Asleep
<1>26. CASE RecordMonitor
  BY <1>26, <1>0 DEF RecordMonitor, TickType, Asleep
<1>27. CASE MonitorEnded
  BY <1>27, GoesOnTo, <1>00, <1>0 DEF MonitorEnded, Left, Asleep
<1>28. CASE ChildMoves
  BY <1>28, <1>0
     DEF ChildMoves, ChildInv, clockVars, ChildStep, Begins, PreOpenFails, Trades, Tells,
       Finishes, MonitorEnds, MonitorLeaves, SettleEnds, Fails, Sold, Runs, Ends
<1>29. CASE Over
  BY <1>29, <1>0 DEF Over
<1>30. CASE CannotWatch
  BY <1>30, GoesOnTo, <1>00, <1>0 DEF CannotWatch, Left, Asleep
<1> QED
  BY <1>1, <1>2, <1>3, <1>4, <1>5, <1>6, <1>7, <1>8, <1>9, <1>10, <1>11, <1>12, <1>13,
     <1>14, <1>15, <1>16, <1>17, <1>18, <1>19, <1>20, <1>21, <1>22, <1>23, <1>24, <1>25,
     <1>26, <1>27, <1>28, <1>29, <1>30 DEF Next, Ticking, Job

\* A running daemon keeps its note, and its day no exit code
LEMMA DaemonInvStep ==
  ASSUME IInv, Next
  PROVE  DaemonInv'
<1> USE DEF DaemonInv, fileVars, ghostVars, childVars, vars
<1>0. /\ DaemonInv /\ ChildInv /\ ClearInv
      /\ FileType /\ GhostType /\ day \in Days /\ tick \in TickType
  BY TypeTick, TypeSplit DEF IInv, MarkersInv, RestType, TypeOK
<1>00. TypeOK  BY DEF IInv
<1>1. CASE StartUp
  BY <1>1, <1>0 DEF StartUp
<1>2. CASE Stop
  BY <1>2, <1>0 DEF Stop
<1>3. CASE Quit
  BY <1>3, <1>0 DEF Quit
<1>4. CASE Die
  BY <1>4, <1>0 DEF Die, NoChild
<1>5. CASE NextSlot
  BY <1>5, <1>0 DEF NextSlot
<1>6. CASE Tick
  BY <1>6, <1>0 DEF Tick, ChildInv, At, DueDaemon, childVars
<1>7. CASE ResumeMonitor
  BY <1>7, <1>0 DEF ResumeMonitor, ChildInv, At, DueDaemon, childVars
<1>8. CASE CutOffAlert
  BY <1>8, <1>0 DEF CutOffAlert, ChildInv, At, DueDaemon, childVars, Alert
<1>9. CASE RecoverInterrupted
  BY <1>9, <1>0 DEF RecoverInterrupted, ChildInv, At, DueDaemon, childVars
<1>10. CASE Interrupted
  BY <1>10, <1>0 DEF Interrupted, ChildInv, At, DueDaemon, childVars, Alert
<1>11. CASE SkipUnconfirmed
  BY <1>11, <1>0 DEF SkipUnconfirmed, ChildInv, At, DueDaemon, childVars
<1>12. CASE MarkDaemon
  BY <1>12, <1>0 DEF MarkDaemon, ChildInv, At, DueDaemon, childVars
<1>13. CASE LaunchDaemon
  BY <1>13, <1>0
     DEF LaunchDaemon, ChildInv, ClearInv, At, Launch, childVars, FileType, GhostType,
       Codes, TickType
<1>14. CASE LaunchSettle
  BY <1>14, <1>0 DEF LaunchSettle, ChildInv, At, Launch, childVars
<1>15. CASE LaunchMonitor
  BY <1>15, <1>0 DEF LaunchMonitor, ChildInv, At, Launch, childVars
<1>16. CASE SeesStop
  BY <1>16, <1>0 DEF SeesStop, childVars
<1>17. CASE SeesDeadline
  BY <1>17, <1>0 DEF SeesDeadline, childVars
<1>18. CASE KillsChild
  BY <1>18, <1>0 DEF KillsChild, Killed, Ends, Marked, Waiting, At
<1>19. CASE DaemonKilledByStop
  BY <1>19, <1>0 DEF DaemonKilledByStop, NoChild
<1>20. CASE RecordDaemon
  BY <1>20, <1>0
     DEF RecordDaemon, Ended, At, Marked, childVars, FileType, GhostType, Codes, TickType
<1>21. CASE RecoverFailed
  BY <1>21, <1>0 DEF RecoverFailed, NoChild
<1>22. CASE DaemonEnded
  BY <1>22, <1>0 DEF DaemonEnded, NoChild
<1>23. CASE SettleEnded
  BY <1>23, <1>0 DEF SettleEnded, NoChild
<1>24. CASE MonitorStopped
  BY <1>24, <1>0 DEF MonitorStopped, NoChild
<1>25. CASE MonitorLeftEarly
  BY <1>25, <1>0 DEF MonitorLeftEarly, NoChild
<1>26. CASE RecordMonitor
  BY <1>26, <1>0 DEF RecordMonitor, Ended, At, childVars
<1>27. CASE MonitorEnded
  BY <1>27, <1>0 DEF MonitorEnded, NoChild
<1>28. CASE ChildMoves
  BY <1>28, <1>0
     DEF ChildMoves, ChildInv, fileVars, ghostVars, FileType, GhostType, TickType,
       ChildStep, Begins, PreOpenFails, Trades, Tells, Finishes, MonitorEnds, MonitorLeaves,
       SettleEnds, Fails, Sold, Runs, Ends
<1>29. CASE Over
  BY <1>29, <1>0 DEF Over
<1>30. CASE CannotWatch
  BY <1>30, <1>0 DEF CannotWatch, NoChild
<1> QED
  BY <1>1, <1>2, <1>3, <1>4, <1>5, <1>6, <1>7, <1>8, <1>9, <1>10, <1>11, <1>12, <1>13,
     <1>14, <1>15, <1>16, <1>17, <1>18, <1>19, <1>20, <1>21, <1>22, <1>23, <1>24, <1>25,
     <1>26, <1>27, <1>28, <1>29, <1>30 DEF Next, Ticking, Job

\* A monitor is marked only for a closed day, and no step opens a closed day again
LEMMA MonitorInvStep ==
  ASSUME IInv, Next
  PROVE  MonitorInv'
<1> USE DEF MonitorInv, Closed, fileVars, vars
<1>0. /\ MonitorInv /\ TodoInv /\ WorkInv /\ ClearInv /\ DaemonInv
      /\ FileType /\ GhostType /\ day \in Days /\ tick \in TickType
  BY TypeTick, TypeSplit DEF IInv, MarkersInv, RestType, TypeOK
<1>1. CASE StartUp
  BY <1>1, <1>0 DEF StartUp
<1>2. CASE Stop
  BY <1>2, <1>0 DEF Stop
<1>3. CASE Quit
  BY <1>3, <1>0 DEF Quit
<1>4. CASE Die
  BY <1>4, <1>0 DEF Die
<1>5. CASE NextSlot
  BY <1>5, <1>0 DEF NextSlot
<1>6. CASE Tick
  BY <1>6, <1>0 DEF Tick
<1>7. CASE ResumeMonitor
  <2>1. PICK d \in tick.todo :
           monitor' = [monitor EXCEPT ![d] = "done"] \/ UNCHANGED monitor
    BY <1>7 DEF ResumeMonitor
  <2>2. monitor[d] # "never" /\ UNCHANGED <<note, code>>
    BY <2>1, <1>0, <1>7 DEF ResumeMonitor, At, TodoInv, InMonitors
  <2> QED  BY <2>1, <2>2, <1>0 DEF FileType
<1>8. CASE CutOffAlert
  BY <1>8, <1>0 DEF CutOffAlert
<1>9. CASE RecoverInterrupted
  BY <1>9, <1>0 DEF RecoverInterrupted, FileType
<1>10. CASE Interrupted
  BY <1>10, <1>0 DEF Interrupted
<1>11. CASE SkipUnconfirmed
  BY <1>11, <1>0
     DEF SkipUnconfirmed, Skipped, Never, Slots, TickType, DueDaemon, DaemonDue,
       DaemonMayStart, FileType
<1>12. CASE MarkDaemon
  BY <1>12, <1>0
     DEF MarkDaemon, Skipped, Never, Slots, TickType, DueDaemon, DaemonDue, DaemonMayStart,
       FileType
<1>13. CASE LaunchDaemon
  BY <1>13, <1>0 DEF LaunchDaemon, At, ClearInv, FileType
<1>14. CASE LaunchSettle
  BY <1>14, <1>0 DEF LaunchSettle
<1>15. CASE LaunchMonitor
  BY <1>15, <1>0 DEF LaunchMonitor, At, WorkInv, FileType
<1>16. CASE SeesStop
  BY <1>16, <1>0 DEF SeesStop
<1>17. CASE SeesDeadline
  BY <1>17, <1>0 DEF SeesDeadline
<1>18. CASE KillsChild
  BY <1>18, <1>0 DEF KillsChild
<1>19. CASE DaemonKilledByStop
  BY <1>19, <1>0 DEF DaemonKilledByStop
<1>20. CASE RecordDaemon
  BY <1>20, <1>0 DEF RecordDaemon, Ended, At, DaemonInv, Marked, FileType
<1>21. CASE RecoverFailed
  BY <1>21, <1>0 DEF RecoverFailed
<1>22. CASE DaemonEnded
  BY <1>22, <1>0 DEF DaemonEnded
<1>23. CASE SettleEnded
  BY <1>23, <1>0 DEF SettleEnded
<1>24. CASE MonitorStopped
  BY <1>24, <1>0 DEF MonitorStopped
<1>25. CASE MonitorLeftEarly
  BY <1>25, <1>0 DEF MonitorLeftEarly
<1>26. CASE RecordMonitor
  BY <1>26, <1>0 DEF RecordMonitor, Ended, At, WorkInv, FileType
<1>27. CASE MonitorEnded
  BY <1>27, <1>0 DEF MonitorEnded
<1>28. CASE ChildMoves
  BY <1>28, <1>0 DEF ChildMoves
<1>29. CASE Over
  BY <1>29, <1>0 DEF Over
<1>30. CASE CannotWatch
  BY <1>30, <1>0 DEF CannotWatch
<1> QED
  BY <1>1, <1>2, <1>3, <1>4, <1>5, <1>6, <1>7, <1>8, <1>9, <1>10, <1>11, <1>12, <1>13,
     <1>14, <1>15, <1>16, <1>17, <1>18, <1>19, <1>20, <1>21, <1>22, <1>23, <1>24, <1>25,
     <1>26, <1>27, <1>28, <1>29, <1>30 DEF Next, Ticking, Job

\* What an iteration has still to handle has its markers
LEMMA TodoInvStep ==
  ASSUME IInv, Next
  PROVE  TodoInv'
<1> USE DEF TodoInv, fileVars, vars
<1>0. /\ TodoInv /\ MonitorInv /\ WorkInv /\ ClearInv
      /\ FileType /\ GhostType /\ day \in Days /\ tick \in TickType
  BY TypeTick, TypeSplit DEF IInv, MarkersInv, RestType, TypeOK
<1>00. TypeOK  BY DEF IInv
<1>1. CASE StartUp
  BY <1>1, <1>0 DEF StartUp, InMonitors
<1>2. CASE Stop
  BY <1>2, <1>0 DEF Stop, InMonitors
<1>3. CASE Quit
  BY <1>3, <1>0 DEF Quit, InMonitors
<1>4. CASE Die
  BY <1>4, <1>0 DEF Die, Asleep, InMonitors
<1>5. CASE NextSlot
  BY <1>5, <1>0 DEF NextSlot, InMonitors
<1>6. CASE Tick
  BY <1>6, GoesTick, Unfinished, <1>00, <1>0
     DEF Tick, Left, UnfinishedMonitors, MonitorInv, Closed, InMonitors
<1>7. CASE ResumeMonitor
  <2>1. PICK d \in tick.todo :
           \/ tick' = Resumed(d, "cutoff") /\ monitor' = [monitor EXCEPT ![d] = "done"]
           \/ /\ Left(tick, tick.todo \ {d}, UnfinishedBy(tick.today, code))
              /\ UNCHANGED monitor
           \/ tick' = Resumed(d, "mark") /\ d = tick.today /\ UNCHANGED monitor
    BY <1>00, <1>7, GoesResume
  <2>2. UNCHANGED <<note, code, kind, day, slot>> /\ tick.pc = "monitors"
    BY <1>7 DEF ResumeMonitor, At, childVars, clockVars
  <2>3. CASE tick' = Resumed(d, "cutoff") /\ monitor' = [monitor EXCEPT ![d] = "done"]
    BY <2>1, <2>2, <2>3, <1>0 DEF Resumed, InMonitors, TickType, FileType
  <2>4. CASE Left(tick, tick.todo \ {d}, UnfinishedBy(tick.today, code)) /\ UNCHANGED monitor
    BY <2>1, <2>2, <2>4, <1>0, Unfinished DEF Left, InMonitors, FileType, MonitorInv, Closed
  <2>5. CASE tick' = Resumed(d, "mark") /\ d = tick.today /\ UNCHANGED monitor
    BY <2>1, <2>2, <2>5, <1>0 DEF Resumed, InMonitors, TickType
  <2> QED  BY <2>1, <2>3, <2>4, <2>5
<1>8. CASE CutOffAlert
  BY <1>8, GoesOnTo, Unfinished, <1>00, <1>0
     DEF CutOffAlert, Left, Asleep, Closed, MonitorInv, At, InMonitors, childVars, TickType,
       Ended, Alert, NoChild
<1>9. CASE RecoverInterrupted
  BY <1>9, <1>0 DEF RecoverInterrupted, InMonitors, TickType
<1>10. CASE Interrupted
  <2>1. tick' = [tick EXCEPT !.pc = "mark"] \/ GoesOn(code)  BY <1>10 DEF Interrupted
  <2>2. CASE tick' = [tick EXCEPT !.pc = "mark"]
    BY <2>2, <1>10, <1>0 DEF Interrupted, At, WorkInv, InMonitors, TickType
  <2>3. CASE GoesOn(code)
    BY <2>3, <1>10, <1>0, <1>00, GoesOnTo, Unfinished
       DEF Interrupted, Left, Asleep, Closed, MonitorInv, At, InMonitors, childVars,
         TickType, WorkInv
  <2> QED  BY <2>1, <2>2, <2>3
<1>11. CASE SkipUnconfirmed
  BY <1>11, <1>0 DEF SkipUnconfirmed, Asleep, InMonitors
<1>12. CASE MarkDaemon
  BY <1>12, <1>0 DEF MarkDaemon, InMonitors, TickType, FileType, Never, Slots
<1>13. CASE LaunchDaemon
  BY <1>13, <1>0 DEF LaunchDaemon, At, ClearInv, InMonitors, TickType, Asleep
<1>14. CASE LaunchSettle
  <2>1. \/ tick' = [tick EXCEPT !.work = tick.today, !.back = "poll", !.pc = "child"]
        \/ tick' = Asleep
    BY <1>14 DEF LaunchSettle
  <2>2. CASE tick' = [tick EXCEPT !.work = tick.today, !.back = "poll", !.pc = "child"]
    BY <2>2, <1>14, <1>0 DEF LaunchSettle, InMonitors, TickType
  <2>3. CASE tick' = Asleep
    BY <2>3 DEF Asleep, InMonitors
  <2> QED  BY <2>1, <2>2, <2>3
<1>15. CASE LaunchMonitor
  <2>1. tick' = [tick EXCEPT !.pc = "child"] \/ GoesOn(code)  BY <1>15 DEF LaunchMonitor
  <2>2. CASE tick' = [tick EXCEPT !.pc = "child"]
    BY <2>2, <1>15, <1>0 DEF LaunchMonitor, At, InMonitors, TickType, FileType
  <2>3. CASE GoesOn(code)
    BY <2>3, <1>15, <1>0, <1>00, GoesOnTo, Unfinished
       DEF LaunchMonitor, Left, Asleep, Closed, MonitorInv, At, InMonitors, childVars,
         TickType, FileType
  <2> QED  BY <2>1, <2>2, <2>3
<1>16. CASE SeesStop
  BY <1>16, <1>0 DEF SeesStop, InMonitors
<1>17. CASE SeesDeadline
  BY <1>17, <1>0 DEF SeesDeadline, InMonitors
<1>18. CASE KillsChild
  BY <1>18, <1>0 DEF KillsChild, InMonitors
<1>19. CASE DaemonKilledByStop
  BY <1>19, <1>0 DEF DaemonKilledByStop, Asleep, InMonitors
<1>20. CASE RecordDaemon
  BY <1>20, <1>0 DEF RecordDaemon, At, InMonitors, TickType
<1>21. CASE RecoverFailed
  <2>1. tick' = [tick EXCEPT !.pc = "mark", !.today = day, !.now = slot] \/ tick' = Asleep
    BY <1>21 DEF RecoverFailed
  <2>2. CASE tick' = [tick EXCEPT !.pc = "mark", !.today = day, !.now = slot]
    BY <2>2, <1>21, <1>0 DEF RecoverFailed, At, InMonitors, TickType
  <2>3. CASE tick' = Asleep
    BY <2>3 DEF Asleep, InMonitors
  <2> QED  BY <2>1, <2>2, <2>3
<1>22. CASE DaemonEnded
  BY <1>22, <1>0 DEF DaemonEnded, Asleep, InMonitors
<1>23. CASE SettleEnded
  BY <1>23, <1>0 DEF SettleEnded, Asleep, InMonitors
<1>24. CASE MonitorStopped
  BY <1>24, GoesOnTo, Unfinished, <1>00, <1>0
     DEF MonitorStopped, Left, Asleep, Closed, MonitorInv, At, InMonitors, childVars,
       TickType, Ended, Alert, NoChild
<1>25. CASE MonitorLeftEarly
  BY <1>25, GoesOnTo, Unfinished, <1>00, <1>0
     DEF MonitorLeftEarly, Left, Asleep, Closed, MonitorInv, At, InMonitors, childVars,
       TickType, Ended, Alert, NoChild
<1>26. CASE RecordMonitor
  BY <1>26, <1>0 DEF RecordMonitor, At, InMonitors, TickType, FileType
<1>27. CASE MonitorEnded
  BY <1>27, GoesOnTo, Unfinished, <1>00, <1>0
     DEF MonitorEnded, Left, Asleep, Closed, MonitorInv, At, InMonitors, childVars,
       TickType, Ended, Alert, NoChild
<1>28. CASE ChildMoves
  BY <1>28, <1>0 DEF ChildMoves, InMonitors
<1>29. CASE Over
  BY <1>29, <1>0 DEF Over, InMonitors
<1>30. CASE CannotWatch
  BY <1>30, GoesOnTo, Unfinished, <1>00, <1>0
     DEF CannotWatch, Waiting, Left, Asleep, Closed, MonitorInv, At, InMonitors, childVars,
       TickType, NoChild
<1> QED
  BY <1>1, <1>2, <1>3, <1>4, <1>5, <1>6, <1>7, <1>8, <1>9, <1>10, <1>11, <1>12, <1>13,
     <1>14, <1>15, <1>16, <1>17, <1>18, <1>19, <1>20, <1>21, <1>22, <1>23, <1>24, <1>25,
     <1>26, <1>27, <1>28, <1>29, <1>30 DEF Next, Ticking, Job

\* The day it works at is closed before its monitor is run
LEMMA WorkInvStep ==
  ASSUME IInv, Next
  PROVE  WorkInv'
<1> USE DEF WorkInv, Closed, fileVars, vars
<1>0. /\ WorkInv /\ ChildInv /\ DaemonInv /\ MonitorInv /\ TodoInv
      /\ FileType /\ GhostType /\ day \in Days /\ tick \in TickType
  BY TypeTick, TypeSplit DEF IInv, MarkersInv, RestType, TypeOK
<1>00. TypeOK  BY DEF IInv
<1>1. CASE StartUp
  BY <1>1, <1>0 DEF StartUp, childVars
<1>2. CASE Stop
  BY <1>2, <1>0 DEF Stop, childVars
<1>3. CASE Quit
  BY <1>3, <1>0 DEF Quit, childVars
<1>4. CASE Die
  BY <1>4, <1>0 DEF Die, Asleep, NoChild
<1>5. CASE NextSlot
  BY <1>5, <1>0 DEF NextSlot, childVars
<1>6. CASE Tick
  BY <1>6, GoesTick, <1>00, <1>0 DEF Tick, Left, ChildInv, At, childVars
<1>7. CASE ResumeMonitor
  <2>1. PICK d \in tick.todo :
           \/ tick' = Resumed(d, "cutoff") /\ monitor' = [monitor EXCEPT ![d] = "done"]
           \/ /\ Left(tick, tick.todo \ {d}, UnfinishedBy(tick.today, code))
              /\ UNCHANGED monitor
           \/ tick' = Resumed(d, "mark") /\ d = tick.today /\ UNCHANGED monitor
    BY <1>00, <1>7, GoesResume
  <2>2. UNCHANGED <<note, code, kind, day, slot>> /\ tick.pc = "monitors"
    BY <1>7 DEF ResumeMonitor, At, childVars, clockVars
  <2>3. CASE tick' = Resumed(d, "cutoff") /\ monitor' = [monitor EXCEPT ![d] = "done"]
    BY <2>1, <2>2, <2>3, <1>0 DEF Resumed, TickType, ChildInv
  <2>4. CASE Left(tick, tick.todo \ {d}, UnfinishedBy(tick.today, code)) /\ UNCHANGED monitor
    BY <2>1, <2>2, <2>4, <1>0 DEF Left, ChildInv
  <2>5. CASE tick' = Resumed(d, "mark") /\ d = tick.today /\ UNCHANGED monitor
    BY <2>1, <2>2, <2>5, <1>0
       DEF Resumed, TickType, ChildInv, MonitorInv, TodoInv, InMonitors, Closed
  <2> QED  BY <2>1, <2>3, <2>4, <2>5
<1>8. CASE CutOffAlert
  BY <1>8, GoesOnTo, <1>00, <1>0 DEF CutOffAlert, Left, Asleep, Alert, ChildInv, At, childVars
<1>9. CASE RecoverInterrupted
  BY <1>9, <1>0 DEF RecoverInterrupted, TickType, FileType, TodoInv, ChildInv, At, childVars
<1>10. CASE Interrupted
  <2>1. \/ tick' = [tick EXCEPT !.pc = "mark"] /\ tick.work = tick.today
        \/ GoesOn(code)
    BY <1>10 DEF Interrupted, InTime
  <2>2. UNCHANGED <<note, code, kind>> /\ tick.pc = "interrupted" /\ kind = "none"
    BY <1>10, <1>0 DEF Interrupted, Alert, At, ChildInv, childVars
  <2>3. CASE tick' = [tick EXCEPT !.pc = "mark"] /\ tick.work = tick.today
    BY <2>2, <2>3, <1>0 DEF TickType
  <2>4. CASE GoesOn(code)
    BY <2>2, <2>4, <1>00, GoesOnTo DEF Left, Asleep
  <2> QED  BY <2>1, <2>3, <2>4
<1>11. CASE SkipUnconfirmed
  BY <1>11, <1>0 DEF SkipUnconfirmed, Asleep, DueDaemon, ChildInv, At, childVars
<1>12. CASE MarkDaemon
  BY <1>12, <1>0 DEF MarkDaemon, TickType, DueDaemon, ChildInv, At, childVars
<1>13. CASE LaunchDaemon
  BY <1>13, <1>0 DEF LaunchDaemon, TickType, Asleep, Launch, ChildInv, At, childVars
<1>14. CASE LaunchSettle
  <2>1. \/ /\ kind' = "settle"
           /\ tick' = [tick EXCEPT !.work = tick.today, !.back = "poll", !.pc = "child"]
        \/ UNCHANGED kind /\ tick' = Asleep
    BY <1>14 DEF LaunchSettle, Launch, childVars
  <2>2. kind = "none"  BY <1>14, <1>0 DEF LaunchSettle, At, ChildInv
  <2>3. CASE /\ kind' = "settle"
             /\ tick' = [tick EXCEPT !.work = tick.today, !.back = "poll", !.pc = "child"]
    BY <2>3, <1>0 DEF TickType
  <2>4. CASE UNCHANGED kind /\ tick' = Asleep
    BY <2>2, <2>4 DEF Asleep
  <2> QED  BY <2>1, <2>3, <2>4
<1>15. CASE LaunchMonitor
  <2>1. \/ kind' = "monitor" /\ tick' = [tick EXCEPT !.pc = "child"]
        \/ UNCHANGED kind /\ GoesOn(code)
    BY <1>15 DEF LaunchMonitor, Launch
  <2>2. UNCHANGED <<note, code>> /\ kind = "none" /\ tick.pc = "mark"
    BY <1>15, <1>0 DEF LaunchMonitor, At, ChildInv
  <2>3. CASE kind' = "monitor" /\ tick' = [tick EXCEPT !.pc = "child"]
    BY <2>2, <2>3, <1>0 DEF TickType
  <2>4. CASE UNCHANGED kind /\ GoesOn(code)
    BY <2>2, <2>4, <1>00, GoesOnTo DEF Left, Asleep
  <2> QED  BY <2>1, <2>3, <2>4
<1>16. CASE SeesStop
  BY <1>16, <1>0 DEF SeesStop
<1>17. CASE SeesDeadline
  BY <1>17, <1>0 DEF SeesDeadline
<1>18. CASE KillsChild
  BY <1>18, <1>0 DEF KillsChild, Killed, Ends
<1>19. CASE DaemonKilledByStop
  BY <1>19, <1>0 DEF DaemonKilledByStop, Asleep, NoChild
<1>20. CASE RecordDaemon
  BY <1>20, <1>0 DEF RecordDaemon, TickType, Ended, childVars
<1>21. CASE RecoverFailed
  <2>1. \/ tick' = [tick EXCEPT !.pc = "mark", !.today = day, !.now = slot] /\ day = tick.work
        \/ tick' = Asleep
    BY <1>21 DEF RecoverFailed
  <2>2. Closed(tick.work) /\ UNCHANGED <<note, code>> /\ kind' = "none"
    BY <1>21, <1>0 DEF RecoverFailed, Ended, At, NoChild, DaemonInv, Marked
  <2>3. CASE tick' = [tick EXCEPT !.pc = "mark", !.today = day, !.now = slot] /\ day = tick.work
    BY <2>2, <2>3, <1>0 DEF TickType
  <2>4. CASE tick' = Asleep
    BY <2>2, <2>4 DEF Asleep
  <2> QED  BY <2>1, <2>3, <2>4
<1>22. CASE DaemonEnded
  BY <1>22, <1>0 DEF DaemonEnded, Asleep, NoChild
<1>23. CASE SettleEnded
  BY <1>23, <1>0 DEF SettleEnded, Asleep, NoChild
<1>24. CASE MonitorStopped
  BY <1>24, GoesOnTo, <1>00, <1>0 DEF MonitorStopped, Left, Asleep, NoChild
<1>25. CASE MonitorLeftEarly
  BY <1>25, GoesOnTo, <1>00, <1>0 DEF MonitorLeftEarly, Left, Asleep, NoChild
<1>26. CASE RecordMonitor
  BY <1>26, <1>0 DEF RecordMonitor, TickType, Ended, childVars
<1>27. CASE MonitorEnded
  BY <1>27, GoesOnTo, <1>00, <1>0 DEF MonitorEnded, Left, Asleep, NoChild
<1>28. CASE ChildMoves
  BY <1>28, <1>0
     DEF ChildMoves, ChildStep, Begins, PreOpenFails, Trades, Tells, Finishes, MonitorEnds,
       MonitorLeaves, SettleEnds, Fails, Sold, Runs, Ends
<1>29. CASE Over
  BY <1>29, <1>0 DEF Over, childVars
<1>30. CASE CannotWatch
  BY <1>30, GoesOnTo, <1>00, <1>0 DEF CannotWatch, Left, Asleep, NoChild
<1> QED
  BY <1>1, <1>2, <1>3, <1>4, <1>5, <1>6, <1>7, <1>8, <1>9, <1>10, <1>11, <1>12, <1>13,
     <1>14, <1>15, <1>16, <1>17, <1>18, <1>19, <1>20, <1>21, <1>22, <1>23, <1>24, <1>25,
     <1>26, <1>27, <1>28, <1>29, <1>30 DEF Next, Ticking, Job

\* An iteration whose time is stale is one that a monitor has kept, of a closed day
LEMMA NowInvStep ==
  ASSUME IInv, Next
  PROVE  NowInv'
<1> USE DEF NowInv, Closed, fileVars, clockVars, vars
<1>0. /\ NowInv /\ ChildInv /\ WorkInv /\ TodoInv
      /\ FileType /\ GhostType /\ day \in Days /\ tick \in TickType
  BY TypeTick, TypeSplit DEF IInv, MarkersInv, RestType, TypeOK
<1>00. TypeOK  BY DEF IInv
<1>1. CASE StartUp
  BY <1>1, <1>0 DEF StartUp
<1>2. CASE Stop
  BY <1>2, <1>0 DEF Stop
<1>3. CASE Quit
  BY <1>3, <1>0 DEF Quit
<1>4. CASE Die
  BY <1>4, <1>0 DEF Die, Asleep
<1>5. CASE NextSlot
  BY <1>5, <1>0 DEF NextSlot, ChildInv
<1>6. CASE Tick
  BY <1>6, GoesTick, <1>00, <1>0 DEF Tick
<1>7. CASE ResumeMonitor
  <2>1. PICK d \in tick.todo :
           \/ tick' = Resumed(d, "cutoff") /\ monitor' = [monitor EXCEPT ![d] = "done"]
           \/ /\ Left(tick, tick.todo \ {d}, UnfinishedBy(tick.today, code))
              /\ UNCHANGED monitor
           \/ tick' = Resumed(d, "mark") /\ d = tick.today /\ UNCHANGED monitor
    BY <1>00, <1>7, GoesResume
  <2>2. UNCHANGED <<note, code, kind, day, slot>> /\ tick.pc = "monitors"
    BY <1>7 DEF ResumeMonitor, At, childVars, clockVars
  <2>3. CASE tick' = Resumed(d, "cutoff") /\ monitor' = [monitor EXCEPT ![d] = "done"]
    BY <2>1, <2>2, <2>3, <1>0 DEF Resumed, TickType
  <2>4. CASE Left(tick, tick.todo \ {d}, UnfinishedBy(tick.today, code)) /\ UNCHANGED monitor
    BY <2>1, <2>2, <2>4, <1>0 DEF Left
  <2>5. CASE tick' = Resumed(d, "mark") /\ d = tick.today /\ UNCHANGED monitor
    BY <2>1, <2>2, <2>5, <1>0 DEF Resumed, TickType
  <2> QED  BY <2>1, <2>3, <2>4, <2>5
<1>8. CASE CutOffAlert
  BY <1>8, GoesOnTo, <1>00, <1>0 DEF CutOffAlert, Left, Asleep, At, TickType
<1>9. CASE RecoverInterrupted
  BY <1>9, <1>0 DEF RecoverInterrupted, At, TickType, FileType, TodoInv
<1>10. CASE Interrupted
  BY <1>10, GoesOnTo, <1>00, <1>0 DEF Interrupted, Left, Asleep, At, TickType
<1>11. CASE SkipUnconfirmed
  BY <1>11, <1>0 DEF SkipUnconfirmed, Asleep
<1>12. CASE MarkDaemon
  BY <1>12, <1>0 DEF MarkDaemon, TickType
<1>13. CASE LaunchDaemon
  BY <1>13, <1>0 DEF LaunchDaemon, TickType, Asleep
<1>14. CASE LaunchSettle
  <2>1. \/ tick' = [tick EXCEPT !.work = tick.today, !.back = "poll", !.pc = "child"]
        \/ tick' = Asleep
    BY <1>14 DEF LaunchSettle
  <2>2. CASE tick' = [tick EXCEPT !.work = tick.today, !.back = "poll", !.pc = "child"]
    BY <2>2, <1>0 DEF TickType
  <2>3. CASE tick' = Asleep
    BY <2>3 DEF Asleep
  <2> QED  BY <2>1, <2>2, <2>3
<1>15. CASE LaunchMonitor
  <2>1. tick' = [tick EXCEPT !.pc = "child"] \/ GoesOn(code)  BY <1>15 DEF LaunchMonitor
  <2>2. CASE tick' = [tick EXCEPT !.pc = "child"]
    BY <2>2, <1>15, <1>0 DEF LaunchMonitor, TickType
  <2>3. CASE GoesOn(code)
    BY <2>3, <1>15, <1>0, <1>00, GoesOnTo, Unfinished
       DEF LaunchMonitor, At, Left, Asleep, WorkInv
  <2> QED  BY <2>1, <2>2, <2>3
<1>16. CASE SeesStop
  BY <1>16, <1>0 DEF SeesStop
<1>17. CASE SeesDeadline
  BY <1>17, <1>0 DEF SeesDeadline
<1>18. CASE KillsChild
  BY <1>18, <1>0 DEF KillsChild
<1>19. CASE DaemonKilledByStop
  BY <1>19, <1>0 DEF DaemonKilledByStop, Asleep
<1>20. CASE RecordDaemon
  BY <1>20, <1>0 DEF RecordDaemon, TickType
<1>21. CASE RecoverFailed
  <2>1. tick' = [tick EXCEPT !.pc = "mark", !.today = day, !.now = slot] \/ tick' = Asleep
    BY <1>21 DEF RecoverFailed
  <2>2. CASE tick' = [tick EXCEPT !.pc = "mark", !.today = day, !.now = slot]
    BY <2>2, <1>0 DEF TickType
  <2>3. CASE tick' = Asleep
    BY <2>3 DEF Asleep
  <2> QED  BY <2>1, <2>2, <2>3
<1>22. CASE DaemonEnded
  BY <1>22, <1>0 DEF DaemonEnded, Asleep
<1>23. CASE SettleEnded
  BY <1>23, <1>0 DEF SettleEnded, Asleep
<1>24. CASE MonitorStopped
  BY <1>24, GoesOnTo, <1>00, <1>0 DEF MonitorStopped, Left, Asleep, Ended, WorkInv
<1>25. CASE MonitorLeftEarly
  BY <1>25, GoesOnTo, <1>00, <1>0 DEF MonitorLeftEarly, Left, Asleep, Ended, WorkInv
<1>26. CASE RecordMonitor
  BY <1>26, <1>0 DEF RecordMonitor, TickType
<1>27. CASE MonitorEnded
  BY <1>27, GoesOnTo, <1>00, <1>0 DEF MonitorEnded, Left, Asleep, Ended, WorkInv
<1>28. CASE ChildMoves
  BY <1>28, <1>0 DEF ChildMoves
<1>29. CASE Over
  BY <1>29, <1>0 DEF Over
<1>30. CASE CannotWatch
  BY <1>30, GoesOnTo, <1>00, <1>0 DEF CannotWatch, Waiting, At, Left, Asleep, WorkInv
<1> QED
  BY <1>1, <1>2, <1>3, <1>4, <1>5, <1>6, <1>7, <1>8, <1>9, <1>10, <1>11, <1>12, <1>13,
     <1>14, <1>15, <1>16, <1>17, <1>18, <1>19, <1>20, <1>21, <1>22, <1>23, <1>24, <1>25,
     <1>26, <1>27, <1>28, <1>29, <1>30 DEF Next, Ticking, Job

-----------------------------------------------------------------------------
(* The theorems. *)

\* The invariant holds at the start
LEMMA InvInit == Init => IInv
<1> SUFFICES ASSUME Init PROVE IInv  OBVIOUS
<1>1. tick = Asleep /\ Asleep \in TickType  BY AsleepType DEF Init
<1>2. TypeOK
  <2>1. ChildTypeOK  BY DEF Init, ChildTypeOK
  <2>2. ClockType  BY DaysAssumption DEF Init, ClockType, Days, Slots, SettleAt
  <2>3. ProcType  BY DEF Init, ProcType
  <2>4. FileType  BY DEF Init, FileType, Codes
  <2>5. deaths \in 0 .. MaxDeaths /\ stops \in 0 .. MaxStops
    BY BoundsAssumption DEF Init
  <2>6. GhostType  BY <2>5 DEF Init, GhostType
  <2> QED  BY <1>1, <2>1, <2>2, <2>3, <2>4, <2>6, TypeSplit DEF RestType
<1>3. ChildInv  BY <1>1 DEF Init, ChildInv, Asleep
<1>4. SessionsInv /\ MonitorInv  BY DEF Init, SessionsInv, MonitorInv
<1>5. ClearInv /\ DaemonInv /\ NowInv
  BY <1>1 DEF Init, ClearInv, DaemonInv, NowInv, Asleep
<1>6. TodoInv /\ WorkInv  BY <1>1 DEF Init, TodoInv, WorkInv, InMonitors, Asleep
<1> QED  BY <1>2, <1>3, <1>4, <1>5, <1>6 DEF IInv, MarkersInv

\* ... and no step breaks it
LEMMA InvStep == IInv /\ [Next]_vars => IInv'
<1> SUFFICES ASSUME IInv, [Next]_vars PROVE IInv'  OBVIOUS
<1>1. CASE Next
  <2>1. TypeOK'
    BY <1>1, TickStep, ChildTypeOKStep, ClockTypeStep, ProcTypeStep, FileTypeStep,
       GhostTypeStep, TypeSplit DEF TypeOK, ChildTypeOK, ClockType, ProcType, FileType,
       GhostType, TickType
  <2>2. ChildInv'  BY <1>1, ChildInvStep
  <2>3. MarkersInv'
    BY <1>1, SessionsInvStep, ClearInvStep, DaemonInvStep, MonitorInvStep, TodoInvStep,
       WorkInvStep, NowInvStep DEF MarkersInv
  <2> QED  BY <2>1, <2>2, <2>3 DEF IInv
<1>2. CASE UNCHANGED vars
  <2> USE <1>2 DEF vars, childVars, clockVars, procVars, fileVars, jobVars, ghostVars
  <2>1. TypeOK'  BY DEF IInv, TypeOK, ChildTypeOK
  <2>2. ChildInv'  BY DEF IInv, ChildInv
  <2>3. SessionsInv' /\ ClearInv' /\ DaemonInv'
    BY DEF IInv, MarkersInv, SessionsInv, ClearInv, DaemonInv
  <2>4. MonitorInv' /\ TodoInv' /\ WorkInv' /\ NowInv'
    BY DEF IInv, MarkersInv, MonitorInv, TodoInv, InMonitors, WorkInv, NowInv, Closed
  <2> QED  BY <2>1, <2>2, <2>3, <2>4 DEF IInv, MarkersInv
<1> QED  BY <1>1, <1>2

\* So it always holds
LEMMA Invariant == Spec => []IInv
BY InvInit, InvStep, PTL DEF Spec

\* The scheduler's state, its markers and its iteration keep their types
THEOREM TypeCorrect == Spec => []TypeOK
<1>1. IInv => TypeOK  BY DEF IInv
<1> QED  BY <1>1, Invariant, PTL

\* However often the host dies between a marker and what it stands for, at most one session
\* of a day gets past PRE_OPEN (_tick, _daemon_may_start, run_job)
THEOREM OneSession == Spec => []OneSessionADay
<1>1. IInv => OneSessionADay
  <2> SUFFICES ASSUME IInv, NEW d \in Days PROVE sessions[d] <= 1
    BY DEF OneSessionADay
  <2>1. sessions[d] \in {0, 1}  BY DEF IInv, MarkersInv, SessionsInv
  <2> QED  BY <2>1
<1> QED  BY <1>1, Invariant, PTL

\* The launch goes by the time the tick read, before it waited for a recovery monitor; the
\* clock still shows the day and its window, because a day that had a monitor is closed
THEOREM InWindow == Spec => LaunchedInWindow
<1> DEFINE A == kind # "daemon" /\ kind' = "daemon" =>
                  slot \in Start .. LastStart - 1 /\ day \in Trading /\ tick.work = day
<1>1. IInv /\ [Next]_vars => [A]_vars
  <2> SUFFICES ASSUME IInv, Next PROVE A  BY DEF A
  <2>1. CASE LaunchDaemon
    BY <2>1 DEF LaunchDaemon, At, IInv, MarkersInv, ClearInv
  <2>2. CASE LaunchSettle \/ LaunchMonitor
    BY <2>2 DEF LaunchSettle, LaunchMonitor, Launch, childVars
  <2>3. CASE ChildMoves
    BY <2>3 DEF ChildMoves, ChildStep, Begins, PreOpenFails, Trades, Tells, Finishes,
       MonitorEnds, MonitorLeaves, SettleEnds, Fails, Sold, Ends
  <2>4. CASE KillsChild
    BY <2>4 DEF KillsChild, Killed, Ends
  <2>5. CASE \/ Die \/ DaemonKilledByStop \/ RecoverFailed \/ DaemonEnded \/ SettleEnded
             \/ MonitorStopped \/ MonitorLeftEarly \/ MonitorEnded \/ CannotWatch
    BY <2>5 DEF CannotWatch, Die, DaemonKilledByStop, RecoverFailed, DaemonEnded, SettleEnded,
       MonitorStopped, MonitorLeftEarly, MonitorEnded, NoChild
  <2>6. CASE UNCHANGED kind
    BY <2>6
  <2>7. CASE \/ StartUp \/ Stop \/ Quit \/ NextSlot \/ Tick \/ ResumeMonitor \/ CutOffAlert
             \/ RecoverInterrupted \/ Interrupted \/ SkipUnconfirmed \/ MarkDaemon
    <3>1. UNCHANGED kind
      BY <2>7 DEF StartUp, Stop, Quit, NextSlot, Tick, ResumeMonitor, CutOffAlert, Alert,
         RecoverInterrupted, Interrupted, SkipUnconfirmed, MarkDaemon, childVars
    <3> QED  BY <3>1
  <2>8. CASE SeesStop \/ SeesDeadline \/ RecordDaemon \/ RecordMonitor \/ Over
    <3>1. UNCHANGED kind
      BY <2>8 DEF SeesStop, SeesDeadline, RecordDaemon, RecordMonitor, Over, vars, childVars
    <3> QED  BY <3>1
  <2> HIDE DEF A
  <2> QED
    BY <2>1, <2>2, <2>3, <2>4, <2>5, <2>7, <2>8 DEF Next, Ticking, Job
<1>2. Spec => [][A]_vars
  BY <1>1, Invariant, PTL DEF Spec
<1> QED  BY <1>2 DEF LaunchedInWindow

-----------------------------------------------------------------------------
(* Positions nobody looks after. *)

\* Somebody was told, or the next tick finds a marker to run a monitor from
Covered == told \/ lost \/ UnfinishedBy(day, code) # {} \/ UnfinishedMonitors # {}

\* A session that runs or has just ended left its marker, and said what it leaves
DaemonMarks ==
    /\ tick.pc = "clear" => note[tick.work] \in Slots
    /\ kind = "daemon" => /\ note[tick.work] \in Slots /\ tick.work <= day
                          /\ tick.back = "poll"
                          /\ rc = "ok" => (exposed => told)

\* So did a monitor, which ends well only when nothing is held
MonitorMarks ==
    kind = "monitor" => /\ tick.pc = "child" => monitor[tick.work] = "started"
                        /\ rc = "ok" => ~exposed

\* Only what a daemon or a monitor left is recorded
RecordedMarks == tick.pc = "recorded" => kind \in {"daemon", "monitor"}

\* Whatever is held is covered, but while the scheduler handles a job it has recorded
CoverInv == exposed => Covered \/ Handling

\* Only live sessions hold anything at the broker
LiveInv == exposed => Live

AttInv == DaemonMarks /\ MonitorMarks /\ RecordedMarks /\ LiveInv /\ CoverInv

\* Each step of an iteration that changes no marker and no child keeps what marks them
LEMMA DaemonMarksStep ==
  ASSUME IInv, DaemonMarks, Next
  PROVE  DaemonMarks'
<1> USE DEF DaemonMarks, fileVars, vars, clockVars
<1>0. /\ DaemonMarks /\ ChildInv /\ ClearInv /\ WorkInv
      /\ FileType /\ day \in Days /\ slot \in Slots /\ tick \in TickType
      /\ tick.work \in Days /\ tick.today \in Days /\ tick.now \in Slots
      /\ Days \subseteq Int
  BY TypeTick, TypeSplit DEF IInv, MarkersInv, RestType, TypeOK, TickType, Days
<1>00. TypeOK  BY DEF IInv
<1>1. CASE StartUp
  BY <1>1, <1>0 DEF StartUp, childVars
<1>2. CASE Stop
  BY <1>2, <1>0 DEF Stop, childVars
<1>3. CASE Quit
  BY <1>3, <1>0 DEF Quit, childVars
<1>4. CASE Die
  BY <1>4, <1>0 DEF Die, Asleep, NoChild
<1>5. CASE NextSlot
  <2>1. tick' = tick /\ note' = note /\ kind' = kind /\ rc' = rc
    BY <1>5 DEF NextSlot, childVars
  <2>0. tick.work \in Int /\ day \in Int
    BY <1>0 DEF Days
  <2>2. CASE UNCHANGED <<day, childVars>>
    BY <2>1, <2>2, <1>0 DEF childVars
  <2>3. CASE day' = day + 1 /\ (exposed' = FALSE \/ UNCHANGED <<exposed, told>>)
    <3>1. tick.work <= day => tick'.work <= day'
      BY <2>0, <2>1, <2>3
    <3>2. (exposed => told) => (exposed' => told')
      BY <2>3
    <3> QED  BY <2>1, <3>1, <3>2, <1>0
  <2> QED  BY <1>5, <2>2, <2>3 DEF NextSlot
<1>6. CASE Tick
  BY <1>6, GoesTick, <1>00, <1>0 DEF Tick, Left, ChildInv, At, childVars
<1>7. CASE ResumeMonitor
  <2>1. PICK d \in tick.todo :
           \/ tick' = Resumed(d, "cutoff") /\ monitor' = [monitor EXCEPT ![d] = "done"]
           \/ /\ Left(tick, tick.todo \ {d}, UnfinishedBy(tick.today, code))
              /\ UNCHANGED monitor
           \/ tick' = Resumed(d, "mark") /\ d = tick.today /\ UNCHANGED monitor
    BY <1>00, <1>7, GoesResume
  <2>2. kind' = "none" /\ tick.pc = "monitors"
    BY <1>7, <1>0 DEF ResumeMonitor, At, childVars, ChildInv
  <2>3. tick'.pc # "clear"
    BY <2>1, <1>0 DEF Resumed, TickType, Left
  <2> QED  BY <2>2, <2>3
<1>8. CASE CutOffAlert
  BY <1>8, GoesOnTo, <1>00, <1>0 DEF CutOffAlert, Left, Asleep, Alert, ChildInv, At
<1>9. CASE RecoverInterrupted
  <2>1. kind' = "none" /\ tick'.pc = "interrupted"
    BY <1>9, <1>0 DEF RecoverInterrupted, TickType, ChildInv, At, childVars
  <2> QED  BY <2>1
<1>10. CASE Interrupted
  <2>1. \/ tick' = [tick EXCEPT !.pc = "mark"]
        \/ GoesOn(code)
    BY <1>10 DEF Interrupted
  <2>2. kind' = "none"
    BY <1>10, <1>0 DEF Interrupted, Alert, At, ChildInv, childVars
  <2>3. tick'.pc # "clear"
    BY <2>1, <1>00, <1>0, GoesOnTo DEF Left, Asleep, TickType
  <2> QED  BY <2>2, <2>3
<1>11. CASE SkipUnconfirmed
  BY <1>11, <1>0 DEF SkipUnconfirmed, Asleep, DueDaemon, ChildInv, At, childVars
<1>12. CASE MarkDaemon
  <2>1. kind' = "none" /\ tick'.work = tick.today /\ note'[tick.today] = tick.now
    BY <1>12, <1>0 DEF MarkDaemon, TickType, FileType, DueDaemon, ChildInv, At, childVars
  <2> QED  BY <2>1, <1>0
<1>13. CASE LaunchDaemon
  <2>1. /\ note' = note /\ day' = day /\ rc = "none" /\ rc' = "none" /\ tick.pc = "clear"
        /\ tick.work = day /\ tick.back = "poll" /\ kind = "none"
    BY <1>13, <1>0 DEF LaunchDaemon, Launch, At, ClearInv, ChildInv, childVars
  <2>2. \/ tick' = [tick EXCEPT !.pc = "child"]
        \/ UNCHANGED kind /\ tick' = Asleep
    BY <1>13 DEF LaunchDaemon, childVars
  <2>3. CASE tick' = [tick EXCEPT !.pc = "child"]
    <3>1. tick'.work = tick.work /\ tick'.back = tick.back /\ tick'.pc = "child"
      BY <2>3, <1>0 DEF TickType
    <3> QED  BY <2>1, <3>1, <1>0
  <2>4. CASE UNCHANGED kind /\ tick' = Asleep
    BY <2>1, <2>4 DEF Asleep
  <2> QED  BY <2>2, <2>3, <2>4
<1>14. CASE LaunchSettle
  <2>1. \/ /\ kind' = "settle"
           /\ tick' = [tick EXCEPT !.work = tick.today, !.back = "poll", !.pc = "child"]
        \/ UNCHANGED kind /\ tick' = Asleep
    BY <1>14 DEF LaunchSettle, Launch, childVars
  <2>2. kind = "none"  BY <1>14, <1>0 DEF LaunchSettle, At, ChildInv
  <2>3. CASE /\ kind' = "settle"
             /\ tick' = [tick EXCEPT !.work = tick.today, !.back = "poll", !.pc = "child"]
    <3>1. tick'.pc = "child"  BY <2>3, <1>0 DEF TickType
    <3> QED  BY <2>3, <3>1
  <2>4. CASE UNCHANGED kind /\ tick' = Asleep
    BY <2>2, <2>4 DEF Asleep
  <2> QED  BY <2>1, <2>3, <2>4
<1>15. CASE LaunchMonitor
  <2>1. \/ kind' = "monitor" /\ tick' = [tick EXCEPT !.pc = "child"]
        \/ UNCHANGED kind /\ GoesOn(code)
    BY <1>15 DEF LaunchMonitor, Launch
  <2>2. kind = "none"  BY <1>15, <1>0 DEF LaunchMonitor, At, ChildInv
  <2>3. kind' # "daemon" /\ tick'.pc # "clear"
    BY <2>1, <2>2, <1>0, <1>00, GoesOnTo DEF TickType, Asleep, Left
  <2> QED  BY <2>3
<1>16. CASE SeesStop
  BY <1>16, <1>0 DEF SeesStop
<1>17. CASE SeesDeadline
  BY <1>17, <1>0 DEF SeesDeadline
<1>18. CASE KillsChild
  BY <1>18, <1>0 DEF KillsChild, Killed, Ends
<1>19. CASE DaemonKilledByStop
  BY <1>19, <1>0 DEF DaemonKilledByStop, Asleep, NoChild
<1>20. CASE RecordDaemon
  <2>1. /\ tick'.work = tick.work /\ tick'.back = tick.back /\ tick'.pc = "recorded"
        /\ UNCHANGED <<kind, rc, exposed, told, note, day>>
    BY <1>20, <1>0 DEF RecordDaemon, TickType, childVars
  <2> QED  BY <2>1, <1>0
<1>21. CASE RecoverFailed
  <2>1. \/ tick' = [tick EXCEPT !.pc = "mark", !.today = day, !.now = slot]
        \/ tick' = Asleep
    BY <1>21 DEF RecoverFailed
  <2>2. kind' = "none"  BY <1>21 DEF RecoverFailed, NoChild
  <2>3. CASE tick' = [tick EXCEPT !.pc = "mark", !.today = day, !.now = slot]
    <3>1. tick'.pc = "mark"  BY <2>3, <1>0 DEF TickType
    <3> QED  BY <2>2, <3>1
  <2>4. CASE tick' = Asleep
    BY <2>2, <2>4 DEF Asleep
  <2> QED  BY <2>1, <2>3, <2>4
<1>22. CASE DaemonEnded
  BY <1>22, <1>0 DEF DaemonEnded, Asleep, NoChild
<1>23. CASE SettleEnded
  BY <1>23, <1>0 DEF SettleEnded, Asleep, NoChild
<1>24. CASE MonitorStopped
  BY <1>24, GoesOnTo, <1>00, <1>0 DEF MonitorStopped, Left, Asleep, NoChild
<1>25. CASE MonitorLeftEarly
  BY <1>25, GoesOnTo, <1>00, <1>0 DEF MonitorLeftEarly, Left, Asleep, NoChild
<1>26. CASE RecordMonitor
  <2>1. kind' = "monitor" /\ tick'.pc = "recorded"
    BY <1>26, <1>0 DEF RecordMonitor, TickType, Ended, childVars
  <2> QED  BY <2>1
<1>27. CASE MonitorEnded
  BY <1>27, GoesOnTo, <1>00, <1>0 DEF MonitorEnded, Left, Asleep, NoChild
<1>28. CASE ChildMoves
  BY <1>28, <1>0
     DEF ChildMoves, ChildStep, Begins, PreOpenFails, Trades, Tells, Finishes, MonitorEnds,
       MonitorLeaves, SettleEnds, Fails, Sold, Runs, Ends, ChildInv
<1>29. CASE Over
  BY <1>29, <1>0 DEF Over, childVars
<1>30. CASE CannotWatch
  BY <1>30, GoesOnTo, <1>00, <1>0 DEF CannotWatch, Left, Asleep, NoChild
<1> QED
  BY <1>1, <1>2, <1>3, <1>4, <1>5, <1>6, <1>7, <1>8, <1>9, <1>10, <1>11, <1>12, <1>13,
     <1>14, <1>15, <1>16, <1>17, <1>18, <1>19, <1>20, <1>21, <1>22, <1>23, <1>24, <1>25,
     <1>26, <1>27, <1>28, <1>29, <1>30 DEF Next, Ticking, Job

\* A monitor leaves its marker until it is recorded, and ends well only when nothing is held
LEMMA MonitorMarksStep ==
  ASSUME IInv, MonitorMarks, Next
  PROVE  MonitorMarks'
<1> USE DEF MonitorMarks, fileVars, vars
<1>0. /\ ChildInv /\ tick \in TickType /\ FileType /\ tick.work \in Days
  BY TypeTick, TypeSplit DEF IInv, RestType, TickType
<1>1. CASE \/ StartUp \/ Stop \/ Quit
  BY <1>1 DEF StartUp, Stop, Quit, childVars
<1>2. CASE \/ Tick \/ ResumeMonitor \/ CutOffAlert \/ RecoverInterrupted \/ Interrupted
           \/ SkipUnconfirmed \/ MarkDaemon
  <2>1. UNCHANGED kind /\ tick.pc \notin {"child", "recorded"}
    BY <1>2 DEF Tick, ResumeMonitor, CutOffAlert, Alert, RecoverInterrupted, Interrupted,
       SkipUnconfirmed, MarkDaemon, DueDaemon, At, childVars
  <2> QED  BY <2>1, <1>0 DEF ChildInv
<1>3. CASE \/ LaunchDaemon \/ LaunchSettle
  <2>1. kind' \in {kind, "daemon", "settle"} /\ tick.pc \notin {"child", "recorded"}
    BY <1>3 DEF LaunchDaemon, LaunchSettle, Launch, At, childVars
  <2> QED  BY <2>1, <1>0 DEF ChildInv
<1>4. CASE LaunchMonitor
  <2>1. rc = "none" /\ kind = "none" /\ monitor' = [monitor EXCEPT ![tick.work] = "started"]
    BY <1>4, <1>0 DEF LaunchMonitor, At, ChildInv
  <2>2. \/ rc' = rc /\ tick' = [tick EXCEPT !.pc = "child"]
        \/ kind' = kind
    BY <1>4 DEF LaunchMonitor, Launch
  <2>3. CASE rc' = rc /\ tick' = [tick EXCEPT !.pc = "child"]
    <3>1. tick'.work = tick.work  BY <2>3, <1>0 DEF TickType
    <3>2. monitor'[tick.work] = "started"  BY <2>1, <1>0 DEF FileType
    <3> QED  BY <2>1, <2>3, <3>1, <3>2
  <2> QED  BY <2>1, <2>2, <2>3
<1>5. CASE \/ Die \/ DaemonKilledByStop \/ RecoverFailed \/ DaemonEnded \/ SettleEnded
           \/ MonitorStopped \/ MonitorLeftEarly \/ MonitorEnded \/ CannotWatch
  BY <1>5 DEF CannotWatch, Die, DaemonKilledByStop, RecoverFailed, DaemonEnded, SettleEnded,
     MonitorStopped, MonitorLeftEarly, MonitorEnded, NoChild
<1>6. CASE RecordDaemon
  BY <1>6 DEF RecordDaemon, Ended, childVars
<1>7. CASE RecordMonitor
  <2>1. tick'.pc = "recorded" /\ UNCHANGED <<kind, rc, exposed>>
    BY <1>7, <1>0 DEF RecordMonitor, TickType, childVars
  <2> QED  BY <2>1
<1>8. CASE NextSlot
  <2>1. UNCHANGED <<kind, rc, tick, monitor>> /\ (exposed' => exposed)
    BY <1>8 DEF NextSlot, childVars
  <2> QED  BY <2>1
<1>9. CASE SeesStop \/ SeesDeadline \/ Over
  BY <1>9 DEF SeesStop, SeesDeadline, Over, childVars
<1>10. CASE KillsChild
  BY <1>10 DEF KillsChild, Killed, Ends
<1>11. CASE ChildMoves
  BY <1>11, <1>0
     DEF ChildMoves, ChildStep, Begins, PreOpenFails, Trades, Tells, Finishes, MonitorEnds,
       MonitorLeaves, SettleEnds, Fails, Sold, Runs, Ends, ChildInv
<1> QED
  BY <1>1, <1>2, <1>3, <1>4, <1>5, <1>6, <1>7, <1>8, <1>9, <1>10, <1>11
     DEF Next, Ticking, Job

\* Only daemons and monitors are recorded
LEMMA RecordedMarksStep ==
  ASSUME IInv, RecordedMarks, Next
  PROVE  RecordedMarks'
<1> USE DEF RecordedMarks, vars
<1>0. TypeOK /\ ChildInv /\ tick \in TickType
  BY TypeTick DEF IInv
<1>1. CASE \/ StartUp \/ Stop \/ Quit \/ NextSlot \/ SeesStop \/ SeesDeadline \/ Over
  BY <1>1 DEF StartUp, Stop, Quit, NextSlot, SeesStop, SeesDeadline, Over, childVars
<1>2. CASE \/ SkipUnconfirmed \/ Die \/ DaemonKilledByStop \/ DaemonEnded \/ SettleEnded
  BY <1>2 DEF SkipUnconfirmed, Die, DaemonKilledByStop, DaemonEnded, SettleEnded, Asleep
<1>3. CASE Tick \/ ResumeMonitor
  BY <1>3, <1>0, GoesTick, GoesResume DEF Left, Resumed, TickType
<1>4. CASE \/ CutOffAlert \/ Interrupted \/ LaunchMonitor \/ MonitorStopped
           \/ MonitorLeftEarly \/ MonitorEnded \/ CannotWatch
  <2>1. GoesOn(code) => tick'.pc # "recorded"
    BY <1>0, GoesOnTo DEF Left, Asleep
  <2>2. tick' = [tick EXCEPT !.pc = "mark"] => tick'.pc # "recorded"
    BY <1>0 DEF TickType
  <2>3. tick' = [tick EXCEPT !.pc = "child"] => tick'.pc # "recorded"
    BY <1>0 DEF TickType
  <2> QED
    BY <1>4, <2>1, <2>2, <2>3 DEF CutOffAlert, Interrupted, LaunchMonitor, MonitorStopped,
       MonitorLeftEarly, MonitorEnded, CannotWatch, Asleep
<1>5. CASE RecoverInterrupted \/ MarkDaemon
  BY <1>5, <1>0 DEF RecoverInterrupted, MarkDaemon, TickType
<1>6. CASE LaunchDaemon
  BY <1>6, <1>0 DEF LaunchDaemon, Asleep, TickType
<1>7. CASE LaunchSettle
  <2>1. CASE tick' = [tick EXCEPT !.work = tick.today, !.back = "poll", !.pc = "child"]
    BY <2>1, <1>0 DEF TickType
  <2>2. CASE tick' = Asleep
    BY <2>2 DEF Asleep
  <2> QED  BY <1>7, <2>1, <2>2 DEF LaunchSettle
<1>8. CASE RecoverFailed
  <2>1. CASE tick' = [tick EXCEPT !.pc = "mark", !.today = day, !.now = slot]
    BY <2>1, <1>0 DEF TickType
  <2>2. CASE tick' = Asleep
    BY <2>2 DEF Asleep
  <2> QED  BY <1>8, <2>1, <2>2 DEF RecoverFailed
<1>9. CASE RecordDaemon \/ RecordMonitor
  BY <1>9 DEF RecordDaemon, RecordMonitor, Ended, childVars
<1>10. CASE KillsChild
  BY <1>10 DEF KillsChild, Killed, Ends
<1>11. CASE ChildMoves
  BY <1>11 DEF ChildMoves, ChildStep, Begins, PreOpenFails, Trades, Tells, Finishes,
     MonitorEnds, MonitorLeaves, SettleEnds, Fails, Sold, Ends
<1> QED
  BY <1>1, <1>2, <1>3, <1>4, <1>5, <1>6, <1>7, <1>8, <1>9, <1>10, <1>11
     DEF Next, Ticking, Job

\* A step that holds more is a live child's
LEMMA LiveInvStep ==
  ASSUME LiveInv, Next
  PROVE  LiveInv'
<1> USE DEF LiveInv, Live, clockVars, childVars
<1>1. CASE ChildMoves
  BY <1>1 DEF ChildMoves
<1>2. CASE NextSlot
  BY <1>2 DEF NextSlot
<1>3. CASE StartUp \/ Stop \/ Quit \/ Die \/ Over \/ CannotWatch
  BY <1>3 DEF StartUp, Stop, Quit, Die, Over, CannotWatch, vars
<1>4. CASE Ticking
  BY <1>4 DEF Ticking, Tick, ResumeMonitor, CutOffAlert, RecoverInterrupted, Interrupted,
     SkipUnconfirmed, MarkDaemon, LaunchDaemon, LaunchSettle, LaunchMonitor, Launch, Alert
<1>5. CASE Job
  BY <1>5 DEF Job, SeesStop, SeesDeadline, KillsChild, Killed, Ends, DaemonKilledByStop,
     RecordDaemon, RecoverFailed, DaemonEnded, SettleEnded, MonitorStopped,
     MonitorLeftEarly, RecordMonitor, MonitorEnded
<1> QED  BY <1>1, <1>2, <1>3, <1>4, <1>5 DEF Next

\* What covers what is held stays: the markers, unless the step records a job
LEMMA StillCovered ==
  ASSUME IInv, Covered, told => told', lost => lost', day' \in {day, day + 1},
         \A d \in UnfinishedBy(day, code) : note'[d] \in Slots /\ code'[d] = "none",
         \A d \in UnfinishedMonitors : monitor'[d] = "started"
  PROVE  Covered'
<1>1. CASE told \/ lost
  BY <1>1 DEF Covered
<1>2. CASE UnfinishedBy(day, code) # {}
  <2>1. PICK d \in UnfinishedBy(day, code) : TRUE  BY <1>2
  <2>2. d \in Days /\ d <= day /\ day \in Int /\ d \in Int /\ day' \in Int
    BY <2>1 DEF UnfinishedBy, IInv, TypeOK, Days
  <2>3. d \in UnfinishedBy(day, code)'
    BY <2>1, <2>2 DEF UnfinishedBy
  <2> QED  BY <2>3 DEF Covered
<1>3. CASE UnfinishedMonitors # {}
  BY <1>3 DEF Covered, UnfinishedMonitors
<1> QED  BY <1>1, <1>2, <1>3 DEF Covered

\* A day whose marker is there covers what is held
LEMMA MarkerCovers ==
  ASSUME NEW d \in Days, (note'[d] \in Slots /\ code'[d] = "none" /\ d <= day')
                         \/ monitor'[d] = "started"
  PROVE  Covered'
BY DEF Covered, UnfinishedBy, UnfinishedMonitors

\* What is held stays covered, or the scheduler is at the job that covers it
LEMMA CoverInvStep ==
  ASSUME IInv, AttInv, Next
  PROVE  CoverInv'
<1> SUFFICES ASSUME exposed' PROVE Covered' \/ Handling'
  BY DEF CoverInv
<1> USE DEF fileVars, ghostVars, clockVars, vars
<1>0. /\ TypeOK /\ tick \in TickType /\ FileType /\ ChildInv /\ DaemonInv /\ WorkInv
      /\ DaemonMarks /\ MonitorMarks /\ RecordedMarks /\ LiveInv /\ CoverInv
      /\ tick.work \in Days /\ day \in Days /\ tick.today \in Days
  BY TypeTick, TypeSplit DEF IInv, MarkersInv, AttInv, RestType, TypeOK, TickType
<1>1. CASE \/ StartUp \/ Stop \/ Quit \/ SeesStop \/ SeesDeadline \/ Over
  <2>1. /\ UNCHANGED <<exposed, told, lost, day, note, code, monitor, tick, rc>>
    BY <1>1 DEF StartUp, Stop, Quit, SeesStop, SeesDeadline, Over, childVars
  <2>2. CASE Handling
    BY <2>1, <2>2 DEF Handling
  <2>3. CASE Covered
    BY <2>1, <2>3, StillCovered DEF UnfinishedBy, UnfinishedMonitors
  <2> QED  BY <2>1, <2>2, <2>3, <1>0 DEF CoverInv
<1>2. CASE Tick \/ LaunchSettle
  <2>1. UNCHANGED <<exposed, lost, day, note, code, monitor>> /\ ~Handling
    BY <1>2 DEF Tick, LaunchSettle, Launch, At, Handling, childVars
  <2>2. told' = (told /\ TRUE) \/ told' = told
    BY <1>2 DEF Tick, LaunchSettle, Launch, childVars
  <2>3. told => told'
    BY <2>2
  <2> QED  BY <2>1, <2>3, <1>0, StillCovered DEF CoverInv, UnfinishedBy, UnfinishedMonitors
<1>3. CASE ResumeMonitor
  <2>1. PICK d \in tick.todo :
           \/ tick' = Resumed(d, "cutoff") /\ monitor' = [monitor EXCEPT ![d] = "done"]
           \/ /\ Left(tick, tick.todo \ {d}, UnfinishedBy(tick.today, code))
              /\ UNCHANGED monitor
           \/ tick' = Resumed(d, "mark") /\ d = tick.today /\ UNCHANGED monitor
    BY <1>0, <1>3, GoesResume
  <2>2. CASE tick' = Resumed(d, "cutoff")
    BY <2>2, <1>0 DEF Resumed, TickType, Handling
  <2>3. CASE UNCHANGED monitor
    <3>1. UNCHANGED <<exposed, told, lost, day, note, code, monitor>> /\ ~Handling
      BY <2>3, <1>3 DEF ResumeMonitor, At, Handling, childVars
    <3> QED  BY <3>1, <1>0, StillCovered DEF CoverInv, UnfinishedBy, UnfinishedMonitors
  <2> QED  BY <2>1, <2>2, <2>3
<1>4. CASE CutOffAlert \/ DaemonKilledByStop \/ MonitorStopped
  BY <1>4 DEF CutOffAlert, Alert, DaemonKilledByStop, MonitorStopped, Covered
<1>5. CASE RecoverInterrupted
  BY <1>5, <1>0 DEF RecoverInterrupted, TickType, Handling
<1>6. CASE Interrupted
  <2>1. CASE tick' = [tick EXCEPT !.pc = "mark"]
    <3>1. tick'.pc = "mark" /\ tick'.back = "daemons"
      BY <2>1, <1>6, <1>0 DEF Interrupted, At, TickType, WorkInv
    <3> QED  BY <3>1 DEF Handling
  <2> QED  BY <2>1, <1>6 DEF Interrupted, Alert, Covered
<1>7. CASE SkipUnconfirmed
  <2>1. /\ UNCHANGED <<exposed, told, lost, day, code, monitor>> /\ ~Handling
        /\ note' = [note EXCEPT ![tick.today] = Skipped]
    BY <1>7 DEF SkipUnconfirmed, DueDaemon, At, Handling, childVars
  <2>4. note[tick.today] \notin Slots \/ code[tick.today] = "preopen"
    BY <1>7 DEF SkipUnconfirmed, DueDaemon, DaemonDue, DaemonMayStart, Never, Slots, SettleAt
  <2>2. \A d \in UnfinishedBy(day, code) : note'[d] = note[d]
    BY <2>1, <2>4, <1>0 DEF UnfinishedBy, FileType
  <2> QED  BY <2>1, <2>2, <1>0, StillCovered DEF CoverInv, UnfinishedBy, UnfinishedMonitors
<1>8. CASE MarkDaemon
  <2>1. /\ UNCHANGED <<exposed, told, lost, day, code, monitor>> /\ ~Handling
        /\ note' = [note EXCEPT ![tick.today] = tick.now] /\ tick.now \in Slots
    BY <1>8, <1>0 DEF MarkDaemon, DueDaemon, At, Handling, childVars, TickType
  <2>2. \A d \in UnfinishedBy(day, code) : note'[d] \in Slots
    BY <2>1, <1>0 DEF UnfinishedBy, FileType
  <2> QED  BY <2>1, <2>2, <1>0, StillCovered DEF CoverInv, UnfinishedBy, UnfinishedMonitors
<1>9. CASE LaunchDaemon
  <2>1. /\ note' = note /\ day' = day /\ tick.work = day /\ note[tick.work] \in Slots
        /\ code' = [code EXCEPT ![tick.work] = "none"]
    BY <1>9, <1>0 DEF LaunchDaemon, At, ClearInv, DaemonMarks, IInv, MarkersInv
  <2>2. note'[tick.work] \in Slots /\ code'[tick.work] = "none" /\ tick.work <= day'
    BY <2>1, <1>0 DEF FileType, Days
  <2> QED  BY <2>2, <1>0, MarkerCovers
<1>10. CASE LaunchMonitor
  <2>1. monitor'[tick.work] = "started"
    BY <1>10, <1>0 DEF LaunchMonitor, FileType
  <2> QED  BY <2>1, <1>0, MarkerCovers
<1>11. CASE Die
  <2>1. UNCHANGED <<exposed, told, day, note, code, monitor>>
        /\ lost' = (lost \/ (exposed /\ Handling))
    BY <1>11 DEF Die
  <2>2. CASE Handling
    <3>1. lost'  BY <2>1, <2>2
    <3> QED  BY <3>1 DEF Covered
  <2>3. CASE Covered
    <3>1. lost => lost'  BY <2>1
    <3> QED
      BY <2>1, <2>3, <3>1, <1>0, StillCovered DEF UnfinishedBy, UnfinishedMonitors
  <2> QED  BY <2>1, <2>2, <2>3, <1>0 DEF CoverInv
<1>12. CASE NextSlot
  <2>1. /\ UNCHANGED <<tick, rc, note, code, monitor, exposed, told, lost>>
        /\ day' \in {day, day + 1}
    BY <1>12 DEF NextSlot, childVars
  <2>2. CASE Handling
    BY <2>1, <2>2 DEF Handling
  <2>3. CASE Covered
    BY <2>1, <2>3, <1>0, StillCovered DEF UnfinishedBy, UnfinishedMonitors
  <2> QED  BY <2>1, <2>2, <2>3, <1>0 DEF CoverInv
<1>13. CASE KillsChild
  <2>1. UNCHANGED <<exposed, told, lost, day, note, code, monitor>> /\ ~Handling
    BY <1>13 DEF KillsChild, Waiting, Killed, Ends, At, Handling
  <2> QED  BY <2>1, <1>0, StillCovered DEF CoverInv, UnfinishedBy, UnfinishedMonitors
<1>14. CASE RecordDaemon
  <2>1. tick'.pc = "recorded" /\ UNCHANGED <<rc, exposed, told, lost>> /\ kind = "daemon"
    BY <1>14, <1>0 DEF RecordDaemon, Ended, TickType, childVars
  <2>2. CASE rc = "ok"
    BY <2>1, <2>2, <1>0 DEF DaemonMarks, Covered
  <2>3. CASE rc # "ok"
    BY <2>1, <2>3 DEF Handling
  <2> QED  BY <2>2, <2>3
<1>15. CASE RecoverFailed
  <2>1. CASE tick' = [tick EXCEPT !.pc = "mark", !.today = day, !.now = slot]
    <3>1. tick'.pc = "mark" /\ tick'.back = "poll"
      BY <2>1, <1>15, <1>0 DEF RecoverFailed, Ended, TickType, DaemonMarks
    <3> QED  BY <3>1 DEF Handling
  <2> QED  BY <2>1, <1>15 DEF RecoverFailed, Covered
<1>16. CASE DaemonEnded
  <2>1. /\ told' = (told \/ (rc = "killed" /\ Live)) /\ UNCHANGED exposed /\ kind = "daemon"
        /\ lost' = (lost \/ (exposed /\ rc \notin {"ok", "killed"}))
    BY <1>16 DEF DaemonEnded, Ended
  <2>2. CASE rc = "ok"  BY <2>1, <2>2, <1>0 DEF DaemonMarks, Covered
  <2>3. CASE rc = "killed"  BY <2>1, <2>3, <1>0 DEF LiveInv, Covered
  <2>4. CASE rc \notin {"ok", "killed"}  BY <2>1, <2>4 DEF Covered
  <2> QED  BY <2>2, <2>3, <2>4
<1>17. CASE SettleEnded
  <2>1. /\ UNCHANGED <<exposed, told, lost, day, note, code, monitor>>
        /\ kind = "settle" /\ tick.pc = "child"
    BY <1>17, <1>0 DEF SettleEnded, Ended, ChildInv, RecordedMarks
  <2>2. ~Handling  BY <2>1 DEF Handling
  <2> QED  BY <2>1, <2>2, <1>0, StillCovered DEF CoverInv, UnfinishedBy, UnfinishedMonitors
<1>18. CASE MonitorLeftEarly
  <2>1. monitor'[tick.work] = "started"
    BY <1>18, <1>0 DEF MonitorLeftEarly, Ended, At, MonitorMarks
  <2> QED  BY <2>1, <1>0, MarkerCovers
<1>19. CASE RecordMonitor
  <2>1. tick'.pc = "recorded" /\ UNCHANGED <<rc, exposed>> /\ kind = "monitor"
    BY <1>19, <1>0 DEF RecordMonitor, Ended, TickType, childVars
  <2> QED  BY <2>1, <1>0 DEF MonitorMarks, Handling
<1>20. CASE MonitorEnded
  <2>1. told' = (told \/ rc # "ok") /\ UNCHANGED exposed /\ kind = "monitor"
    BY <1>20 DEF MonitorEnded, Ended
  <2> QED  BY <2>1, <1>0 DEF MonitorMarks, Covered
<1>21. CASE ChildMoves
  <2>1. CASE Trades
    <3>1. /\ UNCHANGED <<note, code, day>> /\ kind = "daemon" /\ tick.pc = "child"
      BY <2>1, <1>21, <1>0 DEF ChildMoves, Trades, Runs, ChildInv
    <3>2. note'[tick.work] \in Slots /\ code'[tick.work] = "none" /\ tick.work <= day'
      BY <3>1, <1>0 DEF DaemonMarks, DaemonInv
    <3> QED  BY <3>2, <1>0, MarkerCovers
  <2>2. CASE Sold
    BY <2>2 DEF Sold
  <2>3. CASE \/ Begins \/ PreOpenFails \/ Tells \/ Finishes \/ MonitorEnds \/ MonitorLeaves
             \/ SettleEnds \/ Fails
    <3>1. UNCHANGED <<lost, day, note, code, monitor>>
      BY <1>21 DEF ChildMoves
    <3>2. exposed' = exposed /\ (told' = told \/ told' = TRUE) /\ st = "running"
      BY <2>3 DEF Begins, PreOpenFails, Tells, Finishes, MonitorEnds, MonitorLeaves,
         SettleEnds, Fails, Runs, Ends
    <3>3. told => told'
      BY <3>2
    <3>4. ~Handling  BY <3>2, <1>0 DEF Handling, ChildInv
    <3> QED
      BY <3>1, <3>2, <3>3, <3>4, <1>0, StillCovered
         DEF CoverInv, UnfinishedBy, UnfinishedMonitors
  <2> QED  BY <1>21, <2>1, <2>2, <2>3 DEF ChildMoves, ChildStep
<1>22. CASE CannotWatch
  <2>1. UNCHANGED <<exposed, lost, day, note, code, monitor>> /\ tick.pc = "child"
    BY <1>22 DEF CannotWatch, Waiting, At
  <2>2. CASE kind = "daemon"
    <3>1. note'[tick.work] \in Slots /\ code'[tick.work] = "none" /\ tick.work <= day'
      BY <2>1, <2>2, <1>0 DEF DaemonMarks, DaemonInv
    <3> QED  BY <3>1, <1>0, MarkerCovers
  <2>3. CASE kind = "monitor"
    <3>1. monitor'[tick.work] = "started"
      BY <2>1, <2>3, <1>0 DEF MonitorMarks
    <3> QED  BY <3>1, <1>0, MarkerCovers
  <2>4. CASE kind \notin {"daemon", "monitor"}
    <3>1. told' = told /\ ~Handling
      BY <1>22, <2>1, <2>4 DEF CannotWatch, Handling
    <3> QED  BY <2>1, <3>1, <1>0, StillCovered DEF CoverInv, UnfinishedBy, UnfinishedMonitors
  <2> QED  BY <2>2, <2>3, <2>4
<1> QED
  BY <1>1, <1>2, <1>3, <1>4, <1>5, <1>6, <1>7, <1>8, <1>9, <1>10, <1>11, <1>12, <1>13,
     <1>14, <1>15, <1>16, <1>17, <1>18, <1>19, <1>20, <1>21, <1>22 DEF Next, Ticking, Job

\* All of it, on every reachable state
LEMMA Attention == Spec => []AttInv
<1>1. Init => AttInv
  BY DEF Init, AttInv, DaemonMarks, MonitorMarks, RecordedMarks, LiveInv, CoverInv, Asleep
<1>2. IInv /\ AttInv /\ [Next]_vars => AttInv'
  <2> SUFFICES ASSUME IInv, AttInv, [Next]_vars PROVE AttInv'  OBVIOUS
  <2>1. CASE Next
    BY <2>1, DaemonMarksStep, MonitorMarksStep, RecordedMarksStep, LiveInvStep, CoverInvStep
       DEF AttInv
  <2>2. CASE UNCHANGED vars
    BY <2>2 DEF vars, childVars, clockVars, procVars, fileVars, jobVars, ghostVars, AttInv,
       DaemonMarks, MonitorMarks, RecordedMarks, LiveInv, Live, CoverInv, Covered, Handling,
       UnfinishedBy, UnfinishedMonitors
  <2> QED  BY <2>1, <2>2
<1> QED  BY <1>1, <1>2, Invariant, PTL DEF Spec

\* Live positions nobody looks after have a marker from which the next tick runs the recovery
\* monitor, or somebody was told, unless the host died between the marker that a job was
\* handled and what follows from it, or a session failed by itself after a stop or at its
\* deadline (_tick, _recover_interrupted, _resume_recovery_monitor, _recover_failed)
THEOREM AlwaysAttended == Spec => []Attended
<1>1. AttInv => Attended
  BY DEF AttInv, CoverInv, Covered, Attended, Handling, At
<1> QED  BY <1>1, Attention, PTL
=============================================================================
