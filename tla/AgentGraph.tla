------------------------------- MODULE AgentGraph --------------------------------
(***************************************************************************)
(* One ticker's analyses of a day: `TradingAgentsGraph` and the graph that *)
(* GraphSetup builds.  The selected analysts work at the same time, each   *)
(* in rounds of tool calls; when all have filed, Bull and Bear debate, the *)
(* research manager and the trader plan, three risk analysts debate, and   *)
(* the portfolio manager decides.                                          *)
(*                                                                         *)
(* With checkpoints (`checkpoint_enabled`) LangGraph saves the state after *)
(* every step under a thread id, and a run that failed or died goes on     *)
(* from there when it is started again with the same settings.  Nothing    *)
(* keeps two processes from running the same thread.                       *)
(***************************************************************************)
EXTENDS Integers, FiniteSets

CONSTANTS
    Procs,          \* processes that analyze the ticker: daemon, chat, CLI
    Analysts,
    Tooled,         \* the analysts with tools (AnalystNodeSpec.tools)
    Configs,        \* the other settings in the signature: providers, asset, portfolio, ...
    Models,         \* llm_map: a model for each role
    Settings,       \* what runs may be started with
    ToolRounds,     \* max_tool_rounds
    RecurLimit,     \* max_recur_limit
    MaxRuns,        \* bound: runs
    MaxFaults,      \* bound: failures, kills and checkpoints that stay
    None

ASSUME SettingsAssumption ==
    Settings \subseteq [analysts : (SUBSET Analysts) \ {{}}, debate : Nat, risk : Nat,
                        config : Configs, models : Models]
ASSUME ToolsAssumption == Tooled \subseteq Analysts /\ ToolRounds \in Nat \ {0}
\* __init__ refuses other limits
ASSUME LimitAssumption == RecurLimit \in Nat /\ RecurLimit > 2 * ToolRounds + 2
ASSUME BoundsAssumption == MaxRuns \in Nat /\ MaxFaults \in Nat

VARIABLES
    enabled,    \* checkpoint_enabled
    run,        \* each process's run: its settings, state (`work`) and steps
    saved,      \* the latest checkpoint of each thread
    logged,     \* the decision log's entry of the day
    runs, faults,
    \* For the properties, of each thread since its last decision:
    made,       \* model turns made, but for those that a kill took,
    redone,     \* the turns among them of analysts that were begun again; and the
    shared      \* threads that two processes ran at a time (not counted from then on)

vars == <<enabled, run, saved, logged, runs, faults, made, redone, shared>>

Debaters == {"bull", "bear"}
RiskAnalysts == {"aggressive", "conservative", "neutral"}
Speakers == Debaters \cup RiskAnalysts
Nodes == {"analysts", "research manager", "trader", "portfolio manager", "end"} \cup Speakers

Desks == [at : {"not selected", "agent", "tools", "wrap_up", "filed"}, rounds : Nat]

\* Who makes model turns: an analyst, or a node after the analysts
Paid == Analysts \cup {"nodes"}
Turns == [Paid -> Nat]
Nothing == [x \in Paid |-> 0]
Plus(f, g) == [x \in Paid |-> f[x] + g[x]]

\* AgentState: where the graph goes next, the analysts' own graphs, how often each speaker
\* spoke; `by`: the settings of the runs that worked on it, `done`: its model turns
Works == [next : Nodes, desk : [Analysts -> Desks], turns : [Speakers -> Nat],
          by : SUBSET Settings, done : Turns]
ASSUME NoneAssumption == None \notin Works

\* create_initial_state
Blank(s) ==
    [next |-> "analysts",
     desk |-> [a \in Analysts |->
                 [at |-> IF a \in s.analysts THEN "agent" ELSE "not selected", rounds |-> 0]],
     turns |-> [x \in Speakers |-> 0], by |-> {}, done |-> Nothing]

\* (mutant) no signature: the ticker and the date only
ThreadOfDay(s) == "thread"

\* _run_signature: everything but the roles' models
Thread(s) == [analysts |-> s.analysts, debate |-> s.debate, risk |-> s.risk, config |-> s.config]
Threads == {Thread(s) : s \in Settings}

Idle == [pc |-> "idle", set |-> None, steps |-> 0, work |-> None]
Preparing == [pc : {"starting", "resuming"}, set : Settings, steps : {0}, work : {None}]
Running == [pc : {"working", "finished", "recorded"}, set : Settings, steps : Nat, work : Works]

TypeOK ==
    /\ enabled \in BOOLEAN
    /\ run \in [Procs -> Running \cup Preparing \cup {Idle}]
    /\ saved \in [Threads -> Works \cup {None}]
    /\ logged \in [set : Settings, work : Works] \cup {None}
    /\ runs \in 0 .. MaxRuns /\ faults \in 0 .. MaxFaults
    /\ made \in [Threads -> Turns] /\ redone \in [Threads -> Turns] /\ shared \subseteq Threads

Init ==
    /\ enabled \in BOOLEAN
    /\ run = [p \in Procs |-> Idle] /\ saved = [t \in Threads |-> None] /\ logged = None
    /\ runs = 0 /\ faults = 0 /\ shared = {}
    /\ made = [t \in Threads |-> Nothing] /\ redone = [t \in Threads |-> Nothing]

-----------------------------------------------------------------------------
(* Steps of a run. *)

At(p, pc) == run[p].pc = pc
On(p) == Thread(run[p].set)
WorkOf(p) == run[p].work
NextIs(p, node) == At(p, "working") /\ WorkOf(p).next = node
OthersOn(t) == {p \in Procs : ~At(p, "idle") /\ On(p) = t}

Goes(p, to) == run' = [run EXCEPT ![p] = to]

\* The checkpoints that are being written are written before a run ends
Saves(p) == saved' = IF enabled THEN [saved EXCEPT ![On(p)] = WorkOf(p)] ELSE saved

\* The count of a thread becomes n
Counts(count, t, n) == IF t \in shared THEN count ELSE [count EXCEPT ![t] = n]

Faulty == faults < MaxFaults /\ faults' = faults + 1

Unfiled(w) == {a \in Analysts : w.desk[a].at \in {"agent", "tools", "wrap_up"}}

\* propagate: begin_checkpoint, which sees whether there is a checkpoint to resume.  Then
\* create_run_state settles the ticker's earlier decisions, which takes a while
Begin(p, s) ==
    LET t == Thread(s) IN
    /\ At(p, "idle") /\ runs < MaxRuns
    /\ Goes(p, [pc |-> IF enabled /\ saved[t] # None THEN "resuming" ELSE "starting",
                set |-> s, steps |-> 0, work |-> None])
    /\ runs' = runs + 1
    /\ shared' = IF OthersOn(t) = {} THEN shared ELSE shared \cup {t}
    /\ UNCHANGED <<enabled, saved, logged, faults, made, redone>>

\* (mutant) a resumed run is given its initial state again
Anew(p) == Blank(run[p].set)

\* checkpoint_input: what the graph goes on from.  It starts over with an initial state
Resumed(p) == IF At(p, "resuming") THEN saved[On(p)] ELSE Blank(run[p].set)

\* The analysts `again` have no checkpoint of their own graphs, and start over
Without(w, again) ==
    [w EXCEPT !.desk = [a \in Analysts |-> IF a \in again THEN [at |-> "agent", rounds |-> 0]
                                           ELSE w.desk[a]],
              !.done = [x \in Paid |-> IF x \in again THEN 0 ELSE w.done[x]]]

\* invoke() takes the checkpoint up as it is by now
Invoke(p) ==
    LET t == On(p)
        w == Resumed(p) IN
    /\ At(p, "starting") \/ At(p, "resuming")
    /\ w # None
    /\ \E again \in SUBSET Unfiled(w) :
         /\ Goes(p, [pc |-> "working", set |-> run[p].set, steps |-> 0,
                     work |-> [Without(w, again) EXCEPT !.by = @ \cup {run[p].set}]])
         /\ saved' = IF At(p, "resuming") THEN [saved EXCEPT ![t] = Without(w, again)] ELSE saved
         /\ redone' = Counts(redone, t, [x \in Paid |-> IF x \in again THEN redone[t][x] + w.done[x]
                                                         ELSE redone[t][x]])
    /\ UNCHANGED <<enabled, logged, runs, faults, made, shared>>

\* Another process has cleared it meanwhile: LangGraph refuses to run on no input
NothingToResume(p) ==
    /\ At(p, "resuming") /\ saved[On(p)] = None
    /\ Goes(p, Idle)
    /\ UNCHANGED <<enabled, saved, logged, runs, faults, made, redone, shared>>

Counted(done, who) == [x \in Paid |-> IF x \in who THEN done[x] + 1 ELSE done[x]]

\* The run's state becomes w, after n steps of the graph, which its limit allows, and a turn
\* of `who`.  A step's checkpoint is written, at the latest, while the next one runs
Advances(p, w, n, who) ==
    LET after == [w EXCEPT !.done = Counted(@, who)] IN
    /\ n > 0 => run[p].steps + n <= RecurLimit
    /\ Goes(p, [run[p] EXCEPT !.work = after, !.steps = @ + n])
    /\ IF enabled
       THEN /\ \E written \in {WorkOf(p), after} : saved' = [saved EXCEPT ![On(p)] = written]
            /\ made' = Counts(made, On(p), Counted(made[On(p)], who))
       ELSE UNCHANGED <<saved, made>>
    /\ UNCHANGED <<enabled, logged, runs, faults, redone, shared>>

-----------------------------------------------------------------------------
(* The analysts, each a graph of its own. *)

Sits(p, a, at) == NextIs(p, "analysts") /\ WorkOf(p).desk[a].at = at

MovesTo(p, a, at, rounds, who) ==
    Advances(p, [WorkOf(p) EXCEPT !.desk[a] = [at |-> at, rounds |-> rounds]], 0, who)

\* take_turn, _tools_or_done: with tools it may call some, with or without it may file.  Its
\* messages go with it
AgentTurn(p, a) ==
    /\ Sits(p, a, "agent")
    /\ \/ a \in Tooled /\ MovesTo(p, a, "tools", WorkOf(p).desk[a].rounds + 1, {a})
       \/ MovesTo(p, a, "filed", 0, {a})

\* (mutant) one round more
WrapUpLate(rounds) == IF rounds > ToolRounds THEN "wrap_up" ELSE "agent"

\* more_or_wrap_up
MoreOrWrapUp(rounds) == IF rounds >= ToolRounds THEN "wrap_up" ELSE "agent"

RunTools(p, a) ==
    LET rounds == WorkOf(p).desk[a].rounds IN
    /\ Sits(p, a, "tools")
    /\ MovesTo(p, a, MoreOrWrapUp(rounds), rounds, {})

\* Whatever it answers is its report
WrapUp(p, a) ==
    /\ Sits(p, a, "wrap_up")
    /\ MovesTo(p, a, "filed", 0, {a})

\* The edge from the list of analysts waits for all of them
AllFiled(w) == Unfiled(w) = {}

ReportsIn(p) ==
    /\ NextIs(p, "analysts") /\ AllFiled(WorkOf(p))
    /\ Advances(p, [WorkOf(p) EXCEPT !.next = "bull"], 1, {})

-----------------------------------------------------------------------------
(* The debates and the decision. *)

\* should_continue_debate, with the turns made so far
ShouldContinueDebate(s, turns, speaker) ==
    IF turns["bull"] + turns["bear"] >= 2 * s.debate THEN "research manager"
    ELSE IF speaker = "bull" THEN "bear"
    ELSE "bull"

\* should_continue_risk_analysis
ShouldContinueRiskAnalysis(s, turns, speaker) ==
    IF turns["aggressive"] + turns["conservative"] + turns["neutral"] >= 3 * s.risk
    THEN "portfolio manager"
    ELSE IF speaker = "aggressive" THEN "conservative"
    ELSE IF speaker = "conservative" THEN "neutral"
    ELSE "aggressive"

\* The node's turn, after which the graph goes to `next`
Node(p, node, next) ==
    /\ NextIs(p, node)
    /\ Advances(p, [WorkOf(p) EXCEPT !.next = next], 1, {"nodes"})

Speaks(p, speaker) ==
    LET turns == [WorkOf(p).turns EXCEPT ![speaker] = @ + 1]
        next == IF speaker \in Debaters
                THEN ShouldContinueDebate(run[p].set, turns, speaker)
                ELSE ShouldContinueRiskAnalysis(run[p].set, turns, speaker) IN
    /\ NextIs(p, speaker)
    /\ Advances(p, [WorkOf(p) EXCEPT !.next = next, !.turns = turns], 1, {"nodes"})

BullResearcher(p) == Speaks(p, "bull")
BearResearcher(p) == Speaks(p, "bear")
ResearchManager(p) == Node(p, "research manager", "trader")
Trader(p) == Node(p, "trader", "aggressive")
AggressiveAnalyst(p) == Speaks(p, "aggressive")
ConservativeAnalyst(p) == Speaks(p, "conservative")
NeutralAnalyst(p) == Speaks(p, "neutral")
PortfolioManager(p) == Node(p, "portfolio manager", "end")

-----------------------------------------------------------------------------
(* How a run ends. *)

\* GraphRecursionError: __init__ does not hold the debates to the limit
OutOfSteps(p) ==
    /\ At(p, "working") /\ WorkOf(p).next \notin {"analysts", "end"}
    /\ run[p].steps >= RecurLimit
    /\ Goes(p, Idle) /\ Saves(p)
    /\ UNCHANGED <<enabled, logged, runs, faults, made, redone, shared>>

\* invoke() returns
Finish(p) ==
    /\ NextIs(p, "end")
    /\ Goes(p, [run[p] EXCEPT !.pc = "finished"]) /\ Saves(p)
    /\ UNCHANGED <<enabled, logged, runs, faults, made, redone, shared>>

\* record_decision; store_decision keeps the day's entry when there is one, and a decision
\* without text is not stored
Record(p) ==
    /\ At(p, "finished")
    /\ \/ logged = None /\ logged' = [set |-> run[p].set, work |-> WorkOf(p)]
       \/ UNCHANGED logged
    /\ Goes(p, [run[p] EXCEPT !.pc = "recorded"])
    /\ UNCHANGED <<enabled, saved, runs, faults, made, redone, shared>>

\* clear_checkpoint_on_success: an OperationalError leaves the checkpoint, silently
Clear(p) ==
    /\ At(p, "recorded")
    /\ \/ /\ saved' = [saved EXCEPT ![On(p)] = None]
          /\ made' = Counts(made, On(p), Nothing)
          /\ redone' = Counts(redone, On(p), Nothing)
          /\ UNCHANGED faults
       \/ enabled /\ Faulty /\ UNCHANGED <<saved, made, redone>>
    /\ Goes(p, Idle)
    /\ UNCHANGED <<enabled, logged, runs, shared>>

\* The settlement of earlier decisions, a model, a tool, the file of the state or the log fails
Fails(p) ==
    /\ ~At(p, "idle") /\ Faulty
    /\ Goes(p, Idle)
    /\ IF At(p, "working") THEN Saves(p) ELSE UNCHANGED saved
    /\ UNCHANGED <<enabled, logged, runs, made, redone, shared>>

DoneIn(w) == IF w = None THEN Nothing ELSE w.done

\* A kill: what was not written is lost
Dies(p) ==
    /\ ~At(p, "idle") /\ Faulty
    /\ Goes(p, Idle)
    /\ made' = Counts(made, On(p), Plus(DoneIn(saved[On(p)]), redone[On(p)]))
    /\ UNCHANGED <<enabled, saved, logged, runs, redone, shared>>

Step(p) ==
    \/ Invoke(p) \/ NothingToResume(p)
    \/ \E a \in Analysts : AgentTurn(p, a) \/ RunTools(p, a) \/ WrapUp(p, a)
    \/ ReportsIn(p)
    \/ BullResearcher(p) \/ BearResearcher(p) \/ ResearchManager(p) \/ Trader(p)
    \/ AggressiveAnalyst(p) \/ ConservativeAnalyst(p) \/ NeutralAnalyst(p)
    \/ PortfolioManager(p)
    \/ OutOfSteps(p) \/ Finish(p) \/ Record(p) \/ Clear(p)

Next == \E p \in Procs : Step(p) \/ Fails(p) \/ Dies(p) \/ \E s \in Settings : Begin(p, s)

Spec == Init /\ [][Next]_vars

-----------------------------------------------------------------------------
(* Properties. *)

\* The runs whose settings differ in nothing but the roles' models: those share checkpoints
Alike(s) == {t \in Settings : [t EXCEPT !.models = s.models] = s}

Decided == {run[p] : p \in {q \in Procs : At(q, "finished") \/ At(q, "recorded")}}
           \cup (IF logged = None THEN {} ELSE {logged})

\* What a run decides, and what is logged, rests on a report of every analyst it selected and
\* of no other, on as many turns of every speaker as its settings say, and on no work that other
\* settings produced (but for the roles' models): through failures, kills and resumes under any
\* settings, and whatever other processes run
SoundDecision ==
    \A d \in Decided :
       /\ \A a \in Analysts : d.work.desk[a].at = IF a \in d.set.analysts THEN "filed"
                                                  ELSE "not selected"
       /\ d.set.debate > 0 => \A x \in Debaters : d.work.turns[x] = d.set.debate
       /\ d.set.risk > 0 => \A x \in RiskAnalysts : d.work.turns[x] = d.set.risk
       /\ d.work.by \subseteq Alike(d.set)

\* The runs that hold a state of the thread
HeldBy(t) == {p \in OthersOn(t) : WorkOf(p) # None}

\* What a thread's run goes on from, or its next run would
Held(t) == IF HeldBy(t) = {} THEN DoneIn(saved[t])
           ELSE WorkOf(CHOOSE p \in HeldBy(t) : TRUE).done

\* No turn of a model is made twice, whether it calls tools, files or speaks: a run goes on
\* from every turn that earlier runs of its thread made since the thread's last decision, but
\* for the turns of an analyst that had not filed when its run ended and begins again.  Not
\* so for a turn that a kill took, nor when two processes ran the thread at a time
NothingRedone ==
    enabled => \A t \in Threads \ shared : made[t] = Plus(Held(t), redone[t])

\* An analyst ends within the limit of its graph, however many tools its model calls: two steps
\* for each round, its first turn and its wrap-up
AnalystsWithinSteps ==
    \A p \in Procs : At(p, "working") =>
       \A a \in Analysts : 2 * WorkOf(p).desk[a].rounds + 2 < RecurLimit
=============================================================================
