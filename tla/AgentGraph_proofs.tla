---------------------------- MODULE AgentGraph_proofs ----------------------------
(***************************************************************************)
(* Theorems about AgentGraph, for any processes, analysts, settings and    *)
(* limits.                                                                 *)
(*                                                                         *)
(* What a decision rests on follows from an invariant of every state of a  *)
(* run, in memory, in a checkpoint or in the log: the state is one that a  *)
(* single uninterrupted run of its thread could have (`Sound`).  A resume  *)
(* then carries on such a state under settings of the same thread.  That   *)
(* nothing is redone is a matter of counting: MadeInv.                     *)
(***************************************************************************)
EXTENDS AgentGraph, TLAPS

\* A thread's analysts, as far as they are
DeskOk(t, next, a, d) ==
    /\ d.at = "not selected" <=> a \notin t.analysts
    /\ next # "analysts" => d.at \in {"not selected", "filed"}
    /\ d.rounds <= ToolRounds
    /\ d.at = "agent" => d.rounds < ToolRounds

DeskInv(t, w) == \A a \in Analysts : DeskOk(t, w.next, a, w.desk[a])

\* Bull and Bear take turns, until each has spoken `limit` times
DebateOk(limit, next, bull, bear) ==
    /\ next = "analysts" => bull = 0 /\ bear = 0
    /\ next = "bull" => bull = bear /\ (bull = 0 \/ bull + bear < 2 * limit)
    /\ next = "bear" => bull = bear + 1 /\ bull + bear < 2 * limit
    /\ next \notin {"analysts", "bull", "bear"} /\ limit > 0 => bull = limit /\ bear = limit

DebateInv(t, w) == DebateOk(t.debate, w.next, w.turns["bull"], w.turns["bear"])

\* The risk analysts take turns, until each has spoken `limit` times
RiskOk(limit, next, x, y, z) ==
    /\ next \in {"analysts", "bull", "bear", "research manager", "trader"} =>
          x = 0 /\ y = 0 /\ z = 0
    /\ next = "aggressive" => x = y /\ y = z /\ (x = 0 \/ x + y + z < 3 * limit)
    /\ next = "conservative" => x = y + 1 /\ y = z /\ x + y + z < 3 * limit
    /\ next = "neutral" => x = y /\ y = z + 1 /\ x + y + z < 3 * limit
    /\ next \in {"portfolio manager", "end"} /\ limit > 0 =>
          x = limit /\ y = limit /\ z = limit

RiskInv(t, w) ==
    RiskOk(t.risk, w.next, w.turns["aggressive"], w.turns["conservative"], w.turns["neutral"])

Sound(t, w) ==
    /\ w \in Works
    /\ DeskInv(t, w) /\ DebateInv(t, w) /\ RiskInv(t, w)
    /\ \A s \in w.by : Thread(s) = t

RunOk(r) ==
    r \in Running => /\ Sound(Thread(r.set), r.work)
                     /\ r.pc # "working" => r.work.next = "end"

WorkInv ==
    /\ \A p \in Procs : RunOk(run[p])
    /\ \A t \in Threads : saved[t] # None => Sound(t, saved[t])
    /\ logged # None => Sound(Thread(logged.set), logged.work) /\ logged.work.next = "end"

IInv == TypeOK /\ WorkInv

-----------------------------------------------------------------------------
(* States of a run. *)

\* A thread names what the signature keeps of the settings.
LEMMA ThreadType ==
    ASSUME NEW s \in Settings
    PROVE  /\ Thread(s) \in Threads
           /\ Thread(s).analysts = s.analysts /\ Thread(s).analysts \subseteq Analysts
           /\ Thread(s).debate = s.debate /\ Thread(s).debate \in Nat
           /\ Thread(s).risk = s.risk /\ Thread(s).risk \in Nat
BY SettingsAssumption DEF Thread, Threads

\* Every thread is that of some settings.
LEMMA ThreadsType ==
    ASSUME NEW t \in Threads
    PROVE  t.debate \in Nat /\ t.risk \in Nat /\ t.analysts \subseteq Analysts
BY ThreadType DEF Threads

\* No turns
LEMMA NothingType == Nothing \in Turns /\ Plus(Nothing, Nothing) = Nothing
BY DEF Turns, Nothing, Plus

\* Turns are added and counted turn by turn.
LEMMA TurnsType ==
    ASSUME NEW f \in Turns, NEW g \in Turns, NEW who
    PROVE  /\ Counted(f, who) \in Turns /\ Plus(f, g) \in Turns
           /\ Plus(Counted(f, who), g) = Counted(Plus(f, g), who)
BY DEF Turns, Plus, Counted

\* A new run is sound.
LEMMA BlankSound ==
    ASSUME NEW s \in Settings
    PROVE  Sound(Thread(s), Blank(s)) /\ Blank(s).done = Nothing
<1>1. Blank(s) \in Works
  BY DEF Blank, Works, Nodes, Desks, Speakers, Debaters, RiskAnalysts, Turns, Nothing
<1>2. DeskInv(Thread(s), Blank(s))
  <2> SUFFICES ASSUME NEW a \in Analysts
               PROVE  DeskOk(Thread(s), "analysts", a, Blank(s).desk[a])
    BY DEF DeskInv, Blank
  <2> DEFINE d == [at |-> IF a \in s.analysts THEN "agent" ELSE "not selected", rounds |-> 0]
  <2>1. Blank(s).desk[a] = d  BY DEF Blank
  <2>2. Thread(s).analysts = s.analysts  BY ThreadType
  <2>3. DeskOk(Thread(s), "analysts", a, d)
    BY <2>2, ToolsAssumption DEF DeskOk
  <2> QED  BY <2>1, <2>3
<1>3. DebateInv(Thread(s), Blank(s)) /\ RiskInv(Thread(s), Blank(s))
  BY DEF DebateInv, RiskInv, DebateOk, RiskOk, Blank, Speakers, Debaters, RiskAnalysts
<1> QED  BY <1>1, <1>2, <1>3 DEF Sound, Blank

\* A model's turn is counted
LEMMA DoneSound ==
    ASSUME NEW t \in Threads, NEW w \in Works, Sound(t, w), NEW who
    PROVE  /\ [w EXCEPT !.done = Counted(@, who)] \in Works
           /\ Sound(t, [w EXCEPT !.done = Counted(@, who)])
           /\ [w EXCEPT !.done = Counted(@, who)].next = w.next
<1> DEFINE v == [w EXCEPT !.done = Counted(@, who)]
<1>1. v \in Works
  <2>1. w.done \in Turns  BY DEF Works
  <2>2. Counted(w.done, who) \in Turns  BY <2>1, TurnsType
  <2>3. \A f \in Turns : [w EXCEPT !.done = f] \in Works  BY DEF Works
  <2> QED  BY <2>2, <2>3
<1>2. v.next = w.next /\ v.turns = w.turns /\ v.by = w.by /\ v.desk = w.desk
  BY DEF Works
<1> HIDE DEF v
<1>3. DeskInv(t, v)  BY <1>2 DEF Sound, DeskInv
<1>4. DebateInv(t, v) /\ RiskInv(t, v)  BY <1>2 DEF Sound, DebateInv, RiskInv
<1>5. Sound(t, v)  BY <1>1, <1>2, <1>3, <1>4 DEF Sound
<1> QED  BY <1>1, <1>2, <1>5 DEF v

\* An analyst that has not filed moves
LEMMA MoveSound ==
    ASSUME NEW t \in Threads, NEW w \in Works, Sound(t, w), w.next = "analysts",
           NEW a \in Analysts, a \in t.analysts,
           NEW at \in {"agent", "tools", "wrap_up", "filed"}, NEW rounds \in 0 .. ToolRounds,
           at = "agent" => rounds < ToolRounds
    PROVE  Sound(t, [w EXCEPT !.desk[a] = [at |-> at, rounds |-> rounds]])
<1> DEFINE d == [at |-> at, rounds |-> rounds]
           v == [w EXCEPT !.desk[a] = d]
<1>1. d \in Desks /\ d.at = at /\ d.rounds = rounds
  <2>1. rounds \in Nat  BY ToolsAssumption
  <2> QED  BY <2>1 DEF Desks
<1> HIDE DEF d
<1>2. /\ v \in Works /\ v.next = w.next /\ v.turns = w.turns /\ v.by = w.by
      /\ v.desk = [w.desk EXCEPT ![a] = d]
  BY <1>1 DEF Works
<1> HIDE DEF v
<1>3. DeskInv(t, v)
  <2> SUFFICES ASSUME NEW b \in Analysts
               PROVE  DeskOk(t, v.next, b, v.desk[b])
    BY DEF DeskInv
  <2>1. w.desk \in [Analysts -> Desks]  BY DEF Works
  <2>2. CASE b = a
    <3>1. v.desk[b] = d  BY <1>2, <2>1, <2>2
    <3>2. v.next = "analysts"  BY <1>2
    <3>3. DeskOk(t, "analysts", a, d)
      <4>1. d.at # "not selected"  BY <1>1
      <4>2. d.rounds <= ToolRounds  BY <1>1, ToolsAssumption
      <4>3. d.at = "agent" => d.rounds < ToolRounds  BY <1>1, ToolsAssumption
      <4> QED  BY <4>1, <4>2, <4>3 DEF DeskOk
    <3> QED  BY <2>2, <3>1, <3>2, <3>3
  <2>3. CASE b # a
    <3>1. v.desk[b] = w.desk[b]  BY <1>2, <2>1, <2>3
    <3>2. DeskOk(t, w.next, b, w.desk[b])  BY DEF Sound, DeskInv
    <3> QED  BY <1>2, <3>1, <3>2
  <2> QED  BY <2>2, <2>3
<1>4. DebateInv(t, v) /\ RiskInv(t, v)
  BY <1>2 DEF Sound, DebateInv, RiskInv
<1>5. Sound(t, v)
  BY <1>2, <1>3, <1>4 DEF Sound
<1> QED  BY <1>5 DEF v, d

\* A desk, unfolded
LEMMA DeskFacts ==
    ASSUME NEW t \in Threads, NEW w \in Works, Sound(t, w), NEW a \in Analysts
    PROVE  /\ w.desk[a] \in Desks
           /\ DeskOk(t, w.next, a, w.desk[a])
           /\ w.desk[a].at = "not selected" <=> a \notin t.analysts
           /\ w.desk[a].rounds \in 0 .. ToolRounds
           /\ w.desk[a].at = "agent" => w.desk[a].rounds < ToolRounds
<1> DEFINE d == w.desk[a]
<1>1. d \in Desks  BY DEF Works
<1>2. DeskOk(t, w.next, a, d)  BY DEF Sound, DeskInv
<1> HIDE DEF d
<1>3. /\ d.at = "not selected" <=> a \notin t.analysts
      /\ d.at = "agent" => d.rounds < ToolRounds
  BY <1>2 DEF DeskOk
<1>4. d.rounds \in 0 .. ToolRounds
  <2>1. d.rounds \in Nat  BY <1>1 DEF Desks
  <2>2. d.rounds <= ToolRounds  BY <1>2 DEF DeskOk
  <2> QED  BY <2>1, <2>2, ToolsAssumption
<1> QED  BY <1>1, <1>2, <1>3, <1>4 DEF d

\* The debate opens when all have filed
LEMMA ReportsSound ==
    ASSUME NEW t \in Threads, NEW w \in Works, Sound(t, w), w.next = "analysts", AllFiled(w)
    PROVE  Sound(t, [w EXCEPT !.next = "bull"])
<1> DEFINE v == [w EXCEPT !.next = "bull"]
<1>1. /\ v \in Works /\ v.next = "bull" /\ v.turns = w.turns /\ v.by = w.by
      /\ v.desk = w.desk
  BY DEF Works, Nodes, Speakers, Debaters
<1> HIDE DEF v
<1>2. DeskInv(t, v)
  <2> SUFFICES ASSUME NEW a \in Analysts
               PROVE  DeskOk(t, "bull", a, w.desk[a])
    BY <1>1 DEF DeskInv
  <2> DEFINE d == w.desk[a]
  <2>1. d \in Desks  BY DEF Works
  <2>2. d.at \notin {"agent", "tools", "wrap_up"}  BY DEF AllFiled, Unfiled
  <2>3. DeskOk(t, w.next, a, d)  BY DEF Sound, DeskInv
  <2> HIDE DEF d
  <2>4. DeskOk(t, "bull", a, d)  BY <2>1, <2>2, <2>3 DEF DeskOk, Desks
  <2> QED  BY <2>4 DEF d
<1>3. DebateInv(t, v) /\ RiskInv(t, v)
  BY <1>1 DEF Sound, DebateInv, RiskInv, DebateOk, RiskOk
<1>4. Sound(t, v)  BY <1>1, <1>2, <1>3 DEF Sound
<1> QED  BY <1>4 DEF v

\* Past the analysts, the desks stay as they are
LEMMA DesksStay ==
    ASSUME NEW t \in Threads, NEW w \in Works, NEW v \in Works, DeskInv(t, w),
           w.next # "analysts", v.next # "analysts", v.desk = w.desk
    PROVE  DeskInv(t, v)
<1> SUFFICES ASSUME NEW a \in Analysts
             PROVE  DeskOk(t, v.next, a, w.desk[a])
  BY DEF DeskInv
<1>1. DeskOk(t, w.next, a, w.desk[a])  BY DEF DeskInv
<1> DEFINE d == w.desk[a]
<1> HIDE DEF d
<1>2. DeskOk(t, w.next, a, d)  BY <1>1 DEF d
<1>3. DeskOk(t, v.next, a, d)  BY <1>2 DEF DeskOk
<1> QED  BY <1>3 DEF d

\* The managers and the trader
LEMMA NodeSound ==
    ASSUME NEW t \in Threads, NEW w \in Works, Sound(t, w), NEW next,
           \/ w.next = "research manager" /\ next = "trader"
           \/ w.next = "trader" /\ next = "aggressive"
           \/ w.next = "portfolio manager" /\ next = "end"
    PROVE  Sound(t, [w EXCEPT !.next = next])
<1> DEFINE v == [w EXCEPT !.next = next]
<1>1. /\ v \in Works /\ v.next = next /\ v.turns = w.turns /\ v.by = w.by
      /\ v.desk = w.desk
  BY DEF Works, Nodes, Speakers, RiskAnalysts
<1> HIDE DEF v
<1>2. DeskInv(t, v)  BY <1>1, DesksStay DEF Sound
<1>3. DebateInv(t, v) /\ RiskInv(t, v)
  BY <1>1 DEF Sound, DebateInv, RiskInv, DebateOk, RiskOk
<1>4. Sound(t, v)  BY <1>1, <1>2, <1>3 DEF Sound
<1> QED  BY <1>4 DEF v

\* The turns of a debate, in numbers
LEMMA DebateTurns ==
    ASSUME NEW d \in Nat, NEW a \in Nat, NEW b \in Nat
    PROVE  /\ DebateOk(d, "bull", a, b) =>
                DebateOk(d, IF a + 1 + b >= 2 * d THEN "research manager" ELSE "bear", a + 1, b)
           /\ DebateOk(d, "bear", a, b) =>
                DebateOk(d, IF a + (b + 1) >= 2 * d THEN "research manager" ELSE "bull", a, b + 1)
BY DEF DebateOk

\* The turns of the risk analysts, in numbers
LEMMA RiskTurns ==
    ASSUME NEW r \in Nat, NEW x \in Nat, NEW y \in Nat, NEW z \in Nat
    PROVE  /\ RiskOk(r, "aggressive", x, y, z) =>
                RiskOk(r, IF x + 1 + y + z >= 3 * r THEN "portfolio manager" ELSE "conservative",
                       x + 1, y, z)
           /\ RiskOk(r, "conservative", x, y, z) =>
                RiskOk(r, IF x + (y + 1) + z >= 3 * r THEN "portfolio manager" ELSE "neutral",
                       x, y + 1, z)
           /\ RiskOk(r, "neutral", x, y, z) =>
                RiskOk(r, IF x + y + (z + 1) >= 3 * r THEN "portfolio manager" ELSE "aggressive",
                       x, y, z + 1)
BY DEF RiskOk

\* One debate's turns leave the other's numbers as they are
LEMMA OtherDebate ==
    ASSUME NEW n, NEW a, NEW b, NEW x, NEW y, NEW z
    PROVE  /\ \A speaker \in RiskAnalysts, next \in RiskAnalysts \cup {"portfolio manager"} :
                 DebateOk(n, speaker, a, b) => DebateOk(n, next, a, b)
           /\ \A speaker \in Debaters, next \in Debaters \cup {"research manager"} :
                 RiskOk(n, speaker, x, y, z) => RiskOk(n, next, x, y, z)
BY DEF DebateOk, RiskOk, Debaters, RiskAnalysts

\* Debaters and risk analysts
LEMMA SpeaksSound ==
    ASSUME NEW s \in Settings, NEW w \in Works, Sound(Thread(s), w), NEW speaker \in Speakers,
           w.next = speaker
    PROVE  LET turns == [w.turns EXCEPT ![speaker] = @ + 1]
               next == IF speaker \in Debaters
                       THEN ShouldContinueDebate(s, turns, speaker)
                       ELSE ShouldContinueRiskAnalysis(s, turns, speaker) IN
           Sound(Thread(s), [w EXCEPT !.next = next, !.turns = turns])
<1> DEFINE t == Thread(s)
           turns == [w.turns EXCEPT ![speaker] = @ + 1]
           next == IF speaker \in Debaters
                   THEN ShouldContinueDebate(s, turns, speaker)
                   ELSE ShouldContinueRiskAnalysis(s, turns, speaker)
           v == [w EXCEPT !.next = next, !.turns = turns]
<1>1. t \in Threads /\ t.debate = s.debate /\ t.risk = s.risk /\ s.debate \in Nat
      /\ s.risk \in Nat
  BY ThreadType
<1>2. w.turns \in [Speakers -> Nat] /\ turns \in [Speakers -> Nat]
  BY DEF Works
<1>3. next \in Nodes /\ next # "analysts"
  BY DEF Nodes, Speakers, Debaters, RiskAnalysts, ShouldContinueDebate,
         ShouldContinueRiskAnalysis
<1>4. /\ turns[speaker] = w.turns[speaker] + 1
      /\ \A x \in Speakers \ {speaker} : turns[x] = w.turns[x]
  BY <1>2
<1>5. speaker = "bull" \/ speaker = "bear" =>
         next = ShouldContinueDebate(s, turns, speaker)
  BY DEF Debaters
<1>6. speaker \in RiskAnalysts => next = ShouldContinueRiskAnalysis(s, turns, speaker)
  BY DEF Debaters, RiskAnalysts
<1> HIDE DEF turns, next
<1>7. /\ v \in Works /\ v.next = next /\ v.turns = turns /\ v.by = w.by
      /\ v.desk = w.desk
  BY <1>2, <1>3 DEF Works
<1> HIDE DEF t, v
<1>8. Sound(t, w)  BY DEF t
<1>9. DeskInv(t, v)
  <2>1. w.next # "analysts"  BY DEF Speakers, Debaters, RiskAnalysts
  <2> QED  BY <1>1, <1>3, <1>7, <1>8, <2>1, DesksStay DEF Sound
<1> DEFINE bull == w.turns["bull"]
           bear == w.turns["bear"]
           x == w.turns["aggressive"]
           y == w.turns["conservative"]
           z == w.turns["neutral"]
<1>10. bull \in Nat /\ bear \in Nat /\ x \in Nat /\ y \in Nat /\ z \in Nat
  BY <1>2 DEF Speakers, Debaters, RiskAnalysts
<1>11. DebateOk(s.debate, speaker, bull, bear) /\ RiskOk(s.risk, speaker, x, y, z)
  BY <1>1, <1>8 DEF Sound, DebateInv, RiskInv
<1>12. ASSUME speaker = "bull"
       PROVE  DebateInv(t, v) /\ RiskInv(t, v)
  <2>1. /\ turns["bull"] = bull + 1 /\ turns["bear"] = bear /\ turns["aggressive"] = x
        /\ turns["conservative"] = y /\ turns["neutral"] = z
    BY <1>4, <1>12 DEF Speakers, Debaters, RiskAnalysts
  <2>2. next = IF bull + 1 + bear >= 2 * s.debate THEN "research manager" ELSE "bear"
    BY <1>5, <1>12, <2>1 DEF ShouldContinueDebate
  <2>3. DebateOk(s.debate, next, bull + 1, bear)
    BY <1>1, <1>10, <1>11, <1>12, <2>2, DebateTurns
  <2>4. next \in Debaters \cup {"research manager"} /\ speaker \in Debaters
    BY <1>12, <2>2 DEF Debaters
  <2>5. RiskOk(s.risk, next, x, y, z)
    BY <1>11, <2>4, OtherDebate
  <2> QED  BY <1>1, <1>7, <2>1, <2>3, <2>5 DEF DebateInv, RiskInv
<1>13. ASSUME speaker = "bear"
       PROVE  DebateInv(t, v) /\ RiskInv(t, v)
  <2>1. /\ turns["bull"] = bull /\ turns["bear"] = bear + 1 /\ turns["aggressive"] = x
        /\ turns["conservative"] = y /\ turns["neutral"] = z
    BY <1>4, <1>13 DEF Speakers, Debaters, RiskAnalysts
  <2>2. next = IF bull + (bear + 1) >= 2 * s.debate THEN "research manager" ELSE "bull"
    BY <1>5, <1>13, <2>1 DEF ShouldContinueDebate
  <2>3. DebateOk(s.debate, next, bull, bear + 1)
    BY <1>1, <1>10, <1>11, <1>13, <2>2, DebateTurns
  <2>4. next \in Debaters \cup {"research manager"} /\ speaker \in Debaters
    BY <1>13, <2>2 DEF Debaters
  <2>5. RiskOk(s.risk, next, x, y, z)
    BY <1>11, <2>4, OtherDebate
  <2> QED  BY <1>1, <1>7, <2>1, <2>3, <2>5 DEF DebateInv, RiskInv
<1>14. ASSUME speaker = "aggressive"
       PROVE  DebateInv(t, v) /\ RiskInv(t, v)
  <2>1. /\ turns["bull"] = bull /\ turns["bear"] = bear /\ turns["aggressive"] = x + 1
        /\ turns["conservative"] = y /\ turns["neutral"] = z
    BY <1>4, <1>14 DEF Speakers, Debaters, RiskAnalysts
  <2>2. next = IF x + 1 + y + z >= 3 * s.risk THEN "portfolio manager" ELSE "conservative"
    BY <1>6, <1>14, <2>1 DEF ShouldContinueRiskAnalysis, RiskAnalysts
  <2>3. RiskOk(s.risk, next, x + 1, y, z)
    BY <1>1, <1>10, <1>11, <1>14, <2>2, RiskTurns
  <2>4. next \in RiskAnalysts \cup {"portfolio manager"} /\ speaker \in RiskAnalysts
    BY <1>14, <2>2 DEF RiskAnalysts
  <2>5. DebateOk(s.debate, next, bull, bear)
    BY <1>11, <2>4, OtherDebate
  <2> QED  BY <1>1, <1>7, <2>1, <2>3, <2>5 DEF DebateInv, RiskInv
<1>15. ASSUME speaker = "conservative"
       PROVE  DebateInv(t, v) /\ RiskInv(t, v)
  <2>1. /\ turns["bull"] = bull /\ turns["bear"] = bear /\ turns["aggressive"] = x
        /\ turns["conservative"] = y + 1 /\ turns["neutral"] = z
    BY <1>4, <1>15 DEF Speakers, Debaters, RiskAnalysts
  <2>2. next = IF x + (y + 1) + z >= 3 * s.risk THEN "portfolio manager" ELSE "neutral"
    BY <1>6, <1>15, <2>1 DEF ShouldContinueRiskAnalysis, RiskAnalysts
  <2>3. RiskOk(s.risk, next, x, y + 1, z)
    BY <1>1, <1>10, <1>11, <1>15, <2>2, RiskTurns
  <2>4. next \in RiskAnalysts \cup {"portfolio manager"} /\ speaker \in RiskAnalysts
    BY <1>15, <2>2 DEF RiskAnalysts
  <2>5. DebateOk(s.debate, next, bull, bear)
    BY <1>11, <2>4, OtherDebate
  <2> QED  BY <1>1, <1>7, <2>1, <2>3, <2>5 DEF DebateInv, RiskInv
<1>16. ASSUME speaker = "neutral"
       PROVE  DebateInv(t, v) /\ RiskInv(t, v)
  <2>1. /\ turns["bull"] = bull /\ turns["bear"] = bear /\ turns["aggressive"] = x
        /\ turns["conservative"] = y /\ turns["neutral"] = z + 1
    BY <1>4, <1>16 DEF Speakers, Debaters, RiskAnalysts
  <2>2. next = IF x + y + (z + 1) >= 3 * s.risk THEN "portfolio manager" ELSE "aggressive"
    BY <1>6, <1>16, <2>1 DEF ShouldContinueRiskAnalysis, RiskAnalysts
  <2>3. RiskOk(s.risk, next, x, y, z + 1)
    BY <1>1, <1>10, <1>11, <1>16, <2>2, RiskTurns
  <2>4. next \in RiskAnalysts \cup {"portfolio manager"} /\ speaker \in RiskAnalysts
    BY <1>16, <2>2 DEF RiskAnalysts
  <2>5. DebateOk(s.debate, next, bull, bear)
    BY <1>11, <2>4, OtherDebate
  <2> QED  BY <1>1, <1>7, <2>1, <2>3, <2>5 DEF DebateInv, RiskInv
<1>17. DebateInv(t, v) /\ RiskInv(t, v)
  BY <1>12, <1>13, <1>14, <1>15, <1>16 DEF Speakers, Debaters, RiskAnalysts
<1>18. Sound(t, v)
  BY <1>7, <1>8, <1>9, <1>17 DEF Sound
<1> QED  BY <1>18 DEF t, v, turns, next

\* Some analysts begin again
LEMMA WithoutSound ==
    ASSUME NEW t \in Threads, NEW w \in Works, Sound(t, w), NEW again \in SUBSET Unfiled(w)
    PROVE  /\ Sound(t, Without(w, again))
           /\ Without(w, again).done = [x \in Paid |-> IF x \in again THEN 0 ELSE w.done[x]]
<1> DEFINE desk == [a \in Analysts |-> IF a \in again THEN [at |-> "agent", rounds |-> 0]
                                       ELSE w.desk[a]]
           done == [x \in Paid |-> IF x \in again THEN 0 ELSE w.done[x]]
           v == [w EXCEPT !.desk = desk, !.done = done]
<1>1. desk \in [Analysts -> Desks] /\ done \in Turns
  BY DEF Works, Desks, Turns
<1>2. \A a \in Analysts : desk[a] = IF a \in again THEN [at |-> "agent", rounds |-> 0]
                                    ELSE w.desk[a]
  OBVIOUS
<1>3. Without(w, again) = v  BY DEF Without
<1> HIDE DEF desk, done
<1>4. /\ v \in Works /\ v.next = w.next /\ v.turns = w.turns /\ v.by = w.by
      /\ v.desk = desk /\ v.done = done
  BY <1>1 DEF Works
<1> HIDE DEF v
<1>5. DeskInv(t, v)
  <2> SUFFICES ASSUME NEW a \in Analysts
               PROVE  DeskOk(t, v.next, a, desk[a])
    BY <1>4 DEF DeskInv
  <2> DEFINE d == w.desk[a]
  <2>1. d \in Desks  BY DEF Works
  <2>2. DeskOk(t, w.next, a, d)  BY DEF Sound, DeskInv
  <2>3. CASE a \in again
    <3>1. d.at \in {"agent", "tools", "wrap_up"}  BY <2>3 DEF Unfiled
    <3> HIDE DEF d
    <3>2. w.next = "analysts" /\ a \in t.analysts  BY <2>2, <3>1 DEF DeskOk
    <3>3. \A n : a \in t.analysts => DeskOk(t, "analysts", a, [at |-> "agent", rounds |-> 0])
      BY ToolsAssumption DEF DeskOk
    <3> QED  BY <1>2, <1>4, <2>3, <3>2, <3>3
  <2>4. CASE a \notin again
    BY <1>2, <1>4, <2>2, <2>4
  <2> QED  BY <2>3, <2>4
<1>6. DebateInv(t, v) /\ RiskInv(t, v)
  BY <1>4 DEF Sound, DebateInv, RiskInv
<1>7. Sound(t, v)
  BY <1>4, <1>5, <1>6 DEF Sound
<1> QED  BY <1>3, <1>4, <1>7 DEF done

\* A run works on the thread's state, under its settings
LEMMA BySound ==
    ASSUME NEW s \in Settings, NEW w \in Works, Sound(Thread(s), w)
    PROVE  /\ Sound(Thread(s), [w EXCEPT !.by = @ \cup {s}])
           /\ [w EXCEPT !.by = @ \cup {s}].done = w.done
<1> DEFINE v == [w EXCEPT !.by = @ \cup {s}]
<1>1. /\ v \in Works /\ v.next = w.next /\ v.turns = w.turns /\ v.by = w.by \cup {s}
      /\ v.desk = w.desk /\ v.done = w.done
  BY DEF Works
<1> HIDE DEF v
<1>2. DeskInv(Thread(s), v) /\ DebateInv(Thread(s), v) /\ RiskInv(Thread(s), v)
  BY <1>1 DEF Sound, DeskInv, DebateInv, RiskInv
<1>3. Sound(Thread(s), v)
  BY <1>1, <1>2 DEF Sound
<1> QED  BY <1>1, <1>3 DEF v

-----------------------------------------------------------------------------
(* Steps. *)

\* Where a run can be
LEMMA Places ==
    ASSUME TypeOK, NEW p \in Procs
    PROVE  /\ run[p] \in Running \cup Preparing \cup {Idle}
           /\ ~At(p, "idle") => run[p] \in Running \cup Preparing
           /\ run[p] \in Running <=> At(p, "working") \/ At(p, "finished") \/ At(p, "recorded")
           /\ run[p] \in Preparing <=> At(p, "starting") \/ At(p, "resuming")
           /\ run[p] \in Running \cup Preparing => run[p].set \in Settings /\ On(p) \in Threads
           /\ run[p] \in Preparing => WorkOf(p) = None
           /\ Idle \notin Running \cup Preparing
<1>1. run[p] \in Running \cup Preparing \cup {Idle}  BY DEF TypeOK
<1>2. run[p] \in Running => /\ run[p].pc \in {"working", "finished", "recorded"}
                            /\ run[p].set \in Settings
  BY DEF Running
<1>3. run[p] \in Preparing => /\ run[p].pc \in {"starting", "resuming"}
                              /\ run[p].set \in Settings /\ run[p].work = None
  BY DEF Preparing
<1>4. Idle.pc = "idle"  BY DEF Idle
<1>5. Idle \notin Running \cup Preparing
  BY <1>4 DEF Running, Preparing
<1>6. run[p].set \in Settings => On(p) \in Threads
  BY ThreadType DEF On
<1> QED  BY <1>1, <1>2, <1>3, <1>4, <1>5, <1>6 DEF At, WorkOf

\* A run under way: its thread and its state
LEMMA RunFacts ==
    ASSUME TypeOK, WorkInv, NEW p \in Procs, run[p] \in Running
    PROVE  /\ run[p].set \in Settings /\ On(p) \in Threads
           /\ WorkOf(p) \in Works /\ WorkOf(p) # None /\ Sound(On(p), WorkOf(p))
           /\ At(p, "finished") \/ At(p, "recorded") => WorkOf(p).next = "end"
<1>1. run[p].set \in Settings /\ WorkOf(p) \in Works  BY DEF Running, WorkOf
<1>2. On(p) \in Threads  BY <1>1, ThreadType DEF On
<1>3. RunOk(run[p])  BY DEF WorkInv
<1>4. Sound(On(p), WorkOf(p)) /\ (run[p].pc # "working" => WorkOf(p).next = "end")
  BY <1>3 DEF RunOk, At, On, WorkOf
<1> QED  BY <1>1, <1>2, <1>4, NoneAssumption DEF At

\* A run that moves to a sound state keeps every other run as it is.
LEMMA GoesKeeps ==
    ASSUME TypeOK, WorkInv, NEW p \in Procs,
           NEW to \in Running \cup Preparing \cup {Idle}, RunOk(to),
           Goes(p, to)
    PROVE  /\ run' \in [Procs -> Running \cup Preparing \cup {Idle}]
           /\ \A q \in Procs : RunOk(run'[q])
<1>1. run \in [Procs -> Running \cup Preparing \cup {Idle}]  BY DEF TypeOK
<1>2. run' = [run EXCEPT ![p] = to]  BY DEF Goes
<1>3. run' \in [Procs -> Running \cup Preparing \cup {Idle}]  BY <1>1, <1>2
<1>4. ASSUME NEW q \in Procs PROVE RunOk(run'[q])
  <2>1. run'[q] = IF q = p THEN to ELSE run[q]  BY <1>1, <1>2
  <2>2. RunOk(run[q])  BY DEF WorkInv
  <2> QED  BY <2>1, <2>2
<1> QED  BY <1>3, <1>4

\* A process without a run has nothing to be sound.
LEMMA IdleOk == RunOk(Idle)
BY DEF RunOk, Idle, Running

\* A run with other work and a count more is a run of the same place and settings.
LEMMA RunAfter ==
    ASSUME NEW r \in Running, NEW w \in Works, NEW n \in 0 .. 1
    PROVE  LET to == [r EXCEPT !.work = w, !.steps = @ + n] IN
           to \in Running /\ to.pc = r.pc /\ to.set = r.set /\ to.work = w
<1>1. r.steps + n \in Nat  BY DEF Running
<1>2. \A i \in Nat : [r EXCEPT !.work = w, !.steps = i] \in Running
  BY DEF Running
<1>3. /\ [r EXCEPT !.work = w, !.steps = @ + n].pc = r.pc
      /\ [r EXCEPT !.work = w, !.steps = @ + n].set = r.set
      /\ [r EXCEPT !.work = w, !.steps = @ + n].work = w
  BY DEF Running
<1> QED  BY <1>1, <1>2, <1>3

\* A count stays a count.
LEMMA CountsType ==
    ASSUME NEW count \in [Threads -> Turns], NEW t \in Threads, NEW n \in Turns
    PROVE  /\ Counts(count, t, n) \in [Threads -> Turns]
           /\ t \notin shared => Counts(count, t, n)[t] = n
           /\ \A u \in Threads \ {t} : Counts(count, t, n)[u] = count[u]
BY DEF Counts

\* A step of the graph
LEMMA AdvancesKeeps ==
    ASSUME IInv, NEW p \in Procs, At(p, "working"), NEW w \in Works, Sound(On(p), w),
           NEW n \in 0 .. 1, NEW who, Advances(p, w, n, who)
    PROVE  IInv'
<1>1. /\ run[p] \in Running /\ run[p].set \in Settings /\ On(p) \in Threads
      /\ WorkOf(p) \in Works /\ Sound(On(p), WorkOf(p))
  BY Places, RunFacts DEF IInv
<1> DEFINE after == [w EXCEPT !.done = Counted(@, who)]
           to == [run[p] EXCEPT !.work = after, !.steps = @ + n]
<1>2. after \in Works /\ Sound(On(p), after)  BY <1>1, DoneSound
<1>3. /\ Goes(p, to)
      /\ IF enabled
         THEN /\ \E written \in {WorkOf(p), after} : saved' = [saved EXCEPT ![On(p)] = written]
              /\ made' = Counts(made, On(p), Counted(made[On(p)], who))
         ELSE UNCHANGED <<saved, made>>
      /\ UNCHANGED <<enabled, logged, runs, faults, redone, shared>>
  BY DEF Advances
<1> HIDE DEF after
<1>4. to \in Running /\ to.pc = "working" /\ to.set = run[p].set /\ to.work = after
  <2>1. to \in Running /\ to.pc = run[p].pc /\ to.set = run[p].set /\ to.work = after
    BY <1>1, <1>2, RunAfter
  <2> QED  BY <2>1 DEF At
<1> HIDE DEF to
<1>5. RunOk(to)  BY <1>2, <1>4 DEF RunOk, On
<1>6. run' \in [Procs -> Running \cup Preparing \cup {Idle}] /\ \A q \in Procs : RunOk(run'[q])
  BY <1>3, <1>4, <1>5, GoesKeeps DEF IInv
<1>7. saved' \in [Threads -> Works \cup {None}] /\ made' \in [Threads -> Turns]
  <2>1. made[On(p)] \in Turns /\ made \in [Threads -> Turns]  BY <1>1 DEF IInv, TypeOK
  <2>2. Counted(made[On(p)], who) \in Turns  BY <2>1, TurnsType
  <2>3. Counts(made, On(p), Counted(made[On(p)], who)) \in [Threads -> Turns]
    BY <1>1, <2>1, <2>2, CountsType
  <2>4. saved \in [Threads -> Works \cup {None}]  BY DEF IInv, TypeOK
  <2>5. CASE enabled
    BY <1>1, <1>2, <1>3, <2>3, <2>4, <2>5
  <2>6. CASE ~enabled
    BY <1>3, <2>1, <2>4, <2>6
  <2> QED  BY <2>5, <2>6
<1>8. \A t \in Threads : saved'[t] # None => Sound(t, saved'[t])
  <2>1. CASE enabled
    <3>1. PICK written \in {WorkOf(p), after} : saved' = [saved EXCEPT ![On(p)] = written]
      BY <1>3, <2>1
    <3>2. Sound(On(p), written)  BY <1>1, <1>2
    <3> QED  BY <1>1, <3>1, <3>2 DEF IInv, TypeOK, WorkInv
  <2>2. CASE ~enabled
    BY <1>3, <2>2 DEF IInv, WorkInv
  <2> QED  BY <2>1, <2>2
<1>9. TypeOK'
  BY <1>3, <1>6, <1>7 DEF IInv, TypeOK
<1>10. WorkInv'
  BY <1>3, <1>6, <1>8 DEF IInv, WorkInv
<1> QED  BY <1>9, <1>10 DEF IInv

\* A run ends, or goes on to what follows the graph
LEMMA LeavesKeeps ==
    ASSUME IInv, NEW p \in Procs, run[p] \in Running,
           NEW to \in Running \cup Preparing \cup {Idle}, RunOk(to), Goes(p, to),
           \/ UNCHANGED saved
           \/ Saves(p)
           \/ saved' = [saved EXCEPT ![On(p)] = None],
           logged' = logged \/ (logged' = [set |-> run[p].set, work |-> WorkOf(p)]
                                /\ ~At(p, "working")),
           enabled' = enabled, runs' = runs, faults' \in 0 .. MaxFaults,
           made' \in [Threads -> Turns], redone' \in [Threads -> Turns], shared' = shared
    PROVE  IInv'
<1>1. /\ run[p].set \in Settings /\ On(p) \in Threads
      /\ WorkOf(p) \in Works /\ Sound(On(p), WorkOf(p))
  BY RunFacts DEF IInv
<1>2. run' \in [Procs -> Running \cup Preparing \cup {Idle}] /\ \A q \in Procs : RunOk(run'[q])
  BY GoesKeeps DEF IInv
<1>3. /\ saved' \in [Threads -> Works \cup {None}]
      /\ \A t \in Threads : saved'[t] # None => Sound(t, saved'[t])
  <2>1. /\ saved \in [Threads -> Works \cup {None}]
        /\ \A t \in Threads : saved[t] # None => Sound(t, saved[t])
    BY DEF IInv, TypeOK, WorkInv
  <2>2. CASE UNCHANGED saved
    BY <2>1, <2>2
  <2>3. CASE saved' = [saved EXCEPT ![On(p)] = WorkOf(p)]
    BY <1>1, <2>1, <2>3
  <2>4. CASE saved' = [saved EXCEPT ![On(p)] = None]
    BY <1>1, <2>1, <2>4
  <2> QED  BY <2>2, <2>3, <2>4 DEF Saves
<1>4. /\ logged' \in [set : Settings, work : Works] \cup {None}
      /\ logged' # None => /\ Sound(Thread(logged'.set), logged'.work)
                           /\ logged'.work.next = "end"
  <2>1. CASE logged' = logged
    BY <2>1 DEF IInv, TypeOK, WorkInv
  <2>2. CASE logged' = [set |-> run[p].set, work |-> WorkOf(p)] /\ ~At(p, "working")
    <3>1. run[p].pc \in {"working", "finished", "recorded"}  BY <1>1 DEF Running
    <3>2. WorkOf(p).next = "end"  BY <2>2, <3>1, RunFacts DEF IInv, At
    <3> QED  BY <1>1, <2>2, <3>2 DEF On
  <2> QED  BY <2>1, <2>2
<1>5. TypeOK'
  BY <1>2, <1>3, <1>4 DEF IInv, TypeOK
<1>6. WorkInv'
  BY <1>2, <1>3, <1>4 DEF WorkInv
<1> QED  BY <1>5, <1>6 DEF IInv

\* A run is gone, and nothing it held is kept
LEMMA GoneKeeps ==
    ASSUME IInv, NEW p \in Procs, Goes(p, Idle), faults' \in 0 .. MaxFaults,
           made' \in [Threads -> Turns], UNCHANGED <<enabled, saved, logged, runs, redone, shared>>
    PROVE  IInv'
<1>1. run' \in [Procs -> Running \cup Preparing \cup {Idle}] /\ \A q \in Procs : RunOk(run'[q])
  BY IdleOk, GoesKeeps DEF IInv
<1>2. TypeOK'
  BY <1>1 DEF IInv, TypeOK
<1>3. WorkInv'
  BY <1>1 DEF IInv, WorkInv
<1> QED  BY <1>2, <1>3 DEF IInv

\* Nothing runs at the start.
LEMMA InitInv ==
    Init => IInv
<1> SUFFICES ASSUME Init PROVE IInv
  OBVIOUS
<1>1. TypeOK
  BY BoundsAssumption DEF Init, TypeOK, Turns, Nothing
<1>2. \A p \in Procs : RunOk(run[p])
  BY IdleOk DEF Init
<1>3. WorkInv
  BY <1>2 DEF Init, WorkInv
<1> QED  BY <1>1, <1>3 DEF IInv

\* The analysts' steps
LEMMA DesksKeep ==
    ASSUME IInv, NEW p \in Procs, NEW a \in Analysts,
           AgentTurn(p, a) \/ RunTools(p, a) \/ WrapUp(p, a)
    PROVE  IInv'
<1> DEFINE w == WorkOf(p)
           t == On(p)
<1>1. At(p, "working") /\ w.next = "analysts"
  BY DEF AgentTurn, RunTools, WrapUp, Sits, NextIs
<1>2. t \in Threads /\ w \in Works /\ Sound(t, w)
  BY <1>1, Places, RunFacts DEF IInv
<1>3. /\ w.desk[a].at = "not selected" <=> a \notin t.analysts
      /\ w.desk[a].rounds \in 0 .. ToolRounds
      /\ w.desk[a].at = "agent" => w.desk[a].rounds < ToolRounds
  BY <1>2, DeskFacts
<1>4. ASSUME NEW at \in {"agent", "tools", "wrap_up", "filed"}, NEW rounds \in 0 .. ToolRounds,
             at = "agent" => rounds < ToolRounds, NEW who, MovesTo(p, a, at, rounds, who),
             a \in t.analysts
      PROVE  IInv'
  <2> DEFINE v == [w EXCEPT !.desk[a] = [at |-> at, rounds |-> rounds]]
  <2>1. Sound(t, v)  BY <1>1, <1>2, <1>4, MoveSound
  <2>2. v \in Works  BY <2>1 DEF Sound
  <2>3. Advances(p, v, 0, who)  BY <1>4 DEF MovesTo
  <2> QED  BY <1>1, <2>1, <2>2, <2>3, AdvancesKeeps
<1>5. CASE AgentTurn(p, a)
  <2>1. w.desk[a].at = "agent"  BY <1>5 DEF AgentTurn, Sits
  <2>2. w.desk[a].rounds < ToolRounds /\ a \in t.analysts  BY <1>3, <2>1
  <2>3. CASE MovesTo(p, a, "tools", w.desk[a].rounds + 1, {a})
    <3> DEFINE rounds == w.desk[a].rounds
    <3>1. /\ rounds \in 0 .. ToolRounds /\ rounds < ToolRounds
          /\ MovesTo(p, a, "tools", rounds + 1, {a})
      BY <1>3, <2>2, <2>3
    <3> HIDE DEF rounds
    <3>2. rounds + 1 \in 0 .. ToolRounds  BY <3>1, ToolsAssumption
    <3>3. "tools" \in {"agent", "tools", "wrap_up", "filed"}  OBVIOUS
    <3> QED  BY <1>4, <2>2, <3>1, <3>2, <3>3
  <2>4. CASE MovesTo(p, a, "filed", 0, {a})
    <3>1. 0 \in 0 .. ToolRounds  BY ToolsAssumption
    <3> QED  BY <1>4, <2>2, <2>4, <3>1
  <2> QED  BY <1>5, <2>3, <2>4 DEF AgentTurn
<1>6. CASE RunTools(p, a)
  <2> DEFINE rounds == w.desk[a].rounds
  <2>1. w.desk[a].at = "tools" /\ MovesTo(p, a, MoreOrWrapUp(rounds), rounds, {})
    BY <1>6 DEF RunTools, Sits
  <2>2. a \in t.analysts  BY <1>3, <2>1
  <2>3. rounds \in 0 .. ToolRounds  BY <1>3
  <2> HIDE DEF rounds
  <2>4. MoreOrWrapUp(rounds) \in {"agent", "wrap_up"}
        /\ (MoreOrWrapUp(rounds) = "agent" => rounds < ToolRounds)
    BY <2>3, ToolsAssumption DEF MoreOrWrapUp
  <2> QED  BY <1>4, <2>1, <2>2, <2>3, <2>4
<1>7. CASE WrapUp(p, a)
  <2>1. w.desk[a].at = "wrap_up" /\ MovesTo(p, a, "filed", 0, {a})
    BY <1>7 DEF WrapUp, Sits
  <2>2. a \in t.analysts  BY <1>3, <2>1
  <2>3. 0 \in 0 .. ToolRounds  BY ToolsAssumption
  <2> QED  BY <1>4, <2>1, <2>2, <2>3
<1> QED  BY <1>5, <1>6, <1>7

\* The graph's other nodes
LEMMA NodesKeep ==
    ASSUME IInv, NEW p \in Procs,
           \/ ReportsIn(p)
           \/ \E speaker \in Speakers : Speaks(p, speaker)
           \/ ResearchManager(p) \/ Trader(p) \/ PortfolioManager(p)
    PROVE  IInv'
<1> DEFINE w == WorkOf(p)
           s == run[p].set
<1>1. At(p, "working")
  BY DEF ReportsIn, Speaks, ResearchManager, Trader, PortfolioManager, Node, NextIs
<1>2. s \in Settings /\ On(p) = Thread(s) /\ On(p) \in Threads /\ w \in Works /\ Sound(On(p), w)
  BY <1>1, Places, RunFacts DEF IInv, On
<1> HIDE DEF w, s
<1>3. ASSUME NEW v, Sound(On(p), v), NEW n \in 0 .. 1, NEW who, Advances(p, v, n, who)
      PROVE  IInv'
  <2>1. v \in Works  BY <1>3 DEF Sound
  <2> QED  BY <1>1, <1>3, <2>1, AdvancesKeeps
<1>4. 1 \in 0 .. 1 /\ 0 \in 0 .. 1  OBVIOUS
<1>5. CASE ReportsIn(p)
  <2>1. /\ w.next = "analysts" /\ AllFiled(w)
        /\ Advances(p, [w EXCEPT !.next = "bull"], 1, {})
    BY <1>5 DEF ReportsIn, NextIs, w
  <2>2. Sound(On(p), [w EXCEPT !.next = "bull"])  BY <1>2, <2>1, ReportsSound
  <2> QED  BY <1>3, <1>4, <2>1, <2>2
<1>6. ASSUME NEW speaker \in Speakers, Speaks(p, speaker)
      PROVE  IInv'
  <2> DEFINE turns == [w.turns EXCEPT ![speaker] = @ + 1]
             next == IF speaker \in Debaters
                     THEN ShouldContinueDebate(s, turns, speaker)
                     ELSE ShouldContinueRiskAnalysis(s, turns, speaker)
             v == [w EXCEPT !.next = next, !.turns = turns]
  <2>1. w.next = speaker /\ Advances(p, v, 1, {"nodes"})
    BY <1>6 DEF Speaks, NextIs, w, s
  <2>2. Sound(Thread(s), w)  BY <1>2
  <2>3. Sound(Thread(s), v)  BY <1>2, <2>1, <2>2, SpeaksSound
  <2> HIDE DEF v
  <2>4. Sound(On(p), v)  BY <1>2, <2>3
  <2> QED  BY <1>3, <1>4, <2>1, <2>4
<1>7. ASSUME NEW node, NEW next, Node(p, node, next),
             \/ node = "research manager" /\ next = "trader"
             \/ node = "trader" /\ next = "aggressive"
             \/ node = "portfolio manager" /\ next = "end"
      PROVE  IInv'
  <2>1. w.next = node /\ Advances(p, [w EXCEPT !.next = next], 1, {"nodes"})
    BY <1>7 DEF Node, NextIs, w
  <2>2. Sound(On(p), [w EXCEPT !.next = next])  BY <1>2, <1>7, <2>1, NodeSound
  <2> QED  BY <1>3, <1>4, <2>1, <2>2
<1> QED  BY <1>5, <1>6, <1>7 DEF ResearchManager, Trader, PortfolioManager

\* A run begins
LEMMA BeginKeeps ==
    ASSUME IInv, NEW p \in Procs, NEW s \in Settings, Begin(p, s)
    PROVE  IInv'
<1> DEFINE t == Thread(s)
           to == [pc |-> IF enabled /\ saved[t] # None THEN "resuming" ELSE "starting",
                  set |-> s, steps |-> 0, work |-> None]
<1>1. t \in Threads  BY ThreadType
<1>2. /\ Goes(p, to) /\ runs' = runs + 1 /\ runs < MaxRuns
      /\ shared' = (IF OthersOn(t) = {} THEN shared ELSE shared \cup {t})
      /\ UNCHANGED <<enabled, saved, logged, faults, made, redone>>
  BY DEF Begin
<1>3. to \in Preparing  BY DEF Preparing
<1>4. to \notin Running  BY DEF Running
<1> HIDE DEF to
<1>5. RunOk(to)  BY <1>4 DEF RunOk
<1>6. run' \in [Procs -> Running \cup Preparing \cup {Idle}] /\ \A q \in Procs : RunOk(run'[q])
  BY <1>2, <1>3, <1>5, GoesKeeps DEF IInv
<1>7. runs' \in 0 .. MaxRuns /\ shared' \subseteq Threads
  BY <1>1, <1>2, BoundsAssumption DEF IInv, TypeOK
<1>8. TypeOK'
  BY <1>2, <1>6, <1>7 DEF IInv, TypeOK
<1>9. WorkInv'
  BY <1>2, <1>6 DEF IInv, WorkInv
<1> QED  BY <1>8, <1>9 DEF IInv

\* What invoke() keeps of a state, and what it adds to the thread's count of turns made again
Left(w, again) == [x \in Paid |-> IF x \in again THEN 0 ELSE w.done[x]]
More(f, w, again) == [x \in Paid |-> IF x \in again THEN f[x] + w.done[x] ELSE f[x]]

\* What invoke() does, in parts
TakesUp(p, w, again, to) ==
    /\ On(p) \in Threads /\ run[p] \in Preparing
    /\ At(p, "resuming") => w = saved[On(p)]
    /\ At(p, "starting") => w.done = Nothing
    /\ Goes(p, to) /\ RunOk(to) /\ to.pc = "working" /\ Thread(to.set) = On(p)
    /\ to.work.done = Left(w, again)
    /\ \/ At(p, "starting") /\ saved' = saved
       \/ \E v \in Works : /\ v.done = Left(w, again) /\ Sound(On(p), v)
                           /\ At(p, "resuming") /\ saved' = [saved EXCEPT ![On(p)] = v]
    /\ redone' = Counts(redone, On(p), More(redone[On(p)], w, again))
    /\ UNCHANGED <<enabled, logged, runs, faults, made, shared>>

\* It takes up a sound state.
LEMMA InvokeFacts ==
    ASSUME IInv, NEW p \in Procs, Invoke(p)
    PROVE  \E w \in Works, again \in SUBSET Analysts, to \in Running : TakesUp(p, w, again, to)
<1> DEFINE t == On(p)
           s == run[p].set
           w == Resumed(p)
<1>1. At(p, "starting") \/ At(p, "resuming")  BY DEF Invoke
<1>2. run[p] \in Preparing /\ s \in Settings /\ t \in Threads /\ t = Thread(s)
  BY <1>1, Places DEF IInv, On
<1>3. ~(At(p, "starting") /\ At(p, "resuming"))  BY DEF At
<1>4. w # None  BY DEF Invoke
<1>5. /\ At(p, "resuming") => w = saved[t]
      /\ At(p, "starting") => w = Blank(s)
  BY <1>3 DEF Resumed
<1>6. Sound(t, w)
  BY <1>1, <1>2, <1>4, <1>5, BlankSound DEF IInv, WorkInv
<1>7. w \in Works  BY <1>6 DEF Sound
<1>8. PICK again \in SUBSET Unfiled(w) :
         /\ Goes(p, [pc |-> "working", set |-> s, steps |-> 0,
                     work |-> [Without(w, again) EXCEPT !.by = @ \cup {s}]])
         /\ saved' = IF At(p, "resuming") THEN [saved EXCEPT ![t] = Without(w, again)] ELSE saved
         /\ redone' = Counts(redone, t, More(redone[t], w, again))
  BY DEF Invoke, More
<1>9. UNCHANGED <<enabled, logged, runs, faults, made, shared>>  BY DEF Invoke
<1> HIDE DEF w, t, s
<1> DEFINE v == Without(w, again)
           u == [v EXCEPT !.by = @ \cup {s}]
           to == [pc |-> "working", set |-> s, steps |-> 0, work |-> u]
           left == Left(w, again)
<1>10. again \in SUBSET Analysts  BY DEF Unfiled
<1>11. Sound(t, v) /\ v.done = left  BY <1>2, <1>6, <1>7, WithoutSound DEF Left
<1>12. v \in Works  BY <1>11 DEF Sound
<1> HIDE DEF v, left
<1>13. Sound(t, u) /\ u.done = left  BY <1>2, <1>11, <1>12, BySound
<1>14. u \in Works  BY <1>13 DEF Sound
<1>15. Goes(p, to) /\ saved' = IF At(p, "resuming") THEN [saved EXCEPT ![t] = v] ELSE saved
  BY <1>8 DEF v
<1> HIDE DEF u
<1>16. to \in Running /\ to.pc = "working" /\ to.set = s /\ to.work = u
  BY <1>2, <1>14 DEF Running
<1> HIDE DEF to
<1>17. RunOk(to)  BY <1>2, <1>13, <1>16 DEF RunOk
<1>18. At(p, "starting") => w.done = Nothing
  BY <1>2, <1>5, BlankSound
<1>19. \/ At(p, "starting") /\ saved' = saved
       \/ v.done = left /\ Sound(t, v) /\ At(p, "resuming") /\ saved' = [saved EXCEPT ![t] = v]
  BY <1>1, <1>3, <1>11, <1>15
<1>20. Thread(to.set) = t /\ to.work.done = left  BY <1>2, <1>13, <1>16
<1>21. TakesUp(p, w, again, to)
  BY <1>2, <1>5, <1>8, <1>9, <1>12, <1>15, <1>16, <1>17, <1>18, <1>19, <1>20 DEF TakesUp, t, left
<1> QED  BY <1>7, <1>10, <1>16, <1>21

\* invoke() keeps every run sound.
LEMMA InvokeKeeps ==
    ASSUME IInv, NEW p \in Procs, Invoke(p) \/ NothingToResume(p)
    PROVE  IInv'
<1>1. CASE NothingToResume(p)
  <2>1. Goes(p, Idle) /\ UNCHANGED <<enabled, saved, logged, runs, faults, made, redone, shared>>
    BY <1>1 DEF NothingToResume
  <2>2. faults \in 0 .. MaxFaults /\ made \in [Threads -> Turns]  BY DEF IInv, TypeOK
  <2> QED  BY <2>1, <2>2, GoneKeeps
<1>2. CASE Invoke(p)
  <2>1. PICK w \in Works, again \in SUBSET Analysts, to \in Running : TakesUp(p, w, again, to)
    BY <1>2, InvokeFacts
  <2>2. run' \in [Procs -> Running \cup Preparing \cup {Idle}] /\ \A q \in Procs : RunOk(run'[q])
    BY <2>1, GoesKeeps DEF IInv, TakesUp
  <2>3. redone' \in [Threads -> Turns]
    <3>1. redone \in [Threads -> Turns] /\ redone[On(p)] \in Turns /\ w.done \in Turns
      BY <2>1 DEF IInv, TypeOK, Works, TakesUp
    <3>2. More(redone[On(p)], w, again) \in Turns  BY <3>1 DEF Turns, More
    <3> QED  BY <2>1, <3>1, <3>2, CountsType DEF TakesUp
  <2>4. /\ saved' \in [Threads -> Works \cup {None}]
        /\ \A t \in Threads : saved'[t] # None => Sound(t, saved'[t])
    <3>1. /\ saved \in [Threads -> Works \cup {None}]
          /\ \A t \in Threads : saved[t] # None => Sound(t, saved[t])
      BY DEF IInv, TypeOK, WorkInv
    <3>2. \/ saved' = saved
          \/ \E v \in Works : Sound(On(p), v) /\ saved' = [saved EXCEPT ![On(p)] = v]
      BY <2>1 DEF TakesUp
    <3> QED  BY <3>1, <3>2
  <2>5. UNCHANGED <<enabled, logged, runs, faults, made, shared>>  BY <2>1 DEF TakesUp
  <2> QED  BY <2>2, <2>3, <2>4, <2>5 DEF IInv, TypeOK, WorkInv
<1> QED  BY <1>1, <1>2

\* How a run ends
LEMMA EndsKeep ==
    ASSUME IInv, NEW p \in Procs,
           OutOfSteps(p) \/ Finish(p) \/ Record(p) \/ Clear(p) \/ Fails(p) \/ Dies(p)
    PROVE  IInv'
<1>1. run[p] \in Running \cup Preparing /\ On(p) \in Threads
      /\ (run[p] \in Running => WorkOf(p) \in Works /\ RunOk(run[p]))
      /\ (~Fails(p) /\ ~Dies(p) => run[p] \in Running)
  <2>1. ~At(p, "idle") /\ (~Fails(p) /\ ~Dies(p) =>
                            At(p, "working") \/ At(p, "finished") \/ At(p, "recorded"))
    BY DEF OutOfSteps, Finish, Record, Clear, Fails, Dies, NextIs, At
  <2> QED  BY <2>1, Places, RunFacts DEF IInv, WorkInv
<1>2. ASSUME run[p] \in Running
      PROVE  /\ run[p].set \in Settings
             /\ WorkOf(p) \in Works /\ Sound(On(p), WorkOf(p)) /\ RunOk(run[p])
  BY <1>2, RunFacts DEF IInv, WorkInv
<1>3. faults \in 0 .. MaxFaults /\ made \in [Threads -> Turns] /\ redone \in [Threads -> Turns]
      /\ (Faulty => faults' \in 0 .. MaxFaults)
  BY BoundsAssumption DEF IInv, TypeOK, Faulty
<1>4. Idle \in Running \cup Preparing \cup {Idle} /\ RunOk(Idle)
  BY IdleOk
<1>5. CASE OutOfSteps(p)
  <2>1. /\ Goes(p, Idle) /\ Saves(p)
        /\ UNCHANGED <<enabled, logged, runs, faults, made, redone, shared>> /\ run[p] \in Running
    BY <1>5, Places DEF OutOfSteps, IInv
  <2> QED  BY <1>3, <1>4, <2>1, LeavesKeeps
<1>6. ASSUME run[p] \in Running, NEW pc \in {"finished", "recorded"}, WorkOf(p).next = "end"
      PROVE  /\ [run[p] EXCEPT !.pc = pc] \in Running
             /\ RunOk([run[p] EXCEPT !.pc = pc])
  <2> DEFINE to == [run[p] EXCEPT !.pc = pc]
  <2>1. to \in Running /\ to.set = run[p].set /\ to.work = run[p].work
    BY <1>6 DEF Running
  <2> HIDE DEF to
  <2>2. RunOk(to)  BY <1>2, <1>6, <2>1 DEF RunOk, On, WorkOf
  <2> QED  BY <2>1, <2>2 DEF to
<1>7. CASE Finish(p)
  <2>1. /\ Goes(p, [run[p] EXCEPT !.pc = "finished"]) /\ Saves(p)
        /\ UNCHANGED <<enabled, logged, runs, faults, made, redone, shared>>
        /\ WorkOf(p).next = "end" /\ run[p] \in Running
    BY <1>7, Places DEF Finish, NextIs, IInv
  <2> QED  BY <1>3, <1>6, <2>1, LeavesKeeps
<1>8. CASE Record(p)
  <2>1. /\ Goes(p, [run[p] EXCEPT !.pc = "recorded"])
        /\ UNCHANGED <<enabled, saved, runs, faults, made, redone, shared>>
        /\ logged' = logged \/ logged' = [set |-> run[p].set, work |-> WorkOf(p)]
        /\ At(p, "finished") /\ ~At(p, "working") /\ run[p] \in Running
    BY <1>8, Places DEF Record, At, IInv
  <2>2. WorkOf(p).next = "end"  BY <2>1, RunFacts DEF IInv
  <2> QED  BY <1>3, <1>6, <2>1, <2>2, LeavesKeeps
<1>9. CASE Clear(p)
  <2>1. /\ Goes(p, Idle) /\ UNCHANGED <<enabled, logged, runs, shared>>
        /\ saved' = [saved EXCEPT ![On(p)] = None] \/ UNCHANGED saved
        /\ faults' \in 0 .. MaxFaults /\ run[p] \in Running
        /\ made' = Counts(made, On(p), Nothing) \/ UNCHANGED made
        /\ redone' = Counts(redone, On(p), Nothing) \/ UNCHANGED redone
    BY <1>3, <1>9, Places DEF Clear, IInv
  <2>2. Nothing \in Turns  BY DEF Turns, Nothing
  <2>3. made' \in [Threads -> Turns]
    <3>1. Counts(made, On(p), Nothing) \in [Threads -> Turns]  BY <1>1, <1>3, <2>2, CountsType
    <3> QED  BY <1>3, <2>1, <3>1
  <2>4. redone' \in [Threads -> Turns]  BY <1>1, <1>3, <2>1, <2>2, CountsType
  <2> QED  BY <1>4, <2>1, <2>3, <2>4, LeavesKeeps
<1>10. CASE Fails(p)
  <2>1. /\ Goes(p, Idle) /\ UNCHANGED <<enabled, logged, runs, made, redone, shared>>
        /\ \/ Saves(p) /\ run[p] \in Running
           \/ UNCHANGED saved
        /\ faults' \in 0 .. MaxFaults
    BY <1>3, <1>10, Places DEF Fails, IInv
  <2>2. CASE UNCHANGED saved
    BY <1>3, <2>1, <2>2, GoneKeeps
  <2>3. CASE Saves(p) /\ run[p] \in Running
    BY <1>3, <1>4, <2>1, <2>3, LeavesKeeps
  <2> QED  BY <2>1, <2>2, <2>3
<1>11. CASE Dies(p)
  <2>1. /\ Goes(p, Idle) /\ UNCHANGED <<enabled, saved, logged, runs, redone, shared>>
        /\ made' = Counts(made, On(p), Plus(DoneIn(saved[On(p)]), redone[On(p)]))
        /\ faults' \in 0 .. MaxFaults
    BY <1>3, <1>11 DEF Dies
  <2>2. DoneIn(saved[On(p)]) \in Turns /\ redone[On(p)] \in Turns
    BY <1>1, NothingType DEF DoneIn, IInv, TypeOK, Works
  <2>3. Plus(DoneIn(saved[On(p)]), redone[On(p)]) \in Turns  BY <2>2, TurnsType
  <2>4. made' \in [Threads -> Turns]  BY <1>1, <1>3, <2>1, <2>3, CountsType
  <2> QED  BY <2>1, <2>4, GoneKeeps
<1> QED  BY <1>5, <1>7, <1>8, <1>9, <1>10, <1>11

\* Every node, and the join, keeps the runs sound.
LEMMA StepInv ==
    IInv /\ [Next]_vars => IInv'
<1> SUFFICES ASSUME IInv, [Next]_vars PROVE IInv'
  OBVIOUS
<1>1. CASE UNCHANGED vars
  BY <1>1 DEF vars, IInv, TypeOK, WorkInv
<1>2. CASE Next
  <2>1. PICK p \in Procs : Step(p) \/ Fails(p) \/ Dies(p) \/ \E s \in Settings : Begin(p, s)
    BY <1>2 DEF Next
  <2>2. CASE \E s \in Settings : Begin(p, s)
    BY <2>2, BeginKeeps
  <2>3. CASE Fails(p) \/ Dies(p)
    BY <2>3, EndsKeep
  <2>4. CASE Step(p)
    <3>1. Debaters \subseteq Speakers /\ RiskAnalysts \subseteq Speakers
      BY DEF Speakers
    <3>2. \/ \E a \in Analysts : AgentTurn(p, a) \/ RunTools(p, a) \/ WrapUp(p, a)
          \/ ReportsIn(p)
          \/ \E speaker \in Speakers : Speaks(p, speaker)
          \/ ResearchManager(p) \/ Trader(p) \/ PortfolioManager(p)
          \/ OutOfSteps(p) \/ Finish(p) \/ Record(p) \/ Clear(p)
          \/ Invoke(p) \/ NothingToResume(p)
      BY <2>4, <3>1 DEF Step, BullResearcher, BearResearcher, AggressiveAnalyst,
                        ConservativeAnalyst, NeutralAnalyst, Debaters, RiskAnalysts
    <3> QED  BY <3>2, DesksKeep, NodesKeep, EndsKeep, InvokeKeeps
  <2> QED  BY <2>1, <2>2, <2>3, <2>4
<1> QED  BY <1>1, <1>2

\* So every run, checkpoint and logged decision is sound.
LEMMA Invariance == Spec => []IInv
BY InitInv, StepInv, PTL DEF Spec

\* The state has its type in every reachable state
THEOREM TypeCorrect == Spec => []TypeOK
<1>1. IInv => TypeOK  BY DEF IInv
<1> QED  BY <1>1, Invariance, PTL

-----------------------------------------------------------------------------
(* What a decision rests on. *)

\* Settings of one thread differ in the roles' models only.
LEMMA AlikeOfThread ==
    ASSUME NEW s \in Settings, NEW u \in Settings, Thread(u) = Thread(s)
    PROVE  u \in Alike(s)
<1>1. /\ u.analysts = s.analysts /\ u.debate = s.debate /\ u.risk = s.risk
      /\ u.config = s.config
  BY DEF Thread
<1>2. [u EXCEPT !.models = s.models] = s
  BY <1>1, SettingsAssumption
<1> QED  BY <1>2 DEF Alike

\* A sound run that has passed its last node has what SoundDecision asks for.
LEMMA DecisionSound ==
    ASSUME NEW s \in Settings, NEW w \in Works, Sound(Thread(s), w), w.next = "end"
    PROVE  /\ \A a \in Analysts : w.desk[a].at = IF a \in s.analysts THEN "filed"
                                                 ELSE "not selected"
           /\ s.debate > 0 => \A x \in Debaters : w.turns[x] = s.debate
           /\ s.risk > 0 => \A x \in RiskAnalysts : w.turns[x] = s.risk
           /\ w.by \subseteq Alike(s)
<1> DEFINE t == Thread(s)
<1>1. t \in Threads /\ t.analysts = s.analysts /\ t.debate = s.debate /\ t.risk = s.risk
  BY ThreadType
<1>2. DeskInv(t, w) /\ DebateInv(t, w) /\ RiskInv(t, w) /\ \A u \in w.by : Thread(u) = t
  BY DEF Sound
<1> HIDE DEF t
<1>3. ASSUME NEW a \in Analysts
      PROVE  w.desk[a].at = IF a \in s.analysts THEN "filed" ELSE "not selected"
  <2> DEFINE d == w.desk[a]
  <2>1. DeskOk(t, "end", a, d)  BY <1>2 DEF DeskInv
  <2> HIDE DEF d
  <2>2. /\ d.at = "not selected" <=> a \notin t.analysts
        /\ d.at \in {"not selected", "filed"}
    BY <2>1 DEF DeskOk
  <2>3. d.at = IF a \in s.analysts THEN "filed" ELSE "not selected"
    BY <1>1, <2>2
  <2> QED  BY <2>3 DEF d
<1>4. /\ s.debate > 0 => \A x \in Debaters : w.turns[x] = s.debate
      /\ s.risk > 0 => \A x \in RiskAnalysts : w.turns[x] = s.risk
  BY <1>1, <1>2 DEF DebateInv, RiskInv, DebateOk, RiskOk, Debaters, RiskAnalysts
<1>5. w.by \subseteq Alike(s)
  <2>1. w.by \subseteq Settings  BY DEF Works
  <2> QED  BY <1>2, <2>1, AlikeOfThread DEF t
<1> QED  BY <1>3, <1>4, <1>5

\* Whatever fails, is killed and is resumed, and whatever other processes run: a decision rests
\* on the reports and turns its own settings ask for, and on no work of other settings
THEOREM DecisionIsSound == Spec => []SoundDecision
<1>1. ASSUME IInv PROVE SoundDecision
  <2> SUFFICES ASSUME NEW d \in Decided
               PROVE  /\ d.set \in Settings /\ d.work \in Works
                      /\ Sound(Thread(d.set), d.work) /\ d.work.next = "end"
    BY DecisionSound DEF SoundDecision
  <2>1. CASE logged # None /\ d = logged
    BY <1>1, <2>1 DEF IInv, TypeOK, WorkInv
  <2>2. ASSUME NEW p \in Procs, At(p, "finished") \/ At(p, "recorded"), d = run[p]
        PROVE  /\ d.set \in Settings /\ d.work \in Works
               /\ Sound(Thread(d.set), d.work) /\ d.work.next = "end"
    <3>1. run[p] \in Running  BY <1>1, <2>2, Places DEF IInv
    <3> QED  BY <1>1, <2>2, <3>1, RunFacts DEF IInv, On, WorkOf
  <2> QED  BY <2>1, <2>2 DEF Decided
<1> QED  BY <1>1, Invariance, PTL

\* An analyst's rounds of tool calls end before the limit of its graph's steps
THEOREM AnalystsInLimit == Spec => []AnalystsWithinSteps
<1>1. ASSUME IInv PROVE AnalystsWithinSteps
  <2> SUFFICES ASSUME NEW p \in Procs, At(p, "working"), NEW a \in Analysts
               PROVE  2 * WorkOf(p).desk[a].rounds + 2 < RecurLimit
    BY DEF AnalystsWithinSteps
  <2>1. On(p) \in Threads /\ WorkOf(p) \in Works /\ Sound(On(p), WorkOf(p))
    BY <1>1, Places, RunFacts DEF IInv
  <2> DEFINE rounds == WorkOf(p).desk[a].rounds
  <2>2. rounds \in 0 .. ToolRounds  BY <2>1, DeskFacts
  <2> HIDE DEF rounds
  <2>3. 2 * rounds + 2 < RecurLimit  BY <2>2, LimitAssumption, ToolsAssumption
  <2> QED  BY <2>3 DEF rounds
<1> QED  BY <1>1, Invariance, PTL

-----------------------------------------------------------------------------
(* What is paid for. *)

\* What has been done for a thread: its checkpoint, and what was begun again
SavedDone(t) == Plus(DoneIn(saved[t]), redone[t])
Prepares(p) == At(p, "starting") \/ At(p, "resuming")

\* A thread that never had two runs at a time: its run has done what was done for the thread,
\* and so has the checkpoint while the run prepares, when the graph has ended, or when no run
\* is left
RunMade(t, p) ==
    /\ Prepares(p) => /\ made[t] = SavedDone(t)
                      /\ At(p, "starting") => saved[t] = None
    /\ ~Prepares(p) => /\ made[t] = Plus(WorkOf(p).done, redone[t])
                       /\ ~At(p, "working") => DoneIn(saved[t]) = WorkOf(p).done

MadeOk(t) ==
    /\ \A p, q \in OthersOn(t) : p = q
    /\ \A p \in OthersOn(t) : RunMade(t, p)
    /\ OthersOn(t) = {} => made[t] = SavedDone(t)

MadeInv == enabled => \A t \in Threads \ shared : MadeOk(t)

\* The run of p, and the thread of that run, are all that a step of p touches
LEMMA MadeOnly ==
    ASSUME IInv, MadeInv, enabled, NEW p \in Procs, ~At(p, "idle"),
           NEW to \in Running \cup {Idle}, Goes(p, to),
           to # Idle => Thread(to.set) = On(p),
           enabled' = enabled, shared' = shared,
           \A u \in Threads \ {On(p)} : /\ made'[u] = made[u] /\ saved'[u] = saved[u]
                                        /\ redone'[u] = redone[u],
           On(p) \notin shared =>
              /\ to = Idle => made'[On(p)] = Plus(DoneIn(saved'[On(p)]), redone'[On(p)])
              /\ to # Idle => /\ made'[On(p)] = Plus(to.work.done, redone'[On(p)])
                              /\ to.pc # "working" => DoneIn(saved'[On(p)]) = to.work.done
    PROVE  MadeInv'
<1>1. run \in [Procs -> Running \cup Preparing \cup {Idle}]  BY DEF IInv, TypeOK
<1>2. \A q \in Procs : run'[q] = IF q = p THEN to ELSE run[q]
  BY <1>1 DEF Goes
<1>3. to # Idle => to.pc \in {"working", "finished", "recorded"}  BY DEF Running
<1>4. to = Idle => to.pc = "idle"  BY DEF Idle
<1> SUFFICES ASSUME NEW t \in Threads \ shared
             PROVE  MadeOk(t)'
  BY DEF MadeInv
<1>5. MadeOk(t)  BY DEF MadeInv
<1>6. \A q \in Procs \ {p} : /\ q \in OthersOn(t)' <=> q \in OthersOn(t)
                             /\ WorkOf(q)' = WorkOf(q)
                             /\ At(q, "working")' <=> At(q, "working")
                             /\ At(q, "starting")' <=> At(q, "starting")
                             /\ Prepares(q)' <=> Prepares(q)
  BY <1>2 DEF OthersOn, At, On, WorkOf, Prepares
<1>7. p \in OthersOn(t) <=> On(p) = t
  BY DEF OthersOn
<1>8. p \in OthersOn(t)' <=> to # Idle /\ On(p) = t
  BY <1>2, <1>3, <1>4 DEF OthersOn, At, On
<1>9. OthersOn(t) \subseteq Procs /\ OthersOn(t)' \subseteq Procs
  BY DEF OthersOn
<1>10. CASE On(p) # t
  <2>1. OthersOn(t)' = OthersOn(t) /\ p \notin OthersOn(t)
    BY <1>6, <1>7, <1>8, <1>9, <1>10
  <2>2. made'[t] = made[t] /\ saved'[t] = saved[t] /\ redone'[t] = redone[t]
    BY <1>10
  <2>3. DoneIn(saved[t])' = DoneIn(saved[t]) /\ SavedDone(t)' = SavedDone(t)
    BY <2>2 DEF DoneIn, SavedDone
  <2>4. ASSUME NEW q \in OthersOn(t)'
        PROVE  RunMade(t, q)'
    <3>1. q \in Procs \ {p} /\ RunMade(t, q)
      BY <1>5, <1>9, <2>1 DEF MadeOk
    <3> QED  BY <1>6, <2>2, <2>3, <3>1 DEF RunMade
  <2> QED  BY <1>5, <2>1, <2>2, <2>3, <2>4 DEF MadeOk
<1>11. CASE On(p) = t
  <2>1. \A q \in OthersOn(t) : q = p
    BY <1>5, <1>7, <1>11 DEF MadeOk
  <2>2. OthersOn(t)' = IF to = Idle THEN {} ELSE {p}
    BY <1>6, <1>8, <1>9, <1>11, <2>1
  <2>3. WorkOf(p)' = to.work /\ (At(p, "working")' <=> to.pc = "working")
    BY <1>2 DEF WorkOf, At
  <2>4. SavedDone(t)' = Plus(DoneIn(saved'[t]), redone'[t]) /\ DoneIn(saved[t])' = DoneIn(saved'[t])
    BY DEF DoneIn, SavedDone
  <2>5. CASE to = Idle
    BY <1>11, <2>2, <2>4, <2>5 DEF MadeOk
  <2>6. CASE to # Idle
    <3>1. ~Prepares(p)'  BY <1>2, <1>3, <2>6 DEF Prepares, At
    <3>2. RunMade(t, p)'  BY <1>11, <2>3, <2>4, <2>6, <3>1 DEF RunMade
    <3> QED  BY <2>2, <2>6, <3>2 DEF MadeOk
  <2> QED  BY <2>5, <2>6
<1> QED  BY <1>10, <1>11

\* The turns of a state, and of none
LEMMA WorkDone ==
    ASSUME NEW w \in Works
    PROVE  w # None /\ DoneIn(w) = w.done /\ DoneIn(None) = Nothing /\ w.done \in Turns
BY NoneAssumption DEF DoneIn, Works

\* What is known of the thread of a run
LEMMA MadeFacts ==
    ASSUME MadeInv, enabled, NEW p \in Procs, ~At(p, "idle"), On(p) \in Threads \ shared
    PROVE  RunMade(On(p), p)
<1>1. p \in OthersOn(On(p))  BY DEF OthersOn
<1> QED  BY <1>1 DEF MadeInv, MadeOk

\* The counts of the threads, typed
LEMMA CountTypes ==
    ASSUME IInv
    PROVE  /\ made \in [Threads -> Turns] /\ redone \in [Threads -> Turns]
           /\ saved \in [Threads -> Works \cup {None}]
BY DEF IInv, TypeOK

\* A turn made is counted once, in the run and in its thread.
LEMMA AdvancesMade ==
    ASSUME IInv, MadeInv, enabled, NEW p \in Procs, At(p, "working"), NEW v \in Works,
           v.done = WorkOf(p).done, NEW n \in 0 .. 1, NEW who, Advances(p, v, n, who)
    PROVE  MadeInv'
<1> DEFINE t == On(p)
<1>0. ~At(p, "idle") /\ ~Prepares(p)  BY DEF At, Prepares
<1>1. run[p] \in Running /\ t \in Threads /\ WorkOf(p) \in Works
  BY Places, RunFacts DEF IInv
<1> HIDE DEF t
<1> DEFINE after == [v EXCEPT !.done = Counted(@, who)]
           to == [run[p] EXCEPT !.work = after, !.steps = @ + n]
<1>2. after \in Works /\ after.done = Counted(v.done, who)
  <2>1. Counted(v.done, who) \in Turns  BY WorkDone, TurnsType
  <2>2. \A f \in Turns : [v EXCEPT !.done = f] \in Works /\ [v EXCEPT !.done = f].done = f
    BY DEF Works
  <2> QED  BY <2>1, <2>2
<1>3. /\ Goes(p, to)
      /\ \E written \in {WorkOf(p), after} : saved' = [saved EXCEPT ![t] = written]
      /\ made' = Counts(made, t, Counted(made[t], who))
      /\ UNCHANGED <<enabled, logged, runs, faults, redone, shared>>
  BY DEF Advances, t
<1> HIDE DEF after
<1>4. to \in Running /\ to.pc = "working" /\ to.set = run[p].set /\ to.work = after
  <2>1. to \in Running /\ to.pc = run[p].pc /\ to.set = run[p].set /\ to.work = after
    BY <1>1, <1>2, RunAfter
  <2> QED  BY <2>1 DEF At
<1> HIDE DEF to
<1>5. to # Idle /\ Thread(to.set) = t
  BY <1>4 DEF Idle, On, t
<1>6. made[t] \in Turns /\ redone[t] \in Turns
  BY <1>1, CountTypes
<1>7. Counted(made[t], who) \in Turns  BY <1>6, TurnsType
<1>8. /\ t \notin shared => made'[t] = Counted(made[t], who)
      /\ \A u \in Threads \ {t} : made'[u] = made[u]
  BY <1>1, <1>3, <1>7, CountTypes, CountsType
<1>9. \A u \in Threads \ {t} : saved'[u] = saved[u] /\ redone'[u] = redone[u]
  BY <1>3, CountTypes
<1>10. ASSUME t \notin shared
       PROVE  made'[t] = Plus(to.work.done, redone'[t])
  <2>1. RunMade(t, p)  BY <1>0, <1>1, <1>10, MadeFacts DEF t
  <2>2. made[t] = Plus(v.done, redone[t])  BY <1>0, <2>1 DEF RunMade
  <2>3. v.done \in Turns  BY WorkDone
  <2>4. Counted(made[t], who) = Plus(Counted(v.done, who), redone[t])
    BY <1>6, <2>2, <2>3, TurnsType
  <2>5. redone'[t] = redone[t]  BY <1>3
  <2> QED  BY <1>2, <1>4, <1>8, <1>10, <2>4, <2>5
<1> QED  BY <1>0, <1>3, <1>4, <1>5, <1>8, <1>9, <1>10, MadeOnly DEF t

\* The graph's steps count what they do
LEMMA NodesMade ==
    ASSUME IInv, MadeInv, enabled, NEW p \in Procs,
           \/ \E a \in Analysts : AgentTurn(p, a) \/ RunTools(p, a) \/ WrapUp(p, a)
           \/ ReportsIn(p)
           \/ \E speaker \in Speakers : Speaks(p, speaker)
           \/ ResearchManager(p) \/ Trader(p) \/ PortfolioManager(p)
    PROVE  MadeInv'
<1> DEFINE w == WorkOf(p)
<1>1. At(p, "working")
  BY DEF AgentTurn, RunTools, WrapUp, Sits, ReportsIn, Speaks, ResearchManager, Trader,
         PortfolioManager, Node, NextIs
<1>2. w \in Works /\ run[p].set \in Settings /\ Sound(Thread(run[p].set), w)
  BY <1>1, Places, RunFacts DEF IInv, On
<1>3. ASSUME NEW v \in Works, v.done = w.done, NEW n \in 0 .. 1, NEW who,
             Advances(p, v, n, who)
      PROVE  MadeInv'
  BY <1>1, <1>3, AdvancesMade
<1> HIDE DEF w
<1>4. 0 \in 0 .. 1 /\ 1 \in 0 .. 1  OBVIOUS
<1>5. ASSUME NEW a \in Analysts, NEW at, NEW rounds \in Nat, NEW who,
             at \in {"agent", "tools", "wrap_up", "filed"}, MovesTo(p, a, at, rounds, who)
      PROVE  MadeInv'
  <2> DEFINE d == [at |-> at, rounds |-> rounds]
             v == [w EXCEPT !.desk[a] = d]
  <2>1. d \in Desks  BY <1>5 DEF Desks
  <2>2. Advances(p, v, 0, who)  BY <1>5 DEF MovesTo, w
  <2> HIDE DEF d
  <2>3. v \in Works /\ v.done = w.done  BY <1>2, <2>1 DEF Works
  <2> HIDE DEF v
  <2> QED  BY <1>3, <1>4, <1>5, <2>2, <2>3
<1>6. ASSUME NEW a \in Analysts, AgentTurn(p, a) \/ RunTools(p, a) \/ WrapUp(p, a)
      PROVE  MadeInv'
  <2> DEFINE rounds == w.desk[a].rounds
  <2>1. rounds \in Nat
    BY <1>2 DEF Works, Desks
  <2>2. \/ MovesTo(p, a, "tools", rounds + 1, {a})
        \/ MovesTo(p, a, "filed", 0, {a})
        \/ MovesTo(p, a, MoreOrWrapUp(rounds), rounds, {})
    BY <1>6 DEF AgentTurn, RunTools, WrapUp, w
  <2> HIDE DEF rounds
  <2>3. MoreOrWrapUp(rounds) \in {"agent", "tools", "wrap_up", "filed"} /\ rounds + 1 \in Nat
    BY <2>1 DEF MoreOrWrapUp
  <2> QED  BY <1>4, <1>5, <2>1, <2>2, <2>3
<1>7. CASE ReportsIn(p)
  <2>1. Advances(p, [w EXCEPT !.next = "bull"], 1, {})  BY <1>7 DEF ReportsIn, w
  <2>2. [w EXCEPT !.next = "bull"] \in Works /\ [w EXCEPT !.next = "bull"].done = w.done
    BY <1>2 DEF Works, Nodes, Speakers, Debaters
  <2> QED  BY <1>3, <1>4, <2>1, <2>2
<1>8. ASSUME NEW speaker \in Speakers, Speaks(p, speaker)
      PROVE  MadeInv'
  <2> DEFINE turns == [w.turns EXCEPT ![speaker] = @ + 1]
             next == IF speaker \in Debaters
                     THEN ShouldContinueDebate(run[p].set, turns, speaker)
                     ELSE ShouldContinueRiskAnalysis(run[p].set, turns, speaker)
             v == [w EXCEPT !.next = next, !.turns = turns]
  <2>1. Advances(p, v, 1, {"nodes"})  BY <1>8 DEF Speaks, w
  <2>2. turns \in [Speakers -> Nat]  BY <1>2 DEF Works
  <2>3. next \in Nodes
    BY DEF Nodes, Speakers, Debaters, RiskAnalysts, ShouldContinueDebate,
           ShouldContinueRiskAnalysis
  <2> HIDE DEF turns, next
  <2>4. v \in Works /\ v.done = w.done  BY <1>2, <2>2, <2>3 DEF Works
  <2> HIDE DEF v
  <2> QED  BY <1>3, <1>4, <2>1, <2>4
<1>9. ASSUME NEW node, NEW next \in Nodes, Node(p, node, next)
      PROVE  MadeInv'
  <2>1. Advances(p, [w EXCEPT !.next = next], 1, {"nodes"})  BY <1>9 DEF Node, w
  <2>2. [w EXCEPT !.next = next] \in Works /\ [w EXCEPT !.next = next].done = w.done
    BY <1>2 DEF Works
  <2> QED  BY <1>3, <1>4, <2>1, <2>2
<1>10. {"trader", "aggressive", "end"} \subseteq Nodes
  BY DEF Nodes, Speakers, RiskAnalysts
<1> QED  BY <1>6, <1>7, <1>8, <1>9, <1>10 DEF ResearchManager, Trader, PortfolioManager

\* A run that ends leaves the count with the checkpoint
LEMMA EndsMade ==
    ASSUME IInv, MadeInv, enabled, NEW p \in Procs,
           \/ OutOfSteps(p) \/ Finish(p) \/ Record(p) \/ Clear(p) \/ Fails(p) \/ Dies(p)
           \/ NothingToResume(p)
    PROVE  MadeInv'
<1> DEFINE t == On(p)
           w == WorkOf(p)
<1>1. ~At(p, "idle")
  BY DEF OutOfSteps, Finish, Record, Clear, Fails, Dies, NothingToResume, NextIs, At
<1>2. /\ t \in Threads /\ (run[p] \in Running => w \in Works)
      /\ run[p] \in Running <=> ~Prepares(p)
      /\ Prepares(p) => ~At(p, "working") /\ ~At(p, "finished") /\ ~At(p, "recorded")
  BY <1>1, Places, RunFacts DEF IInv, Prepares, At
<1>3. /\ made \in [Threads -> Turns] /\ redone \in [Threads -> Turns]
      /\ saved \in [Threads -> Works \cup {None}]
  BY CountTypes
<1>4. t \notin shared => RunMade(t, p)
  BY <1>1, <1>2, MadeFacts
<1>5. run[p] \in Running => DoneIn(w) = w.done
  BY <1>2, WorkDone
<1>6. enabled' = enabled /\ shared' = shared
  BY DEF OutOfSteps, Finish, Record, Clear, Fails, Dies, NothingToResume
<1>7. Nothing \in Turns /\ Plus(Nothing, Nothing) = Nothing /\ DoneIn(None) = Nothing
  BY NothingType DEF DoneIn
<1>8. SavedDone(t) \in Turns
  <2>1. DoneIn(saved[t]) \in Turns /\ redone[t] \in Turns
    BY <1>2, <1>3, <1>7, WorkDone
  <2> QED  BY <2>1, TurnsType DEF SavedDone
<1>9. ASSUME NEW to \in Running \cup {Idle}, Goes(p, to), to # Idle => Thread(to.set) = t,
             made' = made \/ (\E n \in Turns : made' = Counts(made, t, n)),
             redone' = redone \/ redone' = Counts(redone, t, Nothing),
             saved' = saved \/ (\E v : saved' = [saved EXCEPT ![t] = v]),
             t \notin shared =>
                /\ to = Idle => made'[t] = Plus(DoneIn(saved'[t]), redone'[t])
                /\ to # Idle => /\ made'[t] = Plus(to.work.done, redone'[t])
                                /\ to.pc # "working" => DoneIn(saved'[t]) = to.work.done
      PROVE  MadeInv'
  <2>1. \A u \in Threads \ {t} : made'[u] = made[u]
    BY <1>2, <1>3, <1>9, CountsType
  <2>2. \A u \in Threads \ {t} : redone'[u] = redone[u]
    <3>1. \A u \in Threads \ {t} : Counts(redone, t, Nothing)[u] = redone[u]
      BY <1>2, <1>3, <1>7, CountsType
    <3> QED  BY <1>9, <3>1
  <2>3. \A u \in Threads \ {t} : saved'[u] = saved[u]
    BY <1>3, <1>9
  <2> QED  BY <1>1, <1>6, <1>9, <2>1, <2>2, <2>3, MadeOnly
<1>10. ASSUME NEW pc \in {"finished", "recorded"}, run[p] \in Running
       PROVE  /\ [run[p] EXCEPT !.pc = pc] \in Running
              /\ [run[p] EXCEPT !.pc = pc].work = w
              /\ Thread([run[p] EXCEPT !.pc = pc].set) = t
              /\ [run[p] EXCEPT !.pc = pc] # Idle
  <2> DEFINE to == [run[p] EXCEPT !.pc = pc]
  <2>1. to \in Running /\ to.set = run[p].set /\ to.work = run[p].work /\ to.pc = pc
    BY <1>10 DEF Running
  <2> HIDE DEF to
  <2>2. to.work = w /\ Thread(to.set) = t /\ to # Idle
    BY <2>1 DEF On, WorkOf, Idle
  <2> QED  BY <2>1, <2>2 DEF to
<1>11. ASSUME run[p] \in Running, t \notin shared
       PROVE  /\ made[t] = Plus(w.done, redone[t])
              /\ ~At(p, "working") => DoneIn(saved[t]) = w.done
  BY <1>2, <1>4, <1>11 DEF RunMade
<1>12. ASSUME ~At(p, "working"), t \notin shared
       PROVE  made[t] = Plus(DoneIn(saved[t]), redone[t])
  <2>1. CASE Prepares(p)  BY <1>4, <1>12, <2>1 DEF RunMade, SavedDone
  <2>2. CASE ~Prepares(p)  BY <1>2, <1>11, <1>12, <2>2
  <2> QED  BY <2>1, <2>2
<1>13. At(p, "working") \/ At(p, "finished") \/ At(p, "recorded") => run[p] \in Running
  BY <1>2
<1> HIDE DEF t, w
<1>14. CASE OutOfSteps(p)
  <2>1. Goes(p, Idle) /\ made' = made /\ redone' = redone /\ saved' = [saved EXCEPT ![t] = w]
        /\ run[p] \in Running
    BY <1>13, <1>14 DEF OutOfSteps, Saves, t, w
  <2>2. saved'[t] = w  BY <1>2, <1>3, <2>1
  <2>3. t \notin shared => made'[t] = Plus(DoneIn(saved'[t]), redone'[t])
    BY <1>5, <1>11, <2>1, <2>2
  <2> QED  BY <1>9, <2>1, <2>3
<1>15. CASE Finish(p)
  <2> DEFINE to == [run[p] EXCEPT !.pc = "finished"]
  <2>1. Goes(p, to) /\ made' = made /\ redone' = redone /\ saved' = [saved EXCEPT ![t] = w]
        /\ run[p] \in Running
    BY <1>13, <1>15 DEF Finish, NextIs, Saves, t, w
  <2>2. to \in Running /\ to.work = w /\ Thread(to.set) = t /\ to # Idle
    BY <1>10, <2>1
  <2>3. saved'[t] = w  BY <1>2, <1>3, <2>1
  <2> HIDE DEF to
  <2>4. t \notin shared => /\ made'[t] = Plus(to.work.done, redone'[t])
                           /\ DoneIn(saved'[t]) = to.work.done
    BY <1>5, <1>11, <2>1, <2>2, <2>3
  <2> QED  BY <1>9, <2>1, <2>2, <2>4
<1>16. CASE Record(p)
  <2> DEFINE to == [run[p] EXCEPT !.pc = "recorded"]
  <2>1. Goes(p, to) /\ made' = made /\ redone' = redone /\ saved' = saved
        /\ run[p] \in Running /\ ~At(p, "working")
    BY <1>13, <1>16 DEF Record, At
  <2>2. to \in Running /\ to.work = w /\ Thread(to.set) = t /\ to # Idle
    BY <1>10, <2>1
  <2> HIDE DEF to
  <2>3. t \notin shared => /\ made'[t] = Plus(to.work.done, redone'[t])
                           /\ DoneIn(saved'[t]) = to.work.done
    BY <1>11, <2>1, <2>2
  <2> QED  BY <1>9, <2>1, <2>2, <2>3
<1>17. CASE Clear(p)
  <2>1. /\ Goes(p, Idle) /\ ~At(p, "working")
        /\ \/ /\ saved' = [saved EXCEPT ![t] = None]
              /\ made' = Counts(made, t, Nothing) /\ redone' = Counts(redone, t, Nothing)
           \/ saved' = saved /\ made' = made /\ redone' = redone
    BY <1>17 DEF Clear, At, t
  <2>2. CASE saved' = saved /\ made' = made /\ redone' = redone
    <3>1. t \notin shared => made'[t] = Plus(DoneIn(saved'[t]), redone'[t])
      BY <1>12, <2>1, <2>2
    <3> QED  BY <1>9, <2>1, <2>2, <3>1
  <2>3. CASE /\ saved' = [saved EXCEPT ![t] = None]
             /\ made' = Counts(made, t, Nothing) /\ redone' = Counts(redone, t, Nothing)
    <3>1. saved'[t] = None  BY <1>2, <1>3, <2>3
    <3>2. t \notin shared => made'[t] = Nothing /\ redone'[t] = Nothing
      BY <1>2, <1>3, <1>7, <2>3, CountsType
    <3>3. t \notin shared => made'[t] = Plus(DoneIn(saved'[t]), redone'[t])
      BY <1>7, <3>1, <3>2
    <3> QED  BY <1>7, <1>9, <2>1, <2>3, <3>3
  <2> QED  BY <2>1, <2>2, <2>3
<1>18. CASE Fails(p)
  <2>1. /\ Goes(p, Idle) /\ made' = made /\ redone' = redone
        /\ \/ At(p, "working") /\ saved' = [saved EXCEPT ![t] = w]
           \/ ~At(p, "working") /\ saved' = saved
    BY <1>18 DEF Fails, Saves, t, w
  <2>2. CASE At(p, "working") /\ saved' = [saved EXCEPT ![t] = w]
    <3>1. saved'[t] = w /\ run[p] \in Running  BY <1>2, <1>3, <1>13, <2>2
    <3>2. t \notin shared => made'[t] = Plus(DoneIn(saved'[t]), redone'[t])
      BY <1>5, <1>11, <2>1, <3>1
    <3> QED  BY <1>9, <2>1, <2>2, <3>2
  <2>3. CASE ~At(p, "working") /\ saved' = saved
    <3>1. t \notin shared => made'[t] = Plus(DoneIn(saved'[t]), redone'[t])
      BY <1>12, <2>1, <2>3
    <3> QED  BY <1>9, <2>1, <2>3, <3>1
  <2> QED  BY <2>1, <2>2, <2>3
<1>19. CASE Dies(p)
  <2>1. Goes(p, Idle) /\ saved' = saved /\ redone' = redone /\ made' = Counts(made, t, SavedDone(t))
    BY <1>19 DEF Dies, SavedDone, t
  <2>2. t \notin shared => made'[t] = SavedDone(t)
    BY <1>2, <1>3, <1>8, <2>1, CountsType
  <2>3. t \notin shared => made'[t] = Plus(DoneIn(saved'[t]), redone'[t])
    BY <2>1, <2>2 DEF SavedDone
  <2> QED  BY <1>8, <1>9, <2>1, <2>3
<1>20. CASE NothingToResume(p)
  <2>1. Goes(p, Idle) /\ made' = made /\ redone' = redone /\ saved' = saved /\ ~At(p, "working")
    BY <1>20 DEF NothingToResume, At
  <2>2. t \notin shared => made'[t] = Plus(DoneIn(saved'[t]), redone'[t])
    BY <1>12, <2>1
  <2> QED  BY <1>9, <2>1, <2>2
<1> QED  BY <1>14, <1>15, <1>16, <1>17, <1>18, <1>19, <1>20

\* A run that begins finds what was done for its thread
LEMMA BeginMade ==
    ASSUME IInv, MadeInv, enabled, NEW p \in Procs, NEW s \in Settings, Begin(p, s)
    PROVE  MadeInv'
<1> DEFINE t == Thread(s)
           to == [pc |-> IF enabled /\ saved[t] # None THEN "resuming" ELSE "starting",
                  set |-> s, steps |-> 0, work |-> None]
<1>1. /\ At(p, "idle") /\ Goes(p, to) /\ UNCHANGED <<enabled, saved, made, redone>>
      /\ shared' = (IF OthersOn(t) = {} THEN shared ELSE shared \cup {t})
  BY DEF Begin
<1>2. /\ to.pc \in {"starting", "resuming"} /\ to.set = s
      /\ to.pc = "starting" => saved[t] = None
  OBVIOUS
<1> HIDE DEF to, t
<1>3. \A q \in Procs : run'[q] = IF q = p THEN to ELSE run[q]
  BY <1>1 DEF Goes, IInv, TypeOK
<1> SUFFICES ASSUME NEW u \in Threads \ shared'
             PROVE  MadeOk(u)'
  BY DEF MadeInv
<1>4. u \in Threads \ shared /\ MadeOk(u)
  BY <1>1 DEF MadeInv
<1>5. \A q \in Procs \ {p} : /\ q \in OthersOn(u)' <=> q \in OthersOn(u)
                             /\ WorkOf(q)' = WorkOf(q)
                             /\ At(q, "working")' <=> At(q, "working")
                             /\ At(q, "starting")' <=> At(q, "starting")
                             /\ Prepares(q)' <=> Prepares(q)
  BY <1>3 DEF OthersOn, At, On, WorkOf, Prepares
<1>6. p \notin OthersOn(u)
  BY <1>1 DEF OthersOn
<1>7. /\ p \in OthersOn(u)' <=> u = t
      /\ Prepares(p)' /\ (At(p, "starting")' <=> to.pc = "starting")
  BY <1>2, <1>3 DEF OthersOn, At, On, Prepares, t
<1>8. OthersOn(u) \subseteq Procs /\ OthersOn(u)' \subseteq Procs
  BY DEF OthersOn
<1>9. /\ DoneIn(saved[u])' = DoneIn(saved[u]) /\ SavedDone(u)' = SavedDone(u)
      /\ made'[u] = made[u] /\ redone'[u] = redone[u] /\ saved'[u] = saved[u]
  BY <1>1 DEF DoneIn, SavedDone
<1>10. CASE u # t
  <2>1. OthersOn(u)' = OthersOn(u)
    BY <1>5, <1>6, <1>7, <1>8, <1>10
  <2>2. ASSUME NEW q \in OthersOn(u)'
        PROVE  RunMade(u, q)'
    <3>1. q \in Procs \ {p} /\ RunMade(u, q)
      BY <1>4, <1>6, <1>8, <2>1 DEF MadeOk
    <3> QED  BY <1>5, <1>9, <3>1 DEF RunMade
  <2> QED  BY <1>4, <1>9, <2>1, <2>2 DEF MadeOk
<1>11. CASE u = t
  <2>1. OthersOn(u) = {}
    BY <1>1, <1>11
  <2>2. OthersOn(u)' = {p}
    BY <1>5, <1>7, <1>8, <1>11, <2>1
  <2>3. made[u] = SavedDone(u)
    BY <1>4, <2>1 DEF MadeOk
  <2>4. RunMade(u, p)'
    BY <1>2, <1>7, <1>9, <1>11, <2>3 DEF RunMade
  <2> QED  BY <2>2, <2>4 DEF MadeOk
<1> QED  BY <1>10, <1>11

\* What is left of a state's turns, and what is begun again, are its turns.
LEMMA LeftAndMore ==
    ASSUME NEW w \in Works, NEW f \in Turns, NEW again
    PROVE  /\ Plus(w.done, f) = Plus(Left(w, again), More(f, w, again))
           /\ More(f, w, again) \in Turns
<1>1. w.done \in Turns  BY WorkDone
<1> QED  BY <1>1 DEF Plus, Left, More, Turns

\* A run that takes up a state holds what was done for its thread, or counts it as begun again
LEMMA InvokeMade ==
    ASSUME IInv, MadeInv, enabled, NEW p \in Procs, Invoke(p)
    PROVE  MadeInv'
<1>1. PICK w \in Works, again \in SUBSET Analysts, to \in Running : TakesUp(p, w, again, to)
  BY InvokeFacts
<1> DEFINE t == On(p)
           more == More(redone[t], w, again)
<1>2. /\ t \in Threads /\ run[p] \in Preparing
      /\ At(p, "resuming") => w = saved[t]
      /\ At(p, "starting") => w.done = Nothing
      /\ Goes(p, to) /\ to.pc = "working" /\ Thread(to.set) = t
      /\ to.work.done = Left(w, again)
      /\ saved' = saved \/ \E v \in Works : saved' = [saved EXCEPT ![t] = v]
      /\ redone' = Counts(redone, t, more)
      /\ UNCHANGED <<enabled, made, shared>>
  BY <1>1 DEF TakesUp
<1>3. Prepares(p) /\ ~At(p, "idle")
  BY <1>2, Places DEF Prepares, IInv, At
<1>4. redone[t] \in Turns  BY <1>2, CountTypes
<1>5. more \in Turns  BY <1>4, LeftAndMore
<1>6. /\ t \notin shared => redone'[t] = more
      /\ \A u \in Threads \ {t} : redone'[u] = redone[u]
  <2>1. redone \in [Threads -> Turns]  BY CountTypes
  <2>2. /\ t \notin shared => Counts(redone, t, more)[t] = more
        /\ \A u \in Threads \ {t} : Counts(redone, t, more)[u] = redone[u]
    BY <1>2, <1>5, <2>1, CountsType
  <2> QED  BY <1>2, <2>2
<1>7. \A u \in Threads \ {t} : made'[u] = made[u] /\ saved'[u] = saved[u]
  BY <1>2, CountTypes
<1>8. ASSUME t \notin shared
      PROVE  made'[t] = Plus(to.work.done, redone'[t])
  <2>1. RunMade(t, p)  BY <1>2, <1>3, <1>8, MadeFacts
  <2>2. made[t] = Plus(DoneIn(saved[t]), redone[t]) /\ (At(p, "starting") => saved[t] = None)
    BY <1>3, <2>1 DEF RunMade, SavedDone
  <2>3. DoneIn(saved[t]) = w.done
    BY <1>2, <1>3, <2>2, WorkDone DEF Prepares
  <2>4. Plus(w.done, redone[t]) = Plus(Left(w, again), more)
    BY <1>4, LeftAndMore
  <2> QED  BY <1>2, <1>6, <1>8, <2>2, <2>3, <2>4
<1>9. to # Idle  BY <1>2 DEF Idle
<1> QED  BY <1>2, <1>3, <1>6, <1>7, <1>8, <1>9, MadeOnly

\* Whether there are checkpoints is fixed when the process starts.
LEMMA EnabledStays ==
    [Next]_vars => enabled' = enabled
<1> SUFFICES ASSUME Next PROVE enabled' = enabled
  BY DEF vars
<1>1. PICK p \in Procs : Step(p) \/ Fails(p) \/ Dies(p) \/ \E s \in Settings : Begin(p, s)
  BY DEF Next
<1>2. \A w, n, who : Advances(p, w, n, who) => enabled' = enabled
  BY DEF Advances
<1>3. \A speaker : Speaks(p, speaker) => enabled' = enabled
  BY <1>2 DEF Speaks
<1>4. \A node, next : Node(p, node, next) => enabled' = enabled
  BY <1>2 DEF Node
<1>5. \A a \in Analysts : AgentTurn(p, a) \/ RunTools(p, a) \/ WrapUp(p, a) => enabled' = enabled
  BY <1>2 DEF AgentTurn, RunTools, WrapUp, MovesTo
<1>6. ReportsIn(p) => enabled' = enabled
  BY <1>2 DEF ReportsIn
<1>7. OutOfSteps(p) \/ Finish(p) \/ Record(p) \/ Clear(p) \/ Invoke(p) \/ NothingToResume(p)
         => enabled' = enabled
  BY DEF OutOfSteps, Finish, Record, Clear, Invoke, NothingToResume
<1>8. Step(p) => enabled' = enabled
  BY <1>3, <1>4, <1>5, <1>6, <1>7
     DEF Step, BullResearcher, BearResearcher, ResearchManager, Trader, AggressiveAnalyst,
         ConservativeAnalyst, NeutralAnalyst, PortfolioManager
<1>9. Fails(p) \/ Dies(p) \/ (\E s \in Settings : Begin(p, s)) => enabled' = enabled
  BY DEF Fails, Dies, Begin
<1> QED  BY <1>1, <1>8, <1>9

\* Through failures, kills and resumes, from everything a thread's runs did since its last
\* decision: what its run holds, or its checkpoint, is every model turn made but those of
\* analysts that were begun again before they had filed
THEOREM NothingDoneTwice == Spec => []NothingRedone
<1>1. Init => MadeInv
  <2> SUFFICES ASSUME Init, NEW t \in Threads PROVE MadeOk(t)
    BY DEF MadeInv
  <2>1. OthersOn(t) = {}  BY DEF Init, OthersOn, At, Idle
  <2>2. made[t] = Nothing /\ redone[t] = Nothing /\ saved[t] = None  BY DEF Init
  <2>3. SavedDone(t) = Nothing  BY <2>2, NothingType DEF SavedDone, DoneIn
  <2> QED  BY <2>1, <2>2, <2>3 DEF MadeOk
<1>2. IInv /\ MadeInv /\ [Next]_vars => MadeInv'
  <2> SUFFICES ASSUME IInv, MadeInv, [Next]_vars PROVE MadeInv'
    OBVIOUS
  <2>1. CASE UNCHANGED vars
    BY <2>1 DEF vars, MadeInv, MadeOk, RunMade, SavedDone, Prepares, OthersOn, At, On, WorkOf,
                DoneIn
  <2>2. CASE ~enabled
    <3>1. enabled' = enabled  BY EnabledStays
    <3> QED  BY <2>2, <3>1 DEF MadeInv
  <2>3. CASE Next /\ enabled
    <3>1. PICK p \in Procs : Step(p) \/ Fails(p) \/ Dies(p) \/ \E s \in Settings : Begin(p, s)
      BY <2>3 DEF Next
    <3>2. CASE \E s \in Settings : Begin(p, s)
      BY <2>3, <3>2, BeginMade
    <3>3. CASE Fails(p) \/ Dies(p)
      BY <2>3, <3>3, EndsMade
    <3>4. CASE Step(p)
      <4>1. Debaters \subseteq Speakers /\ RiskAnalysts \subseteq Speakers
        BY DEF Speakers
      <4>2. \/ \E a \in Analysts : AgentTurn(p, a) \/ RunTools(p, a) \/ WrapUp(p, a)
            \/ ReportsIn(p)
            \/ \E speaker \in Speakers : Speaks(p, speaker)
            \/ ResearchManager(p) \/ Trader(p) \/ PortfolioManager(p)
            \/ OutOfSteps(p) \/ Finish(p) \/ Record(p) \/ Clear(p)
            \/ Invoke(p) \/ NothingToResume(p)
        BY <3>4, <4>1 DEF Step, BullResearcher, BearResearcher, AggressiveAnalyst,
                          ConservativeAnalyst, NeutralAnalyst, Debaters, RiskAnalysts
      <4> QED  BY <2>3, <4>2, NodesMade, EndsMade, InvokeMade
    <3> QED  BY <3>1, <3>2, <3>3, <3>4
  <2> QED  BY <2>1, <2>2, <2>3
<1>3. IInv /\ MadeInv => NothingRedone
  <2> SUFFICES ASSUME IInv, MadeInv, enabled, NEW t \in Threads \ shared
               PROVE  made[t] = Plus(Held(t), redone[t])
    BY DEF NothingRedone
  <2>1. MadeOk(t)  BY DEF MadeInv
  <2>2. \A p \in OthersOn(t) : /\ p \in HeldBy(t) <=> ~Prepares(p)
                              /\ RunMade(t, p)
    <3>1. ASSUME NEW p \in OthersOn(t) PROVE p \in HeldBy(t) <=> ~Prepares(p)
      <4>1. p \in Procs /\ ~At(p, "idle")  BY DEF OthersOn
      <4>2. (run[p] \in Running \/ run[p] \in Preparing)
            /\ (run[p] \in Preparing <=> Prepares(p))
            /\ (run[p] \in Preparing => WorkOf(p) = None)
        BY <4>1, Places DEF IInv, Prepares
      <4>3. run[p] \in Running => WorkOf(p) # None  BY <4>1, RunFacts DEF IInv
      <4> QED  BY <4>2, <4>3 DEF HeldBy
    <3> QED  BY <2>1, <3>1 DEF MadeOk
  <2>3. CASE HeldBy(t) = {}
    <3>1. made[t] = SavedDone(t)
      BY <2>1, <2>2, <2>3 DEF MadeOk, RunMade
    <3> QED  BY <2>3, <3>1 DEF Held, SavedDone
  <2>4. CASE HeldBy(t) # {}
    <3> DEFINE q == CHOOSE p \in HeldBy(t) : TRUE
    <3>1. q \in HeldBy(t)  BY <2>4
    <3>2. q \in OthersOn(t)  BY <3>1 DEF HeldBy
    <3> HIDE DEF q
    <3>3. made[t] = Plus(WorkOf(q).done, redone[t])
      BY <2>2, <3>1, <3>2 DEF RunMade
    <3> QED  BY <2>4, <3>3 DEF Held, q
  <2> QED  BY <2>3, <2>4
<1> QED  BY <1>1, <1>2, <1>3, Invariance, PTL DEF Spec
=============================================================================
