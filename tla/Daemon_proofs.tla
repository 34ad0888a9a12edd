---------------------------- MODULE Daemon_proofs ----------------------------
(***************************************************************************)
(* Proofs about Daemon, for every set of candidates, max_trades, number of *)
(* restarts and length of the day: its state keeps its types, max_trades   *)
(* holds, and the session implements the contract of Child.                *)
(***************************************************************************)
EXTENDS Daemon, FiniteSetTheorems, TLAPS

-----------------------------------------------------------------------------
(* The invariant. *)

\* Before MONITORING every symbol bought has used a slot, and a BUY is sent with a slot free
SlotInv ==
    /\ Cardinality(bought) <= max
    /\ phase \in {"pre_open", "scanning", "analyzing"} => Cardinality(bought) <= placed
    /\ phase = "analyzing" /\ step = "analysis" => placed < max

\* What the session's BUYs got, or may get, it has bought; and what it holds of that is known, or
\* still the fill of a BUY it has not read
BoughtInv ==
    /\ mine \subseteq bought /\ shown \subseteq net
    /\ \A s \in Symbols : /\ buy[s] # "none" => s \in bought
                          /\ s \in mine => s \in known \/ buy[s] # "none"
    /\ phase \in {"pre_open", "scanning"} => bought = {}

\* Nothing is told before the end, and a session that ends without a failure has told what it
\* may leave.  Its exit code is that of its failure
EndInv ==
    /\ phase \notin {"reporting", "over"} => ~told
    /\ phase \in {"reporting", "over"} /\ ~failed => (Exposed # {} => told)
    /\ failed => rc \in {"preopen", "error"}
    /\ ~failed => rc = IF phase = "over" THEN "ok" ELSE "none"
    /\ phase \in {"pre_open", "scanning"} => ~failed
    /\ rc = "preopen" => phase \in {"reporting", "over"}

IInv == TypeOK /\ SlotInv /\ BoughtInv /\ EndInv

-----------------------------------------------------------------------------
(* Types. *)

\* The session starts in a state of the right types.
LEMMA TypeInit == Init => TypeOK
<1> SUFFICES ASSUME Init PROVE TypeOK
  OBVIOUS
<1>1. buy \in [Symbols -> {"none", "open", "ended"}]
  BY DEF Init
<1>2. placed \in 0 .. max /\ left \in 0 .. Day /\ restarts \in 0 .. Restarts
  BY TimesAssumption DEF Init
<1>3. net \subseteq Symbols /\ shown \subseteq Symbols
  BY SymbolsAssumption DEF Init
<1> QED BY <1>1, <1>2, <1>3 DEF Init, TypeOK, Phases, Steps

\* What the broker, the clock and the scheduler do
LEMMA TypeOutside ==
    ASSUME TypeOK, BoughtInv, Broker \/ Tick \/ Stops
    PROVE  TypeOK'
<1>1. CASE Broker
  <2> SUFFICES ASSUME NEW s \in Symbols,
                      \/ BuyEnds(s) \/ SellFills(s)
                      \/ OtherSells(s) \/ OtherBuys(s) \/ Shows(s),
                      UNCHANGED <<left, phase, step, stop, tradeVars, monVars, passVars, endVars>>
               PROVE  TypeOK'
    BY <1>1 DEF Broker
  <2>1. /\ (net \subseteq Symbols)' /\ (shown \subseteq Symbols)' /\ (other \subseteq Others)'
        /\ (stuck \subseteq net)' /\ (mine \subseteq net)'
    BY SymbolsAssumption
       DEF BuyEnds, Got, Sold, SellFills, OtherSells, OtherBuys, Shows, TypeOK
  <2>2. (buy \in [Symbols -> {"none", "open", "ended"}])'
    BY DEF BuyEnds, Got, Sold, SellFills, OtherSells, OtherBuys, Shows, TypeOK
  <2> QED BY <2>1, <2>2 DEF TypeOK, tradeVars, monVars, passVars, endVars
<1>2. CASE Tick
  BY <1>2, TimesAssumption DEF Tick, TypeOK, brokerVars, tradeVars, monVars, passVars, endVars
<1>3. CASE Stops
  BY <1>3, TimesAssumption
     DEF Stops, Sooner, TypeOK, brokerVars, tradeVars, monVars, passVars, endVars
<1> QED BY <1>1, <1>2, <1>3

\* The phases before MONITORING
LEMMA TypeTrading ==
    ASSUME TypeOK, PreOpen \/ Scan \/ Analyzes \/ AnalysisEnds \/ SessionFails
    PROVE  TypeOK'
<1>1. CASE PreOpen
  BY <1>1, TimesAssumption
     DEF PreOpen, Sooner, TypeOK, Phases, brokerVars, tradeVars, monVars, passVars
<1>2. CASE Scan
  BY <1>2 DEF Scan, Goes, TypeOK, Phases, Steps, brokerVars, monVars, passVars, endVars
<1>3. CASE Analyzes
  BY <1>3 DEF Analyzes, TypeOK, Steps, brokerVars, tradeVars, monVars, passVars, endVars
<1>4. CASE AnalysisEnds
  BY <1>4, TimesAssumption
     DEF AnalysisEnds, Goes, Forget, TypeOK, Phases, Steps, brokerVars, monVars, passVars, endVars
<1>5. CASE SessionFails
  BY <1>5, TimesAssumption
     DEF SessionFails, Goes, Forget, TypeOK, Phases, Steps, brokerVars, monVars, passVars
<1> QED BY <1>1, <1>2, <1>3, <1>4, <1>5

\* A BUY takes a slot that is free
LEMMA TypeAnalyzed ==
    ASSUME TypeOK, BoughtInv, Analyzed, placed < max
    PROVE  TypeOK'
<1> USE TimesAssumption
<1>1. PICK s \in todo : NoTrade(s) \/ Buys(s) \/ Sells(s)
  BY DEF Analyzed
<1>2. max \in Nat /\ placed \in Nat
  BY DEF TypeOK
<1>3. CASE NoTrade(s)
  BY <1>3 DEF Analyzed, NoTrade, TypeOK, Steps, brokerVars, monVars, passVars, endVars
<1>4. CASE Buys(s)
  <2>1. /\ (net \subseteq Symbols)' /\ (shown \subseteq Symbols)' /\ (other \subseteq Others)'
        /\ (stuck \subseteq net)' /\ (mine \subseteq net)' /\ (todo \subseteq Symbols)'
        /\ (bought \subseteq Symbols)' /\ (known \subseteq bought)'
    BY <1>4 DEF Buys, Got, TypeOK
  <2>2. (buy \in [Symbols -> {"none", "open", "ended"}])'
    BY <1>4 DEF Buys, TypeOK
  <2>3. (placed \in 0 .. max)' /\ (max \in MaxTrades)'
    BY <1>2, <1>4 DEF Buys, Slots, Analyzed, TypeOK
  <2> QED BY <2>1, <2>2, <2>3 DEF Analyzed, TypeOK, Steps, monVars, passVars, endVars
<1>5. CASE Sells(s)
  <2>1. /\ net' \subseteq net /\ mine' \subseteq net' /\ shown' \subseteq shown
        /\ stuck' \subseteq net' /\ todo' \subseteq todo
    BY <1>5 DEF Sells, Sold, TypeOK, BoughtInv
  <2> QED BY <1>5, <2>1 DEF Sells, Analyzed, TypeOK, Steps, monVars, passVars, endVars
<1> QED BY <1>1, <1>3, <1>4, <1>5

\* MONITORING and what the broker does meanwhile keep the types.
LEMMA TypeMonitoring ==
    ASSUME TypeOK, BoughtInv, MonitorWorks \/ MonitorEnds
    PROVE  TypeOK'
<1>1. CASE MonitorWorks
  <2>1. PICK s \in Symbols :
         \/ /\ s \in shown \ (stuck \cup other) /\ left > 0
            /\ \/ Sold(s) /\ UNCHANGED stuck
               \/ stuck' = stuck \cup {s} /\ UNCHANGED <<net, mine, shown>>
            /\ UNCHANGED <<buy, known>>
         \/ FoundFinal({s}) /\ UNCHANGED <<net, mine, shown>>
    BY <1>1 DEF MonitorWorks
  <2>2. known' \subseteq bought /\ stuck' \subseteq net' /\ net' \subseteq Symbols
        /\ shown' \subseteq Symbols /\ mine' \subseteq net'
    BY <2>1 DEF FoundFinal, Sold, TypeOK, BoughtInv
  <2>3. buy' \in [Symbols -> {"none", "open", "ended"}]
    BY <2>1 DEF FoundFinal, TypeOK
  <2> QED BY <1>1, <2>2, <2>3 DEF MonitorWorks, TypeOK, monVars, passVars, endVars
<1>2. CASE MonitorEnds
  <2>1. PICK positions \in SUBSET Symbols :
         IF MonitorAgain(positions)
         THEN restarts' = restarts + 1 /\ UNCHANGED <<phase, step, cleared>>
         ELSE UNCHANGED restarts /\ Goes("closing", "loop") /\ cleared' = (positions = {})
    BY <1>2 DEF MonitorEnds
  <2>2. restarts' \in 0 .. Restarts
    BY <2>1, TimesAssumption DEF MonitorAgain, TypeOK
  <2>3. phase' \in Phases /\ step' \in Steps /\ cleared' \in BOOLEAN
    BY <2>1 DEF Goes, TypeOK, Phases, Steps
  <2> QED BY <1>2, <2>2, <2>3 DEF MonitorEnds, TypeOK, brokerVars, tradeVars, passVars, endVars
<1> QED BY <1>1, <1>2

\* CLOSING and the end of a session keep the types.
LEMMA TypeClosing ==
    ASSUME TypeOK, BoughtInv, Close \/ ClosingFails \/ Report
    PROVE  TypeOK'
<1>1. CASE PassBegins
  BY <1>1 DEF PassBegins, At, TypeOK, Steps, brokerVars, tradeVars, monVars, passVars, endVars
<1>2. CASE Resumes
  <2>1. PICK final \in SUBSET Unresolved : FoundFinal(final)
    BY <1>2 DEF Resumes
  <2>2. known' \subseteq bought /\ stuck' \subseteq net
    BY <2>1 DEF FoundFinal, TypeOK, BoughtInv
  <2>3. buy' \in [Symbols -> {"none", "open", "ended"}]
    BY <2>1 DEF FoundFinal, TypeOK
  <2> QED BY <1>2, <2>2, <2>3 DEF Resumes, At, TypeOK, Steps, monVars, passVars, endVars
<1>3. CASE PassReads
  BY <1>3 DEF PassReads, BookRead, BookFails, At, TypeOK, Steps, brokerVars, tradeVars, monVars,
              endVars
<1>4. CASE ReadFails
  BY <1>4 DEF ReadFails, At, TypeOK, Steps, brokerVars, tradeVars, monVars, passVars, endVars
<1>5. CASE PassEnds
  <2>1. PICK wait \in Waits :
         IF /\ short \/ blocked
            /\ ~second \/ blocked \/ wait > 0
            /\ CanPlace(1 + wait)
         THEN step' = "loop" /\ second' = TRUE /\ left' = left - wait
         ELSE step' = "final" /\ UNCHANGED <<second, left>>
    BY <1>5 DEF PassEnds
  <2>2. wait \in {0, 1} /\ left \in Nat /\ Day \in Nat /\ left <= Day
    BY TimesAssumption DEF Waits, TypeOK
  <2>3. left' \in 0 .. Day
    <3>1. (left' = left - wait /\ left > 1 + wait) \/ left' = left
      BY <2>1 DEF CanPlace
    <3> QED BY <2>2, <3>1
  <2>4. step' \in Steps /\ second' \in BOOLEAN
    BY <2>1 DEF TypeOK, Steps
  <2> QED BY <1>5, <2>3, <2>4 DEF PassEnds, TypeOK, brokerVars, tradeVars, monVars, endVars
<1>6. CASE FinalState
  BY <1>6 DEF FinalState, At, Goes, ForgetPass, TypeOK, Phases, Steps, brokerVars, tradeVars,
              monVars
<1>7. CASE \E s \in Symbols : CloseOne(s)
  <2>1. PICK s \in Symbols : CloseOne(s)
    BY <1>7
  <2>2. net' \subseteq Symbols /\ shown' \subseteq Symbols /\ stuck' \subseteq net'
        /\ mine' \subseteq net' /\ targets' \subseteq Symbols
    <3>1. \/ s \notin stuck /\ Sold(s) /\ stuck' = stuck
          \/ s \in net /\ stuck' = stuck \cup {s} /\ UNCHANGED <<net, mine, shown>>
          \/ UNCHANGED <<net, mine, shown, stuck>>
      BY <2>1 DEF CloseOne
    <3>2. targets' = targets \ {s}
      BY <2>1 DEF CloseOne
    <3> QED BY <3>1, <3>2 DEF Sold, TypeOK
  <2>3. short' \in BOOLEAN /\ rate' \in BOOLEAN
    BY <2>1 DEF CloseOne, TypeOK
  <2> QED BY <2>1, <2>2, <2>3 DEF CloseOne, TypeOK, tradeVars, monVars, endVars
<1>8. CASE ClosingFails
  BY <1>8 DEF ClosingFails, Goes, ForgetPass, TypeOK, Phases, Steps, brokerVars, tradeVars, monVars
<1>9. CASE Report
  BY <1>9 DEF Report, TypeOK, Phases, brokerVars, tradeVars, monVars, passVars
<1> QED BY <1>1, <1>2, <1>3, <1>4, <1>5, <1>6, <1>7, <1>8, <1>9 DEF Close

-----------------------------------------------------------------------------
(* The invariant is inductive. *)

\* Nothing is bought, sold or told at the start.
LEMMA InvInit == Init => IInv
<1> SUFFICES ASSUME Init PROVE IInv
  OBVIOUS
<1>1. TypeOK
  BY TypeInit
<1>2. SlotInv
  <2>1. max \in Nat /\ Cardinality(bought) = 0 /\ placed = 0
    BY TimesAssumption, FS_EmptySet DEF Init
  <2> QED BY <2>1 DEF Init, SlotInv
<1>3. BoughtInv
  BY DEF Init, BoughtInv
<1>4. EndInv
  BY DEF Init, EndInv
<1> QED BY <1>1, <1>2, <1>3, <1>4 DEF IInv

\* Every step keeps the types.
LEMMA TypeStep ==
    ASSUME IInv, [Next]_vars
    PROVE  TypeOK'
<1>1. TypeOK /\ BoughtInv /\ SlotInv
  BY DEF IInv
<1>2. CASE Analyzed
  BY <1>1, <1>2, TypeAnalyzed DEF Analyzed, SlotInv
<1>3. CASE UNCHANGED vars
  BY <1>1, <1>3 DEF vars, TypeOK, brokerVars, tradeVars, monVars, passVars, endVars
<1> QED
  BY <1>1, <1>2, <1>3, TypeOutside, TypeTrading, TypeMonitoring, TypeClosing DEF Next, Session

\* Only Analyzed buys; the phases only go forward
LEMMA SlotStep ==
    ASSUME IInv, [Next]_vars
    PROVE  SlotInv'
<1>1. /\ TypeOK /\ SlotInv
      /\ max \in Nat /\ placed \in Nat /\ IsFiniteSet(bought) /\ Cardinality(bought) \in Nat
  BY SymbolsAssumption, TimesAssumption, FS_Subset, FS_CardinalityType DEF IInv, TypeOK
<1>2. CASE Analyzed
  <2>1. PICK s \in todo : NoTrade(s) \/ Buys(s) \/ Sells(s)
    BY <1>2 DEF Analyzed
  <2>2. phase' = "analyzing" /\ phase = "analyzing" /\ step' = "start" /\ max' = max
        /\ placed < max
    BY <1>1, <1>2 DEF Analyzed, SlotInv
  <2>3. CASE NoTrade(s) \/ Sells(s)
    BY <1>1, <2>2, <2>3 DEF NoTrade, Sells, SlotInv
  <2>4. CASE Buys(s)
    <3>1. placed' = placed + 1 /\ bought' = bought \cup {s}
      BY <2>4 DEF Buys, Slots
    <3>2. Cardinality(bought') <= Cardinality(bought) + 1
      BY <1>1, <3>1, FS_AddElement
    <3>3. Cardinality(bought') \in Nat
      BY <1>1, <3>1, FS_AddElement, FS_CardinalityType
    <3> QED BY <1>1, <2>2, <3>1, <3>2, <3>3 DEF SlotInv
  <2> QED BY <2>1, <2>3, <2>4
<1>3. CASE ~Analyzed
  <2>1. max' = max /\ bought' = bought
    BY <1>3 DEF Next, Session, Close, vars, brokerVars, tradeVars, monVars, passVars, endVars,
         Broker, Tick, Stops, PreOpen, Scan, Analyzes, AnalysisEnds, Forget, MonitorWorks,
         MonitorEnds, SessionFails, PassBegins, Resumes, PassReads, ReadFails, CloseOne,
         PassEnds, FinalState, ClosingFails, Report
  <2>2. \/ phase' = phase /\ placed' = placed /\ step' = step
        \/ phase' = phase /\ placed' = placed /\ phase # "analyzing"
        \/ phase' \in {"monitoring", "closing", "reporting", "over"}
        \/ phase = "pre_open" /\ phase' = "scanning" /\ placed' = placed
        \/ phase = "scanning" /\ phase' = "analyzing" /\ step' = "start" /\ placed' = placed
        \/ Analyzes
    BY <1>3 DEF Next, Session, Close, vars, brokerVars, tradeVars, monVars, passVars, endVars, At,
         Goes, Broker, Tick, Stops, PreOpen, Scan, AnalysisEnds, Forget, MonitorWorks,
         MonitorEnds, SessionFails, PassBegins, Resumes, PassReads, ReadFails, CloseOne,
         PassEnds, FinalState, ClosingFails, Report
  <2>3. CASE Analyzes
    BY <1>1, <2>1, <2>3 DEF Analyzes, SlotFree, SlotInv, tradeVars
  <2> QED BY <1>1, <2>1, <2>2, <2>3 DEF SlotInv
<1> QED BY <1>2, <1>3

\* What of the books each step changes
LEMMA BoughtStep ==
    ASSUME IInv, [Next]_vars
    PROVE  BoughtInv'
<1>0. TypeOK /\ BoughtInv
  BY DEF IInv
<1>1. CASE Broker
  <2>1. PICK s \in Symbols : BuyEnds(s) \/ SellFills(s) \/ OtherSells(s) \/ OtherBuys(s) \/ Shows(s)
    BY <1>1 DEF Broker
  <2>2. phase' = phase /\ bought' = bought /\ known' = known
        /\ phase \notin {"pre_open", "scanning"}
    BY <1>1 DEF Broker, tradeVars
  <2>3. CASE BuyEnds(s)
    <3>1. \A t \in Symbols : buy'[t] = IF t = s THEN "ended" ELSE buy[t]
      BY <1>0, <2>3 DEF BuyEnds, TypeOK
    <3>2. /\ mine' \in {mine, mine \cup {s}} /\ s \in bought
          /\ shown' \subseteq net' /\ buy[s] = "open"
      BY <1>0, <2>3 DEF BuyEnds, Got, BoughtInv
    <3>3. \A t \in mine' : t \in known \/ buy'[t] # "none"
      BY <1>0, <3>1, <3>2 DEF BoughtInv, TypeOK
    <3>4. \A t \in Symbols : buy'[t] # "none" => t \in bought
      BY <1>0, <3>1, <3>2 DEF BoughtInv
    <3> QED BY <1>0, <2>2, <3>2, <3>3, <3>4 DEF BoughtInv
  <2>4. CASE SellFills(s) \/ OtherSells(s) \/ OtherBuys(s) \/ Shows(s)
    BY <1>0, <2>2, <2>4 DEF Got, Sold, SellFills, OtherSells, OtherBuys, Shows, TypeOK, BoughtInv
  <2> QED BY <2>1, <2>3, <2>4
<1>2. CASE Analyzed
  <2>1. PICK s \in todo : NoTrade(s) \/ Buys(s) \/ Sells(s)
    BY <1>2 DEF Analyzed
  <2>2. phase' = "analyzing" /\ s \in Symbols
    BY <1>0, <1>2, <2>1 DEF Analyzed, TypeOK
  <2>3. CASE NoTrade(s)
    BY <1>0, <2>2, <2>3 DEF NoTrade, brokerVars, BoughtInv
  <2>4. CASE Buys(s)
    BY <1>0, <2>2, <2>4 DEF Buys, Got, TypeOK, BoughtInv
  <2>5. CASE Sells(s)
    BY <1>0, <2>2, <2>5 DEF Sells, Sold, BoughtInv
  <2> QED BY <2>1, <2>3, <2>4, <2>5
<1>3. CASE MonitorWorks
  <2>1. PICK s \in Symbols :
         \/ /\ s \in shown \ (stuck \cup other) /\ left > 0
            /\ \/ Sold(s) /\ UNCHANGED stuck
               \/ stuck' = stuck \cup {s} /\ UNCHANGED <<net, mine, shown>>
            /\ UNCHANGED <<buy, known>>
         \/ FoundFinal({s}) /\ UNCHANGED <<net, mine, shown>>
    BY <1>3 DEF MonitorWorks
  <2>2. phase = "monitoring" /\ phase' = phase /\ bought' = bought
    BY <1>3 DEF MonitorWorks
  <2>4. CASE FoundFinal({s}) /\ UNCHANGED <<net, mine, shown>>
    <3>1. \A t \in Symbols : buy'[t] = IF t = s THEN "none" ELSE buy[t]
      BY <2>4 DEF FoundFinal
    <3>2. known' = known \cup ({s} \cap mine)
      BY <2>4 DEF FoundFinal
    <3> QED BY <1>0, <2>2, <2>4, <3>1, <3>2 DEF BoughtInv
  <2>5. CASE mine' \subseteq mine /\ shown' \subseteq net' /\ UNCHANGED <<buy, known>>
    BY <1>0, <2>2, <2>5 DEF BoughtInv
  <2> QED BY <1>0, <2>1, <2>4, <2>5 DEF Sold, BoughtInv
<1>4. CASE Resumes
  <2>1. PICK final \in SUBSET Unresolved : FoundFinal(final)
    BY <1>4 DEF Resumes
  <2>2. phase = "closing" /\ phase' = phase /\ bought' = bought
        /\ UNCHANGED <<net, mine, shown>>
    BY <1>4, <2>1 DEF Resumes, At
  <2> QED BY <1>0, <2>1, <2>2 DEF FoundFinal, TypeOK, BoughtInv
<1>5. CASE PassReads
  BY <1>0, <1>5 DEF PassReads, BookRead, BookFails, At, brokerVars, tradeVars, BoughtInv
<1>6. CASE \E s \in Symbols : CloseOne(s)
  <2>1. PICK s \in Symbols : CloseOne(s)
    BY <1>6
  <2>2. mine' \subseteq mine /\ shown' \subseteq net'
    BY <1>0, <2>1 DEF CloseOne, Sold, BoughtInv
  <2>3. phase = "closing" /\ phase' = phase /\ bought' = bought /\ known' = known /\ buy' = buy
    BY <2>1 DEF CloseOne, At, tradeVars
  <2> QED BY <1>0, <2>2, <2>3 DEF BoughtInv
<1>7. CASE Scan \/ PreOpen
  BY <1>0, <1>7 DEF Scan, PreOpen, Goes, brokerVars, tradeVars, passVars, BoughtInv
<1>8. CASE FinalState \/ ClosingFails
  BY <1>0, <1>8
     DEF FinalState, ClosingFails, Goes, ForgetPass, brokerVars, tradeVars, BoughtInv
<1>9. CASE \/ Tick \/ Stops \/ Analyzes \/ AnalysisEnds \/ SessionFails \/ MonitorEnds
           \/ PassBegins \/ ReadFails \/ PassEnds \/ Report \/ UNCHANGED vars
  <2>1. UNCHANGED <<net, mine, shown, buy, bought, known>>
    BY <1>9 DEF Tick, Stops, Analyzes, AnalysisEnds, Forget, SessionFails, MonitorEnds, PassBegins,
         ReadFails, PassEnds, Report, vars, brokerVars, tradeVars, passVars
  <2>2. /\ phase' \in {"pre_open", "scanning"} => phase \in {"pre_open", "scanning"}
        /\ phase = "closing" => phase' = "closing"
    BY <1>9 DEF Tick, Stops, Analyzes, AnalysisEnds, Goes, SessionFails, MonitorEnds, PassBegins,
         ReadFails, PassEnds, Report, vars, At
  <2> QED BY <1>0, <2>1, <2>2 DEF BoughtInv
<1> QED
  BY <1>1, <1>2, <1>3, <1>4, <1>5, <1>6, <1>7, <1>8, <1>9 DEF Next, Session, Close

\* Steps before the first BUY leave nothing to hold.
LEMMA NothingBought ==
    ASSUME BoughtInv, bought = {}
    PROVE  Exposed = {}
<1>1. \A s \in Symbols : s \notin mine /\ buy[s] = "none"
  BY DEF BoughtInv
<1> QED BY <1>1 DEF Exposed

\* Nothing that is exposed ends a session well in silence
LEMMA EndStep ==
    ASSUME IInv, [Next]_vars
    PROVE  EndInv'
<1>0. TypeOK /\ BoughtInv /\ EndInv
  BY DEF IInv
<1>1. CASE /\ UNCHANGED <<phase, told, failed, rc>>
           /\ phase \notin {"reporting", "over"} \/ UNCHANGED <<mine, buy>>
  BY <1>0, <1>1 DEF EndInv, Exposed
<1>2. CASE PreOpen
  <2>1. Exposed = {} /\ Exposed' = Exposed
    BY <1>0, <1>2, NothingBought DEF PreOpen, brokerVars, BoughtInv, Exposed
  <2> QED BY <1>0, <1>2, <2>1 DEF PreOpen, EndInv
<1>3. CASE Scan
  <2>1. Exposed = {} /\ Exposed' = Exposed
    BY <1>0, <1>3, NothingBought DEF Scan, brokerVars, BoughtInv, Exposed
  <2> QED BY <1>0, <1>3, <2>1 DEF Scan, Goes, endVars, EndInv
<1>4. CASE AnalysisEnds \/ SessionFails
  <2>1. bought = {} => Exposed = {}
    BY <1>0, NothingBought
  <2>2. Exposed' = Exposed
    BY <1>4 DEF AnalysisEnds, SessionFails, brokerVars, Exposed
  <2> QED BY <1>0, <1>4, <2>1, <2>2
          DEF AnalysisEnds, SessionFails, LookedAfter, Goes, endVars, EndInv
<1>5. CASE MonitorEnds
  BY <1>0, <1>5 DEF MonitorEnds, Goes, endVars, EndInv
<1>6. CASE FinalState
  <2>1. Exposed \subseteq shown \cup Unshown \cup Unresolved
    BY <1>0 DEF Exposed, Unshown, Unresolved, BoughtInv
  <2>2. Exposed' = Exposed
    BY <1>6 DEF FinalState, brokerVars, Exposed
  <2>3. Exposed # {} => told'
    BY <1>6, <2>1 DEF FinalState
  <2> QED BY <1>0, <1>6, <2>2, <2>3 DEF FinalState, At, Goes, EndInv
<1>7. CASE ClosingFails
  BY <1>0, <1>7 DEF ClosingFails, Goes, EndInv
<1>8. CASE Report
  BY <1>0, <1>8 DEF Report, brokerVars, EndInv, Exposed
<1>9. CASE \/ Broker \/ Tick \/ Stops \/ Analyzes \/ Analyzed \/ MonitorWorks \/ PassBegins
           \/ Resumes \/ PassReads \/ ReadFails \/ PassEnds \/ UNCHANGED vars
           \/ \E s \in Symbols : CloseOne(s)
  <2>1. UNCHANGED <<phase, told, failed, rc>>
    BY <1>9 DEF Broker, Tick, Stops, Analyzes, Analyzed, MonitorWorks, PassBegins, Resumes,
         PassReads, ReadFails, PassEnds, CloseOne, vars, endVars
  <2>2. phase \notin {"reporting", "over"} \/ UNCHANGED <<mine, buy>>
    BY <1>9 DEF Broker, Tick, Stops, Analyzes, Analyzed, MonitorWorks, PassBegins, Resumes,
         PassReads, ReadFails, PassEnds, CloseOne, vars, brokerVars, At
  <2> QED BY <1>1, <2>1, <2>2
<1> QED
  BY <1>2, <1>3, <1>4, <1>5, <1>6, <1>7, <1>8, <1>9 DEF Next, Session, Close

\* Every step keeps the inductive invariant.
LEMMA InvStep == IInv /\ [Next]_vars => IInv'
  BY TypeStep, SlotStep, BoughtStep, EndStep DEF IInv

\* So it always holds.
LEMMA Invariant == Spec => []IInv
  BY InvInit, InvStep, PTL DEF Spec

-----------------------------------------------------------------------------
(* The theorems. *)

\* The state of a session keeps its types: no more slots are used than there are, and an exit
\* left at the broker covers something held
THEOREM TypeCorrect == Spec => []TypeOK
  BY Invariant, PTL DEF IInv

\* However its BUYs end at the broker, a session buys at most max_trades symbols
THEOREM TradesAreCapped == Spec => []TradeCap
<1>1. IInv => TradeCap
  BY DEF IInv, SlotInv, TradeCap
<1> QED BY <1>1, Invariant, PTL

-----------------------------------------------------------------------------
(* The session implements the contract. *)

\* A session starts as a child does.
LEMMA ContractInit == Init => Contract!SessionInit
  BY DEF Init, Exposed, Contract!SessionInit

\* What the contract sees of a step that changes neither what is exposed nor what is said
Unseen ==
    /\ phase # "over" /\ phase' # "over"
    /\ Exposed' = Exposed /\ told' = told /\ stop' = stop
    /\ (phase # "pre_open" /\ rc # "preopen") <=> (phase' # "pre_open" /\ rc' # "preopen")

\* What neither holds nor tells anything new is a stutter of the child.
LEMMA UnseenStutters == Unseen => UNCHANGED Contract!childVars
  BY DEF Unseen, Contract!childVars

\* A step in a session past PRE_OPEN, after which no more is exposed than before
Covers ==
    /\ phase \notin {"pre_open", "over"} /\ rc # "preopen"
    /\ UNCHANGED <<phase, rc, told, stop>> /\ Exposed' \subseteq Exposed

\* Whatever exposes the child less, or as before, is its Sold or a stutter.
LEMMA CoversIsSold == Covers => Contract!Sold \/ UNCHANGED Contract!childVars
<1> SUFFICES ASSUME Covers PROVE Contract!Sold \/ UNCHANGED Contract!childVars
  OBVIOUS
<1>1. CASE Exposed = {} \/ Exposed' # {}
  <2>1. (Exposed # {}) = (Exposed' # {})
    BY <1>1 DEF Covers
  <2> QED BY <2>1 DEF Covers, Contract!childVars
<1>2. CASE Exposed # {} /\ Exposed' = {}
  BY <1>2 DEF Covers, Contract!Sold
<1> QED BY <1>1, <1>2

\* What the broker or an exit does takes away from what is exposed
LEMMA SellingSteps ==
    ASSUME IInv, Broker \/ MonitorWorks \/ Resumes \/ \E s \in Symbols : CloseOne(s)
    PROVE  Covers
<1>0. phase \in {"analyzing", "monitoring", "closing"} /\ UNCHANGED <<phase, rc, told, stop>>
  BY DEF Broker, MonitorWorks, Resumes, CloseOne, At, endVars
<1>1. rc # "preopen"
  BY <1>0 DEF IInv, EndInv
<1>2. Exposed' \subseteq Exposed
  <2>1. CASE Broker
    <3>1. PICK s \in Symbols : \/ BuyEnds(s) \/ SellFills(s)
                               \/ OtherSells(s) \/ OtherBuys(s) \/ Shows(s)
      BY <2>1 DEF Broker
    <3>2. CASE BuyEnds(s)
      <4>1. /\ \A t \in Symbols : buy'[t] = IF t = s THEN "ended" ELSE buy[t]
            /\ buy[s] = "open" /\ mine' \in {mine, mine \cup {s}}
        BY <3>2 DEF BuyEnds, Got, IInv, TypeOK
      <4> QED BY <4>1 DEF Exposed
    <3>3. CASE SellFills(s) \/ OtherSells(s) \/ OtherBuys(s) \/ Shows(s)
      BY <3>3 DEF Got, Sold, SellFills, OtherSells, OtherBuys, Shows, Exposed
    <3> QED BY <3>1, <3>2, <3>3
  <2>2. CASE MonitorWorks
    <3>1. /\ mine' \subseteq mine
          /\ \A t \in Symbols : buy'[t] \in {"none", buy[t]}
      BY <2>2 DEF MonitorWorks, Sold, FoundFinal
    <3> QED BY <3>1 DEF Exposed
  <2>3. CASE Resumes
    <3>1. mine' = mine /\ \A t \in Symbols : buy'[t] \in {"none", buy[t]}
      BY <2>3 DEF Resumes, FoundFinal
    <3> QED BY <3>1 DEF Exposed
  <2>4. CASE \E s \in Symbols : CloseOne(s)
    <3>1. mine' \subseteq mine /\ buy' = buy
      BY <2>4 DEF CloseOne, Sold
    <3> QED BY <3>1 DEF Exposed
  <2> QED BY <2>1, <2>2, <2>3, <2>4
<1> QED BY <1>0, <1>1, <1>2 DEF Covers

\* Most steps of the session are none of the child.
LEMMA QuietSteps ==
    ASSUME IInv,
           \/ Tick \/ Scan \/ Analyzes \/ AnalysisEnds \/ SessionFails \/ MonitorEnds
           \/ PassBegins \/ PassReads \/ ReadFails \/ PassEnds \/ ClosingFails
    PROVE  Unseen
<1>1. phase \notin {"pre_open", "over"} \/ Tick
  BY DEF Scan, Analyzes, AnalysisEnds, SessionFails, MonitorEnds, PassBegins, PassReads,
         ReadFails, PassEnds, ClosingFails, At
<1>2. phase # "over" /\ phase' # "over" /\ (Tick => phase' = phase)
      /\ (~Tick => phase' # "pre_open")
  BY <1>1 DEF Tick, Scan, Analyzes, AnalysisEnds, SessionFails, MonitorEnds, PassBegins, PassReads,
         ReadFails, PassEnds, ClosingFails, At, Goes
<1>3. UNCHANGED <<mine, buy, told, stop>>
  BY DEF Tick, Scan, Analyzes, AnalysisEnds, SessionFails, MonitorEnds, PassBegins, PassReads,
         ReadFails, PassEnds, ClosingFails, brokerVars, endVars
<1>4. rc' = rc \/ (rc' = "error" /\ rc # "preopen")
  BY DEF Tick, Scan, Analyzes, AnalysisEnds, SessionFails, MonitorEnds, PassBegins, PassReads,
         ReadFails, PassEnds, ClosingFails, At, endVars, IInv, EndInv
<1>5. Exposed' = Exposed
  BY <1>3 DEF Exposed
<1> QED BY <1>1, <1>2, <1>3, <1>4, <1>5 DEF Unseen

\* Every step of the session is a step of the child, or a stutter.
LEMMA ContractStep ==
    IInv /\ [Next]_vars => [Contract!ChildStep \/ Contract!Terminated]_(Contract!childVars)
<1> SUFFICES ASSUME IInv, [Next]_vars
             PROVE  Contract!ChildStep \/ Contract!Terminated \/ UNCHANGED Contract!childVars
  OBVIOUS
<1>0. TypeOK /\ BoughtInv /\ EndInv
  BY DEF IInv
<1>1. CASE Broker \/ MonitorWorks \/ Resumes \/ \E s \in Symbols : CloseOne(s)
  <2>1. Contract!Sold \/ UNCHANGED Contract!childVars
    BY <1>1, SellingSteps, CoversIsSold
  <2> QED BY <2>1 DEF Contract!ChildStep
<1>2. CASE \/ Tick \/ Scan \/ Analyzes \/ AnalysisEnds \/ SessionFails \/ MonitorEnds
           \/ PassBegins \/ PassReads \/ ReadFails \/ PassEnds \/ ClosingFails
  BY <1>2, QuietSteps, UnseenStutters
<1>3. CASE Stops
  <2>1. phase' = phase /\ phase # "over" /\ Exposed' = Exposed /\ told' = told /\ rc' = rc
    BY <1>3 DEF Stops, brokerVars, endVars, Exposed
  <2>2. Contract!Terminated
    BY <1>3, <2>1 DEF Stops, Contract!Terminated
  <2> QED BY <2>2
<1>4. CASE PreOpen
  <2>1. phase = "pre_open" /\ phase' \in {"scanning", "reporting"} /\ Exposed' = Exposed
        /\ told' = told /\ stop' = stop /\ rc = "none" /\ rc' \in {"none", "preopen"}
    BY <1>0, <1>4 DEF PreOpen, brokerVars, EndInv, Exposed
  <2>2. CASE rc' = "none"
    BY <2>1, <2>2 DEF Contract!ChildStep, Contract!Begins, Contract!Runs
  <2>3. CASE rc' = "preopen"
    BY <2>1, <2>3, UnseenStutters DEF Unseen
  <2> QED BY <2>1, <2>2, <2>3
<1>5. CASE Analyzed
  <2>1. phase = "analyzing" /\ phase' = phase /\ rc # "preopen" /\ UNCHANGED <<rc, told, stop>>
    BY <1>0, <1>5 DEF Analyzed, endVars, EndInv
  <2>2. PICK s \in todo : NoTrade(s) \/ Buys(s) \/ Sells(s)
    BY <1>5 DEF Analyzed
  <2>3. CASE NoTrade(s) \/ Buys(s)
    <3>1. /\ mine \subseteq mine'
          /\ \A t \in Symbols : buy[t] = "open" => buy'[t] = "open"
      BY <1>0, <2>3 DEF NoTrade, Buys, Got, brokerVars, TypeOK
    <3>2. Exposed \subseteq Exposed'
      BY <3>1 DEF Exposed
    <3>3. CASE (Exposed # {}) = (Exposed' # {})
      BY <2>1, <3>3 DEF Contract!childVars
    <3>4. CASE Exposed = {} /\ Exposed' # {}
      BY <2>1, <3>4 DEF Contract!ChildStep, Contract!Trades, Contract!Runs
    <3> QED BY <3>2, <3>3, <3>4
  <2>4. CASE Sells(s)
    <3>1. mine' \subseteq mine /\ buy' = buy
      BY <2>4 DEF Sells, Sold
    <3>2. Covers
      BY <2>1, <3>1 DEF Covers, Exposed
    <3> QED BY <3>2, CoversIsSold DEF Contract!ChildStep
  <2> QED BY <2>2, <2>3, <2>4
<1>6. CASE FinalState
  <2>1. phase = "closing" /\ phase' = "reporting" /\ rc # "preopen" /\ ~told
        /\ UNCHANGED <<rc, stop>> /\ Exposed' = Exposed /\ told' \in BOOLEAN
    BY <1>0, <1>6 DEF FinalState, At, Goes, brokerVars, EndInv, Exposed
  <2>2. CASE told'
    <3>1. Contract!Tells
      BY <2>1, <2>2 DEF Contract!Tells, Contract!Runs
    <3> QED BY <3>1 DEF Contract!ChildStep
  <2>3. CASE ~told'
    <3>1. told' = told
      BY <1>0, <2>1, <2>3 DEF TypeOK
    <3>2. Unseen
      BY <2>1, <3>1 DEF Unseen
    <3> QED BY <3>2, UnseenStutters
  <2> QED BY <2>2, <2>3
<1>7. CASE Report
  <2>1. phase = "reporting" /\ phase' = "over" /\ UNCHANGED <<stop, told>> /\ Exposed' = Exposed
        /\ rc' = IF failed THEN rc ELSE "ok"
    BY <1>7 DEF Report, brokerVars, Exposed
  <2>2. CASE ~failed
    <3>1. rc = "none" /\ rc' = "ok" /\ (Exposed # {} => told)
      BY <1>0, <2>1, <2>2 DEF EndInv
    <3>2. Contract!Finishes
      BY <2>1, <3>1 DEF Contract!Finishes, Contract!Runs, Contract!Ends
    <3> QED BY <3>2 DEF Contract!ChildStep
  <2>3. CASE failed /\ rc = "preopen"
    <3>1. Contract!PreOpenFails
      BY <2>1, <2>3 DEF Contract!PreOpenFails, Contract!Runs, Contract!Ends
    <3> QED BY <3>1 DEF Contract!ChildStep
  <2>4. CASE failed /\ rc = "error"
    <3>1. Contract!Fails
      BY <2>1, <2>4 DEF Contract!Fails, Contract!Ends
    <3> QED BY <3>1 DEF Contract!ChildStep
  <2> QED BY <1>0, <2>2, <2>3, <2>4 DEF EndInv
<1>8. CASE UNCHANGED vars
  <2>1. UNCHANGED <<phase, rc, stop, told>> /\ Exposed' = Exposed
    BY <1>8 DEF vars, brokerVars, endVars, Exposed
  <2> QED BY <2>1 DEF Contract!childVars
<1> QED
  BY <1>1, <1>2, <1>3, <1>4, <1>5, <1>6, <1>7, <1>8 DEF Next, Session, Close

\* The session does nothing its scheduler does not expect of it: the detailed session
\* implements the contract Scheduler runs
THEOREM Implements == Spec => KeepsContract
BY ContractInit, ContractStep, Invariant, PTL DEF Spec, KeepsContract, Contract!SessionSpec

-----------------------------------------------------------------------------
(* When CLOSING sells. *)

MiddayInv ==
    phase = "closing" =>
        left <= EodLeft \/ stop \/ failed \/ restarts = Restarts \/ cleared \/ bought = {}

\* CLOSING is reached before the end of the day only after a stop, a failure, with the restarts
\* used up, with nothing left to hold, or when nothing was bought.
LEMMA MiddayStep == IInv /\ MiddayInv /\ [Next]_vars => MiddayInv'
<1> SUFFICES ASSUME IInv, MiddayInv, [Next]_vars PROVE MiddayInv'
  OBVIOUS
<1>0. left \in Nat /\ EodLeft \in Nat /\ restarts \in Nat /\ restarts <= Restarts
      /\ Restarts \in Nat
  BY TimesAssumption DEF IInv, TypeOK
<1>1. CASE MonitorEnds
  <2>1. PICK positions \in SUBSET Symbols :
         IF MonitorAgain(positions)
         THEN restarts' = restarts + 1 /\ UNCHANGED <<phase, step, cleared>>
         ELSE UNCHANGED restarts /\ Goes("closing", "loop") /\ cleared' = (positions = {})
    BY <1>1 DEF MonitorEnds
  <2>2. phase = "monitoring" /\ UNCHANGED <<left, stop, failed>>
    BY <1>1 DEF MonitorEnds, endVars
  <2>3. CASE MonitorAgain(positions)
    BY <2>1, <2>2, <2>3 DEF MiddayInv
  <2>4. CASE ~MonitorAgain(positions)
    <3>1. positions = {} \/ restarts = Restarts \/ left <= EodLeft \/ stop
      BY <1>0, <2>4 DEF MonitorAgain, CanPlace
    <3>2. positions = {} => cleared'
      BY <2>1, <2>4
    <3>3. restarts' = restarts
      BY <2>1, <2>4
    <3> QED BY <2>2, <3>1, <3>2, <3>3 DEF MiddayInv
  <2> QED BY <2>3, <2>4
<1>2. CASE AnalysisEnds \/ SessionFails
  BY <1>2 DEF AnalysisEnds, SessionFails, LookedAfter, Forget, Goes, MiddayInv
<1>3. CASE PassEnds
  <2>1. UNCHANGED <<phase, stop, failed, restarts, cleared, bought>> /\ phase = "closing"
    BY <1>3 DEF PassEnds, At, tradeVars, monVars, endVars
  <2>2. left' <= left /\ left' \in Int
    BY <1>0, <1>3 DEF PassEnds, Waits
  <2> QED BY <1>0, <2>1, <2>2 DEF MiddayInv
<1>4. CASE /\ ~(MonitorEnds \/ AnalysisEnds \/ SessionFails \/ PassEnds)
  <2>1. phase' = "closing" => phase = "closing" /\ UNCHANGED <<restarts, cleared, bought, failed>>
    BY <1>4 DEF Next, Session, Close, vars, tradeVars, monVars, endVars, At, Goes, Broker, Tick,
         Stops, PreOpen, Scan, Analyzes, Analyzed, MonitorWorks, PassBegins, Resumes, PassReads,
         ReadFails, CloseOne, FinalState, ClosingFails, Report
  <2>2. phase' = "closing" => left' <= left
    <3>1. CASE Tick \/ Stops
      BY <1>0, <3>1, TimesAssumption DEF Tick, Stops, Sooner
    <3>2. CASE ~(Tick \/ Stops)
      <4>1. phase' = "closing" => left' = left
        BY <1>4, <3>2
           DEF Next, Session, Close, vars, At, Goes, Broker, PreOpen, Scan, Analyzes, Analyzed,
               MonitorWorks, PassBegins, Resumes, PassReads, ReadFails, CloseOne, FinalState,
               ClosingFails, Report
      <4> QED BY <1>0, <4>1
    <3> QED BY <3>1, <3>2
  <2>3. phase' = "closing" /\ stop => stop'
    BY <1>4 DEF Next, Session, Close, vars, At, Goes, Broker, Tick,
         Stops, PreOpen, Scan, Analyzes, Analyzed, MonitorWorks, PassBegins, Resumes, PassReads,
         ReadFails, CloseOne, FinalState, ClosingFails, Report
  <2>4. left' \in Int
    BY TypeStep, TimesAssumption DEF TypeOK
  <2> QED BY <1>0, <2>1, <2>2, <2>3, <2>4 DEF MiddayInv
<1> QED BY <1>1, <1>2, <1>3, <1>4

\* In the middle of the day the CLOSING of a session that has bought something sells at MARKET
\* only for one of the reasons it has: a stop, a failure, a monitor that has ended too often, or
\* one that said nothing is held; whatever the account held before, and whoever else trades
THEOREM NoSaleAtMidday == Spec => NoMiddaySale
<1>1. Init => MiddayInv
  BY DEF Init, MiddayInv
<1>2. IInv /\ MiddayInv => (ClosingSells /\ left > EodLeft /\ bought # {} =>
                              stop \/ failed \/ restarts = Restarts \/ cleared)
  <2>1. IInv => left \in Nat /\ EodLeft \in Nat
    BY TimesAssumption DEF IInv, TypeOK
  <2> QED BY <2>1 DEF ClosingSells, MiddayInv
<1> QED BY <1>1, <1>2, MiddayStep, Invariant, PTL DEF Spec, NoMiddaySale
=============================================================================
