--------------------------- MODULE LiveOrders_proofs ---------------------------
(***************************************************************************)
(* Proofs about LiveOrders, for every quantity, number of attempts, id set *)
(* and setting.                                                            *)
(***************************************************************************)
EXTENDS LiveOrders, TLAPS

-----------------------------------------------------------------------------
(* What a read of an order establishes.                                    *)

\* Every order of the model is one of these: a fill is part of what was asked for, all of
\* it once "filled", and only an order the broker has can be listed or trade
OrderOK(k) ==
    /\ k.done <= k.qty
    /\ k.st = "filled" => k.done = k.qty
    /\ k.st \in {"working", "ended"} => k.done < k.qty
    /\ k.st \in {"absent", "sent", "lost"} => k.done = 0 /\ ~k.listed
    /\ k.st # "absent" => k.qty > 0
    /\ k.st = "absent" => ~k.mine

\* A read that finds an order final is right about that, and _fill_details answers with
\* exactly what traded, or says that it does not know
LEMMA FillIsExact ==
    ASSUME NEW k \in Orders, OrderOK(k),
           NEW row \in Rows(k), Classify(row, k.qty) # "WORKING",
           NEW fills \in Fills(k)
    PROVE  /\ k.st \in {"filled", "ended"}
           /\ FillDetails(row, k.qty, fills) \in {Unknown, k.done}
<1> DEFINE t == row.traded
<1>0. k.done \in Nat /\ k.qty \in Nat /\ k.done <= k.qty
  BY TargetAssumption DEF Orders, Qty, OrderOK
<1>1. CASE row.status = "OPEN"
  <2>1. row \in OpenRows(k) /\ k.st \in {"working", "filled", "ended"}
    BY <1>1 DEF Rows, FinalRows
  <2>2. t \in Int /\ t <= k.done /\ t >= k.qty
    BY <1>0, <1>1, <2>1 DEF OpenRows, Classify, Unknown
  <2>3. k.st = "filled" /\ t = k.qty /\ k.done = k.qty /\ k.qty > 0
    BY <1>0, <2>1, <2>2 DEF OrderOK
  <2>4. fills \in {Unknown, k.done}
    BY DEF Fills
  <2>5. FillDetails(row, k.qty, fills) = k.done
    BY <1>0, <1>1, <2>2, <2>3, <2>4
       DEF FillDetails, FilledQty, Classify, Larger, Smaller, Unknown
  <2> QED BY <2>3, <2>5
<1>2. CASE row.status # "OPEN"
  <2>1. row \in FinalRows(k)
    BY <1>2 DEF Rows, OpenRows
  <2>2. CASE k.st = "filled"
    <3>1. row.status = "SUCCESS" /\ t \in {Unknown, 0, k.done} /\ k.done = k.qty /\ k.qty > 0
      BY <2>1, <2>2 DEF FinalRows, OrderOK
    <3>2. fills \in {Unknown, k.done}
      BY DEF Fills
    <3> QED BY <1>0, <2>2, <3>1, <3>2
               DEF FillDetails, FilledQty, Classify, Larger, Smaller, Unknown
  <2>3. CASE k.st = "ended" /\ k.done = 0
    <3>1. row.status = "CANCELLED" /\ t \in {Unknown, 0} /\ fills = Unknown /\ k.qty > 0
      BY <2>1, <2>3 DEF FinalRows, OrderOK, Fills
    <3> QED BY <1>0, <2>3, <3>1
               DEF FillDetails, FilledQty, Classify, Larger, Smaller, Unknown
  <2>4. CASE k.st = "ended" /\ k.done > 0
    <3>1. /\ fills \in {Unknown, k.done} /\ k.done < k.qty
          /\ \/ row.status = "PARTIAL" /\ t \in {Unknown, 0, k.done}
             \/ row.status = "CANCELLED" /\ t = k.done
      BY <2>1, <2>4 DEF FinalRows, OrderOK, Fills
    <3> QED BY <1>0, <2>4, <3>1
               DEF FillDetails, FilledQty, Classify, Larger, Smaller, Unknown
  <2> QED BY <1>0, <2>1, <2>2, <2>3, <2>4 DEF FinalRows
<1> QED BY <1>1, <1>2

-----------------------------------------------------------------------------
(* Types, and what the worker's variables have to do with the broker's.    *)

OrdersOK == \A o \in Ids : OrderOK(order[o])

AtRequest == pc \in {"sent", "reconcile"}     \* a request is at, or on its way to, the broker
AtOrder == pc \in {"watch", "cancel"}         \* an order is being watched
AtLoop == pc \in {"attempt", "recheck", "place", "book", "backoff"}
Over == pc \in {"done", "interrupted"}

\* The request on the wire, or the order watched, asks for exactly what is still wanted:
\* so what the call counts as filled stays within Target
WantedOK ==
    /\ filled <= Target
    /\ pc \in {"recheck", "place", "book", "backoff"} => Wanted > 0
    /\ AtLoop \/ AtRequest => active = None
    /\ AtRequest => /\ flight \in Ids
                    /\ order[flight].qty = Wanted /\ order[flight].st # "absent"
    /\ AtOrder => /\ active \in Ids
                  /\ order[active].qty = Wanted /\ order[active].st # "absent"
                  /\ seen <= order[active].done

TypeInv == TypeOK /\ OrdersOK /\ WantedOK

\* The worker starts in a state of the right types.
THEOREM TypeInit == Init => TypeInv
<1> SUFFICES ASSUME Init PROVE TypeInv
  OBVIOUS
<1> USE TargetAssumption, AttemptsAssumption, CapAssumption, CancelsAssumption,
        IdsAssumption
<1>1. Absent \in Orders /\ OrderOK(Absent)
  BY DEF Absent, Orders, OrderStates, Qty, OrderOK
<1>2. \A o \in Ids : order[o] = Absent
  BY DEF Init
<1>3. order \in [Ids -> Orders]
  BY <1>1 DEF Init
<1>4. before \in [read : BOOLEAN, ids : SUBSET Ids]
  BY DEF Init, NoBook
<1>5. pc \in PCs /\ pc \in {"attempt", "place"}
  BY DEF Init, PCs
<1>6. /\ reg \in [Ids -> RegStates] /\ journal \in [Ids -> Events]
      /\ rep \in [Ids -> Qty] /\ confirmed \in [Ids -> Qty]
  BY DEF Init, RegStates, Events, Qty
<1>7. /\ clock \in 0 .. Whole /\ sold \in Nat /\ attempt \in 0 .. MaxAttempts
      /\ filled \in Nat /\ used \in 0 .. BackoffCap /\ cancels \in 0 .. MaxCancels
      /\ seen \in MaybeQty /\ flight \in Ids \cup {None} /\ active \in Ids \cup {None}
  BY DEF Init, MaybeQty, Unknown, Whole
<1>f. /\ protective \in BOOLEAN /\ limit \in BOOLEAN /\ forceLimit \in BOOLEAN
      /\ handling \in BOOLEAN /\ shielded \in BOOLEAN /\ alive \in BOOLEAN
      /\ open \in BOOLEAN /\ unconf \in BOOLEAN /\ uncertain \in BOOLEAN /\ lost \in BOOLEAN
      /\ cxl \in {"due", "retry", "notFound", "stop"}
  BY Zenon DEF Init
<1>t. TypeOK
  BY <1>3, <1>4, <1>5, <1>6, <1>7, <1>f DEF TypeOK
<1>8. OrdersOK
  BY <1>1, <1>2 DEF OrdersOK
<1>9. WantedOK
  BY <1>5 DEF Init, WantedOK, AtRequest, AtOrder, AtLoop, Wanted
<1> QED BY <1>t, <1>8, <1>9 DEF TypeInv

\* A step of the broker: it changes order o into k, and nothing of the worker
Becomes(o, k) ==
    /\ order' = [order EXCEPT ![o] = k]
    /\ k \in Orders /\ OrderOK(k)
    /\ order[o].st = "absent" \/ k.qty = order[o].qty
    /\ k.st # "absent" /\ order[o].done <= k.done
OrderStep(o) ==
    /\ \E k : Becomes(o, k)
    /\ sold' \in Nat
    /\ UNCHANGED <<clock, pc, runVars, watchVars, stopVars, bookVars>>

\* What the broker does with one order changes no type and spoils no row.
LEMMA OrderStepKeepsTypes == ASSUME TypeInv, NEW o \in Ids, OrderStep(o) PROVE TypeInv'
<1> PICK k : Becomes(o, k)
  BY DEF OrderStep
<1> USE DEF TypeInv, OrderStep, Becomes
<1>1. TypeOK'
  BY DEF TypeOK, runVars, loopVars, requestVars, endVars, watchVars, stopVars, bookVars
<1>2. \A p \in Ids : order'[p] = IF p = o THEN k ELSE order[p]
  BY DEF TypeOK
<1>3. OrdersOK'
  BY <1>2 DEF OrdersOK
<1>4. /\ filled' = filled /\ pc' = pc /\ active' = active /\ flight' = flight
      /\ seen' = seen
  BY DEF runVars, loopVars, requestVars, watchVars
<1>5. \A p \in Ids : order[p].done \in Int /\ order'[p].done \in Int /\ seen \in Int
  BY <1>1 DEF TypeOK, Orders, Qty, MaybeQty, Unknown
<1>6. WantedOK'
  BY <1>2, <1>4, <1>5 DEF WantedOK, AtRequest, AtOrder, AtLoop, Wanted
<1> QED BY <1>1, <1>3, <1>6

\* Neither does anything else that happens outside the process.
LEMMA EnvironmentKeepsTypes == TypeInv /\ Environment => TypeInv'
<1> SUFFICES ASSUME TypeInv, Environment PROVE TypeInv'
  OBVIOUS
<1>0. ASSUME NEW o \in Ids
      PROVE  order[o] \in Orders /\ OrderOK(order[o]) /\ sold \in Nat
  BY DEF TypeInv, TypeOK, OrdersOK
<1>1. CASE Tick
  BY <1>1 DEF Tick, Whole, TypeInv, TypeOK, OrdersOK, WantedOK, AtRequest, AtOrder, AtLoop,
              Wanted, brokerVars, runVars, loopVars, requestVars, endVars, watchVars,
              stopVars, bookVars
<1> USE DEF Becomes, OrderOK, Orders, OrderStates, Qty
<1>2. ASSUME NEW o \in Ids, Accept(o) PROVE OrderStep(o)
  <2>1. PICK shown \in BOOLEAN :
          order' = [order EXCEPT ![o] = [order[o] EXCEPT !.st = "working", !.listed = shown]]
    BY <1>2 DEF Accept
  <2> DEFINE k == [order[o] EXCEPT !.st = "working", !.listed = shown]
  <2>2. k \in Orders /\ OrderOK(k) /\ k.qty = order[o].qty /\ k.st # "absent"
        /\ k.done = order[o].done
    BY <1>0, <1>2 DEF Accept
  <2>3. Becomes(o, k)
    BY <1>0, <2>1, <2>2
  <2> QED BY <1>0, <1>2, <2>3 DEF Accept, OrderStep
<1>3. ASSUME NEW o \in Ids, List(o) PROVE OrderStep(o)
  <2> DEFINE k == [order[o] EXCEPT !.listed = TRUE]
  <2>1. order' = [order EXCEPT ![o] = k]
    BY <1>3 DEF List
  <2>2. k \in Orders /\ OrderOK(k) /\ k.qty = order[o].qty /\ k.st # "absent"
        /\ k.done = order[o].done
    BY <1>0, <1>3 DEF List
  <2>3. Becomes(o, k)
    BY <1>0, <2>1, <2>2
  <2> QED BY <1>0, <1>3, <2>3 DEF List, OrderStep
<1>4. ASSUME NEW o \in Ids, Lose(o) PROVE OrderStep(o)
  <2> DEFINE k == [order[o] EXCEPT !.st = "lost"]
  <2>1. order' = [order EXCEPT ![o] = k]
    BY <1>4 DEF Lose
  <2>2. k \in Orders /\ OrderOK(k) /\ k.qty = order[o].qty /\ k.st # "absent"
        /\ k.done = order[o].done
    BY <1>0, <1>4 DEF Lose
  <2>3. Becomes(o, k)
    BY <1>0, <2>1, <2>2
  <2> QED BY <1>0, <1>4, <2>3 DEF Lose, OrderStep
<1>5. ASSUME NEW o \in Ids, Trade(o) PROVE OrderStep(o)
  <2>1. PICK n \in 1 .. (order[o].qty - order[o].done) :
          /\ order' = [order EXCEPT ![o] =
                 [order[o] EXCEPT !.done = order[o].done + n,
                                  !.st = IF order[o].done + n = order[o].qty
                                         THEN "filled" ELSE "working"]]
          /\ sold' = IF order[o].mine THEN sold + n ELSE sold
    BY <1>5 DEF Trade
  <2>2. sold' \in Nat
    BY <1>0, <2>1
  <2> DEFINE k == [order[o] EXCEPT !.done = order[o].done + n,
                                   !.st = IF order[o].done + n = order[o].qty
                                          THEN "filled" ELSE "working"]
  <2>3. /\ order[o].done \in Nat /\ order[o].qty \in Nat /\ order[o].qty <= Target
        /\ order[o].done + n \in Qty /\ order[o].done + n <= order[o].qty
    BY <1>0, TargetAssumption
  <2>4. /\ k.done = order[o].done + n /\ k.qty = order[o].qty
        /\ k.st = IF order[o].done + n = order[o].qty THEN "filled" ELSE "working"
        /\ k.listed = order[o].listed /\ k.mine = order[o].mine
    BY <1>0
  <2>5. k \in Orders
    BY <1>0, <2>3
  <2>6. OrderOK(k)
    BY <1>0, <1>5, <2>3, <2>4 DEF Trade
  <2>7. k.st # "absent" /\ order[o].done <= k.done
    BY <2>3, <2>4
  <2> HIDE DEF k
  <2>8. Becomes(o, k)
    BY <2>1, <2>4, <2>5, <2>6, <2>7 DEF k
  <2> QED BY <1>5, <2>2, <2>8 DEF Trade, OrderStep
<1>6. ASSUME NEW o \in Ids, End(o) PROVE OrderStep(o)
  <2> DEFINE k == [order[o] EXCEPT !.st = "ended"]
  <2>1. order' = [order EXCEPT ![o] = k]
    BY <1>6 DEF End
  <2>2. k \in Orders /\ OrderOK(k) /\ k.qty = order[o].qty /\ k.st # "absent"
        /\ k.done = order[o].done
    BY <1>0, <1>6 DEF End
  <2>3. Becomes(o, k)
    BY <1>0, <2>1, <2>2
  <2> QED BY <1>0, <1>6, <2>3 DEF End, OrderStep
<1>7. ASSUME NEW o \in Ids, OtherOrder(o) PROVE OrderStep(o)
  <2>1. PICK q \in 1 .. Target :
          order' = [order EXCEPT ![o] = [st |-> "working", qty |-> q, done |-> 0,
                                         listed |-> TRUE, mine |-> FALSE]]
    BY <1>7 DEF OtherOrder
  <2> DEFINE k == [st |-> "working", qty |-> q, done |-> 0, listed |-> TRUE, mine |-> FALSE]
  <2>2. k \in Orders /\ OrderOK(k) /\ order[o].done <= k.done
    BY <1>0, <1>7, TargetAssumption DEF OtherOrder
  <2>3. Becomes(o, k)
    BY <1>7, <2>1, <2>2 DEF OtherOrder
  <2> QED BY <1>0, <1>7, <2>3 DEF OtherOrder, OrderStep
<1> QED BY <1>1, <1>2, <1>3, <1>4, <1>5, <1>6, <1>7, OrderStepKeepsTypes DEF Environment

\* Lines of the journal that are written, or that fail, are of its type; while none has
\* failed, the journal is as it should be
LEMMA JournalsOrLoses ==
    ASSUME TypeOK, NEW events, Journals(events)
    PROVE  /\ lost' \in BOOLEAN
           /\ events \in [Ids -> Events] => journal' \in [Ids -> Events]
           /\ ~lost' => ~lost /\ journal' = events
<1>1. lost \in BOOLEAN /\ journal \in [Ids -> Events]
  BY DEF TypeOK
<1>2. CASE journal' = events /\ UNCHANGED lost
  BY <1>1, <1>2
<1>3. CASE /\ lost' = TRUE
           /\ \E failed \in SUBSET Ids :
                journal' = [o \in Ids |-> IF o \in failed THEN journal[o] ELSE events[o]]
  BY <1>1, <1>3
<1> QED BY <1>2, <1>3 DEF Journals

\* A step of the worker that leaves the orders at the broker as they are
LEMMA QuietStep ==
    ASSUME TypeInv, UNCHANGED order, TypeOK', WantedOK'
    PROVE  TypeInv'
BY DEF TypeInv, OrdersOK

\* The order adopted is one the broker lists or has answered with, of the size wanted
LEMMA AdoptKeepsTypes ==
    ASSUME TypeInv, NEW o \in Ids, Adopt(o), AtRequest,
           order[o].qty = Wanted, order[o].st # "absent"
    PROVE  TypeInv'
<1> USE DEF Adopt, brokerVars, loopVars, endVars, stopVars
<1>1. order' = order /\ pc' = "watch" /\ active' = o /\ filled' = filled /\ seen' = Unknown
  BY DEF TypeInv
<1>2. NoBook \in [read : BOOLEAN, ids : SUBSET Ids]
  BY DEF NoBook
<1>3. /\ reg' \in [Ids -> RegStates] /\ rep' \in [Ids -> Qty]
      /\ journal' \in [Ids -> Events] /\ lost' \in BOOLEAN
  <2>1. Journals([journal EXCEPT ![o] = "placed"]) /\ TypeOK
    BY DEF TypeInv
  <2>2. [journal EXCEPT ![o] = "placed"] \in [Ids -> Events]
    BY <2>1 DEF TypeOK, Events
  <2>3. reg' \in [Ids -> RegStates] /\ rep' \in [Ids -> Qty]
    BY <2>1, TargetAssumption DEF TypeOK, RegStates, Qty
  <2> QED BY <2>1, <2>2, <2>3, JournalsOrLoses
<1>4. TypeOK'
  BY <1>1, <1>2, <1>3 DEF TypeInv, TypeOK, PCs, MaybeQty
<1>5. order[o].done \in Nat
  BY TargetAssumption DEF TypeInv, TypeOK, Orders, Qty
<1>6. WantedOK'
  BY <1>1, <1>5 DEF TypeInv, WantedOK, AtRequest, AtOrder, AtLoop, Wanted, Unknown
<1> QED BY <1>1, <1>4, <1>6, QuietStep

\* The attempt loop and the placement keep the types: the attempts and the backoff stay
\* within their bounds.
LEMMA PlacementKeepsTypes == TypeInv /\ Placement => TypeInv'
<1> SUFFICES ASSUME TypeInv, Placement PROVE TypeInv'
  OBVIOUS
<1> USE TargetAssumption, AttemptsAssumption, CapAssumption
     DEF Awaiting, AtRequest, AtOrder, AtLoop, Wanted, brokerVars, runVars, loopVars,
         requestVars, endVars, watchVars, stopVars, bookVars
<1>1. TypeOK /\ OrdersOK /\ WantedOK
  BY DEF TypeInv
<1>2. CASE NextAttempt
  <2>1. TypeOK'
    BY <1>1, <1>2 DEF NextAttempt, GoesOn, TypeOK, PCs
  <2>2. WantedOK'
    BY <1>1, <1>2 DEF NextAttempt, GoesOn, TypeOK, WantedOK
  <2> QED BY <1>2, <2>1, <2>2, QuietStep DEF NextAttempt
<1>3. CASE Recheck
  <2>1. TypeOK'
    BY <1>1, <1>3 DEF Recheck, TypeOK, PCs
  <2>2. WantedOK'
    BY <1>1, <1>3 DEF Recheck, WantedOK
  <2> QED BY <1>3, <2>1, <2>2, QuietStep DEF Recheck
<1>4. CASE BeforePlacing
  <2>1. TypeOK'
    BY <1>1, <1>4 DEF BeforePlacing, TypeOK, PCs
  <2>2. WantedOK'
    BY <1>1, <1>4 DEF BeforePlacing, WantedOK
  <2> QED BY <1>4, <2>1, <2>2, QuietStep DEF BeforePlacing
<1>5. CASE Send
  <2>1. CASE CanPlace
    <3>1. PICK o \in Ids :
            /\ order[o].st = "absent" /\ flight' = o
            /\ order' = [order EXCEPT ![o] = [st |-> "sent", qty |-> Wanted, done |-> 0,
                                              listed |-> FALSE, mine |-> TRUE]]
      BY <1>5, <2>1 DEF Send
    <3> DEFINE k == [st |-> "sent", qty |-> Wanted, done |-> 0, listed |-> FALSE,
                     mine |-> TRUE]
    <3>2. Wanted \in Qty /\ Wanted > 0
      BY <1>1, <1>5 DEF Send, TypeOK, WantedOK, Qty
    <3>3. k \in Orders /\ OrderOK(k)
      BY <3>2 DEF Orders, OrderStates, Qty, OrderOK
    <3>4. before' \in [read : BOOLEAN, ids : SUBSET Ids] /\ pc' = "sent"
      <4>1. NoBook \in [read : BOOLEAN, ids : SUBSET Ids]
        BY DEF NoBook
      <4>2. ASSUME NEW b \in [read : {TRUE}, ids : SUBSET Listed]
            PROVE  b \in [read : BOOLEAN, ids : SUBSET Ids]
        <5>1. b = [read |-> b.read, ids |-> b.ids] /\ b.read = TRUE /\ b.ids \subseteq Ids
          BY <4>2 DEF Listed
        <5> QED BY <5>1
      <4>3. /\ before' \in {NoBook} \cup [read : {TRUE}, ids : SUBSET Listed]
            /\ pc' = "sent"
        BY <1>5, <2>1 DEF Send
      <4> QED BY <4>1, <4>2, <4>3
    <3>5. TypeOK'
      BY <1>1, <1>5, <3>1, <3>3, <3>4 DEF Send, TypeOK, PCs
    <3>6. OrdersOK'
      BY <1>1, <3>1, <3>3 DEF TypeOK, OrdersOK
    <3>7. order'[o] = k
      BY <1>1, <3>1 DEF TypeOK
    <3>8. WantedOK'
      BY <1>1, <1>5, <3>1, <3>4, <3>7 DEF Send, WantedOK
    <3> QED BY <3>5, <3>6, <3>8 DEF TypeInv
  <2>2. CASE ~CanPlace
    <3>1. /\ pc' = "done"
          /\ UNCHANGED <<brokerVars, clock, requestVars, loopVars, endVars, watchVars,
                         stopVars, bookVars>>
      BY <1>5, <2>2 DEF Send, brokerVars
    <3>2. TypeOK'
      BY <1>1, <3>1 DEF TypeOK, PCs
    <3>3. WantedOK'
      BY <1>1, <3>1 DEF WantedOK
    <3> QED BY <3>1, <3>2, <3>3, QuietStep
  <2> QED BY <2>1, <2>2
<1>6. CASE Answered
  <2>1. /\ flight \in Ids /\ Adopt(flight) /\ AtRequest
        /\ order[flight].qty = Wanted /\ order[flight].st # "absent"
    BY <1>1, <1>6 DEF Answered, WantedOK
  <2> QED BY <2>1, AdoptKeepsTypes
<1>7. CASE Refused
  <2>1. PICK kind : pc' = AfterRefusal(kind)
    BY <1>7 DEF Refused
  <2>2. pc' \in {"done", "attempt", "backoff", "place"} /\ flight \in Ids
    BY <1>1, <1>7, <2>1 DEF Refused, AfterRefusal, WantedOK
  <2>3. Absent \in Orders /\ OrderOK(Absent)
    BY DEF Absent, Orders, OrderStates, Qty, OrderOK
  <2>4. /\ order' \in [Ids -> Orders] /\ NoBook \in [read : BOOLEAN, ids : SUBSET Ids]
    BY <1>1, <1>7, <2>2, <2>3 DEF Refused, TypeOK, NoBook
  <2>5. limit' \in BOOLEAN /\ forceLimit' \in BOOLEAN
    BY Zenon, <1>7 DEF Refused
  <2>6. TypeOK'
    BY <1>1, <1>7, <2>2, <2>4, <2>5 DEF Refused, TypeOK, PCs
  <2>7. OrdersOK'
    BY <1>1, <1>7, <2>2, <2>3 DEF Refused, TypeOK, OrdersOK
  <2>8. Wanted > 0
    BY <1>1, <1>7, <2>2 DEF Refused, WantedOK, OrdersOK, OrderOK
  <2>9. WantedOK'
    BY <1>1, <1>7, <2>2, <2>8 DEF Refused, WantedOK
  <2> QED BY <2>6, <2>7, <2>9 DEF TypeInv
<1>8. CASE Backoff
  <2>1. PICK delay \in 1 .. (BackoffCap - used) : used' = used + delay
    BY <1>8 DEF Backoff, UsedAfter
  <2>2. used' \in 0 .. BackoffCap
    BY <1>1, <2>1 DEF TypeOK
  <2>3. TypeOK'
    BY <1>1, <1>8, <2>2 DEF Backoff, TypeOK, PCs
  <2>4. WantedOK'
    BY <1>1, <1>8 DEF Backoff, WantedOK
  <2> QED BY <1>8, <2>3, <2>4, QuietStep DEF Backoff
<1> QED BY <1>2, <1>3, <1>4, <1>5, <1>6, <1>7, <1>8 DEF Placement

\* The look-up of an uncertain placement keeps the types: what it adopts is an order.
LEMMA ReconciliationKeepsTypes == TypeInv /\ Reconciliation => TypeInv'
<1> SUFFICES ASSUME TypeInv, Reconciliation PROVE TypeInv'
  OBVIOUS
<1> USE TargetAssumption
     DEF Awaiting, AtRequest, AtOrder, AtLoop, Wanted, brokerVars, runVars, loopVars,
         requestVars, endVars, watchVars, stopVars, bookVars
<1>1. TypeOK /\ OrdersOK /\ WantedOK
  BY DEF TypeInv
<1>2. CASE Unclear
  <2>1. TypeOK'
    BY <1>1, <1>2 DEF Unclear, TypeOK, PCs
  <2>2. WantedOK'
    BY <1>1, <1>2 DEF Unclear, WantedOK
  <2> QED BY <1>2, <2>1, <2>2, QuietStep DEF Unclear
\* Both candidates and the tagged order have the size of the request
<1>3. ASSUME NEW o \in Ids, Awaiting("reconcile"), o \in Tagged \/ o \in Candidates
      PROVE  AtRequest /\ order[o].qty = Wanted /\ order[o].st # "absent"
  BY <1>1, <1>3 DEF Tagged, Candidates, Listed, WantedOK, OrdersOK, OrderOK
<1>4. CASE Reconciled
  <2>1. PICK o \in Ids : (o \in Tagged \/ o \in Candidates) /\ Adopt(o)
    BY <1>4 DEF Reconciled
  <2> QED BY <1>3, <1>4, <2>1, AdoptKeepsTypes DEF Reconciled
<1>5. CASE ReconcileEnds
  <2>1. ASSUME NEW o \in Candidates, Adopt(o) PROVE TypeInv'
    BY <1>3, <1>5, <2>1, AdoptKeepsTypes DEF ReconcileEnds, Candidates, Listed
  <2>2. ASSUME pc' = "done", uncertain' = TRUE, open' = TRUE, flight' = None,
               before' = NoBook, Journals(journal),
               UNCHANGED <<brokerVars, clock, loopVars, unconf, watchVars, stopVars, reg,
                           rep, confirmed>>
        PROVE  TypeInv'
    <3>0. journal' \in [Ids -> Events] /\ lost' \in BOOLEAN
      BY <1>1, <2>2, JournalsOrLoses DEF TypeOK
    <3>1. NoBook \in [read : BOOLEAN, ids : SUBSET Ids]
      BY DEF NoBook
    <3>2. TypeOK'
      BY <1>1, <2>2, <3>0, <3>1 DEF TypeOK, PCs
    <3>3. WantedOK'
      BY <1>1, <2>2 DEF WantedOK
    <3> QED BY <2>2, <3>2, <3>3, QuietStep
  <2> QED BY <1>5, <2>1, <2>2 DEF ReconcileEnds
<1> QED BY <1>2, <1>4, <1>5 DEF Reconciliation

-----------------------------------------------------------------------------
(* What the worker learns of the order it watches.                         *)

\* A read, or a cancel, is always of an order.
LEMMA ActiveIsAnOrder ==
    ASSUME TypeInv, AtOrder
    PROVE  /\ active \in Ids /\ order[active] \in Orders /\ OrderOK(order[active])
           /\ order[active].done \in Nat /\ order[active].qty \in Nat
           /\ order[active].qty = Wanted /\ order[active].done <= order[active].qty
BY TargetAssumption DEF TypeInv, TypeOK, OrdersOK, WantedOK, OrderOK, Orders, Qty

\* What a final read establishes is unknown, or what the order has traded.
LEMMA FinalFillsAreExact ==
    ASSUME TypeInv, AtOrder, NEW f \in FinalFills(active)
    PROVE  /\ order[active].st \in {"filled", "ended"}
           /\ f \in {Unknown, order[active].done}
BY FillIsExact, ActiveIsAnOrder DEF FinalFills

\* The last view of a working order never shows more than it traded
LEMMA ViewsAreBehind ==
    ASSUME TypeInv, AtOrder, NEW row \in Rows(order[active]),
           Classify(row, order[active].qty) = "WORKING"
    PROVE  /\ FilledQty(row, order[active].qty) \in MaybeQty
           /\ FilledQty(row, order[active].qty) <= order[active].done
<1> DEFINE k == order[active]
<1>1. k \in Orders /\ k.done \in Nat /\ k.qty \in Nat /\ k.done <= k.qty /\ k.qty <= Target
  BY ActiveIsAnOrder, TargetAssumption DEF TypeInv, TypeOK, Orders, Qty
<1>2. row.status = "OPEN"
  BY DEF Rows, OpenRows, FinalRows, Classify
<1>3. row \in OpenRows(k)
  BY <1>2 DEF Rows, FinalRows
<1>4. row.traded \in Int /\ row.traded <= k.done /\ row.traded >= -1
  BY <1>1, <1>3 DEF OpenRows, Unknown
<1> HIDE DEF k
<1> QED BY <1>1, <1>2, <1>4, TargetAssumption
           DEF FilledQty, Classify, Smaller, MaybeQty, Qty, Unknown, k

\* Watching and cancelling keep the types.
LEMMA WatchingKeepsTypes == TypeInv /\ Watching => TypeInv'
<1> SUFFICES ASSUME TypeInv, Watching PROVE TypeInv'
  OBVIOUS
<1> USE TargetAssumption
     DEF Awaiting, Reading, AtRequest, AtOrder, AtLoop, Wanted, brokerVars, runVars,
         loopVars, requestVars, endVars, watchVars, stopVars, bookVars
<1>1. TypeOK /\ OrdersOK /\ WantedOK
  BY DEF TypeInv
<1>2. CASE ReadOpen
  <2>1. seen' \in MaybeQty /\ seen' <= order[active].done
    BY <1>2, ViewsAreBehind DEF ReadOpen
  <2>2. TypeOK'
    BY <1>1, <1>2, <2>1 DEF ReadOpen, TypeOK
  <2>3. WantedOK'
    BY <1>1, <1>2, <2>1 DEF ReadOpen, WantedOK
  <2> QED BY <1>2, <2>2, <2>3, QuietStep DEF ReadOpen
<1>3. CASE ReadFinal
  <2>1. PICK f \in FinalFills(active) :
          /\ unconf' = Unconfirmed(f)
          /\ filled' = IF f = Unknown THEN filled ELSE filled + f
          /\ rep' = IF f = Unknown THEN rep ELSE [rep EXCEPT ![active] = f]
          /\ confirmed' = [confirmed EXCEPT ![active] = Larger(@, f)]
          /\ pc' = IF protective /\ f # Unknown THEN "attempt" ELSE "done"
    BY <1>3 DEF ReadFinal
  <2>2. AtOrder
    BY <1>3 DEF ReadFinal
  <2>3. /\ active \in Ids /\ f \in MaybeQty /\ f <= Wanted
        /\ filled \in Nat /\ filled <= Target
    <3>1. order[active].done \in Qty
      BY <1>1, <2>2, ActiveIsAnOrder DEF TypeOK, Orders
    <3> QED BY <1>1, <2>2, <3>1, ActiveIsAnOrder, FinalFillsAreExact
               DEF MaybeQty, Qty, Unknown, TypeOK, WantedOK
  <2>4. filled' \in Nat /\ filled' <= Target
    BY <2>1, <2>3 DEF MaybeQty, Qty, Unknown
  <2>5. rep' \in [Ids -> Qty]
    BY <1>1, <2>1, <2>3 DEF MaybeQty, TypeOK
  <2>6. Larger(confirmed[active], f) \in Qty
    BY <1>1, <2>3 DEF Larger, MaybeQty, Unknown, Qty, TypeOK
  <2>7. confirmed' \in [Ids -> Qty]
    BY <1>1, <2>1, <2>6 DEF TypeOK
  <2>8. unconf' \in BOOLEAN /\ pc' \in {"attempt", "done"}
    BY <2>1 DEF Unconfirmed
  <2>11. journal' \in [Ids -> Events] /\ lost' \in BOOLEAN
    <3>1. [journal EXCEPT ![active] = "final"] \in [Ids -> Events]
      BY <1>1 DEF TypeOK, Events
    <3> QED BY <1>1, <1>3, <3>1, JournalsOrLoses DEF ReadFinal
  <2>9. TypeOK'
    BY <1>1, <1>3, <2>4, <2>5, <2>7, <2>8, <2>11
       DEF ReadFinal, TypeOK, PCs, RegStates, Events, MaybeQty
  <2>10. WantedOK'
    BY <1>1, <1>3, <2>4, <2>8 DEF ReadFinal, WantedOK
  <2> QED BY <1>3, <2>9, <2>10, QuietStep DEF ReadFinal
<1>4. CASE WatchEnds
  <2>1. TypeOK'
    BY <1>1, <1>4 DEF WatchEnds, TypeOK, PCs
  <2>2. WantedOK'
    BY <1>1, <1>4 DEF WatchEnds, WantedOK
  <2> QED BY <1>4, <2>1, <2>2, QuietStep DEF WatchEnds
<1>5. CASE SendCancel
  <2>1. TypeOK'
    BY <1>1, <1>5 DEF SendCancel, TypeOK
  <2>2. WantedOK'
    BY <1>1, <1>5 DEF SendCancel, WantedOK
  <2> QED BY <1>5, <2>1, <2>2, QuietStep DEF SendCancel
<1>6. CASE CancelWindowEnds
  <2>1. /\ active \in Ids /\ seen \in MaybeQty /\ seen <= Wanted
        /\ filled \in Nat /\ filled <= Target
    BY <1>1, <1>6, ActiveIsAnOrder DEF CancelWindowEnds, TypeOK, WantedOK, MaybeQty, Qty,
                                       Unknown
  <2>2. filled' \in Nat /\ filled' <= Target
    BY <1>6, <2>1 DEF CancelWindowEnds, MaybeQty, Qty, Unknown
  <2>3. rep' \in [Ids -> Qty]
    BY <1>1, <1>6, <2>1 DEF CancelWindowEnds, MaybeQty, TypeOK
  <2>4. Larger(confirmed[active], seen) \in Qty
    BY <1>1, <2>1 DEF Larger, MaybeQty, Unknown, Qty, TypeOK
  <2>5. confirmed' \in [Ids -> Qty]
    BY <1>1, <1>6, <2>4 DEF CancelWindowEnds, TypeOK
  <2>8. journal' \in [Ids -> Events] /\ lost' \in BOOLEAN
    <3>1. [journal EXCEPT ![active] = "stuck"] \in [Ids -> Events]
      BY <1>1 DEF TypeOK, Events
    <3> QED BY <1>1, <1>6, <3>1, JournalsOrLoses DEF CancelWindowEnds
  <2>6. TypeOK'
    BY <1>1, <1>6, <2>2, <2>3, <2>5, <2>8
       DEF CancelWindowEnds, AfterStuck, TypeOK, PCs, RegStates, Events
  <2>7. WantedOK'
    BY <1>1, <1>6, <2>2 DEF CancelWindowEnds, AfterStuck, WantedOK
  <2> QED BY <1>6, <2>6, <2>7, QuietStep DEF CancelWindowEnds
<1> QED BY <1>2, <1>3, <1>4, <1>5, <1>6 DEF Watching

\* A step that ends the call, or only touches what is kept of it, disturbs no order
LEMMA EndingStep ==
    ASSUME TypeInv, UNCHANGED order, TypeOK', filled' = filled,
           Over' \/ UNCHANGED <<pc, active, flight, seen>>
    PROVE  TypeInv'
BY QuietStep DEF TypeInv, WantedOK, Over, AtRequest, AtOrder, AtLoop, Wanted

\* A step that changes only what is kept of the call, and where it is
LEMMA TypeFrame ==
    ASSUME TypeInv, UNCHANGED <<brokerVars, clock, runVars, watchVars, confirmed, uncertain>>,
           pc' \in PCs, handling' \in BOOLEAN, shielded' \in BOOLEAN, alive' \in BOOLEAN,
           cancels' \in 0 .. MaxCancels,
           reg' \in [Ids -> RegStates], rep' \in [Ids -> Qty], journal' \in [Ids -> Events],
           lost' \in BOOLEAN
    PROVE  TypeOK'
BY DEF TypeInv, TypeOK, brokerVars, runVars, loopVars, requestVars, endVars, watchVars

\* HandOver keeps the registry's and the journal's types
LEMMA HandOverTypes ==
    ASSUME TypeOK, NEW x, NEW states \in [Ids -> RegStates], NEW events \in [Ids -> Events],
           HandOver(x, states, events)
    PROVE  /\ reg' \in [Ids -> RegStates] /\ rep' \in [Ids -> Qty]
           /\ journal' \in [Ids -> Events] /\ lost' \in BOOLEAN
           /\ pc' = "interrupted" /\ handling' = FALSE
<1>1. [o \in Ids |-> IF o \in Unreported(x) THEN "interrupted" ELSE events[o]] \in [Ids -> Events]
  BY DEF Events
<1>2. journal' \in [Ids -> Events] /\ lost' \in BOOLEAN
  BY <1>1, JournalsOrLoses DEF HandOver
<1> QED BY <1>2, TargetAssumption DEF HandOver, TypeOK, RegStates, Qty

\* A CancelledError, an error, or a kill keeps the types, whatever it interrupts.
LEMMA InterruptionKeepsTypes == TypeInv /\ Interruption => TypeInv'
<1> SUFFICES ASSUME TypeInv, Interruption PROVE TypeInv'
  OBVIOUS
<1> USE TargetAssumption, CancelsAssumption
     DEF Awaiting, Reading, brokerVars, runVars, loopVars, requestVars, endVars, watchVars,
         stopVars, bookVars
<1>1. TypeOK /\ OrdersOK /\ WantedOK
  BY DEF TypeInv
<1>2. NoBook \in [read : BOOLEAN, ids : SUBSET Ids]
  BY DEF NoBook
<1>3. ASSUME NEW s \in RegStates, NEW e \in Events
      PROVE  /\ [reg EXCEPT ![active] = s] \in [Ids -> RegStates]
             /\ [journal EXCEPT ![active] = e] \in [Ids -> Events]
  BY <1>1 DEF TypeOK
<1>4. CASE Cancelled
  <2>1. cancels' \in 0 .. MaxCancels
    BY <1>1, <1>4 DEF Cancelled, TypeOK
  <2>2. CASE active # None /\ pc' = "cancel"
    <3>1. pc \in {"watch", "cancel"}
      BY <1>1, <1>4, <2>2 DEF Cancelled, WantedOK, AtRequest, AtLoop, Suspended
    <3>2. TypeOK'
      BY <1>1, <1>4, <2>1, <2>2 DEF Cancelled, HandOver, TypeOK, PCs, MaybeQty
    <3>3. WantedOK'
      BY <1>1, <1>4, <2>2, <3>1, ActiveIsAnOrder
         DEF Cancelled, WantedOK, AtRequest, AtOrder, AtLoop, Wanted, Unknown
    <3> QED BY <1>4, <3>2, <3>3, QuietStep DEF Cancelled
  <2>3. CASE HandOver(None, reg, journal) /\ active = None
    <3>1. /\ reg' \in [Ids -> RegStates] /\ rep' \in [Ids -> Qty]
          /\ journal' \in [Ids -> Events] /\ lost' \in BOOLEAN /\ pc' = "interrupted" /\ handling' = FALSE
      BY <1>1, <2>3, HandOverTypes DEF TypeOK
    <3>2. TypeOK'
      BY <1>1, <1>2, <1>4, <2>1, <2>3, <3>1 DEF Cancelled, Placing, TypeOK, PCs
    <3> QED BY <1>4, <3>1, <3>2, EndingStep DEF Cancelled, Over
  <2> QED BY <1>4, <2>2, <2>3 DEF Cancelled
<1>5. CASE SettledLate
  <2>1. PICK x : HandOver(x, [reg EXCEPT ![active] = "final"],
                             [journal EXCEPT ![active] = "final"])
    BY <1>5 DEF SettledLate
  <2>2. /\ reg' \in [Ids -> RegStates] /\ rep' \in [Ids -> Qty]
        /\ journal' \in [Ids -> Events] /\ lost' \in BOOLEAN /\ pc' = "interrupted" /\ handling' = FALSE
    BY <1>1, <1>3, <2>1, HandOverTypes DEF RegStates, Events
  <2>3. UNCHANGED <<brokerVars, clock, runVars, watchVars, shielded, cancels, alive,
                    confirmed, uncertain>>
    BY <1>5 DEF SettledLate
  <2>4. shielded \in BOOLEAN /\ alive \in BOOLEAN /\ cancels \in 0 .. MaxCancels
    BY <1>1 DEF TypeOK
  <2>5. TypeOK'
    BY <2>2, <2>3, <2>4, TypeFrame DEF PCs
  <2> QED BY <2>2, <2>3, <2>5, EndingStep DEF Over
<1>6. CASE NotSettled
  <2>1. PICK state \in {"working", "stuck"} :
          HandOver(active, [reg EXCEPT ![active] = state], journal)
    BY <1>6 DEF NotSettled
  <2>2. /\ reg' \in [Ids -> RegStates] /\ rep' \in [Ids -> Qty]
        /\ journal' \in [Ids -> Events] /\ lost' \in BOOLEAN /\ pc' = "interrupted" /\ handling' = FALSE
    BY <1>1, <1>3, <2>1, HandOverTypes DEF RegStates, TypeOK
  <2>3. UNCHANGED <<brokerVars, clock, runVars, watchVars, shielded, cancels, alive,
                    confirmed, uncertain>>
    BY <1>6 DEF NotSettled
  <2>4. shielded \in BOOLEAN /\ alive \in BOOLEAN /\ cancels \in 0 .. MaxCancels
    BY <1>1 DEF TypeOK
  <2>5. TypeOK'
    BY <2>2, <2>3, <2>4, TypeFrame DEF PCs
  <2> QED BY <2>2, <2>3, <2>5, EndingStep DEF Over
<1>7. CASE CancelledAgain
  <2>1. /\ reg' \in [Ids -> RegStates] /\ rep' \in [Ids -> Qty]
        /\ journal' \in [Ids -> Events] /\ lost' \in BOOLEAN /\ pc' = "interrupted" /\ handling' = FALSE
    BY <1>1, <1>7, HandOverTypes DEF CancelledAgain, TypeOK
  <2>2. cancels' \in 0 .. MaxCancels
    BY <1>1, <1>7 DEF CancelledAgain, TypeOK
  <2>3. /\ shielded' = TRUE
        /\ UNCHANGED <<brokerVars, clock, runVars, watchVars, alive, confirmed, uncertain>>
    BY <1>7 DEF CancelledAgain
  <2>4. alive \in BOOLEAN
    BY <1>1 DEF TypeOK
  <2>5. TypeOK'
    BY <2>1, <2>2, <2>3, <2>4, TypeFrame DEF PCs
  <2> QED BY <2>1, <2>3, <2>5, EndingStep DEF Over
<1>8. CASE ShieldedEnds
  <2>1. reg' \in [Ids -> RegStates] /\ journal' \in [Ids -> Events] /\ lost' \in BOOLEAN
    <3>1. reg' \in [Ids -> RegStates]
      BY <1>1, <1>3, <1>8 DEF ShieldedEnds, TypeOK, RegStates
    <3>2. ASSUME NEW e \in {"final", "stuck"}, Journals([journal EXCEPT ![active] = e])
          PROVE  journal' \in [Ids -> Events] /\ lost' \in BOOLEAN
      <4>1. "final" \in RegStates /\ e \in Events
        BY DEF RegStates, Events
      <4>2. [journal EXCEPT ![active] = e] \in [Ids -> Events]
        BY <1>3, <4>1
      <4> QED BY <1>1, <3>2, <4>2, JournalsOrLoses
    <3>3. ASSUME UNCHANGED <<journal, lost>>
          PROVE  journal' \in [Ids -> Events] /\ lost' \in BOOLEAN
      BY <1>1, <3>3 DEF TypeOK
    <3> QED BY <1>8, <3>1, <3>2, <3>3 DEF ShieldedEnds
  <2>2. /\ shielded' = FALSE
        /\ UNCHANGED <<brokerVars, clock, pc, runVars, watchVars, handling, cancels, alive,
                       rep, confirmed, uncertain>>
    BY <1>8 DEF ShieldedEnds
  <2>3. /\ pc \in PCs /\ handling \in BOOLEAN /\ alive \in BOOLEAN
        /\ rep \in [Ids -> Qty] /\ cancels \in 0 .. MaxCancels
    BY <1>1 DEF TypeOK
  <2>4. TypeOK'
    BY <2>1, <2>2, <2>3, TypeFrame
  <2> QED BY <2>2, <2>4, EndingStep
<1>9. CASE WorkerError
  <2>1. /\ reg' \in [Ids -> RegStates] /\ journal' \in [Ids -> Events] /\ lost' \in BOOLEAN
    <3>1. reg' \in [Ids -> RegStates]
      BY <1>1, <1>3, <1>9 DEF WorkerError, TypeOK, RegStates
    <3>2. (IF active = None THEN journal ELSE [journal EXCEPT ![active] = "stuck"])
            \in [Ids -> Events]
      BY <1>1, <1>3 DEF TypeOK, Events
    <3> QED BY <1>1, <1>9, <3>1, <3>2, JournalsOrLoses DEF WorkerError
  <2>2. open' \in BOOLEAN /\ uncertain' \in BOOLEAN
    BY Zenon, <1>1, <1>9 DEF WorkerError, TypeOK, Placing
  <2>3. TypeOK'
    BY <1>1, <1>2, <1>9, <2>1, <2>2 DEF WorkerError, TypeOK, PCs
  <2> QED BY <1>9, <2>3, EndingStep DEF WorkerError, Over
<1>10. CASE Crash
  <2>1. /\ alive' = FALSE
        /\ UNCHANGED <<brokerVars, clock, pc, runVars, watchVars, handling, shielded,
                       cancels, bookVars>>
    BY <1>10 DEF Crash
  <2>2. TypeOK'
    BY <1>1, <2>1, TypeFrame DEF TypeOK
  <2> QED BY <2>1, <2>2, EndingStep
<1> QED BY <1>4, <1>5, <1>6, <1>7, <1>8, <1>9, <1>10 DEF Interruption

-----------------------------------------------------------------------------
\* Types hold in every state, and with them: what a call counts as filled stays within
\* what it was asked for, and the order watched never asked for more than is missing
THEOREM Types == Spec => []TypeInv
<1>1. ASSUME TypeInv, UNCHANGED vars PROVE TypeInv'
  BY <1>1 DEF TypeInv, TypeOK, OrdersOK, WantedOK, AtRequest, AtOrder, AtLoop, Wanted,
              vars, brokerVars, runVars, loopVars, requestVars, endVars, watchVars,
              stopVars, bookVars
<1>2. TypeInv /\ [Next]_vars => TypeInv'
  BY <1>1, EnvironmentKeepsTypes, PlacementKeepsTypes, ReconciliationKeepsTypes,
     WatchingKeepsTypes, InterruptionKeepsTypes DEF Next
<1> QED BY <1>2, TypeInit, PTL DEF Spec

\* The type invariant of LiveOrders
THEOREM TypeCorrect == Spec => []TypeOK
BY Types, PTL DEF TypeInv

-----------------------------------------------------------------------------
(* The account: what the orders of the call can still sell.                *)

\* Nobody else trades the instrument while the call runs
Alone == OtherIds = {}

\* No order is live but x
NoneLiveBut(x) == \A o \in Ids : order[o].st \in Live => o = x
NoneLive == \A o \in Ids : order[o].st \notin Live

\* While the loop decides, nothing of ours is working and everything that traded has been
\* counted; while a request or an order is open, it is the only one, and its own fill is all
\* that has not been.  An order not yet in the registry is the one on the wire
AccountOK ==
    /\ \A o \in Ids : order[o].st # "absent" => order[o].mine
    /\ \A o \in Ids : order[o].st \in Live =>
         /\ NoneLiveBut(o)
         /\ sold + (order[o].qty - order[o].done) <= Target
    /\ sold <= Target /\ filled <= sold
    /\ AtLoop => filled = sold /\ NoneLive
    /\ AtRequest => sold = filled + order[flight].done /\ NoneLiveBut(flight)
    /\ AtOrder => sold = filled + order[active].done /\ NoneLiveBut(active)
    /\ \A o \in Ids : order[o].st # "absent" /\ reg[o] = "none" =>
         Over \/ (AtRequest /\ o = flight)
    /\ pc = "done" /\ ~open /\ ~unconf => filled = sold /\ NoneLive

Inv == TypeInv /\ AccountOK

\* A call that has sent nothing has sold and reported nothing.
THEOREM AccountInit == Init => AccountOK
BY TargetAssumption
   DEF Init, AccountOK, Absent, Live, NoneLive, NoneLiveBut, AtRequest, AtOrder, AtLoop, Over

\* A fill of the order in flight or watched, and its end, keep the account: no other
\* order of the call can trade.
LEMMA EnvironmentKeepsAccount ==
    ASSUME Alone, Inv, Environment
    PROVE  AccountOK'
<1>1. /\ order \in [Ids -> Orders] /\ sold \in Nat /\ filled \in Nat
      /\ TypeOK /\ OrdersOK /\ AccountOK
  BY DEF Inv, TypeInv, TypeOK
<1>0. AtRequest => flight \in Ids
  BY DEF Inv, TypeInv, WantedOK
<1>a. AtOrder => active \in Ids
  BY DEF Inv, TypeInv, WantedOK
<1>2. ASSUME NEW o \in Ids
      PROVE  order[o].qty \in Nat /\ order[o].done \in Nat /\ order[o].done <= order[o].qty
  BY <1>1, TargetAssumption DEF Orders, Qty, OrdersOK, OrderOK
<1> USE DEF brokerVars, runVars, loopVars, requestVars, endVars, watchVars, stopVars, bookVars
\* An order that changes without trading stays live or stops being so
<1>3. ASSUME NEW o \in Ids, NEW k, order' = [order EXCEPT ![o] = k],
             order[o].st # "absent", k.mine = order[o].mine,
             k.qty = order[o].qty, k.done = order[o].done, k.st # "absent",
             k.st \in Live => order[o].st \in Live,
             UNCHANGED <<sold, pc, runVars, watchVars, stopVars, bookVars>>
      PROVE  AccountOK'
  <2>1. \A p \in Ids : order'[p] = IF p = o THEN k ELSE order[p]
    BY <1>1, <1>3
  <2>2. \A p \in Ids : /\ order'[p].st \in Live => order[p].st \in Live
                       /\ order'[p].st # "absent" => order[p].st # "absent"
                       /\ order'[p].qty = order[p].qty /\ order'[p].done = order[p].done
                       /\ order'[p].mine = order[p].mine
    BY <1>3, <2>1
  <2> QED BY <1>0, <1>a, <1>1, <1>3, <2>2
             DEF AccountOK, NoneLive, NoneLiveBut, AtRequest, AtOrder, AtLoop, Over
<1>4. CASE Tick
  BY <1>1, <1>4 DEF Tick, AccountOK, NoneLive, NoneLiveBut, AtRequest, AtOrder, AtLoop, Over
<1>5. ASSUME NEW o \in Ids, Accept(o) PROVE AccountOK'
  <2>1. PICK shown \in BOOLEAN :
          order' = [order EXCEPT ![o] = [order[o] EXCEPT !.st = "working", !.listed = shown]]
    BY <1>5 DEF Accept
  <2> DEFINE k == [order[o] EXCEPT !.st = "working", !.listed = shown]
  <2>2. /\ k.mine = order[o].mine /\ k.qty = order[o].qty /\ k.done = order[o].done
        /\ k.st = "working"
    BY <1>1 DEF Orders
  <2> HIDE DEF k
  <2> QED BY <1>3, <1>5, <2>1, <2>2 DEF Accept, Live, k
<1>6. ASSUME NEW o \in Ids, List(o) PROVE AccountOK'
  <2> DEFINE k == [order[o] EXCEPT !.listed = TRUE]
  <2>1. order' = [order EXCEPT ![o] = k]
    BY <1>6 DEF List
  <2>2. /\ k.mine = order[o].mine /\ k.qty = order[o].qty /\ k.done = order[o].done
        /\ k.st = order[o].st
    BY <1>1 DEF Orders
  <2> HIDE DEF k
  <2> QED BY <1>3, <1>6, <2>1, <2>2 DEF List
<1>7. ASSUME NEW o \in Ids, Lose(o) PROVE AccountOK'
  <2> DEFINE k == [order[o] EXCEPT !.st = "lost"]
  <2>1. order' = [order EXCEPT ![o] = k]
    BY <1>7 DEF Lose
  <2>2. /\ k.mine = order[o].mine /\ k.qty = order[o].qty /\ k.done = order[o].done
        /\ k.st = "lost"
    BY <1>1 DEF Orders
  <2> HIDE DEF k
  <2> QED BY <1>3, <1>7, <2>1, <2>2 DEF Lose, Live
<1>8. ASSUME NEW o \in Ids, End(o) PROVE AccountOK'
  <2> DEFINE k == [order[o] EXCEPT !.st = "ended"]
  <2>1. order' = [order EXCEPT ![o] = k]
    BY <1>8 DEF End
  <2>2. /\ k.mine = order[o].mine /\ k.qty = order[o].qty /\ k.done = order[o].done
        /\ k.st = "ended"
    BY <1>1 DEF Orders
  <2> HIDE DEF k
  <2> QED BY <1>3, <1>8, <2>1, <2>2 DEF End, Live
\* A fill takes from what its order may still sell exactly what it adds to what is sold
<1>9. ASSUME NEW o \in Ids, Trade(o) PROVE AccountOK'
  <2>1. PICK n \in 1 .. (order[o].qty - order[o].done) :
          /\ order' = [order EXCEPT ![o] =
                 [order[o] EXCEPT !.done = order[o].done + n,
                                  !.st = IF order[o].done + n = order[o].qty
                                         THEN "filled" ELSE "working"]]
          /\ sold' = IF order[o].mine THEN sold + n ELSE sold
    BY <1>9 DEF Trade
  <2>2. /\ order[o].st = "working" /\ order[o].mine /\ sold' = sold + n /\ n \in Nat
        /\ NoneLiveBut(o) /\ sold + (order[o].qty - order[o].done) <= Target
    BY <1>1, <1>2, <1>9, <2>1 DEF Trade, AccountOK, Live
  <2>3. /\ \A p \in Ids : p # o => order'[p] = order[p]
        /\ order'[o].done = order[o].done + n /\ order'[o].qty = order[o].qty
        /\ order'[o].mine /\ order'[o].st \in {"filled", "working"}
    BY <1>1, <1>2, <2>1, <2>2 DEF Orders
  <2>4. ~AtLoop /\ (AtRequest => o = flight) /\ (AtOrder => o = active)
        /\ ~(pc = "done" /\ ~open /\ ~unconf)
    BY <1>1, <2>2 DEF AccountOK, NoneLive, NoneLiveBut, Live
  <2>5. UNCHANGED <<pc, filled, flight, active, reg, open, unconf>>
    BY <1>9 DEF Trade
  <2>6. n <= order[o].qty - order[o].done
    BY <1>2, <2>1
  <2> QED BY <1>1, <1>2, <2>2, <2>3, <2>4, <2>5, <2>6, TargetAssumption
             DEF AccountOK, NoneLive, NoneLiveBut, AtRequest, AtOrder, AtLoop, Over, Live
<1>10. ASSUME NEW o \in Ids, OtherOrder(o) PROVE FALSE
  BY <1>10 DEF OtherOrder, Alone
<1> QED BY <1>4, <1>5, <1>6, <1>7, <1>8, <1>9, <1>10 DEF Environment

\* A step of the worker that sends nothing and ends the call, or goes on in the loop
LEMMA LoopStep ==
    ASSUME Inv, AtLoop, UNCHANGED <<order, sold, filled, reg>>,
           AtLoop' \/ pc' = "done"
    PROVE  AccountOK'
BY DEF Inv, AccountOK, NoneLive, NoneLiveBut, AtRequest, AtOrder, AtLoop, Over

\* A step that ends the call with an order open, a fill unknown, or no result at all
LEMMA LeavingStep ==
    ASSUME Inv, UNCHANGED <<order, sold>>, filled' <= sold, Over',
           pc' = "done" => open' \/ unconf' \/ (filled' = sold /\ NoneLive)
    PROVE  AccountOK'
BY DEF Inv, AccountOK, NoneLive, NoneLiveBut, AtRequest, AtOrder, AtLoop, Over

\* Taking an order over as the one placed keeps the account.
LEMMA AdoptKeepsAccount ==
    ASSUME Inv, AtRequest, Adopt(flight)
    PROVE  AccountOK'
<1>1. flight \in Ids /\ reg \in [Ids -> RegStates] /\ order' = order /\ sold' = sold
      /\ filled' = filled /\ active' = flight /\ pc' = "watch"
      /\ reg' = [reg EXCEPT ![flight] = "working"]
  BY DEF Inv, TypeInv, TypeOK, WantedOK, Adopt, brokerVars, loopVars
<1>2. AccountOK /\ ~Over /\ ~AtLoop
  BY DEF Inv, AtRequest, AtLoop, Over
<1> QED BY <1>1, <1>2
           DEF AccountOK, NoneLive, NoneLiveBut, AtRequest, AtOrder, AtLoop, Over

\* The attempt loop and the placement keep the account: a request is for what is left.
LEMMA PlacementKeepsAccount ==
    ASSUME Alone, Inv, Placement
    PROVE  AccountOK'
<1> USE DEF Awaiting, brokerVars, runVars, loopVars, requestVars, endVars, watchVars,
            stopVars, bookVars
<1>1. TypeOK /\ OrdersOK /\ WantedOK /\ AccountOK
  BY DEF Inv, TypeInv
<1>2. CASE NextAttempt
  BY <1>2, LoopStep DEF NextAttempt, AtLoop
<1>3. CASE Recheck
  BY <1>3, LoopStep DEF Recheck, AtLoop
<1>4. CASE BeforePlacing
  BY <1>4, LoopStep DEF BeforePlacing, AtLoop
<1>5. CASE Send
  <2>1. CASE ~CanPlace
    BY <1>5, <2>1, LoopStep DEF Send, AtLoop
  <2>2. CASE CanPlace
    <3>1. PICK o \in Ids :
            /\ order[o].st = "absent" /\ flight' = o
            /\ order' = [order EXCEPT ![o] = [st |-> "sent", qty |-> Wanted, done |-> 0,
                                              listed |-> FALSE, mine |-> TRUE]]
      BY <1>5, <2>2 DEF Send
    <3>2. /\ order'[o].st = "sent" /\ order'[o].qty = Wanted /\ order'[o].done = 0
          /\ order'[o].mine /\ \A p \in Ids : p # o => order'[p] = order[p]
      BY <1>1, <3>1 DEF TypeOK
    <3>3. AtLoop /\ filled = sold /\ NoneLive /\ sold \in Nat /\ Target \in Nat
      BY <1>1, <1>5, TargetAssumption DEF Send, AccountOK, AtLoop, TypeOK
    <3>4. pc' = "sent" /\ UNCHANGED <<sold, filled, reg>>
      BY <1>5, <2>2 DEF Send
    <3>5. \A p \in Ids : p # o => order'[p].st \notin Live
      BY <3>2, <3>3 DEF NoneLive
    <3>6. sold' + (order'[o].qty - order'[o].done) <= Target
      BY <3>2, <3>3, <3>4 DEF Wanted
    <3>7. /\ AtRequest' /\ ~AtOrder' /\ ~AtLoop' /\ ~(pc' = "done") /\ flight' = o
          /\ ~Over /\ ~AtRequest
      BY <3>1, <3>3, <3>4 DEF AtRequest, AtOrder, AtLoop, Over
    <3>8. \A p \in Ids : order'[p].st # "absent" => order'[p].mine
      BY <1>1, <3>2 DEF AccountOK
    <3>9. \A p \in Ids : order'[p].st # "absent" /\ reg'[p] = "none" => p = o
      BY <1>1, <3>2, <3>4, <3>7 DEF AccountOK
    <3>10. sold' = filled' + order'[o].done /\ sold' <= Target /\ filled' <= sold'
      BY <1>1, <3>2, <3>3, <3>4 DEF AccountOK
    <3>11. NoneLiveBut(o)'
      BY <3>1, <3>5 DEF NoneLiveBut
    <3> QED BY <3>1, <3>5, <3>6, <3>7, <3>8, <3>9, <3>10, <3>11 DEF AccountOK
  <2> QED BY <2>1, <2>2
<1>6. CASE Answered
  BY <1>6, AdoptKeepsAccount DEF Answered, AtRequest
<1>7. CASE Refused
  <2>1. flight \in Ids /\ order[flight].st = "sent" /\ order[flight].done = 0
    BY <1>1, <1>7 DEF Refused, WantedOK, AtRequest, OrdersOK, OrderOK
  <2>2. \A p \in Ids : order'[p] = IF p = flight THEN Absent ELSE order[p]
    BY <1>1, <1>7, <2>1 DEF Refused, TypeOK
  <2>3. filled = sold /\ NoneLiveBut(flight) /\ sold \in Nat /\ filled \in Nat
    BY <1>1, <1>7, <2>1 DEF Refused, AccountOK, AtRequest, TypeOK
  <2>4. \A p \in Ids : order'[p].st \notin Live
    BY <2>2, <2>3 DEF NoneLiveBut, Absent, Live
  <2>5. pc' \in {"done", "attempt", "backoff", "place"}
    BY <1>7 DEF Refused, AfterRefusal
  <2>6. UNCHANGED <<sold, filled, reg>>
    BY <1>7 DEF Refused
  <2>7. \A p \in Ids : order'[p].st # "absent" => order'[p] = order[p] /\ p # flight
    BY <2>2 DEF Absent
  <2> QED BY <1>1, <1>7, <2>3, <2>4, <2>5, <2>6, <2>7
             DEF Refused, AccountOK, NoneLive, NoneLiveBut, AtRequest, AtOrder, AtLoop, Over
<1>8. CASE Backoff
  BY <1>8, LoopStep DEF Backoff, AtLoop
<1> QED BY <1>2, <1>3, <1>4, <1>5, <1>6, <1>7, <1>8 DEF Placement

\* Alone on the account, a look-up of the book can only find the request's own order
LEMMA ReconciliationKeepsAccount ==
    ASSUME Alone, Inv, Reconciliation
    PROVE  AccountOK'
<1> USE DEF Awaiting, brokerVars, runVars, loopVars, requestVars, endVars, watchVars,
            stopVars, bookVars
<1>1. TypeOK /\ OrdersOK /\ WantedOK /\ AccountOK
  BY DEF Inv, TypeInv
<1>2. CASE Unclear
  BY <1>1, <1>2 DEF Unclear, AccountOK, NoneLive, NoneLiveBut, AtRequest, AtOrder, AtLoop,
                    Over
<1>3. ASSUME Awaiting("reconcile"), NEW o \in Tagged \cup Candidates PROVE o = flight
  <2>1. CASE o \in Tagged
    BY <2>1 DEF Tagged
  <2>2. CASE o \in Candidates
    <3>1. o \in Ids /\ order[o].st # "absent" /\ reg[o] = "none"
      BY <1>1, <2>2 DEF Candidates, Listed, OrdersOK, OrderOK
    <3> QED BY <1>1, <1>3, <3>1 DEF AccountOK, Over
  <2> QED BY <1>3, <2>1, <2>2
<1>4. CASE Reconciled
  <2>1. PICK o \in Ids : o \in Tagged \cup Candidates /\ Adopt(o)
    BY <1>4 DEF Reconciled
  <2> QED BY <1>3, <1>4, <2>1, AdoptKeepsAccount DEF Reconciled, AtRequest
<1>5. CASE ReconcileEnds
  <2>1. ASSUME NEW o \in Candidates, Adopt(o) PROVE AccountOK'
    BY <1>3, <1>5, <2>1, AdoptKeepsAccount DEF ReconcileEnds, AtRequest
  <2>2. ASSUME pc' = "done", open' = TRUE, UNCHANGED <<brokerVars, loopVars>>
        PROVE  AccountOK'
    BY <1>1, <2>2, LeavingStep DEF Over, AccountOK
  <2> QED BY <1>5, <2>1, <2>2 DEF ReconcileEnds
<1> QED BY <1>2, <1>4, <1>5 DEF Reconciliation

\* Watching and cancelling keep the account: a finished order adds what it traded.
LEMMA WatchingKeepsAccount ==
    ASSUME Inv, Watching
    PROVE  AccountOK'
<1> USE DEF Awaiting, Reading, brokerVars, runVars, loopVars, requestVars, endVars,
            watchVars, stopVars, bookVars
<1>1. TypeInv /\ TypeOK /\ WantedOK /\ AccountOK
  BY DEF Inv, TypeInv
<1> DEFINE Same == UNCHANGED <<order, sold, filled, reg, active, open, unconf>>
<1>2. ASSUME AtOrder, AtOrder', Same PROVE AccountOK'
  BY <1>1, <1>2 DEF AccountOK, NoneLive, NoneLiveBut, AtRequest, AtOrder, AtLoop, Over
<1>3. CASE ReadOpen
  BY <1>2, <1>3 DEF ReadOpen, AtOrder
<1>4. CASE ReadFinal
  <2>1. PICK f \in FinalFills(active) :
          /\ unconf' = Unconfirmed(f)
          /\ filled' = IF f = Unknown THEN filled ELSE filled + f
          /\ pc' = IF protective /\ f # Unknown THEN "attempt" ELSE "done"
    BY <1>4 DEF ReadFinal
  <2>2. AtOrder
    BY <1>4 DEF ReadFinal, AtOrder
  <2>3. /\ active \in Ids /\ order[active].st \notin Live /\ f \in {Unknown, order[active].done}
        /\ order[active].done \in Nat
    BY <1>1, <2>2, ActiveIsAnOrder, FinalFillsAreExact DEF Live
  <2>4. NoneLive /\ sold = filled + order[active].done
    BY <1>1, <2>2, <2>3 DEF AccountOK, NoneLive, NoneLiveBut
  <2>5. /\ UNCHANGED <<order, sold>> /\ reg' = [reg EXCEPT ![active] = "final"]
    BY <1>4 DEF ReadFinal
  <2>6. CASE f = Unknown
    BY <1>1, <2>1, <2>5, <2>6, LeavingStep DEF Inv, AccountOK, Over, Unconfirmed
  <2>7. CASE f # Unknown
    <3>1. filled' = sold /\ pc' \in {"attempt", "done"}
      BY <2>1, <2>3, <2>4, <2>7
    <3>2. NoneLive'
      BY <2>4, <2>5 DEF NoneLive
    <3>3. \A o \in Ids : reg'[o] = "none" => reg[o] = "none"
      BY <1>1, <2>5 DEF TypeOK
    <3> QED BY <1>1, <2>2, <2>4, <2>5, <3>1, <3>2, <3>3
               DEF AccountOK, NoneLive, NoneLiveBut, AtRequest, AtOrder, AtLoop, Over, TypeOK
  <2> QED BY <2>6, <2>7
<1>5. CASE WatchEnds
  BY <1>2, <1>5 DEF WatchEnds, AtOrder
<1>6. CASE SendCancel
  BY <1>2, <1>6 DEF SendCancel, AtOrder
<1>7. CASE CancelWindowEnds
  <2>1. AtOrder /\ pc' = "done" /\ open' = TRUE /\ UNCHANGED <<order, sold>>
    BY <1>7 DEF CancelWindowEnds, AfterStuck, AtOrder
  <2>2. /\ filled \in Nat /\ seen \in Int /\ seen <= order[active].done
        /\ order[active].done \in Nat /\ sold = filled + order[active].done
    BY <1>1, <2>1, ActiveIsAnOrder
       DEF TypeOK, WantedOK, AccountOK, MaybeQty, Qty, Unknown
  <2>3. filled' <= sold
    BY <1>7, <2>2 DEF CancelWindowEnds, Unknown
  <2> QED BY <2>1, <2>3, LeavingStep DEF Over
<1> QED BY <1>3, <1>4, <1>5, <1>6, <1>7 DEF Watching

\* A CancelledError, an error, or a kill keeps the account: the call places nothing more.
LEMMA InterruptionKeepsAccount ==
    ASSUME Inv, Interruption
    PROVE  AccountOK'
<1> USE DEF Awaiting, Reading, brokerVars, runVars, loopVars, requestVars, endVars,
            watchVars, stopVars, bookVars
<1>1. TypeInv /\ TypeOK /\ WantedOK /\ AccountOK /\ filled <= sold
  BY DEF Inv, TypeInv, AccountOK
<1>2. ASSUME NEW x, NEW states, NEW events, HandOver(x, states, events),
             UNCHANGED <<order, sold, filled>>
      PROVE  AccountOK'
  BY <1>1, <1>2, LeavingStep DEF HandOver, Over
<1>3. CASE Cancelled
  <2>1. CASE active # None /\ pc' = "cancel"
    <3>1. AtOrder /\ AtOrder'
      BY <1>1, <1>3, <2>1 DEF Cancelled, WantedOK, AtRequest, AtLoop, AtOrder, Suspended
    <3>2. UNCHANGED <<order, sold, filled, reg, active>>
      BY <1>1, <1>3, <2>1 DEF Cancelled, HandOver
    <3> QED BY <1>1, <3>1, <3>2
               DEF AccountOK, NoneLive, NoneLiveBut, AtRequest, AtOrder, AtLoop, Over
  <2>2. CASE HandOver(None, reg, journal)
    BY <1>2, <1>3, <2>2 DEF Cancelled
  <2> QED BY <1>3, <2>1, <2>2 DEF Cancelled
<1>4. CASE SettledLate
  BY <1>2, <1>4 DEF SettledLate
<1>5. CASE NotSettled
  BY <1>2, <1>5 DEF NotSettled
<1>6. CASE CancelledAgain
  BY <1>2, <1>6 DEF CancelledAgain
<1>7. CASE ShieldedEnds
  <2>1. \A o \in Ids : reg'[o] = "none" => reg[o] = "none"
    BY <1>1, <1>7 DEF ShieldedEnds, TypeOK
  <2>2. UNCHANGED <<order, sold, filled, pc, flight, active, open, unconf>>
    BY <1>7 DEF ShieldedEnds
  <2> QED BY <1>1, <2>1, <2>2
             DEF AccountOK, NoneLive, NoneLiveBut, AtRequest, AtOrder, AtLoop, Over
\* An error with nothing at the broker leaves everything counted
<1>8. CASE WorkerError
  <2>1. open' \/ (active = None /\ ~Placing)
    BY <1>8 DEF WorkerError
  <2>2. ASSUME active = None, ~Placing PROVE filled = sold /\ NoneLive
    <3>1. ~AtOrder /\ ~AtRequest
      BY <1>1, <2>2, IdsAssumption DEF WantedOK, AtRequest, Placing
    <3>2. AtLoop
      BY <1>8, <3>1 DEF WorkerError, Suspended, AtOrder, AtRequest, AtLoop
    <3> QED BY <1>1, <3>2 DEF AccountOK
  <2>3. pc' = "done" /\ UNCHANGED <<order, sold, filled>>
    BY <1>8 DEF WorkerError
  <2> QED BY <1>1, <2>1, <2>2, <2>3, LeavingStep DEF Over
<1>9. CASE Crash
  BY <1>1, <1>9 DEF Crash, AccountOK, NoneLive, NoneLiveBut, AtRequest, AtOrder, AtLoop, Over
<1> QED BY <1>3, <1>4, <1>5, <1>6, <1>7, <1>8, <1>9 DEF Interruption

\* Every step keeps the inductive invariant.
LEMMA AccountNext == ASSUME Alone, Inv, [Next]_vars PROVE Inv'
<1>1. TypeInv'
  <2>1. CASE UNCHANGED vars
    BY <2>1 DEF Inv, TypeInv, TypeOK, OrdersOK, WantedOK, AtRequest, AtOrder, AtLoop, Wanted,
                vars, brokerVars, runVars, loopVars, requestVars, endVars, watchVars,
                stopVars, bookVars
  <2> QED BY <2>1, EnvironmentKeepsTypes, PlacementKeepsTypes, ReconciliationKeepsTypes,
             WatchingKeepsTypes, InterruptionKeepsTypes DEF Next, Inv
<1>2. CASE UNCHANGED vars
  BY <1>1, <1>2 DEF Inv, AccountOK, NoneLive, NoneLiveBut, AtRequest, AtOrder, AtLoop, Over,
                    vars, brokerVars, runVars, loopVars, requestVars, endVars, watchVars,
                    bookVars
<1>3. CASE Next
  BY <1>1, <1>3, EnvironmentKeepsAccount, PlacementKeepsAccount, ReconciliationKeepsAccount,
     WatchingKeepsAccount, InterruptionKeepsAccount DEF Next, Inv
<1> QED BY <1>2, <1>3

-----------------------------------------------------------------------------
(* The theorems.                                                           *)

\* The inductive invariant: the worker's view of its one open order agrees with the broker
THEOREM AccountCorrect == ASSUME Alone PROVE Spec => []Inv
<1>1. Init => Inv
  BY TypeInit, AccountInit DEF Inv
<1>2. Inv /\ [Next]_vars => Inv'
  BY AccountNext
<1> QED BY <1>1, <1>2, PTL DEF Spec

\* However late requests arrive, whatever the reads miss and whenever the call is cut: its
\* orders never sell more than it was asked to
THEOREM NeverOversells == ASSUME Alone PROVE Spec => []NoOversell
<1>1. Inv => NoOversell
  BY DEF Inv, AccountOK, NoOversell
<1> QED BY <1>1, AccountCorrect, PTL

\* The call never counts a share that the broker did not trade for it
THEOREM NeverOverReportsFills == ASSUME Alone PROVE Spec => []NeverOverReports
<1>1. Inv => NeverOverReports
  BY DEF Inv, AccountOK, NeverOverReports
<1> QED BY <1>1, AccountCorrect, PTL

\* A result without open orders and unknown fills is exactly what happened at the broker
THEOREM ResultsAreExact == ASSUME Alone PROVE Spec => []ResultIsExact
<1>1. ASSUME Inv PROVE ResultIsExact
  <2>1. \A o \in AtBroker : /\ o \in Ids /\ order[o].st # "absent" /\ order[o].st # "lost"
                            /\ order[o].st \in OrderStates
    BY <1>1 DEF Inv, TypeInv, TypeOK, OrdersOK, OrderOK, Orders, AtBroker, Mine
  <2> QED BY <1>1, <2>1
             DEF Inv, AccountOK, ResultIsExact, NoneLive, Live, Terminal, OrderStates
<1> QED BY <1>1, AccountCorrect, PTL

\* Only Send puts a new order on the wire
LEMMA OnlySendSends ==
    ASSUME TypeInv, [Next]_vars, NEW o \in Ids,
           order[o].st = "absent", order'[o].st = "sent"
    PROVE  Awaiting("book")
<1> USE DEF brokerVars
<1>1. order \in [Ids -> Orders]
  BY DEF TypeInv, TypeOK
<1>2. order' # order
  OBVIOUS
<1>3. ~Environment
  <2>1. ~Tick
    BY <1>2 DEF Tick
  <2>2. ASSUME NEW p \in Ids, Accept(p) \/ List(p) \/ Lose(p) \/ Trade(p) \/ End(p) PROVE FALSE
    BY <1>1, <2>2 DEF Accept, List, Lose, Trade, End
  <2>3. ASSUME NEW p \in Ids, OtherOrder(p) PROVE FALSE
    BY <1>1, <2>3 DEF OtherOrder
  <2> QED BY <2>1, <2>2, <2>3 DEF Environment
<1>4. ~Refused
  BY <1>1 DEF Refused, Absent
<1>5. CASE Send
  BY <1>2, <1>5 DEF Send
<1> QED BY <1>2, <1>3, <1>4, <1>5
           DEF Next, vars, Placement, Reconciliation, Watching, Interruption, NextAttempt,
               Recheck, BeforePlacing, Answered, Adopt, Backoff, Unclear, Reconciled,
               ReconcileEnds, ReadOpen, ReadFinal, WatchEnds, SendCancel, CancelWindowEnds,
               Cancelled, SettledLate, NotSettled, CancelledAgain, ShieldedEnds,
               WorkerError, Crash

\* A new order is sent only when every earlier one of the call is finished at the broker
THEOREM NeverOverAnOpenOne == ASSUME Alone PROVE Spec => NoOrderOverAnOpenOne
<1>1. ASSUME Inv, [Next]_vars, NEW o \in Ids, order[o].st = "absent", order'[o].st = "sent"
      PROVE  \A p \in AtBroker : order[p].st \in Terminal
  <2>1. NoneLive
    BY <1>1, OnlySendSends DEF Inv, AccountOK, Awaiting, AtLoop
  <2>2. \A p \in AtBroker : /\ p \in Ids /\ order[p].st # "absent" /\ order[p].st # "lost"
                            /\ order[p].st \in OrderStates
    BY <1>1 DEF Inv, TypeInv, TypeOK, OrdersOK, OrderOK, Orders, AtBroker, Mine
  <2> QED BY <2>1, <2>2 DEF NoneLive, Live, Terminal, OrderStates
<1>2. Inv /\ [Next]_vars =>
        [\A o \in Ids : order[o].st = "absent" /\ order'[o].st = "sent" =>
            \A p \in AtBroker : order[p].st \in Terminal]_vars
  BY <1>1
<1> QED BY <1>2, AccountCorrect, PTL DEF Spec, NoOrderOverAnOpenOne

-----------------------------------------------------------------------------
(* What is left when the call is over.                                     *)

\* The registry and the journal, if all its lines were written, agree about an order
Linked(state, event) ==
    /\ (state = "none") <=> (event = "none")
    /\ state = "working" => event \in {"placed", "interrupted"}
    /\ state = "stuck" => event \in {"stuck", "interrupted"}
    /\ state = "interrupted" => event = "interrupted"

\* An order the broker may have is in both, or is the request of the moment, or uncertain
KnownInv ==
    /\ ~lost => \A o \in Ids : Linked(reg[o], journal[o])
    /\ \A o \in Ids : /\ order[o].st = "absent" => reg[o] = "none"
                      /\ order[o].st # "absent" /\ reg[o] = "none" =>
                           uncertain \/ (AtRequest /\ o = flight)
    /\ AtRequest => reg[flight] = "none"
    /\ handling => cancels >= 1
    /\ shielded => /\ cancels >= 2 /\ pc = "interrupted"
                   /\ active \in Ids /\ order[active].st # "absent"

\* An order that is final to the registry is finished at the broker, and its caller was told
\* what it traded, or that this is unknown; up to a second CancelledError
ToldInv ==
    cancels <= 1 =>
       \A o \in Ids : reg[o] = "final" =>
          /\ order[o].st \notin Live
          /\ order[o].done = Told(o) \/ (pc = "done" /\ unconf)

LeftInv == Inv /\ KnownInv /\ ToldInv

\* A call that has sent nothing has nothing to keep.
LEMMA LeftInit == Init => KnownInv /\ ToldInv
BY DEF Init, KnownInv, ToldInv, Linked, Absent, AtRequest

\* The broker neither takes an order back nor revives a finished one
LEMMA BrokerSteps ==
    ASSUME Alone, Inv, Environment, NEW o \in Ids
    PROVE  /\ order'[o].st = "absent" <=> order[o].st = "absent"
           /\ order[o].st \notin Live =>
                order'[o].st \notin Live /\ order'[o].done = order[o].done
<1>1. order \in [Ids -> Orders]
  BY DEF Inv, TypeInv, TypeOK
<1>2. CASE Tick
  BY <1>2 DEF Tick, brokerVars
<1>3. ASSUME NEW p \in Ids, Accept(p)
      PROVE  /\ order[p].st \in Live /\ order'[p].st # "absent"
             /\ \A q \in Ids : q # p => order'[q] = order[q]
  BY <1>1, <1>3 DEF Accept, Live
<1>4. ASSUME NEW p \in Ids, List(p)
      PROVE  /\ order[p].st # "absent" /\ order'[p].st = order[p].st
             /\ order'[p].done = order[p].done
             /\ \A q \in Ids : q # p => order'[q] = order[q]
  BY <1>1, <1>4 DEF List, Orders
<1>5. ASSUME NEW p \in Ids, Lose(p) \/ End(p)
      PROVE  /\ order[p].st \in Live /\ order'[p].st # "absent"
             /\ \A q \in Ids : q # p => order'[q] = order[q]
  <2>1. CASE Lose(p)  BY <1>1, <2>1 DEF Lose, Live
  <2>2. CASE End(p)  BY <1>1, <2>2 DEF End, Live
  <2> QED  BY <1>5, <2>1, <2>2
<1>6. ASSUME NEW p \in Ids, Trade(p)
      PROVE  /\ order[p].st \in Live /\ order'[p].st # "absent"
             /\ \A q \in Ids : q # p => order'[q] = order[q]
  <2>1. PICK k : order' = [order EXCEPT ![p] = k] /\ k.st \in {"filled", "working"}
    <3>1. PICK n \in 1 .. (order[p].qty - order[p].done) :
            order' = [order EXCEPT ![p] =
                [order[p] EXCEPT !.done = order[p].done + n,
                                 !.st = IF order[p].done + n = order[p].qty
                                        THEN "filled" ELSE "working"]]
      BY <1>6 DEF Trade
    <3> DEFINE k == [order[p] EXCEPT !.done = order[p].done + n,
                                     !.st = IF order[p].done + n = order[p].qty
                                            THEN "filled" ELSE "working"]
    <3>2. k.st \in {"filled", "working"}
      BY <1>1 DEF Orders
    <3> QED BY <3>1, <3>2
  <2> QED BY <1>1, <1>6, <2>1 DEF Trade, Live
<1>7. ~ \E p \in Ids : OtherOrder(p)
  BY DEF Alone, OtherOrder
<1> QED BY <1>2, <1>3, <1>4, <1>5, <1>6, <1>7 DEF Environment, Live

\* What the broker does is in neither registry nor journal.
LEMMA EnvironmentKeepsLeft ==
    ASSUME Alone, LeftInv, Environment
    PROVE  KnownInv' /\ ToldInv'
<1>1. UNCHANGED <<pc, runVars, watchVars, stopVars, bookVars>>
  BY DEF Environment, Tick, Accept, List, Lose, Trade, End, OtherOrder
<1> USE DEF LeftInv, runVars, loopVars, requestVars, endVars, watchVars, stopVars, bookVars
<1>2. KnownInv'
  BY <1>1, BrokerSteps DEF KnownInv, AtRequest
<1>3. ToldInv'
  BY <1>1, BrokerSteps DEF ToldInv, Told
<1> QED BY <1>2, <1>3

\* A step that only moves the call, or finds the request's outcome uncertain
LEMMA MovesOn ==
    ASSUME LeftInv, ~Over, UNCHANGED <<order, reg, rep, shielded>>,
           ~lost' => ~lost /\ journal' = journal,
           cancels' \in {cancels, cancels + 1}, uncertain => uncertain',
           handling' => handling \/ cancels' = cancels + 1,
           AtRequest => uncertain' \/ (AtRequest' /\ flight' = flight),
           AtRequest' => AtRequest /\ flight' = flight,
           pc' # "interrupted"
    PROVE  KnownInv' /\ ToldInv'
<1>1. cancels \in Nat /\ (cancels' <= 1 => cancels <= 1)
  BY CancelsAssumption DEF LeftInv, Inv, TypeInv, TypeOK
<1>2. KnownInv'
  <2>1. ~shielded'  BY DEF LeftInv, KnownInv, Over
  <2>2. handling' => cancels' >= 1  BY <1>1 DEF LeftInv, KnownInv
  <2> QED  BY <2>1, <2>2 DEF LeftInv, KnownInv
<1>3. ToldInv'
  BY <1>1 DEF LeftInv, ToldInv, Told, Over
<1> QED BY <1>2, <1>3

\* The registry and the journal are told how the order watched has ended
LEMMA EntersEnd ==
    ASSUME LeftInv, AtOrder, UNCHANGED <<order, shielded>>, cancels' = cancels,
           uncertain => uncertain', handling' => handling,
           NEW state, NEW event, Linked(state, event), state # "none",
           reg' = [reg EXCEPT ![active] = state],
           Journals([journal EXCEPT ![active] = event]),
           \A o \in Ids : o # active => rep'[o] = rep[o],
           state = "final" => /\ order[active].st \notin Live
                              /\ order[active].done = rep'[active] \/ (pc' = "done" /\ unconf'),
           ~AtRequest', pc' # "interrupted"
    PROVE  KnownInv' /\ ToldInv'
<1>1. /\ active \in Ids /\ order[active].st # "absent" /\ ~Over /\ ~AtRequest
      /\ reg \in [Ids -> RegStates] /\ journal \in [Ids -> Events]
  BY DEF LeftInv, Inv, TypeInv, TypeOK, WantedOK, AtOrder, Over, AtRequest
<1>2. \A o \in Ids : /\ reg'[o] = IF o = active THEN state ELSE reg[o]
                     /\ ~lost' => /\ ~lost
                                  /\ journal'[o] = IF o = active THEN event ELSE journal[o]
  <2>1. ~lost' => ~lost /\ journal' = [journal EXCEPT ![active] = event]
    BY JournalsOrLoses DEF LeftInv, Inv, TypeInv
  <2>2. \A o \in Ids : [journal EXCEPT ![active] = event][o] =
                          IF o = active THEN event ELSE journal[o]
    BY <1>1
  <2> QED BY <1>1, <2>1, <2>2
<1>3. KnownInv'
  BY <1>1, <1>2 DEF LeftInv, KnownInv, Over
<1>4. ToldInv'
  BY <1>1, <1>2 DEF LeftInv, ToldInv, Told, Over
<1> QED BY <1>3, <1>4

\* An order enters registry and journal when it is adopted
LEMMA AdoptKeepsLeft ==
    ASSUME LeftInv, AtRequest, Adopt(flight), order[flight].st # "absent"
    PROVE  KnownInv' /\ ToldInv'
<1>1. /\ flight \in Ids /\ reg \in [Ids -> RegStates] /\ journal \in [Ids -> Events]
      /\ rep \in [Ids -> Qty] /\ ~Over
  BY DEF LeftInv, Inv, TypeInv, TypeOK, WantedOK, AtRequest, Over
<1>2. \A o \in Ids : /\ reg'[o] = IF o = flight THEN "working" ELSE reg[o]
                     /\ ~lost' => /\ ~lost
                                  /\ journal'[o] = IF o = flight THEN "placed" ELSE journal[o]
                     /\ rep'[o] = IF o = flight THEN 0 ELSE rep[o]
  <2>1. ~lost' => ~lost /\ journal' = [journal EXCEPT ![flight] = "placed"]
    BY JournalsOrLoses DEF Adopt, LeftInv, Inv, TypeInv
  <2>2. \A o \in Ids : [journal EXCEPT ![flight] = "placed"][o] =
                          IF o = flight THEN "placed" ELSE journal[o]
    BY <1>1
  <2>3. \A o \in Ids : /\ reg'[o] = IF o = flight THEN "working" ELSE reg[o]
                       /\ rep'[o] = IF o = flight THEN 0 ELSE rep[o]
    BY <1>1 DEF Adopt
  <2> QED BY <2>1, <2>2, <2>3
<1>3. /\ UNCHANGED <<order, handling, shielded, cancels, uncertain>> /\ pc' = "watch"
      /\ ~AtRequest'
  BY DEF Adopt, brokerVars, stopVars, AtRequest
<1>4. KnownInv'
  BY <1>1, <1>2, <1>3 DEF LeftInv, KnownInv, Linked, Over
<1>5. ToldInv'
  BY <1>1, <1>2, <1>3 DEF LeftInv, ToldInv, Told, Over
<1> QED BY <1>4, <1>5

\* What the caller will not hear of is handed over: the other final orders traded nothing
LEMMA HandOverKeepsLeft ==
    ASSUME LeftInv, ~Over, NEW x, NEW states \in [Ids -> RegStates], NEW events,
           HandOver(x, states, events), UNCHANGED <<order, shielded>>,
           shielded' => cancels' >= 2 /\ active' \in Ids /\ order[active'].st # "absent",
           uncertain => uncertain', AtRequest => uncertain',
           \A o \in Ids : states[o] = "none" <=> reg[o] = "none",
           \A o \in Unreported(x) : states[o] # "none",
           ~lost => \A o \in Ids \ Unreported(x) : Linked(states[o], events[o]),
           cancels' <= 1 =>
              \A o \in Ids \ Unreported(x) :
                 states[o] = "final" => order[o].st \notin Live /\ order[o].done = 0
    PROVE  KnownInv' /\ ToldInv'
<1>1. \A o \in Ids : 
        /\ reg'[o] = IF o \in Unreported(x) /\ states[o] = "final" THEN "interrupted"
                     ELSE states[o]
        /\ ~lost' => /\ ~lost
                     /\ journal'[o] = IF o \in Unreported(x) THEN "interrupted" ELSE events[o]
  BY JournalsOrLoses DEF HandOver, LeftInv, Inv, TypeInv
<1>2. pc' = "interrupted" /\ ~handling' /\ ~AtRequest'
  BY DEF HandOver, AtRequest
<1>3. \A o \in Ids : /\ ~lost' => Linked(reg'[o], journal'[o])
                     /\ reg'[o] = "none" <=> reg[o] = "none"
  BY <1>1 DEF Linked, RegStates
<1>4. KnownInv'
  BY <1>2, <1>3 DEF LeftInv, KnownInv
<1>5. ToldInv'
  BY <1>1, <1>2 DEF ToldInv, Told
<1> QED BY <1>4, <1>5

\* Short of a second CancelledError, a final order that is not handed over traded nothing
LEMMA Heard ==
    ASSUME LeftInv, ~Over, cancels <= 1, NEW x, NEW o \in Ids \ Unreported(x), reg[o] = "final"
    PROVE  order[o].st \notin Live /\ order[o].done = 0
<1>1. rep[o] = 0
  BY TargetAssumption DEF LeftInv, Inv, TypeInv, TypeOK, Qty, Unreported
<1> QED BY <1>1 DEF LeftInv, ToldInv, Told, Over

\* The request of the moment is not in the registry until it is adopted.
LEMMA PlacementKeepsLeft ==
    ASSUME LeftInv, Placement
    PROVE  KnownInv' /\ ToldInv'
<1> USE DEF Awaiting, AtRequest, Over, brokerVars, runVars, loopVars, requestVars, endVars,
            watchVars, stopVars, bookVars
<1>1. /\ order \in [Ids -> Orders] /\ reg \in [Ids -> RegStates] /\ OrdersOK
      /\ AtRequest => flight \in Ids
  BY DEF LeftInv, Inv, TypeInv, TypeOK, WantedOK
<1>2. CASE NextAttempt  BY <1>2, MovesOn DEF NextAttempt
<1>3. CASE Recheck  BY <1>3, MovesOn DEF Recheck
<1>4. CASE BeforePlacing  BY <1>4, MovesOn DEF BeforePlacing
<1>5. CASE Backoff  BY <1>5, MovesOn DEF Backoff
<1>6. CASE Answered
  BY <1>6, AdoptKeepsLeft DEF Answered
<1>7. CASE Send
  <2>1. CASE ~CanPlace  BY <1>7, <2>1, MovesOn DEF Send
  <2>2. CASE CanPlace
    <3>1. PICK o \in Ids :
            /\ order[o].st = "absent" /\ flight' = o
            /\ order' = [order EXCEPT ![o] = [st |-> "sent", qty |-> Wanted, done |-> 0,
                                              listed |-> FALSE, mine |-> TRUE]]
      BY <1>7, <2>2 DEF Send
    <3>2. /\ order'[o].st # "absent" /\ \A p \in Ids : p # o => order'[p] = order[p]
          /\ reg[o] = "none"
      BY <1>1, <3>1 DEF LeftInv, KnownInv
    <3>3. /\ UNCHANGED <<reg, rep, journal, lost, uncertain, handling, shielded, cancels, active, unconf>>
          /\ pc = "book" /\ pc' = "sent"
      BY <1>7, <2>2 DEF Send
    <3>4. KnownInv'  BY <3>1, <3>2, <3>3 DEF LeftInv, KnownInv
    <3>5. ToldInv'  BY <3>1, <3>2, <3>3 DEF LeftInv, ToldInv, Told
    <3> QED  BY <3>4, <3>5
  <2> QED  BY <2>1, <2>2
<1>8. CASE Refused
  <2>1. /\ pc = "sent" /\ flight \in Ids /\ reg[flight] = "none"
        /\ order' = [order EXCEPT ![flight] = Absent]
    BY <1>1, <1>8 DEF Refused, LeftInv, KnownInv
  <2>2. /\ order'[flight].st = "absent" /\ \A p \in Ids : p # flight => order'[p] = order[p]
    BY <1>1, <2>1 DEF Absent
  <2>3. /\ UNCHANGED <<reg, rep, journal, lost, uncertain, handling, shielded, cancels, active, unconf>>
        /\ pc' \in {"done", "attempt", "backoff", "place"}
    BY <1>8 DEF Refused, AfterRefusal
  <2>4. KnownInv'  BY <2>1, <2>2, <2>3 DEF LeftInv, KnownInv
  <2>5. ToldInv'  BY <2>1, <2>2, <2>3 DEF LeftInv, ToldInv, Told
  <2> QED  BY <2>4, <2>5
<1> QED BY <1>2, <1>3, <1>4, <1>5, <1>6, <1>7, <1>8 DEF Placement

\* Alone on the account, the order found is the one asked for
LEMMA ReconciliationKeepsLeft ==
    ASSUME Alone, LeftInv, Reconciliation
    PROVE  KnownInv' /\ ToldInv'
<1> USE DEF Awaiting, AtRequest, Over, brokerVars, runVars, loopVars, requestVars, endVars,
            watchVars, stopVars, bookVars
<1>1. OrdersOK /\ AccountOK /\ (AtRequest => flight \in Ids)
  BY DEF LeftInv, Inv, TypeInv, WantedOK
<1>2. CASE Unclear  BY <1>2, MovesOn DEF Unclear
<1>3. ASSUME pc = "reconcile", NEW o \in Tagged \cup Candidates
      PROVE  o = flight /\ order[o].st # "absent"
  <2>1. order[o].st # "absent" /\ o \in Ids
    BY <1>1 DEF Tagged, Candidates, Listed, OrdersOK, OrderOK
  <2>2. CASE o \in Tagged  BY <2>1, <2>2 DEF Tagged
  <2>3. CASE o \in Candidates
    BY <1>1, <1>3, <2>1, <2>3 DEF AccountOK, Candidates
  <2> QED  BY <2>2, <2>3
<1>4. CASE Reconciled
  <2>1. PICK o \in Ids : o \in Tagged \cup Candidates /\ Adopt(o)
    BY <1>4 DEF Reconciled
  <2> QED  BY <1>3, <1>4, <2>1, AdoptKeepsLeft DEF Reconciled
<1>5. CASE ReconcileEnds
  <2>1. ASSUME NEW o \in Candidates, Adopt(o) PROVE KnownInv' /\ ToldInv'
    BY <1>3, <1>5, <2>1, AdoptKeepsLeft DEF ReconcileEnds
  <2>2. CASE uncertain' = TRUE /\ pc' = "done" /\ Journals(journal)
                /\ UNCHANGED <<order, stopVars, reg, rep>>
    BY <1>5, <2>2, MovesOn, JournalsOrLoses DEF ReconcileEnds, LeftInv, Inv, TypeInv
  <2> QED  BY <1>5, <2>1, <2>2 DEF ReconcileEnds
<1> QED  BY <1>2, <1>4, <1>5 DEF Reconciliation

\* An order whose end is read, or given up, is entered with what the call was told.
LEMMA WatchingKeepsLeft ==
    ASSUME LeftInv, Watching
    PROVE  KnownInv' /\ ToldInv'
<1> USE DEF Awaiting, Reading, AtOrder, AtRequest, Over, brokerVars, runVars, loopVars,
            requestVars, endVars, watchVars, stopVars, bookVars
<1>1. TypeInv /\ rep \in [Ids -> Qty] /\ (AtOrder => active \in Ids)
  BY DEF LeftInv, Inv, TypeInv, TypeOK, WantedOK
<1>2. CASE ReadOpen  BY <1>2, MovesOn DEF ReadOpen
<1>3. CASE WatchEnds  BY <1>3, MovesOn DEF WatchEnds
<1>4. CASE SendCancel  BY <1>4, MovesOn DEF SendCancel
<1>5. CASE ReadFinal
  <2>1. PICK f \in FinalFills(active) :
          /\ unconf' = Unconfirmed(f)
          /\ rep' = IF f = Unknown THEN rep ELSE [rep EXCEPT ![active] = f]
          /\ pc' = IF protective /\ f # Unknown THEN "attempt" ELSE "done"
    BY <1>5 DEF ReadFinal
  <2>2. /\ order[active].st \notin Live /\ f \in {Unknown, order[active].done}
    BY <1>1, <1>5, FinalFillsAreExact DEF ReadFinal, Live
  <2>3. order[active].done = rep'[active] \/ (pc' = "done" /\ unconf')
    BY <1>1, <1>5, <2>1, <2>2 DEF ReadFinal, Unconfirmed
  <2>4. \A o \in Ids : o # active => rep'[o] = rep[o]
    BY <1>1, <2>1
  <2>5. Linked("final", "final")  BY DEF Linked
  <2>6. /\ reg' = [reg EXCEPT ![active] = "final"]
        /\ Journals([journal EXCEPT ![active] = "final"])
        /\ UNCHANGED <<order, shielded, cancels, uncertain, handling>>
    BY <1>5 DEF ReadFinal
  <2>7. pc' \in {"attempt", "done"} /\ AtOrder  BY <1>5, <2>1 DEF ReadFinal
  <2> QED  BY <2>2, <2>3, <2>4, <2>5, <2>6, <2>7, EntersEnd
<1>6. CASE CancelWindowEnds
  <2>1. Linked("stuck", "stuck")  BY DEF Linked
  <2>2. \A o \in Ids : o # active => rep'[o] = rep[o]
    BY <1>1, <1>6 DEF CancelWindowEnds
  <2>3. /\ reg' = [reg EXCEPT ![active] = "stuck"]
        /\ Journals([journal EXCEPT ![active] = "stuck"])
        /\ UNCHANGED <<order, shielded, cancels, uncertain, handling>>
        /\ pc' = "done" /\ AtOrder
    BY <1>6 DEF CancelWindowEnds, AfterStuck
  <2> QED  BY <2>1, <2>2, <2>3, EntersEnd
<1> QED  BY <1>2, <1>3, <1>4, <1>5, <1>6 DEF Watching

\* A cancelled call hands its orders over, an error reports them stuck, a kill leaves both
\* files as they are.
LEMMA InterruptionKeepsLeft ==
    ASSUME LeftInv, Interruption
    PROVE  KnownInv' /\ ToldInv'
<1> USE DEF Awaiting, Reading, AtOrder, AtRequest, AtLoop, Over, brokerVars, runVars, loopVars,
            requestVars, endVars, watchVars, stopVars, bookVars
<1>1. /\ TypeInv /\ cancels \in Nat /\ reg \in [Ids -> RegStates]
      /\ journal \in [Ids -> Events] /\ None \notin Ids
      /\ AtOrder => active \in Ids /\ order[active].st # "absent" /\ reg[active] # "none"
      /\ AtLoop \/ AtRequest => active = None
  <2>1. TypeInv /\ TypeOK /\ WantedOK /\ AccountOK
    BY DEF LeftInv, Inv, TypeInv
  <2>2. AtOrder => active \in Ids /\ order[active].st # "absent"
    BY <2>1 DEF WantedOK
  <2>3. AtOrder => reg[active] # "none"
    BY <2>1, <2>2 DEF AccountOK
  <2>4. AtLoop \/ AtRequest => active = None
    BY <2>1 DEF WantedOK
  <2>5. cancels \in Nat /\ reg \in [Ids -> RegStates] /\ journal \in [Ids -> Events]
    BY <2>1, CancelsAssumption DEF TypeOK
  <2> QED  BY <2>1, <2>2, <2>3, <2>4, <2>5, IdsAssumption
<1>2. CASE Cancelled
  <2>1. CASE active # None /\ pc' = "cancel" /\ UNCHANGED <<active, requestVars, bookVars>>
    BY <1>1, <1>2, <2>1, MovesOn DEF Cancelled, Suspended
  <2>2. CASE active = None /\ HandOver(None, reg, journal) /\ uncertain' = (uncertain \/ Placing)
    <3>1. /\ ~Over /\ ~shielded /\ UNCHANGED <<order, shielded>> /\ cancels' = cancels + 1
          /\ AtRequest => uncertain'
      BY <1>2, <2>2 DEF Cancelled, Suspended, LeftInv, KnownInv, Placing
    <3>2. \A o \in Unreported(None) : reg[o] # "none"
      BY <1>1 DEF Unreported
    <3>3. ~lost => \A o \in Ids : Linked(reg[o], journal[o])  BY DEF LeftInv, KnownInv
    <3>4. cancels' <= 1 =>
            \A o \in Ids \ Unreported(None) :
               reg[o] = "final" => order[o].st \notin Live /\ order[o].done = 0
      BY <1>1, <3>1, Heard
    <3> QED  BY <1>1, <2>2, <3>1, <3>2, <3>3, <3>4, HandOverKeepsLeft
  <2> QED  BY <1>2, <2>1, <2>2 DEF Cancelled
<1>3. CASE SettledLate
  <2> DEFINE states == [reg EXCEPT ![active] = "final"]
             events == [journal EXCEPT ![active] = "final"]
  <2>1. PICK f \in FinalFills(active) : HandOver(IF f = 0 THEN None ELSE active, states, events)
    BY <1>3 DEF SettledLate
  <2> DEFINE x == IF f = 0 THEN None ELSE active
  <2>2. /\ AtOrder /\ ~Over /\ ~AtRequest /\ ~shielded
        /\ UNCHANGED <<order, shielded, cancels, uncertain>>
    BY <1>3 DEF SettledLate, LeftInv, KnownInv
  <2>3. order[active].st \notin Live /\ f \in {Unknown, order[active].done}
    BY <1>1, <2>2, FinalFillsAreExact DEF Live
  <2>4. /\ states \in [Ids -> RegStates] /\ active \in Ids
        /\ \A o \in Ids : /\ states[o] = IF o = active THEN "final" ELSE reg[o]
                          /\ events[o] = IF o = active THEN "final" ELSE journal[o]
    <3>1. active \in Ids /\ "final" \in RegStates  BY <1>1, <2>2 DEF RegStates
    <3>2. states \in [Ids -> RegStates]  BY <1>1, <3>1
    <3>3. \A o \in Ids : states[o] = IF o = active THEN "final" ELSE reg[o]
      BY <1>1, <3>1
    <3>4. \A o \in Ids : events[o] = IF o = active THEN "final" ELSE journal[o]
      BY <1>1, <3>1
    <3> QED  BY <3>1, <3>2, <3>3, <3>4
  <2> HIDE DEF states, events
  <2>5. \A o \in Ids : states[o] = "none" <=> reg[o] = "none"
    BY <1>1, <2>2, <2>4
  <2>6. \A o \in Unreported(x) : states[o] # "none"
    BY <1>1, <2>4 DEF Unreported
  <2>7. ~lost => \A o \in Ids : Linked(states[o], events[o])
    <3>1. Linked("final", "final")  BY DEF Linked
    <3>2. ~lost => \A o \in Ids : Linked(reg[o], journal[o])  BY DEF LeftInv, KnownInv
    <3> QED  BY <2>4, <3>1, <3>2
  <2>8. ASSUME cancels' <= 1, NEW o \in Ids \ Unreported(x), states[o] = "final"
        PROVE  order[o].st \notin Live /\ order[o].done = 0
    <3>1. CASE o = active
      <4>1. f = 0  BY <3>1, <2>8 DEF Unreported
      <4> QED  BY <2>3, <3>1, <4>1 DEF Unknown
    <3>2. CASE o # active
      BY <2>2, <2>4, <2>8, <3>2, Heard
    <3> QED  BY <3>1, <3>2
  <2> HIDE DEF x
  <2>9. HandOver(x, states, events)  BY <2>1 DEF x
  <2> QED  BY <2>2, <2>4, <2>5, <2>6, <2>7, <2>8, <2>9, HandOverKeepsLeft
<1>4. CASE NotSettled
  <2>1. PICK state \in {"working", "stuck"} :
          HandOver(active, [reg EXCEPT ![active] = state], journal)
    BY <1>4 DEF NotSettled
  <2> DEFINE states == [reg EXCEPT ![active] = state]
  <2>2. /\ AtOrder /\ ~Over /\ ~AtRequest /\ ~shielded
        /\ UNCHANGED <<order, shielded, cancels, uncertain>>
    BY <1>4 DEF NotSettled, LeftInv, KnownInv
  <2>4. /\ states \in [Ids -> RegStates] /\ active \in Ids
        /\ \A o \in Ids : states[o] = IF o = active THEN state ELSE reg[o]
    BY <1>1, <2>2 DEF RegStates
  <2>5. \A o \in Ids : states[o] = "none" <=> reg[o] = "none"
    BY <1>1, <2>2, <2>4
  <2>6. \A o \in Unreported(active) : states[o] # "none"
    BY <1>1, <2>4 DEF Unreported
  <2>7. \A o \in Ids \ Unreported(active) :
           o # active /\ (~lost => Linked(states[o], journal[o]))
    BY <2>4 DEF LeftInv, KnownInv, Unreported
  <2>8. cancels' <= 1 =>
          \A o \in Ids \ Unreported(active) :
             states[o] = "final" => order[o].st \notin Live /\ order[o].done = 0
    BY <2>2, <2>4, <2>7, Heard
  <2>9. HandOver(active, states, journal)  BY <2>1
  <2> HIDE DEF states
  <2> QED  BY <2>2, <2>4, <2>5, <2>6, <2>7, <2>8, <2>9, HandOverKeepsLeft
<1>5. CASE CancelledAgain
  <2>1. /\ AtOrder /\ ~Over /\ ~AtRequest /\ cancels' >= 2 /\ ~(cancels' <= 1)
        /\ UNCHANGED <<order, active, uncertain>> /\ HandOver(active, reg, journal)
        /\ pc' = "interrupted" /\ ~handling'
    BY <1>1, <1>5 DEF CancelledAgain, LeftInv, KnownInv, HandOver
  <2>2. \A o \in Ids : /\ ~lost' => Linked(reg'[o], journal'[o])
                       /\ reg'[o] = "none" <=> reg[o] = "none"
    <3> SUFFICES ASSUME NEW o \in Ids
                 PROVE  /\ ~lost' => Linked(reg'[o], journal'[o])
                        /\ reg'[o] = "none" <=> reg[o] = "none"
      OBVIOUS
    <3>1. /\ reg'[o] = IF o \in Unreported(active) /\ reg[o] = "final" THEN "interrupted"
                       ELSE reg[o]
          /\ ~lost' => /\ ~lost
                       /\ journal'[o] = IF o \in Unreported(active) THEN "interrupted"
                                       ELSE journal[o]
      BY <1>1, <2>1, JournalsOrLoses DEF HandOver, TypeInv
    <3>2. (~lost => Linked(reg[o], journal[o])) /\ reg[o] \in RegStates
      BY <1>1 DEF LeftInv, KnownInv
    <3>3. o \in Unreported(active) => reg[o] # "none"
      BY <1>1, <2>1 DEF Unreported
    <3> QED  BY <3>1, <3>2, <3>3 DEF Linked, RegStates
  <2>3. KnownInv'  BY <1>1, <2>1, <2>2 DEF LeftInv, KnownInv
  <2> QED  BY <2>1, <2>3 DEF ToldInv
<1>6. CASE ShieldedEnds
  <2>1. /\ cancels >= 2 /\ pc = "interrupted" /\ active \in Ids /\ order[active].st # "absent"
        /\ UNCHANGED <<order, uncertain, pc, flight, handling, cancels, active>> /\ ~shielded'
    BY <1>6 DEF ShieldedEnds, LeftInv, KnownInv
  <2>2. reg[active] = "none" => uncertain
    BY <2>1 DEF LeftInv, KnownInv
  <2>3. \A o \in Ids : /\ ~lost' => Linked(reg'[o], journal'[o])
                       /\ reg'[o] = "none" => reg[o] = "none"
    <3>1. ASSUME NEW s \in {"final", "stuck"}, reg' = [reg EXCEPT ![active] = s],
                 Journals([journal EXCEPT ![active] = s]), NEW o \in Ids
          PROVE  (~lost' => Linked(reg'[o], journal'[o])) /\ (reg'[o] = "none" => reg[o] = "none")
      <4>1. ~lost' => ~lost /\ journal' = [journal EXCEPT ![active] = s]
        BY <1>1, <3>1, JournalsOrLoses DEF TypeInv
      <4>2. Linked(s, s)  BY DEF Linked
      <4>3. reg'[o] = IF o = active THEN s ELSE reg[o]  BY <1>1, <2>1, <3>1
      <4>4. ~lost' => journal'[o] = IF o = active THEN s ELSE journal[o]
        BY <1>1, <2>1, <4>1
      <4> QED  BY <4>1, <4>2, <4>3, <4>4 DEF LeftInv, KnownInv
    <3>2. CASE UNCHANGED <<reg, journal, lost>>  BY <3>2 DEF LeftInv, KnownInv
    <3> QED  BY <1>6, <3>1, <3>2 DEF ShieldedEnds
  <2>4. \A o \in Ids : order[o].st = "absent" => reg'[o] = "none"
    BY <1>1, <1>6, <2>1 DEF ShieldedEnds, LeftInv, KnownInv
  <2>5. KnownInv'  BY <2>1, <2>3, <2>4 DEF LeftInv, KnownInv
  <2> QED  BY <1>1, <2>1, <2>5 DEF ToldInv
<1>7. CASE WorkerError
  <2>1. CASE active = None
    <3>1. ~lost' => ~lost /\ journal' = journal
      BY <1>1, <1>7, <2>1, JournalsOrLoses DEF WorkerError, TypeInv
    <3> QED  BY <1>1, <1>7, <2>1, <3>1, MovesOn DEF WorkerError, Placing, Suspended
  <2>2. CASE active # None
    <3>1. AtOrder  BY <1>1, <1>7, <2>2 DEF WorkerError, Suspended
    <3>2. Linked("stuck", "stuck")  BY DEF Linked
    <3>3. /\ reg' = [reg EXCEPT ![active] = "stuck"]
          /\ Journals([journal EXCEPT ![active] = "stuck"])
          /\ UNCHANGED <<order, shielded, cancels, handling, rep>>
          /\ uncertain => uncertain'
          /\ pc' = "done"
      BY <1>7, <2>2 DEF WorkerError
    <3> QED  BY <3>1, <3>2, <3>3, EntersEnd
  <2> QED  BY <2>1, <2>2
<1>8. CASE Crash
  <2>1. UNCHANGED <<order, pc, flight, unconf, handling, shielded, cancels, active, bookVars>>
    BY <1>8 DEF Crash
  <2> QED  BY <2>1 DEF LeftInv, KnownInv, ToldInv, Told
<1> QED  BY <1>2, <1>3, <1>4, <1>5, <1>6, <1>7, <1>8 DEF Interruption

\* Every step keeps the strengthened invariant.
LEMMA LeftNext == ASSUME Alone, LeftInv, [Next]_vars PROVE LeftInv'
<1>1. Inv'  BY AccountNext DEF LeftInv
<1>2. KnownInv' /\ ToldInv'
  <2>1. ASSUME UNCHANGED vars PROVE KnownInv' /\ ToldInv'
    BY <2>1 DEF LeftInv, KnownInv, ToldInv, Told, AtRequest, vars, brokerVars, runVars,
                loopVars, requestVars, endVars, watchVars, stopVars, bookVars
  <2>2. ASSUME Next PROVE KnownInv' /\ ToldInv'
    BY <2>2, EnvironmentKeepsLeft, PlacementKeepsLeft, ReconciliationKeepsLeft,
       WatchingKeepsLeft, InterruptionKeepsLeft DEF Next
  <2> QED  BY <2>1, <2>2
<1> QED  BY <1>1, <1>2 DEF LeftInv

\* So it always holds.
LEMMA LeftCorrect == ASSUME Alone PROVE Spec => []LeftInv
<1>1. Init => LeftInv
  BY TypeInit, AccountInit, LeftInit DEF Inv, LeftInv
<1>2. LeftInv /\ [Next]_vars => LeftInv'
  BY LeftNext
<1> QED BY <1>1, <1>2, PTL DEF Spec

\* When the call is over, up to a second CancelledError, each of its orders that still works,
\* or traded more than its caller was told, is where a resync or CLOSING finds it
THEOREM NothingIsForgotten == ASSUME Alone PROVE Spec => []NothingForgotten
<1>1. ASSUME LeftInv, NEW o \in AtBroker, alive, cancels <= 1, Over,
             order[o].st \in Live \/ order[o].done > Told(o)
      PROVE  \/ reg[o] \in {"working", "stuck", "interrupted"}
                  /\ (lost \/ journal[o] \in {"placed", "stuck", "interrupted"})
             \/ reg[o] = "none" /\ uncertain
             \/ reg[o] = "final" /\ pc = "done" /\ unconf
  <2>1. /\ o \in Ids /\ order[o].st # "absent" /\ reg[o] \in RegStates
        /\ order[o].done \in Int /\ rep[o] \in Int
    BY <1>1, TargetAssumption
       DEF LeftInv, Inv, TypeInv, TypeOK, OrdersOK, OrderOK, AtBroker, Mine, Orders, Qty
  <2>2. CASE reg[o] = "none"
    BY <1>1, <2>1, <2>2 DEF LeftInv, KnownInv, AtRequest, Over
  <2>3. CASE reg[o] \in {"working", "stuck", "interrupted"}
    BY <2>1, <2>3, <1>1 DEF LeftInv, KnownInv, Linked
  <2>4. CASE reg[o] = "final"
    BY <1>1, <2>1, <2>4 DEF LeftInv, ToldInv, Told
  <2> QED  BY <2>1, <2>2, <2>3, <2>4 DEF RegStates
<1>2. LeftInv => NothingForgotten
  BY <1>1 DEF NothingForgotten, Kept, Over
<1> QED BY <1>2, LeftCorrect, PTL

\* A kill at any await but those of the placement finds each order of the call journalled,
\* if all lines of the journal were written
THEOREM JournalKnows == ASSUME Alone PROVE Spec => []JournalKnowsOrders
<1>1. ASSUME LeftInv PROVE JournalKnowsOrders
  <2>1. \A o \in AtBroker : o \in Ids /\ order[o].st # "absent"
    BY <1>1 DEF LeftInv, Inv, TypeInv, OrdersOK, OrderOK, AtBroker, Mine
  <2> QED  BY <1>1, <2>1 DEF LeftInv, KnownInv, Linked, AtRequest, JournalKnowsOrders
<1> QED BY <1>1, LeftCorrect, PTL

=============================================================================
