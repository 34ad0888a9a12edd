------------------------------ MODULE Gate_proofs ------------------------------
(***************************************************************************)
(* Proofs about Gate, for any cache time, read time and limits: a halt and *)
(* a resume reach a process within the cache time and one read, the loss   *)
(* limit misses no P&L the process was given and counts none twice, and an *)
(* order refused for the rate passes it after the time it was told to      *)
(* wait, and not before.                                                   *)
(***************************************************************************)
EXTENDS Gate, SequenceTheorems, WellFoundedInduction, TLAPS

USE TicksAssumption, LimitsAssumption

-----------------------------------------------------------------------------
(* The invariant. *)

HaltType ==
    /\ file \in BOOLEAN /\ row \in BOOLEAN
    /\ cache \in [status : {"none", "halted", "active"}, age : 0 .. CacheTicks]
    /\ reading \in [found : {"none", "noFile", "halted", "active"}, age : 0 .. ReadTicks]
    /\ last \in [Signs -> 0 .. Late]

\* What holds now was last true now
NowInv == \A s \in Signs : Holds(file, row)[s] => last[s] = 0

\* What a status under way has found was true since it began
ReadingInv ==
    /\ reading.found \in {"noFile", "active"} => last["noFile"] <= reading.age
    /\ reading.found = "active" => last["noRow"] <= reading.age
    /\ reading.found = "halted" => last["halted"] <= reading.age

\* What is cached was true at most one read before it was cached
CacheInv ==
    /\ cache.status = "active" => /\ last["noFile"] <= cache.age + ReadTicks
                                  /\ last["noRow"] <= cache.age + ReadTicks
    /\ cache.status = "halted" => last["halted"] <= cache.age + ReadTicks

HInv == HaltType /\ NowInv /\ ReadingInv /\ CacheInv

-----------------------------------------------------------------------------
(* Seeing, forgetting and ageing. *)

\* What is seen to hold was last true now; nothing else gets older by being looked at
LEMMA SeesFresh ==
  ASSUME last \in [Signs -> 0 .. Late], NEW f \in BOOLEAN, NEW r \in BOOLEAN, Sees(f, r)
  PROVE  /\ last' \in [Signs -> 0 .. Late]
         /\ \A s \in Signs : last'[s] <= last[s]
         /\ \A s \in Signs : Holds(f, r)[s] => last'[s] = 0
BY DEF Sees, Late

\* With nothing read, nothing is stale.
LEMMA HaltInit == Init => HInv
<1> SUFFICES ASSUME Init PROVE HInv  OBVIOUS
<1>1. Late \in Nat  BY DEF Late
<1>2. HaltType
  <2>1. last \in [Signs -> 0 .. Late]  BY <1>1 DEF Init
  <2>2. /\ cache \in [status : {"none", "halted", "active"}, age : 0 .. CacheTicks]
        /\ reading \in [found : {"none", "noFile", "halted", "active"}, age : 0 .. ReadTicks]
    BY DEF Init, NoCache, NotReading
  <2> QED  BY <2>1, <2>2 DEF Init, HaltType
<1>3. NowInv
  <2> SUFFICES ASSUME NEW s \in Signs, Holds(file, row)[s] PROVE last[s] = 0
    BY DEF NowInv
  <2>1. s # "halted"
    <3>1. ~file /\ ~row  BY DEF Init
    <3>2. ~Holds(file, row)["halted"]  BY <3>1 DEF Holds
    <3> QED  BY <3>2
  <2>2. last = [t \in Signs |-> IF t = "halted" THEN Late ELSE 0]  BY DEF Init
  <2> QED  BY <2>1, <2>2
<1>4. ReadingInv /\ CacheInv  BY DEF Init, ReadingInv, CacheInv, NoCache, NotReading
<1> QED  BY <1>2, <1>3, <1>4 DEF HInv

\* A step that leaves the reading and the cache, or forgets the cache, and only sees more
LEMMA SwitchStep ==
  ASSUME HInv, NEW o \in Operators, Begins(o) \/ OnFile(o) \/ OnRow(o)
  PROVE  HInv'
<1> USE DEF HInv, HaltType
<1>1. CASE Begins(o)
  BY <1>1 DEF Begins, procVars, NowInv, ReadingInv, CacheInv
<1>2. CASE OnFile(o)
  <2>1. file' \in BOOLEAN /\ UNCHANGED <<row, cache, reading>>
    BY <1>2 DEF OnFile, procVars
  <2>2. /\ last' \in [Signs -> 0 .. Late]
        /\ \A s \in Signs : last'[s] <= last[s]
        /\ \A s \in Signs : Holds(file', row)[s] => last'[s] = 0
    BY <1>2, <2>1, SeesFresh DEF OnFile
  <2>3. HaltType' /\ NowInv'  BY <2>1, <2>2 DEF NowInv
  <2>4. ReadingInv' /\ CacheInv'
    BY <2>1, <2>2 DEF ReadingInv, CacheInv, Signs, Late
  <2> QED  BY <2>3, <2>4
<1>3. CASE OnRow(o)
  <2>1. /\ row' \in BOOLEAN /\ UNCHANGED <<file, reading>>
        /\ cache' \in {NoCache, cache}
    BY <1>3 DEF OnRow, Forgotten
  <2>2. /\ last' \in [Signs -> 0 .. Late]
        /\ \A s \in Signs : last'[s] <= last[s]
        /\ \A s \in Signs : Holds(file, row')[s] => last'[s] = 0
    BY <1>3, <2>1, SeesFresh DEF OnRow
  <2>3. HaltType' /\ NowInv'  BY <2>1, <2>2 DEF NowInv, NoCache
  <2>4. ReadingInv' /\ CacheInv'
    BY <2>1, <2>2 DEF ReadingInv, CacheInv, Signs, Late, NoCache
  <2> QED  BY <2>3, <2>4
<1> QED  BY <1>1, <1>2, <1>3

\* A read takes what is true now, and what it found ages with it.
LEMMA ReadStep ==
  ASSUME HInv, FileRead \/ RowRead \/ ReadEnds
  PROVE  HInv'
<1> USE DEF HInv, HaltType
<1>1. CASE FileRead
  <2>1. UNCHANGED <<file, row, cache, last>>
        /\ reading' = [found |-> IF file THEN "halted" ELSE "noFile", age |-> 0]
    BY <1>1 DEF FileRead, switchVars
  <2>2. file => last["halted"] = 0
    BY DEF NowInv, Holds, Signs
  <2>3. ~file => last["noFile"] = 0
    BY DEF NowInv, Holds, Signs
  <2> QED  BY <2>1, <2>2, <2>3 DEF NowInv, ReadingInv, CacheInv
<1>2. CASE RowRead
  <2>1. PICK r \in {row, FALSE} :
          /\ reading' = [reading EXCEPT !.found = IF r THEN "halted" ELSE "active"]
          /\ Sees(file, r)
    BY <1>2 DEF RowRead
  <2>2. UNCHANGED <<file, row, cache>> /\ reading.found = "noFile" /\ r \in BOOLEAN
    BY <1>2, <2>1 DEF RowRead, switchVars
  <2>3. /\ last' \in [Signs -> 0 .. Late]
        /\ \A s \in Signs : last'[s] <= last[s]
        /\ \A s \in Signs : Holds(file, r)[s] => last'[s] = 0
    BY <2>1, <2>2, SeesFresh
  <2>4. \A s \in Signs : last[s] \in 0 .. Late /\ last'[s] \in 0 .. Late
    BY <2>3
  <2>5. HaltType'  BY <2>1, <2>2, <2>3
  <2>6. NowInv'  BY <2>2, <2>3, <2>4 DEF NowInv, Late
  <2>7. r => last'["halted"] = 0  BY <2>3 DEF Holds, Signs
  <2>8. ~r => last'["noRow"] = 0  BY <2>3 DEF Holds, Signs
  <2>9. last'["noFile"] <= last["noFile"] /\ last["noFile"] <= reading.age
    BY <2>2, <2>3 DEF ReadingInv, Signs
  <2>10. ReadingInv'
    BY <2>1, <2>2, <2>4, <2>7, <2>8, <2>9 DEF ReadingInv, Signs, Late
  <2>11. CacheInv'
    BY <2>2, <2>3, <2>4 DEF CacheInv, Signs, Late
  <2> QED  BY <2>5, <2>6, <2>10, <2>11
<1>3. CASE ReadEnds
  <2>1. /\ UNCHANGED <<file, row, last>> /\ reading.found \in {"halted", "active"}
        /\ cache' = [status |-> reading.found, age |-> 0] /\ reading' = NotReading
    BY <1>3 DEF ReadEnds, switchVars
  <2>2. HaltType' /\ NowInv' /\ ReadingInv'
    BY <2>1 DEF NowInv, ReadingInv, NotReading
  <2>3. CacheInv'
    BY <2>1 DEF ReadingInv, CacheInv, Signs, Late
  <2> QED  BY <2>2, <2>3
<1> QED  BY <1>1, <1>2, <1>3

\* A tick ages the cache, the read and the signs alike.
LEMMA TickStep ==
  ASSUME HInv, Tick
  PROVE  HInv'
<1> USE DEF HInv, HaltType
<1>1. /\ UNCHANGED <<file, row>>
      /\ reading # NotReading => reading.age < ReadTicks
      /\ reading' = IF reading = NotReading THEN reading ELSE [reading EXCEPT !.age = @ + 1]
      /\ cache' = [cache EXCEPT !.age = IF cache.status = "none" THEN 0
                                        ELSE Older(cache.age, CacheTicks)]
      /\ last' = [s \in Signs |-> IF Holds(file, row)[s] THEN 0 ELSE Older(last[s], Late)]
  BY DEF Tick, switchVars
<1>2. /\ \A s \in Signs : /\ last[s] \in 0 .. Late
                          /\ last'[s] \in 0 .. Late /\ last'[s] <= last[s] + 1
                          /\ Holds(file, row)[s] => last'[s] = 0
      /\ last' \in [Signs -> 0 .. Late]
  BY <1>1 DEF Older, Late
<1>3. /\ reading' \in [found : {"none", "noFile", "halted", "active"}, age : 0 .. ReadTicks]
      /\ reading'.found = reading.found
      /\ reading.found # "none" => reading'.age = reading.age + 1
  BY <1>1 DEF NotReading
<1>4. /\ cache' \in [status : {"none", "halted", "active"}, age : 0 .. CacheTicks]
      /\ cache'.status = cache.status
      /\ cache.status # "none" => \/ cache'.age = cache.age + 1
                                  \/ cache'.age = CacheTicks
  BY <1>1 DEF Older
<1>5. HaltType'  BY <1>1, <1>2, <1>3, <1>4
<1>6. NowInv'  BY <1>1, <1>2 DEF NowInv
<1>7. ReadingInv'
  BY <1>2, <1>3 DEF ReadingInv, Signs, Late
<1>8. CacheInv'
  BY <1>2, <1>4 DEF CacheInv, Signs, Late
<1> QED  BY <1>5, <1>6, <1>7, <1>8

\* Every step keeps the ages together.
LEMMA HaltStep == HInv /\ [Next]_vars => HInv'
<1> SUFFICES ASSUME HInv, [Next]_vars PROVE HInv'  OBVIOUS
<1> DEFINE Same == UNCHANGED <<file, row, cache, reading, last>>
<1>1. CASE Switch  BY <1>1, SwitchStep DEF Switch
<1>2. CASE FileRead \/ RowRead \/ ReadEnds  BY <1>2, ReadStep
<1>3. CASE Tick  BY <1>3, TickStep
<1>4. Same => HInv'
  BY DEF HInv, HaltType, NowInv, ReadingInv, CacheInv
<1>5. CASE BuyPasses \/ SellFills
  <2>1. Same  BY <1>5 DEF BuyPasses, SellFills, switchVars
  <2> QED  BY <2>1, <1>4
<1>6. CASE Books \/ OtherBooks \/ Starts
  <2>1. Same  BY <1>6 DEF Books, OtherBooks, Starts, switchVars, procVars
  <2> QED  BY <2>1, <1>4
<1>7. CASE Ends
  BY <1>7 DEF Ends, HInv, HaltType, NowInv, ReadingInv, CacheInv, NoCache, NotReading
<1>8. CASE UNCHANGED vars
  <2>1. Same  BY <1>8 DEF vars, switchVars, procVars
  <2> QED  BY <2>1, <1>4
<1> QED  BY <1>1, <1>2, <1>3, <1>5, <1>6, <1>7, <1>8 DEF Next

-----------------------------------------------------------------------------
(* The theorems. *)

\* What the file and the row say, halted or not, reaches every process within the cache time
\* and the time of one read, however halts and resumes overlap (kill_switch.status,
\* _check_trading_halt)
THEOREM HaltCurrent == Spec => []HaltIsCurrent
<1>1. HInv => HaltIsCurrent
  <2> SUFFICES ASSUME HInv PROVE HaltIsCurrent  OBVIOUS
  <2>1. \A s \in Signs : last[s] \in 0 .. Late  BY DEF HInv, HaltType
  <2>2. cache.age \in 0 .. CacheTicks  BY DEF HInv, HaltType
  <2> QED
    BY <2>1, <2>2 DEF HInv, CacheInv, HaltIsCurrent, HaltAllows, HaltRefuses, Fresh, Signs,
       Late
<1> QED  BY HaltInit, HaltStep, <1>1, PTL DEF Spec

\* The total the rule tests is the day's P&L, booked or not, less what was not given it
PnlInv ==
    /\ booked \in Int /\ unbooked \in Int /\ unseen \in Int
    /\ ~up => unbooked = 0
    /\ up => dayPnl = booked + unbooked - unseen

\* Every step keeps the account: it moves P&L, or adds it on both sides.
LEMMA PnlStep == PnlInv /\ [Next]_vars => PnlInv'
<1> SUFFICES ASSUME PnlInv, [Next]_vars PROVE PnlInv'  OBVIOUS
<1> USE DEF PnlInv
<1> DEFINE Same == UNCHANGED <<booked, up, dayPnl, unbooked, unseen>>
<1>1. Same => PnlInv'  OBVIOUS
<1>2. CASE Switch
  <2>1. Same  BY <1>2 DEF Switch, Begins, OnFile, OnRow, procVars
  <2> QED  BY <2>1, <1>1
<1>3. CASE FileRead \/ RowRead \/ ReadEnds \/ BuyPasses \/ Tick
  <2>1. Same  BY <1>3 DEF FileRead, RowRead, ReadEnds, BuyPasses, Tick
  <2> QED  BY <2>1, <1>1
<1>4. CASE SellFills  BY <1>4 DEF SellFills, Free, Recorded
<1>5. CASE Books  BY <1>5 DEF Books
<1>6. CASE OtherBooks  BY <1>6 DEF OtherBooks
<1>7. CASE Starts  BY <1>7 DEF Starts, Seeded
<1>8. CASE Ends  BY <1>8 DEF Ends
<1>9. CASE UNCHANGED vars
  <2>1. Same  BY <1>9 DEF vars, procVars
  <2> QED  BY <2>1, <1>1
<1> QED  BY <1>2, <1>3, <1>4, <1>5, <1>6, <1>7, <1>8, <1>9 DEF Next

\* The loss limit misses no P&L but what the process was never given, and counts none twice,
\* over any sales, bookings, deaths and restarts (seed_safety_checker, record_pnl)
THEOREM LossesSurvive == Spec => LossesStop
<1>1. Init => PnlInv  BY DEF Init, PnlInv
<1>2. PnlInv /\ [Next]_vars => [BuyPasses => booked + unbooked - unseen > -LossLimit]_vars
  BY DEF PnlInv, BuyPasses, HaltAllows, Free, LossAllows
<1>3. Spec => [][BuyPasses => booked + unbooked - unseen > -LossLimit]_vars
  BY <1>1, <1>2, PnlStep, PTL DEF Spec
<1> QED  BY <1>3 DEF LossesStop

-----------------------------------------------------------------------------
(* The order rate.  _check_order_rate keeps the time stamps of the last minute; what it  *)
(* keeps of the first n is Kept[n] of Within, known by induction over n.                *)

Ages == 0 .. Minute - 1

\* Oldest first
Sorted(q) == \A i, j \in 1 .. Len(q) : i <= j => q[i] >= q[j]

\* Of any numbers there is a smallest: induction without an operator as a parameter
LEMMA SmallestNumber ==
  ASSUME NEW C \in SUBSET Nat, C # {}
  PROVE  \E m \in C : \A k \in C : m <= k
<1>1. PICK m \in C : \A k \in C : ~ (<<k, m>> \in OpToRel(<, Nat))
  BY NatLessThanWellFounded, WFMin
<1>2. ASSUME NEW k \in C, k < m PROVE FALSE
  <2>1. <<k, m>> \in Nat \X Nat /\ <<k, m>>[1] < <<k, m>>[2]  BY <1>2
  <2>2. <<k, m>> \in OpToRel(<, Nat)  BY <2>1 DEF OpToRel
  <2> QED  BY <1>1, <2>2
<1>3. \A k \in C : k \in Nat /\ m \in Nat  OBVIOUS
<1> QED  BY <1>2, <1>3

\* What is kept of n orders, from what is kept of those before
Keeping(w, n, kept) == IF orders[n] + w < Minute THEN Append(kept, orders[n]) ELSE kept
Keeps(w, n, f) == f = [k \in 0 .. n |-> IF k = 0 THEN <<>> ELSE Keeping(w, k, f[k - 1])]

\* What is within the minute, by the function of what is kept
LEMMA WithinKept ==
  ASSUME NEW w
  PROVE  Within(w) = (CHOOSE f : Keeps(w, Len(orders), f))[Len(orders)]
BY DEF Within, Keeps, Keeping

\* There is such a function, for any number of orders
LEMMA KeepsExist == ASSUME NEW w, NEW n \in Nat PROVE \E f : Keeps(w, n, f)
<1> DEFINE C == {k \in Nat : ~ \E f : Keeps(w, k, f)}
<1> SUFFICES ASSUME C # {} PROVE FALSE  OBVIOUS
<1>1. PICK m \in C : \A k \in C : m <= k
  <2> HIDE DEF C
  <2>1. C \in SUBSET Nat  BY DEF C
  <2> QED  BY <2>1, SmallestNumber
<1>2. m \in Nat /\ ~ \E f : Keeps(w, m, f)  OBVIOUS
<1>3. CASE m = 0
  <2> DEFINE f == [k \in 0 .. 0 |-> <<>>]
  <2>1. f = [k \in 0 .. m |-> IF k = 0 THEN <<>> ELSE Keeping(w, k, f[k - 1])]
    BY <1>3
  <2> HIDE DEF f
  <2>2. Keeps(w, m, f)  BY <2>1 DEF Keeps
  <2> QED  BY <1>2, <2>2
<1>4. CASE m > 0
  <2>1. m - 1 \in Nat /\ m - 1 \notin C
    <3>1. m - 1 \in Nat /\ ~(m <= m - 1)  BY <1>2, <1>4
    <3> HIDE DEF C
    <3> QED  BY <1>1, <3>1
  <2>2. PICK g : Keeps(w, m - 1, g)  BY <2>1
  <2> DEFINE f == [k \in 0 .. m |-> IF k = m THEN Keeping(w, m, g[m - 1]) ELSE g[k]]
  <2>3. \A k \in 0 .. m - 1 :
           f[k] = g[k] /\ g[k] = IF k = 0 THEN <<>> ELSE Keeping(w, k, g[k - 1])
    BY <1>2, <1>4, <2>2 DEF Keeps
  <2>4. f[m] = Keeping(w, m, g[m - 1])  BY <1>2
  <2>5. f = [k \in 0 .. m |-> f[k]]  OBVIOUS
  <2> HIDE DEF f, C
  <2>6. \A k \in 0 .. m : f[k] = IF k = 0 THEN <<>> ELSE Keeping(w, k, f[k - 1])
    <3> SUFFICES ASSUME NEW k \in 0 .. m
                 PROVE  f[k] = IF k = 0 THEN <<>> ELSE Keeping(w, k, f[k - 1])
      OBVIOUS
    <3>1. CASE k = m
      <4>1. m - 1 \in 0 .. m - 1  BY <1>2, <1>4
      <4>2. f[m - 1] = g[m - 1]  BY <2>3, <4>1
      <4> QED  BY <1>4, <2>4, <3>1, <4>2
    <3>2. CASE k # m /\ k # 0
      <4>1. k \in 0 .. m - 1 /\ k - 1 \in 0 .. m - 1  BY <1>2, <3>2
      <4> QED  BY <2>3, <3>2, <4>1
    <3>3. CASE k = 0 /\ k # m
      <4>1. k \in 0 .. m - 1  BY <1>2, <3>3
      <4> QED  BY <2>3, <3>3, <4>1
    <3> QED  BY <1>4, <3>1, <3>2, <3>3
  <2>7. Keeps(w, m, f)  BY <2>5, <2>6 DEF Keeps
  <2> QED  BY <1>2, <2>7
<1> QED  BY <1>2, <1>3, <1>4

\* What is kept of the first n orders: ages still within the minute, oldest first, none
\* younger than an order yet to be looked at; and all of them, if all are within it
KeptOf(w, n, q) ==
    /\ q \in Seq(Ages) /\ Len(q) <= n /\ Sorted(q)
    /\ \A i \in 1 .. Len(q) : q[i] + w < Minute
    /\ \A i \in 1 .. Len(q) : \A m \in n .. Len(orders) : m >= 1 => q[i] >= orders[m]
    /\ Len(q) = n <=> \A i \in 1 .. n : orders[i] + w < Minute

\* One more order is looked at.
LEMMA KeepingIs ==
  ASSUME orders \in Seq(Ages), Sorted(orders), NEW w \in Nat, NEW n \in 1 .. Len(orders),
         NEW q, KeptOf(w, n - 1, q)
  PROVE  KeptOf(w, n, Keeping(w, n, q))
<1>1. /\ q \in Seq(Ages) /\ Len(q) \in Nat /\ orders[n] \in Ages /\ Len(orders) \in Nat
      /\ n \in Nat /\ n >= 1 /\ Len(q) <= n - 1
      /\ \A i \in 1 .. Len(q) : q[i] \in Ages /\ q[i] >= orders[n]
  <2>1. q \in Seq(Ages)  BY DEF KeptOf
  <2>2. Len(q) \in Nat /\ Len(orders) \in Nat  BY <2>1, LenProperties
  <2>3. orders[n] \in Ages /\ \A i \in 1 .. Len(q) : q[i] \in Ages
    BY <2>1, ElementOfSeq
  <2>4. n \in (n - 1) .. Len(orders) /\ n >= 1  BY <2>2
  <2> QED  BY <2>1, <2>2, <2>3, <2>4 DEF KeptOf
<1>2. \A m \in n .. Len(orders) : orders[m] \in Ages /\ orders[n] >= orders[m]
  <2>1. \A m \in n .. Len(orders) : m \in 1 .. Len(orders)  BY <1>1
  <2> QED  BY <2>1, ElementOfSeq DEF Sorted
<1>3. \A i \in 1 .. Len(q) : \A m \in n .. Len(orders) : q[i] >= orders[m]
  <2>1. ASSUME NEW i \in 1 .. Len(q), NEW m \in n .. Len(orders) PROVE q[i] >= orders[m]
    <3>1. q[i] \in Ages /\ orders[n] \in Ages /\ orders[m] \in Ages  BY <1>1, <1>2
    <3>2. q[i] >= orders[n] /\ orders[n] >= orders[m]  BY <1>1, <1>2
    <3> QED  BY <3>1, <3>2 DEF Ages
  <2> QED  BY <2>1
<1>4. /\ Sorted(q) /\ \A i \in 1 .. Len(q) : q[i] + w < Minute
      /\ Len(q) = n - 1 <=> \A i \in 1 .. (n - 1) : orders[i] + w < Minute
  BY DEF KeptOf
<1>5. CASE ~(orders[n] + w < Minute)
  <2>1. Keeping(w, n, q) = q  BY <1>5 DEF Keeping
  <2>2. Len(q) <= n /\ Len(q) # n  BY <1>1
  <2>3. ~ \A i \in 1 .. n : orders[i] + w < Minute  BY <1>1, <1>5
  <2> QED  BY <1>1, <1>3, <1>4, <2>1, <2>2, <2>3 DEF KeptOf
<1>6. CASE orders[n] + w < Minute
  <2> DEFINE next == Append(q, orders[n])
  <2>1. Keeping(w, n, q) = next  BY <1>6 DEF Keeping
  <2>2. /\ next \in Seq(Ages) /\ Len(next) = Len(q) + 1
        /\ \A i \in 1 .. Len(q) : next[i] = q[i] /\ next[Len(q) + 1] = orders[n]
    BY <1>1, AppendProperties
  <2>3. next[Len(q) + 1] = orders[n]  BY <1>1, AppendProperties
  <2> HIDE DEF next
  <2>4. \A i \in 1 .. Len(next) : (i \in 1 .. Len(q) /\ next[i] = q[i])
                                   \/ (i = Len(q) + 1 /\ next[i] = orders[n])
    BY <1>1, <2>2, <2>3
  <2>5. Sorted(next)
    <3> SUFFICES ASSUME NEW i \in 1 .. Len(next), NEW j \in 1 .. Len(next), i <= j
                 PROVE  next[i] >= next[j]
      BY DEF Sorted
    <3>1. CASE i \in 1 .. Len(q) /\ j \in 1 .. Len(q)
      BY <1>4, <2>2, <3>1 DEF Sorted
    <3>2. CASE i \in 1 .. Len(q) /\ j = Len(q) + 1
      BY <1>1, <2>2, <2>3, <3>2
    <3>3. CASE i = Len(q) + 1
      <4>1. j = Len(q) + 1  BY <1>1, <2>2, <3>3
      <4> QED  BY <1>1, <2>3, <3>3, <4>1 DEF Ages
    <3> QED  BY <2>4, <3>1, <3>2, <3>3
  <2>6. \A i \in 1 .. Len(next) : next[i] + w < Minute  BY <1>4, <1>6, <2>4
  <2>7. \A i \in 1 .. Len(next) : \A m \in n .. Len(orders) : m >= 1 => next[i] >= orders[m]
    BY <1>2, <1>3, <2>4
  <2>8. Len(next) = n <=> \A i \in 1 .. n : orders[i] + w < Minute
    <3>1. Len(next) = n <=> Len(q) = n - 1  BY <1>1, <2>2
    <3>2. \A i \in 1 .. n : i \in 1 .. (n - 1) \/ i = n  BY <1>1
    <3>3. \A i \in 1 .. (n - 1) : i \in 1 .. n  BY <1>1
    <3> QED  BY <1>4, <1>6, <3>1, <3>2, <3>3
  <2>9. Len(next) <= n  BY <1>1, <2>2
  <2> QED  BY <2>1, <2>2, <2>5, <2>6, <2>7, <2>8, <2>9 DEF KeptOf
<1> QED  BY <1>5, <1>6

\* What is within the minute is what is kept of all orders.
LEMMA WithinIs ==
  ASSUME orders \in Seq(Ages), Sorted(orders), NEW w \in Nat
  PROVE  KeptOf(w, Len(orders), Within(w))
<1> DEFINE N == Len(orders)
<1>1. N \in Nat  BY LenProperties
<1> DEFINE f == CHOOSE g : Keeps(w, N, g)
<1>2. Keeps(w, N, f)  BY <1>1, KeepsExist
<1>3. Within(w) = f[N]  BY WithinKept
<1> HIDE DEF f, N
<1>4. \A k \in 0 .. N : f[k] = IF k = 0 THEN <<>> ELSE Keeping(w, k, f[k - 1])
  BY <1>2 DEF Keeps
<1> DEFINE C == {k \in 0 .. N : ~KeptOf(w, k, f[k])}
<1> SUFFICES ASSUME C # {} PROVE FALSE
  BY <1>1, <1>3 DEF N
<1>5. PICK m \in C : \A k \in C : m <= k
  <2>1. C \in SUBSET Nat  BY <1>1
  <2> HIDE DEF C
  <2> QED  BY <2>1, SmallestNumber
<1>6. m \in 0 .. N /\ ~KeptOf(w, m, f[m])  OBVIOUS
<1>7. CASE m = 0
  <2>1. f[0] = <<>>  BY <1>1, <1>4
  <2>2. <<>> \in Seq(Ages) /\ Len(<<>>) = 0  BY EmptySeq
  <2> QED  BY <1>6, <1>7, <2>1, <2>2 DEF KeptOf, Sorted
<1>8. CASE m > 0
  <2>1. m - 1 \in 0 .. N /\ ~(m <= m - 1) /\ m \in 1 .. N  BY <1>1, <1>6, <1>8
  <2>2. KeptOf(w, m - 1, f[m - 1])  BY <1>5, <2>1
  <2>3. f[m] = Keeping(w, m, f[m - 1])  BY <1>4, <1>6, <1>8
  <2> QED  BY <1>6, <2>1, <2>2, <2>3, KeepingIs DEF N
<1> QED  BY <1>1, <1>6, <1>7, <1>8

\* A halt or a resume under way
Ops == [pc : {"idle", "file", "row"}, here : BOOLEAN, self : BOOLEAN]

\* The rest of the state is well typed, and the orders are in time order
RateInv ==
    /\ op \in [Operators -> Ops]
    /\ booked \in Pnls /\ dayPnl \in Pnls /\ booked + unbooked \in Pnls
    /\ unbooked \in Int /\ unseen \in Int
    /\ up \in BOOLEAN /\ cool \in 0 .. CoolTicks
    /\ Len(orders) \in 0 .. MaxPerMinute /\ orders \in Seq(Ages) /\ Sorted(orders)

\* An order that passes is one of at most the limit.
LEMMA CountedIs ==
  ASSUME RateInv, RateAllows, Counted
  PROVE  Len(orders)' \in 0 .. MaxPerMinute /\ orders' \in Seq(Ages) /\ Sorted(orders')
<1>1. /\ orders \in Seq(Ages) /\ Sorted(orders) /\ Len(orders) \in Nat
      /\ \A i \in 1 .. Len(orders) : orders[i] \in Ages
  BY ElementOfSeq DEF RateInv
<1>2. KeptOf(0, Len(orders), Within(0))  BY <1>1, WithinIs
<1>3. \A i \in 1 .. Len(orders) : orders[i] + 0 < Minute  BY <1>1 DEF Ages
<1>4. Len(orders) < MaxPerMinute  BY <1>2, <1>3 DEF KeptOf, RateAllows
<1>5. /\ orders' \in Seq(Ages) /\ Len(orders') = Len(orders) + 1
      /\ \A i \in 1 .. Len(orders) : orders'[i] = orders[i]
      /\ orders'[Len(orders) + 1] = 0
  <2>1. 0 \in Ages  BY DEF Ages
  <2> QED  BY <1>1, <2>1, AppendProperties DEF Counted
<1>6. Sorted(orders')
  <2> SUFFICES ASSUME NEW i \in 1 .. Len(orders'), NEW j \in 1 .. Len(orders'), i <= j
               PROVE  orders'[i] >= orders'[j]
    BY DEF Sorted
  <2>1. orders'[i] \in Ages  BY <1>5, ElementOfSeq
  <2>2. CASE j = Len(orders) + 1  BY <1>5, <2>1, <2>2 DEF Ages
  <2>3. CASE j # Len(orders) + 1
    <3>1. i \in 1 .. Len(orders) /\ j \in 1 .. Len(orders)  BY <1>1, <1>5, <2>3
    <3> QED  BY <1>1, <1>5, <3>1 DEF Sorted
  <2> QED  BY <2>2, <2>3
<1> QED  BY <1>1, <1>4, <1>5, <1>6

\* Orders get older, and those of the last minute stay.
LEMMA TickOrders ==
  ASSUME RateInv, Tick
  PROVE  Len(orders)' \in 0 .. MaxPerMinute /\ orders' \in Seq(Ages) /\ Sorted(orders')
<1> DEFINE W == Within(1)
<1>1. /\ KeptOf(1, Len(orders), W) /\ Len(orders) \in Nat /\ Len(orders) <= MaxPerMinute
      /\ orders' = [i \in 1 .. Len(W) |-> W[i] + 1]
  <2>1. orders \in Seq(Ages) /\ Sorted(orders) /\ Len(orders) \in 0 .. MaxPerMinute
    BY DEF RateInv
  <2>2. KeptOf(1, Len(orders), W)  BY <2>1, WithinIs
  <2>3. orders' = [i \in 1 .. Len(W) |-> W[i] + 1]  BY DEF Tick
  <2> QED  BY <2>1, <2>2, <2>3
<1> HIDE DEF W
<1>2. W \in Seq(Ages) /\ Len(W) \in Nat /\ Len(W) <= MaxPerMinute /\ Sorted(W)
  <2>1. W \in Seq(Ages) /\ Len(W) <= Len(orders) /\ Sorted(W)  BY <1>1 DEF KeptOf
  <2>2. Len(W) \in Nat  BY <2>1, LenProperties
  <2> QED  BY <1>1, <2>1, <2>2
<1>3. \A i \in 1 .. Len(W) : W[i] \in Ages /\ W[i] + 1 \in Ages
  <2>1. \A i \in 1 .. Len(W) : W[i] \in Ages /\ W[i] + 1 < Minute
    BY <1>1, <1>2, ElementOfSeq DEF KeptOf
  <2> QED  BY <2>1 DEF Ages
<1>4. orders' \in Seq(Ages) /\ Len(orders') = Len(W)
  <2>1. orders' \in [1 .. Len(W) -> Ages]  BY <1>1, <1>3
  <2> QED  BY <1>2, <2>1
<1>5. \A i \in 1 .. Len(W) : orders'[i] = W[i] + 1  BY <1>1
<1>6. Sorted(orders')
  <2> SUFFICES ASSUME NEW i \in 1 .. Len(W), NEW j \in 1 .. Len(W), i <= j
               PROVE  W[i] + 1 >= W[j] + 1
    BY <1>4, <1>5 DEF Sorted
  <2>1. W[i] >= W[j] /\ W[i] \in Ages /\ W[j] \in Ages  BY <1>2, <1>3 DEF Sorted
  <2> QED  BY <2>1 DEF Ages
<1> QED  BY <1>2, <1>4, <1>6

\* Nothing is counted at the start.
LEMMA RateInit == Init => RateInv
<1> SUFFICES ASSUME Init PROVE RateInv  OBVIOUS
<1>1. Len(orders) = 0 /\ orders \in Seq(Ages)  BY EmptySeq DEF Init
<1>2. Sorted(orders)  BY <1>1 DEF Sorted
<1>3. Idle \in Ops  BY DEF Idle, Ops
<1>4. op \in [Operators -> Ops]  BY <1>3 DEF Init
<1>5. /\ booked = 0 /\ dayPnl = 0 /\ unseen = 0 /\ unbooked = 0 /\ up = FALSE /\ cool = 0
      /\ MaxPnl \in Nat /\ MaxPerMinute \in Nat /\ CoolTicks \in Nat
  BY DEF Init
<1>6. /\ booked \in Pnls /\ dayPnl \in Pnls /\ booked + unbooked \in Pnls
      /\ unbooked \in Int /\ unseen \in Int /\ cool \in 0 .. CoolTicks
  <2>1. 0 \in Pnls /\ 0 + 0 = 0 /\ 0 \in 0 .. CoolTicks  BY <1>5 DEF Pnls
  <2> QED  BY <1>5, <2>1
<1>8. up \in BOOLEAN  BY <1>5
<1>7. Len(orders) \in 0 .. MaxPerMinute  BY <1>1, <1>5
<1> QED  BY <1>1, <1>2, <1>4, <1>6, <1>7, <1>8 DEF RateInv

\* Every step keeps it.
LEMMA RateStep == RateInv /\ [Next]_vars => RateInv'
<1> SUFFICES ASSUME RateInv, [Next]_vars PROVE RateInv'  OBVIOUS
<1>1. ASSUME NEW o \in Operators, Begins(o) \/ OnFile(o) \/ OnRow(o) PROVE RateInv'
  <2>1. UNCHANGED <<booked, up, dayPnl, cool, orders, unbooked, unseen>>
    BY <1>1 DEF Begins, OnFile, OnRow, procVars
  <2>2. op' \in [Operators -> Ops]
    <3>1. op \in [Operators -> Ops] /\ op[o] \in Ops  BY DEF RateInv
    <3>2. CASE Begins(o)  BY <3>1, <3>2 DEF Begins, Ops
    <3>3. CASE OnFile(o)
      <4>1. op' = [op EXCEPT ![o] = [op[o] EXCEPT !.pc = "row"]]
        BY <3>1, <3>3 DEF OnFile
      <4>2. [op[o] EXCEPT !.pc = "row"] \in Ops  BY <3>1 DEF Ops
      <4> QED  BY <3>1, <4>1, <4>2
    <3>4. CASE OnRow(o)
      <4>1. Idle \in Ops  BY DEF Idle, Ops
      <4> QED  BY <3>1, <3>4, <4>1 DEF OnRow
    <3> QED  BY <1>1, <3>2, <3>3, <3>4
  <2> QED  BY <2>1, <2>2 DEF RateInv
<1>2. CASE FileRead \/ RowRead \/ ReadEnds \/ UNCHANGED vars
  BY <1>2 DEF FileRead, RowRead, ReadEnds, vars, procVars, switchVars, RateInv
<1>3. CASE BuyPasses
  <2>1. UNCHANGED <<op, booked, up, dayPnl, cool, unbooked, unseen>> /\ RateAllows /\ Counted
    BY <1>3 DEF BuyPasses, switchVars
  <2> QED  BY <2>1, CountedIs DEF RateInv
<1>4. CASE SellFills
  <2>1. UNCHANGED <<op, booked, up>> /\ RateAllows /\ Counted
    BY <1>4 DEF SellFills, switchVars
  <2>2. /\ dayPnl' \in Pnls /\ unbooked' \in Int /\ booked + unbooked' \in Pnls
        /\ unseen' \in Int /\ cool' \in 0 .. CoolTicks
    BY <1>4 DEF SellFills, Recorded, Pnls, RateInv
  <2> QED  BY <2>1, <2>2, CountedIs DEF RateInv
<1>5. CASE Books \/ OtherBooks
  <2>1. UNCHANGED <<op, up, dayPnl, cool, orders>>
    BY <1>5 DEF Books, OtherBooks, switchVars
  <2>2. /\ booked' \in Pnls /\ booked' + unbooked' \in Pnls
        /\ unbooked' \in Int /\ unseen' \in Int
    <3>1. CASE Books  BY <3>1 DEF Books, RateInv, Pnls
    <3>2. CASE OtherBooks  BY <3>2 DEF OtherBooks, RateInv, Pnls
    <3> QED  BY <1>5, <3>1, <3>2
  <2> QED  BY <2>1, <2>2 DEF RateInv
<1>6. CASE Starts
  BY <1>6 DEF Starts, Seeded, RateInv, Pnls, switchVars
<1>7. CASE Ends
  <2>1. Len(orders') = 0 /\ orders' \in Seq(Ages)  BY <1>7, EmptySeq DEF Ends
  <2>2. Sorted(orders')  BY <2>1 DEF Sorted
  <2>3. op' \in [Operators -> Ops]
    <3>1. Idle \in Ops  BY DEF Idle, Ops
    <3> QED  BY <1>7, <3>1 DEF Ends, RateInv
  <2>4. /\ booked' = booked /\ up' = FALSE /\ dayPnl' = 0 /\ cool' = 0 /\ unbooked' = 0
        /\ unseen' = 0
    BY <1>7 DEF Ends
  <2>5. /\ booked' \in Pnls /\ dayPnl' \in Pnls /\ booked' + unbooked' \in Pnls
        /\ unbooked' \in Int /\ unseen' \in Int /\ cool' \in 0 .. CoolTicks
    BY <2>4 DEF RateInv, Pnls
  <2>6. up' \in BOOLEAN  BY <2>4
  <2>7. Len(orders') \in 0 .. MaxPerMinute  BY <2>1
  <2> QED  BY <2>1, <2>2, <2>3, <2>5, <2>6, <2>7 DEF RateInv
<1>8. CASE Tick
  <2>1. UNCHANGED <<op, booked, up, dayPnl, unbooked, unseen>> /\ cool' \in 0 .. CoolTicks
    BY <1>8 DEF Tick, switchVars, RateInv
  <2>2. Len(orders)' \in 0 .. MaxPerMinute /\ orders' \in Seq(Ages) /\ Sorted(orders')
    BY <1>8, TickOrders
  <2> QED  BY <2>1, <2>2 DEF RateInv
<1> QED  BY <1>1, <1>2, <1>3, <1>4, <1>5, <1>6, <1>7, <1>8 DEF Next, Switch

\* What the process and the switch keep is well typed, within the bound on P&L
THEOREM TypeCorrect == Spec => []TypeOK
<1>1. Init => HInv /\ RateInv  BY HaltInit, RateInit
<1>2. HInv /\ RateInv /\ [Next]_vars => (HInv /\ RateInv)'  BY HaltStep, RateStep
<1>3. HInv /\ RateInv => TypeOK  BY DEF HInv, HaltType, RateInv, Ages, Ops, TypeOK
<1> QED  BY <1>1, <1>2, <1>3, PTL DEF Spec

\* An order refused for the rate passes it after the time order_rate_wait_s gives, and not
\* before (_check_order_rate, order_rate_wait_s)
THEOREM WaitExact == Spec => []WaitIsExact
<1>1. RateInv => WaitIsExact
  <2> SUFFICES ASSUME RateInv, NEW w \in 0 .. Minute
               PROVE  Len(Within(w)) < MaxPerMinute <=> w >= RateWait
    BY DEF WaitIsExact
  <2> DEFINE W == Within(w)
             N == Len(orders)
  <2>1. /\ orders \in Seq(Ages) /\ Sorted(orders) /\ N \in 0 .. MaxPerMinute
        /\ \A i \in 1 .. N : orders[i] \in Ages
    BY ElementOfSeq DEF RateInv
  <2>2. /\ Len(W) <= N /\ Len(W) \in Nat
        /\ Len(W) = N <=> \A i \in 1 .. N : orders[i] + w < Minute
    <3>1. KeptOf(w, N, W)  BY <2>1, WithinIs
    <3> HIDE DEF W, N
    <3>2. W \in Seq(Ages)  BY <3>1 DEF KeptOf
    <3>3. Len(W) \in Nat  BY <3>2, LenProperties
    <3> QED  BY <3>1, <3>3 DEF KeptOf
  <2> HIDE DEF W
  <2>3. CASE N < MaxPerMinute
    BY <2>1, <2>2, <2>3 DEF RateWait, W
  <2>4. CASE N = MaxPerMinute
    <3>1. RateWait = Minute - orders[1]  BY <2>4 DEF RateWait
    <3>2. (\A i \in 1 .. N : orders[i] + w < Minute) <=> orders[1] + w < Minute
      <4>1. 1 \in 1 .. N  BY <2>4
      <4>2. \A i \in 1 .. N : orders[1] >= orders[i]  BY <2>1, <4>1 DEF Sorted
      <4> QED  BY <2>1, <4>1, <4>2 DEF Ages
    <3>3. orders[1] \in Ages  BY <2>1, <2>4
    <3> QED  BY <2>2, <2>4, <3>1, <3>2, <3>3 DEF Ages, W
  <2> QED  BY <2>1, <2>3, <2>4
<1> QED  BY RateInit, RateStep, <1>1, PTL DEF Spec
==================================================================================
