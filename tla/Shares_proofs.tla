------------------------------- MODULE Shares_proofs -------------------------------
(***************************************************************************)
(* Three components that count shares, for any number of orders and       *)
(* shares.                                                                 *)
(*                                                                         *)
(* SellGuard, the no-short-sale check: SELLs never commit more than the    *)
(* account had (NotSoldTwice) and exits leave the holdings alone           *)
(* (ExitsKeepHoldings), as long as the book lists every accepted order;    *)
(* and whatever the book does, a check after every lag window counts       *)
(* exactly what is free (ExactlyWhatIsFree).  The invariant relates the    *)
(* rows and positions a check has read to the orders as they have moved on *)
(* since.  From it each sum of sellable.py is compared, order by order,    *)
(* with what the orders take.                                              *)
(*                                                                         *)
(* TradeRows, the rows that bookings write: they hold the P&L of no share  *)
(* twice, whatever fails (OncePerShare), and, unless an alert asked for a  *)
(* look or something went wrong unseen, of every share sold (EveryShare),  *)
(* with the rest in the open rows (RowsHoldTheRest).  The first rests on   *)
(* an invariant that charges each sold share to one row or to a booking    *)
(* under way; the others on what the rows hold while all is calm.          *)
(*                                                                         *)
(* PositionMonitor, as long as wrong reads do not come two in a row: it    *)
(* ends with rc 0 only when nothing is left (EndedClean), and a partial    *)
(* exit of its own never makes it drop the rest (OwnExitNoProof).  The     *)
(* invariant says that what is held is tracked with all of its sales seen, *)
(* unless the last read hid it.                                            *)
(***************************************************************************)
EXTENDS SellGuard, TradeRows, PositionMonitor, FiniteSetTheorems, SequenceTheorems,
        WellFoundedInduction, TLAPS

-----------------------------------------------------------------------------
(* Sums over finite sets, by induction over the subsets.  SumFunctionOnSet chooses the *)
(* element it takes next; the lemmas show that the choice does not matter.     *)

\* Among sets of subsets of a finite set, some has no smaller one: induction over finite
\* sets, without an operator as a parameter
LEMMA SmallestSubset ==
  ASSUME NEW S, IsFiniteSet(S), NEW C \in SUBSET SUBSET S, C # {}
  PROVE  \E T \in C : \A U \in C : U \subseteq T => U = T
<1>1. IsWellFoundedOn(StrictSubsetOrdering(S), SUBSET S)
  BY FS_StrictSubsetOrderingWellFounded, FS_FiniteSubsetsOfFinite
<1>2. \E x \in C : \A y \in C : ~ (<<y, x>> \in StrictSubsetOrdering(S))
  BY <1>1, WFMin
<1> QED BY <1>2 DEF StrictSubsetOrdering

\* The element taken next, and g as the partial sums of f over the subsets of S
One(s) == CHOOSE x \in s : TRUE
Sums(f, S, g) == g = [s \in SUBSET S |-> IF s = {} THEN 0 ELSE f[One(s)] + g[s \ {One(s)}]]

\* The sum of the model (Functions!SumFunctionOnSet) by the function of partial sums it chooses
LEMMA SumIter == ASSUME NEW f, NEW S PROVE Sum(S, f) = (CHOOSE g : Sums(f, S, g))[S]
BY DEF Sum, Sums, One, SumFunctionOnSet, FoldFunctionOnSet, MapThenFoldSet

\* The element the sum takes next is one of the set
LEMMA OneIn == \A s : s # {} => One(s) \in s
BY DEF One

\* Where both are defined, two functions of partial sums agree.
LEMMA SumsAgree ==
  ASSUME NEW f, NEW S, IsFiniteSet(S), NEW T \in SUBSET S, NEW g, NEW h,
         Sums(f, S, g), Sums(f, T, h)
  PROVE  \A s \in SUBSET T : g[s] = h[s]
<1> DEFINE C == {s \in SUBSET T : g[s] # h[s]}
<1> SUFFICES ASSUME C # {} PROVE FALSE  OBVIOUS
<1>1. IsFiniteSet(T)  BY FS_Subset
<1>2. PICK s \in C : \A u \in C : u \subseteq s => u = s
  <2> HIDE DEF C
  <2>1. C \in SUBSET SUBSET T  BY DEF C
  <2> QED BY <1>1, <2>1, SmallestSubset
<1>3. s \in SUBSET S /\ s \in SUBSET T  OBVIOUS
<1>4. /\ g[s] = IF s = {} THEN 0 ELSE f[One(s)] + g[s \ {One(s)}]
      /\ h[s] = IF s = {} THEN 0 ELSE f[One(s)] + h[s \ {One(s)}]
  BY <1>3 DEF Sums
<1>5. s # {}  BY <1>4
<1>6. s \ {One(s)} \notin C  BY <1>2, <1>5, OneIn
<1>7. g[s \ {One(s)}] = h[s \ {One(s)}]  BY <1>6
<1> QED BY <1>4, <1>5, <1>7

\* There is a function of partial sums, so the one chosen is one
LEMMA SumsExist ==
  ASSUME NEW f, NEW S, IsFiniteSet(S)
  PROVE  \E g : Sums(f, S, g)
<1> DEFINE C == {T \in SUBSET S : ~ \E g : Sums(f, T, g)}
<1> SUFFICES ASSUME C # {} PROVE FALSE  OBVIOUS
<1>1. PICK T \in C : \A u \in C : u \subseteq T => u = T
  <2> HIDE DEF C
  <2>1. C \in SUBSET SUBSET S  BY DEF C
  <2> QED BY <2>1, SmallestSubset
<1> DEFINE G(U) == CHOOSE g : Sums(f, U, g)
<1>2. \A U \in SUBSET T : U # T => Sums(f, U, G(U))
  BY <1>1
<1> DEFINE h == [s \in SUBSET T |-> IF s = {} THEN 0
                                    ELSE f[One(s)] + G(s \ {One(s)})[s \ {One(s)}]]
<1>3. \A s \in SUBSET T : s # T => h[s] = G(s)[s]
  <2> SUFFICES ASSUME NEW s \in SUBSET T, s # T PROVE h[s] = G(s)[s]  OBVIOUS
  <2> DEFINE r == s \ {One(s)}
  <2>1. G(s)[s] = IF s = {} THEN 0 ELSE f[One(s)] + G(s)[r]
    <3>1. Sums(f, s, G(s))  BY <1>2
    <3>2. s \in SUBSET s OBVIOUS
    <3> HIDE DEF G
    <3> QED BY <3>1, <3>2 DEF Sums
  <2>2. r \in SUBSET s /\ r # T /\ r \in SUBSET T  OBVIOUS
  <2>3. G(s)[r] = G(r)[r]
    <3>1. Sums(f, s, G(s)) /\ Sums(f, r, G(r)) BY <1>2, <2>2
    <3>2. IsFiniteSet(s)  BY FS_Subset
    <3>3. r \in SUBSET r OBVIOUS
    <3> HIDE DEF G, r
    <3> QED BY <3>1, <3>2, <3>3, <2>2, SumsAgree
  <2> HIDE DEF G
  <2> QED BY <2>1, <2>3
<1>4. Sums(f, T, h)
  <2>1. \A s \in SUBSET T : s # {} => h[s \ {One(s)}] = G(s \ {One(s)})[s \ {One(s)}]
    <3> SUFFICES ASSUME NEW s \in SUBSET T, s # {}
                 PROVE h[s \ {One(s)}] = G(s \ {One(s)})[s \ {One(s)}]
      OBVIOUS
    <3>1. s \ {One(s)} \in SUBSET T /\ s \ {One(s)} # T  BY OneIn
    <3> HIDE DEF G, h
    <3> QED BY <3>1, <1>3
  <2>2. h = [s \in SUBSET T |-> IF s = {} THEN 0
                                ELSE f[One(s)] + G(s \ {One(s)})[s \ {One(s)}]]
    OBVIOUS
  <2> HIDE DEF G, h
  <2> QED BY <2>1, <2>2 DEF Sums
<1> QED BY <1>1, <1>4

\* Nothing adds up to zero
LEMMA SumEmpty == ASSUME NEW f PROVE Sum({}, f) = 0
<1>1. IsFiniteSet({}) BY FS_EmptySet
<1>2. Sums(f, {}, CHOOSE g : Sums(f, {}, g)) BY SumsExist, <1>1
<1> DEFINE g == CHOOSE g : Sums(f, {}, g)
<1>3. Sums(f, {}, g) BY <1>2
<1> HIDE DEF g
<1>4. g[{}] = 0 BY <1>3 DEF Sums
<1> QED BY <1>4, SumIter DEF g

\* The sum over a set is that over the rest and one element, chosen
LEMMA SumChosen ==
  ASSUME NEW f, NEW S, IsFiniteSet(S), S # {}
  PROVE  Sum(S, f) = f[One(S)] + Sum(S \ {One(S)}, f)
<1> DEFINE G(T) == CHOOSE g : Sums(f, T, g)
<1> DEFINE R == S \ {One(S)}
<1>1. R \in SUBSET S /\ IsFiniteSet(R)  BY FS_Subset
<1>2. Sums(f, S, G(S)) /\ Sums(f, R, G(R))  BY SumsExist, <1>1
<1>3. Sum(S, f) = G(S)[S] /\ Sum(R, f) = G(R)[R]  BY SumIter
<1>4. G(S)[S] = f[One(S)] + G(S)[R]
  <2> HIDE DEF G
  <2> QED BY <1>2 DEF Sums
<1>5. G(S)[R] = G(R)[R]
  <2>1. R \in SUBSET R OBVIOUS
  <2> HIDE DEF G, R
  <2> QED BY <1>1, <1>2, <2>1, SumsAgree
<1> QED BY <1>3, <1>4, <1>5

\* Integers add up to an integer
LEMMA SumInt ==
  ASSUME NEW S, IsFiniteSet(S), NEW f, \A s \in S : f[s] \in Int
  PROVE  Sum(S, f) \in Int
<1> DEFINE C == {T \in SUBSET S : Sum(T, f) \notin Int}
<1> SUFFICES ASSUME C # {} PROVE FALSE
  OBVIOUS
<1>1. PICK T \in C : \A u \in C : u \subseteq T => u = T
  <2> HIDE DEF C
  <2>1. C \in SUBSET SUBSET S
    BY DEF C
  <2> QED BY <2>1, SmallestSubset
<1>2. T # {}
  BY SumEmpty
<1>3. IsFiniteSet(T)
  BY FS_Subset
<1>4. One(T) \in T
  BY <1>2, OneIn
<1>5. Sum(T \ {One(T)}, f) \in Int
  BY <1>1, <1>4
<1> QED BY <1>2, <1>3, <1>4, <1>5, SumChosen

\* Naturals add up to a natural
LEMMA SumNat ==
  ASSUME NEW S, IsFiniteSet(S), NEW f, \A s \in S : f[s] \in Nat
  PROVE  Sum(S, f) \in Nat
<1> DEFINE C == {T \in SUBSET S : Sum(T, f) \notin Nat}
<1> SUFFICES ASSUME C # {} PROVE FALSE
  OBVIOUS
<1>1. PICK T \in C : \A u \in C : u \subseteq T => u = T
  <2> HIDE DEF C
  <2>1. C \in SUBSET SUBSET S
    BY DEF C
  <2> QED BY <2>1, SmallestSubset
<1>2. T # {}
  BY SumEmpty
<1>3. IsFiniteSet(T)
  BY FS_Subset
<1>4. One(T) \in T
  BY <1>2, OneIn
<1>5. Sum(T \ {One(T)}, f) \in Nat
  BY <1>1, <1>4
<1> QED BY <1>2, <1>3, <1>4, <1>5, SumChosen

\* Any element may be taken out first, not only the one chosen
LEMMA SumRemove ==
  ASSUME NEW S, IsFiniteSet(S), NEW f, \A s \in S : f[s] \in Int, NEW x \in S
  PROVE  Sum(S, f) = f[x] + Sum(S \ {x}, f)
<1> DEFINE C == {T \in SUBSET S : \E y \in T : Sum(T, f) # f[y] + Sum(T \ {y}, f)}
<1> SUFFICES ASSUME C # {} PROVE FALSE
  OBVIOUS
<1>1. PICK T \in C : \A u \in C : u \subseteq T => u = T
  <2> HIDE DEF C
  <2>1. C \in SUBSET SUBSET S
    BY DEF C
  <2> QED BY <2>1, SmallestSubset
<1>2. PICK y \in T : Sum(T, f) # f[y] + Sum(T \ {y}, f)
  BY <1>1
<1> DEFINE z == One(T)
<1>3. z \in T
  BY OneIn
<1>4. IsFiniteSet(T) /\ Sum(T, f) = f[z] + Sum(T \ {z}, f)
  BY FS_Subset, SumChosen
<1>5. y # z
  BY <1>2, <1>4
<1>a. \A U \in SUBSET T : U # T => \A w \in U : Sum(U, f) = f[w] + Sum(U \ {w}, f)
  BY <1>1
<1>6. Sum(T \ {z}, f) = f[y] + Sum((T \ {z}) \ {y}, f)
  <2> HIDE DEF C, z
  <2> QED BY <1>a, <1>3, <1>5
<1>7. Sum(T \ {y}, f) = f[z] + Sum((T \ {y}) \ {z}, f)
  <2> HIDE DEF C, z
  <2> QED BY <1>a, <1>3, <1>5
<1>8. (T \ {z}) \ {y} = (T \ {y}) \ {z}
  OBVIOUS
<1>9. /\ f[y] \in Int /\ f[z] \in Int
      /\ Sum((T \ {y}) \ {z}, f) \in Int
  <2>1. IsFiniteSet((T \ {y}) \ {z})
    BY <1>4, FS_Subset
  <2>2. \A s \in (T \ {y}) \ {z} : f[s] \in Int
    OBVIOUS
  <2>3. Sum((T \ {y}) \ {z}, f) \in Int
    BY <2>1, <2>2, SumInt
  <2> QED BY <1>3, <2>3
<1> HIDE DEF z
<1> QED BY <1>2, <1>4, <1>6, <1>7, <1>8, <1>9

\* Sums are ordered when their summands are
LEMMA SumUpTo ==
  ASSUME NEW S, IsFiniteSet(S), NEW f, NEW g,
         \A s \in S : f[s] \in Int /\ g[s] \in Int /\ f[s] <= g[s]
  PROVE  Sum(S, f) <= Sum(S, g)
<1> DEFINE C == {T \in SUBSET S : ~ (Sum(T, f) <= Sum(T, g))}
<1> SUFFICES ASSUME C # {} PROVE FALSE
  OBVIOUS
<1>1. PICK T \in C : \A u \in C : u \subseteq T => u = T
  <2> HIDE DEF C
  <2>1. C \in SUBSET SUBSET S
    BY DEF C
  <2> QED BY <2>1, SmallestSubset
<1> DEFINE x == One(T)
           R == T \ {x}
<1>2. T # {}
  BY SumEmpty
<1>3. x \in T
  BY <1>2, OneIn
<1>4. IsFiniteSet(T) /\ IsFiniteSet(R)
  BY FS_Subset
<1>5. Sum(T, f) = f[x] + Sum(R, f) /\ Sum(T, g) = g[x] + Sum(R, g)
  BY <1>2, <1>4, SumChosen
<1>6. Sum(R, f) \in Int /\ Sum(R, g) \in Int
  BY <1>4, SumInt
<1>7. Sum(R, f) <= Sum(R, g)
  BY <1>1, <1>3
<1>8. f[x] \in Int /\ g[x] \in Int /\ f[x] <= g[x]
  BY <1>3
<1>9. ~ (Sum(T, f) <= Sum(T, g))
  BY <1>1
<1> HIDE DEF x, R, C
<1> QED BY <1>5, <1>6, <1>7, <1>8, <1>9

\* Two functions that agree on a set have the same sum
LEMMA SumSame ==
  ASSUME NEW S, IsFiniteSet(S), NEW f, NEW g,
         \A s \in S : f[s] \in Int /\ g[s] = f[s]
  PROVE  Sum(S, g) = Sum(S, f)
<1>1. Sum(S, f) \in Int /\ Sum(S, g) \in Int
  BY SumInt
<1>2. Sum(S, f) <= Sum(S, g) /\ Sum(S, g) <= Sum(S, f)
  BY SumUpTo
<1> QED BY <1>1, <1>2

\* The sum of sums
LEMMA SumPlus ==
  ASSUME NEW S, IsFiniteSet(S), NEW f, NEW g, NEW h,
         \A s \in S : f[s] \in Int /\ g[s] \in Int /\ h[s] = f[s] + g[s]
  PROVE  Sum(S, h) = Sum(S, f) + Sum(S, g)
<1> DEFINE C == {T \in SUBSET S : Sum(T, h) # Sum(T, f) + Sum(T, g)}
<1> SUFFICES ASSUME C # {} PROVE FALSE
  OBVIOUS
<1>1. PICK T \in C : \A u \in C : u \subseteq T => u = T
  <2> HIDE DEF C
  <2>1. C \in SUBSET SUBSET S
    BY DEF C
  <2> QED BY <2>1, SmallestSubset
<1> DEFINE x == One(T)
           R == T \ {x}
<1>2. T # {}
  BY SumEmpty
<1>3. x \in T
  BY <1>2, OneIn
<1>4. IsFiniteSet(T) /\ IsFiniteSet(R)
  BY FS_Subset
<1>5. /\ Sum(T, f) = f[x] + Sum(R, f)
      /\ Sum(T, g) = g[x] + Sum(R, g)
      /\ Sum(T, h) = h[x] + Sum(R, h)
  BY <1>2, <1>4, SumChosen
<1>6. Sum(R, f) \in Int /\ Sum(R, g) \in Int
  BY <1>4, SumInt
<1>7. Sum(R, h) = Sum(R, f) + Sum(R, g)
  BY <1>1, <1>3
<1>8. f[x] \in Int /\ g[x] \in Int /\ h[x] = f[x] + g[x]
  BY <1>3
<1>9. Sum(T, h) # Sum(T, f) + Sum(T, g)
  BY <1>1
<1> HIDE DEF x, R, C
<1> QED BY <1>5, <1>6, <1>7, <1>8, <1>9

\* Zeros add up to zero
LEMMA SumZero ==
  ASSUME NEW S, IsFiniteSet(S), NEW f, \A s \in S : f[s] = 0
  PROVE  Sum(S, f) = 0
<1>1. \A s \in S : f[s] \in Int /\ f[s] \in Int /\ f[s] = f[s] + f[s]
  OBVIOUS
<1>2. Sum(S, f) \in Int
  BY <1>1, SumInt
<1>3. Sum(S, f) = Sum(S, f) + Sum(S, f)
  BY <1>1, SumPlus
<1> DEFINE n == Sum(S, f)
<1>4. n \in Int /\ n = n + n
  BY <1>2, <1>3
<1> HIDE DEF n
<1>5. n = 0
  BY <1>4
<1> QED BY <1>5 DEF n

\* A sum over some of the ids is a sum over all of them, zero for the others
LEMMA SumWithin ==
  ASSUME NEW S, IsFiniteSet(S), NEW f, \A s \in S : f[s] \in Int, NEW A \in SUBSET S
  PROVE  Sum(A, f) = Sum(S, [s \in S |-> IF s \in A THEN f[s] ELSE 0])
<1> DEFINE g == [s \in S |-> IF s \in A THEN f[s] ELSE 0]
<1> DEFINE C == {T \in SUBSET S : Sum(T \cap A, f) # Sum(T, g)}
<1> SUFFICES ASSUME C # {} PROVE FALSE
  <2>1. S \in SUBSET S /\ S \cap A = A
    OBVIOUS
  <2> QED BY <2>1
<1>1. PICK T \in C : \A u \in C : u \subseteq T => u = T
  <2> HIDE DEF C
  <2>1. C \in SUBSET SUBSET S
    BY DEF C
  <2> QED BY <2>1, SmallestSubset
<1> DEFINE x == One(T)
           R == T \ {x}
<1>2. T # {}
  <2> SUFFICES ASSUME T = {} PROVE FALSE
    OBVIOUS
  <2>1. T \cap A = {}
    OBVIOUS
  <2>2. Sum(T \cap A, f) = 0 /\ Sum(T, g) = 0
    BY <2>1, SumEmpty
  <2> QED BY <1>1, <2>2
<1>3. x \in T
  BY <1>2, OneIn
<1>4. IsFiniteSet(T) /\ IsFiniteSet(R) /\ IsFiniteSet(T \cap A)
  BY FS_Subset
<1>5. Sum(T, g) = g[x] + Sum(R, g)
  BY <1>2, <1>4, SumChosen
<1>6. Sum(R \cap A, f) = Sum(R, g)
  BY <1>1, <1>3
<1>7. Sum(T \cap A, f) # Sum(T, g)
  BY <1>1
<1>8. CASE x \in A
  <2>1. (T \cap A) \ {x} = R \cap A /\ x \in T \cap A
    BY <1>3, <1>8
  <2>2. \A s \in T \cap A : f[s] \in Int
    OBVIOUS
  <2>3. Sum(T \cap A, f) = f[x] + Sum(R \cap A, f)
    BY <2>1, <2>2, <1>4, SumRemove
  <2>4. g[x] = f[x]
    BY <1>3, <1>8
  <2> HIDE DEF x, R, C, g
  <2> QED BY <2>3, <2>4, <1>5, <1>6, <1>7
<1>9. CASE x \notin A
  <2>1. T \cap A = R \cap A
    BY <1>9
  <2>2. Sum(T \cap A, f) = Sum(R \cap A, f)
    BY <2>1
  <2>3. g[x] = 0
    BY <1>3, <1>9
  <2>4. Sum(R, g) \in Int
    BY <1>4, SumInt
  <2>5. Sum(T, g) = Sum(R, g)
    <3> HIDE DEF x, R, C, g
    <3> QED BY <2>3, <2>4, <1>5
  <2> QED BY <2>2, <2>5, <1>6, <1>7
<1> QED BY <1>8, <1>9

\* A function that differs at one id
LEMMA SumUpdate ==
  ASSUME NEW S, IsFiniteSet(S), NEW f, NEW g, NEW x \in S,
         \A s \in S : f[s] \in Int /\ g[s] \in Int,
         \A s \in S : s # x => g[s] = f[s]
  PROVE  Sum(S, g) = Sum(S, f) - f[x] + g[x]
<1> DEFINE R == S \ {x}
<1>1. IsFiniteSet(R)
  BY FS_Subset
<1>2. Sum(S, f) = f[x] + Sum(R, f) /\ Sum(S, g) = g[x] + Sum(R, g)
  BY SumRemove
<1>3. Sum(R, g) = Sum(R, f)
  BY <1>1, SumSame
<1>4. Sum(R, f) \in Int
  BY <1>1, SumInt
<1>5. f[x] \in Int /\ g[x] \in Int
  OBVIOUS
<1> HIDE DEF R
<1> QED BY <1>2, <1>3, <1>4, <1>5

-----------------------------------------------------------------------------
(* The inductive invariant.                                                    *)

OrderType ==
    [st : {"absent", "sent", "open", "final", "lost"}, qty : Nat, done : Nat,
     know : {"no", "uncertain", "open", "final"}, knownDone : Nat,
     noted : BOOLEAN, age : {"new", "recent", "old"}, own : BOOLEAN]
RowType == [st : {"none", "open", "final"}, traded : Nat]

\* What holds of an order k; placed: it is the one of the worker's call under way
Fits(k, placed) ==
    /\ k \in OrderType
    /\ k.knownDone <= k.done /\ k.done <= k.qty
    /\ k.done = k.qty /\ k.qty > 0 => k.st = "final"
    /\ k.st \in {"absent", "sent", "lost"} => k.done = 0
    /\ k.st = "absent" => k = Absent
    /\ k.st = "sent" => k.age = "new" /\ (k.know = "uncertain" \/ placed)
    /\ k.st = "lost" => ~placed /\ k.know = "uncertain"
    /\ k.know \in {"open", "final"} => k.st \in {"open", "final"}
    /\ k.know # "no" => k.own
    /\ placed => k.st # "absent" /\ k.own /\ k.age = "new" /\ k.know = "no"

\* What a row w read earlier says of the order k as it is now
Tells(w, k) ==
    /\ w.st = "none" => /\ w.traded = 0
                        /\ \/ k.st \in {"absent", "lost"}
                           \/ /\ k.age = "new"
                              /\ k.know = "uncertain" \/ "booklag" \in Surprises
    /\ w.st # "none" => k.st \in {"open", "final"} /\ w.traded <= k.done
    /\ w.st = "final" => k.st = "final" /\ w.traded = k.done
    /\ w.st # "none" /\ k.age = "old" => w.st = k.st /\ w.traded = k.done

OldDoneOf(k) == IF k.age = "old" THEN k.done ELSE 0
OldDone == [o \in Ids |-> OldDoneOf(order[o])]

OrdersInv == \A o \in Ids : Fits(order[o], o = cur)
RowsInv == pc \in {"book", "check"} => \A o \in Ids : Tells(rows[o], order[o])
ShownInv == pc = "check" => /\ Sum(Ids, OldDone) <= shown
                            /\ Recent = {} => Sum(Ids, OldDone) = shown
GInv == TypeOK /\ OrdersInv /\ RowsInv /\ ShownInv

GoodMove(o, r) ==
    /\ Fits(r, o = cur)
    /\ pc \in {"book", "check"} => Tells(rows[o], r)
    /\ pc = "check" /\ r.age = "old" => order[o].age = "old" /\ r.done = order[o].done

\* The order ids are finitely many (GuardIdsAssumption)
LEMMA FiniteIds == IsFiniteSet(Ids)
  BY GuardIdsAssumption

\* The fills whose lag window is over are naturals
LEMMA OldDoneNat ==
  ASSUME TypeOK
  PROVE  \A o \in Ids : OldDone[o] \in Nat
  BY DEF TypeOK, OldDone, OldDoneOf

\* A move of one order that leaves the holder of the lock alone keeps the invariant
LEMMA MoveKeeps ==
  ASSUME GInv, NEW o \in Ids, NEW r, GoodMove(o, r), Moves(o, r)
  PROVE  GInv'
<1> USE DEF Moves, checkVars
<1>1. /\ order' = [order EXCEPT ![o] = r]
      /\ order \in [Ids -> OrderType] /\ r \in OrderType
  BY DEF GInv, TypeOK, OrderType, GoodMove, Fits
<1>2. \A p \in Ids : order'[p] = IF p = o THEN r ELSE order[p]
  BY <1>1
<1>3. TypeOK'
  <2>1. order' \in [Ids -> OrderType]
    BY <1>1
  <2>2. \A p \in Ids : /\ order'[p].knownDone <= order'[p].done
                       /\ order'[p].done <= order'[p].qty
                       /\ order'[p].done = order'[p].qty /\ order'[p].qty > 0
                             => order'[p].st = "final"
    BY <1>2 DEF GInv, OrdersInv, GoodMove, Fits
  <2> QED BY <2>1, <2>2 DEF GInv, TypeOK, OrderType, NoRows
<1>4. OrdersInv'
  BY <1>2 DEF GInv, OrdersInv, GoodMove
<1>5. RowsInv'
  BY <1>2 DEF GInv, RowsInv, GoodMove
<1>6. ShownInv'
  <2> SUFFICES ASSUME pc = "check"
               PROVE  /\ Sum(Ids, OldDone') <= shown
                      /\ Recent' = {} => Sum(Ids, OldDone') = shown
    BY DEF ShownInv
  <2>1. Sum(Ids, OldDone) <= shown /\ (Recent = {} => Sum(Ids, OldDone) = shown)
    BY DEF GInv, ShownInv
  <2>2. \A p \in Ids : OldDone[p] \in Nat /\ OldDone'[p] \in Nat
    BY <1>3, OldDoneNat DEF GInv, OldDone, TypeOK, OldDoneOf
  <2>3. \A p \in Ids : OldDone'[p] <= OldDone[p]
    BY <1>2, <2>2 DEF OldDone, OldDoneOf, GoodMove
  <2>4. shown \in Int /\ Sum(Ids, OldDone) \in Int /\ Sum(Ids, OldDone') \in Int
    <3>1. \A p \in Ids : OldDone[p] \in Int /\ OldDone'[p] \in Int
      BY <2>2
    <3> QED BY <3>1, SumInt, FiniteIds DEF GInv, TypeOK
  <2>5. Sum(Ids, OldDone') <= Sum(Ids, OldDone)
    BY <2>2, <2>3, SumUpTo, FiniteIds
  <2>6. ASSUME Recent' = {} PROVE Recent = {} /\ \A p \in Ids : OldDone'[p] = OldDone[p]
    BY <2>6, <1>2 DEF Recent, OldDone, OldDoneOf, GoodMove
  <2>7. ASSUME Recent' = {} PROVE Sum(Ids, OldDone') = Sum(Ids, OldDone)
    BY <2>2, <2>6, <2>7, SumSame, FiniteIds
  <2> QED BY <2>1, <2>4, <2>5, <2>6, <2>7
<1> QED BY <1>3, <1>4, <1>5, <1>6 DEF GInv

-----------------------------------------------------------------------------
(* The moves of one order: what the broker, a resume or another seller does to it. *)

\* The shares an order has sold or may still sell
TakenOf(k) == IF k.st = "final" THEN k.done ELSE IF k.st \in {"sent", "open"} THEN k.qty ELSE 0

\* Facts about one order, as the moves need them
LEMMA OrderFacts ==
  ASSUME GInv, NEW o \in Ids
  PROVE  /\ order[o] \in OrderType
         /\ Fits(order[o], o = cur)
         /\ pc \in {"book", "check"} => Tells(rows[o], order[o]) /\ rows[o] \in RowType
         /\ pc \in {"free", "book", "check"} => o # cur
  BY GuardIdsAssumption DEF GInv, OrdersInv, RowsInv, TypeOK, OrderType, RowType

\* What recording an order changes of it
LEMMA KnowsOf ==
  ASSUME NEW k \in OrderType, NEW w \in {"open", "final"}, NEW n \in Nat
  PROVE  LET r == Knows(k, w, n)
         IN  /\ r \in OrderType /\ r.st = k.st /\ r.qty = k.qty /\ r.done = k.done
             /\ r.know = w /\ r.knownDone = n /\ r.age = k.age /\ r.own = k.own
<1> DEFINE b == n > 0
<1>1. b \in BOOLEAN
  OBVIOUS
<1>2. Knows(k, w, n) = [k EXCEPT !.know = w, !.knownDone = n, !.noted = b]
  BY DEF Knows
<1> HIDE DEF b
<1> QED BY <1>1, <1>2 DEF OrderType

\* A resync of an order left open is a good move
LEMMA ResumedGood ==
  ASSUME GInv, NEW o \in Ids, Resumed(o)
  PROVE  \E r : GoodMove(o, r) /\ Moves(o, r) /\ TakenOf(r) <= TakenOf(order[o])
<1> DEFINE k == order[o]
<1>1. k \in OrderType
  BY OrderFacts
<1>2. /\ Fits(k, o = cur)
      /\ pc \in {"book", "check"} => Tells(rows[o], k) /\ rows[o] \in RowType
  BY OrderFacts
<1>3. CASE k.st = "final" /\ Moves(o, Knows(k, "final", k.done))
  <2> DEFINE r == Knows(k, "final", k.done)
  <2>1. /\ r \in OrderType
        /\ r.st = k.st /\ r.qty = k.qty /\ r.done = k.done /\ r.know = "final"
        /\ r.knownDone = k.done /\ r.age = k.age /\ r.own = k.own
    <3>1. k.done \in Nat
      BY <1>1 DEF OrderType
    <3> HIDE DEF k
    <3> QED BY <1>1, <3>1, KnowsOf
  <2>2. GoodMove(o, r) /\ TakenOf(r) <= TakenOf(k)
    <3> HIDE DEF r
    <3> QED
      BY <1>1, <1>2, <1>3, <2>1 DEF Resumed, GoodMove, Fits, Tells, OrderType, TakenOf, RowType
  <2> QED BY <1>3, <2>2
<1>4. ASSUME NEW n \in k.knownDone .. k.done, Moves(o, Knows(k, "open", n))
      PROVE  \E r : GoodMove(o, r) /\ Moves(o, r) /\ TakenOf(r) <= TakenOf(k)
  <2> DEFINE r == Knows(k, "open", n)
  <2>1. /\ r \in OrderType
        /\ r.st = k.st /\ r.qty = k.qty /\ r.done = k.done /\ r.know = k.know
        /\ r.knownDone = n /\ r.age = k.age /\ r.own = k.own
        /\ n \in Nat /\ n <= k.done
    <3>1. n \in Nat /\ n <= k.done /\ k.know = "open"
      BY <1>1 DEF OrderType, Resumed
    <3> HIDE DEF k
    <3> QED BY <1>1, <3>1, KnowsOf
  <2>2. GoodMove(o, r) /\ TakenOf(r) <= TakenOf(k)
    <3> HIDE DEF r
    <3> QED
      BY <1>1, <1>2, <2>1 DEF Resumed, GoodMove, Fits, Tells, OrderType, TakenOf, RowType
  <2> QED BY <1>4, <2>2
<1> QED BY <1>3, <1>4 DEF Resumed

\* So is the end of the window of a confirmation: it is of no order alone
LEMMA ForgetsGood ==
  ASSUME GInv, NEW o \in Ids, Forgets(o)
  PROVE  \E r : GoodMove(o, r) /\ Moves(o, r) /\ TakenOf(r) <= TakenOf(order[o])
<1> DEFINE k == order[o]
           r == [k EXCEPT !.noted = FALSE]
<1>1. k \in OrderType
  BY OrderFacts
<1>2. /\ r \in OrderType
      /\ r.st = k.st /\ r.qty = k.qty /\ r.done = k.done /\ r.know = k.know
      /\ r.knownDone = k.knownDone /\ r.age = k.age /\ r.own = k.own
  BY <1>1 DEF OrderType
<1>3. k.st = "absent" => k = Absent
  BY OrderFacts DEF Fits
<1>4. k.st # "absent"
  BY <1>3 DEF Forgets, Absent
<1>5. GoodMove(o, r) /\ TakenOf(r) <= TakenOf(k)
  <2>1. /\ Fits(k, o = cur)
        /\ pc \in {"book", "check"} => Tells(rows[o], k) /\ rows[o] \in RowType
        /\ pc \in {"free", "book", "check"} => o # cur
    BY OrderFacts
  <2> HIDE DEF r
  <2> QED
    BY <1>1, <1>2, <1>4, <2>1 DEF GoodMove, Fits, Tells, OrderType, TakenOf, RowType
<1> QED BY <1>5 DEF Forgets

\* So is the take-over of an uncertain placement found by its tag: the check has its row,
\* or the book lagged
LEMMA TakenOverGood ==
  ASSUME GInv, NEW o \in Ids, TakenOver(o)
  PROVE  \E r : GoodMove(o, r) /\ Moves(o, r) /\ TakenOf(r) <= TakenOf(order[o])
<1> DEFINE r == [order[o] EXCEPT !.know = "open"]
<1>1. rows[o].st = "none" /\ pc \in {"book", "check"} => rows[o] = NoRow
  BY OrderFacts DEF NoRow, RowType, Tells
<1>2. order[o] \in OrderType
  BY OrderFacts
<1>3. /\ r \in OrderType
      /\ r.st = order[o].st /\ r.qty = order[o].qty /\ r.done = order[o].done
      /\ r.know = "open" /\ r.knownDone = order[o].knownDone /\ r.age = order[o].age
      /\ r.own = order[o].own
  BY <1>2 DEF OrderType
<1>4. GoodMove(o, r) /\ TakenOf(r) <= TakenOf(order[o])
  <2> HIDE DEF r
  <2> QED
    BY <1>1, <1>2, <1>3, OrderFacts
       DEF TakenOver, GoodMove, Fits, Tells, OrderType, TakenOf, RowType
<1> QED BY <1>4 DEF TakenOver

\* So is the acceptance of an order: to a check under way it is an uncertain placement
LEMMA AcceptGood ==
  ASSUME GInv, NEW o \in Ids, Accept(o)
  PROVE  \E r : GoodMove(o, r) /\ Moves(o, r) /\ TakenOf(r) <= TakenOf(order[o])
<1> DEFINE k == order[o]
           r == [k EXCEPT !.st = "open"]
<1>2. k \in OrderType
  BY OrderFacts
<1>3. /\ r \in OrderType
      /\ r.st = "open" /\ r.qty = k.qty /\ r.done = k.done /\ r.know = k.know
      /\ r.knownDone = k.knownDone /\ r.age = k.age /\ r.own = k.own
  BY <1>2 DEF OrderType, Changed
<1>4. Moves(o, r)
  BY DEF Accept
<1>5. GoodMove(o, r) /\ TakenOf(r) <= TakenOf(k)
  <2>1. /\ Fits(k, o = cur)
        /\ pc \in {"book", "check"} => Tells(rows[o], k) /\ rows[o] \in RowType
        /\ pc \in {"free", "book", "check"} => o # cur
    BY OrderFacts
  <2> HIDE DEF r
  <2> QED
    BY <1>2, <1>3, <2>1 DEF Accept, GoodMove, Fits, Tells, OrderType, TakenOf, RowType
<1> QED BY <1>4, <1>5

\* So is the loss of a request
LEMMA LoseGood ==
  ASSUME GInv, NEW o \in Ids, Lose(o)
  PROVE  \E r : GoodMove(o, r) /\ Moves(o, r) /\ TakenOf(r) <= TakenOf(order[o])
<1> DEFINE k == order[o]
           r == [k EXCEPT !.st = "lost"]
<1>2. k \in OrderType
  BY OrderFacts
<1>3. /\ r \in OrderType
      /\ r.st = "lost" /\ r.qty = k.qty /\ r.done = k.done /\ r.know = k.know
      /\ r.knownDone = k.knownDone /\ r.age = k.age /\ r.own = k.own
  BY <1>2 DEF OrderType, Changed
<1>4. Moves(o, r)
  BY DEF Lose
<1>5. GoodMove(o, r) /\ TakenOf(r) <= TakenOf(k)
  <2>1. /\ Fits(k, o = cur)
        /\ pc \in {"book", "check"} => Tells(rows[o], k) /\ rows[o] \in RowType
        /\ pc \in {"free", "book", "check"} => o # cur
    BY OrderFacts
  <2> HIDE DEF r
  <2> QED
    BY <1>2, <1>3, <2>1 DEF Lose, GoodMove, Fits, Tells, OrderType, TakenOf, RowType
<1> QED BY <1>4, <1>5

\* So is a trade: it makes the order recent
LEMMA TradeGood ==
  ASSUME GInv, NEW o \in Ids, Trade(o)
  PROVE  \E r : GoodMove(o, r) /\ Moves(o, r) /\ TakenOf(r) <= TakenOf(order[o])
<1>1. PICK n \in (order[o].done + 1) .. order[o].qty :
         Moves(o, [order[o] EXCEPT !.done = n, !.age = Changed(@),
                                   !.st = IF n = order[o].qty THEN "final" ELSE "open"])
  BY DEF Trade
<1> DEFINE k == order[o]
           r == [k EXCEPT !.done = n, !.age = Changed(@),
                          !.st = IF n = k.qty THEN "final" ELSE "open"]
<1>2. k \in OrderType
  BY OrderFacts
<1>3. /\ r \in OrderType
      /\ r.st = (IF n = k.qty THEN "final" ELSE "open") /\ r.qty = k.qty /\ r.done = n
      /\ r.know = k.know /\ r.knownDone = k.knownDone /\ r.own = k.own
      /\ r.age = Changed(k.age) /\ r.age # "old"
      /\ n \in Nat /\ n > k.done /\ n <= k.qty
  <2>1. k.done \in Nat /\ k.qty \in Nat
    BY <1>2 DEF OrderType
  <2>2. n \in Nat /\ n > k.done /\ n <= k.qty
    BY <1>1, <2>1
  <2>3. Changed(k.age) \in {"new", "recent"}
    BY <1>2 DEF OrderType, Changed
  <2> HIDE DEF k
  <2> QED BY <1>2, <2>2, <2>3 DEF OrderType
<1>4. Moves(o, r)
  BY <1>1
<1>5. GoodMove(o, r) /\ TakenOf(r) <= TakenOf(k)
  <2>1. /\ Fits(k, o = cur)
        /\ pc \in {"book", "check"} => Tells(rows[o], k) /\ rows[o] \in RowType
        /\ pc \in {"free", "book", "check"} => o # cur
    BY OrderFacts
  <2> HIDE DEF r
  <2> QED
    BY <1>2, <1>3, <2>1 DEF Trade, GoodMove, Fits, Tells, OrderType, TakenOf, RowType, Changed
<1> QED BY <1>4, <1>5

\* So is the end of an order
LEMMA EndGood ==
  ASSUME GInv, NEW o \in Ids, End(o)
  PROVE  \E r : GoodMove(o, r) /\ Moves(o, r) /\ TakenOf(r) <= TakenOf(order[o])
<1> DEFINE k == order[o]
           r == [k EXCEPT !.st = "final", !.age = Changed(@)]
<1>2. k \in OrderType
  BY OrderFacts
<1>3. /\ r \in OrderType
      /\ r.st = "final" /\ r.qty = k.qty /\ r.done = k.done /\ r.know = k.know
      /\ r.knownDone = k.knownDone /\ r.own = k.own
      /\ r.age = Changed(k.age) /\ r.age # "old"
  BY <1>2 DEF OrderType, Changed
<1>4. Moves(o, r)
  BY DEF End
<1>5. GoodMove(o, r) /\ TakenOf(r) <= TakenOf(k)
  <2>1. /\ Fits(k, o = cur)
        /\ pc \in {"book", "check"} => Tells(rows[o], k) /\ rows[o] \in RowType
        /\ pc \in {"free", "book", "check"} => o # cur
    BY OrderFacts
  <2> HIDE DEF r
  <2> QED
    BY <1>2, <1>3, <2>1 DEF End, GoodMove, Fits, Tells, OrderType, TakenOf, RowType, Changed
<1> QED BY <1>4, <1>5

\* So is the end of a lag window, which falls between two checks
LEMMA AgeGood ==
  ASSUME GInv, NEW o \in Ids, Age(o)
  PROVE  \E r : GoodMove(o, r) /\ Moves(o, r) /\ TakenOf(r) <= TakenOf(order[o])
<1> DEFINE k == order[o]
           r == [k EXCEPT !.age = "old"]
<1>2. k \in OrderType
  BY OrderFacts
<1>3. /\ r \in OrderType
      /\ r.st = k.st /\ r.qty = k.qty /\ r.done = k.done /\ r.know = k.know
      /\ r.knownDone = k.knownDone /\ r.age = "old" /\ r.own = k.own
  BY <1>2 DEF OrderType, Changed
<1>4. Moves(o, r)
  BY DEF Age
<1>5. GoodMove(o, r) /\ TakenOf(r) <= TakenOf(k)
  <2>1. /\ Fits(k, o = cur)
        /\ pc \in {"book", "check"} => Tells(rows[o], k) /\ rows[o] \in RowType
        /\ pc \in {"free", "book", "check"} => o # cur
    BY OrderFacts
  <2> HIDE DEF r
  <2>2. pc = "free" /\ k.age # "old" /\ k.st # "sent" /\ o # cur
    BY <2>1 DEF Age
  <2>3. k.st # "absent"
    BY <2>1, <2>2 DEF Fits, Absent
  <2>4. Fits(r, o = cur)
    BY <1>2, <1>3, <2>1, <2>2, <2>3 DEF Fits, OrderType
  <2>5. TakenOf(r) <= TakenOf(k)
    BY <1>2, <1>3 DEF TakenOf, OrderType
  <2> QED
    BY <2>2, <2>4, <2>5 DEF GoodMove
<1> QED BY <1>4, <1>5

\* So is the SELL of somebody else
LEMMA OtherSellGood ==
  ASSUME GInv, NEW o \in Ids, NEW q \in 1 .. (Total - Taken(Ids)), pc = "free",
         order[o].st = "absent"
  PROVE  GoodMove(o, [Absent EXCEPT !.st = "open", !.qty = q, !.age = "new"])
<1> DEFINE r == [Absent EXCEPT !.st = "open", !.qty = q, !.age = "new"]
<1>1. q \in Nat /\ q > 0
  OBVIOUS
<1>2. /\ r \in OrderType
      /\ r.st = "open" /\ r.qty = q /\ r.done = 0 /\ r.know = "no" /\ r.knownDone = 0
      /\ r.age = "new" /\ ~r.own
  BY <1>1 DEF Absent, OrderType
<1>3. o # cur
  BY OrderFacts
<1> HIDE DEF r
<1>4. GoodMove(o, r)
  BY <1>1, <1>2, <1>3 DEF GoodMove, Fits, Tells
<1> QED BY <1>4 DEF r

-----------------------------------------------------------------------------
(* The holder of the sell lock.                                                *)

\* An order that is not there fits
LEMMA AbsentFits == Fits(Absent, FALSE)
  BY DEF Fits, Absent, OrderType

\* The invariant holds of the initial states
LEMMA InitGInv == Init => GInv
<1> SUFFICES ASSUME Init PROVE GInv
  OBVIOUS
<1>1. \A o \in Ids : order[o] = Absent /\ o # cur
  BY GuardIdsAssumption DEF Init
<1>2. TypeOK
  <2>1. Absent \in OrderType
    BY AbsentFits DEF Fits
  <2>2. order \in [Ids -> OrderType]
    BY <2>1 DEF Init
  <2>3. rows \in [Ids -> RowType]
    BY DEF Init, NoRows, NoRow, RowType
  <2> QED BY <2>2, <2>3, <1>1 DEF TypeOK, Init, Absent, OrderType, RowType
<1>3. OrdersInv
  BY <1>1, AbsentFits DEF OrdersInv
<1> QED BY <1>2, <1>3 DEF GInv, RowsInv, ShownInv, Init

\* The rows just read tell of the orders as they are
LEMMA ReadBookKeeps ==
  ASSUME GInv, ReadBook
  PROVE  GInv'
<1>1. \A o \in Ids : Fits(order[o], FALSE) /\ o # cur
  BY OrderFacts DEF ReadBook
<1>2. \A o \in Ids : rows'[o] \in RowsOf(o)
  BY DEF ReadBook
<1>3. \A o \in Ids : rows'[o] \in RowType /\ Tells(rows'[o], order[o])
  <2> TAKE o \in Ids
  <2>1. Fits(order[o], FALSE) /\ rows'[o] \in RowsOf(o)
    BY <1>1, <1>2
  <2> DEFINE k == order[o]
             w == rows'[o]
  <2>2. CASE k.st \notin {"open", "final"}
    <3>1. w = NoRow
      BY <2>1, <2>2 DEF RowsOf
    <3>2. k \in OrderType /\ Fits(k, FALSE)
      BY <2>1 DEF Fits
    <3> HIDE DEF k, w
    <3>3. w \in RowType /\ Tells(w, k)
      BY <2>2, <3>1, <3>2 DEF Fits, Tells, RowType, NoRow, OrderType
    <3> QED BY <3>3 DEF k, w
  <2>3. CASE k.st \in {"open", "final"}
    <3>1. \/ w = [st |-> k.st, traded |-> k.done]
          \/ k.age # "old" /\ \E n \in 0 .. k.done : w = [st |-> "open", traded |-> n]
          \/ k.age = "new" /\ "booklag" \in Surprises /\ w = NoRow
      BY <2>1, <2>3 DEF RowsOf
    <3>2. k \in OrderType
      BY <2>1 DEF Fits
    <3> HIDE DEF k, w
    <3>3. w \in RowType /\ Tells(w, k)
      BY <2>3, <3>1, <3>2 DEF Tells, RowType, NoRow, OrderType
    <3> QED BY <3>3 DEF k, w
  <2> QED BY <2>2, <2>3
<1>4. rows' \in [Ids -> RowType]
  BY <1>3 DEF ReadBook
<1>5. TypeOK'
  BY <1>4 DEF GInv, TypeOK, ReadBook, RowType
<1> QED BY <1>3, <1>5 DEF GInv, OrdersInv, RowsInv, ShownInv, ReadBook

\* The sells just read are at least those whose lag window is over
LEMMA ReadPositionsKeeps ==
  ASSUME GInv, ReadPositions
  PROVE  GInv'
<1>1. PICK f \in [Ids -> UNION {ShownOf(o) : o \in Ids}] :
         (\A o \in Ids : f[o] \in ShownOf(o)) /\ shown' = Sum(Ids, f)
  BY DEF ReadPositions
<1>2. \A o \in Ids : f[o] \in Nat /\ OldDone[o] <= f[o] /\ OldDone[o] \in Nat
  BY <1>1, OldDoneNat DEF ShownOf, GInv, TypeOK, OldDone, OldDoneOf
<1>3. Sum(Ids, f) \in Nat /\ Sum(Ids, OldDone) <= Sum(Ids, f)
  BY <1>2, SumNat, SumUpTo, FiniteIds
<1>4. ASSUME Recent = {} PROVE Sum(Ids, f) = Sum(Ids, OldDone)
  <2>1. \A o \in Ids : OldDone[o] = f[o]
    BY <1>1, <1>4 DEF Recent, ShownOf, OldDone, OldDoneOf
  <2> QED BY <1>2, <2>1, SumSame, FiniteIds
<1>5. TypeOK'
  BY <1>1, <1>3 DEF GInv, TypeOK, ReadPositions
<1>6. OldDone' = OldDone /\ Recent' = Recent
  BY DEF OldDone, Recent, ReadPositions
<1>7. ShownInv'
  BY <1>1, <1>3, <1>4, <1>6 DEF ShownInv
<1> QED BY <1>5, <1>7 DEF GInv, OrdersInv, RowsInv, ReadPositions

\* The order the worker sends fits, as the one being placed
LEMMA PlacedFits ==
  ASSUME NEW q \in Nat, q > 0
  PROVE  Fits([Absent EXCEPT !.st = "sent", !.qty = q, !.own = TRUE, !.age = "new"], TRUE)
<1> DEFINE r == [Absent EXCEPT !.st = "sent", !.qty = q, !.own = TRUE, !.age = "new"]
<1>1. /\ r \in OrderType /\ r.st = "sent" /\ r.qty = q /\ r.done = 0 /\ r.know = "no"
      /\ r.knownDone = 0 /\ r.age = "new" /\ r.own
  BY DEF Absent, OrderType
<1> HIDE DEF r
<1>2. Fits(r, TRUE)
  BY <1>1 DEF Fits
<1> QED BY <1>2 DEF r

\* When nobody is placing an order, or the one placed changes, each order fits on its own
LEMMA OneChanged ==
  ASSUME GInv, NEW o \in Ids, NEW r, NEW p \in {o, None}, Fits(r, p = o),
         cur \in {o, None},
         order' = [order EXCEPT ![o] = r], cur' = p, pc' = IF p = o THEN "sent" ELSE "free",
         rows' = NoRows, shown' = 0, exits' = exits
  PROVE  GInv'
<1>1. order \in [Ids -> OrderType] /\ r \in OrderType
  BY DEF GInv, TypeOK, OrderType, Fits
<1>2. \A s \in Ids : order'[s] = IF s = o THEN r ELSE order[s]
  BY <1>1
<1>3. \A s \in Ids : Fits(order'[s], s = cur')
  <2> TAKE s \in Ids
  <2>1. CASE s = o
    <3>1. (s = cur') = (p = o)
      BY <2>1
    <3> QED BY <1>2, <2>1, <3>1
  <2>2. CASE s # o
    <3>1. s # cur /\ s # cur'
      BY <2>2, GuardIdsAssumption
    <3> QED BY <1>2, <2>2, <3>1, OrderFacts
  <2> QED BY <2>1, <2>2
<1>4. order' \in [Ids -> OrderType]
  BY <1>1
<1>5. rows' \in [Ids -> RowType]
  BY DEF NoRows, NoRow, RowType
<1>6. \A s \in Ids : /\ order'[s].knownDone <= order'[s].done
                     /\ order'[s].done <= order'[s].qty
                     /\ order'[s].done = order'[s].qty /\ order'[s].qty > 0
                           => order'[s].st = "final"
  BY <1>3 DEF Fits
<1>7. TypeOK'
  BY <1>4, <1>5, <1>6, GuardIdsAssumption DEF GInv, TypeOK, OrderType, RowType, NoRows
<1> QED BY <1>3, <1>7, GuardIdsAssumption DEF GInv, OrdersInv, RowsInv, ShownInv

\* The check sends an order or releases the lock
LEMMA CheckKeeps ==
  ASSUME GInv, Check
  PROVE  GInv'
<1>1. cur = None
  BY DEF GInv, TypeOK, Check
<1>2. ASSUME NEW o \in Ids, NEW q \in 1 .. Allowed,
             order' = [order EXCEPT ![o] = [Absent EXCEPT !.st = "sent", !.qty = q,
                                                          !.own = TRUE, !.age = "new"]],
             cur' = o, pc' = "sent"
      PROVE  GInv'
  <2> DEFINE r == [Absent EXCEPT !.st = "sent", !.qty = q, !.own = TRUE, !.age = "new"]
  <2>1. Fits(r, TRUE)
    <3>1. q \in Nat /\ q > 0
      OBVIOUS
    <3> QED BY <3>1, PlacedFits
  <2>2. rows' = NoRows /\ shown' = 0 /\ exits' = exits
    BY DEF Check
  <2> HIDE DEF r
  <2>3. order' = [order EXCEPT ![o] = r]
    BY <1>2 DEF r
  <2> QED BY <1>1, <1>2, <2>1, <2>2, <2>3, OneChanged
<1>3. CASE pc' = "free" /\ cur' = None /\ UNCHANGED order
  <2>1. TypeOK'
    BY <1>1, <1>3 DEF Check, GInv, TypeOK, NoRows, NoRow
  <2> QED BY <1>1, <1>3, <2>1 DEF Check, GInv, OrdersInv, RowsInv, ShownInv
<1> QED BY <1>2, <1>3 DEF Check

\* What the end of a call leaves of its order
LEMMA EndsKeeps ==
  ASSUME GInv, pc = "sent", NEW r, Fits(r, FALSE), Ends(r)
  PROVE  GInv'
<1>1. cur \in Ids /\ rows = NoRows /\ shown = 0
  BY DEF GInv, TypeOK
<1>2. cur # None
  BY <1>1, GuardIdsAssumption
<1> QED BY <1>1, <1>2, OneChanged DEF Ends

\* The order being placed
LEMMA CurFacts ==
  ASSUME GInv, pc = "sent"
  PROVE  cur \in Ids /\ order[cur] \in OrderType /\ Fits(order[cur], TRUE)
<1>1. cur \in Ids
  BY DEF GInv, TypeOK
<1> QED BY <1>1, OrderFacts

\* An unclear call leaves an uncertain placement
LEMMA UnclearKeeps ==
  ASSUME GInv, Unclear
  PROVE  GInv'
<1> DEFINE k == order[cur]
           r == [k EXCEPT !.know = "uncertain"]
<1>1. k \in OrderType /\ Fits(k, TRUE)
  BY CurFacts DEF Unclear
<1>2. /\ r \in OrderType /\ r.st = k.st /\ r.qty = k.qty /\ r.done = k.done
      /\ r.know = "uncertain" /\ r.knownDone = k.knownDone /\ r.age = k.age /\ r.own = k.own
  BY <1>1 DEF OrderType
<1>3. Fits(r, FALSE)
  <2> HIDE DEF r, k
  <2> QED BY <1>1, <1>2 DEF Fits
<1> QED BY <1>3, EndsKeeps DEF Unclear

\* A confirmed final order, with the fill read or none
LEMMA ConfirmedKeeps ==
  ASSUME GInv, Confirmed
  PROVE  GInv'
<1> DEFINE k == order[cur]
<1>1. k \in OrderType /\ Fits(k, TRUE) /\ k.st = "final"
  BY CurFacts DEF Confirmed
<1>2. PICK n \in {0, k.done} : Ends(Knows(k, "final", n))
  <2>1. PICK sure \in BOOLEAN :
           Ends(Knows(k, "final", IF sure THEN k.done ELSE 0))
    BY DEF Confirmed
  <2>2. CASE sure
    BY <2>1, <2>2
  <2>3. CASE ~sure
    BY <2>1, <2>3
  <2> QED BY <2>2, <2>3
<1> DEFINE r == Knows(k, "final", n)
<1>3. n \in Nat /\ n <= k.done
  BY <1>1 DEF OrderType
<1>4. /\ r \in OrderType /\ r.st = k.st /\ r.qty = k.qty /\ r.done = k.done
      /\ r.know = "final" /\ r.knownDone = n /\ r.age = k.age /\ r.own = k.own
  <2> HIDE DEF k
  <2> QED BY <1>1, <1>3, KnowsOf
<1>5. Fits(r, FALSE)
  <2> HIDE DEF r, k
  <2> QED BY <1>1, <1>3, <1>4 DEF Fits
<1> QED BY <1>2, <1>5, EndsKeeps DEF Confirmed

\* An order left stuck or interrupted, with the fill its last read saw
LEMMA LeftOpenKeeps ==
  ASSUME GInv, LeftOpen
  PROVE  GInv'
<1> DEFINE k == order[cur]
<1>1. k \in OrderType /\ Fits(k, TRUE) /\ k.st \in {"open", "final"}
  BY CurFacts DEF LeftOpen
<1>2. PICK n \in 0 .. k.done : Ends(Knows(k, "open", n))
  BY DEF LeftOpen
<1> DEFINE r == Knows(k, "open", n)
<1>3. n \in Nat /\ n <= k.done
  BY <1>1 DEF OrderType
<1>4. /\ r \in OrderType /\ r.st = k.st /\ r.qty = k.qty /\ r.done = k.done
      /\ r.know = "open" /\ r.knownDone = n /\ r.age = k.age /\ r.own = k.own
  <2> HIDE DEF k
  <2> QED BY <1>1, <1>3, KnowsOf
<1>5. Fits(r, FALSE)
  <2> HIDE DEF r, k
  <2> QED BY <1>1, <1>3, <1>4 DEF Fits
<1> QED BY <1>2, <1>5, EndsKeeps DEF LeftOpen

\* A process killed before the placed line leaves an order nobody knows of
LEMMA KilledKeeps ==
  ASSUME GInv, Killed
  PROVE  GInv'
<1>1. Fits(order[cur], FALSE)
  BY CurFacts DEF Killed, Fits, OrderType
<1> QED BY <1>1, EndsKeeps DEF Killed

\* Every step keeps the invariant
LEMMA StepKeeps == GInv /\ [Next]_vars => GInv'
<1> SUFFICES ASSUME GInv, [Next]_vars PROVE GInv'
  OBVIOUS
<1>1. CASE ReadBook
  BY <1>1, ReadBookKeeps
<1>2. CASE ReadPositions
  BY <1>2, ReadPositionsKeeps
<1>3. CASE Check
  BY <1>3, CheckKeeps
<1>4. CASE Refused
  BY <1>4, AbsentFits, EndsKeeps DEF Refused
<1>5. CASE Unclear
  BY <1>5, UnclearKeeps
<1>6. CASE Confirmed
  BY <1>6, ConfirmedKeeps
<1>7. CASE LeftOpen
  BY <1>7, LeftOpenKeeps
<1>8. CASE Killed
  BY <1>8, KilledKeeps
<1>9. ASSUME NEW o \in Ids,
             Resumed(o) \/ TakenOver(o) \/ Accept(o) \/ Lose(o) \/ Trade(o) \/ End(o) \/ Age(o)
             \/ Forgets(o)
      PROVE  GInv'
  BY <1>9, ResumedGood, TakenOverGood, AcceptGood, LoseGood, TradeGood, EndGood, AgeGood,
     ForgetsGood,
     MoveKeeps
<1>10. ASSUME NEW o \in Ids, OtherSell(o) PROVE GInv'
  BY <1>10, OtherSellGood, MoveKeeps DEF OtherSell
<1>11. CASE UNCHANGED vars
  <2>1. OldDone' = OldDone /\ Recent' = Recent
    BY <1>11 DEF OldDone, Recent, vars
  <2> QED BY <1>11, <2>1 DEF vars, checkVars, GInv, TypeOK, NoRows, OrdersInv, RowsInv, ShownInv
<1> QED
  BY <1>1, <1>2, <1>3, <1>4, <1>5, <1>6, <1>7, <1>8, <1>9, <1>10, <1>11
     DEF Next, Selling, Meanwhile

-----------------------------------------------------------------------------
(* The arithmetic of the check.                                                *)

TakenBy == [o \in Ids |-> TakenOf(order[o])]

\* What an order takes is a natural
LEMMA TakenOfNat == \A k \in OrderType : TakenOf(k) \in Nat
  BY DEF TakenOf, OrderType

\* So it is of every order of the model
LEMMA TakenByNat ==
  ASSUME TypeOK
  PROVE  \A o \in Ids : TakenBy[o] \in Nat
<1>1. \A o \in Ids : order[o] \in OrderType
  BY DEF TypeOK, OrderType
<1> QED BY <1>1, TakenOfNat DEF TakenBy

\* What all SELLs take, as a sum over all ids
LEMMA TakenIs ==
  ASSUME TypeOK
  PROVE  Taken(Ids) = Sum(Ids, TakenBy) /\ Taken(Ids) \in Nat
<1> DEFINE A == Ids \cap AtBroker
           g == [o \in Ids |-> IF o \in A THEN Committed[o] ELSE 0]
<1>1. \A o \in Ids : Committed[o] \in Int
  BY DEF TypeOK, Committed
<1>2. Sum(A, Committed) = Sum(Ids, g)
  <2>1. A \in SUBSET Ids
    OBVIOUS
  <2> HIDE DEF A
  <2> QED BY <1>1, <2>1, SumWithin, FiniteIds
<1>3. g = TakenBy
  BY DEF AtBroker, Committed, TakenBy, TakenOf
<1>4. Sum(Ids, TakenBy) \in Nat
  BY TakenByNat, SumNat, FiniteIds
<1> HIDE DEF g
<1> QED BY <1>2, <1>3, <1>4 DEF Taken

\* The parts of the check's arithmetic, each as a sum over all ids
PendingBy == [o \in Ids |-> IF o \in Listed THEN Remainder[o] ELSE 0]
FilledBy == [o \in Ids |-> IF o \in Listed THEN Traded[o] ELSE 0]
RecentBy == [o \in Ids |-> IF o \in Listed \cap Recent THEN Traded[o] ELSE 0]
UncertainIds == IF Remarks THEN Uncertain \ Listed ELSE Uncertain
UncertainBy == [o \in Ids |-> IF o \in UncertainIds THEN Quantity[o] ELSE 0]

\* The summands of the check are naturals
LEMMA CheckTypes ==
  ASSUME GInv, pc = "check"
  PROVE  /\ \A o \in Ids : /\ Remainder[o] \in Nat /\ Traded[o] \in Nat
                           /\ KnownDone[o] \in Nat /\ KnownOpen[o] \in Nat
                           /\ Quantity[o] \in Nat /\ OldDone[o] \in Nat
         /\ \A o \in Ids : /\ PendingBy[o] \in Nat /\ FilledBy[o] \in Nat
                           /\ RecentBy[o] \in Nat /\ UncertainBy[o] \in Nat
<1>1. \A o \in Ids : /\ Remainder[o] \in Nat /\ Traded[o] \in Nat
                     /\ KnownDone[o] \in Nat /\ KnownOpen[o] \in Nat
                     /\ Quantity[o] \in Nat /\ OldDone[o] \in Nat
  <2> TAKE o \in Ids
  <2> DEFINE k == order[o]
             w == rows[o]
  <2>1. k \in OrderType /\ w \in RowType /\ Fits(k, o = cur) /\ Tells(w, k)
    BY OrderFacts
  <2>2. /\ Remainder[o] = (IF w.st = "open" THEN k.qty - w.traded ELSE 0)
        /\ Traded[o] = w.traded /\ KnownDone[o] = k.knownDone
        /\ KnownOpen[o] = k.qty - k.knownDone /\ Quantity[o] = k.qty
        /\ OldDone[o] = (IF k.age = "old" THEN k.done ELSE 0)
    BY DEF Remainder, Traded, KnownDone, KnownOpen, Quantity, OldDone, OldDoneOf
  <2> HIDE DEF k, w
  <2> QED BY <2>1, <2>2 DEF Fits, Tells, OrderType, RowType
<1> QED BY <1>1 DEF PendingBy, FilledBy, RecentBy, UncertainBy

\* The sums of the check, each over all ids
LEMMA CheckSums ==
  ASSUME GInv, pc = "check"
  PROVE  /\ PendingQty = Sum(Ids, PendingBy) /\ BookFilled = Sum(Ids, FilledBy)
         /\ RecentFilled = Sum(Ids, RecentBy) /\ UncertainSells = Sum(Ids, UncertainBy)
         /\ PendingQty \in Nat /\ BookFilled \in Nat /\ RecentFilled \in Nat
         /\ UncertainSells \in Nat /\ OwnOpen \in Nat /\ OwnRecentExit \in Nat
         /\ OwnPending \in Nat
<1>1. \A o \in Ids : /\ Remainder[o] \in Nat /\ Traded[o] \in Nat
                     /\ KnownDone[o] \in Nat /\ KnownOpen[o] \in Nat
                     /\ Quantity[o] \in Nat
  BY CheckTypes
<1>2. /\ Listed \in SUBSET Ids /\ Listed \cap Recent \in SUBSET Ids
      /\ UncertainIds \in SUBSET Ids /\ OwnIds \cap Recent \in SUBSET Ids
      /\ {o \in Ids \ Listed : order[o].know = "open"} \in SUBSET Ids
      /\ Listed \cap OwnIds \in SUBSET Ids
  BY DEF Listed, Uncertain, UncertainIds, OwnIds
<1>3. \A A \in SUBSET Ids : IsFiniteSet(A)
  BY FiniteIds, FS_Subset
<1>4. PendingQty = Sum(Ids, PendingBy) /\ PendingQty \in Nat
  BY <1>1, <1>2, <1>3, FiniteIds, SumWithin, SumNat DEF PendingQty, PendingBy
<1>5. BookFilled = Sum(Ids, FilledBy) /\ BookFilled \in Nat
  BY <1>1, <1>2, <1>3, FiniteIds, SumWithin, SumNat DEF BookFilled, FilledBy
<1>6. RecentFilled = Sum(Ids, RecentBy) /\ RecentFilled \in Nat
  BY <1>1, <1>2, <1>3, FiniteIds, SumWithin, SumNat DEF RecentFilled, RecentBy
<1>7. UncertainSells = Sum(Ids, UncertainBy) /\ UncertainSells \in Nat
  <2>1. UncertainSells = Sum(UncertainIds, Quantity)
    BY DEF UncertainSells, UncertainIds
  <2> QED BY <2>1, <1>1, <1>2, <1>3, FiniteIds, SumWithin, SumNat DEF UncertainBy
<1>8. OwnOpen \in Nat
  BY <1>1, <1>2, <1>3, SumNat DEF OwnOpen
<1>9. OwnRecentExit \in Nat
  <2>1. {o \in OwnIds : order[o].noted} \in SUBSET Ids
    BY DEF OwnIds
  <2> QED BY <2>1, <1>1, <1>3, SumNat DEF OwnRecentExit
<1>10. OwnPending \in Nat
  BY <1>1, <1>2, <1>3, SumNat DEF OwnPending
<1> QED BY <1>4, <1>5, <1>6, <1>7, <1>8, <1>9, <1>10

\* Whatever the book and positions showed, fills that positions miss are in Unshown
LEMMA FillsAreSeen ==
  ASSUME GInv, pc = "check"
  PROVE  /\ Unshown \in Nat /\ shown \in Nat
         /\ BookFilled <= shown + Unshown
<1>1. /\ BookFilled = Sum(Ids, FilledBy) /\ RecentFilled = Sum(Ids, RecentBy)
      /\ BookFilled \in Nat /\ RecentFilled \in Nat /\ OwnRecentExit \in Nat /\ shown \in Nat
  BY CheckSums DEF GInv, TypeOK
<1>2. Sum(Ids, FilledBy) <= Sum(Ids, RecentBy) + Sum(Ids, OldDone)
  <2> DEFINE h == [o \in Ids |-> RecentBy[o] + OldDone[o]]
  <2>1. \A o \in Ids : /\ RecentBy[o] \in Nat /\ FilledBy[o] \in Nat /\ OldDone[o] \in Nat
                       /\ Traded[o] \in Nat
    BY CheckTypes
  <2>2. \A o \in Ids : FilledBy[o] <= h[o]
    <3> TAKE o \in Ids
    <3>1. CASE o \in Recent
      BY <2>1, <3>1 DEF FilledBy, RecentBy
    <3>2. CASE o \notin Recent /\ o \in Listed
      <4>1. order[o].age = "old" /\ rows[o].st # "none"
        BY <3>2 DEF Recent, Listed
      <4>2. Traded[o] = OldDone[o]
        BY <4>1, OrderFacts DEF Tells, Traded, OldDone, OldDoneOf
      <4> QED BY <4>2, <2>1, <3>2 DEF FilledBy
    <3>3. CASE o \notin Listed
      BY <2>1, <3>3 DEF FilledBy
    <3> QED BY <3>1, <3>2, <3>3
  <2>3. \A o \in Ids : h[o] \in Nat /\ h[o] = RecentBy[o] + OldDone[o]
    BY <2>1
  <2> HIDE DEF h
  <2>4. Sum(Ids, h) = Sum(Ids, RecentBy) + Sum(Ids, OldDone)
    <3>1. \A o \in Ids : RecentBy[o] \in Int /\ OldDone[o] \in Int
      BY <2>1
    <3> QED BY <3>1, <2>3, SumPlus, FiniteIds
  <2>5. Sum(Ids, FilledBy) <= Sum(Ids, h)
    BY <2>1, <2>2, <2>3, SumUpTo, FiniteIds
  <2> QED BY <2>4, <2>5
<1>3. Sum(Ids, OldDone) <= shown /\ Sum(Ids, OldDone) \in Nat
  BY CheckTypes, SumNat, FiniteIds DEF GInv, ShownInv
<1>4. BookFilled - RecentFilled <= shown
  BY <1>1, <1>2, <1>3
<1>5. ShownRecent \in Nat
  BY <1>1 DEF ShownRecent, Larger
<1> DEFINE a == Larger(0, BookFilled - shown)
           b == Smaller(a, RecentFilled)
           c == Larger(0, OwnRecentExit - ShownRecent)
<1>6. a \in Nat /\ a >= BookFilled - shown
  BY <1>1 DEF Larger
<1>7. b \in Nat /\ (b = a \/ b = RecentFilled)
  BY <1>1, <1>6 DEF Smaller
<1>8. c \in Nat
  BY <1>1, <1>5 DEF Larger
<1>9. Unshown = Larger(b, c)
  BY DEF Unshown
<1> HIDE DEF a, b, c
<1>10. Unshown \in Nat /\ Unshown >= b
  BY <1>7, <1>8, <1>9 DEF Larger
<1> QED BY <1>1, <1>4, <1>6, <1>7, <1>10

\* What the check subtracts covers whatever the orders have sold or may still sell
LEMMA Covers ==
  ASSUME GInv, pc = "check", "booklag" \notin Surprises
  PROVE  Taken(Ids) <= PendingQty + BookFilled + UncertainSells
<1> DEFINE h == [o \in Ids |-> PendingBy[o] + FilledBy[o]]
           g == [o \in Ids |-> h[o] + UncertainBy[o]]
<1>1. \A o \in Ids : PendingBy[o] \in Nat /\ FilledBy[o] \in Nat /\ UncertainBy[o] \in Nat
  BY CheckTypes
<1>2. \A o \in Ids : TakenBy[o] <= g[o]
  <2> TAKE o \in Ids
  <2> DEFINE k == order[o]
             w == rows[o]
  <2>1. k \in OrderType /\ w \in RowType /\ Fits(k, o = cur) /\ Tells(w, k) /\ o # cur
    BY OrderFacts
  <2>2. /\ PendingBy[o] = (IF w.st = "open" THEN k.qty - w.traded ELSE 0)
        /\ FilledBy[o] = (IF w.st # "none" THEN w.traded ELSE 0)
        /\ w.st = "none" /\ k.know = "uncertain" /\ k.age = "new" => UncertainBy[o] = k.qty
    BY DEF PendingBy, FilledBy, UncertainBy, Listed, Remainder, Traded, UncertainIds, Uncertain,
           Quantity
  <2>3. TakenBy[o] = TakenOf(k) /\ g[o] = PendingBy[o] + FilledBy[o] + UncertainBy[o]
    BY DEF TakenBy
  <2> HIDE DEF k, w, g, h
  <2> QED BY <1>1, <2>1, <2>2, <2>3 DEF TakenOf, Fits, Tells, OrderType, RowType
<1>3. \A o \in Ids : /\ PendingBy[o] \in Int /\ FilledBy[o] \in Int /\ UncertainBy[o] \in Int
                     /\ h[o] \in Int /\ g[o] \in Int
                     /\ h[o] = PendingBy[o] + FilledBy[o] /\ g[o] = h[o] + UncertainBy[o]
  BY <1>1
<1> HIDE DEF h, g
<1>4. Sum(Ids, h) = Sum(Ids, PendingBy) + Sum(Ids, FilledBy)
  BY <1>3, SumPlus, FiniteIds
<1>5. Sum(Ids, g) = Sum(Ids, h) + Sum(Ids, UncertainBy)
  BY <1>3, SumPlus, FiniteIds
<1>6. Sum(Ids, TakenBy) <= Sum(Ids, g)
  <2>1. \A o \in Ids : TakenBy[o] \in Int
    BY TakenByNat DEF GInv
  <2> QED BY <1>2, <1>3, <2>1, SumUpTo, FiniteIds
<1>7. Taken(Ids) = Sum(Ids, TakenBy)
  BY TakenIs DEF GInv
<1> QED BY <1>4, <1>5, <1>6, <1>7, CheckSums

\* The account holds a natural number of shares (SharesAssumption)
LEMMA TotalNat == Total \in Nat
  BY SharesAssumption DEF Total

\* The check never finds more to sell than no SELL has taken
LEMMA SellableBound ==
  ASSUME GInv, pc = "check", "booklag" \notin Surprises
  PROVE  Sellable \in Int /\ Sellable <= Total - Taken(Ids)
<1>1. /\ PendingQty \in Nat /\ BookFilled \in Nat /\ UncertainSells \in Nat /\ OwnOpen \in Nat
  BY CheckSums
<1>2. Unshown \in Nat /\ shown \in Nat /\ BookFilled <= shown + Unshown
  BY FillsAreSeen
<1>3. Taken(Ids) <= PendingQty + BookFilled + UncertainSells
  BY Covers
<1>4. Taken(Ids) \in Nat /\ Total \in Nat
  BY TakenIs, TotalNat DEF GInv
<1> QED BY <1>1, <1>2, <1>3, <1>4 DEF Sellable

-----------------------------------------------------------------------------
(* No second sale, and the exact count once every window is over.              *)

\* TakenIs, as a formula that can be primed
LEMMA TakenIsSum == TypeOK => Taken(Ids) = Sum(Ids, TakenBy) /\ Taken(Ids) \in Nat
  BY TakenIs

\* A step that changes one order changes what is taken by as much
LEMMA TakenChanges ==
  ASSUME TypeOK, TypeOK', NEW o \in Ids, NEW r, order' = [order EXCEPT ![o] = r]
  PROVE  Taken(Ids)' = Taken(Ids) - TakenOf(order[o]) + TakenOf(r)
<1>1. Taken(Ids) = Sum(Ids, TakenBy)
  BY TakenIs
<1>2. Taken(Ids)' = Sum(Ids, TakenBy')
  <2>1. TypeOK' => (Taken(Ids) = Sum(Ids, TakenBy))'
    BY TakenIsSum, PTL
  <2> QED BY <2>1
<1>3. \A p \in Ids : order'[p] = IF p = o THEN r ELSE order[p]
  BY DEF TypeOK
<1>4. \A p \in Ids : TakenBy[p] = TakenOf(order[p]) /\ TakenBy'[p] = TakenOf(order'[p])
  BY DEF TakenBy
<1>5. \A p \in Ids : TakenBy[p] \in Int /\ TakenBy'[p] \in Int
  <2>1. \A p \in Ids : order[p] \in OrderType /\ order'[p] \in OrderType
    BY DEF TypeOK, OrderType
  <2>2. \A p \in Ids : TakenOf(order[p]) \in Nat /\ TakenOf(order'[p]) \in Nat
    BY <2>1, TakenOfNat
  <2> QED BY <2>2, <1>4
<1>6. \A p \in Ids : p # o => TakenBy'[p] = TakenBy[p]
  BY <1>3, <1>4
<1>7. Sum(Ids, TakenBy') = Sum(Ids, TakenBy) - TakenBy[o] + TakenBy'[o]
  BY <1>5, <1>6, SumUpdate, FiniteIds
<1> QED BY <1>1, <1>2, <1>3, <1>4, <1>7

\* An order that takes no more than before
LEMMA NoMoreTaken ==
  ASSUME GInv, GInv', NoSecondSale, NEW o \in Ids, NEW r, r \in OrderType,
         order' = [order EXCEPT ![o] = r], TakenOf(r) <= TakenOf(order[o])
  PROVE  NoSecondSale'
<1>1. Taken(Ids)' = Taken(Ids) - TakenOf(order[o]) + TakenOf(r)
  BY TakenChanges DEF GInv
<1>2. TakenOf(r) \in Nat /\ TakenOf(order[o]) \in Nat /\ Taken(Ids) \in Nat /\ Total \in Nat
  BY TakenOfNat, TakenIs, OrderFacts, TotalNat DEF GInv
<1>3. Taken(Ids)' <= Total
  BY <1>1, <1>2 DEF NoSecondSale
<1> QED BY <1>3 DEF NoSecondSale, Total

\* An order that takes q shares of those that are free
LEMMA FreeTaken ==
  ASSUME GInv, GInv', NEW o \in Ids, NEW r, NEW q \in Nat, order[o].st = "absent",
         order' = [order EXCEPT ![o] = r], TakenOf(r) = q, q <= Total - Taken(Ids)
  PROVE  NoSecondSale'
<1>1. TakenOf(order[o]) = 0
  BY DEF TakenOf
<1>2. Taken(Ids)' = Taken(Ids) - 0 + q
  BY <1>1, TakenChanges DEF GInv
<1>3. Taken(Ids) \in Nat /\ Total \in Nat
  BY TakenIs, TotalNat DEF GInv
<1>4. Taken(Ids)' <= Total
  BY <1>2, <1>3
<1> QED BY <1>4 DEF NoSecondSale, Total

\* A step that changes no order takes nothing
LEMMA SameTaken ==
  ASSUME NoSecondSale, order' = order
  PROVE  NoSecondSale'
  BY DEF NoSecondSale, Taken, AtBroker, Committed, Total

\* The end of a call takes no more
LEMMA EndsTakesNoMore ==
  ASSUME GInv, GInv', NoSecondSale, pc = "sent", NEW r, r \in OrderType, Ends(r),
         TakenOf(r) <= TakenOf(order[cur])
  PROVE  NoSecondSale'
  BY CurFacts, NoMoreTaken DEF Ends

\* What the check allows is no more than what is free
LEMMA AllowedBound ==
  ASSUME GInv, pc = "check", "booklag" \notin Surprises
  PROVE  Allowed \in Int /\ Allowed <= Total - Taken(Ids)
<1>1. Sellable \in Int /\ Sellable <= Total - Taken(Ids)
  BY SellableBound
<1> DEFINE a == Bought - shown - (OwnPending + OwnOpen + Unshown + UncertainSells)
<1>2. a \in Int
  BY CheckSums, FillsAreSeen, SharesAssumption
<1>3. Total - Taken(Ids) \in Int
  BY TakenIs, TotalNat DEF GInv
<1>4. PositionSellable = Smaller(a, Sellable)
  BY DEF PositionSellable
<1> HIDE DEF a
<1>5. PositionSellable \in Int /\ PositionSellable <= Total - Taken(Ids)
  BY <1>1, <1>2, <1>3, <1>4 DEF Smaller
<1> QED BY <1>1, <1>5 DEF Allowed

\* What the check lets through was free
LEMMA CheckTakesFree ==
  ASSUME GInv, GInv', NoSecondSale, "booklag" \notin Surprises, Check
  PROVE  NoSecondSale'
<1>1. ASSUME NEW o \in Ids, NEW q \in 1 .. Allowed, order[o].st = "absent",
             order' = [order EXCEPT ![o] = [Absent EXCEPT !.st = "sent", !.qty = q,
                                                          !.own = TRUE, !.age = "new"]]
      PROVE  NoSecondSale'
  <2> DEFINE r == [Absent EXCEPT !.st = "sent", !.qty = q, !.own = TRUE, !.age = "new"]
  <2>1. Allowed \in Int /\ Allowed <= Total - Taken(Ids)
    BY AllowedBound DEF Check
  <2>2. Taken(Ids) \in Nat /\ Total \in Nat
    BY TakenIs, TotalNat DEF GInv
  <2>3. q \in Nat /\ q <= Total - Taken(Ids)
    BY <2>1, <2>2
  <2>4. TakenOf(r) = q
    BY DEF TakenOf, Absent
  <2> HIDE DEF r
  <2>5. order' = [order EXCEPT ![o] = r]
    BY <1>1 DEF r
  <2> QED BY <1>1, <2>3, <2>4, <2>5, FreeTaken
<1>2. CASE UNCHANGED order
  BY <1>2, SameTaken
<1> QED BY <1>1, <1>2 DEF Check

\* A call that is not refused ends with what Skopaq knows of its order, no more
LEMMA EndsAs ==
  ASSUME GInv, Unclear \/ Confirmed \/ LeftOpen \/ Killed
  PROVE  \E r \in OrderType : Ends(r) /\ TakenOf(r) = TakenOf(order[cur])
<1> DEFINE k == order[cur]
<1>1. k \in OrderType /\ pc = "sent"
  BY CurFacts DEF Unclear, Confirmed, LeftOpen, Killed
<1>2. ASSUME NEW w \in {"open", "final"}, NEW n \in Nat, Ends(Knows(k, w, n))
      PROVE  \E r \in OrderType : Ends(r) /\ TakenOf(r) = TakenOf(k)
  <2> DEFINE r == Knows(k, w, n)
  <2>1. r \in OrderType /\ TakenOf(r) = TakenOf(k)
    <3> HIDE DEF k
    <3>1. r \in OrderType /\ r.st = k.st /\ r.qty = k.qty /\ r.done = k.done
      BY <1>1, KnowsOf
    <3> HIDE DEF r
    <3> QED BY <3>1 DEF TakenOf
  <2> QED BY <1>2, <2>1
<1>3. CASE Unclear
  <2> DEFINE r == [k EXCEPT !.know = "uncertain"]
  <2>1. r \in OrderType /\ TakenOf(r) = TakenOf(k)
    <3> HIDE DEF k
    <3> QED BY <1>1 DEF OrderType, TakenOf
  <2> QED BY <1>3, <2>1 DEF Unclear
<1>4. CASE Confirmed
  <2>1. k.done \in Nat /\ 0 \in Nat
    BY <1>1 DEF OrderType
  <2>2. PICK sure \in BOOLEAN : Ends(Knows(k, "final", IF sure THEN k.done ELSE 0))
    BY <1>4 DEF Confirmed
  <2>3. (IF sure THEN k.done ELSE 0) \in Nat
    BY <2>1
  <2> QED BY <1>2, <2>2, <2>3
<1>5. CASE LeftOpen
  <2>1. PICK n \in 0 .. k.done : Ends(Knows(k, "open", n))
    BY <1>5 DEF LeftOpen
  <2>2. n \in Nat
    OBVIOUS
  <2> QED BY <1>2, <2>1, <2>2
<1>6. CASE Killed
  BY <1>1, <1>6 DEF Killed
<1> QED BY <1>3, <1>4, <1>5, <1>6

\* No step takes more than there is: a check by what it allows, every other step because what
\* its order takes does not grow
LEMMA StepNoSecondSale ==
  ASSUME GInv, GInv', NoSecondSale, "booklag" \notin Surprises, [Next]_vars
  PROVE  NoSecondSale'
<1>1. CASE ReadBook \/ ReadPositions \/ UNCHANGED vars
  BY <1>1, SameTaken DEF ReadBook, ReadPositions, vars
<1>2. CASE Check
  BY <1>2, CheckTakesFree
<1>3. CASE Refused
  <2>1. Absent \in OrderType /\ TakenOf(Absent) = 0
    BY DEF Absent, OrderType, TakenOf
  <2>2. TakenOf(order[cur]) \in Nat
    BY <1>3, CurFacts, TakenOfNat DEF Refused
  <2> QED BY <1>3, <2>1, <2>2, EndsTakesNoMore DEF Refused
<1>4. CASE Unclear \/ Confirmed \/ LeftOpen \/ Killed
  <2>1. PICK r \in OrderType : Ends(r) /\ TakenOf(r) = TakenOf(order[cur])
    BY <1>4, EndsAs
  <2>2. pc = "sent"
    BY <1>4 DEF Unclear, Confirmed, LeftOpen, Killed
  <2>3. TakenOf(r) <= TakenOf(order[cur])
    BY <2>1, TakenOfNat
  <2> QED BY <2>1, <2>2, <2>3, EndsTakesNoMore
<1>5. ASSUME NEW o \in Ids,
             Resumed(o) \/ TakenOver(o) \/ Accept(o) \/ Lose(o) \/ Trade(o) \/ End(o) \/ Age(o)
             \/ Forgets(o)
      PROVE  NoSecondSale'
  <2>1. PICK r : GoodMove(o, r) /\ Moves(o, r) /\ TakenOf(r) <= TakenOf(order[o])
    BY <1>5, ResumedGood, TakenOverGood, AcceptGood, LoseGood, TradeGood, EndGood, AgeGood,
     ForgetsGood
  <2> QED BY <2>1, NoMoreTaken DEF GoodMove, Fits, Moves
<1>6. ASSUME NEW o \in Ids, OtherSell(o) PROVE NoSecondSale'
  <2>1. PICK q \in 1 .. (Total - Taken(Ids)) :
           Moves(o, [Absent EXCEPT !.st = "open", !.qty = q, !.age = "new"])
    BY <1>6 DEF OtherSell
  <2> DEFINE r == [Absent EXCEPT !.st = "open", !.qty = q, !.age = "new"]
  <2>2. Taken(Ids) \in Nat /\ Total \in Nat
    BY TakenIs, TotalNat DEF GInv
  <2>3. q \in Nat /\ q <= Total - Taken(Ids)
    BY <2>2
  <2>4. TakenOf(r) = q /\ order' = [order EXCEPT ![o] = r]
    BY <2>1 DEF TakenOf, Absent, Moves
  <2> HIDE DEF r
  <2> QED BY <1>6, <2>3, <2>4, FreeTaken DEF OtherSell
<1> QED
  BY <1>1, <1>2, <1>3, <1>4, <1>5, <1>6 DEF Next, Selling, Meanwhile

\* Every reachable state satisfies the inductive invariant
THEOREM Invariant == Spec => []GInv
<1>1. Init => GInv
  BY InitGInv
<1>2. GInv /\ [Next]_vars => GInv'
  BY StepKeeps
<1> QED BY <1>1, <1>2, PTL DEF Spec

\* The pc, the reads and the order being placed go together, and no fill exceeds its order
THEOREM Types == Spec => []TypeOK
<1>1. GInv => TypeOK
  BY DEF GInv
<1> QED BY <1>1, Invariant, PTL

\* No share is sold twice (execute_signal under the sell lock, with sellable_quantity): unless
\* the book leaves out an accepted order, SELLs of all sellers never commit more than the
\* account had, for any number of orders, stuck, uncertain, killed, unknown or not ours
THEOREM NotSoldTwice ==
  ASSUME "booklag" \notin Surprises
  PROVE  Spec => []NoSecondSale
<1>1. Init => NoSecondSale
  <2> SUFFICES ASSUME Init PROVE NoSecondSale
    OBVIOUS
  <2>1. \A o \in Ids : TakenBy[o] = 0
    BY DEF Init, Absent, TakenBy, TakenOf
  <2>2. Sum(Ids, TakenBy) = 0
    BY <2>1, SumZero, FiniteIds
  <2>3. Taken(Ids) = 0
    BY <2>2, InitGInv, TakenIs DEF GInv
  <2> QED BY <2>3, TotalNat DEF NoSecondSale
<1>2. GInv /\ GInv' /\ NoSecondSale /\ [Next]_vars => NoSecondSale'
  BY StepNoSecondSale
<1> QED BY <1>1, <1>2, Invariant, PTL DEF Spec

\* Once every lag window is over, the check's parts add up to what is taken and what is held back
LEMMA ExactCheck ==
  ASSUME GInv
  PROVE  ExactOnceShown
<1> SUFFICES ASSUME pc = "check", Recent = {}
             PROVE  Sellable = Total - Taken(Ids) - Sum(HeldBack, KnownDone)
  BY DEF ExactOnceShown
<1>1. \A o \in Ids : /\ order[o].age = "old" /\ order[o] \in OrderType /\ rows[o] \in RowType
                     /\ Fits(order[o], FALSE) /\ Tells(rows[o], order[o])
  BY OrderFacts DEF Recent
<1>2. RecentFilled = 0 /\ OwnRecentExit = Sum(HeldBack, KnownDone)
  <2>1. Listed \cap Recent = {}
    OBVIOUS
  <2>2. HeldBack = {o \in OwnIds : order[o].noted}
    BY <1>1 DEF HeldBack, Mine, OwnIds, Fits, OrderType
  <2> QED BY <2>1, <2>2, SumEmpty DEF RecentFilled, OwnRecentExit
<1>3. UncertainSells = 0
  <2>1. Uncertain = {}
    BY <1>1 DEF Uncertain
  <2>2. Uncertain \ Listed = {}
    BY <2>1
  <2> QED BY <2>1, <2>2, SumEmpty DEF UncertainSells
<1>4. OwnOpen = 0
  <2>1. {o \in Ids \ Listed : order[o].know = "open"} = {}
    BY <1>1 DEF Listed, Fits, Tells, OrderType
  <2> QED BY <2>1, SumEmpty DEF OwnOpen
<1>5. Unshown = OwnRecentExit
  <2>1. BookFilled = Sum(Ids, FilledBy) /\ OwnRecentExit \in Nat /\ shown \in Nat
    BY CheckSums, FillsAreSeen
  <2>2. \A o \in Ids : FilledBy[o] = OldDone[o]
    BY <1>1 DEF FilledBy, Traded, Listed, OldDone, OldDoneOf, Fits, Tells, OrderType
  <2>3. BookFilled = shown
    <3>1. \A o \in Ids : OldDone[o] \in Int
      BY CheckTypes
    <3>2. Sum(Ids, FilledBy) = Sum(Ids, OldDone)
      BY <2>2, <3>1, SumSame, FiniteIds
    <3> QED BY <2>1, <3>2 DEF GInv, ShownInv
  <2>4. ShownRecent = 0
    BY <1>2, <2>1, <2>3 DEF ShownRecent, Larger
  <2>5. Smaller(Larger(0, BookFilled - shown), RecentFilled) = 0
    BY <1>2, <2>1, <2>3 DEF Smaller, Larger
  <2> QED BY <2>1, <2>4, <2>5 DEF Unshown, Larger
<1>6. Taken(Ids) = PendingQty + shown
  <2>1. \A o \in Ids : TakenBy[o] = PendingBy[o] + OldDone[o]
    <3> TAKE o \in Ids
    <3> DEFINE k == order[o]
               w == rows[o]
    <3>1. /\ k.age = "old" /\ k \in OrderType /\ w \in RowType
          /\ Fits(k, FALSE) /\ Tells(w, k)
      BY <1>1
    <3>2. /\ PendingBy[o] = (IF w.st = "open" THEN k.qty - w.traded ELSE 0)
          /\ OldDone[o] = k.done /\ TakenBy[o] = TakenOf(k)
      BY <3>1 DEF PendingBy, Listed, Remainder, OldDone, OldDoneOf, TakenBy
    <3> HIDE DEF k, w
    <3> QED BY <3>1, <3>2 DEF TakenOf, Fits, Tells, OrderType, RowType
  <2>2. \A o \in Ids : PendingBy[o] \in Int /\ OldDone[o] \in Int
    BY CheckTypes
  <2>3. Sum(Ids, TakenBy) = Sum(Ids, PendingBy) + Sum(Ids, OldDone)
    BY <2>1, <2>2, SumPlus, FiniteIds
  <2> QED BY <2>3, TakenIs, CheckSums DEF GInv, ShownInv
<1>7. PendingQty \in Nat /\ shown \in Nat /\ Total \in Nat /\ OwnRecentExit \in Nat
  BY CheckSums, FillsAreSeen, TotalNat
<1> QED BY <1>2, <1>3, <1>4, <1>5, <1>6, <1>7 DEF Sellable

\* No share is blocked for good either: a check after the lag window of every order counts
\* exactly what no SELL has taken, less the fills of its own that were confirmed within the
\* last window, however the orders before it ended (sellable_quantity)
THEOREM ExactlyWhatIsFree == Spec => []ExactOnceShown
<1>1. GInv => ExactOnceShown
  BY ExactCheck
<1> QED BY <1>1, Invariant, PTL

-----------------------------------------------------------------------------
(* Exits keep the holdings.                                                    *)

\* The shares taken by the orders the code knows to be its own
CountedBy == [o \in Ids |-> IF o \in Counted THEN TakenOf(order[o]) ELSE 0]

CountedAdds ==
    Taken(Counted) = Sum(Ids, CountedBy) /\ \A o \in Ids : CountedBy[o] \in Nat

\* What the exits known to be Skopaq's take is the sum of CountedBy
LEMMA CountedIsSum == TypeOK => CountedAdds
<1> SUFFICES ASSUME TypeOK
             PROVE  Taken(Counted) = Sum(Ids, CountedBy) /\ \A o \in Ids : CountedBy[o] \in Nat
  BY DEF CountedAdds
<1> DEFINE A == Counted \cap AtBroker
           g == [o \in Ids |-> IF o \in A THEN Committed[o] ELSE 0]
<1>1. \A o \in Ids : Committed[o] \in Int
  BY DEF TypeOK, Committed
<1>2. Sum(A, Committed) = Sum(Ids, g)
  <2>1. A \in SUBSET Ids
    BY DEF AtBroker
  <2> HIDE DEF A
  <2> QED BY <1>1, <2>1, SumWithin, FiniteIds
<1>3. g = CountedBy
  BY DEF AtBroker, Committed, CountedBy, TakenOf
<1>4. \A o \in Ids : TakenOf(order[o]) \in Nat
  BY TakenByNat DEF TakenBy
<1> HIDE DEF g
<1> QED BY <1>2, <1>3, <1>4 DEF Taken, CountedBy

OwnPendingBy == [o \in Ids |-> IF o \in Listed \cap OwnIds THEN Remainder[o] ELSE 0]

\* What an exit may sell leaves room for all the exits known to be Skopaq's own
LEMMA PositionSellableBound ==
  ASSUME GInv, pc = "check", "booklag" \notin Surprises
  PROVE  PositionSellable \in Int /\ PositionSellable <= Bought - Taken(Counted)
<1> DEFINE h == [o \in Ids |-> OwnPendingBy[o] + FilledBy[o]]
           g == [o \in Ids |-> h[o] + UncertainBy[o]]
<1>1. \A o \in Ids : /\ OwnPendingBy[o] \in Nat /\ FilledBy[o] \in Nat
                     /\ UncertainBy[o] \in Nat /\ CountedBy[o] \in Nat
  BY CheckTypes, CountedIsSum DEF OwnPendingBy, GInv, CountedAdds
<1>2. \A o \in Ids : CountedBy[o] <= g[o]
  <2> TAKE o \in Ids
  <2> DEFINE k == order[o]
             w == rows[o]
  <2>1. k \in OrderType /\ w \in RowType /\ Fits(k, o = cur) /\ Tells(w, k) /\ o # cur
    BY OrderFacts
  <2>2. /\ w.st # "none" /\ k.know \in {"open", "final"}
              => OwnPendingBy[o] = (IF w.st = "open" THEN k.qty - w.traded ELSE 0)
        /\ FilledBy[o] = (IF w.st # "none" THEN w.traded ELSE 0)
        /\ k.know = "uncertain" /\ k.age = "new" /\ ~Remarks => UncertainBy[o] = k.qty
    BY DEF OwnPendingBy, OwnIds, FilledBy, UncertainBy, Listed, Remainder, Traded,
           UncertainIds, Uncertain, Quantity
  <2>3. /\ CountedBy[o] = TakenOf(k) \/ CountedBy[o] = 0
        /\ CountedBy[o] # 0 => \/ k.know \in {"open", "final"}
                               \/ k.know = "uncertain" /\ k.age = "new" /\ ~Remarks
    BY <2>1 DEF CountedBy, Counted, Uncertain
  <2>4. g[o] = OwnPendingBy[o] + FilledBy[o] + UncertainBy[o]
    OBVIOUS
  <2> HIDE DEF k, w, g, h
  <2>5. CASE CountedBy[o] = 0
    BY <1>1, <2>4, <2>5
  <2>6. CASE k.know \in {"open", "final"} /\ CountedBy[o] = TakenOf(k)
    BY <1>1, <2>1, <2>2, <2>4, <2>6 DEF TakenOf, Fits, Tells, OrderType, RowType
  <2>7. CASE k.know = "uncertain" /\ k.age = "new" /\ ~Remarks /\ CountedBy[o] = TakenOf(k)
    BY <1>1, <2>1, <2>2, <2>4, <2>7 DEF TakenOf, Fits, OrderType
  <2> QED BY <2>3, <2>5, <2>6, <2>7
<1>3. \A o \in Ids : /\ OwnPendingBy[o] \in Int /\ FilledBy[o] \in Int /\ UncertainBy[o] \in Int
                     /\ h[o] \in Int /\ g[o] \in Int /\ CountedBy[o] \in Int
                     /\ h[o] = OwnPendingBy[o] + FilledBy[o] /\ g[o] = h[o] + UncertainBy[o]
  BY <1>1
<1> HIDE DEF h, g
<1>4. /\ Sum(Ids, h) = Sum(Ids, OwnPendingBy) + Sum(Ids, FilledBy)
      /\ Sum(Ids, g) = Sum(Ids, h) + Sum(Ids, UncertainBy)
      /\ Sum(Ids, CountedBy) <= Sum(Ids, g)
  BY <1>2, <1>3, SumPlus, SumUpTo, FiniteIds
<1>5. Sum(Ids, CountedBy) = Taken(Counted) /\ Taken(Counted) \in Nat
  BY <1>1, CountedIsSum, SumNat, FiniteIds DEF GInv, CountedAdds
<1>6. OwnPending = Sum(Ids, OwnPendingBy)
  <2>1. Listed \cap OwnIds \in SUBSET Ids
    BY DEF Listed
  <2>2. \A o \in Ids : Remainder[o] \in Int
    BY CheckTypes
  <2> QED BY <2>1, <2>2, SumWithin, FiniteIds DEF OwnPending, OwnPendingBy
<1>7. /\ BookFilled = Sum(Ids, FilledBy) /\ UncertainSells = Sum(Ids, UncertainBy)
      /\ OwnPending \in Nat /\ BookFilled \in Nat /\ UncertainSells \in Nat /\ OwnOpen \in Nat
      /\ Unshown \in Nat /\ shown \in Nat /\ BookFilled <= shown + Unshown
  BY CheckSums, FillsAreSeen
<1>8. Taken(Counted) <= OwnPending + BookFilled + UncertainSells
  BY <1>4, <1>5, <1>6, <1>7
<1> DEFINE a == Bought - shown - (OwnPending + OwnOpen + Unshown + UncertainSells)
<1>9. a \in Int /\ a <= Bought - Taken(Counted)
  BY <1>5, <1>7, <1>8, SharesAssumption
<1>10. PositionSellable = Smaller(a, Sellable) /\ Sellable \in Int
  BY SellableBound DEF PositionSellable
<1>11. Bought - Taken(Counted) \in Int
  BY <1>5, SharesAssumption
<1> HIDE DEF a
<1> QED BY <1>9, <1>10, <1>11 DEF Smaller

\* The step that places an exit
LEMMA ExitPlaced ==
  ASSUME GInv, GInv', "booklag" \notin Surprises, exits, Check, cur' # None
  PROVE  (Taken(Counted) <= Bought)'
<1>1. PICK o \in Ids, q \in 1 .. Allowed :
         /\ order[o].st = "absent" /\ cur' = o
         /\ order' = [order EXCEPT ![o] = [Absent EXCEPT !.st = "sent", !.qty = q,
                                                        !.own = TRUE, !.age = "new"]]
  BY DEF Check
<1> DEFINE r == [Absent EXCEPT !.st = "sent", !.qty = q, !.own = TRUE, !.age = "new"]
<1>2. /\ PositionSellable \in Int /\ PositionSellable <= Bought - Taken(Counted)
      /\ Allowed = PositionSellable
  BY PositionSellableBound DEF Check, Allowed
<1>3. /\ Taken(Counted) = Sum(Ids, CountedBy) /\ Taken(Counted)' = Sum(Ids, CountedBy')
      /\ \A p \in Ids : CountedBy[p] \in Nat /\ CountedBy'[p] \in Nat
  <2>1. TypeOK' => CountedAdds'
    BY CountedIsSum, PTL
  <2> QED BY <2>1, CountedIsSum DEF GInv, CountedAdds
<1>4. Sum(Ids, CountedBy) \in Nat
  BY <1>3, SumNat, FiniteIds
<1>5. q \in Nat /\ q <= Bought - Sum(Ids, CountedBy)
  BY <1>2, <1>3, <1>4, SharesAssumption
<1>6. TakenOf(r) = q /\ r.know = "no"
  BY DEF TakenOf, Absent
<1> HIDE DEF r
<1>7. \A p \in Ids : order'[p] = IF p = o THEN r ELSE order[p]
  BY <1>1 DEF GInv, TypeOK, r
<1>8. CountedBy[o] = 0
  BY <1>1 DEF CountedBy, TakenOf
<1>9. CountedBy'[o] \in {0, q}
  BY <1>6, <1>7 DEF CountedBy
<1>10. \A p \in Ids : p # o => CountedBy'[p] = CountedBy[p]
  <2> SUFFICES ASSUME NEW p \in Ids, p # o PROVE CountedBy'[p] = CountedBy[p]
    OBVIOUS
  <2>1. order'[p] = order[p] /\ p # cur /\ p # cur'
    BY <1>1, <1>7, OrderFacts DEF Check
  <2>2. (p \in Counted)' <=> p \in Counted
    BY <2>1 DEF Counted, Mine, Uncertain
  <2> QED BY <2>1, <2>2 DEF CountedBy
<1>11. Sum(Ids, CountedBy') = Sum(Ids, CountedBy) - CountedBy[o] + CountedBy'[o]
  <2>1. \A p \in Ids : CountedBy[p] \in Int /\ CountedBy'[p] \in Int
    BY <1>3
  <2> QED BY <1>10, <2>1, SumUpdate, FiniteIds
<1>12. Taken(Counted)' <= Bought
  BY <1>3, <1>4, <1>5, <1>8, <1>9, <1>11, SharesAssumption
<1> QED BY <1>12

\* A protective exit leaves the holdings alone (position_sellable_quantity): with the exits
\* the code knows to be its own when it sends it, it never takes more than was bought
THEOREM ExitsKeepHoldings ==
  ASSUME "booklag" \notin Surprises
  PROVE  Spec => KnownExitsKeepHoldings
<1>1. GInv /\ GInv' /\ [Next]_vars
        => [exits /\ cur = None /\ cur' # None => (Taken(Counted) <= Bought)']_vars
  <2> SUFFICES ASSUME GInv, GInv', [Next]_vars, exits, cur = None, cur' # None
               PROVE  (Taken(Counted) <= Bought)'
    OBVIOUS
  <2>1. Check
    BY DEF Next, Selling, Meanwhile, ReadBook, ReadPositions, Refused, Unclear, Confirmed,
           LeftOpen, Killed, Ends, Resumed, TakenOver, Accept, Lose, Trade, End, Age,
           Forgets, OtherSell, Moves, checkVars, vars
  <2> QED BY <2>1, ExitPlaced
<1> QED BY <1>1, Invariant, PTL DEF Spec, KnownExitsKeepHoldings

-----------------------------------------------------------------------------
(* The trade rows: their sums. *)

\* The rows of the table, and the calls that book
RowRecords == [order : Orders \cup {NoOrder}, qty : Nat, pend : Nat,
               status : {"open", "closed", "gone"}, pnl : Nat]
Lotted == {"split", "keep", "part", "undo", "whole"}
CallRecords == [pc : {"idle", "late", "find"} \cup Lotted, order : Orders \cup {NoOrder},
                left : Nat, lots : Nat, handled : SUBSET Nat, row : Nat, qty : Nat, pend : Nat,
                saved : Nat, again : BOOLEAN]

\* What a row has for the loss limits, and what it has open; over all rows
PnlOf(r) == IF r.status = "closed" THEN r.pnl ELSE 0
OpenOf(r) == IF r.status = "open" THEN r.qty - r.pend ELSE 0
PnlIn(T) == Sum(1 .. Len(T), [i \in 1 .. Len(T) |-> PnlOf(T[i])])
OpenIn(T) == Sum(1 .. Len(T), [i \in 1 .. Len(T) |-> OpenOf(T[i])])

\* Row numbers are finitely many.
LEMMA FiniteRows == ASSUME NEW n \in Nat PROVE IsFiniteSet(1 .. n)
BY FS_Interval

\* The sum of the model over orders
LEMMA SharesOfIs == ASSUME NEW f \in [Orders -> Nat] PROVE SharesOf(f) = Sum(Orders, f)
BY DEF SharesOf, SumFunction, Sum

\* A sum over one more row
LEMMA SumAppend ==
  ASSUME NEW n \in Nat, NEW f, NEW g, \A i \in 1 .. n : f[i] \in Int /\ g[i] = f[i],
         g[n + 1] \in Int
  PROVE  Sum(1 .. n + 1, g) = Sum(1 .. n, f) + g[n + 1]
<1>1. IsFiniteSet(1 .. n + 1) /\ IsFiniteSet(1 .. n)  BY FiniteRows
<1>2. \A s \in 1 .. n + 1 : g[s] \in Int  OBVIOUS
<1>3. n + 1 \in 1 .. n + 1 /\ (1 .. n + 1) \ {n + 1} = 1 .. n  OBVIOUS
<1>4. Sum(1 .. n + 1, g) = g[n + 1] + Sum(1 .. n, g)  BY <1>1, <1>2, <1>3, SumRemove
<1>5. Sum(1 .. n, g) = Sum(1 .. n, f)  BY <1>1, SumSame
<1>6. Sum(1 .. n, f) \in Int  BY <1>1, SumInt
<1> QED BY <1>4, <1>5, <1>6

\* g is f but for x
Differs(S, f, g, x) ==
    /\ IsFiniteSet(S) /\ x \in S
    /\ \A s \in S : f[s] \in Int /\ g[s] \in Int
    /\ \A s \in S : s # x => g[s] = f[s]

\* A sum changes as its one changed value does.
LEMMA SumDiffers ==
  ASSUME NEW S, NEW f, NEW g, NEW x, Differs(S, f, g, x)
  PROVE  Sum(S, g) = Sum(S, f) - f[x] + g[x]
BY SumUpdate DEF Differs

\* Values of rows are whole numbers
LEMMA RowValues ==
  ASSUME NEW r \in RowRecords
  PROVE  PnlOf(r) \in Nat /\ OpenOf(r) \in Int
BY DEF RowRecords, PnlOf, OpenOf

\* The model's sums over open and over closed rows are sums over all of them.
LEMMA OpenIs == ASSUME trades \in Seq(RowRecords) PROVE Open = OpenIn(trades)
<1> DEFINE n == Len(trades)
           f == [i \in 1 .. n |-> OpenOf(trades[i])]
           g == [i \in OpenRows |-> trades[i].qty - trades[i].pend]
<1>1. n \in Nat /\ DOMAIN trades = 1 .. n /\ \A i \in 1 .. n : trades[i] \in RowRecords
  BY LenProperties, ElementOfSeq
<1>2. OpenRows \in SUBSET (1 .. n)  BY <1>1 DEF OpenRows
<1>3. IsFiniteSet(1 .. n)  BY <1>1, FiniteRows
<1>4. IsFiniteSet(OpenRows)  BY <1>2, <1>3, FS_Subset
<1>5. \A i \in 1 .. n : f[i] \in Int  BY <1>1, RowValues
<1>6. \A i \in OpenRows : f[i] \in Int /\ g[i] = f[i]
  BY <1>1, <1>2, <1>5 DEF OpenRows, OpenOf
<1>7. Sum(OpenRows, g) = Sum(OpenRows, f)  BY <1>4, <1>6, SumSame
<1>8. Sum(OpenRows, f) = Sum(1 .. n, [i \in 1 .. n |-> IF i \in OpenRows THEN f[i] ELSE 0])
  <2> DEFINE S == 1 .. n
  <2>1. \A i \in S : f[i] \in Int  BY <1>5
  <2>2. IsFiniteSet(S) /\ OpenRows \in SUBSET S  BY <1>2, <1>3
  <2>3. Sum(OpenRows, f) = Sum(S, [i \in S |-> IF i \in OpenRows THEN f[i] ELSE 0])
    <3> HIDE DEF f, S
    <3> QED BY <2>1, <2>2, SumWithin
  <2> QED BY <2>3
<1>9. [i \in 1 .. n |-> IF i \in OpenRows THEN f[i] ELSE 0] = f
  BY <1>1 DEF OpenRows, OpenOf
<1> QED BY <1>7, <1>8, <1>9 DEF Open, OpenIn, Sum

\* And for the P&L
LEMMA BookedPnlIs == ASSUME trades \in Seq(RowRecords) PROVE BookedPnl = PnlIn(trades)
<1> DEFINE n == Len(trades)
           f == [i \in 1 .. n |-> PnlOf(trades[i])]
           g == [i \in ClosedRows |-> trades[i].pnl]
<1>1. n \in Nat /\ DOMAIN trades = 1 .. n /\ \A i \in 1 .. n : trades[i] \in RowRecords
  BY LenProperties, ElementOfSeq
<1>2. ClosedRows \in SUBSET (1 .. n)  BY <1>1 DEF ClosedRows
<1>3. IsFiniteSet(1 .. n)  BY <1>1, FiniteRows
<1>4. IsFiniteSet(ClosedRows)  BY <1>2, <1>3, FS_Subset
<1>5. \A i \in 1 .. n : f[i] \in Int  BY <1>1, RowValues
<1>6. \A i \in ClosedRows : f[i] \in Int /\ g[i] = f[i]
  BY <1>1, <1>2, <1>5 DEF ClosedRows, PnlOf
<1>7. Sum(ClosedRows, g) = Sum(ClosedRows, f)  BY <1>4, <1>6, SumSame
<1>8. Sum(ClosedRows, f) = Sum(1 .. n, [i \in 1 .. n |-> IF i \in ClosedRows THEN f[i] ELSE 0])
  <2> DEFINE S == 1 .. n
  <2>1. \A i \in S : f[i] \in Int  BY <1>5
  <2>2. IsFiniteSet(S) /\ ClosedRows \in SUBSET S  BY <1>2, <1>3
  <2>3. Sum(ClosedRows, f) = Sum(S, [i \in S |-> IF i \in ClosedRows THEN f[i] ELSE 0])
    <3> HIDE DEF f, S
    <3> QED BY <2>1, <2>2, SumWithin
  <2> QED BY <2>3
<1>9. [i \in 1 .. n |-> IF i \in ClosedRows THEN f[i] ELSE 0] = f
  BY <1>1 DEF ClosedRows, PnlOf
<1> QED BY <1>7, <1>8, <1>9 DEF BookedPnl, PnlIn, Sum

\* The sums over rows, with a row more or with another row in its place.
LEMMA RowAdded ==
  ASSUME NEW T \in Seq(RowRecords), NEW r \in RowRecords
  PROVE  /\ PnlIn(Append(T, r)) = PnlIn(T) + PnlOf(r)
         /\ OpenIn(Append(T, r)) = OpenIn(T) + OpenOf(r)
<1> DEFINE n == Len(T)
           U == Append(T, r)
<1>1. /\ n \in Nat /\ Len(U) = n + 1 /\ \A i \in 1 .. n : T[i] \in RowRecords /\ U[i] = T[i]
      /\ U[n + 1] = r
  BY LenProperties, AppendProperties, ElementOfSeq
<1>2. \A i \in 1 .. n : PnlOf(T[i]) \in Int /\ OpenOf(T[i]) \in Int
  BY <1>1, RowValues
<1>3. PnlOf(r) \in Int /\ OpenOf(r) \in Int  BY RowValues
<1> HIDE DEF n, U
<1>4. Sum(1 .. n + 1, [i \in 1 .. n + 1 |-> PnlOf(U[i])])
        = Sum(1 .. n, [i \in 1 .. n |-> PnlOf(T[i])]) + PnlOf(r)
  <2> DEFINE g == [i \in 1 .. n + 1 |-> PnlOf(U[i])]
             f == [i \in 1 .. n |-> PnlOf(T[i])]
  <2>1. (\A i \in 1 .. n : f[i] \in Int /\ g[i] = f[i]) /\ g[n + 1] = PnlOf(r)
    BY <1>1, <1>2, <1>3
  <2>2. Sum(1 .. n + 1, g) = Sum(1 .. n, f) + g[n + 1]
    <3> HIDE DEF f, g
    <3> QED BY <2>1, <1>1, <1>3, SumAppend
  <2> QED BY <2>1, <2>2
<1>5. Sum(1 .. n + 1, [i \in 1 .. n + 1 |-> OpenOf(U[i])])
        = Sum(1 .. n, [i \in 1 .. n |-> OpenOf(T[i])]) + OpenOf(r)
  <2> DEFINE g == [i \in 1 .. n + 1 |-> OpenOf(U[i])]
             f == [i \in 1 .. n |-> OpenOf(T[i])]
  <2>1. (\A i \in 1 .. n : f[i] \in Int /\ g[i] = f[i]) /\ g[n + 1] = OpenOf(r)
    BY <1>1, <1>2, <1>3
  <2>2. Sum(1 .. n + 1, g) = Sum(1 .. n, f) + g[n + 1]
    <3> HIDE DEF f, g
    <3> QED BY <2>1, <1>1, <1>3, SumAppend
  <2> QED BY <2>1, <2>2
<1> QED BY <1>1, <1>4, <1>5 DEF PnlIn, OpenIn, n, U

\* ... and with another row in its place
LEMMA RowChanged ==
  ASSUME NEW T \in Seq(RowRecords), NEW k \in 1 .. Len(T), NEW r \in RowRecords
  PROVE  /\ PnlIn([T EXCEPT ![k] = r]) = PnlIn(T) - PnlOf(T[k]) + PnlOf(r)
         /\ OpenIn([T EXCEPT ![k] = r]) = OpenIn(T) - OpenOf(T[k]) + OpenOf(r)
<1> DEFINE n == Len(T)
           U == [T EXCEPT ![k] = r]
<1>1. /\ n \in Nat /\ Len(U) = n /\ U[k] = r
      /\ \A i \in 1 .. n : T[i] \in RowRecords /\ (i # k => U[i] = T[i])
  BY LenProperties, ExceptSeq, ElementOfSeq
<1>2. \A i \in 1 .. n : /\ PnlOf(T[i]) \in Int /\ OpenOf(T[i]) \in Int
                        /\ PnlOf(U[i]) \in Int /\ OpenOf(U[i]) \in Int
  BY <1>1, RowValues
<1>3. IsFiniteSet(1 .. n) /\ k \in 1 .. n  BY <1>1, FiniteRows
<1> HIDE DEF n, U
<1>4. Sum(1 .. n, [i \in 1 .. n |-> PnlOf(U[i])])
        = Sum(1 .. n, [i \in 1 .. n |-> PnlOf(T[i])]) - PnlOf(T[k]) + PnlOf(r)
  <2> DEFINE g == [i \in 1 .. n |-> PnlOf(U[i])]
             f == [i \in 1 .. n |-> PnlOf(T[i])]
  <2>1. \A i \in 1 .. n : f[i] \in Int /\ g[i] \in Int  BY <1>2
  <2>2. \A i \in 1 .. n : i # k => g[i] = f[i]  BY <1>1
  <2>3. f[k] = PnlOf(T[k]) /\ g[k] = PnlOf(r)  BY <1>1, <1>3
  <2>4. Sum(1 .. n, g) = Sum(1 .. n, f) - f[k] + g[k]
    <3> HIDE DEF f, g
    <3>1. Differs(1 .. n, f, g, k)  BY <1>3, <2>1, <2>2 DEF Differs
    <3> QED BY <3>1, SumDiffers
  <2> QED BY <2>3, <2>4
<1>5. Sum(1 .. n, [i \in 1 .. n |-> OpenOf(U[i])])
        = Sum(1 .. n, [i \in 1 .. n |-> OpenOf(T[i])]) - OpenOf(T[k]) + OpenOf(r)
  <2> DEFINE g == [i \in 1 .. n |-> OpenOf(U[i])]
             f == [i \in 1 .. n |-> OpenOf(T[i])]
  <2>1. \A i \in 1 .. n : f[i] \in Int /\ g[i] \in Int  BY <1>2
  <2>2. \A i \in 1 .. n : i # k => g[i] = f[i]  BY <1>1
  <2>3. f[k] = OpenOf(T[k]) /\ g[k] = OpenOf(r)  BY <1>1, <1>3
  <2>4. Sum(1 .. n, g) = Sum(1 .. n, f) - f[k] + g[k]
    <3> HIDE DEF f, g
    <3>1. Differs(1 .. n, f, g, k)  BY <1>3, <2>1, <2>2 DEF Differs
    <3> QED BY <3>1, SumDiffers
  <2> QED BY <2>3, <2>4
<1> QED BY <1>1, <1>4, <1>5 DEF PnlIn, OpenIn, n, U

\* The sums are whole numbers.
LEMMA RowSums ==
  ASSUME NEW T \in Seq(RowRecords)
  PROVE  PnlIn(T) \in Int /\ OpenIn(T) \in Int
<1>1. Len(T) \in Nat /\ \A i \in 1 .. Len(T) : T[i] \in RowRecords
  BY LenProperties, ElementOfSeq
<1>2. IsFiniteSet(1 .. Len(T))  BY <1>1, FiniteRows
<1>3. \A i \in 1 .. Len(T) : [j \in 1 .. Len(T) |-> PnlOf(T[j])][i] \in Int
  BY <1>1, RowValues
<1>4. \A i \in 1 .. Len(T) : [j \in 1 .. Len(T) |-> OpenOf(T[j])][i] \in Int
  BY <1>1, RowValues
<1> QED BY <1>2, <1>3, <1>4, SumInt DEF PnlIn, OpenIn

-----------------------------------------------------------------------------
(* Types of the books. *)

\* Types, but for the bounds, which no property needs; and what each stage has at hand, of n
\* rows
CallOK(c, n) ==
    /\ c.pc \in Lotted => c.row \in 1 .. n
    /\ c.pc \in {"part", "undo"} => c.saved \in 1 .. n
    /\ c.pc = "late" => c.order \in Orders /\ c.row \in 0 .. n
    /\ c.pc \in Lotted \ {"whole"} => Piece(c) < OpenQty(c)
    /\ c.pc = "whole" => OpenQty(c) <= Piece(c)

BooksType ==
    /\ trades \in Seq(RowRecords)
    /\ filled \in [Orders -> Nat] /\ reported \in [Orders -> Nat]
    /\ \A o \in Orders : reported[o] <= filled[o]
    /\ sold \in Int
    /\ call \in [Procs -> CallRecords]
    /\ \A p \in Procs : CallOK(call[p], Len(trades))
    /\ told \in BOOLEAN /\ owed \subseteq Orders /\ unseen \subseteq Orders

\* The larger and the smaller of two numbers (the model's Max and Min choose)
LEMMA MaxOfTwo == ASSUME NEW a \in Int, NEW b \in Int
                  PROVE  Max({a, b}) = IF a >= b THEN a ELSE b
<1>1. \A x, y \in Int : x >= y \/ y >= x  OBVIOUS
<1>2. \E x \in {a, b} : \A y \in {a, b} : x >= y  OBVIOUS
<1>3. Max({a, b}) \in {a, b} /\ \A y \in {a, b} : Max({a, b}) >= y  BY <1>2 DEF Max
<1> QED BY <1>3

\* ... and the smaller one
LEMMA MinOfTwo == ASSUME NEW a \in Int, NEW b \in Int
                  PROVE  Min({a, b}) = IF a <= b THEN a ELSE b
<1>2. \E x \in {a, b} : \A y \in {a, b} : x =< y  OBVIOUS
<1>3. Min({a, b}) \in {a, b} /\ \A y \in {a, b} : Min({a, b}) =< y  BY <1>2 DEF Min
<1> QED BY <1>3

\* What a SELL takes of a row: as much as is left to sell, or all that is left of the row
LEMMA PieceIs ==
  ASSUME NEW c \in CallRecords
  PROVE  /\ Piece(c) \in Nat /\ Piece(c) <= c.left
         /\ c.qty - c.pend > 0 => Piece(c) <= c.qty - c.pend
         /\ c.qty - c.pend > 0 /\ c.left > 0 => Piece(c) > 0
         /\ c.qty - c.pend <= 0 => Piece(c) = 0
         /\ Piece(c) = c.left \/ c.qty - c.pend <= Piece(c)
<1>1. c.left \in Nat /\ c.qty \in Nat /\ c.pend \in Nat  BY DEF CallRecords
<1>2. OpenQty(c) = c.qty - c.pend /\ OpenQty(c) \in Int  BY <1>1 DEF OpenQty
<1>3. Max({0, OpenQty(c)}) = IF 0 >= OpenQty(c) THEN 0 ELSE OpenQty(c)  BY <1>2, MaxOfTwo
<1>4. Max({0, OpenQty(c)}) \in Int  BY <1>2, <1>3
<1>5. Piece(c) = IF c.left <= Max({0, OpenQty(c)}) THEN c.left ELSE Max({0, OpenQty(c)})
  <2>1. PICK a, b : a = c.left /\ b = Max({0, OpenQty(c)})  OBVIOUS
  <2>2. Min({a, b}) = IF a <= b THEN a ELSE b  BY <1>1, <1>4, <2>1, MinOfTwo
  <2>3. Piece(c) = Min({a, b})  BY <2>1 DEF Piece
  <2> QED BY <2>1, <2>2, <2>3
<1> QED BY <1>1, <1>2, <1>3, <1>5

\* It depends on what is left and on the row as it was read.
LEMMA PieceSame ==
  ASSUME NEW c, NEW d, c.left = d.left, c.qty = d.qty, c.pend = d.pend
  PROVE  Piece(c) = Piece(d)
BY DEF Piece, OpenQty

\* A call of one process changes
LEMMA CallChanges ==
  ASSUME call \in [Procs -> CallRecords], NEW p \in Procs, NEW c, Becomes(p, c)
  PROVE  /\ call'[p] = c /\ \A q \in Procs : q # p => call'[q] = call[q]
         /\ c \in CallRecords => call' \in [Procs -> CallRecords]
BY DEF Becomes

\* The table keeps its rows, and may get one more.
LEMMA InsertStored ==
  ASSUME trades \in Seq(RowRecords), NEW r \in RowRecords, NEW applied \in BOOLEAN,
         Stored(applied, Inserted(r))
  PROVE  /\ trades' \in Seq(RowRecords) /\ Len(trades) \in Nat /\ Len(trades') \in Nat
         /\ Len(trades') = IF applied THEN Len(trades) + 1 ELSE Len(trades)
         /\ DOMAIN trades = 1 .. Len(trades) /\ DOMAIN trades' = 1 .. Len(trades')
         /\ \A i \in 1 .. Len(trades) : trades'[i] = trades[i]
         /\ applied => trades'[Len(trades) + 1] = r
         /\ PnlIn(trades') = PnlIn(trades) + IF applied THEN PnlOf(r) ELSE 0
         /\ OpenIn(trades') = OpenIn(trades) + IF applied THEN OpenOf(r) ELSE 0
<1>1. Len(trades) \in Nat /\ DOMAIN trades = 1 .. Len(trades)  BY LenProperties
<1>2. PnlIn(trades) \in Int /\ OpenIn(trades) \in Int  BY RowSums
<1>3. CASE applied
  <2>1. trades' = Append(trades, r)  BY <1>3 DEF Stored, Inserted
  <2>2. trades' \in Seq(RowRecords) /\ DOMAIN trades' = 1 .. Len(trades')
    BY <2>1, AppendProperties, LenProperties
  <2>3. /\ Len(trades') = Len(trades) + 1 /\ trades'[Len(trades) + 1] = r
        /\ \A i \in 1 .. Len(trades) : trades'[i] = trades[i]
    BY <2>1, AppendProperties
  <2>4. PnlIn(trades') = PnlIn(trades) + PnlOf(r) /\ OpenIn(trades') = OpenIn(trades) + OpenOf(r)
    BY <2>1, RowAdded
  <2> QED BY <1>1, <1>3, <2>2, <2>3, <2>4
<1>4. CASE ~applied
  <2>1. trades' = trades  BY <1>4 DEF Stored
  <2> QED BY <1>1, <1>2, <1>4, <2>1
<1> QED BY <1>3, <1>4

\* ... or have another row in the place of one.
LEMMA UpdateStored ==
  ASSUME trades \in Seq(RowRecords), NEW k \in 1 .. Len(trades), NEW r \in RowRecords,
         NEW applied \in BOOLEAN, Stored(applied, Updated(k, r))
  PROVE  /\ trades' \in Seq(RowRecords) /\ Len(trades) \in Nat /\ Len(trades') = Len(trades)
         /\ DOMAIN trades = 1 .. Len(trades) /\ DOMAIN trades' = 1 .. Len(trades)
         /\ \A i \in 1 .. Len(trades) : i # k => trades'[i] = trades[i]
         /\ trades'[k] = IF applied THEN r ELSE trades[k]
         /\ PnlIn(trades') = PnlIn(trades) + IF applied THEN PnlOf(r) - PnlOf(trades[k]) ELSE 0
         /\ OpenIn(trades') = OpenIn(trades)
                              + IF applied THEN OpenOf(r) - OpenOf(trades[k]) ELSE 0
<1>1. Len(trades) \in Nat /\ DOMAIN trades = 1 .. Len(trades) /\ trades[k] \in RowRecords
  BY LenProperties, ElementOfSeq
<1>2. PnlIn(trades) \in Int /\ OpenIn(trades) \in Int  BY RowSums
<1>3. CASE applied
  <2>1. trades' = [trades EXCEPT ![k] = r]  BY <1>3 DEF Stored, Updated
  <2>2. trades' \in Seq(RowRecords) /\ Len(trades') = Len(trades)  BY <2>1, ExceptSeq
  <2>3. \A i \in 1 .. Len(trades) : trades'[i] = IF i = k THEN r ELSE trades[i]
    BY <2>1, ExceptSeq
  <2>4. /\ PnlIn(trades') = PnlIn(trades) - PnlOf(trades[k]) + PnlOf(r)
        /\ OpenIn(trades') = OpenIn(trades) - OpenOf(trades[k]) + OpenOf(r)
    BY <2>1, RowChanged
  <2>5. /\ PnlOf(r) \in Int /\ OpenOf(r) \in Int
        /\ PnlOf(trades[k]) \in Int /\ OpenOf(trades[k]) \in Int
    BY <1>1, RowValues
  <2>6. DOMAIN trades' = 1 .. Len(trades')  BY <2>2, LenProperties
  <2> QED BY <1>1, <1>2, <1>3, <2>2, <2>3, <2>4, <2>5, <2>6
<1>4. CASE ~applied
  <2>1. trades' = trades  BY <1>4 DEF Stored
  <2> QED BY <1>1, <1>2, <1>4, <2>1
<1> QED BY <1>3, <1>4

\* More rows do not hurt a call.
LEMMA CallOKGrows ==
  ASSUME NEW c, NEW n \in Nat, NEW m \in Nat, n <= m, CallOK(c, n)
  PROVE  CallOK(c, m)
BY DEF CallOK

\* The types after a step in which process p goes on to c
LEMMA BooksTypeStep ==
  ASSUME BooksType, NEW p \in Procs, NEW c \in CallRecords, Becomes(p, c),
         trades' \in Seq(RowRecords), Len(trades) <= Len(trades'), CallOK(c, Len(trades')),
         filled' \in [Orders -> Nat], reported' \in [Orders -> Nat],
         \A o \in Orders : reported'[o] <= filled'[o],
         sold' \in Int, told' \in BOOLEAN, owed' \subseteq Orders, unseen' \subseteq Orders
  PROVE  BooksType'
<1>1. Len(trades) \in Nat /\ Len(trades') \in Nat  BY LenProperties DEF BooksType
<1>2. /\ call'[p] = c /\ \A q \in Procs : q # p => call'[q] = call[q]
      /\ call' \in [Procs -> CallRecords]
  BY CallChanges DEF BooksType
<1>3. \A q \in Procs : CallOK(call'[q], Len(trades'))
  <2> SUFFICES ASSUME NEW q \in Procs PROVE CallOK(call'[q], Len(trades'))  OBVIOUS
  <2>1. CASE q = p  BY <2>1, <1>2
  <2>2. CASE q # p
    <3>1. CallOK(call[q], Len(trades))  BY DEF BooksType
    <3> QED BY <3>1, <2>2, <1>1, <1>2, CallOKGrows
  <2> QED BY <2>1, <2>2
<1> QED BY <1>2, <1>3 DEF BooksType

\* An idle process may be in any table.
LEMMA IdleOK == Idle \in CallRecords /\ \A n : CallOK(Idle, n)
BY DEF Idle, CallRecords, CallOK, Lotted

\* A row with an order and a quantity
LEMMA NewRow ==
  ASSUME NEW o \in Orders \cup {NoOrder}, NEW q \in Nat
  PROVE  /\ Row(o, q, 0) \in RowRecords /\ PnlOf(Row(o, q, 0)) = 0 /\ OpenOf(Row(o, q, 0)) = q
         /\ Row(o, q, 0).order = o /\ Row(o, q, 0).qty = q /\ Row(o, q, 0).pend = 0
         /\ Row(o, q, 0).status = "open" /\ Row(o, q, 0).pnl = 0
<1> DEFINE r == Row(o, q, 0)
<1>1. r = [order |-> o, qty |-> q, pend |-> 0, status |-> "open", pnl |-> 0]
  BY DEF Row
<1> HIDE DEF r
<1>2. /\ r.order = o /\ r.qty = q /\ r.pend = 0 /\ r.status = "open" /\ r.pnl = 0
      /\ r \in RowRecords
  BY <1>1 DEF RowRecords
<1>3. PnlOf(r) = 0 /\ OpenOf(r) = q  BY <1>2 DEF PnlOf, OpenOf
<1> QED BY <1>2, <1>3 DEF r

\* A SELL takes up row i.
LEMMA LotIs ==
  ASSUME NEW c \in CallRecords, NEW i \in Nat, trades[i] \in RowRecords
  PROVE  LET d == Lot(c, i) IN
         /\ d \in CallRecords /\ d.pc \in {"split", "whole"}
         /\ d.row = i /\ d.left = c.left /\ d.lots = c.lots /\ d.again = FALSE
         /\ d.qty = trades[i].qty /\ d.pend = trades[i].pend
         /\ d.handled = c.handled \cup {i}
         /\ \A n \in Nat : i \in 1 .. n => CallOK(d, n)
<1> DEFINE r == [c EXCEPT !.row = i, !.qty = trades[i].qty, !.pend = trades[i].pend,
                          !.handled = @ \cup {i}, !.again = FALSE, !.saved = 0]
           d == [r EXCEPT !.pc = IF Piece(r) < OpenQty(r) THEN "split" ELSE "whole"]
<1>1. Lot(c, i) = d  BY DEF Lot
<1>2. trades[i].qty \in Nat /\ trades[i].pend \in Nat  BY DEF RowRecords
<1>3. r \in CallRecords
  BY <1>2 DEF CallRecords
<1>4. /\ d \in CallRecords /\ d.pc \in {"split", "whole"}
      /\ d.row = i /\ d.left = c.left /\ d.lots = c.lots /\ d.again = FALSE
      /\ d.qty = trades[i].qty /\ d.pend = trades[i].pend
      /\ d.handled = c.handled \cup {i}
      /\ d.left = r.left /\ d.qty = r.qty /\ d.pend = r.pend
      /\ d.pc = "split" <=> Piece(r) < OpenQty(r)
  <2>1. /\ r.row = i /\ r.left = c.left /\ r.lots = c.lots /\ r.again = FALSE
        /\ r.qty = trades[i].qty /\ r.pend = trades[i].pend /\ r.handled = c.handled \cup {i}
    BY DEF CallRecords
  <2> HIDE DEF r
  <2>2. PICK w : w = IF Piece(r) < OpenQty(r) THEN "split" ELSE "whole"  OBVIOUS
  <2>3. w \in {"split", "whole"} /\ (w = "split" <=> Piece(r) < OpenQty(r))  BY <2>2
  <2>4. d = [r EXCEPT !.pc = w]  BY <2>2
  <2> HIDE DEF d
  <2>5. d \in CallRecords /\ d.pc = w  BY <1>3, <2>3, <2>4 DEF CallRecords, Lotted
  <2>6. /\ d.row = r.row /\ d.left = r.left /\ d.lots = r.lots /\ d.again = r.again
        /\ d.qty = r.qty /\ d.pend = r.pend /\ d.handled = r.handled
    BY <1>3, <2>4 DEF CallRecords
  <2> QED BY <2>1, <2>3, <2>5, <2>6
<1> HIDE DEF d, r
<1>5. Piece(d) = Piece(r)  BY <1>4, PieceSame
<1>6. OpenQty(d) = OpenQty(r)  BY <1>4 DEF OpenQty
<1>7. OpenQty(d) \in Int /\ Piece(d) \in Nat  BY <1>4, PieceIs DEF OpenQty, CallRecords
<1>8. d.pc = "split" <=> Piece(d) < OpenQty(d)  BY <1>4, <1>5, <1>6
<1>9. \A n \in Nat : i \in 1 .. n => CallOK(d, n)  BY <1>4, <1>7, <1>8 DEF CallOK, Lotted
<1> QED BY <1>1, <1>4, <1>9

\* After a row, the SELL is over or goes on with what is left.
LEMMA NextLotIs ==
  ASSUME call \in [Procs -> CallRecords], told \in BOOLEAN, NEW p \in Procs,
         NEW alerted \in BOOLEAN, NextLot(p, alerted)
  PROVE  /\ \E d \in CallRecords :
              /\ Becomes(p, d) /\ \A n : CallOK(d, n)
              /\ \/ /\ d = Idle
                    /\ \/ call[p].left = Piece(call[p]) \/ Piece(call[p]) = 0
                       \/ told'
                 \/ /\ d.pc = "find" /\ d.left = call[p].left - Piece(call[p]) /\ d.left > 0
                    /\ d.lots = call[p].lots + 1 /\ d.handled = call[p].handled
                    /\ Piece(call[p]) > 0
         /\ told' \in BOOLEAN /\ (told \/ alerted => told')
<1> DEFINE c == call[p]
           rest == c.left - Piece(c)
           d == IF rest = 0 \/ Piece(c) = 0 \/ LotsSpent(c) THEN Idle
                ELSE [c EXCEPT !.pc = "find", !.left = rest, !.lots = @ + 1]
<1>1. c \in CallRecords /\ c.left \in Nat /\ c.lots \in Nat  BY DEF CallRecords
<1>2. Piece(c) \in Nat /\ Piece(c) <= c.left  BY <1>1, PieceIs
<1>3. rest \in Nat  BY <1>1, <1>2
<1>4. /\ Becomes(p, d)
      /\ told' = (told \/ alerted \/ (Piece(c) > 0 /\ rest > 0 /\ LotsSpent(c)))
  BY DEF NextLot
<1>5. told' \in BOOLEAN /\ (told \/ alerted => told')  BY <1>4
<1>6. CASE rest = 0 \/ Piece(c) = 0 \/ LotsSpent(c)
  <2>1. d = Idle  BY <1>6
  <2>2. c.left = Piece(c) \/ Piece(c) = 0 \/ told'
    <3>1. CASE rest = 0  BY <3>1, <1>1, <1>2
    <3>2. CASE Piece(c) = 0  BY <3>2
    <3>3. CASE rest # 0 /\ Piece(c) # 0 /\ LotsSpent(c)
      <4>1. Piece(c) > 0 /\ rest > 0  BY <3>3, <1>2, <1>3
      <4> HIDE DEF rest, c
      <4> QED BY <4>1, <3>3, <1>4, Zenon
    <3> QED BY <1>6, <3>1, <3>2, <3>3
  <2> HIDE DEF d, rest
  <2> QED BY <1>4, <1>5, <2>1, <2>2, IdleOK
<1>7. CASE ~(rest = 0 \/ Piece(c) = 0 \/ LotsSpent(c))
  <2> DEFINE e == [c EXCEPT !.pc = "find", !.left = rest, !.lots = @ + 1]
  <2>1. d = e  BY <1>7
  <2>2. /\ e \in CallRecords /\ e.pc = "find" /\ e.left = rest /\ e.lots = c.lots + 1
        /\ e.handled = c.handled
    <3> HIDE DEF rest, c
    <3>1. c.lots + 1 \in Nat  BY <1>1
    <3> QED BY <1>1, <1>3, <3>1 DEF CallRecords
  <2>3. rest > 0 /\ Piece(c) > 0  BY <1>2, <1>3, <1>7
  <2>4. \A n : CallOK(e, n)  BY <2>2 DEF CallOK, Lotted
  <2>5. Becomes(p, e)  BY <1>4, <2>1
  <2> HIDE DEF d, e
  <2> QED BY <1>5, <2>2, <2>3, <2>4, <2>5
<1> QED BY <1>6, <1>7

-----------------------------------------------------------------------------
(* The P&L of a row is bounded by what SELLs have charged to it. *)

\* What a SELL has still to charge to a row: a lot is charged when it is read
Takes(c) == IF c.pc = "find" THEN c.left
            ELSE IF c.pc \in Lotted THEN c.left - Piece(c) ELSE 0
TakesIn(C) == Sum(Procs, [p \in Procs |-> Takes(C[p])])

\* The shares sold cover the charges of all rows; and a row's P&L, and the partials it keeps,
\* stay within its charge, whichever of the SELLs that read it writes it last
Charged(g) ==
    /\ g \in [1 .. Len(trades) -> Nat]
    /\ \A i \in 1 .. Len(trades) : trades[i].pend <= g[i] /\ trades[i].pnl <= g[i]
    /\ \A p \in Procs : call[p].pc \in Lotted => call[p].pend + Piece(call[p]) <= g[call[p].row]
    /\ Sum(1 .. Len(trades), g) + TakesIn(call) <= sold

ChargeInv == \E g : Charged(g)

\* What a SELL has still to charge is a number.
LEMMA TakesNat == \A c \in CallRecords : Takes(c) \in Nat
<1> SUFFICES ASSUME NEW c \in CallRecords PROVE Takes(c) \in Nat  OBVIOUS
<1>1. c.left \in Nat  BY DEF CallRecords
<1>2. Piece(c) \in Nat /\ Piece(c) <= c.left  BY PieceIs
<1> QED BY <1>1, <1>2 DEF Takes

\* What all SELLs have still to charge, when one call changes
LEMMA TakesChange ==
  ASSUME call \in [Procs -> CallRecords], NEW p \in Procs, NEW c \in CallRecords, Becomes(p, c)
  PROVE  /\ TakesIn(call) \in Nat /\ TakesIn(call') \in Nat
         /\ TakesIn(call') = TakesIn(call) - Takes(call[p]) + Takes(c)
<1>1. /\ call'[p] = c /\ \A q \in Procs : q # p => call'[q] = call[q]
      /\ call' \in [Procs -> CallRecords]
  BY CallChanges
<1> DEFINE f == [q \in Procs |-> Takes(call[q])]
           g == [q \in Procs |-> Takes(call'[q])]
<1>2. \A q \in Procs : f[q] \in Nat /\ g[q] \in Nat
  BY <1>1, TakesNat
<1>3. \A q \in Procs : q # p => g[q] = f[q]
  BY <1>1
<1>4. f[p] = Takes(call[p]) /\ g[p] = Takes(c)
  BY <1>1
<1>5. IsFiniteSet(Procs)
  BY RowsAssumption
<1>6. TakesIn(call) = Sum(Procs, f) /\ TakesIn(call') = Sum(Procs, g)
  BY DEF TakesIn
<1> HIDE DEF f, g
<1>7. Sum(Procs, f) \in Nat /\ Sum(Procs, g) \in Nat
  BY <1>2, <1>5, SumNat
<1>8. \A q \in Procs : f[q] \in Int /\ g[q] \in Int
  BY <1>2
<1>9. Sum(Procs, g) = Sum(Procs, f) - f[p] + g[p]
  <2>1. Differs(Procs, f, g, p)  BY <1>3, <1>5, <1>8 DEF Differs
  <2> QED BY <2>1, SumDiffers
<1> QED BY <1>4, <1>6, <1>7, <1>9

\* Charges that grow with the table
LEMMA ChargeStep ==
  ASSUME BooksType, BooksType', NEW g, Charged(g), NEW p \in Procs, NEW c \in CallRecords,
         Becomes(p, c), NEW h \in [1 .. Len(trades') -> Nat],
         Len(trades) <= Len(trades'),
         \A i \in 1 .. Len(trades) : g[i] <= h[i],
         \A i \in 1 .. Len(trades') : trades'[i].pend <= h[i] /\ trades'[i].pnl <= h[i],
         c.pc \in Lotted => c.pend + Piece(c) <= h[c.row],
         Sum(1 .. Len(trades'), h) + Takes(c) + sold
           <= Sum(1 .. Len(trades), g) + Takes(call[p]) + sold'
  PROVE  ChargeInv'
<1>1. /\ call'[p] = c /\ \A q \in Procs : q # p => call'[q] = call[q]
      /\ call \in [Procs -> CallRecords] /\ call' \in [Procs -> CallRecords]
  BY CallChanges DEF BooksType
<1>2. Len(trades) \in Nat /\ Len(trades') \in Nat  BY LenProperties DEF BooksType
<1>3. \A q \in Procs : call'[q].pc \in Lotted =>
         call'[q].pend + Piece(call'[q]) <= h[call'[q].row]
  <2> SUFFICES ASSUME NEW q \in Procs, call'[q].pc \in Lotted
               PROVE  call'[q].pend + Piece(call'[q]) <= h[call'[q].row]
    OBVIOUS
  <2>1. CASE q = p  BY <2>1, <1>1
  <2>2. CASE q # p
    <3> DEFINE d == call[q]
               n == Piece(d)
    <3>1. call'[q] = d /\ d \in CallRecords /\ CallOK(d, Len(trades))
      BY <1>1, <2>2 DEF BooksType
    <3>2. d.row \in 1 .. Len(trades)  BY <3>1 DEF CallOK
    <3>3. d.pend + n <= g[d.row]  BY <3>1 DEF Charged
    <3>4. g[d.row] <= h[d.row]  BY <3>2
    <3>5. d.pend \in Nat /\ n \in Nat  BY <3>1, PieceIs DEF CallRecords
    <3>6. g[d.row] \in Nat /\ h[d.row] \in Nat  BY <3>2, <1>2 DEF Charged
    <3> HIDE DEF d, n
    <3>7. d.pend + n <= h[d.row]  BY <3>3, <3>4, <3>5, <3>6
    <3> QED BY <3>1, <3>7 DEF n
  <2> QED BY <2>1, <2>2
<1>4. /\ TakesIn(call) \in Nat /\ TakesIn(call') \in Nat
      /\ TakesIn(call') = TakesIn(call) - Takes(call[p]) + Takes(c)
  BY <1>1, TakesChange
<1>5. IsFiniteSet(1 .. Len(trades)) /\ IsFiniteSet(1 .. Len(trades'))  BY <1>2, FiniteRows
<1>6. Sum(1 .. Len(trades), g) \in Nat
  <2>1. \A i \in 1 .. Len(trades) : g[i] \in Nat  BY DEF Charged
  <2> QED BY <2>1, <1>5, SumNat
<1>7. Sum(1 .. Len(trades'), h) \in Nat
  <2>1. \A i \in 1 .. Len(trades') : h[i] \in Nat  OBVIOUS
  <2> QED BY <2>1, <1>5, SumNat
<1>8. sold \in Int /\ sold' \in Int  BY DEF BooksType
<1>9. Takes(call[p]) \in Nat /\ Takes(c) \in Nat  BY <1>1, TakesNat
<1>10. Sum(1 .. Len(trades), g) + TakesIn(call) <= sold  BY DEF Charged
<1>11. Sum(1 .. Len(trades'), h) + TakesIn(call') <= sold'
  <2>1. Sum(1 .. Len(trades'), h) + Takes(c) + sold
          <= Sum(1 .. Len(trades), g) + Takes(call[p]) + sold'
    OBVIOUS
  <2>2. PICK x, y, t, u \in Nat : /\ x = Sum(1 .. Len(trades), g) /\ y = Sum(1 .. Len(trades'), h)
                                 /\ t = TakesIn(call) /\ u = TakesIn(call')
    BY ONLY <1>4, <1>6, <1>7
  <2>3. PICK a, b \in Nat : a = Takes(call[p]) /\ b = Takes(c)  BY ONLY <1>9
  <2>4. u = t - a + b  BY ONLY <1>4, <2>2, <2>3
  <2>5. PICK m, n \in Int : m = sold /\ n = sold'  BY ONLY <1>8
  <2>6. x + t <= m /\ y + b + m <= x + a + n  BY ONLY <1>10, <2>1, <2>2, <2>3, <2>5
  <2>7. y + u <= n  BY <2>4, <2>6
  <2> QED BY ONLY <2>2, <2>5, <2>7
<1>12. Charged(h)'  BY <1>3, <1>11 DEF Charged
<1> QED BY <1>12 DEF ChargeInv

\* Whether one of call p's rows got what the call charged: what row i keeps or books is what it
\* did, or what the call charges to it
ByCall(p, i) ==
    /\ call[p].pc \in Lotted /\ i = call[p].row
Booked(p, i, new, old) ==
    new <= old \/ (ByCall(p, i) /\ new <= call[p].pend + Piece(call[p]))

\* Steps that charge nothing: the rows keep within their charges, a new row has none.
LEMMA ChargeKept ==
  ASSUME BooksType, BooksType', ChargeInv, NEW p \in Procs, NEW c \in CallRecords, Becomes(p, c),
         Len(trades') \in {Len(trades), Len(trades) + 1},
         \A i \in 1 .. Len(trades) : /\ Booked(p, i, trades'[i].pend, trades[i].pend)
                                     /\ Booked(p, i, trades'[i].pnl, trades[i].pnl),
         \A i \in 1 .. Len(trades') :
            i > Len(trades) => trades'[i].pend = 0 /\ trades'[i].pnl = 0,
         c.pc \in Lotted => /\ call[p].pc \in Lotted /\ c.row = call[p].row
                            /\ c.pend = call[p].pend /\ Piece(c) = Piece(call[p]),
         Takes(c) + sold <= Takes(call[p]) + sold'
  PROVE  ChargeInv'
<1>1. PICK g : Charged(g)  BY DEF ChargeInv
<1> DEFINE n == Len(trades)
           m == Len(trades')
           h == [i \in 1 .. m |-> IF i <= n THEN g[i] ELSE 0]
<1>2. n \in Nat /\ m \in Nat /\ n <= m  BY LenProperties DEF BooksType
<1>3. g \in [1 .. n -> Nat]  BY <1>1 DEF Charged
<1>4. /\ h \in [1 .. m -> Nat]
      /\ \A i \in 1 .. n : h[i] = g[i]
      /\ \A i \in 1 .. m : i > n => h[i] = 0
  BY <1>2, <1>3
<1>5. Sum(1 .. m, h) = Sum(1 .. n, g)
  <2>1. CASE m = n
    <3>1. IsFiniteSet(1 .. n)  BY <1>2, FiniteRows
    <3>2. \A i \in 1 .. n : g[i] \in Int /\ h[i] = g[i]  BY <1>3, <1>4
    <3> HIDE DEF h, m, n
    <3> QED BY <2>1, <3>1, <3>2, SumSame
  <2>2. CASE m = n + 1
    <3>1. \A i \in 1 .. n : g[i] \in Int /\ h[i] = g[i]  BY <1>3, <1>4
    <3>2. h[n + 1] = 0 /\ 0 \in Int  BY <1>2, <1>4, <2>2
    <3>3. \A i \in 1 .. n : g[i] \in Int  BY <3>1
    <3>4. IsFiniteSet(1 .. n)  BY <1>2, FiniteRows
    <3> HIDE DEF h, m, n
    <3>5. Sum(1 .. n, g) \in Int  BY <3>3, <3>4, SumInt
    <3>6. Sum(1 .. n + 1, h) = Sum(1 .. n, g) + h[n + 1]
      <4>1. n \in Nat /\ (\A i \in 1 .. n : g[i] \in Int /\ h[i] = g[i]) /\ h[n + 1] \in Int
        BY <1>2, <3>1, <3>2
      <4> QED BY ONLY <4>1, SumAppend
    <3> QED BY <2>2, <3>2, <3>5, <3>6
  <2> QED BY <2>1, <2>2
<1>6. call[p] \in CallRecords /\ CallOK(call[p], n)  BY DEF BooksType
<1>7. call[p].pc \in Lotted => /\ call[p].row \in 1 .. n
                               /\ call[p].pend + Piece(call[p]) <= g[call[p].row]
  BY <1>1, <1>6 DEF Charged, CallOK
<1>8. call[p].pend + Piece(call[p]) \in Nat
  <2>1. call[p].pend \in Nat  BY <1>6 DEF CallRecords
  <2>2. Piece(call[p]) \in Nat  BY <1>6, PieceIs
  <2> QED BY <2>1, <2>2
<1>9. /\ \A i \in 1 .. n : trades[i] \in RowRecords
      /\ \A i \in 1 .. m : trades'[i] \in RowRecords
  BY ElementOfSeq DEF BooksType
<1>10. \A i \in 1 .. n : trades'[i].pend <= g[i] /\ trades'[i].pnl <= g[i]
  <2> SUFFICES ASSUME NEW i \in 1 .. n
               PROVE  trades'[i].pend <= g[i] /\ trades'[i].pnl <= g[i]
    OBVIOUS
  <2> DEFINE b == call[p].pend + Piece(call[p])
  <2>1. trades[i].pend <= g[i] /\ trades[i].pnl <= g[i]  BY <1>1 DEF Charged
  <2>2. i \in 1 .. m  BY <1>2
  <2>3. /\ trades[i].pend \in Nat /\ trades[i].pnl \in Nat
        /\ trades'[i].pend \in Nat /\ trades'[i].pnl \in Nat
    BY <1>9, <2>2 DEF RowRecords
  <2>4. g[i] \in Nat  BY <1>3
  <2>5. ByCall(p, i) => b <= g[i]  BY <1>7 DEF ByCall
  <2>6. b \in Nat  BY <1>8
  <2>7. Booked(p, i, trades'[i].pend, trades[i].pend) /\ Booked(p, i, trades'[i].pnl, trades[i].pnl)
    OBVIOUS
  <2>8. /\ trades'[i].pend <= trades[i].pend \/ (trades'[i].pend <= b /\ b <= g[i])
        /\ trades'[i].pnl <= trades[i].pnl \/ (trades'[i].pnl <= b /\ b <= g[i])
    BY <2>5, <2>7 DEF Booked
  <2> HIDE DEF b
  <2> QED BY <2>1, <2>3, <2>4, <2>6, <2>8
<1>11. \A i \in 1 .. m : trades'[i].pend <= h[i] /\ trades'[i].pnl <= h[i]
  <2> SUFFICES ASSUME NEW i \in 1 .. m
               PROVE  trades'[i].pend <= h[i] /\ trades'[i].pnl <= h[i]
    OBVIOUS
  <2>1. CASE i <= n  BY <2>1, <1>2, <1>4, <1>10
  <2>2. CASE i > n  BY <2>2, <1>2, <1>4
  <2> QED BY <2>1, <2>2, <1>2
<1>12. \A i \in 1 .. n : g[i] <= h[i]  BY <1>3, <1>4
<1>13. c.pc \in Lotted => c.pend + Piece(c) <= h[c.row]
  BY <1>4, <1>7
<1>14. Sum(1 .. m, h) + Takes(c) + sold <= Sum(1 .. n, g) + Takes(call[p]) + sold'
  <2>1. IsFiniteSet(1 .. n) /\ \A i \in 1 .. n : g[i] \in Nat  BY <1>2, <1>3, FiniteRows
  <2>2. Sum(1 .. n, g) \in Nat  BY <2>1, SumNat
  <2>3. Takes(c) \in Nat /\ Takes(call[p]) \in Nat  BY <1>6, TakesNat
  <2>4. sold \in Int /\ sold' \in Int  BY DEF BooksType
  <2> HIDE DEF h, m, n
  <2> QED BY <1>5, <2>2, <2>3, <2>4
<1> HIDE DEF h
<1> QED BY <1>1, <1>2, <1>4, <1>11, <1>12, <1>13, <1>14, ChargeStep

\* A SELL takes up a row, and charges its piece to it.
LEMMA ChargeLot ==
  ASSUME BooksType, BooksType', ChargeInv, NEW p \in Procs, NEW i \in 1 .. Len(trades),
         call[p].pc = "find", Becomes(p, Lot(call[p], i)), trades' = trades, sold' = sold
  PROVE  ChargeInv'
<1>1. PICK g : Charged(g)  BY DEF ChargeInv
<1> DEFINE n == Len(trades)
           c == Lot(call[p], i)
           x == Piece(c)
           h == [g EXCEPT ![i] = @ + x]
<1>2. n \in Nat /\ i \in Nat  BY LenProperties DEF BooksType
<1>3. call[p] \in CallRecords /\ trades[i] \in RowRecords  BY ElementOfSeq DEF BooksType
<1>4. /\ c \in CallRecords /\ c.pc \in Lotted /\ c.row = i /\ c.left = call[p].left
      /\ c.pend = trades[i].pend
  BY <1>2, <1>3, LotIs DEF Lotted
<1>5. x \in Nat /\ x <= c.left  BY <1>4, PieceIs
<1>6. g \in [1 .. n -> Nat]  BY <1>1 DEF Charged
<1> HIDE DEF x, c
<1>7. /\ h \in [1 .. n -> Nat] /\ h[i] = g[i] + x
      /\ \A j \in 1 .. n : j # i => h[j] = g[j]
  BY <1>5, <1>6
<1>8. Sum(1 .. n, h) = Sum(1 .. n, g) - g[i] + h[i] /\ Sum(1 .. n, g) \in Nat
  <2>1. IsFiniteSet(1 .. n) /\ \A j \in 1 .. n : g[j] \in Nat  BY <1>2, <1>6, FiniteRows
  <2>2. \A j \in 1 .. n : g[j] \in Int /\ h[j] \in Int  BY <1>6, <1>7
  <2> HIDE DEF h
  <2>3. Differs(1 .. n, g, h, i)  BY <2>1, <2>2, <1>7 DEF Differs
  <2>4. Sum(1 .. n, h) = Sum(1 .. n, g) - g[i] + h[i]  BY <2>3, SumDiffers
  <2> QED BY <2>1, <2>4, SumNat
<1>9. \A j \in 1 .. n : g[j] \in Nat /\ h[j] \in Nat /\ g[j] <= h[j]
  <2> SUFFICES ASSUME NEW j \in 1 .. n PROVE g[j] \in Nat /\ h[j] \in Nat /\ g[j] <= h[j]
    OBVIOUS
  <2>1. g[j] \in Nat /\ h[j] \in Nat  BY <1>6, <1>7
  <2> HIDE DEF h
  <2>2. CASE j = i  BY <2>1, <2>2, <1>5, <1>7
  <2>3. CASE j # i  BY <2>1, <2>3, <1>7
  <2> QED BY <2>1, <2>2, <2>3
<1>10. \A j \in 1 .. n : trades'[j].pend <= h[j] /\ trades'[j].pnl <= h[j]
  <2> SUFFICES ASSUME NEW j \in 1 .. n
               PROVE  trades'[j].pend <= h[j] /\ trades'[j].pnl <= h[j]
    OBVIOUS
  <2>1. trades[j].pend <= g[j] /\ trades[j].pnl <= g[j]  BY <1>1 DEF Charged
  <2>2. trades[j] \in RowRecords  BY ElementOfSeq DEF BooksType
  <2>3. trades[j].pend \in Nat /\ trades[j].pnl \in Nat  BY <2>2 DEF RowRecords
  <2>4. trades'[j] = trades[j]  OBVIOUS
  <2> HIDE DEF h
  <2> QED BY <1>9, <2>1, <2>3, <2>4
<1>11. c.pend + Piece(c) <= h[c.row]
  <2>1. trades[i].pend <= g[i]  BY <1>1 DEF Charged
  <2>2. g[i] \in Nat /\ trades[i].pend \in Nat  BY <1>3, <1>6 DEF RowRecords
  <2>3. trades[i].pend + x <= h[i]
    <3> HIDE DEF h
    <3> QED BY <1>5, <1>7, <2>1, <2>2
  <2> QED BY <1>4, <2>3 DEF x
<1>12. Sum(1 .. n, h) + Takes(c) + sold <= Sum(1 .. n, g) + Takes(call[p]) + sold'
  <2>1. Takes(c) = c.left - x /\ Takes(call[p]) = call[p].left
    BY <1>4 DEF Takes, Lotted, x
  <2>2. c.left \in Nat /\ sold \in Int /\ g[i] \in Nat  BY <1>4, <1>6 DEF BooksType, CallRecords
  <2>3. c.left = call[p].left /\ sold' = sold /\ h[i] = g[i] + x  BY <1>4, <1>7
  <2> HIDE DEF h
  <2> QED BY ONLY <1>5, <1>8, <2>1, <2>2, <2>3
<1>13. Len(trades') = n  OBVIOUS
<1>14. Becomes(p, c)  BY DEF c
<1> HIDE DEF h
<1>15. \A j \in 1 .. Len(trades) : g[j] <= h[j]  BY <1>9
<1>16. Len(trades) <= Len(trades') /\ h \in [1 .. Len(trades') -> Nat]  BY <1>2, <1>7, <1>13
<1>17. \A j \in 1 .. Len(trades') : trades'[j].pend <= h[j] /\ trades'[j].pnl <= h[j]
  BY <1>10, <1>13
<1>18. Sum(1 .. Len(trades'), h) + Takes(c) + sold
         <= Sum(1 .. Len(trades), g) + Takes(call[p]) + sold'
  BY <1>12, <1>13
<1> QED BY <1>1, <1>4, <1>11, <1>14, <1>15, <1>16, <1>17, <1>18, ChargeStep

\* The newest of some rows is one of them.
LEMMA LatestRow ==
  ASSUME NEW n \in Nat, NEW S \in SUBSET (1 .. n), S # {}
  PROVE  Max(S) \in S /\ \A j \in S : Max(S) >= j
<1> DEFINE D == {n - j : j \in S}
<1>1. D \in SUBSET Nat /\ D # {}
  <2>1. \A j \in S : n - j \in Nat  OBVIOUS
  <2> QED BY <2>1
<1>2. \E d \in D : \A e \in D : ~ (<<e, d>> \in OpToRel(<, Nat))
  BY <1>1, NatLessThanWellFounded, WFMin
<1>3. PICK j \in S : \A i \in S : ~ (<<n - i, n - j>> \in OpToRel(<, Nat))
  BY <1>2
<1>4. \A i \in S : j >= i
  <2> SUFFICES ASSUME NEW i \in S PROVE j >= i  OBVIOUS
  <2>1. i \in Nat /\ j \in Nat /\ n - i \in Nat /\ n - j \in Nat  OBVIOUS
  <2>2. ~ (n - i < n - j)  BY <1>3, <2>1 DEF OpToRel
  <2> QED BY <2>1, <2>2
<1> QED BY <1>4 DEF Max

-----------------------------------------------------------------------------
(* Types and charges, action by action. *)

BooksInv == BooksType /\ ChargeInv

\* What an inductive step may use of process p
LEMMA CallFacts ==
  ASSUME BooksType, NEW p \in Procs
  PROVE  /\ call[p] \in CallRecords /\ CallOK(call[p], Len(trades))
         /\ Len(trades) \in Nat /\ DOMAIN trades = 1 .. Len(trades)
         /\ \A i \in 1 .. Len(trades) : trades[i] \in RowRecords
         /\ Piece(call[p]) \in Nat /\ Piece(call[p]) <= call[p].left
         /\ call[p].left \in Nat /\ call[p].pend \in Nat /\ call[p].qty \in Nat
<1>1. call[p] \in CallRecords  BY DEF BooksType
<1>2. Len(trades) \in Nat /\ DOMAIN trades = 1 .. Len(trades)  BY LenProperties DEF BooksType
<1>3. \A i \in 1 .. Len(trades) : trades[i] \in RowRecords  BY ElementOfSeq DEF BooksType
<1>4. Piece(call[p]) \in Nat /\ Piece(call[p]) <= call[p].left  BY <1>1, PieceIs
<1> QED BY <1>1, <1>2, <1>3, <1>4 DEF BooksType, CallRecords

\* A step that leaves the call of p as it is
LEMMA CallStays ==
  ASSUME call \in [Procs -> CallRecords], NEW p \in Procs, call' = call
  PROVE  Becomes(p, call[p])
BY DEF Becomes

\* Nothing of the table or of a call changes.
LEMMA ChargeStays ==
  ASSUME BooksType, BooksType', ChargeInv, trades' = trades, call' = call, sold <= sold'
  PROVE  ChargeInv'
<1>1. PICK g : Charged(g)  BY DEF ChargeInv
<1>2. g \in [1 .. Len(trades) -> Nat] /\ Len(trades) \in Nat
  BY <1>1, LenProperties DEF Charged, BooksType
<1>3. IsFiniteSet(1 .. Len(trades)) /\ \A i \in 1 .. Len(trades) : g[i] \in Nat
  BY <1>2, FiniteRows
<1>4. Sum(1 .. Len(trades), g) \in Nat  BY <1>3, SumNat
<1>5. TakesIn(call) \in Nat
  <2>1. \A p \in Procs : [q \in Procs |-> Takes(call[q])][p] \in Nat
    BY TakesNat DEF BooksType
  <2> QED BY <2>1, RowsAssumption, SumNat DEF TakesIn
<1>6. TakesIn(call') = TakesIn(call)  OBVIOUS
<1>7. Sum(1 .. Len(trades), g) + TakesIn(call') <= sold'
  BY <1>1, <1>4, <1>5, <1>6 DEF Charged, BooksType
<1>8. Charged(g)'  BY <1>1, <1>7 DEF Charged
<1> QED BY <1>8 DEF ChargeInv

\* The call of p goes on to c, charging nothing new; the other variables stay well typed
GoesOn(p, c) ==
    /\ c \in CallRecords /\ Becomes(p, c) /\ CallOK(c, Len(trades'))
    /\ c.pc \in Lotted => /\ call[p].pc \in Lotted /\ c.row = call[p].row
                          /\ c.pend = call[p].pend /\ Piece(c) = Piece(call[p])
    /\ Takes(c) + sold <= Takes(call[p]) + sold'
OthersOK ==
    /\ filled' \in [Orders -> Nat] /\ reported' \in [Orders -> Nat]
    /\ \A o \in Orders : reported'[o] <= filled'[o]
    /\ sold' \in Int /\ told' \in BOOLEAN /\ owed' \subseteq Orders /\ unseen' \subseteq Orders

\* A row is inserted, or not.
LEMMA InsertBooks ==
  ASSUME BooksInv, NEW p \in Procs, NEW c, GoesOn(p, c), OthersOK,
         NEW r \in RowRecords, r.pend = 0, r.pnl = 0,
         NEW applied \in BOOLEAN, Stored(applied, Inserted(r))
  PROVE  BooksInv'
<1>1. BooksType /\ ChargeInv  BY DEF BooksInv
<1>2. /\ trades' \in Seq(RowRecords) /\ Len(trades) \in Nat /\ Len(trades') \in Nat
      /\ Len(trades') = IF applied THEN Len(trades) + 1 ELSE Len(trades)
      /\ \A i \in 1 .. Len(trades) : trades'[i] = trades[i]
      /\ applied => trades'[Len(trades) + 1] = r
  BY <1>1, InsertStored DEF BooksType
<1>3. BooksType'  BY <1>1, <1>2, BooksTypeStep DEF GoesOn, OthersOK
<1>4. Len(trades') \in {Len(trades), Len(trades) + 1}  BY <1>2
<1>5. \A i \in 1 .. Len(trades) : /\ Booked(p, i, trades'[i].pend, trades[i].pend)
                                  /\ Booked(p, i, trades'[i].pnl, trades[i].pnl)
  <2> SUFFICES ASSUME NEW i \in 1 .. Len(trades)
               PROVE  /\ Booked(p, i, trades'[i].pend, trades[i].pend)
                      /\ Booked(p, i, trades'[i].pnl, trades[i].pnl)
    OBVIOUS
  <2>1. trades[i] \in RowRecords /\ trades'[i] = trades[i]  BY <1>1, <1>2, CallFacts
  <2> QED BY <2>1 DEF Booked, RowRecords
<1>6. \A i \in 1 .. Len(trades') : i > Len(trades) => trades'[i].pend = 0 /\ trades'[i].pnl = 0
  BY <1>2
<1>7. ChargeInv'  BY <1>1, <1>3, <1>4, <1>5, <1>6, ChargeKept DEF GoesOn
<1> QED BY <1>3, <1>7 DEF BooksInv

\* Row k is written, or not; it gets what the call charged to it, if anything.
LEMMA UpdateBooks ==
  ASSUME BooksInv, NEW p \in Procs, NEW c, GoesOn(p, c), OthersOK,
         NEW k \in 1 .. Len(trades), NEW r \in RowRecords,
         Booked(p, k, r.pend, trades[k].pend), Booked(p, k, r.pnl, trades[k].pnl),
         NEW applied \in BOOLEAN, Stored(applied, Updated(k, r))
  PROVE  BooksInv'
<1>1. BooksType /\ ChargeInv  BY DEF BooksInv
<1>2. /\ trades' \in Seq(RowRecords) /\ Len(trades) \in Nat /\ Len(trades') = Len(trades)
      /\ \A i \in 1 .. Len(trades) : i # k => trades'[i] = trades[i]
      /\ trades'[k] = IF applied THEN r ELSE trades[k]
  BY <1>1, UpdateStored DEF BooksType
<1>3. BooksType'
  <2>1. Len(trades) <= Len(trades')  BY <1>2
  <2> QED BY <1>1, <1>2, <2>1, BooksTypeStep DEF GoesOn, OthersOK
<1>4. Len(trades') \in {Len(trades), Len(trades) + 1}  BY <1>2
<1>5. \A i \in 1 .. Len(trades) : /\ Booked(p, i, trades'[i].pend, trades[i].pend)
                                  /\ Booked(p, i, trades'[i].pnl, trades[i].pnl)
  <2> SUFFICES ASSUME NEW i \in 1 .. Len(trades)
               PROVE  /\ Booked(p, i, trades'[i].pend, trades[i].pend)
                      /\ Booked(p, i, trades'[i].pnl, trades[i].pnl)
    OBVIOUS
  <2>1. trades[i] \in RowRecords  BY <1>1, CallFacts
  <2>2. /\ Booked(p, i, trades[i].pend, trades[i].pend)
        /\ Booked(p, i, trades[i].pnl, trades[i].pnl)
    BY <2>1 DEF Booked, RowRecords
  <2>3. CASE i = k /\ applied  BY <2>3, <1>2
  <2>4. CASE ~(i = k /\ applied)
    <3>1. trades'[i] = trades[i]  BY <2>4, <1>2
    <3> QED BY <3>1, <2>2
  <2> QED BY <2>3, <2>4
<1>6. \A i \in 1 .. Len(trades') : i > Len(trades) => trades'[i].pend = 0 /\ trades'[i].pnl = 0
  BY <1>2
<1>7. ChargeInv'  BY <1>1, <1>3, <1>4, <1>5, <1>6, ChargeKept DEF GoesOn
<1> QED BY <1>3, <1>7 DEF BooksInv

\* The table stays as it is.
LEMMA SameBooks ==
  ASSUME BooksInv, NEW p \in Procs, NEW c, GoesOn(p, c), OthersOK, trades' = trades
  PROVE  BooksInv'
<1>1. BooksType /\ ChargeInv  BY DEF BooksInv
<1>2. /\ trades' \in Seq(RowRecords) /\ Len(trades) \in Nat /\ Len(trades') = Len(trades)
  BY <1>1, CallFacts DEF BooksType
<1>3. BooksType'
  <2>1. Len(trades) <= Len(trades')  BY <1>2
  <2> QED BY <1>1, <1>2, <2>1, BooksTypeStep DEF GoesOn, OthersOK
<1>4. Len(trades') \in {Len(trades), Len(trades) + 1}  BY <1>2
<1>5. \A i \in 1 .. Len(trades) : /\ Booked(p, i, trades'[i].pend, trades[i].pend)
                                  /\ Booked(p, i, trades'[i].pnl, trades[i].pnl)
  <2> SUFFICES ASSUME NEW i \in 1 .. Len(trades)
               PROVE  /\ Booked(p, i, trades'[i].pend, trades[i].pend)
                      /\ Booked(p, i, trades'[i].pnl, trades[i].pnl)
    OBVIOUS
  <2>1. trades[i] \in RowRecords /\ trades'[i] = trades[i]  BY <1>1, CallFacts
  <2> QED BY <2>1 DEF Booked, RowRecords
<1>6. \A i \in 1 .. Len(trades') : i > Len(trades) => trades'[i].pend = 0 /\ trades'[i].pnl = 0
  BY <1>2
<1>7. ChargeInv'  BY <1>1, <1>3, <1>4, <1>5, <1>6, ChargeKept DEF GoesOn
<1> QED BY <1>3, <1>7 DEF BooksInv

\* A call that goes on at the same, with nothing new sold
LEMMA CallGoesOn ==
  ASSUME BooksInv, NEW p \in Procs, call' = call, sold' = sold,
         Len(trades') \in Nat, Len(trades) <= Len(trades')
  PROVE  GoesOn(p, call[p])
<1>1. BooksType  BY DEF BooksInv
<1>2. call[p] \in CallRecords /\ CallOK(call[p], Len(trades)) /\ Len(trades) \in Nat
  BY <1>1, CallFacts
<1>3. Becomes(p, call[p])  BY <1>1, CallStays DEF BooksType
<1>4. CallOK(call[p], Len(trades'))  BY <1>2, CallOKGrows
<1>5. Takes(call[p]) + sold <= Takes(call[p]) + sold'  BY <1>1, <1>2, TakesNat DEF BooksType
<1> QED BY <1>2, <1>3, <1>4, <1>5 DEF GoesOn

\* A call that is over, or gives up
LEMMA IdleGoesOn ==
  ASSUME BooksInv, NEW p \in Procs, Becomes(p, Idle), sold' = sold
  PROVE  GoesOn(p, Idle)
<1>1. Takes(Idle) = 0 /\ Idle.pc \notin Lotted  BY DEF Takes, Idle, Lotted
<1>2. Takes(call[p]) \in Nat /\ sold \in Int  BY TakesNat, CallFacts DEF BooksInv, BooksType
<1>3. Takes(Idle) + sold <= Takes(call[p]) + sold'  BY <1>1, <1>2
<1> QED BY <1>1, <1>3, IdleOK DEF GoesOn

\* An entry inserts an open row, which holds no P&L.
LEMMA EnterBooks ==
  ASSUME BooksInv, NEW p \in Procs, NEW o \in Orders, Enter(p, o)
  PROVE  BooksInv'
<1>1. BooksType /\ ChargeInv  BY DEF BooksInv
<1>2. PICK n \in Qty \ {0}, applied \in BOOLEAN, seen \in BOOLEAN :
         /\ Stored(applied, Inserted(Row(o, n, 0)))
         /\ filled' = [filled EXCEPT ![o] = n] /\ reported' = [reported EXCEPT ![o] = n]
  BY DEF Enter
<1>3. n \in Nat  BY RowsAssumption DEF Qty
<1>4. UNCHANGED <<sold, sales, call, told, owed, unseen>>  BY DEF Enter
<1>5. Row(o, n, 0) \in RowRecords /\ Row(o, n, 0).pend = 0 /\ Row(o, n, 0).pnl = 0
  BY <1>3, NewRow
<1>6. Len(trades') \in Nat /\ Len(trades) <= Len(trades')
  BY <1>1, <1>2, <1>5, InsertStored DEF BooksType
<1>7. GoesOn(p, call[p])  BY <1>4, <1>6, CallGoesOn
<1>8. OthersOK  BY <1>1, <1>2, <1>3, <1>4 DEF OthersOK, BooksType
<1> QED BY <1>2, <1>5, <1>7, <1>8, InsertBooks

\* The row of an order: the latest
LEMMA OrderRowIs ==
  ASSUME BooksType, NEW o, OrderRows(o) # {}
  PROVE  /\ Max(OrderRows(o)) \in OrderRows(o) /\ Max(OrderRows(o)) \in 1 .. Len(trades)
         /\ \A j \in OrderRows(o) : Max(OrderRows(o)) >= j
<1>1. OrderRows(o) \in SUBSET (1 .. Len(trades)) /\ Len(trades) \in Nat
  BY LenProperties DEF OrderRows, BooksType
<1> QED BY <1>1, LatestRow

\* find_open_buy returns an open row, and none is newer.
LEMMA NewestIs ==
  ASSUME BooksType, OpenRows # {}
  PROVE  Newest \in OpenRows /\ Newest \in 1 .. Len(trades) /\ \A j \in OpenRows : Newest >= j
<1>1. OpenRows \in SUBSET (1 .. Len(trades)) /\ Len(trades) \in Nat
  BY LenProperties DEF OpenRows, BooksType
<1> QED BY <1>1, LatestRow DEF Newest

\* The call that books a late fill
Late(o) == [Idle EXCEPT !.pc = "late", !.order = o,
                        !.row = IF OrderRows(o) = {} THEN 0 ELSE Max(OrderRows(o)),
                        !.again = \E i \in OrderRows(o) : trades[i].status = "closed"]

\* It names the order's latest row, if it has one, and charges nothing.
LEMMA LateIs ==
  ASSUME BooksType, NEW o \in Orders
  PROVE  /\ Late(o) \in CallRecords /\ CallOK(Late(o), Len(trades)) /\ Takes(Late(o)) = 0
         /\ Late(o).pc = "late" /\ Late(o).order = o
         /\ Late(o).row = IF OrderRows(o) = {} THEN 0 ELSE Max(OrderRows(o))
         /\ Late(o).again = \E i \in OrderRows(o) : trades[i].status = "closed"
<1> DEFINE k == IF OrderRows(o) = {} THEN 0 ELSE Max(OrderRows(o))
           b == \E i \in OrderRows(o) : trades[i].status = "closed"
           c == [Idle EXCEPT !.pc = "late", !.order = o, !.row = k, !.again = b]
<1>1. k \in 0 .. Len(trades) /\ k \in Nat
  <2>1. Len(trades) \in Nat  BY LenProperties DEF BooksType
  <2>2. CASE OrderRows(o) = {}  BY <2>1, <2>2
  <2>3. CASE OrderRows(o) # {}  BY <2>1, <2>3, OrderRowIs
  <2> QED BY <2>2, <2>3
<1>2. b \in BOOLEAN  OBVIOUS
<1>3. Late(o) = c  BY DEF Late
<1> HIDE DEF k, b
<1>4. /\ c \in CallRecords /\ c.pc = "late" /\ c.order = o /\ c.row = k /\ c.again = b
  BY <1>1, <1>2 DEF Idle, CallRecords
<1>5. CallOK(c, Len(trades)) /\ Takes(c) = 0  BY <1>1, <1>4 DEF CallOK, Takes, Lotted
<1> HIDE DEF c
<1> QED BY <1>3, <1>4, <1>5 DEF k, b

\* Reading the row of a late fill writes nothing.
LEMMA LateBeginsBooks ==
  ASSUME BooksInv, NEW p \in Procs, NEW o \in Orders, LateBegins(p, o)
  PROVE  BooksInv'
<1>1. BooksType /\ ChargeInv  BY DEF BooksInv
<1>2. UNCHANGED <<trades, filled, reported, sold, sales, told, owed, unseen>>
  BY DEF LateBegins
<1>3. OthersOK  BY <1>1, <1>2 DEF OthersOK, BooksType
<1>4. CASE Begins(p, Late(o))
  <2>1. Becomes(p, Late(o)) /\ At(p, "idle")  BY <1>4 DEF Begins
  <2>2. Takes(call[p]) = 0  BY <2>1 DEF At, Takes, Lotted
  <2>3. GoesOn(p, Late(o))
    <3>1. Late(o).pc \notin Lotted  BY <1>1, LateIs DEF Lotted
    <3>2. Takes(Late(o)) + sold <= Takes(call[p]) + sold'
      <4>1. sold \in Int /\ sold' = sold  BY <1>1, <1>2 DEF BooksType
      <4>2. Takes(Late(o)) = 0  BY <1>1, LateIs
      <4> QED BY <4>1, <4>2, <2>2
    <3>3. CallOK(Late(o), Len(trades'))  BY <1>1, <1>2, LateIs
    <3> QED BY <1>1, <2>1, <3>1, <3>2, <3>3, LateIs DEF GoesOn
  <2> QED BY <1>2, <1>3, <2>3, SameBooks
<1>5. CASE call' = call
  <2>1. GoesOn(p, call[p])
    <3>1. Len(trades') \in Nat /\ Len(trades) <= Len(trades')  BY <1>1, <1>2, CallFacts
    <3> QED BY <1>2, <1>5, <3>1, CallGoesOn
  <2> QED BY <1>2, <1>3, <2>1, SameBooks
<1> QED BY <1>4, <1>5 DEF LateBegins, Late
\* Its row, a row of its own, or the open row's quantity
LEMMA LateWritesBooks ==
  ASSUME BooksInv, NEW p \in Procs, LateWrites(p)
  PROVE  BooksInv'
<1>1. BooksType /\ ChargeInv  BY DEF BooksInv
<1> DEFINE o == call[p].order
           k == call[p].row
<1>2. PICK applied \in BOOLEAN, seen \in BOOLEAN :
         /\ Stored(applied, LateFill(o, k, call[p].again))
         /\ reported' = IF seen THEN [reported EXCEPT ![o] = filled[o]] ELSE reported
         /\ owed' = IF seen THEN owed \ {o} ELSE owed
         /\ unseen' = IF seen THEN unseen \ {o} ELSE IF applied THEN unseen \cup {o} ELSE unseen
  BY DEF LateWrites
<1>3. Becomes(p, Idle) /\ UNCHANGED <<filled, sold, sales, told>> /\ call[p].pc = "late"
  BY DEF LateWrites, At
<1>4. o \in Orders /\ k \in 0 .. Len(trades)  BY <1>1, <1>3, CallFacts DEF CallOK
<1>5. GoesOn(p, Idle)  BY <1>3, IdleGoesOn
<1>6. filled[o] \in Nat /\ reported[o] \in Nat /\ reported[o] <= filled[o]
  BY <1>1, <1>4 DEF BooksType
<1>7. unseen' \subseteq Orders
  BY <1>1, <1>2, <1>4 DEF BooksType
<1> HIDE DEF o, k
<1>8. OthersOK  BY <1>1, <1>2, <1>3, <1>4, <1>6, <1>7 DEF OthersOK, BooksType
<1>9. CASE k = 0
  <2>1. Stored(applied, Inserted(Row(o, filled[o], 0)))  BY <1>2, <1>9 DEF LateFill
  <2> QED BY <2>1, <1>4, <1>5, <1>6, <1>8, NewRow, InsertBooks
<1>10. CASE k # 0 /\ call[p].again
  <2>1. Stored(applied, Inserted(Row(NoOrder, filled[o] - reported[o], 0)))
    BY <1>2, <1>10 DEF LateFill
  <2>2. filled[o] - reported[o] \in Nat  BY <1>6
  <2> QED BY <2>1, <2>2, <1>5, <1>8, NewRow, InsertBooks
<1>11. CASE k # 0 /\ ~call[p].again
  <2> DEFINE r == [trades[k] EXCEPT !.qty = filled[o]]
  <2>1. Stored(applied, Updated(k, r))  BY <1>2, <1>11 DEF LateFill
  <2>2. Len(trades) \in Nat  BY <1>1, CallFacts
  <2>3. k \in 1 .. Len(trades)  BY <1>4, <1>11, <2>2
  <2>4. trades[k] \in RowRecords  BY <1>1, <2>3, CallFacts
  <2>5. r \in RowRecords /\ r.pend = trades[k].pend /\ r.pnl = trades[k].pnl
    BY <1>6, <2>4 DEF RowRecords
  <2>6. r.pend <= trades[k].pend /\ r.pnl <= trades[k].pnl  BY <2>5 DEF RowRecords
  <2>7. Booked(p, k, r.pend, trades[k].pend) /\ Booked(p, k, r.pnl, trades[k].pnl)
    BY <2>6 DEF Booked
  <2> HIDE DEF r
  <2> QED BY <2>1, <2>3, <2>5, <2>7, <1>5, <1>8, UpdateBooks
<1> QED BY <1>9, <1>10, <1>11

\* The shares of orders are a number.
LEMMA FilledShares == ASSUME BooksType PROVE SharesOf(filled) \in Nat
<1>1. filled \in [Orders -> Nat] /\ IsFiniteSet(Orders)  BY RowsAssumption DEF BooksType
<1>2. SharesOf(filled) = Sum(Orders, filled)  BY <1>1, SharesOfIs
<1>3. \A o \in Orders : filled[o] \in Nat  BY <1>1
<1> QED BY <1>1, <1>2, <1>3, SumNat

\* A SELL's shares are to be charged.
LEMMA SellBeginsBooks ==
  ASSUME BooksInv, NEW p \in Procs, NEW n, SellBegins(p, n)
  PROVE  BooksInv'
<1>1. BooksType /\ ChargeInv  BY DEF BooksInv
<1> DEFINE c == [Idle EXCEPT !.pc = "find", !.left = n]
<1>2. n \in 1 .. SharesOf(filled) - sold /\ sold' = sold + n /\ Becomes(p, c) /\ At(p, "idle")
  BY DEF SellBegins, Begins
<1>3. SharesOf(filled) \in Nat  BY <1>1, FilledShares
<1>4. n \in Nat /\ sold \in Int  BY <1>1, <1>2, <1>3 DEF BooksType
<1>5. c \in CallRecords /\ c.pc = "find" /\ c.left = n  BY <1>4 DEF CallRecords, Idle
<1>6. UNCHANGED <<trades, filled, reported, faults, told, owed, unseen>>  BY DEF SellBegins
<1>7. OthersOK  BY <1>1, <1>2, <1>4, <1>6 DEF OthersOK, BooksType
<1>8. Takes(call[p]) = 0  BY <1>2 DEF At, Takes, Lotted
<1> HIDE DEF c
<1>9. CallOK(c, Len(trades')) /\ c.pc \notin Lotted  BY <1>5 DEF CallOK, Lotted
<1>10. Takes(c) = n  BY <1>5 DEF Takes
<1>11. Takes(c) + sold <= Takes(call[p]) + sold'  BY <1>2, <1>4, <1>8, <1>10
<1>12. GoesOn(p, c)  BY <1>2, <1>5, <1>9, <1>11 DEF GoesOn
<1> QED BY <1>6, <1>7, <1>12, SameBooks

\* It reads the next row, or is over.
LEMMA FindBooks ==
  ASSUME BooksInv, NEW p \in Procs, Find(p)
  PROVE  BooksInv'
<1>1. BooksType /\ ChargeInv  BY DEF BooksInv
<1>2. UNCHANGED <<trades, filled, reported, sales, owed, unseen>> /\ call[p].pc = "find"
  BY DEF Find, At
<1>3. call[p] \in CallRecords /\ call[p].left \in Nat /\ Len(trades) \in Nat
  BY <1>1, CallFacts
<1>4. Takes(call[p]) = call[p].left /\ sold \in Int /\ told \in BOOLEAN
  BY <1>1, <1>2 DEF Takes, BooksType
<1>5. CASE /\ Becomes(p, Idle)
           /\ \/ sold' = sold - call[p].left /\ told' = told
              \/ sold' = sold /\ told' \in BOOLEAN
  <2>1. OthersOK  BY <1>1, <1>2, <1>3, <1>4, <1>5 DEF OthersOK, BooksType
  <2>2. Takes(Idle) = 0 /\ Idle.pc \notin Lotted  BY DEF Takes, Idle, Lotted
  <2>3. Takes(Idle) + sold <= Takes(call[p]) + sold'  BY <1>3, <1>4, <1>5, <2>2
  <2>4. GoesOn(p, Idle)  BY <1>5, <2>2, <2>3, IdleOK DEF GoesOn
  <2> QED BY <1>2, <2>1, <2>4, SameBooks
<1>6. CASE OpenRows # {} /\ Becomes(p, Lot(call[p], Newest)) /\ UNCHANGED <<sold, told>>
  <2> DEFINE d == Lot(call[p], Newest)
  <2>1. Newest \in 1 .. Len(trades)  BY <1>1, <1>6, NewestIs
  <2>2. Newest \in Nat /\ trades[Newest] \in RowRecords  BY <1>1, <1>3, <2>1, CallFacts
  <2>3. d \in CallRecords /\ CallOK(d, Len(trades'))  BY <1>2, <1>3, <2>1, <2>2, LotIs
  <2> HIDE DEF d
  <2>4. trades' \in Seq(RowRecords) /\ Len(trades) <= Len(trades')
    BY <1>1, <1>2, <1>3 DEF BooksType
  <2>5. OthersOK  BY <1>1, <1>2, <1>4, <1>6 DEF OthersOK, BooksType
  <2>6. Becomes(p, d)  BY <1>6 DEF d
  <2>7. BooksType'  BY <1>1, <2>3, <2>4, <2>5, <2>6, BooksTypeStep DEF OthersOK
  <2>8. ChargeInv'  BY <1>1, <1>2, <1>6, <2>1, <2>7, ChargeLot
  <2> QED BY <2>7, <2>8 DEF BooksInv
<1>7. \/ /\ Becomes(p, Idle)
         /\ \/ sold' = sold - call[p].left /\ told' = told
            \/ sold' = sold /\ told' \in BOOLEAN
      \/ OpenRows # {} /\ Becomes(p, Lot(call[p], Newest)) /\ UNCHANGED <<sold, told>>
  BY <1>4 DEF Find
<1> QED BY <1>5, <1>6, <1>7

\* From row to row nothing is charged.
LEMMA NextLotGoesOn ==
  ASSUME BooksInv, NEW p \in Procs, call[p].pc \in Lotted, sold' = sold,
         NEW alerted \in BOOLEAN, NextLot(p, alerted)
  PROVE  (\E d : GoesOn(p, d)) /\ told' \in BOOLEAN
<1>1. BooksType  BY DEF BooksInv
<1>2. call \in [Procs -> CallRecords] /\ told \in BOOLEAN /\ sold \in Int
  BY <1>1 DEF BooksType
<1>3. told' \in BOOLEAN  BY <1>2, NextLotIs
<1>4. PICK d \in CallRecords :
         /\ Becomes(p, d) /\ \A n : CallOK(d, n)
         /\ d = Idle \/ (d.pc = "find" /\ d.left = call[p].left - Piece(call[p]))
  BY <1>2, NextLotIs
<1>5. Takes(call[p]) = call[p].left - Piece(call[p]) /\ Takes(call[p]) \in Nat
  <2>1. call[p].pc # "find"  BY DEF Lotted
  <2>2. call[p] \in CallRecords  BY <1>2
  <2> QED BY <2>1, <2>2, TakesNat DEF Takes
<1>6. d.pc \notin Lotted /\ Takes(d) <= Takes(call[p]) /\ Takes(d) \in Nat
  <2>1. CASE d = Idle
    <3>1. Takes(d) = 0 /\ d.pc \notin Lotted  BY <2>1 DEF Takes, Idle, Lotted
    <3> QED BY <3>1, <1>5
  <2>2. CASE d.pc = "find" /\ d.left = call[p].left - Piece(call[p])
    <3>1. Takes(d) = Takes(call[p]) /\ d.pc \notin Lotted  BY <2>2, <1>5 DEF Takes, Lotted
    <3> QED BY <3>1, <1>5
  <2> QED BY <1>4, <2>1, <2>2
<1>7. Takes(d) + sold <= Takes(call[p]) + sold'  BY <1>2, <1>5, <1>6
<1>8. GoesOn(p, d)  BY <1>4, <1>6, <1>7 DEF GoesOn
<1> QED BY <1>3, <1>8

\* Within a lot nothing is charged either.
LEMMA LotGoesOn ==
  ASSUME BooksInv, NEW p \in Procs, NEW c \in CallRecords, Becomes(p, c), sold' = sold,
         call[p].pc \in Lotted, c.pc \in Lotted, CallOK(c, Len(trades')),
         c.row = call[p].row, c.left = call[p].left, c.qty = call[p].qty, c.pend = call[p].pend
  PROVE  GoesOn(p, c)
<1>1. Piece(c) = Piece(call[p])  BY PieceSame
<1>2. Takes(c) = Takes(call[p])  BY <1>1 DEF Takes, Lotted
<1>3. Takes(call[p]) \in Nat /\ sold \in Int  BY TakesNat, CallFacts DEF BooksInv, BooksType
<1>4. Takes(c) + sold <= Takes(call[p]) + sold'  BY <1>2, <1>3
<1> QED BY <1>1, <1>4 DEF GoesOn

\* A lot's call: its row, what it takes of it, and the types of what a step leaves alone
LEMMA LotFacts ==
  ASSUME BooksInv, NEW p \in Procs, call[p].pc \in Lotted
  PROVE  /\ BooksType /\ call[p] \in CallRecords /\ CallOK(call[p], Len(trades))
         /\ Len(trades) \in Nat /\ call[p].row \in 1 .. Len(trades)
         /\ trades[call[p].row] \in RowRecords
         /\ Piece(call[p]) \in Nat /\ call[p].pend \in Nat
         /\ OpenQty(call[p]) \in Int
         /\ ByCall(p, call[p].row)
<1>1. BooksType  BY DEF BooksInv
<1>2. call[p].row \in 1 .. Len(trades)  BY <1>1, CallFacts DEF CallOK
<1>3. trades[call[p].row] \in RowRecords  BY <1>1, <1>2, CallFacts
<1>4. OpenQty(call[p]) \in Int  BY <1>1, CallFacts DEF OpenQty
<1> QED BY <1>1, <1>2, <1>3, <1>4, CallFacts DEF ByCall

\* A step of a lot leaves the rest alone.
LEMMA LotOthers ==
  ASSUME BooksType, UNCHANGED <<filled, reported, sold, owed, unseen>>, told' \in BOOLEAN
  PROVE  OthersOK
BY DEF OthersOK, BooksType

\* A lot's call at another stage takes as much.
SameLot(d, c) ==
    /\ d.row = c.row /\ d.left = c.left /\ d.qty = c.qty /\ d.pend = c.pend
    /\ d.lots = c.lots /\ d.handled = c.handled

\* At each stage of the lot the SELL takes the same of the row.
LEMMA StageIs ==
  ASSUME NEW c, NEW d, SameLot(d, c)
  PROVE  Piece(d) = Piece(c) /\ OpenQty(d) = OpenQty(c)
<1>1. Piece(d) = Piece(c)  BY PieceSame DEF SameLot
<1> QED BY <1>1 DEF SameLot, OpenQty

\* The remainder, a row of its own
LEMMA SplitBooks ==
  ASSUME BooksInv, NEW p \in Procs, Split(p)
  PROVE  BooksInv'
<1> DEFINE c == call[p]
           r == RestOf(c)
<1>1. PICK applied \in BOOLEAN, seen \in BOOLEAN :
         /\ seen => applied
         /\ Stored(applied, Inserted(r))
         /\ Becomes(p, IF seen THEN [c EXCEPT !.pc = "part", !.saved = Len(trades) + 1]
                               ELSE [c EXCEPT !.pc = "keep"])
  BY DEF Split, Calls
<1>2. UNCHANGED <<filled, reported, sold, sales, told, owed, unseen, silent>> /\ c.pc = "split"
  BY DEF Split, At
<1>3. c.pc \in Lotted  BY <1>2 DEF Lotted
<1>4. /\ BooksType /\ c \in CallRecords /\ CallOK(c, Len(trades)) /\ Len(trades) \in Nat
      /\ c.row \in 1 .. Len(trades) /\ Piece(c) \in Nat /\ OpenQty(c) \in Int
  BY <1>3, LotFacts
<1>5. Piece(c) < OpenQty(c)  BY <1>2, <1>4 DEF CallOK, Lotted
<1>6. OpenQty(c) - Piece(c) \in Nat  BY <1>4, <1>5
<1>7. r \in RowRecords /\ r.pend = 0 /\ r.pnl = 0  BY <1>6, NewRow DEF RestOf
<1>8. /\ Len(trades') \in Nat
      /\ Len(trades') = IF applied THEN Len(trades) + 1 ELSE Len(trades)
  BY <1>1, <1>4, <1>7, InsertStored DEF BooksType
<1>9. OthersOK
  <2>1. told' \in BOOLEAN  BY <1>2, <1>4 DEF BooksType
  <2> QED BY <1>2, <1>4, <2>1, LotOthers
<1> HIDE DEF c, r
<1>11. CASE seen
  <2> DEFINE d == [c EXCEPT !.pc = "part", !.saved = Len(trades) + 1]
  <2>1. d \in CallRecords /\ d.pc = "part" /\ d.saved = Len(trades) + 1 /\ SameLot(d, c)
    <3>1. PICK n \in Nat : n = Len(trades) + 1  BY <1>4
    <3>2. d = [c EXCEPT !.pc = "part", !.saved = n]  BY <3>1
    <3>3. c \in CallRecords  BY <1>4
    <3> HIDE DEF d
    <3>4. d \in CallRecords /\ d.pc = "part" /\ d.saved = n /\ SameLot(d, c)
      BY <3>2, <3>3 DEF CallRecords, Lotted, SameLot
    <3> QED BY <3>1, <3>4
  <2>2. Becomes(p, d)  BY <1>1, <1>11
  <2> HIDE DEF d
  <2>3. "part" \in Lotted  BY DEF Lotted
  <2>4. /\ d.row = c.row /\ d.left = c.left /\ d.qty = c.qty /\ d.pend = c.pend
        /\ Piece(d) = Piece(c) /\ OpenQty(d) = OpenQty(c)
    BY <2>1, StageIs DEF SameLot
  <2>5. CallOK(d, Len(trades'))
    BY <1>1, <1>4, <1>5, <1>8, <1>11, <2>1, <2>4 DEF CallOK, Lotted
  <2>6. GoesOn(p, d)  BY <1>2, <1>3, <2>1, <2>2, <2>3, <2>4, <2>5, LotGoesOn DEF c
  <2> QED BY <1>1, <1>7, <1>9, <2>6, InsertBooks
<1>12. CASE ~seen
  <2> DEFINE d == [c EXCEPT !.pc = "keep"]
  <2>1. d \in CallRecords /\ d.pc = "keep" /\ SameLot(d, c)
    BY <1>4 DEF CallRecords, Lotted, SameLot
  <2>2. Becomes(p, d)  BY <1>1, <1>12
  <2> HIDE DEF d
  <2>3. "keep" \in Lotted  BY DEF Lotted
  <2>4. /\ d.row = c.row /\ d.left = c.left /\ d.qty = c.qty /\ d.pend = c.pend
        /\ Piece(d) = Piece(c) /\ OpenQty(d) = OpenQty(c)
    BY <2>1, StageIs DEF SameLot
  <2>5. CallOK(d, Len(trades'))
    BY <1>4, <1>5, <1>8, <2>1, <2>4 DEF CallOK, Lotted
  <2>6. GoesOn(p, d)  BY <1>2, <1>3, <2>1, <2>2, <2>3, <2>4, <2>5, LotGoesOn DEF c
  <2> QED BY <1>1, <1>7, <1>9, <2>6, InsertBooks
<1> QED BY <1>11, <1>12

\* The partial, kept on the open row
LEMMA KeepBooks ==
  ASSUME BooksInv, NEW p \in Procs, Keep(p)
  PROVE  BooksInv'
<1> DEFINE c == call[p]
           k == c.row
           r == [trades[k] EXCEPT !.pend = c.pend + Piece(c)]
<1>1. PICK applied \in BOOLEAN, seen \in BOOLEAN : Stored(applied, Updated(k, r))
  BY DEF Keep
<1>2. /\ UNCHANGED <<filled, reported, sold, sales, owed, unseen, silent>>
      /\ c.pc = "keep" /\ NextLot(p, TRUE)
  BY DEF Keep, At
<1>3. c.pc \in Lotted  BY <1>2 DEF Lotted
<1>4. /\ BooksType /\ k \in 1 .. Len(trades) /\ trades[k] \in RowRecords
      /\ Piece(c) \in Nat /\ c.pend \in Nat /\ ByCall(p, k)
  BY <1>3, LotFacts
<1>5. PICK d : GoesOn(p, d)  BY <1>2, <1>3, NextLotGoesOn
<1>6. OthersOK
  <2>1. told' \in BOOLEAN  BY <1>2, <1>3, NextLotGoesOn
  <2> QED BY <1>2, <1>4, <2>1, LotOthers
<1> HIDE DEF c, k
<1>7. c.pend + Piece(c) \in Nat  BY <1>4
<1>8. r \in RowRecords /\ r.pend = c.pend + Piece(c) /\ r.pnl = trades[k].pnl
  BY <1>4, <1>7 DEF RowRecords
<1> HIDE DEF r
<1>9. r.pend <= c.pend + Piece(c) /\ r.pnl <= trades[k].pnl
  BY <1>7, <1>8 DEF RowRecords
<1>10. Booked(p, k, r.pend, trades[k].pend) /\ Booked(p, k, r.pnl, trades[k].pnl)
  BY <1>4, <1>9 DEF Booked, c
<1> QED BY <1>1, <1>4, <1>5, <1>6, <1>8, <1>10, UpdateBooks

\* The remainder, taken back
LEMMA UndoBooks ==
  ASSUME BooksInv, NEW p \in Procs, Undo(p)
  PROVE  BooksInv'
<1> DEFINE c == call[p]
           k == c.saved
           r == [trades[k] EXCEPT !.status = "gone"]
<1>1. PICK applied \in BOOLEAN, seen \in BOOLEAN : Stored(applied, Updated(k, r))
  BY DEF Undo
<1>2. /\ UNCHANGED <<filled, reported, sold, sales, owed, unseen, silent>>
      /\ c.pc = "undo" /\ NextLot(p, TRUE)
  BY DEF Undo, At
<1>3. c.pc \in Lotted  BY <1>2 DEF Lotted
<1>4. BooksType  BY DEF BooksInv
<1>5. k \in 1 .. Len(trades)  BY <1>2, <1>4, CallFacts DEF CallOK
<1>6. trades[k] \in RowRecords  BY <1>4, <1>5, CallFacts
<1>7. PICK d : GoesOn(p, d)  BY <1>2, <1>3, NextLotGoesOn
<1>8. OthersOK
  <2>1. told' \in BOOLEAN  BY <1>2, <1>3, NextLotGoesOn
  <2> QED BY <1>2, <1>4, <2>1, LotOthers
<1> HIDE DEF c, k
<1>9. r \in RowRecords /\ r.pend = trades[k].pend /\ r.pnl = trades[k].pnl
  BY <1>6 DEF RowRecords
<1>10. Booked(p, k, r.pend, trades[k].pend) /\ Booked(p, k, r.pnl, trades[k].pnl)
  BY <1>6, <1>9 DEF Booked, RowRecords
<1> HIDE DEF r
<1> QED BY <1>1, <1>5, <1>7, <1>8, <1>9, <1>10, UpdateBooks

\* A close of a row: with the P&L charged, whatever becomes of the call
LEMMA ClosesBooks ==
  ASSUME BooksInv, NEW p \in Procs, call[p].pc \in Lotted,
         UNCHANGED <<filled, reported, sold, owed, unseen>>, told' \in BOOLEAN,
         NEW d, GoesOn(p, d), NEW applied \in BOOLEAN, NEW r \in RowRecords,
         r.pend = trades[call[p].row].pend, r.pnl = call[p].pend + Piece(call[p]),
         Stored(applied, Updated(call[p].row, r))
  PROVE  BooksInv'
<1> DEFINE c == call[p]
           k == c.row
<1>1. /\ BooksType /\ k \in 1 .. Len(trades) /\ trades[k] \in RowRecords
      /\ Piece(c) \in Nat /\ c.pend \in Nat /\ ByCall(p, k)
  BY LotFacts
<1>2. OthersOK  BY <1>1, LotOthers
<1>3. r.pend <= trades[k].pend /\ r.pnl <= c.pend + Piece(c)
  BY <1>1 DEF RowRecords
<1>4. Booked(p, k, r.pend, trades[k].pend) /\ Booked(p, k, r.pnl, trades[k].pnl)
  BY <1>1, <1>3 DEF Booked
<1> QED BY <1>1, <1>2, <1>4, UpdateBooks

\* The same stage, for the second attempt at its write
LEMMA AgainGoesOn ==
  ASSUME BooksInv, NEW p \in Procs, call[p].pc \in Lotted, sold' = sold,
         Len(trades') \in Nat, Len(trades) <= Len(trades'),
         Becomes(p, [call[p] EXCEPT !.again = TRUE])
  PROVE  GoesOn(p, [call[p] EXCEPT !.again = TRUE])
<1> DEFINE c == call[p]
           d == [c EXCEPT !.again = TRUE]
<1>1. c \in CallRecords /\ CallOK(c, Len(trades)) /\ Len(trades) \in Nat  BY LotFacts
<1>2. d \in CallRecords /\ d.pc = c.pc /\ d.saved = c.saved /\ SameLot(d, c)
  BY <1>1 DEF CallRecords, Lotted, SameLot
<1>3. Becomes(p, d)  OBVIOUS
<1> HIDE DEF d
<1>4. Piece(d) = Piece(c) /\ OpenQty(d) = OpenQty(c)  BY <1>2, StageIs
<1>5. CallOK(c, Len(trades'))  BY <1>1, CallOKGrows
<1>6. CallOK(d, Len(trades'))  BY <1>2, <1>4, <1>5 DEF CallOK, SameLot, Lotted
<1>7. GoesOn(p, d)  BY <1>2, <1>3, <1>6, LotGoesOn DEF SameLot
<1> QED BY <1>7 DEF d

\* ... and the stage that takes the remainder back
LEMMA UndoGoesOn ==
  ASSUME BooksInv, NEW p \in Procs, call[p].pc = "part", sold' = sold,
         Len(trades') \in Nat, Len(trades) <= Len(trades'),
         Becomes(p, [call[p] EXCEPT !.pc = "undo"])
  PROVE  GoesOn(p, [call[p] EXCEPT !.pc = "undo"])
<1> DEFINE c == call[p]
           d == [c EXCEPT !.pc = "undo"]
<1>1. c.pc \in Lotted  BY DEF Lotted
<1>2. c \in CallRecords /\ CallOK(c, Len(trades)) /\ Len(trades) \in Nat  BY <1>1, LotFacts
<1>3. d \in CallRecords /\ d.pc = "undo" /\ d.saved = c.saved /\ SameLot(d, c)
  BY <1>2 DEF CallRecords, Lotted, SameLot
<1>4. Becomes(p, d)  OBVIOUS
<1> HIDE DEF d
<1>5. Piece(d) = Piece(c) /\ OpenQty(d) = OpenQty(c) /\ d.pc \in Lotted
  BY <1>3, StageIs DEF Lotted
<1>6. CallOK(c, Len(trades'))  BY <1>2, CallOKGrows
<1>7. CallOK(d, Len(trades'))  BY <1>3, <1>5, <1>6 DEF CallOK, SameLot, Lotted
<1>8. GoesOn(p, d)  BY <1>1, <1>3, <1>4, <1>5, <1>7, LotGoesOn DEF SameLot
<1> QED BY <1>8 DEF d

\* The row closed for its part, and what follows
LEMMA ClosePartBooks ==
  ASSUME BooksInv, NEW p \in Procs, ClosePart(p)
  PROVE  BooksInv'
<1> DEFINE c == call[p]
           k == c.row
           r == ClosedInPart(c)
<1>1. PICK applied \in BOOLEAN, seen \in BOOLEAN :
         /\ Stored(applied, Updated(k, r))
         /\ \/ NextLot(p, FALSE)
            \/ Becomes(p, [c EXCEPT !.pc = "undo"]) /\ UNCHANGED told
            \/ Becomes(p, [c EXCEPT !.again = TRUE]) /\ UNCHANGED told
  BY DEF ClosePart, Closes
<1>2. UNCHANGED <<filled, reported, sold, sales, owed, unseen>> /\ c.pc = "part"
  BY DEF ClosePart, Closes, At
<1>3. c.pc \in Lotted  BY <1>2 DEF Lotted
<1>4. /\ BooksType /\ k \in 1 .. Len(trades) /\ trades[k] \in RowRecords
      /\ Piece(c) \in Nat /\ c.pend \in Nat /\ Len(trades) \in Nat /\ told \in BOOLEAN
  BY <1>3, LotFacts DEF BooksType
<1>5. r \in RowRecords /\ r.pend = trades[k].pend /\ r.pnl = c.pend + Piece(c)
  <2>1. Piece(c) + c.pend \in Nat /\ Piece(c) + c.pend = c.pend + Piece(c)  BY <1>4
  <2>2. PICK n \in Nat : n = Piece(c) + c.pend  BY <2>1
  <2>3. r = [trades[k] EXCEPT !.qty = n, !.status = "closed", !.pnl = n]
    BY <2>2 DEF ClosedInPart
  <2>4. trades[k] \in RowRecords  BY <1>4
  <2> HIDE DEF r, c, k
  <2>5. r \in RowRecords /\ r.pend = trades[k].pend /\ r.pnl = n
    BY <2>3, <2>4 DEF RowRecords
  <2> QED BY <2>1, <2>2, <2>5
<1> HIDE DEF r
<1>6. Len(trades') \in Nat /\ Len(trades) <= Len(trades')
  BY <1>1, <1>4, <1>5, UpdateStored DEF BooksType
<1>7. (\E d : GoesOn(p, d)) /\ told' \in BOOLEAN
  <2>1. CASE NextLot(p, FALSE)  BY <2>1, <1>2, <1>3, NextLotGoesOn
  <2>2. CASE Becomes(p, [c EXCEPT !.pc = "undo"]) /\ UNCHANGED told
    BY <2>2, <1>2, <1>4, <1>6, UndoGoesOn
  <2>3. CASE Becomes(p, [c EXCEPT !.again = TRUE]) /\ UNCHANGED told
    BY <2>3, <1>2, <1>3, <1>4, <1>6, AgainGoesOn
  <2> QED BY <1>1, <2>1, <2>2, <2>3
<1>8. PICK d : GoesOn(p, d)  BY <1>7
<1> QED BY <1>1, <1>2, <1>3, <1>5, <1>7, <1>8, ClosesBooks

\* The row closed in full, and what follows
LEMMA CloseWholeBooks ==
  ASSUME BooksInv, NEW p \in Procs, CloseWhole(p)
  PROVE  BooksInv'
<1> DEFINE c == call[p]
           k == c.row
           r == ClosedInFull(c)
<1>1. PICK applied \in BOOLEAN, seen \in BOOLEAN :
         /\ Stored(applied, Updated(k, r))
         /\ \/ NextLot(p, FALSE)
            \/ Becomes(p, [c EXCEPT !.again = TRUE]) /\ UNCHANGED told
  BY DEF CloseWhole, Closes
<1>2. UNCHANGED <<filled, reported, sold, sales, owed, unseen>> /\ c.pc = "whole"
  BY DEF CloseWhole, Closes, At
<1>3. c.pc \in Lotted  BY <1>2 DEF Lotted
<1>4. /\ BooksType /\ k \in 1 .. Len(trades) /\ trades[k] \in RowRecords
      /\ Piece(c) \in Nat /\ c.pend \in Nat /\ Len(trades) \in Nat /\ told \in BOOLEAN
  BY <1>3, LotFacts DEF BooksType
<1>5. r \in RowRecords /\ r.pend = trades[k].pend /\ r.pnl = c.pend + Piece(c)
  <2>1. Piece(c) + c.pend \in Nat /\ Piece(c) + c.pend = c.pend + Piece(c)  BY <1>4
  <2>2. PICK n \in Nat : n = Piece(c) + c.pend  BY <2>1
  <2>3. r = [trades[k] EXCEPT !.status = "closed", !.pnl = n]
    BY <2>2 DEF ClosedInFull
  <2>4. trades[k] \in RowRecords  BY <1>4
  <2> HIDE DEF r, c, k
  <2>5. r \in RowRecords /\ r.pend = trades[k].pend /\ r.pnl = n
    BY <2>3, <2>4 DEF RowRecords
  <2> QED BY <2>1, <2>2, <2>5
<1> HIDE DEF r
<1>6. Len(trades') \in Nat /\ Len(trades) <= Len(trades')
  BY <1>1, <1>4, <1>5, UpdateStored DEF BooksType
<1>7. (\E d : GoesOn(p, d)) /\ told' \in BOOLEAN
  <2>1. CASE NextLot(p, FALSE)  BY <2>1, <1>2, <1>3, NextLotGoesOn
  <2>2. CASE Becomes(p, [c EXCEPT !.again = TRUE]) /\ UNCHANGED told
    BY <2>2, <1>2, <1>3, <1>4, <1>6, AgainGoesOn
  <2> QED BY <1>1, <2>1, <2>2
<1>8. PICK d : GoesOn(p, d)  BY <1>7
<1> QED BY <1>1, <1>2, <1>3, <1>5, <1>7, <1>8, ClosesBooks

\* A process that dies charges nothing more.
LEMMA DiesBooks ==
  ASSUME BooksInv, NEW p \in Procs, Dies(p)
  PROVE  BooksInv'
<1>1. BooksType  BY DEF BooksInv
<1>2. /\ UNCHANGED <<trades, filled, sold, sales, faults, told, owed, unseen>>
      /\ Becomes(p, Idle)
      /\ reported' = IF At(p, "late")
                     THEN [reported EXCEPT ![call[p].order] = filled[call[p].order]]
                     ELSE reported
  BY DEF Dies
<1>3. At(p, "late") => call[p].order \in Orders  BY <1>1, CallFacts DEF At, CallOK
<1>4. reported' \in [Orders -> Nat] /\ \A o \in Orders : reported'[o] <= filled[o]
  <2>1. CASE At(p, "late")
    <3> DEFINE o == call[p].order
    <3>1. o \in Orders /\ reported' = [reported EXCEPT ![o] = filled[o]]
      BY <1>2, <1>3, <2>1
    <3> HIDE DEF o
    <3> QED BY <1>1, <3>1 DEF BooksType
  <2>2. CASE ~At(p, "late")  BY <2>2, <1>1, <1>2 DEF BooksType
  <2> QED BY <2>1, <2>2
<1>5. OthersOK  BY <1>1, <1>2, <1>4 DEF OthersOK, BooksType
<1>6. GoesOn(p, Idle)  BY <1>2, IdleGoesOn
<1> QED BY <1>2, <1>5, <1>6, SameBooks

\* Fills of the broker, and a SELL without a price, leave the table and the calls alone.
LEMMA OtherBooks ==
  ASSUME BooksInv, (\E o \in Orders : FillsLate(o)) \/ SellUnpriced
  PROVE  BooksInv'
<1>1. BooksType /\ ChargeInv  BY DEF BooksInv
<1>2. CASE \E o \in Orders : FillsLate(o)
  <2>1. PICK o \in Orders :
          /\ filled' = [filled EXCEPT ![o] = @ + 1] /\ owed' = owed \cup {o}
          /\ UNCHANGED <<trades, reported, sold, sales, call, faults, told, unseen, silent>>
    BY <1>2 DEF FillsLate
  <2>2. BooksType'
    <3>1. filled' \in [Orders -> Nat] /\ \A q \in Orders : reported'[q] <= filled'[q]
      BY <1>1, <2>1 DEF BooksType
    <3> QED BY <1>1, <2>1, <3>1 DEF BooksType
  <2>3. sold <= sold'  BY <1>1, <2>1 DEF BooksType
  <2>4. ChargeInv'  BY <1>1, <2>1, <2>2, <2>3, ChargeStays
  <2> QED BY <2>2, <2>4 DEF BooksInv
<1>3. CASE SellUnpriced
  <2>1. PICK n \in 1 .. SharesOf(filled) - sold :
          /\ sold' = sold + n /\ told' = TRUE
          /\ UNCHANGED <<trades, filled, reported, call, faults, owed, unseen, silent>>
    BY <1>3 DEF SellUnpriced
  <2>2. SharesOf(filled) \in Nat /\ sold \in Int  BY <1>1, FilledShares DEF BooksType
  <2>3. n \in Nat /\ sold' \in Int /\ sold <= sold'  BY <2>1, <2>2
  <2>4. BooksType'  BY <1>1, <2>1, <2>3 DEF BooksType
  <2>5. ChargeInv'  BY <1>1, <2>1, <2>3, <2>4, ChargeStays
  <2> QED BY <2>4, <2>5 DEF BooksInv
<1> QED BY <1>2, <1>3

\* At the start there are no rows, calls or SELLs.
LEMMA InitBooks == ASSUME RowsInit PROVE BooksInv
<1>1. trades = <<>> /\ Len(trades) = 0 /\ trades \in Seq(RowRecords)
  BY EmptySeq DEF RowsInit
<1>2. filled = [o \in Orders |-> 0] /\ reported = filled /\ sold = 0
  BY DEF RowsInit
<1>3. call = [p \in Procs |-> Idle] /\ told = FALSE /\ owed = {} /\ unseen = {}
  BY DEF RowsInit
<1>4. BooksType
  <2>1. filled \in [Orders -> Nat] /\ reported \in [Orders -> Nat]
    BY <1>2
  <2>2. call \in [Procs -> CallRecords] /\ \A p \in Procs : CallOK(call[p], Len(trades))
    BY <1>3, IdleOK
  <2>3. \A o \in Orders : reported[o] <= filled[o]  BY <1>2
  <2>4. sold \in Int  BY <1>2
  <2>5. told \in BOOLEAN  BY <1>3
  <2>6. owed \subseteq Orders /\ unseen \subseteq Orders  BY <1>3
  <2> QED BY <1>1, <2>1, <2>2, <2>3, <2>4, <2>5, <2>6 DEF BooksType
<1>5. ChargeInv
  <2> DEFINE g == [i \in 1 .. 0 |-> 0]
  <2>1. Sum(1 .. 0, g) = 0
    <3>1. 1 .. 0 = {}  OBVIOUS
    <3> QED BY <3>1, SumEmpty
  <2>2. TakesIn(call) = 0
    <3> DEFINE f == [p \in Procs |-> Takes(call[p])]
    <3>1. Takes(Idle) = 0  BY DEF Takes, Idle, Lotted
    <3>2. \A p \in Procs : f[p] = 0  BY <1>3, <3>1
    <3> HIDE DEF f
    <3>3. Sum(Procs, f) = 0  BY <3>2, RowsAssumption, SumZero
    <3> QED BY <3>3 DEF TakesIn, f
  <2>3. \A p \in Procs : call[p].pc \notin Lotted  BY <1>3 DEF Idle, Lotted
  <2>4. g \in [1 .. Len(trades) -> Nat] /\ \A i \in 1 .. Len(trades) : FALSE  BY <1>1
  <2> HIDE DEF g
  <2>5. Sum(1 .. Len(trades), g) + TakesIn(call) <= sold  BY <1>1, <1>2, <2>1, <2>2
  <2>6. Charged(g)  BY <2>3, <2>4, <2>5 DEF Charged
  <2> QED BY <2>6 DEF ChargeInv
<1> QED BY <1>4, <1>5 DEF BooksInv

\* Every step keeps the charges: one lemma per action.
LEMMA StepBooks == ASSUME BooksInv, [RowsNext]_rowsVars PROVE BooksInv'
<1>1. ASSUME NEW p \in Procs, Buys(p) PROVE BooksInv'
  BY <1>1, LateWritesBooks, EnterBooks, LateBeginsBooks DEF Buys
<1>2. ASSUME NEW p \in Procs, Sells(p) PROVE BooksInv'
  BY <1>2, SellBeginsBooks, FindBooks, SplitBooks, KeepBooks, ClosePartBooks, UndoBooks,
     CloseWholeBooks DEF Sells
<1>3. ASSUME NEW p \in Procs, Dies(p) PROVE BooksInv'
  BY <1>3, DiesBooks
<1>4. CASE (\E o \in Orders : FillsLate(o)) \/ SellUnpriced  BY <1>4, OtherBooks
<1>5. CASE UNCHANGED rowsVars
  BY <1>5 DEF rowsVars, BooksInv, BooksType, ChargeInv, Charged
<1> QED BY <1>1, <1>2, <1>3, <1>4, <1>5 DEF RowsNext

\* The closed rows' P&L is within the charges.
LEMMA ChargesBound == ASSUME BooksInv PROVE PnlOnce
<1>1. BooksType  BY DEF BooksInv
<1>2. PICK g : Charged(g)  BY DEF BooksInv, ChargeInv
<1> DEFINE n == Len(trades)
           f == [i \in 1 .. n |-> PnlOf(trades[i])]
<1>3. trades \in Seq(RowRecords) /\ n \in Nat /\ sold \in Int
  BY <1>1, CallFacts, LenProperties DEF BooksType
<1>4. \A i \in 1 .. n : trades[i] \in RowRecords  BY <1>3, ElementOfSeq
<1>5. \A i \in 1 .. n : f[i] \in Nat /\ g[i] \in Nat /\ f[i] <= g[i]
  <2> SUFFICES ASSUME NEW i \in 1 .. n
               PROVE  PnlOf(trades[i]) \in Nat /\ g[i] \in Nat /\ PnlOf(trades[i]) <= g[i]
    OBVIOUS
  <2>1. g[i] \in Nat /\ trades[i].pnl <= g[i]  BY <1>2 DEF Charged
  <2>2. trades[i] \in RowRecords  BY <1>4
  <2> QED BY <2>1, <2>2 DEF PnlOf, RowRecords
<1>6. IsFiniteSet(1 .. n)  BY <1>3, FiniteRows
<1>7. BookedPnl = Sum(1 .. n, f)  BY <1>3, BookedPnlIs DEF PnlIn
<1> HIDE DEF f
<1>8. Sum(1 .. n, f) <= Sum(1 .. n, g) /\ Sum(1 .. n, f) \in Nat /\ Sum(1 .. n, g) \in Nat
  BY <1>5, <1>6, SumUpTo, SumNat
<1>9. TakesIn(call) \in Nat
  <2>1. \A p \in Procs : [q \in Procs |-> Takes(call[q])][p] \in Nat
    BY <1>1, TakesNat DEF BooksType
  <2> QED BY <2>1, RowsAssumption, SumNat DEF TakesIn
<1>10. Sum(1 .. n, g) + TakesIn(call) <= sold  BY <1>2 DEF Charged
<1> QED BY <1>3, <1>7, <1>8, <1>9, <1>10 DEF PnlOnce

\* Whatever fails, whoever interleaves or dies, the closed rows hold the P&L of no more shares
\* than were sold: a share's P&L is not counted twice against the loss limits.
THEOREM OncePerShare == RowsSpec => []PnlOnce
<1>1. RowsInit => BooksInv  BY InitBooks
<1>2. BooksInv /\ [RowsNext]_rowsVars => BooksInv'  BY StepBooks
<1>3. BooksInv => PnlOnce  BY ChargesBound
<1> QED BY <1>1, <1>2, <1>3, PTL DEF RowsSpec

-----------------------------------------------------------------------------
(* The books of a table T that nobody has to look at. *)

\* An order whose late fill was written without an answer, and whose row is closed: its next
\* write goes to another row
Doomed(T, u) == \E i \in 1 .. Len(T) : T[i].order \in u /\ T[i].status = "closed"

\* What the table has of each order: what its callers count, or, if they do not know, its row
Has(T, u, rep, has) ==
    /\ has \in [Orders -> Nat]
    /\ \A o \in Orders : o \notin u => has[o] = rep[o]
    /\ \A i \in 1 .. Len(T) : T[i].order \in Orders /\ T[i].status = "open" =>
                               has[T[i].order] = T[i].qty

\* The closed rows have the P&L of `out` shares, the open rows all others, and x more
Accounts(T, u, rep, out, x) ==
    /\ PnlIn(T) = out
    /\ Doomed(T, u) \/ \E has : Has(T, u, rep, has) /\ OpenIn(T) = Sum(Orders, has) - out + x

\* Each order has one row, and has it as soon as a caller knows
OneRow(T) == \A i, j \in 1 .. Len(T) : T[i].order = T[j].order /\ T[i].order \in Orders => i = j
Unlisted(T, o) == \A i \in 1 .. Len(T) : T[i].order # o
Plain(r) == r.pend = 0 /\ r.qty >= 1 /\ r.status # "gone"

TableOK(T, f) ==
    /\ \A i \in 1 .. Len(T) : Plain(T[i]) /\ (T[i].order \in Orders => f[T[i].order] > 0)
    /\ OneRow(T)

InTable(T, rep, u) == \A o \in Orders : rep[o] > 0 \/ o \in u => ~Unlisted(T, o)

\* ... and no order is reported short that is not owed
OwedOK(f, rep, ow, u) ==
    /\ \A o \in Orders : rep[o] < f[o] => o \in ow
    /\ u \subseteq ow /\ \A o \in ow : f[o] > 0

\* A table with one row more, or with another row k
IsAdded(U, T, r) == T \in Seq(RowRecords) /\ r \in RowRecords /\ U = Append(T, r)
IsChanged(U, T, k, r) ==
    T \in Seq(RowRecords) /\ k \in 1 .. Len(T) /\ r \in RowRecords /\ U = [T EXCEPT ![k] = r]

\* One row more: the sums grow by what it holds.
LEMMA RowInserted ==
  ASSUME NEW T, NEW r, NEW U, IsAdded(U, T, r)
  PROVE  /\ U \in Seq(RowRecords) /\ Len(T) \in Nat /\ Len(U) = Len(T) + 1
         /\ U[Len(T) + 1] = r /\ \A i \in 1 .. Len(T) : U[i] = T[i] /\ i \in 1 .. Len(U)
         /\ Len(T) + 1 \in 1 .. Len(U)
         /\ \A i \in 1 .. Len(U) : i \in 1 .. Len(T) \/ i = Len(T) + 1
         /\ PnlIn(U) = PnlIn(T) + PnlOf(r) /\ OpenIn(U) = OpenIn(T) + OpenOf(r)
         /\ PnlIn(T) \in Int /\ OpenIn(T) \in Int
<1>1. T \in Seq(RowRecords) /\ r \in RowRecords /\ U = Append(T, r)  BY DEF IsAdded
<1>2. Len(T) \in Nat /\ U \in Seq(RowRecords) /\ Len(U) = Len(T) + 1
  BY <1>1, LenProperties, AppendProperties
<1>3. U[Len(T) + 1] = r /\ \A i \in 1 .. Len(T) : U[i] = T[i]  BY <1>1, AppendProperties
<1>4. PnlIn(U) = PnlIn(T) + PnlOf(r) /\ OpenIn(U) = OpenIn(T) + OpenOf(r)  BY <1>1, RowAdded
<1>5. PnlIn(T) \in Int /\ OpenIn(T) \in Int  BY <1>1, RowSums
<1> QED BY <1>2, <1>3, <1>4, <1>5

\* Row k written: the sums change by what it held and what it holds.
LEMMA RowWritten ==
  ASSUME NEW T, NEW k, NEW r, NEW U, IsChanged(U, T, k, r)
  PROVE  /\ U \in Seq(RowRecords) /\ Len(T) \in Nat /\ Len(U) = Len(T) /\ U[k] = r
         /\ \A i \in 1 .. Len(T) : i # k => U[i] = T[i]
         /\ PnlIn(U) = PnlIn(T) - PnlOf(T[k]) + PnlOf(r)
         /\ OpenIn(U) = OpenIn(T) - OpenOf(T[k]) + OpenOf(r)
         /\ PnlIn(T) \in Int /\ OpenIn(T) \in Int /\ T[k] \in RowRecords
<1>1. T \in Seq(RowRecords) /\ k \in 1 .. Len(T) /\ r \in RowRecords /\ U = [T EXCEPT ![k] = r]
  BY DEF IsChanged
<1>2. Len(T) \in Nat  BY <1>1, LenProperties
<1>3. U \in Seq(RowRecords) /\ Len(U) = Len(T)  BY <1>1, ExceptSeq
<1>4. U[k] = r /\ \A i \in 1 .. Len(T) : i # k => U[i] = T[i]  BY <1>1, ExceptSeq
<1>5. /\ PnlIn(U) = PnlIn(T) - PnlOf(T[k]) + PnlOf(r)
      /\ OpenIn(U) = OpenIn(T) - OpenOf(T[k]) + OpenOf(r)
  BY <1>1, RowChanged
<1>6. PnlIn(T) \in Int /\ OpenIn(T) \in Int  BY <1>1, RowSums
<1>7. T[k] \in RowRecords  BY <1>1, ElementOfSeq
<1> QED BY <1>1, <1>2, <1>3, <1>4, <1>5, <1>6, <1>7

\* What the table has of all orders, when one of them changes
SetTo(h, has, o, n) ==
    has \in [Orders -> Nat] /\ o \in Orders /\ n \in Nat /\ h = [has EXCEPT ![o] = n]

\* The sum over the orders changes as that order does.
LEMMA HasSum ==
  ASSUME NEW h, NEW has, NEW o, NEW n, SetTo(h, has, o, n)
  PROVE  /\ h \in [Orders -> Nat] /\ h[o] = n /\ \A q \in Orders : q # o => h[q] = has[q]
         /\ Sum(Orders, has) \in Nat
         /\ Sum(Orders, h) = Sum(Orders, has) - has[o] + n
<1>1. IsFiniteSet(Orders)  BY RowsAssumption
<1>2. h \in [Orders -> Nat] /\ h[o] = n /\ \A q \in Orders : q # o => h[q] = has[q]
  BY DEF SetTo
<1>3. \A q \in Orders : has[q] \in Nat /\ h[q] \in Int  BY <1>2 DEF SetTo
<1>4. Sum(Orders, has) \in Nat  BY <1>1, <1>3, SumNat
<1>5. Differs(Orders, has, h, o)  BY <1>1, <1>2, <1>3 DEF Differs, SetTo
<1>6. Sum(Orders, h) = Sum(Orders, has) - has[o] + h[o]  BY <1>5, SumDiffers
<1> QED BY <1>2, <1>4, <1>6

\* A row of no order
LEMMA FreeRow ==
  ASSUME NEW q \in Nat, NEW r, r = Row(NoOrder, q, 0)
  PROVE  r \in RowRecords /\ PnlOf(r) = 0 /\ OpenOf(r) = q /\ r.order = NoOrder
BY NewRow

\* It counts as x.
LEMMA AccountsFree ==
  ASSUME NEW T \in Seq(RowRecords), NEW u \in SUBSET Orders, NEW rep \in [Orders -> Nat],
         NEW out \in Int, NEW x \in Int,
         Accounts(T, u, rep, out, x), NEW q \in Nat, NEW U, IsAdded(U, T, Row(NoOrder, q, 0))
  PROVE  Accounts(U, u, rep, out, x + q)
<1> DEFINE r == Row(NoOrder, q, 0)
<1>1. r \in RowRecords /\ PnlOf(r) = 0 /\ OpenOf(r) = q /\ r.order = NoOrder  BY NewRow
<1>2. IsAdded(U, T, r)  OBVIOUS
<1> HIDE DEF r
<1>3. /\ Len(T) \in Nat /\ Len(U) = Len(T) + 1
      /\ U[Len(T) + 1] = r /\ \A i \in 1 .. Len(T) : U[i] = T[i] /\ i \in 1 .. Len(U)
      /\ \A i \in 1 .. Len(U) : i \in 1 .. Len(T) \/ i = Len(T) + 1
      /\ PnlIn(U) = PnlIn(T) + PnlOf(r) /\ OpenIn(U) = OpenIn(T) + OpenOf(r)
      /\ PnlIn(T) \in Int /\ OpenIn(T) \in Int
  BY <1>2, RowInserted
<1>4. PnlIn(U) = out  BY <1>1, <1>3 DEF Accounts
<1>5. CASE Doomed(T, u)
  <2>1. Doomed(U, u)  BY <1>3, <1>5 DEF Doomed
  <2> QED BY <1>4, <2>1 DEF Accounts
<1>6. CASE \E has : Has(T, u, rep, has) /\ OpenIn(T) = Sum(Orders, has) - out + x
  <2>1. PICK has : Has(T, u, rep, has) /\ OpenIn(T) = Sum(Orders, has) - out + x  BY <1>6
  <2>2. Has(U, u, rep, has)
    <3>1. NoOrder \notin Orders  BY RowsAssumption
    <3>2. \A i \in 1 .. Len(U) : U[i].order \in Orders => i \in 1 .. Len(T)
      BY <1>1, <1>3, <3>1
    <3> QED BY <1>3, <2>1, <3>2 DEF Has
  <2>3. Sum(Orders, has) \in Nat
    <3>1. \A o \in Orders : has[o] \in Nat  BY <2>1 DEF Has
    <3> QED BY <3>1, RowsAssumption, SumNat
  <2>4. OpenIn(U) = Sum(Orders, has) - out + (x + q)  BY <1>1, <1>3, <2>1, <2>3
  <2> QED BY <1>4, <2>2, <2>4 DEF Accounts
<1> QED BY <1>5, <1>6 DEF Accounts

\* An open row closes.
LEMMA AccountsClose ==
  ASSUME NEW T \in Seq(RowRecords), NEW u \in SUBSET Orders, NEW rep \in [Orders -> Nat],
         NEW out \in Int, NEW x \in Int,
         Accounts(T, u, rep, out, x), NEW k \in 1 .. Len(T), NEW r \in RowRecords,
         T[k].status = "open", T[k].pend = 0, r.status = "closed", r.order = T[k].order,
         NEW U, IsChanged(U, T, k, r)
  PROVE  Accounts(U, u, rep, out + r.pnl, x - T[k].qty + r.pnl)
<1>1. /\ Len(T) \in Nat /\ Len(U) = Len(T) /\ U[k] = r
      /\ \A i \in 1 .. Len(T) : i # k => U[i] = T[i]
      /\ PnlIn(U) = PnlIn(T) - PnlOf(T[k]) + PnlOf(r)
      /\ OpenIn(U) = OpenIn(T) - OpenOf(T[k]) + OpenOf(r)
      /\ PnlIn(T) \in Int /\ OpenIn(T) \in Int /\ T[k] \in RowRecords
  BY RowWritten
<1>2. /\ PnlOf(T[k]) = 0 /\ PnlOf(r) = r.pnl /\ OpenOf(T[k]) = T[k].qty /\ OpenOf(r) = 0
      /\ r.pnl \in Nat /\ T[k].qty \in Nat
  BY <1>1 DEF PnlOf, OpenOf, RowRecords
<1>3. PnlIn(U) = out + r.pnl  BY <1>1, <1>2 DEF Accounts
<1>4. CASE Doomed(T, u)
  <2>1. PICK i \in 1 .. Len(T) : T[i].order \in u /\ T[i].status = "closed"  BY <1>4 DEF Doomed
  <2>2. i # k  BY <2>1
  <2>3. Doomed(U, u)  BY <1>1, <2>1, <2>2 DEF Doomed
  <2> QED BY <1>3, <2>3 DEF Accounts
<1>5. CASE \E has : Has(T, u, rep, has) /\ OpenIn(T) = Sum(Orders, has) - out + x
  <2>1. PICK has : Has(T, u, rep, has) /\ OpenIn(T) = Sum(Orders, has) - out + x  BY <1>5
  <2>2. Has(U, u, rep, has)
    <3>1. \A i \in 1 .. Len(U) : U[i].status = "open" => i # k /\ U[i] = T[i]  BY <1>1
    <3> QED BY <1>1, <2>1, <3>1 DEF Has
  <2>3. Sum(Orders, has) \in Nat
    <3>1. \A o \in Orders : has[o] \in Nat  BY <2>1 DEF Has
    <3> QED BY <3>1, RowsAssumption, SumNat
  <2>4. OpenIn(U) = Sum(Orders, has) - (out + r.pnl) + (x - T[k].qty + r.pnl)
    <3>1. OpenIn(U) = OpenIn(T) - T[k].qty  BY <1>1, <1>2
    <3>2. OpenIn(T) = Sum(Orders, has) - out + x  BY <2>1
    <3>3. out \in Int /\ x \in Int /\ r.pnl \in Int /\ T[k].qty \in Int  BY <1>2
    <3> QED BY ONLY <2>3, <3>1, <3>2, <3>3
  <2> QED BY <1>3, <2>2, <2>4 DEF Accounts
<1> QED BY <1>4, <1>5 DEF Accounts

\* A closed row is written once more.
LEMMA AccountsAgain ==
  ASSUME NEW T \in Seq(RowRecords), NEW u \in SUBSET Orders, NEW rep \in [Orders -> Nat],
         NEW out \in Int, NEW x \in Int,
         Accounts(T, u, rep, out, x), NEW k \in 1 .. Len(T), NEW r \in RowRecords,
         T[k].status = "closed", r.status = "closed", r.order = T[k].order, r.pnl = T[k].pnl,
         NEW U, IsChanged(U, T, k, r)
  PROVE  Accounts(U, u, rep, out, x)
<1>1. /\ Len(T) \in Nat /\ Len(U) = Len(T) /\ U[k] = r
      /\ \A i \in 1 .. Len(T) : i # k => U[i] = T[i]
      /\ PnlIn(U) = PnlIn(T) - PnlOf(T[k]) + PnlOf(r)
      /\ OpenIn(U) = OpenIn(T) - OpenOf(T[k]) + OpenOf(r)
      /\ PnlIn(T) \in Int /\ OpenIn(T) \in Int /\ T[k] \in RowRecords
  BY RowWritten
<1>2. PnlOf(T[k]) = r.pnl /\ PnlOf(r) = r.pnl /\ OpenOf(T[k]) = 0 /\ OpenOf(r) = 0
      /\ r.pnl \in Nat
  BY <1>1 DEF PnlOf, OpenOf, RowRecords
<1>3. PnlIn(U) = PnlIn(T) /\ OpenIn(U) = OpenIn(T)  BY <1>1, <1>2
<1>4. Doomed(T, u) => Doomed(U, u)
  <2> SUFFICES ASSUME NEW i \in 1 .. Len(T), T[i].order \in u, T[i].status = "closed"
               PROVE  U[i].order \in u /\ U[i].status = "closed"
    BY <1>1 DEF Doomed
  <2> QED BY <1>1
<1>5. ASSUME NEW has, Has(T, u, rep, has) PROVE Has(U, u, rep, has)
  <2>1. \A i \in 1 .. Len(U) : U[i].status = "open" => i # k /\ U[i] = T[i]  BY <1>1
  <2> QED BY <1>1, <1>5, <2>1 DEF Has
<1> QED BY <1>3, <1>4, <1>5 DEF Accounts

\* Order o has n shares, and its caller knows (or not) that it is written
Learnt(o, n, seen, u, rep, v, req) ==
    IF seen THEN v = u \ {o} /\ req = [rep EXCEPT ![o] = n]
            ELSE v = u \cup {o} /\ req = rep

\* ... and owes it no more if it does
Settled(o, seen, ow, due) == due = IF seen THEN ow \ {o} ELSE ow

\* What the table has then, of the order and of the others
LEMMA HasLearnt ==
  ASSUME NEW T, NEW u \in SUBSET Orders, NEW rep \in [Orders -> Nat], NEW has,
         Has(T, u, rep, has), NEW o \in Orders, NEW n \in Nat, NEW seen \in BOOLEAN,
         NEW v, NEW req, Learnt(o, n, seen, u, rep, v, req),
         NEW h, SetTo(h, has, o, n)
  PROVE  \A q \in Orders : q \notin v => h[q] = req[q]
<1>1. has \in [Orders -> Nat] /\ \A q \in Orders : q \notin u => has[q] = rep[q]  BY DEF Has
<1>2. h \in [Orders -> Nat] /\ h[o] = n /\ \A q \in Orders : q # o => h[q] = has[q]
  BY <1>1, HasSum
<1>3. ASSUME NEW q \in Orders, q \notin v PROVE h[q] = req[q]
  <2>1. CASE q = o  BY <1>2, <1>3, <2>1 DEF Learnt
  <2>2. CASE q # o
    <3>1. q \notin u /\ req[q] = rep[q]  BY <1>3, <2>2 DEF Learnt
    <3> QED BY <1>1, <1>2, <2>2, <3>1
  <2> QED BY <2>1, <2>2
<1> QED BY <1>3

\* The first row of an order
LEMMA AccountsEnter ==
  ASSUME NEW T \in Seq(RowRecords), NEW u \in SUBSET Orders, NEW rep \in [Orders -> Nat],
         NEW out \in Int, NEW x \in Int,
         Accounts(T, u, rep, out, x), NEW o \in Orders, NEW n \in Nat,
         Unlisted(T, o), o \notin u, rep[o] = 0,
         NEW seen \in BOOLEAN, NEW v, NEW req, Learnt(o, n, seen, u, rep, v, req),
         NEW U, IsAdded(U, T, Row(o, n, 0))
  PROVE  Accounts(U, v, req, out, x)
<1> DEFINE r == Row(o, n, 0)
<1>1. PnlOf(r) = 0 /\ OpenOf(r) = n /\ r.order = o /\ r.qty = n  BY NewRow
<1>2. IsAdded(U, T, r)  OBVIOUS
<1> HIDE DEF r
<1>3. /\ Len(T) \in Nat /\ Len(U) = Len(T) + 1
      /\ U[Len(T) + 1] = r /\ \A i \in 1 .. Len(T) : U[i] = T[i] /\ i \in 1 .. Len(U)
      /\ \A i \in 1 .. Len(U) : i \in 1 .. Len(T) \/ i = Len(T) + 1
      /\ PnlIn(U) = PnlIn(T) + PnlOf(r) /\ OpenIn(U) = OpenIn(T) + OpenOf(r)
      /\ PnlIn(T) \in Int /\ OpenIn(T) \in Int
  BY <1>2, RowInserted
<1>4. PnlIn(U) = out  BY <1>1, <1>3 DEF Accounts
<1>5. CASE Doomed(T, u)
  <2>1. PICK i \in 1 .. Len(T) : T[i].order \in u /\ T[i].status = "closed"  BY <1>5 DEF Doomed
  <2>2. U[i] = T[i] /\ i \in 1 .. Len(U)  BY <1>3
  <2>3. U[i].order \in v  BY <2>1, <2>2 DEF Learnt
  <2>4. Doomed(U, v)  BY <2>1, <2>2, <2>3 DEF Doomed
  <2> QED BY <1>4, <2>4 DEF Accounts
<1>6. CASE \E has : Has(T, u, rep, has) /\ OpenIn(T) = Sum(Orders, has) - out + x
  <2>1. PICK has : Has(T, u, rep, has) /\ OpenIn(T) = Sum(Orders, has) - out + x  BY <1>6
  <2>2. PICK h : SetTo(h, has, o, n)  BY <2>1 DEF Has, SetTo
  <2>3. /\ h \in [Orders -> Nat] /\ h[o] = n /\ \A q \in Orders : q # o => h[q] = has[q]
        /\ \A q \in Orders : q \notin v => h[q] = req[q]
    <3>1. \A q \in Orders : q \notin v => h[q] = req[q]  BY <2>1, <2>2, HasLearnt
    <3> QED BY <2>2, <3>1, HasSum
  <2>4. has \in [Orders -> Nat] /\ has[o] = 0  BY <2>1 DEF Has
  <2>5. Sum(Orders, has) \in Nat /\ Sum(Orders, h) = Sum(Orders, has) - has[o] + n
    BY <2>2, HasSum
  <2>6. Has(U, v, req, h)
    <3> SUFFICES ASSUME NEW i \in 1 .. Len(U), U[i].order \in Orders, U[i].status = "open"
                 PROVE  h[U[i].order] = U[i].qty
      BY <2>3 DEF Has
    <3>1. CASE i \in 1 .. Len(T)
      <4>1. U[i] = T[i] /\ T[i].order # o  BY <1>3, <3>1 DEF Unlisted
      <4> QED BY <2>1, <2>3, <3>1, <4>1 DEF Has
    <3>2. CASE i = Len(T) + 1  BY <1>1, <1>3, <2>3, <3>2
    <3> QED BY <1>3, <3>1, <3>2
  <2>7. OpenIn(U) = Sum(Orders, h) - out + x
    <3>1. OpenIn(U) = OpenIn(T) + n /\ OpenIn(T) \in Int  BY <1>1, <1>3
    <3>2. OpenIn(T) = Sum(Orders, has) - out + x  BY <2>1
    <3>3. Sum(Orders, h) = Sum(Orders, has) + n /\ n \in Nat  BY <2>4, <2>5
    <3> QED BY ONLY <2>5, <3>1, <3>2, <3>3, out \in Int, x \in Int
  <2> QED BY <1>4, <2>6, <2>7 DEF Accounts
<1> QED BY <1>5, <1>6 DEF Accounts

\* The open row k of an order gets its quantity.
LEMMA AccountsGrow ==
  ASSUME NEW T \in Seq(RowRecords), NEW u \in SUBSET Orders, NEW rep \in [Orders -> Nat],
         NEW out \in Int, NEW x \in Int,
         Accounts(T, u, rep, out, x), NEW o \in Orders, NEW n \in Nat, OneRow(T),
         NEW k \in 1 .. Len(T), T[k].order = o, T[k].status = "open", T[k].pend = 0,
         NEW r \in RowRecords, r.order = o, r.status = "open", r.pend = 0, r.qty = n,
         NEW seen \in BOOLEAN, NEW v, NEW req, Learnt(o, n, seen, u, rep, v, req),
         NEW U, IsChanged(U, T, k, r)
  PROVE  Accounts(U, v, req, out, x)
<1>1. /\ Len(T) \in Nat /\ Len(U) = Len(T) /\ U[k] = r
      /\ \A i \in 1 .. Len(T) : i # k => U[i] = T[i]
      /\ PnlIn(U) = PnlIn(T) - PnlOf(T[k]) + PnlOf(r)
      /\ OpenIn(U) = OpenIn(T) - OpenOf(T[k]) + OpenOf(r)
      /\ PnlIn(T) \in Int /\ OpenIn(T) \in Int /\ T[k] \in RowRecords
  BY RowWritten
<1>2. /\ PnlOf(T[k]) = 0 /\ PnlOf(r) = 0 /\ OpenOf(T[k]) = T[k].qty /\ OpenOf(r) = n
      /\ T[k].qty \in Nat
  BY <1>1 DEF PnlOf, OpenOf, RowRecords
<1>3. PnlIn(U) = out  BY <1>1, <1>2 DEF Accounts
<1>4. CASE Doomed(T, u)
  <2>1. PICK i \in 1 .. Len(T) : T[i].order \in u /\ T[i].status = "closed"  BY <1>4 DEF Doomed
  <2>2. i # k /\ T[i].order # o
    <3>1. i # k  BY <2>1
    <3>2. T[i].order \in Orders  BY <2>1
    <3> QED BY <3>1, <3>2 DEF OneRow
  <2>3. U[i] = T[i]  BY <1>1, <2>2
  <2>4. T[i].order \in v  BY <2>1, <2>2 DEF Learnt
  <2>5. Doomed(U, v)  BY <1>1, <2>1, <2>3, <2>4 DEF Doomed
  <2> QED BY <1>3, <2>5 DEF Accounts
<1>5. CASE \E has : Has(T, u, rep, has) /\ OpenIn(T) = Sum(Orders, has) - out + x
  <2>1. PICK has : Has(T, u, rep, has) /\ OpenIn(T) = Sum(Orders, has) - out + x  BY <1>5
  <2>2. PICK h : SetTo(h, has, o, n)  BY <2>1 DEF Has, SetTo
  <2>3. /\ h \in [Orders -> Nat] /\ h[o] = n /\ \A q \in Orders : q # o => h[q] = has[q]
        /\ \A q \in Orders : q \notin v => h[q] = req[q]
    <3>1. \A q \in Orders : q \notin v => h[q] = req[q]  BY <2>1, <2>2, HasLearnt
    <3> QED BY <2>2, <3>1, HasSum
  <2>4. has \in [Orders -> Nat] /\ has[o] = T[k].qty  BY <2>1 DEF Has
  <2>5. Sum(Orders, has) \in Nat /\ Sum(Orders, h) = Sum(Orders, has) - has[o] + n
    BY <2>2, HasSum
  <2>6. Has(U, v, req, h)
    <3> SUFFICES ASSUME NEW i \in 1 .. Len(U), U[i].order \in Orders, U[i].status = "open"
                 PROVE  h[U[i].order] = U[i].qty
      BY <2>3 DEF Has
    <3>1. CASE i = k  BY <1>1, <2>3, <3>1
    <3>2. CASE i # k
      <4>1. U[i] = T[i] /\ i \in 1 .. Len(T)  BY <1>1, <3>2
      <4>2. T[i].order # o  BY <3>2, <4>1 DEF OneRow
      <4> QED BY <2>1, <2>3, <4>1, <4>2 DEF Has
    <3> QED BY <3>1, <3>2
  <2>7. OpenIn(U) = Sum(Orders, h) - out + x
    <3>1. OpenIn(U) = OpenIn(T) - has[o] + n  BY <1>1, <1>2, <2>4
    <3>2. OpenIn(T) = Sum(Orders, has) - out + x  BY <2>1
    <3>3. out \in Int /\ x \in Int /\ n \in Int /\ has[o] \in Int  BY <2>4
    <3> QED BY ONLY <2>5, <3>1, <3>2, <3>3
  <2> QED BY <1>3, <2>6, <2>7 DEF Accounts
<1> QED BY <1>4, <1>5 DEF Accounts

\* The row of an order is closed: what came since gets a row of no order.
LEMMA AccountsBeyond ==
  ASSUME NEW T \in Seq(RowRecords), NEW u \in SUBSET Orders, NEW rep \in [Orders -> Nat],
         NEW out \in Int, NEW x \in Int,
         Accounts(T, u, rep, out, x), NEW o \in Orders, NEW n \in Nat, OneRow(T),
         NEW k \in 1 .. Len(T), T[k].order = o, T[k].status = "closed",
         o \notin u, rep[o] <= n,
         NEW seen \in BOOLEAN, NEW v, NEW req, Learnt(o, n, seen, u, rep, v, req),
         NEW U, IsAdded(U, T, Row(NoOrder, n - rep[o], 0))
  PROVE  Accounts(U, v, req, out, x)
<1>1. rep[o] \in Nat /\ n - rep[o] \in Nat  OBVIOUS
<1>9. PICK q \in Nat : q = n - rep[o]  BY <1>1
<1>10. PICK r : r = Row(NoOrder, q, 0)  OBVIOUS
<1>2. PnlOf(r) = 0 /\ OpenOf(r) = q /\ r.order = NoOrder  BY <1>10, FreeRow
<1>3. IsAdded(U, T, r)  BY <1>9, <1>10
<1>4. /\ Len(T) \in Nat /\ Len(U) = Len(T) + 1
      /\ U[Len(T) + 1] = r /\ \A i \in 1 .. Len(T) : U[i] = T[i] /\ i \in 1 .. Len(U)
      /\ \A i \in 1 .. Len(U) : i \in 1 .. Len(T) \/ i = Len(T) + 1
      /\ PnlIn(U) = PnlIn(T) + PnlOf(r) /\ OpenIn(U) = OpenIn(T) + OpenOf(r)
      /\ PnlIn(T) \in Int /\ OpenIn(T) \in Int
  BY <1>3, RowInserted
<1>5. PnlIn(U) = out  BY <1>2, <1>4 DEF Accounts
<1>6. CASE Doomed(T, u)
  <2>1. PICK i \in 1 .. Len(T) : T[i].order \in u /\ T[i].status = "closed"  BY <1>6 DEF Doomed
  <2>2. U[i] = T[i] /\ i \in 1 .. Len(U)  BY <1>4
  <2>3. U[i].order \in v  BY <2>1, <2>2 DEF Learnt
  <2>4. Doomed(U, v)  BY <2>1, <2>2, <2>3 DEF Doomed
  <2> QED BY <1>5, <2>4 DEF Accounts
<1>7. CASE ~seen
  <2>1. o \in v  BY <1>7 DEF Learnt
  <2>2. U[k].order \in v /\ U[k].status = "closed" /\ k \in 1 .. Len(U)  BY <1>4, <2>1
  <2>3. Doomed(U, v)  BY <2>2 DEF Doomed
  <2> QED BY <1>5, <2>3 DEF Accounts
<1>8. CASE seen /\ \E has : Has(T, u, rep, has) /\ OpenIn(T) = Sum(Orders, has) - out + x
  <2>1. PICK has : Has(T, u, rep, has) /\ OpenIn(T) = Sum(Orders, has) - out + x  BY <1>8
  <2>2. PICK h : SetTo(h, has, o, n)  BY <2>1 DEF Has, SetTo
  <2>3. /\ h \in [Orders -> Nat] /\ h[o] = n /\ \A p \in Orders : p # o => h[p] = has[p]
        /\ \A p \in Orders : p \notin v => h[p] = req[p]
    <3>1. \A p \in Orders : p \notin v => h[p] = req[p]  BY <2>1, <2>2, HasLearnt
    <3> QED BY <2>2, <3>1, HasSum
  <2>4. has \in [Orders -> Nat] /\ has[o] = rep[o]  BY <2>1 DEF Has
  <2>5. Sum(Orders, has) \in Nat /\ Sum(Orders, h) = Sum(Orders, has) - has[o] + n
    BY <2>2, HasSum
  <2>6. Has(U, v, req, h)
    <3> SUFFICES ASSUME NEW i \in 1 .. Len(U), U[i].order \in Orders, U[i].status = "open"
                 PROVE  h[U[i].order] = U[i].qty
      BY <2>3 DEF Has
    <3>1. i \in 1 .. Len(T)  BY <1>2, <1>4, RowsAssumption
    <3>2. U[i] = T[i]  BY <1>4, <3>1
    <3>3. T[i].order # o
      <4>1. i # k  BY <3>2
      <4> QED BY <3>1, <3>2, <4>1 DEF OneRow
    <3> QED BY <2>1, <2>3, <3>1, <3>2, <3>3 DEF Has
  <2>7. OpenIn(U) = Sum(Orders, h) - out + x
    <3>1. OpenIn(U) = OpenIn(T) + (n - has[o])  BY <1>2, <1>4, <1>9, <2>4
    <3>2. OpenIn(T) = Sum(Orders, has) - out + x  BY <2>1
    <3>3. out \in Int /\ x \in Int /\ n \in Int /\ has[o] \in Int  BY <2>4
    <3> QED BY ONLY <2>5, <3>1, <3>2, <3>3
  <2> QED BY <1>5, <2>6, <2>7 DEF Accounts
<1> QED BY <1>6, <1>7, <1>8 DEF Accounts

\* A row more, of no order or the first of its order, is no harm to the table.
LEMMA TableGrows ==
  ASSUME NEW T, NEW U, NEW r, IsAdded(U, T, r), NEW f, TableOK(T, f), Plain(r),
         r.order \in Orders => Unlisted(T, r.order) /\ f[r.order] > 0
  PROVE  TableOK(U, f) /\ ~Unlisted(U, r.order) /\ \A o : ~Unlisted(T, o) => ~Unlisted(U, o)
<1>1. /\ Len(T) \in Nat /\ Len(U) = Len(T) + 1 /\ Len(T) + 1 \in 1 .. Len(U)
      /\ U[Len(T) + 1] = r /\ \A i \in 1 .. Len(T) : U[i] = T[i] /\ i \in 1 .. Len(U)
      /\ \A i \in 1 .. Len(U) : i \in 1 .. Len(T) \/ i = Len(T) + 1
  BY RowInserted
<1>2. ASSUME NEW i \in 1 .. Len(U)
      PROVE  Plain(U[i]) /\ (U[i].order \in Orders => f[U[i].order] > 0)
  <2>1. CASE i \in 1 .. Len(T)  BY <2>1, <1>1 DEF TableOK
  <2>2. CASE i = Len(T) + 1  BY <2>2, <1>1
  <2> QED BY <1>1, <2>1, <2>2
<1>3. OneRow(U)
  <2> SUFFICES ASSUME NEW i \in 1 .. Len(U), NEW j \in 1 .. Len(U), U[i].order = U[j].order,
                      U[i].order \in Orders
               PROVE  i = j
    BY DEF OneRow
  <2>1. CASE i \in 1 .. Len(T) /\ j \in 1 .. Len(T)
    BY <2>1, <1>1 DEF TableOK, OneRow
  <2>2. CASE i \in 1 .. Len(T) /\ j = Len(T) + 1
    BY <2>2, <1>1 DEF Unlisted
  <2>3. CASE i = Len(T) + 1 /\ j \in 1 .. Len(T)
    BY <2>3, <1>1 DEF Unlisted
  <2> QED BY <1>1, <2>1, <2>2, <2>3
<1>4. ~Unlisted(U, r.order)  BY <1>1 DEF Unlisted
<1>5. ASSUME NEW o, ~Unlisted(T, o) PROVE ~Unlisted(U, o)
  BY <1>1, <1>5 DEF Unlisted
<1> QED BY <1>2, <1>3, <1>4, <1>5 DEF TableOK

\* Nor is another row of the same order in the place of one.
LEMMA TableWritten ==
  ASSUME NEW T, NEW U, NEW k, NEW r, IsChanged(U, T, k, r), NEW f, TableOK(T, f), Plain(r),
         r.order = T[k].order
  PROVE  TableOK(U, f) /\ \A o : ~Unlisted(T, o) => ~Unlisted(U, o)
<1>1. /\ Len(T) \in Nat /\ Len(U) = Len(T) /\ U[k] = r
      /\ \A i \in 1 .. Len(T) : i # k => U[i] = T[i]
  BY RowWritten
<1>2. \A i \in 1 .. Len(T) : U[i].order = T[i].order /\ (Plain(U[i]) \/ U[i] = T[i])
  BY <1>1
<1>3. \A i \in 1 .. Len(U) : Plain(U[i]) /\ (U[i].order \in Orders => f[U[i].order] > 0)
  BY <1>1, <1>2 DEF TableOK
<1>4. OneRow(U)  BY <1>1, <1>2 DEF TableOK, OneRow
<1>5. ASSUME NEW o, ~Unlisted(T, o) PROVE ~Unlisted(U, o)
  BY <1>1, <1>2, <1>5 DEF Unlisted
<1> QED BY <1>3, <1>4, <1>5 DEF TableOK

\* An order that is written is owed no more, or is unseen.
LEMMA OwedLearnt ==
  ASSUME NEW f \in [Orders -> Nat], NEW rep \in [Orders -> Nat], NEW ow, NEW u,
         OwedOK(f, rep, ow, u), NEW o \in Orders, rep[o] < f[o],
         NEW seen \in BOOLEAN, NEW v, NEW req, Learnt(o, f[o], seen, u, rep, v, req),
         NEW due, Settled(o, seen, ow, due)
  PROVE  OwedOK(f, req, due, v)
<1>1. o \in ow  BY DEF OwedOK
<1>2. CASE seen
  <2>1. v = u \ {o} /\ req = [rep EXCEPT ![o] = f[o]]  BY <1>2 DEF Learnt
  <2>2. req[o] = f[o] /\ \A q \in Orders : q # o => req[q] = rep[q]  BY <2>1
  <2>3. f[o] \in Nat /\ ~(req[o] < f[o])  BY <2>2
  <2>4. \A q \in Orders : req[q] < f[q] => q \in ow \ {o}  BY <2>2, <2>3 DEF OwedOK
  <2>5. OwedOK(f, req, ow \ {o}, v)  BY <2>1, <2>4 DEF OwedOK
  <2> QED BY <1>2, <2>5 DEF Settled
<1>3. CASE ~seen
  <2>1. v = u \cup {o} /\ req = rep  BY <1>3 DEF Learnt
  <2> QED BY <1>1, <1>3, <2>1 DEF OwedOK, Settled
<1> QED BY <1>2, <1>3

\* ... and in the table.
LEMMA TableLearnt ==
  ASSUME NEW T, NEW U, NEW rep \in [Orders -> Nat], NEW u, InTable(T, rep, u),
         NEW o, NEW n, NEW seen, NEW v, NEW req, Learnt(o, n, seen, u, rep, v, req),
         ~Unlisted(U, o), \A q : ~Unlisted(T, q) => ~Unlisted(U, q)
  PROVE  InTable(U, req, v)
<1> SUFFICES ASSUME NEW q \in Orders, req[q] > 0 \/ q \in v PROVE ~Unlisted(U, q)
  BY DEF InTable
<1>1. CASE q = o  BY <1>1
<1>2. CASE q # o
  <2>1. req[q] = rep[q] /\ (q \in v => q \in u)  BY <1>2 DEF Learnt
  <2> QED BY <2>1 DEF InTable
<1> QED BY <1>1, <1>2

-----------------------------------------------------------------------------
(* The calls of calm books. *)

\* A late fill: its order is reported short, and its row is as it was read
LateOK(c, T, f, rep) ==
    /\ rep[c.order] < f[c.order]
    /\ c.row = 0 => Unlisted(T, c.order)
    /\ c.row # 0 => T[c.row].order = c.order /\ (c.again <=> T[c.row].status = "closed")

\* A SELL that meets its own row again: it alerts
Stuck(c, T) ==
    c.lots >= 1 /\ \E i \in c.handled : /\ i \in 1 .. Len(T) /\ T[i].status = "open"
                                       /\ \A j \in 1 .. Len(T) : T[j].status = "open" => j <= i

\* A SELL of a row: the row is as it was read, or closed with the P&L of what was sold of it
LotOK(c, T) ==
    /\ c.left >= 1 /\ c.pend = 0 /\ c.qty >= 1 /\ c.row \in c.handled
    /\ T[c.row].status = "open" => T[c.row].qty = c.qty
    /\ T[c.row].status = "closed" => T[c.row].pnl = Piece(c)
    /\ c.pc = "split" => T[c.row].status = "open"
    /\ c.pc = "whole" /\ T[c.row].status = "open" =>
          \A j \in 1 .. Len(T) : T[j].status = "open" => j <= c.row

\* The accounts: what is left to sell is in neither the closed nor the open rows
LotAccounts(c, T, u, rep, s) ==
    IF T[c.row].status = "open"
    THEN Accounts(T, u, rep, s - c.left, IF c.pc = "part" THEN c.qty - Piece(c) ELSE 0)
    ELSE Accounts(T, u, rep, s - c.left + Piece(c), 0)

CalmCall(c, T, f, rep, u, s) ==
    /\ c.pc = "late" => LateOK(c, T, f, rep) /\ Accounts(T, u, rep, s, 0)
    /\ c.pc = "find" => c.left >= 1 /\ (Accounts(T, u, rep, s - c.left, 0) \/ Stuck(c, T))
    /\ c.pc \in Lotted => LotOK(c, T)
    /\ c.pc \in {"split", "part", "whole"} => LotAccounts(c, T, u, rep, s)

\* Nothing has gone wrong, and nobody was asked to look
Calm == silent = {} /\ ~told

\* Then one process at most is booking, and the rows account for what was sold
Steady ==
    /\ \A p, q \in Procs : ~At(p, "idle") /\ ~At(q, "idle") => p = q
    /\ TableOK(trades, filled) /\ InTable(trades, reported, unseen)
    /\ OwedOK(filled, reported, owed, unseen)
    /\ \A p \in Procs : CalmCall(call[p], trades, filled, reported, unseen, sold)
    /\ AtRest => Accounts(trades, unseen, reported, sold, 0)

CalmInv == Calm => Steady

\* Process p goes on to c; the others are idle.
LEMMA Handover ==
  ASSUME BooksType, Steady, NEW p \in Procs, NEW c, Becomes(p, c), AtRest \/ ~At(p, "idle"),
         TableOK(trades', filled'), InTable(trades', reported', unseen'),
         OwedOK(filled', reported', owed', unseen'),
         CalmCall(c, trades', filled', reported', unseen', sold'),
         c.pc = "idle" => Accounts(trades', unseen', reported', sold', 0)
  PROVE  Steady'
<1>1. call'[p] = c /\ \A q \in Procs : q # p => call'[q] = call[q]
  BY CallChanges DEF BooksType
<1>2. \A q \in Procs : q # p => call'[q].pc = "idle"
  BY <1>1 DEF Steady, At, AtRest
<1>3. \A q, r \in Procs : call'[q].pc # "idle" /\ call'[r].pc # "idle" => q = r
  BY <1>2
<1>4. \A q \in Procs : CalmCall(call'[q], trades', filled', reported', unseen', sold')
  <2> SUFFICES ASSUME NEW q \in Procs
               PROVE  CalmCall(call'[q], trades', filled', reported', unseen', sold')
    OBVIOUS
  <2>1. CASE q = p  BY <2>1, <1>1
  <2>2. CASE q # p  BY <2>2, <1>2 DEF CalmCall, Lotted
  <2> QED BY <2>1, <2>2
<1>5. (\A q \in Procs : call'[q].pc = "idle") => Accounts(trades', unseen', reported', sold', 0)
  BY <1>1
<1> QED BY <1>3, <1>4, <1>5 DEF Steady, At, AtRest

-----------------------------------------------------------------------------
(* Calm books, action by action. *)

\* What each step may use
LEMMA CalmFacts ==
  ASSUME BooksType, Steady, AtRest
  PROVE  /\ Accounts(trades, unseen, reported, sold, 0)
         /\ TableOK(trades, filled) /\ OneRow(trades) /\ InTable(trades, reported, unseen)
         /\ OwedOK(filled, reported, owed, unseen)
         /\ trades \in Seq(RowRecords) /\ unseen \in SUBSET Orders
         /\ reported \in [Orders -> Nat] /\ filled \in [Orders -> Nat] /\ sold \in Int
BY DEF Steady, TableOK, BooksType

\* An idle process has nothing under way.
LEMMA IdleCalm ==
  ASSUME NEW c, c.pc = "idle", NEW T, NEW f, NEW rep, NEW u, NEW s
  PROVE  CalmCall(c, T, f, rep, u, s)
BY DEF CalmCall, Lotted

\* An entry whose row is inserted adds the shares bought to the open rows.
LEMMA EnterCalm ==
  ASSUME BooksType, Steady, Calm, Calm', NEW p \in Procs, NEW o \in Orders, Enter(p, o)
  PROVE  Steady'
<1>1. PICK n \in Qty \ {0}, applied \in BOOLEAN, seen \in BOOLEAN :
         /\ Stored(applied, Inserted(Row(o, n, 0)))
         /\ filled' = [filled EXCEPT ![o] = n] /\ reported' = [reported EXCEPT ![o] = n]
         /\ silent' = silent \cup (IF applied THEN {} ELSE {"unsaved entry"}) \cup Overlap
  BY DEF Enter
<1>2. /\ At(p, "idle") /\ filled[o] = 0
      /\ UNCHANGED <<sold, sales, call, told, owed, unseen>>
  BY DEF Enter
<1>3. applied /\ AtRest  BY <1>1 DEF Calm, Overlap
<1>4. n \in Nat /\ n > 0  BY RowsAssumption DEF Qty
<1>5. /\ Accounts(trades, unseen, reported, sold, 0)
      /\ TableOK(trades, filled) /\ InTable(trades, reported, unseen)
      /\ OwedOK(filled, reported, owed, unseen)
      /\ trades \in Seq(RowRecords) /\ unseen \in SUBSET Orders
      /\ reported \in [Orders -> Nat] /\ filled \in [Orders -> Nat] /\ sold \in Int
  BY <1>3, CalmFacts
<1>6. Unlisted(trades, o) /\ o \notin unseen /\ reported[o] = 0
  <2>1. o \notin unseen  BY <1>2, <1>5 DEF OwedOK
  <2>2. reported[o] = 0  BY <1>2, <1>5 DEF BooksType
  <2>3. Unlisted(trades, o)  BY <1>2, <1>5 DEF TableOK, Unlisted
  <2> QED BY <2>1, <2>2, <2>3
<1>7. PICK r : r = Row(o, n, 0)  OBVIOUS
<1>8. r \in RowRecords /\ r.order = o /\ Plain(r)  BY <1>4, <1>7, NewRow DEF Plain
<1>9. IsAdded(trades', trades, r)
  BY <1>1, <1>3, <1>5, <1>7, <1>8 DEF IsAdded, Stored, Inserted
<1>10. Accounts(trades', unseen', reported', sold', 0)
  <2>1. Learnt(o, n, TRUE, unseen, reported, unseen', reported')
    BY <1>1, <1>2, <1>6 DEF Learnt
  <2>2. sold' = sold  BY <1>2
  <2>3. IsAdded(trades', trades, Row(o, n, 0))  BY <1>7, <1>9
  <2>4. Accounts(trades', unseen', reported', sold, 0)
    <3>1. TRUE \in BOOLEAN /\ 0 \in Int  OBVIOUS
    <3> QED BY <1>4, <1>5, <1>6, <2>1, <2>3, <3>1, AccountsEnter
  <2> QED BY <2>2, <2>4
<1>11. TableOK(trades', filled') /\ InTable(trades', reported', unseen')
  <2>1. filled'[o] = n /\ \A q \in Orders : q # o => filled'[q] = filled[q]  BY <1>1, <1>5
  <2>2. TableOK(trades, filled')  BY <1>4, <1>5, <2>1 DEF TableOK
  <2>3. r.order \in Orders => Unlisted(trades, r.order) /\ filled'[r.order] > 0
    BY <1>4, <1>6, <1>8, <2>1
  <2>4. /\ TableOK(trades', filled') /\ ~Unlisted(trades', r.order)
        /\ \A q : ~Unlisted(trades, q) => ~Unlisted(trades', q)
    BY <1>8, <1>9, <2>2, <2>3, TableGrows
  <2>5. \A q \in Orders : q # o => reported'[q] = reported[q]  BY <1>1, <1>5
  <2>6. InTable(trades', reported', unseen')  BY <1>2, <1>5, <1>8, <2>4, <2>5 DEF InTable
  <2> QED BY <2>4, <2>6
<1>12. OwedOK(filled', reported', owed', unseen')
  <2>1. /\ filled'[o] = n /\ reported'[o] = n
        /\ \A q \in Orders : q # o => filled'[q] = filled[q] /\ reported'[q] = reported[q]
    BY <1>1, <1>5
  <2>2. o \notin owed  BY <1>2, <1>5 DEF OwedOK
  <2>3. owed \subseteq Orders  BY DEF BooksType
  <2> QED BY <1>2, <1>4, <1>5, <2>1, <2>2, <2>3 DEF OwedOK
<1>13. Becomes(p, call[p])  BY <1>2, CallStays DEF BooksType
<1>14. CalmCall(call[p], trades', filled', reported', unseen', sold')
  BY <1>2, IdleCalm DEF At
<1> QED BY <1>3, <1>10, <1>11, <1>12, <1>13, <1>14, Handover

\* A late fill is to be booked: its row is as it was read.
LEMMA LateBeginsCalm ==
  ASSUME BooksType, Steady, Calm, Calm', NEW p \in Procs, NEW o \in Orders, LateBegins(p, o)
  PROVE  Steady'
<1>1. /\ UNCHANGED <<trades, filled, reported, sold, sales, told, owed, unseen>>
      /\ reported[o] < filled[o]
  BY DEF LateBegins
<1>2. CASE call' = call
  BY <1>1, <1>2 DEF Steady, At, AtRest
<1>3. CASE Begins(p, Late(o))
  <2>1. /\ Becomes(p, Late(o)) /\ AtRest
    BY <1>3 DEF Begins, Calm, Overlap
  <2>2. /\ Accounts(trades, unseen, reported, sold, 0)
        /\ TableOK(trades, filled) /\ OneRow(trades) /\ InTable(trades, reported, unseen)
        /\ OwedOK(filled, reported, owed, unseen)
    BY <2>1, CalmFacts
  <2>3. PICK c : c = Late(o)  OBVIOUS
  <2>4. /\ c.pc = "late" /\ c.order = o
        /\ c.row = IF OrderRows(o) = {} THEN 0 ELSE Max(OrderRows(o))
        /\ c.again = \E i \in OrderRows(o) : trades[i].status = "closed"
    BY <2>3, LateIs
  <2>5. \A i \in 1 .. Len(trades) : trades[i].order = o <=> i \in OrderRows(o)
    BY <2>2, CallFacts DEF TableOK, Plain, OrderRows
  <2>6. LateOK(c, trades, filled, reported)
    <3>1. CASE OrderRows(o) = {}
      <4>1. Unlisted(trades, o) /\ c.row = 0  BY <2>4, <2>5, <3>1 DEF Unlisted
      <4> QED BY <1>1, <2>4, <4>1 DEF LateOK
    <3>2. CASE OrderRows(o) # {}
      <4> DEFINE k == Max(OrderRows(o))
      <4>1. k \in OrderRows(o) /\ k \in 1 .. Len(trades)  BY <3>2, OrderRowIs
      <4>2. OrderRows(o) \subseteq 1 .. Len(trades)  BY CallFacts DEF OrderRows
      <4>3. \A i \in OrderRows(o) : i = k  BY <2>2, <2>5, <4>1, <4>2 DEF OneRow
      <4>4. trades[k].order = o  BY <2>5, <4>1
      <4>5. c.row = k  BY <2>4, <3>2
      <4> HIDE DEF k
      <4>6. c.again <=> trades[k].status = "closed"  BY <2>4, <4>1, <4>3
      <4>7. c.row # 0
        <5>1. Len(trades) \in Nat  BY CallFacts
        <5> QED BY <4>1, <4>5, <5>1
      <4> QED BY <1>1, <2>4, <4>4, <4>5, <4>6, <4>7 DEF LateOK
    <3> QED BY <3>1, <3>2
  <2>7. CalmCall(c, trades, filled, reported, unseen, sold)
    BY <2>2, <2>4, <2>6 DEF CalmCall, Lotted
  <2>8. /\ trades' = trades /\ filled' = filled /\ reported' = reported /\ sold' = sold
        /\ owed' = owed /\ unseen' = unseen
    BY <1>1
  <2>9. Becomes(p, c) /\ c.pc # "idle"  BY <2>1, <2>3, <2>4
  <2> QED BY <2>1, <2>2, <2>7, <2>8, <2>9, Handover
<1> QED BY <1>2, <1>3 DEF LateBegins, Late

\* The late fill is written: as its order's row, as the open row's quantity, or as a row of no
\* order beside the closed one, unless that is written already.
LEMMA LateWritesCalm ==
  ASSUME BooksType, Steady, Calm, Calm', NEW p \in Procs, LateWrites(p)
  PROVE  Steady'
<1>1. PICK c : c = call[p]  OBVIOUS
<1>2. PICK o, k : o = c.order /\ k = c.row  OBVIOUS
<1>3. PICK applied \in BOOLEAN, seen \in BOOLEAN :
         /\ seen => applied
         /\ Stored(applied, LateFill(o, k, c.again))
         /\ reported' = IF seen THEN [reported EXCEPT ![o] = filled[o]] ELSE reported
         /\ owed' = IF seen THEN owed \ {o} ELSE owed
         /\ unseen' = IF seen THEN unseen \ {o} ELSE IF applied THEN unseen \cup {o} ELSE unseen
         /\ silent' = silent \cup IF applied /\ c.again /\ o \in unseen
                                  THEN {"written twice"} ELSE {}
  BY <1>1, <1>2 DEF LateWrites, Calls
<1>4. Becomes(p, Idle) /\ UNCHANGED <<filled, sold, sales, told>> /\ c.pc = "late"
  BY <1>1 DEF LateWrites, At
<1>5. o \in Orders /\ k \in 0 .. Len(trades) /\ Len(trades) \in Nat /\ c.again \in BOOLEAN
  BY <1>1, <1>2, <1>4, CallFacts DEF CallOK, CallRecords
<1>6. /\ TableOK(trades, filled) /\ OneRow(trades) /\ InTable(trades, reported, unseen)
      /\ OwedOK(filled, reported, owed, unseen)
  BY DEF Steady, TableOK
<1>7. Accounts(trades, unseen, reported, sold, 0) /\ LateOK(c, trades, filled, reported)
  BY <1>1, <1>4 DEF Steady, CalmCall
<1>8. /\ trades \in Seq(RowRecords) /\ unseen \in SUBSET Orders
      /\ reported \in [Orders -> Nat] /\ filled \in [Orders -> Nat] /\ sold \in Int
  BY DEF BooksType
<1>9. reported[o] < filled[o] /\ filled[o] \in Nat /\ reported[o] \in Nat
  BY <1>2, <1>5, <1>7, <1>8 DEF LateOK
<1>10. ASSUME /\ TableOK(trades', filled') /\ InTable(trades', reported', unseen')
              /\ OwedOK(filled', reported', owed', unseen')
              /\ Accounts(trades', unseen', reported', sold', 0)
       PROVE  Steady'
  <2>1. ~At(p, "idle")  BY <1>1, <1>4 DEF At
  <2>2. CalmCall(Idle, trades', filled', reported', unseen', sold')  BY IdleCalm DEF Idle
  <2> QED BY <1>4, <1>10, <2>1, <2>2, Handover
<1>11. CASE ~applied
  <2>1. /\ trades' = trades /\ reported' = reported /\ owed' = owed /\ unseen' = unseen
        /\ filled' = filled /\ sold' = sold
    BY <1>3, <1>4, <1>11 DEF Stored
  <2> QED BY <1>6, <1>7, <1>10, <2>1
<1>12. CASE applied
  <2>1. Learnt(o, filled[o], seen, unseen, reported, unseen', reported')
    BY <1>3, <1>12 DEF Learnt
  <2>2. trades' = LateFill(o, k, c.again)  BY <1>3, <1>12 DEF Stored
  <2>3. filled' = filled /\ sold' = sold /\ owed' = IF seen THEN owed \ {o} ELSE owed
    BY <1>3, <1>4
  <2>4. /\ OwedOK(filled', reported', owed', unseen')
        /\ ~Unlisted(trades', o) /\ (\A q : ~Unlisted(trades, q) => ~Unlisted(trades', q))
              => InTable(trades', reported', unseen')
    <3>1. OwedOK(filled, reported', owed', unseen')
      <4>1. Settled(o, seen, owed, owed')  BY <2>3 DEF Settled
      <4> QED BY <1>5, <1>6, <1>8, <1>9, <2>1, <4>1, OwedLearnt
    <3>2. ~Unlisted(trades', o) /\ (\A q : ~Unlisted(trades, q) => ~Unlisted(trades', q))
              => InTable(trades', reported', unseen')
      BY <1>6, <1>8, <2>1, TableLearnt
    <3> QED BY <2>3, <3>1, <3>2
  <2>5. CASE k = 0
    <3>1. Unlisted(trades, o)  BY <1>2, <1>7, <2>5 DEF LateOK
    <3>2. o \notin unseen /\ reported[o] = 0  BY <1>5, <1>6, <1>9, <3>1 DEF InTable
    <3>3. PICK r : r = Row(o, filled[o], 0)  OBVIOUS
    <3>4. r \in RowRecords /\ r.order = o /\ Plain(r)
      <4>1. filled[o] >= 1  BY <1>9
      <4> QED BY <1>5, <1>9, <3>3, <4>1, NewRow DEF Plain
    <3>5. IsAdded(trades', trades, r)
      BY <1>8, <2>2, <2>5, <3>3, <3>4 DEF IsAdded, LateFill, Inserted
    <3>6. Accounts(trades', unseen', reported', sold, 0)
      <4>1. IsAdded(trades', trades, Row(o, filled[o], 0)) /\ 0 \in Int  BY <3>3, <3>5
      <4> QED BY <1>5, <1>7, <1>8, <1>9, <2>1, <3>1, <3>2, <4>1, AccountsEnter
    <3>7. /\ TableOK(trades', filled) /\ ~Unlisted(trades', r.order)
          /\ \A q : ~Unlisted(trades, q) => ~Unlisted(trades', q)
      <4>1. r.order \in Orders => Unlisted(trades, r.order) /\ filled[r.order] > 0
        BY <1>9, <3>1, <3>4
      <4> QED BY <1>6, <3>4, <3>5, <4>1, TableGrows
    <3> QED BY <1>10, <2>3, <2>4, <3>4, <3>6, <3>7
  <2>6. CASE k # 0 /\ c.again
    <3>1. k \in 1 .. Len(trades) /\ trades[k].order = o /\ trades[k].status = "closed"
      BY <1>2, <1>5, <1>7, <2>6 DEF LateOK
    <3>2. o \notin unseen  BY <1>3, <1>12, <2>6 DEF Calm
    <3>3. PICK n \in Nat : n = filled[o] - reported[o] /\ n >= 1  BY <1>9
    <3>4. PICK r : r = Row(NoOrder, n, 0)  OBVIOUS
    <3>5. r \in RowRecords /\ r.order = NoOrder /\ Plain(r)
      BY <3>3, <3>4, NewRow DEF Plain
    <3>6. trades' = Append(trades, r)
      BY <2>2, <2>6, <3>3, <3>4 DEF LateFill, Inserted
    <3>7. IsAdded(trades', trades, r)  BY <1>8, <3>5, <3>6 DEF IsAdded
    <3>8. Accounts(trades', unseen', reported', sold, 0)
      <4>1. IsAdded(trades', trades, Row(NoOrder, filled[o] - reported[o], 0)) /\ 0 \in Int
        BY <3>3, <3>4, <3>7
      <4>2. reported[o] <= filled[o]  BY <1>9
      <4> QED BY <1>5, <1>6, <1>7, <1>8, <1>9, <2>1, <3>1, <3>2, <4>1, <4>2, AccountsBeyond
    <3>9. /\ TableOK(trades', filled)
          /\ \A q : ~Unlisted(trades, q) => ~Unlisted(trades', q)
      BY <1>6, <3>5, <3>7, RowsAssumption, TableGrows
    <3>10. ~Unlisted(trades, o)  BY <3>1 DEF Unlisted
    <3> QED BY <1>10, <2>3, <2>4, <3>8, <3>9, <3>10
  <2>7. CASE k # 0 /\ ~c.again
    <3>1. k \in 1 .. Len(trades) /\ trades[k].order = o /\ trades[k].status # "closed"
      BY <1>2, <1>5, <1>7, <2>7 DEF LateOK
    <3>2. trades[k] \in RowRecords /\ Plain(trades[k])
      BY <1>6, <3>1, CallFacts DEF TableOK
    <3>3. trades[k].status = "open" /\ trades[k].pend = 0
      BY <3>1, <3>2 DEF RowRecords, Plain
    <3>4. PICK n \in Nat : n = filled[o] /\ n >= 1  BY <1>9
    <3>5. PICK r : r = [trades[k] EXCEPT !.qty = n]  OBVIOUS
    <3>6. /\ r \in RowRecords /\ r.order = o /\ r.status = "open" /\ r.pend = 0 /\ r.qty = n
      BY <3>1, <3>2, <3>3, <3>5 DEF RowRecords
    <3>7. Plain(r)  BY <3>4, <3>6 DEF Plain
    <3>8. trades' = [trades EXCEPT ![k] = r]
      BY <2>2, <2>7, <3>4, <3>5 DEF LateFill, Updated
    <3>9. IsChanged(trades', trades, k, r)  BY <1>8, <3>1, <3>6, <3>8 DEF IsChanged
    <3>10. Accounts(trades', unseen', reported', sold, 0)
      <4>1. Learnt(o, n, seen, unseen, reported, unseen', reported') /\ 0 \in Int
        BY <2>1, <3>4
      <4> QED BY <1>5, <1>6, <1>7, <1>8, <3>1, <3>3, <3>6, <3>9, <4>1, AccountsGrow
    <3>11. TableOK(trades', filled) /\ \A q : ~Unlisted(trades, q) => ~Unlisted(trades', q)
      BY <1>6, <3>1, <3>6, <3>7, <3>9, TableWritten
    <3>12. ~Unlisted(trades, o)  BY <3>1 DEF Unlisted
    <3> QED BY <1>10, <2>3, <2>4, <3>10, <3>11, <3>12
  <2> QED BY <2>5, <2>6, <2>7
<1> QED BY <1>11, <1>12

\* A SELL is to be booked.
LEMMA SellBeginsCalm ==
  ASSUME BooksType, Steady, Calm, Calm', NEW p \in Procs, NEW n, SellBegins(p, n)
  PROVE  Steady'
<1>1. PICK c : c = [Idle EXCEPT !.pc = "find", !.left = n]  OBVIOUS
<1>2. n \in 1 .. SharesOf(filled) - sold /\ sold' = sold + n /\ Becomes(p, c) /\ AtRest
  BY <1>1 DEF SellBegins, Begins, Calm, Overlap
<1>3. SharesOf(filled) \in Nat /\ sold \in Int  BY FilledShares DEF BooksType
<1>4. n \in Nat /\ n >= 1  BY <1>2, <1>3
<1>5. c.pc = "find" /\ c.left = n  BY <1>1 DEF Idle
<1>6. /\ trades' = trades /\ filled' = filled /\ reported' = reported /\ owed' = owed
      /\ unseen' = unseen
  BY DEF SellBegins
<1>7. /\ Accounts(trades, unseen, reported, sold, 0)
      /\ TableOK(trades, filled) /\ InTable(trades, reported, unseen)
      /\ OwedOK(filled, reported, owed, unseen)
  BY <1>2, CalmFacts
<1>8. sold' - c.left = sold  BY <1>2, <1>3, <1>4, <1>5
<1>9. CalmCall(c, trades', filled', reported', unseen', sold')
  BY <1>4, <1>5, <1>6, <1>7, <1>8 DEF CalmCall, Lotted
<1> QED BY <1>2, <1>5, <1>6, <1>7, <1>9, Handover

\* A SELL in calm books: what its step may use
LEMMA SellFacts ==
  ASSUME BooksType, Steady, NEW p \in Procs, call[p].pc \in {"find"} \cup Lotted
  PROVE  /\ TableOK(trades, filled) /\ InTable(trades, reported, unseen)
         /\ OwedOK(filled, reported, owed, unseen)
         /\ trades \in Seq(RowRecords) /\ unseen \in SUBSET Orders
         /\ reported \in [Orders -> Nat] /\ filled \in [Orders -> Nat] /\ sold \in Int
         /\ call[p] \in CallRecords /\ CallOK(call[p], Len(trades)) /\ Len(trades) \in Nat
         /\ call[p].left \in Nat /\ call[p].pend \in Nat /\ call[p].qty \in Nat
         /\ Piece(call[p]) \in Nat /\ Piece(call[p]) <= call[p].left
         /\ CalmCall(call[p], trades, filled, reported, unseen, sold)
         /\ ~At(p, "idle")
<1>1. ~At(p, "idle")  BY DEF At, Lotted
<1> QED BY <1>1, CallFacts DEF Steady, BooksType

\* It reads the next row.
LEMMA FindCalm ==
  ASSUME BooksType, Steady, Calm, Calm', NEW p \in Procs, Find(p)
  PROVE  Steady'
<1>1. PICK c : c = call[p]  OBVIOUS
<1>2. c.pc = "find"  BY <1>1 DEF Find, At
<1>3. /\ trades' = trades /\ filled' = filled /\ reported' = reported /\ owed' = owed
      /\ unseen' = unseen
  BY DEF Find
<1>4. /\ TableOK(trades, filled) /\ InTable(trades, reported, unseen)
      /\ OwedOK(filled, reported, owed, unseen)
      /\ trades \in Seq(RowRecords) /\ sold \in Int
      /\ c \in CallRecords /\ Len(trades) \in Nat /\ c.left \in Nat /\ ~At(p, "idle")
      /\ CalmCall(c, trades, filled, reported, unseen, sold)
  BY <1>1, <1>2, SellFacts
<1>5. c.left >= 1 /\ (Accounts(trades, unseen, reported, sold - c.left, 0) \/ Stuck(c, trades))
  BY <1>2, <1>4 DEF CalmCall
<1>6. CASE Becomes(p, Idle) /\ c.lots = 0 /\ sold' = sold - c.left
  <2>1. Accounts(trades', unseen', reported', sold', 0)
    BY <1>3, <1>5, <1>6 DEF Stuck
  <2>2. CalmCall(Idle, trades', filled', reported', unseen', sold')  BY IdleCalm DEF Idle
  <2> QED BY <1>3, <1>4, <1>6, <2>1, <2>2, Handover
<1>7. CASE /\ OpenRows # {} /\ ~Handled(c, Newest) /\ Becomes(p, Lot(c, Newest))
           /\ sold' = sold
  <2>1. PICK k : k = Newest  OBVIOUS
  <2>2. /\ k \in OpenRows /\ k \in 1 .. Len(trades) /\ \A j \in OpenRows : k >= j
    BY <1>7, <2>1, NewestIs
  <2>3. /\ trades[k].status = "open" /\ k \notin c.handled
        /\ \A j \in 1 .. Len(trades) : trades[j].status = "open" => j <= k
    BY <1>4, <1>7, <2>1, <2>2, CallFacts DEF OpenRows, Handled
  <2>4. ~Stuck(c, trades)
    <3> SUFFICES ASSUME NEW i \in c.handled, i \in 1 .. Len(trades), trades[i].status = "open",
                        \A j \in 1 .. Len(trades) : trades[j].status = "open" => j <= i
                 PROVE  FALSE
      BY DEF Stuck
    <3>1. i <= k /\ k <= i  BY <2>2, <2>3
    <3> QED BY <1>4, <2>2, <2>3, <3>1
  <2>5. PICK d : d = Lot(c, k)  OBVIOUS
  <2>6. trades[k] \in RowRecords /\ Plain(trades[k]) /\ k \in Nat
    BY <1>4, <2>2, CallFacts DEF TableOK
  <2>7. /\ d \in CallRecords /\ d.pc \in {"split", "whole"}
        /\ d.row = k /\ d.left = c.left /\ d.handled = c.handled \cup {k}
        /\ d.qty = trades[k].qty /\ d.pend = trades[k].pend
    BY <1>4, <2>5, <2>6, LotIs
  <2>8. LotOK(d, trades)  BY <1>5, <2>3, <2>6, <2>7 DEF LotOK, Plain
  <2>9. LotAccounts(d, trades, unseen, reported, sold)
    BY <1>5, <2>3, <2>4, <2>7 DEF LotAccounts
  <2>10. CalmCall(d, trades', filled', reported', unseen', sold')
    BY <1>3, <1>7, <2>7, <2>8, <2>9 DEF CalmCall, Lotted
  <2>11. Becomes(p, d) /\ d.pc # "idle"  BY <1>7, <2>1, <2>5, <2>7
  <2> QED BY <1>3, <1>4, <2>10, <2>11, Handover
<1>8. \/ Becomes(p, Idle) /\ c.lots = 0 /\ sold' = sold - c.left
      \/ /\ OpenRows # {} /\ ~Handled(c, Newest) /\ Becomes(p, Lot(c, Newest))
         /\ sold' = sold
  <2>1. ~told' /\ silent' = {}  BY DEF Calm
  <2> QED BY <1>1, <2>1 DEF Find
<1> QED BY <1>6, <1>7, <1>8

\* The same lot, at another stage of it
LEMMA LotKept ==
  ASSUME NEW c, NEW d, SameLot(d, c), NEW T, LotOK(c, T),
         d.pc = c.pc \/ d.pc \notin {"split", "whole"}
  PROVE  LotOK(d, T)
BY StageIs DEF LotOK, SameLot

\* The remainder, inserted before the row is closed: as much is open twice until then.
LEMMA SplitCalm ==
  ASSUME BooksType, Steady, Calm, Calm', NEW p \in Procs, Split(p)
  PROVE  Steady'
<1>1. PICK c : c = call[p]  OBVIOUS
<1>2. PICK applied \in BOOLEAN, seen \in BOOLEAN :
         /\ seen => applied
         /\ Stored(applied, Inserted(RestOf(c)))
         /\ Becomes(p, IF seen THEN [c EXCEPT !.pc = "part", !.saved = Len(trades) + 1]
                               ELSE [c EXCEPT !.pc = "keep"])
  BY <1>1 DEF Split, Calls
<1>3. /\ filled' = filled /\ reported' = reported /\ owed' = owed /\ unseen' = unseen
      /\ sold' = sold /\ c.pc = "split"
  BY <1>1 DEF Split, At
<1>4. /\ TableOK(trades, filled) /\ InTable(trades, reported, unseen)
      /\ OwedOK(filled, reported, owed, unseen)
      /\ trades \in Seq(RowRecords) /\ unseen \in SUBSET Orders
      /\ reported \in [Orders -> Nat] /\ filled \in [Orders -> Nat] /\ sold \in Int
      /\ c \in CallRecords /\ CallOK(c, Len(trades)) /\ Len(trades) \in Nat
      /\ c.left \in Nat /\ c.pend \in Nat /\ c.qty \in Nat
      /\ Piece(c) \in Nat /\ ~At(p, "idle")
      /\ CalmCall(c, trades, filled, reported, unseen, sold)
  BY <1>1, <1>3, SellFacts DEF Lotted
<1>5. /\ LotOK(c, trades) /\ LotAccounts(c, trades, unseen, reported, sold)
      /\ c.row \in 1 .. Len(trades) /\ Piece(c) < OpenQty(c)
  BY <1>3, <1>4 DEF CalmCall, CallOK, Lotted
<1>6. c.pend = 0 /\ OpenQty(c) = c.qty /\ trades[c.row].status = "open"
  BY <1>3, <1>4, <1>5 DEF LotOK, OpenQty
<1>7. PICK n \in Nat : n = c.qty - Piece(c) /\ n >= 1  BY <1>4, <1>5, <1>6
<1>8. PICK r : r = Row(NoOrder, n, 0)  OBVIOUS
<1>9. r \in RowRecords /\ r.order = NoOrder /\ Plain(r)
  BY <1>7, <1>8, NewRow DEF Plain
<1>10. RestOf(c) = r  BY <1>6, <1>7, <1>8 DEF RestOf
<1>11. PICK d : d = IF seen THEN [c EXCEPT !.pc = "part", !.saved = Len(trades) + 1]
                            ELSE [c EXCEPT !.pc = "keep"]
  OBVIOUS
<1>12. SameLot(d, c) /\ d.pc = IF seen THEN "part" ELSE "keep"
  BY <1>4, <1>11 DEF SameLot, CallRecords
<1>13. d.pc \notin {"split", "whole"}  BY <1>12
<1>14. CASE ~applied
  <2>1. trades' = trades /\ d.pc = "keep"  BY <1>2, <1>12, <1>14 DEF Stored
  <2>2. LotOK(d, trades)  BY <1>5, <1>12, <1>13, LotKept
  <2>3. CalmCall(d, trades', filled', reported', unseen', sold')
    BY <2>1, <2>2 DEF CalmCall, Lotted
  <2> QED BY <1>2, <1>3, <1>4, <1>11, <2>1, <2>3, Handover
<1>15. CASE applied
  <2>1. IsAdded(trades', trades, r)
    BY <1>2, <1>4, <1>9, <1>10, <1>15 DEF IsAdded, Stored, Inserted
  <2>2. trades'[c.row] = trades[c.row]  BY <1>5, <2>1, RowInserted
  <2>3. /\ TableOK(trades', filled)
        /\ \A q : ~Unlisted(trades, q) => ~Unlisted(trades', q)
    BY <1>4, <1>9, <2>1, RowsAssumption, TableGrows
  <2>4. InTable(trades', reported, unseen)  BY <1>4, <2>3 DEF InTable
  <2>5. LotOK(d, trades')
    <3>1. d.row = c.row  BY <1>12 DEF SameLot
    <3>2. LotOK(d, trades)  BY <1>5, <1>12, <1>13, LotKept
    <3> QED BY <1>13, <2>2, <3>1, <3>2 DEF LotOK
  <2>6. Accounts(trades', unseen, reported, sold - c.left, n)
    <3>1. Accounts(trades, unseen, reported, sold - c.left, 0)
      BY <1>3, <1>5, <1>6 DEF LotAccounts
    <3>2. PICK out \in Int : out = sold - c.left  BY <1>4
    <3>3. IsAdded(trades', trades, Row(NoOrder, n, 0)) /\ 0 \in Int  BY <1>8, <2>1
    <3>4. Accounts(trades, unseen, reported, out, 0)  BY <3>1, <3>2
    <3>5. Accounts(trades', unseen, reported, out, 0 + n)
      BY <1>4, <3>3, <3>4, AccountsFree
    <3>6. 0 + n = n  OBVIOUS
    <3> QED BY <3>2, <3>5, <3>6
  <2>7. LotAccounts(d, trades', unseen, reported, sold) \/ d.pc = "keep"
    <3>1. Piece(d) = Piece(c)  BY <1>12, StageIs
    <3> QED BY <1>6, <1>7, <1>12, <2>2, <2>6, <3>1 DEF LotAccounts, SameLot
  <2>8. CalmCall(d, trades', filled', reported', unseen', sold')
    <3>1. d.pc \in {"part", "keep"}  BY <1>12
    <3> QED BY <1>3, <2>5, <2>7, <3>1 DEF CalmCall, Lotted
  <2>9. Becomes(p, d) /\ d.pc # "idle"  BY <1>2, <1>11, <1>12
  <2> QED BY <1>3, <1>4, <2>3, <2>4, <2>8, <2>9, Handover
<1> QED BY <1>14, <1>15

\* The write that closes a SELL's row, applied or not
ClosingRow(c, T, r) ==
    /\ r \in RowRecords /\ Plain(r) /\ r.order = T[c.row].order /\ r.status = "closed"
    /\ r.pnl = Piece(c)

\* The row closed, or not: the lot's accounts hold, with the P&L of what was sold in place.
LEMMA CloseWrites ==
  ASSUME BooksType, Steady, NEW p \in Procs, NEW c, c = call[p], c.pc \in {"part", "whole"},
         NEW r, ClosingRow(c, trades, r), NEW applied \in BOOLEAN,
         Stored(applied, Updated(c.row, r))
  PROVE  /\ TableOK(trades', filled) /\ InTable(trades', reported, unseen)
         /\ LotOK(c, trades') /\ LotAccounts(c, trades', unseen, reported, sold)
         /\ applied => trades'[c.row].status # "open"
         /\ ~applied => trades' = trades
         /\ Piece(c) > 0
<1>1. /\ TableOK(trades, filled) /\ InTable(trades, reported, unseen)
      /\ trades \in Seq(RowRecords) /\ unseen \in SUBSET Orders
      /\ reported \in [Orders -> Nat] /\ sold \in Int
      /\ c \in CallRecords /\ CallOK(c, Len(trades)) /\ Len(trades) \in Nat
      /\ c.left \in Nat /\ c.pend \in Nat /\ c.qty \in Nat /\ Piece(c) \in Nat
      /\ CalmCall(c, trades, filled, reported, unseen, sold)
  BY SellFacts DEF Lotted
<1>2. /\ LotOK(c, trades) /\ LotAccounts(c, trades, unseen, reported, sold)
      /\ c.row \in 1 .. Len(trades)
      /\ c.pc = "whole" => OpenQty(c) <= Piece(c)
  BY <1>1 DEF CalmCall, CallOK, Lotted
<1>3. c.pend = 0 /\ OpenQty(c) = c.qty /\ c.left >= 1 /\ c.qty >= 1
  BY <1>1, <1>2 DEF LotOK, OpenQty
<1>4. Piece(c) > 0 /\ Piece(c) <= c.qty
  <2>1. c.qty - c.pend > 0 /\ c.qty - c.pend = c.qty /\ c.left > 0  BY <1>1, <1>3
  <2> QED BY <1>1, <2>1, PieceIs
<1>5. c.pc = "whole" => Piece(c) = c.qty  BY <1>1, <1>2, <1>3, <1>4
<1>6. PICK k : k = c.row  OBVIOUS
<1>7. k \in 1 .. Len(trades) /\ trades[k] \in RowRecords /\ Plain(trades[k])
  BY <1>1, <1>2, <1>6, CallFacts DEF TableOK
<1>8. CASE ~applied
  <2>1. trades' = trades  BY <1>8 DEF Stored
  <2> QED BY <1>1, <1>2, <1>4, <1>8, <2>1
<1>9. CASE applied
  <2>1. IsChanged(trades', trades, k, r)
    BY <1>1, <1>6, <1>7, <1>9 DEF IsChanged, Stored, Updated, ClosingRow
  <2>2. r.status = "closed" /\ r.order = trades[k].order /\ r.pnl = Piece(c)
    BY <1>6 DEF ClosingRow
  <2>3. trades'[k] = r  BY <2>1, RowWritten
  <2>4. /\ TableOK(trades', filled)
        /\ \A q : ~Unlisted(trades, q) => ~Unlisted(trades', q)
    BY <1>1, <2>1, <2>2, TableWritten DEF ClosingRow
  <2>5. InTable(trades', reported, unseen)  BY <1>1, <2>4 DEF InTable
  <2>6. LotOK(c, trades')  BY <1>2, <1>6, <2>2, <2>3, <1>3 DEF LotOK
  <2>7. Accounts(trades', unseen, reported, sold - c.left + Piece(c), 0)
    <3>1. CASE trades[k].status = "open"
      <4>1. PICK x \in Int : x = IF c.pc = "part" THEN c.qty - Piece(c) ELSE 0  BY <1>1
      <4>2. PICK out \in Int : out = sold - c.left  BY <1>1
      <4>3. Accounts(trades, unseen, reported, out, x)
        BY <1>2, <1>6, <3>1, <4>1, <4>2 DEF LotAccounts
      <4>4. trades[k].pend = 0 /\ trades[k].qty = c.qty
        BY <1>2, <1>6, <1>7, <3>1 DEF LotOK, Plain
      <4>5. r \in RowRecords  BY DEF ClosingRow
      <4>6. Accounts(trades', unseen, reported, out + r.pnl, x - trades[k].qty + r.pnl)
        BY <1>1, <1>7, <2>1, <2>2, <3>1, <4>3, <4>4, <4>5, AccountsClose
      <4>7. x - trades[k].qty + r.pnl = 0  BY <1>1, <1>5, <2>2, <4>1, <4>4
      <4> QED BY <2>2, <4>2, <4>6, <4>7
    <3>2. CASE trades[k].status # "open"
      <4>1. trades[k].status = "closed"  BY <1>7, <3>2 DEF RowRecords, Plain
      <4>2. trades[k].pnl = r.pnl  BY <1>2, <1>6, <2>2, <4>1 DEF LotOK
      <4>3. PICK out \in Int : out = sold - c.left + Piece(c)  BY <1>1
      <4>4. Accounts(trades, unseen, reported, out, 0) /\ 0 \in Int
        BY <1>2, <1>6, <3>2, <4>3 DEF LotAccounts
      <4>5. r \in RowRecords  BY DEF ClosingRow
      <4>6. Accounts(trades', unseen, reported, out, 0)
        BY <1>1, <1>7, <2>1, <2>2, <4>1, <4>2, <4>4, <4>5, AccountsAgain
      <4> QED BY <4>3, <4>6
    <3> QED BY <3>1, <3>2
  <2>8. LotAccounts(c, trades', unseen, reported, sold)
    BY <1>6, <2>2, <2>3, <2>7 DEF LotAccounts
  <2> QED BY <1>4, <1>6, <1>9, <2>2, <2>3, <2>4, <2>5, <2>6, <2>8
<1> QED BY <1>8, <1>9

\* After the row: the SELL is over if nothing is left, or looks for the next row.
LEMMA NextLotCalm ==
  ASSUME BooksType, Steady, Calm, Calm', NEW p \in Procs, NEW c, c = call[p],
         c.pc \in {"part", "whole"}, NextLot(p, FALSE), Piece(c) > 0,
         UNCHANGED <<filled, reported, sold, owed, unseen>>,
         TableOK(trades', filled), InTable(trades', reported, unseen),
         \/ Accounts(trades', unseen, reported, sold - c.left + Piece(c), 0)
         \/ c.left # Piece(c) /\ \A d : d.lots = c.lots + 1 /\ d.handled = c.handled
                                       => Stuck(d, trades')
  PROVE  Steady'
<1>1. /\ OwedOK(filled, reported, owed, unseen) /\ sold \in Int
      /\ c \in CallRecords /\ c.left \in Nat /\ Piece(c) \in Nat /\ ~At(p, "idle")
  BY SellFacts DEF Lotted
<1>2. ~told'  BY DEF Calm
<1>3. PICK d \in CallRecords :
         /\ Becomes(p, d)
         /\ \/ d = Idle /\ c.left = Piece(c)
            \/ /\ d.pc = "find" /\ d.left = c.left - Piece(c) /\ d.left > 0
               /\ d.lots = c.lots + 1 /\ d.handled = c.handled
  <2>1. call \in [Procs -> CallRecords] /\ told \in BOOLEAN /\ FALSE \in BOOLEAN
    BY DEF BooksType
  <2>2. PICK d \in CallRecords :
           /\ Becomes(p, d) /\ \A n : CallOK(d, n)
           /\ \/ /\ d = Idle
                 /\ \/ call[p].left = Piece(call[p]) \/ Piece(call[p]) = 0
                    \/ told'
              \/ /\ d.pc = "find" /\ d.left = call[p].left - Piece(call[p]) /\ d.left > 0
                 /\ d.lots = call[p].lots + 1 /\ d.handled = call[p].handled
                 /\ Piece(call[p]) > 0
    BY <2>1, NextLotIs
  <2>3. Piece(call[p]) > 0 /\ Piece(call[p]) # 0  BY <1>1
  <2> QED BY <1>2, <2>2, <2>3
<1>4. CASE d = Idle /\ c.left = Piece(c)
  <2>1. sold - c.left + Piece(c) = sold  BY <1>1, <1>4
  <2>2. Accounts(trades', unseen', reported', sold', 0)  BY <1>4, <2>1
  <2>3. CalmCall(Idle, trades', filled', reported', unseen', sold')  BY IdleCalm DEF Idle
  <2> QED BY <1>1, <1>3, <1>4, <2>2, <2>3, Handover
<1>5. CASE /\ d.pc = "find" /\ d.left = c.left - Piece(c) /\ d.left > 0
           /\ d.lots = c.lots + 1 /\ d.handled = c.handled
  <2>1. sold - d.left = sold - c.left + Piece(c) /\ d.left >= 1  BY <1>1, <1>5
  <2>2. Accounts(trades', unseen, reported, sold - d.left, 0) \/ Stuck(d, trades')
    BY <1>5, <2>1
  <2>3. CalmCall(d, trades', filled', reported', unseen', sold')
    BY <1>5, <2>1, <2>2 DEF CalmCall, Lotted
  <2> QED BY <1>1, <1>3, <1>5, <2>3, Handover
<1> QED BY <1>3, <1>4, <1>5

\* The write once more, or the remainder to take back: the lot is as it was.
LEMMA StageCalm ==
  ASSUME BooksType, Steady, NEW p \in Procs, NEW c, c = call[p],
         c.pc \in {"part", "whole"}, NEW d, SameLot(d, c), d.pc = c.pc \/ d.pc = "undo",
         Becomes(p, d), UNCHANGED <<filled, reported, sold, owed, unseen>>,
         TableOK(trades', filled), InTable(trades', reported, unseen),
         LotOK(c, trades'), LotAccounts(c, trades', unseen, reported, sold)
  PROVE  Steady'
<1>1. OwedOK(filled, reported, owed, unseen) /\ ~At(p, "idle")
  BY SellFacts DEF Lotted
<1>2. LotOK(d, trades')  BY LotKept
<1>3. d.pc = c.pc => LotAccounts(d, trades', unseen, reported, sold)
  BY StageIs DEF LotAccounts, SameLot
<1>4. CalmCall(d, trades', filled', reported', unseen', sold') /\ d.pc # "idle"
  BY <1>2, <1>3 DEF CalmCall, Lotted
<1> QED BY <1>1, <1>4, Handover

\* Closing the row that was split ends the double count of the remainder.
LEMMA ClosePartCalm ==
  ASSUME BooksType, Steady, Calm, Calm', NEW p \in Procs, ClosePart(p)
  PROVE  Steady'
<1>1. PICK c : c = call[p]  OBVIOUS
<1>2. PICK applied \in BOOLEAN, seen \in BOOLEAN :
         /\ seen => applied
         /\ Stored(applied, Updated(c.row, ClosedInPart(c)))
         /\ \/ seen /\ NextLot(p, FALSE)
            \/ Becomes(p, [c EXCEPT !.pc = "undo"])
            \/ Becomes(p, [c EXCEPT !.again = TRUE])
  BY <1>1 DEF ClosePart, Closes, Calls
<1>3. UNCHANGED <<filled, reported, sold, owed, unseen>> /\ c.pc = "part"
  BY <1>1 DEF ClosePart, Closes, At
<1>4. /\ TableOK(trades, filled) /\ c \in CallRecords /\ Len(trades) \in Nat
      /\ c.left \in Nat /\ c.qty \in Nat /\ Piece(c) \in Nat
      /\ CallOK(c, Len(trades)) /\ CalmCall(c, trades, filled, reported, unseen, sold)
  BY <1>1, <1>3, SellFacts DEF Lotted
<1>5. LotOK(c, trades) /\ c.row \in 1 .. Len(trades)
  BY <1>3, <1>4 DEF CalmCall, CallOK, Lotted
<1>6. PICK r : r = ClosedInPart(c)  OBVIOUS
<1>7. ClosingRow(c, trades, r)
  <2>1. c.pend = 0 /\ c.qty >= 1 /\ c.left >= 1  BY <1>5 DEF LotOK
  <2>2. Piece(c) >= 1
    <3>1. c.qty - c.pend > 0 /\ c.left > 0  BY <1>4, <2>1
    <3> QED BY <1>4, <3>1, PieceIs
  <2>3. Piece(c) + c.pend = Piece(c)  BY <1>4, <2>1
  <2>4. r = [trades[c.row] EXCEPT !.qty = Piece(c), !.status = "closed", !.pnl = Piece(c)]
    BY <1>6, <2>3 DEF ClosedInPart
  <2>5. trades[c.row] \in RowRecords /\ trades[c.row].pend = 0
    BY <1>4, <1>5, CallFacts DEF TableOK, Plain
  <2>6. PICK n \in Nat : n = Piece(c)  BY <1>4
  <2>7. /\ r \in RowRecords /\ r.order = trades[c.row].order /\ r.status = "closed"
        /\ r.pnl = n /\ r.qty = n /\ r.pend = 0
    BY <2>4, <2>5, <2>6 DEF RowRecords
  <2> QED BY <2>2, <2>6, <2>7 DEF ClosingRow, Plain
<1>8. /\ TableOK(trades', filled) /\ InTable(trades', reported, unseen)
      /\ LotOK(c, trades') /\ LotAccounts(c, trades', unseen, reported, sold)
      /\ applied => trades'[c.row].status # "open"
      /\ Piece(c) > 0
  BY <1>1, <1>2, <1>3, <1>6, <1>7, CloseWrites
<1>9. CASE seen /\ NextLot(p, FALSE)
  <2>1. Accounts(trades', unseen, reported, sold - c.left + Piece(c), 0)
    BY <1>2, <1>8, <1>9 DEF LotAccounts
  <2> QED BY <1>1, <1>3, <1>8, <1>9, <2>1, NextLotCalm
<1>10. CASE Becomes(p, [c EXCEPT !.pc = "undo"])
  <2>1. PICK d : d = [c EXCEPT !.pc = "undo"]  OBVIOUS
  <2>2. SameLot(d, c) /\ d.pc = "undo"  BY <1>4, <2>1 DEF SameLot, CallRecords
  <2> QED BY <1>1, <1>3, <1>8, <1>10, <2>1, <2>2, StageCalm
<1>11. CASE Becomes(p, [c EXCEPT !.again = TRUE])
  <2>1. PICK d : d = [c EXCEPT !.again = TRUE]  OBVIOUS
  <2>2. SameLot(d, c) /\ d.pc = c.pc  BY <1>4, <2>1 DEF SameLot, CallRecords
  <2> QED BY <1>1, <1>3, <1>8, <1>11, <2>1, <2>2, StageCalm
<1> QED BY <1>2, <1>9, <1>10, <1>11

\* A row sold whole: if it does not close, the SELL meets it again and alerts.
LEMMA CloseWholeCalm ==
  ASSUME BooksType, Steady, Calm, Calm', NEW p \in Procs, CloseWhole(p)
  PROVE  Steady'
<1>1. PICK c : c = call[p]  OBVIOUS
<1>2. PICK applied \in BOOLEAN, seen \in BOOLEAN :
         /\ seen => applied
         /\ Stored(applied, Updated(c.row, ClosedInFull(c)))
         /\ \/ seen /\ NextLot(p, FALSE)
            \/ /\ NextLot(p, FALSE)
               /\ silent' = silent \cup IF c.left > Piece(c) THEN {} ELSE {"row not closed"}
            \/ Becomes(p, [c EXCEPT !.again = TRUE])
  BY <1>1 DEF CloseWhole, Closes, Calls
<1>3. UNCHANGED <<filled, reported, sold, owed, unseen>> /\ c.pc = "whole"
  BY <1>1 DEF CloseWhole, Closes, At
<1>4. /\ TableOK(trades, filled) /\ c \in CallRecords /\ Len(trades) \in Nat
      /\ c.left \in Nat /\ c.qty \in Nat /\ Piece(c) \in Nat
      /\ CallOK(c, Len(trades)) /\ CalmCall(c, trades, filled, reported, unseen, sold)
  BY <1>1, <1>3, SellFacts DEF Lotted
<1>5. LotOK(c, trades) /\ c.row \in 1 .. Len(trades)
  BY <1>3, <1>4 DEF CalmCall, CallOK, Lotted
<1>6. PICK r : r = ClosedInFull(c)  OBVIOUS
<1>7. ClosingRow(c, trades, r)
  <2>1. Piece(c) + c.pend = Piece(c)  BY <1>4, <1>5 DEF LotOK
  <2>2. r = [trades[c.row] EXCEPT !.status = "closed", !.pnl = Piece(c)]
    BY <1>6, <2>1 DEF ClosedInFull
  <2>3. /\ trades[c.row] \in RowRecords /\ trades[c.row].pend = 0 /\ trades[c.row].qty >= 1
    BY <1>4, <1>5, CallFacts DEF TableOK, Plain
  <2>4. PICK n \in Nat : n = Piece(c)  BY <1>4
  <2>5. /\ r \in RowRecords /\ r.order = trades[c.row].order /\ r.status = "closed"
        /\ r.pnl = n /\ r.qty = trades[c.row].qty /\ r.pend = 0
    BY <2>2, <2>3, <2>4 DEF RowRecords
  <2> QED BY <2>3, <2>4, <2>5 DEF ClosingRow, Plain
<1>8. /\ TableOK(trades', filled) /\ InTable(trades', reported, unseen)
      /\ LotOK(c, trades') /\ LotAccounts(c, trades', unseen, reported, sold)
      /\ applied => trades'[c.row].status # "open"
      /\ ~applied => trades' = trades
      /\ Piece(c) > 0
  BY <1>1, <1>2, <1>3, <1>6, <1>7, CloseWrites
<1>9. CASE seen /\ NextLot(p, FALSE)
  <2>1. Accounts(trades', unseen, reported, sold - c.left + Piece(c), 0)
    BY <1>2, <1>8, <1>9 DEF LotAccounts
  <2> QED BY <1>1, <1>3, <1>8, <1>9, <2>1, NextLotCalm
<1>10. CASE /\ NextLot(p, FALSE)
            /\ silent' = silent \cup IF c.left > Piece(c) THEN {} ELSE {"row not closed"}
  <2>1. c.left # Piece(c)
    <3>1. c.left > Piece(c)  BY <1>10 DEF Calm
    <3> QED BY <1>4, <3>1
  <2>2. CASE trades'[c.row].status # "open"
    <3>1. Accounts(trades', unseen, reported, sold - c.left + Piece(c), 0)
      BY <1>8, <2>2 DEF LotAccounts
    <3> QED BY <1>1, <1>3, <1>8, <1>10, <3>1, NextLotCalm
  <2>3. CASE trades'[c.row].status = "open"
    <3>1. trades' = trades  BY <1>8, <2>3
    <3>2. /\ c.row \in c.handled /\ c.row \in 1 .. Len(trades')
          /\ \A j \in 1 .. Len(trades') : trades'[j].status = "open" => j <= c.row
      BY <1>3, <1>5, <1>8, <2>3, <3>1 DEF LotOK
    <3>3. c.lots + 1 >= 1  BY <1>4 DEF CallRecords
    <3>4. ASSUME NEW d, d.lots = c.lots + 1, d.handled = c.handled PROVE Stuck(d, trades')
      BY <2>3, <3>2, <3>3, <3>4 DEF Stuck
    <3> QED BY <1>1, <1>3, <1>8, <1>10, <2>1, <3>4, NextLotCalm
  <2> QED BY <2>2, <2>3
<1>11. CASE Becomes(p, [c EXCEPT !.again = TRUE])
  <2>1. PICK d : d = [c EXCEPT !.again = TRUE]  OBVIOUS
  <2>2. SameLot(d, c) /\ d.pc = c.pc  BY <1>4, <2>1 DEF SameLot, CallRecords
  <2> QED BY <1>1, <1>3, <1>8, <1>11, <2>1, <2>2, StageCalm
<1> QED BY <1>2, <1>9, <1>10, <1>11

\* The broker fills an order that no booking is about: it is owed.
LEMMA FillsLateCalm ==
  ASSUME BooksType, Steady, NEW o \in Orders, FillsLate(o)
  PROVE  Steady'
<1>1. /\ filled' = [filled EXCEPT ![o] = @ + 1] /\ owed' = owed \cup {o}
      /\ UNCHANGED <<trades, reported, sold, call, unseen>>
      /\ \A p \in Procs : call[p].order # o
  BY DEF FillsLate
<1>2. /\ TableOK(trades, filled) /\ InTable(trades, reported, unseen)
      /\ OwedOK(filled, reported, owed, unseen) /\ filled \in [Orders -> Nat]
      /\ reported \in [Orders -> Nat] /\ owed \subseteq Orders
  BY DEF Steady, BooksType
<1>3. filled'[o] = filled[o] + 1 /\ \A q \in Orders : q # o => filled'[q] = filled[q]
  BY <1>1, <1>2
<1>4. \A q \in Orders : filled[q] > 0 => filled'[q] > 0  BY <1>2, <1>3
<1>5. TableOK(trades', filled')  BY <1>1, <1>2, <1>4 DEF TableOK
<1>6. OwedOK(filled', reported', owed', unseen')
  <2>1. \A q \in Orders : reported[q] < filled'[q] => q \in owed'
    BY <1>1, <1>2, <1>3 DEF OwedOK
  <2>2. filled'[o] > 0  BY <1>2, <1>3
  <2>3. \A q \in owed' : filled'[q] > 0  BY <1>1, <1>2, <1>4, <2>2 DEF OwedOK
  <2> QED BY <1>1, <1>2, <2>1, <2>3 DEF OwedOK
<1>7. ASSUME NEW p \in Procs
      PROVE  CalmCall(call[p], trades, filled', reported, unseen, sold)
  <2>1. CalmCall(call[p], trades, filled, reported, unseen, sold)  BY DEF Steady
  <2>2. call[p].pc = "late" => filled'[call[p].order] = filled[call[p].order]
    BY <1>1, <1>3, CallFacts DEF CallOK
  <2> QED BY <2>1, <2>2 DEF CalmCall, LateOK
<1>8. InTable(trades', reported', unseen')  BY <1>1, <1>2
<1>9. AtRest' => Accounts(trades', unseen', reported', sold', 0)
  BY <1>1 DEF Steady, AtRest, At
<1>10. \A p, q \in Procs : ~At(p, "idle")' /\ ~At(q, "idle")' => p = q
  BY <1>1 DEF Steady, At
<1> QED BY <1>1, <1>5, <1>6, <1>7, <1>8, <1>9, <1>10 DEF Steady

\* What goes wrong is not forgotten, nor that a look was asked for.
LEMMA CalmBefore == ASSUME BooksType, Calm', [RowsNext]_rowsVars PROVE Calm
<1>1. ASSUME NEW p \in Procs, NextLot(p, FALSE) \/ NextLot(p, TRUE) PROVE told => told'
  BY <1>1 DEF NextLot
<1>2. ASSUME NEW p \in Procs, Buys(p) PROVE (told => told') /\ silent \subseteq silent'
  <2>1. CASE LateWrites(p)
    <3>1. told' = told /\ \E w : silent' = silent \cup w  BY <2>1 DEF LateWrites
    <3> QED BY <3>1
  <2>2. ASSUME NEW o \in Orders, Enter(p, o) PROVE (told => told') /\ silent \subseteq silent'
    <3>1. told' = told /\ \E w, v : silent' = silent \cup w \cup v  BY <2>2 DEF Enter
    <3> QED BY <3>1
  <2>3. ASSUME NEW o \in Orders, LateBegins(p, o)
        PROVE  (told => told') /\ silent \subseteq silent'
    <3>1. told' = told /\ (silent' = silent \/ silent' = silent \cup Overlap)
      BY <2>3 DEF LateBegins, Begins
    <3> QED BY <3>1
  <2> QED BY <1>2, <2>1, <2>2, <2>3 DEF Buys
<1>3. ASSUME NEW p \in Procs, Sells(p) PROVE (told => told') /\ silent \subseteq silent'
  <2>1. ASSUME NEW n, SellBegins(p, n) PROVE (told => told') /\ silent \subseteq silent'
    BY <2>1 DEF SellBegins, Begins
  <2>2. CASE Find(p)  BY <2>2 DEF Find
  <2>3. CASE Split(p)  BY <2>3 DEF Split
  <2>4. CASE Keep(p)  BY <2>4, <1>1 DEF Keep
  <2>5. CASE ClosePart(p)
    <3>1. told' = told \/ NextLot(p, FALSE)  BY <2>5 DEF ClosePart, Closes
    <3>2. silent' = silent  BY <2>5 DEF ClosePart, Closes
    <3>3. told => told'  BY <1>1, <3>1
    <3> QED BY <3>2, <3>3
  <2>6. CASE Undo(p)  BY <2>6, <1>1 DEF Undo
  <2>7. CASE CloseWhole(p)
    <3>1. told' = told \/ NextLot(p, FALSE)  BY <2>7 DEF CloseWhole, Closes
    <3>2. silent' = silent \/ \E w : silent' = silent \cup w
      BY <2>7 DEF CloseWhole, Closes
    <3>3. told => told'  BY <1>1, <3>1
    <3>4. silent \subseteq silent'  BY <3>2
    <3> QED BY <3>3, <3>4
  <2> QED BY <1>3, <2>1, <2>2, <2>3, <2>4, <2>5, <2>6, <2>7 DEF Sells
<1>4. ASSUME NEW p \in Procs, Dies(p) PROVE (told => told') /\ silent \subseteq silent'
  BY <1>4 DEF Dies
<1>5. CASE \E o \in Orders : FillsLate(o)  BY <1>5 DEF FillsLate, Calm
<1>6. CASE SellUnpriced  BY <1>6 DEF SellUnpriced, Calm
<1>7. CASE UNCHANGED rowsVars  BY <1>7 DEF rowsVars, Calm
<1> QED BY <1>2, <1>3, <1>4, <1>5, <1>6, <1>7 DEF RowsNext, Calm

\* After these, somebody has to look at the rows.
LEMMA NotCalm ==
  ASSUME NEW p \in Procs, Keep(p) \/ Undo(p) \/ Dies(p) \/ SellUnpriced
  PROVE  ~Calm'
<1>1. ASSUME NextLot(p, TRUE) PROVE told'  BY <1>1 DEF NextLot
<1>2. CASE Keep(p)  BY <1>1, <1>2 DEF Keep, Calm
<1>3. CASE Undo(p)  BY <1>1, <1>3 DEF Undo, Calm
<1>4. CASE Dies(p)  BY <1>4 DEF Dies, Calm
<1>5. CASE SellUnpriced  BY <1>5 DEF SellUnpriced, Calm
<1> QED BY <1>2, <1>3, <1>4, <1>5

\* Every step keeps the books of the calm regime.
LEMMA StepCalm == ASSUME BooksInv, CalmInv, [RowsNext]_rowsVars PROVE CalmInv'
<1> SUFFICES ASSUME Calm' PROVE Steady'  BY DEF CalmInv
<1>1. BooksType  BY DEF BooksInv
<1>2. Calm /\ Steady  BY <1>1, CalmBefore DEF CalmInv
<1>3. ASSUME NEW p \in Procs, Buys(p) PROVE Steady'
  <2>1. CASE LateWrites(p)  BY <2>1, <1>1, <1>2, LateWritesCalm
  <2>2. ASSUME NEW o \in Orders, Enter(p, o) PROVE Steady'  BY <2>2, <1>1, <1>2, EnterCalm
  <2>3. ASSUME NEW o \in Orders, LateBegins(p, o) PROVE Steady'
    BY <2>3, <1>1, <1>2, LateBeginsCalm
  <2> QED BY <1>3, <2>1, <2>2, <2>3 DEF Buys
<1>4. ASSUME NEW p \in Procs, Sells(p) PROVE Steady'
  <2>1. ASSUME NEW n, SellBegins(p, n) PROVE Steady'  BY <2>1, <1>1, <1>2, SellBeginsCalm
  <2>2. CASE Find(p)  BY <2>2, <1>1, <1>2, FindCalm
  <2>3. CASE Split(p)  BY <2>3, <1>1, <1>2, SplitCalm
  <2>4. CASE Keep(p) \/ Undo(p)  BY <2>4, NotCalm
  <2>5. CASE ClosePart(p)  BY <2>5, <1>1, <1>2, ClosePartCalm
  <2>6. CASE CloseWhole(p)  BY <2>6, <1>1, <1>2, CloseWholeCalm
  <2> QED BY <1>4, <2>1, <2>2, <2>3, <2>4, <2>5, <2>6 DEF Sells
<1>5. ASSUME NEW p \in Procs, Dies(p) PROVE Steady'  BY <1>5, NotCalm
<1>6. CASE \E o \in Orders : FillsLate(o)  BY <1>6, <1>1, <1>2, FillsLateCalm
<1>7. CASE SellUnpriced  BY <1>7 DEF SellUnpriced, Calm
<1>8. CASE UNCHANGED rowsVars
  BY <1>2, <1>8 DEF rowsVars, Steady, At, AtRest
<1> QED BY <1>3, <1>4, <1>5, <1>6, <1>7, <1>8 DEF RowsNext

\* At the start the table is empty and nothing is sold.
LEMMA InitCalm == ASSUME RowsInit PROVE CalmInv
<1>1. /\ trades = <<>> /\ Len(trades) = 0 /\ trades \in Seq(RowRecords)
      /\ filled = [o \in Orders |-> 0] /\ reported = filled /\ sold = 0
      /\ call = [p \in Procs |-> Idle] /\ owed = {} /\ unseen = {}
  BY EmptySeq DEF RowsInit
<1>2. \A i \in 1 .. Len(trades) : FALSE  BY <1>1
<1>3. TableOK(trades, filled) /\ OneRow(trades)  BY <1>2 DEF TableOK, OneRow
<1>4. InTable(trades, reported, unseen)  BY <1>1 DEF InTable
<1>5. OwedOK(filled, reported, owed, unseen)  BY <1>1 DEF OwedOK
<1>6. \A p \in Procs : call[p].pc = "idle"  BY <1>1 DEF Idle
<1>7. \A p \in Procs : CalmCall(call[p], trades, filled, reported, unseen, sold)
  BY <1>6, IdleCalm
<1>8. Accounts(trades, unseen, reported, sold, 0)
  <2>1. 1 .. Len(trades) = {}  BY <1>1
  <2>2. PnlIn(trades) = 0 /\ OpenIn(trades) = 0  BY <2>1, SumEmpty DEF PnlIn, OpenIn
  <2>3. Sum(Orders, reported) = 0
    <3>1. \A o \in Orders : reported[o] = 0  BY <1>1
    <3> QED BY <3>1, RowsAssumption, SumZero
  <2>4. reported \in [Orders -> Nat]  BY <1>1
  <2>5. Has(trades, unseen, reported, reported)  BY <1>2, <2>4 DEF Has
  <2>6. OpenIn(trades) = Sum(Orders, reported) - sold + 0  BY <1>1, <2>2, <2>3
  <2> QED BY <1>1, <2>2, <2>5, <2>6 DEF Accounts
<1> QED BY <1>3, <1>4, <1>5, <1>6, <1>7, <1>8 DEF CalmInv, Steady, At

\* Between two bookings, the calm books are what the properties say.
LEMMA CalmAddsUp == ASSUME BooksInv, CalmInv PROVE PnlComplete /\ RowsAddUp
<1>1. BooksType  BY DEF BooksInv
<1>2. trades \in Seq(RowRecords) /\ reported \in [Orders -> Nat] /\ sold \in Int
  BY <1>1 DEF BooksType
<1>3. SUFFICES ASSUME AtRest, ~told, silent = {}
               PROVE  /\ BookedPnl = sold
                      /\ owed = {} => Open = SharesOf(reported) - sold
  BY DEF PnlComplete, RowsAddUp
<1>4. Steady /\ Accounts(trades, unseen, reported, sold, 0)
  BY <1>3 DEF CalmInv, Calm, Steady
<1>5. BookedPnl = sold  BY <1>2, <1>4, BookedPnlIs DEF Accounts
<1>6. ASSUME owed = {} PROVE Open = SharesOf(reported) - sold
  <2>1. unseen = {}  BY <1>4, <1>6 DEF Steady, OwedOK
  <2>2. ~Doomed(trades, unseen)  BY <2>1 DEF Doomed
  <2>3. PICK has : /\ Has(trades, unseen, reported, has)
                   /\ OpenIn(trades) = Sum(Orders, has) - sold + 0
    BY <1>4, <2>2 DEF Accounts
  <2>4. has = reported  BY <1>2, <2>1, <2>3 DEF Has
  <2>5. IsFiniteSet(Orders) /\ \A o \in Orders : reported[o] \in Nat
    BY <1>2, RowsAssumption
  <2>6. Sum(Orders, reported) \in Nat  BY <2>5, SumNat
  <2>7. OpenIn(trades) = Sum(Orders, reported) - sold  BY <1>2, <2>3, <2>4, <2>6
  <2> QED BY <1>2, <2>7, OpenIs, SharesOfIs
<1> QED BY <1>5, <1>6

\* Unless an alert asked for a look, or one of Ways happened: between two bookings the closed
\* rows hold the P&L of every share sold, so the loss limits miss none (lifecycle.py, on_trade).
THEOREM EveryShare == RowsSpec => []PnlComplete
<1>1. RowsInit => BooksInv /\ CalmInv  BY InitBooks, InitCalm
<1>2. BooksInv /\ CalmInv /\ [RowsNext]_rowsVars => BooksInv' /\ CalmInv'
  BY StepBooks, StepCalm
<1>3. BooksInv /\ CalmInv => PnlComplete  BY CalmAddsUp
<1> QED BY <1>1, <1>2, <1>3, PTL DEF RowsSpec

\* ... and, once no late fill is still to be booked, the open rows hold what was bought and not
\* sold: find_open_buy finds the shares there are (lifecycle.py, _handle_live_sell).
THEOREM RowsHoldTheRest == RowsSpec => []RowsAddUp
<1>1. RowsInit => BooksInv /\ CalmInv  BY InitBooks, InitCalm
<1>2. BooksInv /\ CalmInv /\ [RowsNext]_rowsVars => BooksInv' /\ CalmInv'
  BY StepBooks, StepCalm
<1>3. BooksInv /\ CalmInv => RowsAddUp  BY CalmAddsUp
<1> QED BY <1>1, <1>2, <1>3, PTL DEF RowsSpec

------------------------------------------------------------------------

-----------------------------------------------------------------------------
(* PositionMonitor, while a wrong read is the only one in a row.                *)

\* The records that track a position, with quantities of Q
PositionRecords(Q) == [q : Q, zero : 0 .. 1, seen : Q, pending : BOOLEAN]

\* What the variables hold, as far as the proofs need it
MonitorTypes ==
    /\ net \in Nat /\ soldToday \in Nat /\ boughtToday \in Nat /\ known \in Nat /\ foreign \in Nat
    /\ positions \in [net : Nat, sold : Nat, bought : Nat]
    /\ sellOrder \in [SellIds -> [by : Workers, open : Nat]]
    /\ buy \in {"none", "open", "filled", "dead", "final"}
    /\ pos = Untracked \/ pos \in PositionRecords(Nat)
    /\ exit \in [st : {"none", "working", "sold", "short"}, ask : Nat]
    /\ wrong \in Nat

\* An exit sells all that is tracked, and nothing else changes that while it works
ExitOfTracked == exit.st = "working" => pos # Untracked /\ pos.q = exit.ask

\* The day's trades add up to the position, at the broker and in what it shows, and only grow
DayAddsUp ==
    /\ net + soldToday = boughtToday
    /\ positions.net + positions.sold = positions.bought
    /\ positions.sold <= soldToday /\ positions.bought <= boughtToday

\* A BUY that positions do not show yet is unresolved, or confirmed
BuysKnown ==
    /\ buy = "none" => positions.bought = boughtToday
    /\ buy \in {"open", "dead"} => boughtToday = 0 /\ known = 0
    /\ buy = "filled" => boughtToday = 1 /\ known = 0
    /\ buy = "final" => known = boughtToday /\ known <= 1

\* While only the exit of the moment has been selling, nothing else is open
NothingElseSells == ~shared => foreign = 0 /\ \A i \in SellIds : sellOrder[i].open = 0

\* What is held is tracked, with all of its sales seen, unless a wrong read hides it now
Tracks ==
    IF pos = Untracked
    THEN soldToday = 0 /\ exit.st = "none" /\ (stage \in {"start", "first"} \/ wrong > 0)
    ELSE /\ pos.seen = soldToday /\ exit.st # "sold"
         /\ \/ pos.q = net /\ pos.zero = 0
            \/ pos.q = 0 /\ wrong > 0 /\ exit.st = "none"

HeldIsTracked == stage # "ended" /\ ~shared /\ buy = "none" /\ net > 0 => Tracks

EndedWithRc == rc # "none" => stage = "ended"

MonitorInv ==
    /\ MonitorTypes /\ ExitOfTracked /\ DayAddsUp /\ BuysKnown /\ NothingElseSells
    /\ HeldIsTracked /\ EndedWithRc /\ EndsClean

\* What is open of Skopaq's SELLs is a number, and nothing if nothing is open
LEMMA OwnSellsOpenNat ==
  ASSUME MonitorTypes
  PROVE  /\ OwnSellsOpen \in Nat
         /\ OwnSellsOpen = 0 <=> \A i \in SellIds : sellOrder[i].open = 0
<1> DEFINE f == [i \in SellIds |-> sellOrder[i].open]
<1>1. OwnSellsOpen = Sum(SellIds, f)  BY DEF OwnSellsOpen, SumFunction, Sum
<1>2. \A i \in SellIds : f[i] \in Nat /\ f[i] \in Int /\ f[i] = sellOrder[i].open
  BY DEF MonitorTypes
<1> HIDE DEF f
<1>3. IsFiniteSet(SellIds)  BY SellIdsAssumption
<1>4. Sum(SellIds, f) \in Nat  BY <1>2, <1>3, SumNat
<1>5. ASSUME \A i \in SellIds : f[i] = 0 PROVE Sum(SellIds, f) = 0  BY <1>3, <1>5, SumZero
<1>6. ASSUME Sum(SellIds, f) = 0, NEW i \in SellIds PROVE f[i] = 0
  <2>1. Sum(SellIds, f) = f[i] + Sum(SellIds \ {i}, f)  BY <1>2, <1>3, SumRemove
  <2>2. IsFiniteSet(SellIds \ {i})  BY <1>3, FS_Subset
  <2>3. \A j \in SellIds \ {i} : f[j] \in Nat  BY <1>2
  <2>4. Sum(SellIds \ {i}, f) \in Nat  BY <2>2, <2>3, SumNat
  <2>5. f[i] \in Nat  BY <1>2
  <2> QED BY ONLY <1>6, <2>1, <2>4, <2>5
<1> QED BY <1>1, <1>2, <1>4, <1>5, <1>6

\* The day begins with the invariant
LEMMA MonitorInitInv == MonitorInit => MonitorInv
<1> SUFFICES ASSUME MonitorInit PROVE MonitorInv  OBVIOUS
<1>1. MonitorTypes
  <2>1. net \in Nat  BY HeldAssumption DEF MonitorInit
  <2>2. sellOrder \in [SellIds -> [by : Workers, open : Nat]]  BY DEF MonitorInit, Workers
  <2> QED BY <2>1, <2>2 DEF MonitorInit, MonitorTypes, NoExit
<1>2. NothingElseSells
  <2>1. /\ OwnSellsOpen \in Nat /\ foreign \in Nat /\ shared = (OwnSellsOpen + foreign > 0)
        /\ OwnSellsOpen = 0 <=> \A i \in SellIds : sellOrder[i].open = 0
    BY <1>1, OwnSellsOpenNat DEF MonitorInit, MonitorTypes
  <2> DEFINE some == OwnSellsOpen + foreign > 0
  <2>a. shared = some  BY <2>1
  <2>b. ~some => OwnSellsOpen = 0 /\ foreign = 0  BY <2>1
  <2> HIDE DEF some
  <2>2. ~shared => OwnSellsOpen = 0 /\ foreign = 0  BY <2>a, <2>b, Zenon
  <2> QED BY <2>1, <2>2 DEF NothingElseSells
<1>3. ExitOfTracked /\ EndedWithRc /\ EndsClean
  BY DEF MonitorInit, ExitOfTracked, NoExit, EndedWithRc, EndsClean
<1>4. DayAddsUp /\ BuysKnown
  BY <1>1 DEF MonitorInit, DayAddsUp, BuysKnown, MonitorTypes
<1>5. HeldIsTracked
  BY DEF MonitorInit, HeldIsTracked, Tracks, NoExit
<1> QED BY <1>1, <1>2, <1>3, <1>4, <1>5 DEF MonitorInv

\* What a read says: of the position, of what may be sold, and of confirmed BUYs it lacks
LEMMA ReadSays ==
  ASSUME MonitorTypes, NEW b \in {Book, Unreadable}, NEW r \in {positions, WithoutRow}
  PROVE  /\ b.error \in BOOLEAN /\ b.sold \in Nat /\ b.own \in Nat /\ b.foreign \in Nat
         /\ r \in [net : Nat, sold : Nat, bought : Nat]
         /\ HeldBy(b, r) = IF b.error \/ b.sold <= r.sold THEN r.net ELSE r.net - (b.sold - r.sold)
         /\ HeldBy(b, r) \in Int
         /\ SellableBy(b, r) = IF HeldBy(b, r) - b.own - b.foreign > 0
                               THEN HeldBy(b, r) - b.own - b.foreign ELSE 0
         /\ SellableBy(b, r) \in Nat
         /\ UnshownBuys(b, r) <=> /\ known > b.sold /\ known > r.bought
                                  /\ known > r.net + r.sold
<1>1. /\ b.error \in BOOLEAN /\ b.sold \in Nat /\ b.own \in Nat /\ b.foreign \in Nat
  <2>1. OwnSellsOpen \in Nat  BY OwnSellsOpenNat
  <2>2. soldToday \in Nat /\ foreign \in Nat  BY DEF MonitorTypes
  <2>3. Book = [error |-> FALSE, sold |-> soldToday, own |-> OwnSellsOpen, foreign |-> foreign]
    BY DEF Book
  <2>4. Unreadable = [error |-> TRUE, sold |-> 0, own |-> 0, foreign |-> 0]  BY DEF Unreadable
  <2>5. CASE b = Book  BY <2>1, <2>2, <2>3, <2>5
  <2>6. CASE b = Unreadable  BY <2>4, <2>6
  <2> QED BY <2>5, <2>6
<1>2. r \in [net : Nat, sold : Nat, bought : Nat]
  BY DEF WithoutRow, MonitorTypes
<1> DEFINE x == b.sold - r.sold
           h == HeldBy(b, r)
           y == h - b.own - b.foreign
           k == known
           u == r.bought
           v == r.net + r.sold
           m == Max({u, v})
<1>3. x \in Int /\ r.net \in Int  BY <1>1, <1>2
<1>4. Max({0, x}) = IF 0 >= x THEN 0 ELSE x  BY <1>3, MaxOfTwo
<1>5. h = IF b.error \/ b.sold <= r.sold THEN r.net ELSE r.net - (b.sold - r.sold)
  BY <1>1, <1>2, <1>4 DEF HeldBy, UnshownFill
<1>6. h \in Int  BY <1>1, <1>2, <1>5
<1>7. y \in Int  BY <1>1, <1>6
<1>8. SellableBy(b, r) = IF y > 0 THEN y ELSE 0
  <2>1. SellableBy(b, r) = Max({0, y})  BY DEF SellableBy
  <2> HIDE DEF y
  <2>2. Max({0, y}) = IF 0 >= y THEN 0 ELSE y  BY <1>7, MaxOfTwo
  <2> QED BY ONLY <2>1, <2>2, <1>7
<1>9. SellableBy(b, r) \in Nat  BY ONLY <1>7, <1>8
<1>10. UnshownBuys(b, r) <=> known > b.sold /\ known > r.bought /\ known > r.net + r.sold
  <2>1. k \in Int /\ u \in Int /\ v \in Int /\ b.sold \in Int  BY <1>1, <1>2 DEF MonitorTypes
  <2>2. UnshownBuys(b, r) <=> Min({k - m, k - b.sold}) > 0  BY DEF UnshownBuys
  <2> HIDE DEF k, u, v
  <2>3. m = IF u >= v THEN u ELSE v  BY <2>1, MaxOfTwo
  <2> HIDE DEF m
  <2>4. m \in Int  BY <2>1, <2>3
  <2>5. k - m \in Int /\ k - b.sold \in Int  BY <2>1, <2>4
  <2>6. Min({k - m, k - b.sold}) = IF k - m <= k - b.sold THEN k - m ELSE k - b.sold
    BY <2>5, MinOfTwo
  <2>7. UnshownBuys(b, r) <=> k > b.sold /\ k > u /\ k > v
    BY ONLY <2>1, <2>2, <2>3, <2>4, <2>6
  <2> QED BY <2>7 DEF k, u, v
<1> HIDE DEF h, y
<1>11. SellableBy(b, r) = IF HeldBy(b, r) - b.own - b.foreign > 0
                          THEN HeldBy(b, r) - b.own - b.foreign ELSE 0
  BY <1>8 DEF h, y
<1> QED BY <1>1, <1>2, <1>5, <1>6, <1>9, <1>10, <1>11 DEF h

\* What the broker says of a position bought before the monitor began (no BUY of ours unresolved),
\* while only the exit of the moment has been selling: all of it, or, without its row, nothing
LEMMA CalmRead ==
  ASSUME MonitorInv, ~shared, buy = "none", net > 0,
         NEW b \in {Book, Unreadable}, NEW r \in {positions, WithoutRow}
  PROVE  /\ b.own = 0 /\ b.foreign = 0
         /\ b.error => b.sold = 0
         /\ ~b.error => b.sold = soldToday
         /\ r = positions => r.net >= net /\ (soldToday = 0 => r.net = net)
         /\ r = positions /\ ~b.error => HeldBy(b, r) = net /\ SellableBy(b, r) = net
         /\ r = WithoutRow /\ r # positions
              => r.net = 0 /\ HeldBy(b, r) <= 0 /\ SellableBy(b, r) = 0
<1> USE DEF MonitorInv
<1>1. OwnSellsOpen = 0 /\ foreign = 0
  <2>1. \A i \in SellIds : sellOrder[i].open = 0  BY DEF NothingElseSells
  <2> QED BY <2>1, OwnSellsOpenNat DEF NothingElseSells
<1>2. b.own = 0 /\ b.foreign = 0 /\ b.error \in BOOLEAN
  <2>1. Book = [error |-> FALSE, sold |-> soldToday, own |-> OwnSellsOpen, foreign |-> foreign]
    BY DEF Book
  <2>2. Unreadable = [error |-> TRUE, sold |-> 0, own |-> 0, foreign |-> 0]  BY DEF Unreadable
  <2>3. CASE b = Book  BY <1>1, <2>1, <2>3
  <2>4. CASE b = Unreadable  BY <2>2, <2>4
  <2> QED BY <2>3, <2>4
<1>3. (b.error => b.sold = 0) /\ (~b.error => b.sold = soldToday)
  BY DEF Book, Unreadable
<1>4. /\ positions.net \in Nat /\ positions.sold \in Nat /\ positions.bought \in Nat
      /\ net \in Nat /\ soldToday \in Nat /\ boughtToday \in Nat
      /\ net + soldToday = boughtToday
      /\ positions.net + positions.sold = positions.bought
      /\ positions.sold <= soldToday /\ positions.bought = boughtToday
  BY DEF MonitorTypes, DayAddsUp, BuysKnown
<1>5. /\ positions.net - (soldToday - positions.sold) = net /\ positions.net >= net
      /\ soldToday = 0 => positions.net = net
  BY ONLY <1>4
<1>6. /\ HeldBy(b, r) = IF b.error \/ b.sold <= r.sold THEN r.net ELSE r.net - (b.sold - r.sold)
      /\ HeldBy(b, r) \in Int /\ b.sold \in Nat
      /\ SellableBy(b, r) = IF HeldBy(b, r) - b.own - b.foreign > 0
                            THEN HeldBy(b, r) - b.own - b.foreign ELSE 0
  BY ReadSays
<1>7. SellableBy(b, r) = IF HeldBy(b, r) > 0 THEN HeldBy(b, r) ELSE 0
  BY ONLY <1>2, <1>6
<1>8. ASSUME r = positions, ~b.error PROVE HeldBy(b, r) = net
  <2>1. /\ HeldBy(b, r) = IF soldToday <= positions.sold THEN positions.net
                          ELSE positions.net - (soldToday - positions.sold)
    BY <1>3, <1>6, <1>8
  <2> QED BY ONLY <1>4, <1>5, <2>1
<1>9. ASSUME r = WithoutRow PROVE r.net = 0 /\ HeldBy(b, r) <= 0
  <2>1. r.net = 0 /\ r.sold = 0  BY <1>9 DEF WithoutRow
  <2> QED BY ONLY <2>1, <1>6
<1>10. ASSUME r = WithoutRow PROVE SellableBy(b, r) = 0
  BY ONLY <1>6, <1>7, <1>9, <1>10
<1>11. ASSUME r = positions, ~b.error PROVE SellableBy(b, r) = net
  BY <1>7, <1>8, <1>11
<1> QED BY <1>2, <1>3, <1>5, <1>8, <1>9, <1>10, <1>11

\* A read that is wrong is the first in a row
MonitorOneWrongRead == MaxWrong <= 1

\* What a resync makes of the tracked position keeps it tracked
LEMMA ReadTracks ==
  ASSUME MonitorInv, MonitorOneWrongRead, stage # "ended", ~shared, buy = "none", net > 0,
         NEW b \in {Book, Unreadable}, NEW r \in {positions, WithoutRow}, ReadAs(b, r)
  PROVE  Tracks'
<1>1. /\ b.own = 0 /\ b.foreign = 0
      /\ b.error => b.sold = 0
      /\ ~b.error => b.sold = soldToday
      /\ r = positions => r.net >= net /\ (soldToday = 0 => r.net = net)
      /\ r = positions /\ ~b.error => HeldBy(b, r) = net /\ SellableBy(b, r) = net
      /\ r = WithoutRow /\ r # positions
           => r.net = 0 /\ HeldBy(b, r) <= 0 /\ SellableBy(b, r) = 0
  BY CalmRead
<1>2. /\ b.error \in BOOLEAN /\ b.sold \in Nat /\ r.net \in Nat /\ HeldBy(b, r) \in Int
      /\ HeldBy(b, r) = IF b.error \/ b.sold <= r.sold THEN r.net ELSE r.net - (b.sold - r.sold)
      /\ SellableBy(b, r) \in Nat
  BY ReadSays DEF MonitorInv
<1>3. /\ exit' = exit /\ soldToday' = soldToday /\ net' = net
      /\ \/ r = positions /\ wrong' = IF b.error THEN wrong ELSE 0
         \/ r = WithoutRow /\ r # positions /\ wrong = 0 /\ wrong' = 1
  <2>1. exit' = exit /\ soldToday' = soldToday /\ net' = net /\ Reading(b, r)
    BY DEF ReadAs, brokerVars
  <2>2. wrong \in Nat /\ MaxWrong \in Nat /\ MaxWrong <= 1
    BY MaxWrongAssumption DEF MonitorInv, MonitorTypes, MonitorOneWrongRead
  <2>3. wrong < MaxWrong /\ wrong' = wrong + 1 => wrong = 0 /\ wrong' = 1  BY ONLY <2>2
  <2> QED BY <2>1, <2>3 DEF Reading
<1>4. Tracks /\ net \in Nat /\ wrong \in Nat /\ soldToday \in Nat
  BY DEF MonitorInv, HeldIsTracked, MonitorTypes
<1>5. CASE pos # Untracked /\ exit.st # "none"
  BY <1>3, <1>4, <1>5 DEF ReadAs, Tracks
<1>6. CASE pos # Untracked /\ exit.st = "none"
  <2> DEFINE p == Resynced(pos, b, r)
  <2>1. /\ pos \in PositionRecords(Nat)
        /\ pos.seen = soldToday
        /\ (pos.q = net /\ pos.zero = 0) \/ (pos.q = 0 /\ wrong > 0)
    BY <1>4, <1>6 DEF Tracks, MonitorInv, MonitorTypes
  <2>2. ~SoldSince(pos, b)
    BY <1>1, <1>2, <1>4, <2>1 DEF SoldSince
  <2>3. CASE b.error
    <3>1. p = [pos EXCEPT !.q = Min({@, r.net})]  BY <2>3 DEF Resynced
    <3>2. Min({pos.q, r.net}) = IF pos.q <= r.net THEN pos.q ELSE r.net
      BY <1>2, <2>1, MinOfTwo DEF PositionRecords
    <3>3. p.q = (IF pos.q <= r.net THEN pos.q ELSE r.net) /\ p.zero = pos.zero /\ p.seen = soldToday
      BY <2>1, <3>1, <3>2
    <3>4. p # Untracked  BY <1>2, <2>1, <3>3 DEF Untracked
    <3>5. pos' = p  BY <1>6, <3>4 DEF ReadAs
    <3> HIDE DEF p
    <3> QED BY <1>1, <1>2, <1>3, <1>4, <1>6, <2>1, <2>3, <3>3, <3>4, <3>5 DEF Tracks
  <2>4. CASE ~b.error /\ r = positions
    <3>a. r.net > 0  BY <1>1, <1>2, <1>4, <2>4
    <3>b. SellableBy(b, r) = net  BY <1>1, <2>4
    <3>1. p = [[pos EXCEPT !.q = net, !.pending = b.own + b.foreign > 0]
                 EXCEPT !.zero = 0, !.seen = Max({@, b.sold})]
      BY <2>4, <3>a, <3>b, Zenon DEF Resynced
    <3>2. Max({pos.seen, b.sold}) = soldToday
      BY <1>1, <1>4, <2>1, <2>4, MaxOfTwo
    <3>3. p.q = net /\ p.zero = 0 /\ p.seen = soldToday
      BY <2>1, <3>1, <3>2
    <3>4. p # Untracked  BY <1>4, <3>3 DEF Untracked
    <3>5. pos' = p  BY <1>6, <3>4 DEF ReadAs
    <3> HIDE DEF p
    <3> QED BY <1>3, <1>4, <1>6, <3>3, <3>4, <3>5 DEF Tracks
  <2>5. CASE ~b.error /\ r = WithoutRow /\ r # positions
    <3>1. pos.zero = 0  BY <1>3, <2>1, <2>5
    <3>a. ~(r.net > 0) /\ ~(b.own + b.foreign > 0) /\ SellableBy(b, r) = 0  BY <1>1, <2>5
    <3>b. ~(pos.zero + 1 >= 2)  BY <3>1
    <3>2. p = [[pos EXCEPT !.q = 0, !.pending = b.own + b.foreign > 0] EXCEPT !.zero = @ + 1]
      BY <2>2, <2>5, <3>a, <3>b, Zenon DEF Resynced
    <3>3. p.q = 0 /\ p.zero = 1 /\ p.seen = soldToday
      BY <2>1, <3>1, <3>2
    <3>4. p # Untracked  BY <3>3 DEF Untracked
    <3>5. pos' = p  BY <1>6, <3>4 DEF ReadAs
    <3> HIDE DEF p
    <3> QED BY <1>3, <1>6, <2>5, <3>3, <3>4, <3>5 DEF Tracks
  <2> QED BY <1>2, <1>3, <2>3, <2>4, <2>5
<1>7. CASE pos = Untracked
  <2>1. soldToday = 0 /\ exit.st = "none" /\ b.sold = 0
    BY <1>1, <1>4, <1>7 DEF Tracks
  <2>2. pos' = Adopted(b, r)  BY <1>7 DEF ReadAs
  <2>3. CASE r = WithoutRow /\ r # positions
    <3>1. pos' = Untracked  BY <1>1, <1>2, <2>2, <2>3 DEF Adopted
    <3> QED BY <1>3, <2>1, <2>3, <3>1 DEF Tracks
  <2>4. CASE r = positions
    <3>1. HeldBy(b, r) > 0 /\ (IF b.error THEN r.net ELSE SellableBy(b, r)) = net
      BY <1>1, <1>2, <1>4, <2>1, <2>4
    <3>2. ~(HeldBy(b, r) <= 0)  BY <1>2, <3>1
    <3>3. pos' = [Untracked EXCEPT !.q = net, !.seen = b.sold, !.pending = b.own + b.foreign > 0]
      BY <2>2, <3>1, <3>2, Zenon DEF Adopted
    <3>4. pos'.q = net /\ pos'.zero = 0 /\ pos'.seen = soldToday  BY <2>1, <3>3 DEF Untracked
    <3>5. pos' # Untracked  BY <1>4, <3>4 DEF Untracked
    <3> QED BY <1>3, <2>1, <3>4, <3>5 DEF Tracks
  <2> QED BY <1>3, <2>3, <2>4
<1> QED BY <1>5, <1>6, <1>7

\* While the monitor runs, it has not ended
LEMMA StillRuns ==
  ASSUME MonitorInv, Running, rc' = rc
  PROVE  EndedWithRc' /\ EndsClean'
<1>1. rc' = "none"  BY DEF MonitorInv, EndedWithRc, Running
<1> QED BY <1>1 DEF EndedWithRc, EndsClean

\* The broker, the other processes, and resumes change the day and the orders
LEMMA BrokerKeeps ==
  ASSUME MonitorInv, Running, Broker
  PROVE  MonitorInv'
<1> USE DEF MonitorInv, monitorVars, brokerVars, envVars, knowVars, ghostVars, Running
<1>1. CASE ForeignSells
  <2>1. MonitorTypes' /\ ExitOfTracked' /\ DayAddsUp' /\ BuysKnown'
    BY <1>1 DEF ForeignSells, MonitorTypes, ExitOfTracked, DayAddsUp, BuysKnown
  <2>2. NothingElseSells' /\ HeldIsTracked'
    BY <1>1 DEF ForeignSells, NothingElseSells, HeldIsTracked
  <2>3. EndedWithRc' /\ EndsClean'  BY <1>1, StillRuns DEF ForeignSells
  <2> QED BY <2>1, <2>2, <2>3
<1>2. CASE BuyEnds
  <2>1. MonitorTypes' /\ ExitOfTracked' /\ DayAddsUp' /\ BuysKnown'
    BY <1>2 DEF BuyEnds, MonitorTypes, ExitOfTracked, DayAddsUp, BuysKnown
  <2>2. NothingElseSells' /\ HeldIsTracked'
    BY <1>2 DEF BuyEnds, NothingElseSells, HeldIsTracked
  <2>3. EndedWithRc' /\ EndsClean'  BY <1>2, StillRuns DEF BuyEnds
  <2> QED BY <2>1, <2>2, <2>3
<1>3. CASE CatchesUp
  <2>1. MonitorTypes' /\ ExitOfTracked' /\ DayAddsUp' /\ BuysKnown'
    BY <1>3 DEF CatchesUp, Truth, MonitorTypes, ExitOfTracked, DayAddsUp, BuysKnown
  <2>2. NothingElseSells' /\ HeldIsTracked'
    BY <1>3 DEF CatchesUp, NothingElseSells, HeldIsTracked, Tracks
  <2>3. EndedWithRc' /\ EndsClean'  BY <1>3, StillRuns DEF CatchesUp
  <2> QED BY <2>1, <2>2, <2>3
<1>4. ASSUME NEW i \in SellIds, Trades(i) PROVE MonitorInv'
  <2>1. MonitorTypes' /\ ExitOfTracked' /\ DayAddsUp' /\ BuysKnown'
    BY <1>4 DEF Trades, MonitorTypes, ExitOfTracked, DayAddsUp, BuysKnown
  <2>2. shared /\ shared'
    BY <1>4 DEF Trades, NothingElseSells, MonitorTypes
  <2>3. NothingElseSells' /\ HeldIsTracked'  BY <2>2 DEF NothingElseSells, HeldIsTracked
  <2>4. EndedWithRc' /\ EndsClean'  BY <1>4, StillRuns DEF Trades
  <2> QED BY <2>1, <2>3, <2>4
<1>5. ASSUME NEW i \in SellIds, Other(i) PROVE MonitorInv'
  <2>1. MonitorTypes' /\ ExitOfTracked' /\ DayAddsUp' /\ BuysKnown'
    BY <1>5 DEF Other, MonitorTypes, ExitOfTracked, DayAddsUp, BuysKnown, Workers
  <2>2. NothingElseSells'  BY <1>5 DEF Other, NothingElseSells, MonitorTypes
  <2>3. HeldIsTracked'  BY <1>5 DEF Other, HeldIsTracked, Tracks
  <2>4. EndedWithRc' /\ EndsClean'  BY <1>5, StillRuns DEF Other
  <2> QED BY <2>1, <2>2, <2>3, <2>4
<1> QED BY <1>1, <1>2, <1>3, <1>4, <1>5 DEF Broker

\* An exit that has sold, a BUY found final, and an order ended
LEMMA TaskKeeps ==
  ASSUME MonitorInv, Running, Task
  PROVE  MonitorInv'
<1> USE DEF MonitorInv, monitorVars, brokerVars, envVars, knowVars, ghostVars, Running
<1>1. ASSUME NEW f \in 0 .. exit.ask, ExitEnds(f) PROVE MonitorInv'
  <2>1. /\ exit.st = "working" /\ f \in Nat /\ f <= exit.ask /\ f + OwnSellsOpen + foreign <= net
        /\ net' = net - f /\ soldToday' = soldToday + f
    BY <1>1 DEF ExitEnds, MonitorTypes
  <2>2. f <= net
    <3>1. OwnSellsOpen \in Nat  BY OwnSellsOpenNat
    <3> QED BY <2>1, <3>1 DEF MonitorTypes
  <2>3. /\ pos \in PositionRecords(Nat)
        /\ pos # Untracked /\ pos.q = exit.ask
    BY <2>1 DEF ExitOfTracked, MonitorTypes
  <2>4. PICK read \in 0 .. f, unclear \in BOOLEAN :
            /\ Reports(read, unclear)
            /\ unclear \/ (read = f /\ UNCHANGED <<sellOrder, shared>>)
            /\ unclear => shared' /\ Leaves(exit.ask - f, net - f)
    <3>1. \/ Reports(f, FALSE) /\ UNCHANGED <<sellOrder, shared>>
          \/ /\ \E read \in 0 .. f : Reports(read, TRUE)
             /\ Leaves(exit.ask - f, net - f)
             /\ shared'
      BY <1>1 DEF ExitEnds
    <3>2. f \in 0 .. f  BY <2>1
    <3> QED BY <3>1, <3>2, Zenon
  <2>5. /\ exit' = [st |-> IF read > 0 /\ read = exit.ask THEN "sold" ELSE "short", ask |-> 0]
        /\ pos' = [pos EXCEPT !.q = @ - read, !.seen = @ + read, !.pending = @ \/ unclear]
    BY <2>4 DEF Reports, CountedExit
  <2>6. /\ pos'.q = pos.q - read /\ pos'.seen = pos.seen + read /\ pos'.zero = pos.zero
        /\ pos' \in PositionRecords(Nat)
    <3> DEFINE x == pos.q - read
               y == pos.seen + read
               z == pos.pending \/ unclear
    <3>1. x \in Nat /\ y \in Nat /\ z \in BOOLEAN  BY <2>1, <2>3 DEF PositionRecords
    <3>2. pos' = [pos EXCEPT !.q = x, !.seen = y, !.pending = z]  BY <2>5
    <3> HIDE DEF x, y, z
    <3>3. /\ pos'.q = x /\ pos'.seen = y /\ pos'.zero = pos.zero
          /\ pos' \in PositionRecords(Nat)
      BY <2>3, <3>1, <3>2 DEF PositionRecords
    <3> QED BY <3>3 DEF x, y
  <2>7. sellOrder' \in [SellIds -> [by : Workers, open : Nat]]
    BY <2>1, <2>4 DEF Leaves, MonitorTypes, Workers
  <2>8. MonitorTypes'
    BY <1>1, <2>1, <2>2, <2>5, <2>6, <2>7 DEF MonitorTypes, ExitEnds
  <2>9. ExitOfTracked'  BY <2>5 DEF ExitOfTracked
  <2>10. DayAddsUp' /\ BuysKnown'
    BY <1>1, <2>1, <2>2 DEF ExitEnds, DayAddsUp, BuysKnown, MonitorTypes
  <2>11. NothingElseSells'  BY <1>1, <2>4 DEF ExitEnds, NothingElseSells
  <2>12. HeldIsTracked'
    <3> SUFFICES ASSUME stage' # "ended", ~shared', buy' = "none", net' > 0 PROVE Tracks'
      BY DEF HeldIsTracked
    <3>1. read = f /\ ~shared  BY <2>4
    <3>2. stage # "ended" /\ buy = "none" /\ net > 0
      BY <1>1, <2>1 DEF ExitEnds, MonitorTypes
    <3>3. pos.seen = soldToday /\ pos.q = net /\ pos.zero = 0
      BY <2>1, <2>3, <3>1, <3>2 DEF HeldIsTracked, Tracks
    <3>4. pos'.q = net' /\ pos'.seen = soldToday' /\ pos'.zero = 0
      BY <2>1, <2>6, <3>1, <3>3
    <3>5. pos' # Untracked  BY <2>6 DEF Untracked, PositionRecords
    <3>6. exit'.st # "sold"  BY <2>1, <2>3, <2>5, <3>1, <3>3
    <3> QED BY <3>4, <3>5, <3>6 DEF Tracks
  <2>13. EndedWithRc' /\ EndsClean'  BY <1>1, StillRuns DEF ExitEnds
  <2> QED BY <2>8, <2>9, <2>10, <2>11, <2>12, <2>13
<1>2. CASE ResumeBuyEnds
  <2>1. MonitorTypes' /\ ExitOfTracked' /\ DayAddsUp'
    BY <1>2 DEF ResumeBuyEnds, MonitorTypes, ExitOfTracked, DayAddsUp
  <2>2. BuysKnown'
    BY <1>2 DEF ResumeBuyEnds, BuyUnresolved, BuysKnown, MonitorTypes
  <2>3. NothingElseSells' /\ HeldIsTracked'
    BY <1>2 DEF ResumeBuyEnds, NothingElseSells, HeldIsTracked
  <2>4. EndedWithRc' /\ EndsClean'  BY <1>2, StillRuns DEF ResumeBuyEnds
  <2> QED BY <2>1, <2>2, <2>3, <2>4
<1>3. ASSUME NEW i \in SellIds, ResumeEnds(i) PROVE MonitorInv'
  <2>1. MonitorTypes' /\ ExitOfTracked' /\ DayAddsUp' /\ BuysKnown'
    BY <1>3 DEF ResumeEnds, MonitorTypes, ExitOfTracked, DayAddsUp, BuysKnown, Workers
  <2>2. NothingElseSells'  BY <1>3 DEF ResumeEnds, NothingElseSells, MonitorTypes
  <2>3. HeldIsTracked'  BY <1>3 DEF ResumeEnds, HeldIsTracked, Tracks
  <2>4. EndedWithRc' /\ EndsClean'  BY <1>3, StillRuns DEF ResumeEnds
  <2> QED BY <2>1, <2>2, <2>3, <2>4
<1> QED BY <1>1, <1>2, <1>3 DEF Task

\* What a step of the loop does to the position and its exit: nothing, collect, or start one
LoopTracks ==
    \/ pos' = pos /\ exit' = exit
    \/ Reap
    \/ pos' = pos /\ pos # Untracked /\ pos.q > 0 /\ exit.st = "none" /\ exit' = Starts(pos.q)

\* What it does to the orders: nothing, or take some over
LoopOrders == UNCHANGED sellOrder \/ \E w : BeginResync(w)

\* Orders taken over keep what is open of them
LEMMA OrdersKept ==
  ASSUME MonitorTypes, NothingElseSells, shared' = shared, foreign' = foreign, LoopOrders
  PROVE  /\ sellOrder' \in [SellIds -> [by : Workers, open : Nat]]
         /\ NothingElseSells'
<1>1. CASE UNCHANGED sellOrder
  BY <1>1 DEF MonitorTypes, NothingElseSells
<1>2. ASSUME NEW w, BeginResync(w)
      PROVE  /\ sellOrder' \in [SellIds -> [by : Workers, open : Nat]]
             /\ \A i \in SellIds : sellOrder'[i].open = sellOrder[i].open
  BY <1>2 DEF BeginResync, MonitorTypes, Workers
<1> QED BY <1>1, <1>2 DEF LoopOrders, NothingElseSells

\* Most steps of the loop change no more than that
LEMMA LoopStepKeeps ==
  ASSUME MonitorInv, Running, LoopTracks, LoopOrders,
         UNCHANGED <<brokerVars, buy, known, wrong, shared, rc>>,
         stage \in {"start", "first"} => stage' \in {"first", "ended"}
  PROVE  MonitorInv'
<1> USE DEF MonitorInv, brokerVars
<1>1. sellOrder' \in [SellIds -> [by : Workers, open : Nat]] /\ NothingElseSells'
  BY OrdersKept
<1>2. /\ pos' = Untracked \/ pos' \in PositionRecords(Nat)
      /\ exit' \in [st : {"none", "working", "sold", "short"}, ask : Nat]
      /\ ExitOfTracked'
  <2>1. CASE pos' = pos /\ exit' = exit  BY <2>1 DEF MonitorTypes, ExitOfTracked
  <2>2. CASE Reap
    BY <2>2 DEF Reap, ReapedPos, ReapedExit, NoExit, MonitorTypes, ExitOfTracked
  <2>3. CASE pos' = pos /\ pos # Untracked /\ exit' = Starts(pos.q)
    BY <2>3 DEF Starts, MonitorTypes, ExitOfTracked, PositionRecords
  <2> QED BY <2>1, <2>2, <2>3 DEF LoopTracks
<1>3. MonitorTypes'  BY <1>1, <1>2 DEF MonitorTypes
<1>4. DayAddsUp' /\ BuysKnown'  BY DEF DayAddsUp, BuysKnown
<1>5. HeldIsTracked'
  <2> SUFFICES ASSUME stage' # "ended", ~shared, buy = "none", net > 0 PROVE Tracks'
    BY DEF HeldIsTracked
  <2>1. Tracks  BY DEF HeldIsTracked, Running
  <2>2. CASE pos' = pos /\ exit' = exit  BY <2>1, <2>2 DEF Tracks
  <2>3. CASE Reap
    BY <2>1, <2>3 DEF Tracks, Reap, ReapedPos, ReapedExit, NoExit
  <2>4. CASE pos' = pos /\ pos # Untracked /\ pos.q > 0 /\ exit' = Starts(pos.q)
    BY <2>1, <2>4 DEF Tracks, Starts
  <2> QED BY <2>2, <2>3, <2>4 DEF LoopTracks
<1>6. EndedWithRc' /\ EndsClean'  BY StillRuns
<1> QED BY <1>1, <1>2, <1>3, <1>4, <1>5, <1>6

\* The changes that a read makes to a tracked position
LEMMA PositionChanges ==
  ASSUME NEW Q, NEW a \in Q, NEW n \in Q, NEW open \in BOOLEAN
  PROVE  /\ [Untracked EXCEPT !.q = a, !.seen = n, !.pending = open] \in PositionRecords(Q)
         /\ \A p \in PositionRecords(Q) :
              /\ [p EXCEPT !.q = a] \in PositionRecords(Q)
              /\ [[p EXCEPT !.q = a, !.pending = open] EXCEPT !.zero = 0, !.seen = n]
                   \in PositionRecords(Q)
              /\ ~(p.zero + 1 >= 2) =>
                   [[p EXCEPT !.q = a, !.pending = open] EXCEPT !.zero = @ + 1]
                     \in PositionRecords(Q)
<1>1. [Untracked EXCEPT !.q = a, !.seen = n, !.pending = open] \in PositionRecords(Q)
  <2> DEFINE u == Untracked
  <2>1. u \in [q : Int, zero : 0 .. 1, seen : Nat, pending : BOOLEAN]  BY DEF Untracked
  <2> HIDE DEF u
  <2>2. [u EXCEPT !.q = a, !.seen = n, !.pending = open] \in PositionRecords(Q)
    BY <2>1 DEF PositionRecords
  <2> QED BY <2>2 DEF u
<1>2. ASSUME NEW p \in PositionRecords(Q)
      PROVE  /\ [p EXCEPT !.q = a] \in PositionRecords(Q)
             /\ [[p EXCEPT !.q = a, !.pending = open] EXCEPT !.zero = 0, !.seen = n]
                  \in PositionRecords(Q)
             /\ ~(p.zero + 1 >= 2) =>
                  [[p EXCEPT !.q = a, !.pending = open] EXCEPT !.zero = @ + 1]
                    \in PositionRecords(Q)
  <2> DEFINE c == [p EXCEPT !.q = a, !.pending = open]
  <2>1. [p EXCEPT !.q = a] \in PositionRecords(Q) /\ c \in PositionRecords(Q)
    BY DEF PositionRecords
  <2>2. c.zero = p.zero  BY DEF PositionRecords
  <2> HIDE DEF c
  <2>3. 0 \in 0 .. 1  OBVIOUS
  <2>4. [c EXCEPT !.zero = 0, !.seen = n] \in PositionRecords(Q)
    BY <2>1, <2>3 DEF PositionRecords
  <2>5. ASSUME ~(p.zero + 1 >= 2) PROVE [c EXCEPT !.zero = @ + 1] \in PositionRecords(Q)
    <3>1. c.zero + 1 \in 0 .. 1  BY <2>2, <2>5 DEF PositionRecords
    <3> QED BY <2>1, <3>1 DEF PositionRecords
  <2> QED BY <2>1, <2>4, <2>5 DEF c
<1> QED BY <1>1, <1>2

\* A resync keeps what is held tracked, if it can be seen
LEMMA ReadKeeps ==
  ASSUME MonitorInv, MonitorOneWrongRead, Running, Read
  PROVE  MonitorInv'
<1> USE DEF MonitorInv, brokerVars
<1>1. PICK b \in {Book, Unreadable}, r \in {positions, WithoutRow} : ReadAs(b, r)
  BY DEF Read
<1>2. /\ UNCHANGED <<brokerVars, sellOrder, buy, exit, known, rc, shared>>
      /\ Reading(b, r)
      /\ pos' = LET kept == IF pos = Untracked \/ exit.st # "none" THEN pos
                            ELSE Resynced(pos, b, r)
                IN  IF kept = Untracked THEN Adopted(b, r) ELSE kept
  BY <1>1 DEF ReadAs
<1>3. Adopted(b, r) = Untracked \/ Adopted(b, r) \in PositionRecords(Nat)
  <2>1. b.sold \in Nat /\ r.net \in Nat /\ SellableBy(b, r) \in Nat  BY ReadSays
  <2> DEFINE m == IF b.error THEN r.net ELSE SellableBy(b, r)
             open == b.own + b.foreign > 0
  <2>2. m \in Nat  BY <2>1
  <2>3. open \in BOOLEAN  OBVIOUS
  <2>4. \/ Adopted(b, r) = Untracked
        \/ Adopted(b, r) = [Untracked EXCEPT !.q = m, !.seen = b.sold, !.pending = open]
    BY Zenon DEF Adopted
  <2> HIDE DEF m, open
  <2>5. [Untracked EXCEPT !.q = m, !.seen = b.sold, !.pending = open] \in PositionRecords(Nat)
    BY <2>1, <2>2, <2>3, PositionChanges
  <2> QED BY <2>4, <2>5
<1>4. ASSUME pos # Untracked, exit.st = "none"
      PROVE  Resynced(pos, b, r) = Untracked \/ Resynced(pos, b, r) \in PositionRecords(Nat)
  <2>1. b.sold \in Nat /\ r.net \in Nat /\ SellableBy(b, r) \in Nat  BY ReadSays
  <2>2. pos \in PositionRecords(Nat)  BY <1>4 DEF MonitorTypes
  <2> DEFINE m == Min({pos.q, r.net})
             n == Max({pos.seen, b.sold})
             open == b.own + b.foreign > 0
  <2>3. m \in Nat /\ n \in Nat  BY <2>1, <2>2, MinOfTwo, MaxOfTwo DEF PositionRecords
  <2>4. Resynced(pos, b, r) \in
          {Untracked, [pos EXCEPT !.q = m],
           [[pos EXCEPT !.q = SellableBy(b, r), !.pending = open] EXCEPT !.zero = 0, !.seen = n]}
        \/ /\ ~(pos.zero + 1 >= 2)
           /\ Resynced(pos, b, r)
                = [[pos EXCEPT !.q = SellableBy(b, r), !.pending = open] EXCEPT !.zero = @ + 1]
    BY Zenon DEF Resynced
  <2>5. open \in BOOLEAN  OBVIOUS
  <2> HIDE DEF m, n, open
  <2> DEFINE k == SellableBy(b, r)
             Refreshed == [pos EXCEPT !.q = k, !.pending = open]
  <2>6. k \in Nat  BY <2>1
  <2>7. [pos EXCEPT !.q = m] \in PositionRecords(Nat)  BY <2>2, <2>3, <2>5, PositionChanges
  <2>8. /\ [Refreshed EXCEPT !.zero = 0, !.seen = n] \in PositionRecords(Nat)
        /\ ~(pos.zero + 1 >= 2) => [Refreshed EXCEPT !.zero = @ + 1] \in PositionRecords(Nat)
    <3> HIDE DEF k
    <3> QED BY <2>2, <2>3, <2>5, <2>6, PositionChanges
  <2> QED BY <2>4, <2>7, <2>8, Zenon
<1>5. pos' = Untracked \/ pos' \in PositionRecords(Nat)
  BY <1>2, <1>3, <1>4 DEF MonitorTypes
<1>6. wrong' \in Nat  BY <1>2 DEF Reading, MonitorTypes
<1>7. MonitorTypes' /\ DayAddsUp' /\ BuysKnown' /\ NothingElseSells'
  BY <1>2, <1>5, <1>6 DEF MonitorTypes, DayAddsUp, BuysKnown, NothingElseSells
<1>8. ExitOfTracked'  BY <1>2 DEF ExitOfTracked
<1>9. HeldIsTracked'
  BY <1>1, <1>2, ReadTracks DEF HeldIsTracked, Running
<1>10. EndedWithRc' /\ EndsClean'  BY <1>2, StillRuns
<1> QED BY <1>7, <1>8, <1>9, <1>10

\* What the final read finds: a position still held is reported as left
LEMMA FinalFinds ==
  ASSUME MonitorInv, MonitorOneWrongRead, stage = "final",
         NEW b \in {Book, Unreadable}, NEW r \in {positions, WithoutRow},
         Reading(b, r), ~LeftBy(b, r), ~Unconfirmed
  PROVE  (net = 0 /\ buy # "open") \/ (wrong' > 0 /\ shared)
<1> USE DEF MonitorInv
<1>1. buy \in {"none", "final"}  BY DEF Unconfirmed, BuyUnresolved, MonitorTypes
<1> SUFFICES ASSUME net > 0 PROVE wrong' > 0 /\ shared
  BY <1>1 DEF MonitorTypes
<1>2. /\ b.error \in BOOLEAN /\ b.sold \in Nat
      /\ r \in [net : Nat, sold : Nat, bought : Nat]
      /\ HeldBy(b, r) = IF b.error \/ b.sold <= r.sold THEN r.net ELSE r.net - (b.sold - r.sold)
      /\ HeldBy(b, r) \in Int
      /\ UnshownBuys(b, r) <=> known > b.sold /\ known > r.bought /\ known > r.net + r.sold
  BY ReadSays
<1>3. ~(HeldBy(b, r) > 0) /\ ~UnshownBuys(b, r)  BY DEF LeftBy
<1>4. (b.error => b.sold = 0) /\ (~b.error => b.sold = soldToday)
  BY DEF Book, Unreadable
<1>5. /\ positions.net \in Nat /\ positions.sold \in Nat /\ positions.bought \in Nat
      /\ net \in Nat /\ soldToday \in Nat /\ boughtToday \in Nat /\ known \in Nat
      /\ net + soldToday = boughtToday
      /\ positions.net + positions.sold = positions.bought
      /\ positions.sold <= soldToday /\ positions.bought <= boughtToday
  BY DEF MonitorTypes, DayAddsUp
<1>6. buy = "final" => known = boughtToday  BY DEF BuysKnown
<1>7. buy = "none" => positions.bought = boughtToday  BY DEF BuysKnown
<1>8. r # positions
  <2> SUFFICES ASSUME r = positions PROVE FALSE  OBVIOUS
  <2>1. HeldBy(b, r) = IF b.error \/ b.sold <= positions.sold THEN positions.net
                       ELSE positions.net - (b.sold - positions.sold)
    BY <1>2
  <2>3. positions.bought <= soldToday
    <3>1. CASE b.error \/ b.sold <= positions.sold
      <4>1. positions.net = 0  BY ONLY <1>3, <1>5, <2>1, <3>1
      <4> QED BY ONLY <1>5, <4>1
    <3>2. CASE ~b.error /\ ~(b.sold <= positions.sold)
      <4>1. positions.net - (soldToday - positions.sold) <= 0
        BY ONLY <1>2, <1>3, <1>4, <1>5, <2>1, <3>2
      <4> QED BY ONLY <1>5, <4>1
    <3> QED BY <3>1, <3>2
  <2>4. positions.bought < boughtToday  BY ONLY <1>5, <2>3, net > 0
  <2>5. known = boughtToday  BY ONLY <1>1, <1>6, <1>7, <2>4, <1>5
  <2>6. known > b.sold  BY ONLY <1>2, <1>4, <1>5, <2>5, net > 0
  <2>7. ~(known > positions.bought /\ known > positions.net + positions.sold)
    BY <1>2, <1>3, <2>6
  <2> QED BY ONLY <1>5, <2>4, <2>5, <2>7
<1>9. r = WithoutRow /\ wrong = 0 /\ wrong' = 1
  <2>1. wrong \in Nat /\ MaxWrong \in Nat /\ MaxWrong <= 1
    BY MaxWrongAssumption DEF MonitorTypes, MonitorOneWrongRead
  <2>2. wrong < MaxWrong /\ wrong' = wrong + 1 => wrong = 0 /\ wrong' = 1  BY ONLY <2>1
  <2> QED BY <1>8, <2>2 DEF Reading
<1>10. shared
  <2> SUFFICES ASSUME ~shared PROVE FALSE  OBVIOUS
  <2>1. r.net = 0 /\ r.sold = 0 /\ r.bought = 0  BY <1>9 DEF WithoutRow
  <2>2. CASE buy = "final"
    <3>1. known = boughtToday /\ boughtToday > b.sold /\ boughtToday > 0
      BY ONLY <1>2, <1>4, <1>5, <1>6, <2>2, net > 0
    <3>2. UnshownBuys(b, r)  BY <1>2, <2>1, <3>1
    <3> QED BY <1>3, <3>2
  <2>3. CASE buy = "none"
    <3>1. Tracks  BY <2>3 DEF HeldIsTracked
    <3>2. pos # Untracked /\ pos.seen = soldToday /\ pos.q = net
      BY <1>9, <3>1 DEF Tracks
    <3>3. ~SoldSince(pos, b)
      <4>1. ~(b.sold - pos.seen > 0)  BY ONLY <1>2, <1>4, <1>5, <3>2
      <4> QED BY <4>1 DEF SoldSince
    <3> QED BY <3>2, <3>3 DEF LeftBy
  <2> QED BY <1>1, <2>2, <2>3
<1> QED BY <1>9, <1>10

\* The monitor's last step
LEMMA FinalKeeps ==
  ASSUME MonitorInv, MonitorOneWrongRead, FinalState
  PROVE  MonitorInv'
<1> USE DEF MonitorInv, brokerVars
<1>1. /\ UNCHANGED <<brokerVars, sellOrder, buy, pos, exit, known, shared>>
      /\ stage = "final" /\ stage' = "ended"
  BY DEF FinalState, envVars, knowVars
<1>2. PICK b \in {Book, Unreadable}, r \in {positions, WithoutRow} :
         \/ /\ Reading(b, r)
            /\ rc' = IF LeftBy(b, r) \/ Unconfirmed THEN "left" ELSE "ok"
         \/ wrong' = wrong /\ blind'
  BY DEF FinalState
<1>3. wrong' \in Nat  BY <1>2 DEF Reading, MonitorTypes
<1>4. /\ MonitorTypes' /\ ExitOfTracked' /\ DayAddsUp' /\ BuysKnown' /\ NothingElseSells'
      /\ HeldIsTracked' /\ EndedWithRc'
  BY <1>1, <1>3 DEF MonitorTypes, ExitOfTracked, DayAddsUp, BuysKnown, NothingElseSells,
                    HeldIsTracked, EndedWithRc
<1>5. EndsClean'
  <2>1. CASE blind'  BY <2>1 DEF EndsClean
  <2>2. CASE /\ Reading(b, r)
             /\ rc' = IF LeftBy(b, r) \/ Unconfirmed THEN "left" ELSE "ok"
    <3> SUFFICES ASSUME rc' = "ok"
                 PROVE  (net' = 0 /\ buy' # "open") \/ (wrong' > 0 /\ shared')
      BY DEF EndsClean
    <3>1. ~LeftBy(b, r) /\ ~Unconfirmed  BY <2>2
    <3>2. (net = 0 /\ buy # "open") \/ (wrong' > 0 /\ shared)
      BY <1>1, <2>2, <3>1, FinalFinds
    <3> QED BY <1>1, <3>2
  <2> QED BY <1>2, <2>1, <2>2
<1> QED BY <1>4, <1>5

\* Every step of the loop, and of the others
LEMMA LoopKeeps ==
  ASSUME MonitorInv, MonitorOneWrongRead, Running, Loop
  PROVE  MonitorInv'
<1> USE DEF envVars, knowVars, ghostVars
<1>1. CASE Start
  <2>1. /\ LoopTracks /\ LoopOrders
        /\ UNCHANGED <<brokerVars, buy, known, wrong, shared, rc>>
    BY <1>1 DEF Start, LoopTracks, LoopOrders
  <2>2. stage' = "first"  BY <1>1 DEF Start, BeginResync
  <2> QED BY <2>1, <2>2, LoopStepKeeps
<1>2. CASE Read  BY <1>2, ReadKeeps
<1>3. CASE ReadFails
  <2>1. CASE stage = "first"
    <3>1. /\ UNCHANGED <<brokerVars, sellOrder, buy, pos, exit, known, shared, wrong>>
          /\ stage' = "ended" /\ rc' = "error"
      BY <1>3, <2>1 DEF ReadFails
    <3> QED BY <3>1 DEF MonitorInv, brokerVars, MonitorTypes, ExitOfTracked, DayAddsUp, BuysKnown,
                        NothingElseSells, HeldIsTracked, EndedWithRc, EndsClean
  <2>2. CASE stage # "first"
    <3>1. LoopTracks /\ LoopOrders  BY <1>3 DEF ReadFails, LoopTracks, LoopOrders
    <3>2. stage \notin {"start", "first"}  BY <1>3, <2>2 DEF ReadFails, AfterResync
    <3>3. UNCHANGED <<brokerVars, buy, known, wrong, shared, rc>>  BY <1>3, <2>2 DEF ReadFails
    <3> QED BY <3>1, <3>2, <3>3, LoopStepKeeps
  <2> QED BY <2>1, <2>2
<1>4. ASSUME LoopEnds \/ LoopConfirms \/ LoopDone \/ LoopResyncs \/ LoopChecks PROVE MonitorInv'
  <2>1. Reap /\ stage \notin {"start", "first"}
    BY <1>4 DEF LoopEnds, LoopConfirms, LoopDone, LoopResyncs, LoopChecks, Goes
  <2>2. UNCHANGED <<brokerVars, buy, known, wrong, shared, rc>>
    BY <1>4 DEF LoopEnds, LoopConfirms, LoopDone, LoopResyncs, LoopChecks
  <2>3. LoopOrders
    BY <1>4 DEF LoopOrders, LoopEnds, LoopConfirms, LoopDone, LoopResyncs, LoopChecks
  <2> QED BY <2>1, <2>2, <2>3, LoopStepKeeps DEF LoopTracks
<1>5. ASSUME CheckSells \/ Holds \/ ShutdownSells PROVE MonitorInv'
  <2>1. /\ LoopTracks /\ LoopOrders /\ stage \notin {"start", "first"}
        /\ UNCHANGED <<brokerVars, buy, known, wrong, shared, rc>>
    BY <1>5 DEF LoopTracks, LoopOrders, CheckSells, MaySell, Holds, ShutdownSells
  <2> QED BY <2>1, LoopStepKeeps
<1>6. ASSUME Settles \/ ShutdownSold PROVE MonitorInv'
  <2>1. Reap /\ stage \notin {"start", "first"}  BY <1>6 DEF Settles, ShutdownSold
  <2>2. UNCHANGED <<brokerVars, buy, known, wrong, shared, rc>>
    BY <1>6 DEF Settles, ShutdownSold
  <2>3. LoopOrders
    BY <1>6 DEF LoopOrders, Settles, ShutdownSold
  <2> QED BY <2>1, <2>2, <2>3, LoopStepKeeps DEF LoopTracks
<1>7. CASE Abandons
  <2>1. /\ UNCHANGED <<brokerVars, buy, pos, known, rc, wrong>>
        /\ exit' = NoExit /\ shared' /\ exit.st = "working"
        /\ UNCHANGED sellOrder \/ Leaves(exit.ask, net)
    BY <1>7 DEF Abandons
  <2>2. sellOrder' \in [SellIds -> [by : Workers, open : Nat]]
    BY <2>1 DEF Leaves, MonitorInv, MonitorTypes, Workers
  <2>3. MonitorTypes'
    BY <2>1, <2>2 DEF MonitorInv, MonitorTypes, brokerVars, NoExit
  <2>4. /\ ExitOfTracked' /\ DayAddsUp' /\ BuysKnown' /\ NothingElseSells' /\ HeldIsTracked'
    BY <2>1 DEF MonitorInv, brokerVars, ExitOfTracked, DayAddsUp, BuysKnown, NothingElseSells,
                HeldIsTracked, NoExit
  <2>5. EndedWithRc' /\ EndsClean'  BY <2>1, StillRuns
  <2> QED BY <2>3, <2>4, <2>5 DEF MonitorInv
<1>8. CASE FinalState  BY <1>8, FinalKeeps
<1> QED BY <1>1, <1>2, <1>3, <1>4, <1>5, <1>6, <1>7, <1>8 DEF Loop

\* Every step keeps the invariant
LEMMA MonitorStepKeeps ==
  ASSUME MonitorOneWrongRead, MonitorInv, [MonitorNext]_monitorVars
  PROVE  MonitorInv'
<1>1. CASE Running /\ Broker  BY <1>1, BrokerKeeps
<1>2. CASE Running /\ Task  BY <1>2, TaskKeeps
<1>3. CASE Running /\ Loop  BY <1>3, LoopKeeps
<1>4. ASSUME /\ UNCHANGED <<brokerVars, sellOrder, buy, stage, standalone, pos, exit, known, rc>>
             /\ UNCHANGED <<wrong, blind, shared>>
      PROVE  MonitorInv'
  BY <1>4 DEF MonitorInv, brokerVars, MonitorTypes, ExitOfTracked, DayAddsUp, BuysKnown,
              NothingElseSells, HeldIsTracked, Tracks, EndedWithRc, EndsClean
<1>5. CASE Passes  BY <1>4, <1>5 DEF Passes, knowVars, ghostVars
<1>6. CASE Stops  BY <1>4, <1>6 DEF Stops, knowVars, ghostVars
<1>7. CASE UNCHANGED monitorVars
  BY <1>4, <1>7 DEF monitorVars, envVars, knowVars, ghostVars
<1> QED BY <1>1, <1>2, <1>3, <1>5, <1>6, <1>7 DEF MonitorNext

\* The invariant holds, if a wrong read is the first in a row
THEOREM MonitorInvariant == ASSUME MonitorOneWrongRead PROVE MonitorSpec => []MonitorInv
<1>1. MonitorInit => MonitorInv  BY MonitorInitInv
<1>2. MonitorInv /\ [MonitorNext]_monitorVars => MonitorInv'
  BY MonitorStepKeeps
<1> QED BY <1>1, <1>2, PTL DEF MonitorSpec

\* rc 0 of `skopaq monitor` (_final_state): nothing is held and no BUY can fill any more, unless
\* the last read failed, or is the wrong one after more than its own exit has been selling
THEOREM EndedClean == ASSUME MonitorOneWrongRead PROVE MonitorSpec => []EndsClean
<1>1. MonitorInv => EndsClean  BY DEF MonitorInv
<1> QED BY <1>1, MonitorInvariant, PTL

\* A step that drops a position still held does so on a second empty read
LEMMA DropNeedsTwo ==
  ASSUME MonitorInv, MonitorNext, pos # Untracked, pos' = Untracked, stage # stage',
         exit.st = "none", net > 0, ~shared
  PROVE  pos.zero = 1
<1> USE DEF MonitorInv
<1>1. Read
  <2>1. ~(Broker \/ Passes \/ Stops \/ Task)
    BY DEF Broker, ForeignSells, BuyEnds, CatchesUp, Trades, Other, Passes, Stops, Task, ExitEnds,
           ResumeBuyEnds, ResumeEnds
  <2>2. Loop  BY <2>1 DEF MonitorNext
  <2>3. ~Reap  BY DEF Reap, ReapedPos
  <2> QED BY <2>2, <2>3 DEF Loop, Start, ReadFails, LoopEnds, LoopConfirms, LoopDone,
             LoopResyncs, LoopChecks, CheckSells, Holds, Settles, Abandons, ShutdownSells,
             ShutdownSold, FinalState
<1>2. PICK b \in {Book, Unreadable}, r \in {positions, WithoutRow} : ReadAs(b, r)
  BY <1>1 DEF Read
<1>3. pos' = LET kept == Resynced(pos, b, r)
             IN  IF kept = Untracked THEN Adopted(b, r) ELSE kept
  BY <1>2 DEF ReadAs
<1>4. Resynced(pos, b, r) = Untracked  BY <1>3
<1>5. pos \in PositionRecords(Nat)  BY DEF MonitorTypes
<1>6. ~SoldSince(pos, b)
  <2>1. b.sold \in Nat /\ b.sold <= soldToday
    BY DEF Book, Unreadable, MonitorTypes
  <2>2. pos.seen >= soldToday
    <3>1. CASE buy = "none"
      <4>1. Tracks  BY <3>1 DEF HeldIsTracked, MonitorNext, Running
      <4> QED BY <4>1, <1>5 DEF Tracks, PositionRecords, MonitorTypes
    <3>2. CASE buy # "none"
      <4>1. boughtToday <= 1  BY <3>2 DEF BuysKnown, MonitorTypes
      <4>2. soldToday = 0  BY <4>1 DEF DayAddsUp, MonitorTypes
      <4> QED BY <4>2, <1>5 DEF PositionRecords
    <3> QED BY <3>1, <3>2
  <2>3. soldToday \in Nat /\ pos.seen \in Nat  BY <1>5 DEF MonitorTypes, PositionRecords
  <2>4. ~(b.sold - pos.seen > 0)  BY ONLY <2>1, <2>2, <2>3
  <2> QED BY <2>4 DEF SoldSince
<1>7. pos.zero # 1 => Resynced(pos, b, r) # Untracked
  <2> SUFFICES ASSUME pos.zero # 1 PROVE Resynced(pos, b, r) # Untracked  OBVIOUS
  <2>1. ~(pos.zero + 1 >= 2) /\ pos.zero \in Nat  BY <1>5 DEF PositionRecords
  <2>2. b.sold \in Nat /\ r.net \in Nat /\ SellableBy(b, r) \in Nat  BY ReadSays
  <2>3. Resynced(pos, b, r).q \in Nat
    <3>1. Min({pos.q, r.net}) \in Nat  BY <1>5, <2>2, MinOfTwo DEF PositionRecords
    <3> QED BY <1>5, <1>6, <2>1, <2>2, <3>1 DEF Resynced, PositionRecords
  <2> QED BY <2>3 DEF Untracked
<1> QED BY <1>4, <1>7

\* A partial exit proves nothing about the rest: a position still held is dropped only on the
\* second empty read in a row, unless other SELLs have filled (sells_seen)
THEOREM OwnExitNoProof == ASSUME MonitorOneWrongRead PROVE MonitorSpec => OwnExitProvesNothing
<1>1. MonitorInv /\ [MonitorNext]_monitorVars =>
        [pos # Untracked /\ pos' = Untracked /\ stage # stage' /\ exit.st = "none" /\ net > 0 =>
           pos.zero = 1 \/ shared]_monitorVars
  BY DropNeedsTwo DEF monitorVars
<1> QED BY <1>1, MonitorInvariant, PTL DEF MonitorSpec, OwnExitProvesNothing

-----------------------------------------------------------------------------
(* PositionMonitor's types, without that assumption.                           *)

\* The largest holding, chosen as such, is one
LEMMA TopIsHeld ==
  ASSUME HeldAtStart # {}
  PROVE  Top \in HeldAtStart /\ \A g \in HeldAtStart : g <= Top
<1> DEFINE Tops(S) == {h \in S : \A g \in S : g <= h}
           C == {S \in SUBSET HeldAtStart : S # {} /\ Tops(S) = {}}
<1>1. C = {}
  <2> SUFFICES ASSUME C # {} PROVE FALSE  OBVIOUS
  <2>1. PICK S \in C : \A U \in C : U \subseteq S => U = S
    <3> HIDE DEF C
    <3>1. C \in SUBSET SUBSET HeldAtStart  BY DEF C
    <3>2. IsFiniteSet(HeldAtStart)  BY HeldAssumption
    <3> HIDE DEF Tops
    <3> QED BY ONLY <3>1, <3>2, C # {}, SmallestSubset
  <2>2. S \subseteq Nat /\ S # {} /\ Tops(S) = {}  BY HeldAssumption
  <2>3. PICK x \in S : TRUE  BY <2>2
  <2>4. S \ {x} # {}  BY <2>2, <2>3
  <2>5. S \ {x} \notin C  BY <2>1, <2>3
  <2>6. PICK h \in S \ {x} : \A g \in S \ {x} : g <= h  BY <2>4, <2>5
  <2>7. h \in Nat /\ x \in Nat  BY <2>2
  <2>8. CASE x <= h
    <3>1. \A g \in S : g <= h  BY <2>6, <2>8
    <3> QED BY <2>2, <2>6, <3>1
  <2>9. CASE h <= x
    <3>1. \A g \in S : g <= x  BY <2>2, <2>6, <2>7, <2>9
    <3> QED BY <2>2, <2>3, <3>1
  <2> QED BY <2>7, <2>8, <2>9
<1>2. Tops(HeldAtStart) # {}  BY <1>1
<1> QED BY <1>2 DEF Top

\* What the exit of the moment is known to have sold, it has sold
MonitorBounds ==
    /\ Top \in Nat
    /\ MonitorTypeOK /\ ExitOfTracked /\ DayAddsUp /\ BuysKnown
    /\ pos.seen <= soldToday

\* The bounds say more than the types the lemmas above need
LEMMA BoundsTypes == MonitorBounds => MonitorTypes
BY DEF MonitorBounds, MonitorTypeOK, DayQty, MonitorTypes, PositionRecords

\* The day begins within its bounds
LEMMA MonitorInitBounds == MonitorInit => MonitorBounds
<1> SUFFICES ASSUME MonitorInit PROVE MonitorBounds  OBVIOUS
<1>1. Top \in Nat /\ net \in Nat /\ net <= Top
  BY TopIsHeld, HeldAssumption DEF MonitorInit
<1>2. net \in DayQty /\ 0 \in DayQty /\ 1 \in DayQty  BY <1>1 DEF DayQty
<1>3. sellOrder \in [SellIds -> [by : Workers, open : DayQty]]
  BY <1>2 DEF MonitorInit, Workers
<1>4. known \in DayQty  BY <1>2 DEF MonitorInit
<1>5. wrong \in 0 .. MaxWrong  BY MaxWrongAssumption DEF MonitorInit
<1>6. shared \in BOOLEAN  BY DEF MonitorInit
<1>7. MonitorTypeOK
  BY <1>2, <1>3, <1>4, <1>5, <1>6 DEF MonitorInit, MonitorTypeOK, NoExit
<1>8. pos.seen <= soldToday  BY DEF MonitorInit, Untracked
<1> QED BY <1>1, <1>7, <1>8, MonitorInitInv DEF MonitorBounds, MonitorInv

\* Trades move shares, and a BUY adds the one there is room for
LEMMA BrokerBounds ==
  ASSUME MonitorBounds, Running, Broker
  PROVE  MonitorBounds'
<1> USE DEF MonitorBounds, envVars, knowVars, ghostVars
<1>1. CASE ForeignSells
  BY <1>1 DEF ForeignSells, MonitorTypeOK, DayQty, ExitOfTracked, DayAddsUp, BuysKnown, Untracked
<1>2. CASE BuyEnds
  BY <1>2 DEF BuyEnds, MonitorTypeOK, DayQty, ExitOfTracked, DayAddsUp, BuysKnown
<1>3. CASE CatchesUp
  BY <1>3 DEF CatchesUp, Truth, MonitorTypeOK, ExitOfTracked, DayAddsUp, BuysKnown, DayQty
<1>4. ASSUME NEW i \in SellIds, Trades(i) PROVE MonitorBounds'
  <2>1. sellOrder' \in [SellIds -> [by : Workers, open : DayQty]]
    BY <1>4 DEF Trades, MonitorTypeOK, DayQty
  <2> QED BY <1>4, <2>1 DEF Trades, MonitorTypeOK, DayQty, ExitOfTracked, DayAddsUp, BuysKnown,
                         Untracked
<1>5. ASSUME NEW i \in SellIds, Other(i) PROVE MonitorBounds'
  <2>1. sellOrder' \in [SellIds -> [by : Workers, open : DayQty]]
    BY <1>5 DEF Other, MonitorTypeOK, DayQty, Workers
  <2> QED BY <1>5, <2>1 DEF Other, brokerVars, MonitorTypeOK, ExitOfTracked, DayAddsUp, BuysKnown
<1> QED BY <1>1, <1>2, <1>3, <1>4, <1>5 DEF Broker

\* An order left open is within what is held
LEMMA LeavesTypes ==
  ASSUME MonitorBounds, NEW rest \in Nat, NEW held \in Nat, held <= net, Leaves(rest, held)
  PROVE  sellOrder' \in [SellIds -> [by : Workers, open : DayQty]]
<1>1. PICK i \in SellIds, open \in 0 .. rest :
         /\ open + OwnSellsOpen + foreign <= held
         /\ sellOrder' = [sellOrder EXCEPT ![i] = [by |-> "unresolved", open |-> open]]
  BY DEF Leaves
<1>2. OwnSellsOpen \in Nat /\ foreign \in Nat
  BY BoundsTypes, OwnSellsOpenNat DEF MonitorTypes
<1>3. open \in DayQty  BY <1>1, <1>2 DEF MonitorBounds, MonitorTypeOK, DayQty
<1> QED BY <1>1, <1>3 DEF MonitorBounds, MonitorTypeOK, Workers

\* An exit sells no more than is held, and reports no more than it sold
LEMMA TaskBounds ==
  ASSUME MonitorBounds, Running, Task
  PROVE  MonitorBounds'
<1> USE DEF MonitorBounds, envVars, knowVars, ghostVars
<1>1. ASSUME NEW f \in 0 .. exit.ask, ExitEnds(f) PROVE MonitorBounds'
  <2>1. /\ exit.st = "working" /\ f \in Nat /\ f <= exit.ask /\ exit.ask \in Nat
        /\ f + OwnSellsOpen + foreign <= net
        /\ net' = net - f /\ soldToday' = soldToday + f
    BY <1>1 DEF ExitEnds, MonitorTypeOK, DayQty
  <2>2. f <= net /\ net \in Nat /\ net - f \in Nat
    <3>1. OwnSellsOpen \in Nat /\ foreign \in Nat /\ net \in Nat
      BY BoundsTypes, OwnSellsOpenNat DEF MonitorTypes
    <3> QED BY ONLY <2>1, <3>1
  <2>3. /\ pos \in PositionRecords(DayQty)
        /\ pos # Untracked /\ pos.q = exit.ask
    BY <2>1 DEF ExitOfTracked, MonitorTypeOK, PositionRecords
  <2>4. PICK read \in 0 .. f, unclear \in BOOLEAN :
            /\ Reports(read, unclear)
            /\ unclear \/ UNCHANGED <<sellOrder, shared>>
            /\ unclear => shared' = TRUE /\ Leaves(exit.ask - f, net - f)
    <3>1. \/ Reports(f, FALSE) /\ UNCHANGED <<sellOrder, shared>>
          \/ /\ \E read \in 0 .. f : Reports(read, TRUE)
             /\ Leaves(exit.ask - f, net - f)
             /\ shared' = TRUE
      BY <1>1 DEF ExitEnds
    <3>2. f \in 0 .. f  BY <2>1
    <3> QED BY <3>1, <3>2, Zenon
  <2>5. sellOrder' \in [SellIds -> [by : Workers, open : DayQty]] /\ shared' \in BOOLEAN
    <3>1. exit.ask - f \in Nat /\ net - f <= net  BY <2>1, <2>2
    <3> QED BY <2>2, <2>4, <3>1, LeavesTypes DEF MonitorTypeOK
  <2>6. soldToday' \in DayQty /\ net' \in DayQty
    BY <2>1, <2>2 DEF MonitorTypeOK, DayQty, DayAddsUp
  <2> DEFINE x == pos.q - read
             y == pos.seen + read
             z == pos.pending \/ unclear
  <2>7. x \in DayQty /\ y \in DayQty /\ z \in BOOLEAN /\ y <= soldToday'
    <3>1. /\ pos.q \in Nat /\ pos.q <= Top + 1 /\ pos.seen \in Nat /\ pos.pending \in BOOLEAN
          /\ Top \in Nat /\ soldToday \in Nat /\ soldToday' \in Nat /\ soldToday' <= Top + 1
          /\ pos.seen <= soldToday /\ read \in Nat /\ read <= f
      BY <2>1, <2>3, <2>6 DEF DayQty, MonitorTypeOK, PositionRecords
    <3>2. x \in Nat /\ x <= Top + 1 /\ y \in Nat /\ y <= soldToday' /\ y <= Top + 1
      BY ONLY <2>1, <2>3, <3>1
    <3>3. z \in BOOLEAN  BY <3>1
    <3> QED BY ONLY <3>1, <3>2, <3>3 DEF DayQty
  <2>8. pos' = [pos EXCEPT !.q = x, !.seen = y, !.pending = z]
    BY <2>4 DEF Reports, CountedExit
  <2>9. /\ exit' = [st |-> IF read > 0 /\ read = exit.ask THEN "sold" ELSE "short", ask |-> 0]
        /\ 0 \in DayQty
    BY <2>4 DEF Reports, DayQty
  <2> HIDE DEF x, y, z
  <2>10. /\ pos' \in PositionRecords(DayQty)
         /\ pos'.seen <= soldToday'
    BY <2>3, <2>7, <2>8 DEF PositionRecords
  <2>11. MonitorTypeOK'
    BY <1>1, <2>5, <2>6, <2>9, <2>10 DEF ExitEnds, MonitorTypeOK, PositionRecords
  <2>12. ExitOfTracked'  BY <2>9 DEF ExitOfTracked
  <2>13. DayAddsUp' /\ BuysKnown'
    BY <1>1, <2>1, <2>2 DEF ExitEnds, DayAddsUp, BuysKnown, MonitorTypeOK, DayQty
  <2> QED BY <2>10, <2>11, <2>12, <2>13
<1>2. CASE ResumeBuyEnds
  <2>1. known' \in DayQty
    BY <1>2 DEF ResumeBuyEnds, BuysKnown, MonitorTypeOK, DayQty
  <2>2. BuysKnown'
    BY <1>2 DEF ResumeBuyEnds, BuyUnresolved, BuysKnown, MonitorTypeOK, DayQty, brokerVars
  <2> QED BY <1>2, <2>1, <2>2 DEF ResumeBuyEnds, brokerVars, MonitorTypeOK, ExitOfTracked, DayAddsUp
<1>3. ASSUME NEW i \in SellIds, ResumeEnds(i) PROVE MonitorBounds'
  <2>1. sellOrder' \in [SellIds -> [by : Workers, open : DayQty]]
    BY <1>3 DEF ResumeEnds, MonitorTypeOK, DayQty, Workers
  <2> QED BY <1>3, <2>1 DEF ResumeEnds, brokerVars, MonitorTypeOK, ExitOfTracked, DayAddsUp,
                         BuysKnown
<1> QED BY <1>1, <1>2, <1>3 DEF Task

\* What a read leaves tracked is no more than the day has had
LEMMA ReadBounds ==
  ASSUME MonitorBounds, Running, Read
  PROVE  MonitorBounds'
<1> USE DEF MonitorBounds
<1>1. PICK b \in {Book, Unreadable}, r \in {positions, WithoutRow} : ReadAs(b, r)
  BY DEF Read
<1>2. /\ UNCHANGED <<brokerVars, sellOrder, buy, envVars, exit, deferred, known, rc, blind, shared>>
      /\ AfterResync /\ Reading(b, r) /\ unshown' \in BOOLEAN
      /\ pos' = LET kept == IF pos = Untracked \/ exit.st # "none" THEN pos
                            ELSE Resynced(pos, b, r)
                IN  IF kept = Untracked THEN Adopted(b, r) ELSE kept
  BY <1>1 DEF ReadAs, UnshownBuys
<1>3. /\ b.error \in BOOLEAN /\ b.sold \in Nat /\ b.own \in Nat /\ b.foreign \in Nat
      /\ r \in [net : Nat, sold : Nat, bought : Nat]
      /\ HeldBy(b, r) = IF b.error \/ b.sold <= r.sold THEN r.net ELSE r.net - (b.sold - r.sold)
      /\ SellableBy(b, r) = IF HeldBy(b, r) - b.own - b.foreign > 0
                            THEN HeldBy(b, r) - b.own - b.foreign ELSE 0
      /\ SellableBy(b, r) \in Nat
  BY ReadSays, BoundsTypes
<1>4. b.sold <= soldToday /\ b.sold \in DayQty /\ r.net \in DayQty
  BY DEF Book, Unreadable, WithoutRow, MonitorTypeOK, DayQty
<1>5. SellableBy(b, r) \in DayQty
  <2>1. SellableBy(b, r) <= r.net  BY <1>3
  <2> QED BY <1>3, <1>4, <2>1 DEF DayQty
<1> DEFINE OK(p) == p = Untracked \/ (p \in PositionRecords(DayQty) /\ p.seen <= soldToday)
           k == SellableBy(b, r)
           open == b.own + b.foreign > 0
<1>6. open \in BOOLEAN /\ k \in DayQty  BY <1>5
<1> HIDE DEF k, open
<1>7. OK(Adopted(b, r))
  <2> DEFINE m == IF b.error THEN r.net ELSE k
  <2>1. m \in DayQty  BY <1>4, <1>6
  <2>2. \/ Adopted(b, r) = Untracked
        \/ Adopted(b, r) = [Untracked EXCEPT !.q = m, !.seen = b.sold, !.pending = open]
    BY Zenon DEF Adopted, k, open
  <2> HIDE DEF m
  <2> DEFINE p == [Untracked EXCEPT !.q = m, !.seen = b.sold, !.pending = open]
  <2>3. p \in PositionRecords(DayQty)  BY <1>4, <1>6, <2>1, PositionChanges
  <2>4. p.seen = b.sold  BY DEF Untracked
  <2> HIDE DEF p
  <2> QED BY <1>4, <2>2, <2>3, <2>4 DEF p
<1>8. ASSUME pos # Untracked, exit.st = "none" PROVE OK(Resynced(pos, b, r))
  <2> DEFINE m == Min({pos.q, r.net})
             n == Max({pos.seen, b.sold})
             Refreshed == [pos EXCEPT !.q = k, !.pending = open]
  <2>1. pos \in PositionRecords(DayQty) /\ pos.seen <= soldToday
    BY <1>8 DEF MonitorTypeOK, PositionRecords
  <2>2. m \in DayQty
    BY <1>4, <2>1, MinOfTwo DEF PositionRecords, DayQty
  <2>3. n \in DayQty /\ n <= soldToday
    BY <1>4, <2>1, MaxOfTwo DEF PositionRecords, DayQty
  <2>4. Resynced(pos, b, r) \in
          {Untracked, [pos EXCEPT !.q = m],
           [[pos EXCEPT !.q = k, !.pending = open] EXCEPT !.zero = 0, !.seen = n]}
        \/ /\ ~(pos.zero + 1 >= 2)
           /\ Resynced(pos, b, r) = [[pos EXCEPT !.q = k, !.pending = open] EXCEPT !.zero = @ + 1]
    BY Zenon DEF Resynced, k, open
  <2> HIDE DEF m, n
  <2>5. OK([pos EXCEPT !.q = m])
    <3>1. [pos EXCEPT !.q = m] \in PositionRecords(DayQty)
      BY <1>6, <2>1, <2>2, <2>3, PositionChanges
    <3>2. [pos EXCEPT !.q = m].seen = pos.seen  BY <2>1 DEF PositionRecords
    <3> QED BY <2>1, <3>1, <3>2
  <2>6. OK([Refreshed EXCEPT !.zero = 0, !.seen = n])
    <3>1. [Refreshed EXCEPT !.zero = 0, !.seen = n] \in PositionRecords(DayQty)
      BY <1>6, <2>1, <2>2, <2>3, PositionChanges
    <3>2. [Refreshed EXCEPT !.zero = 0, !.seen = n].seen = n  BY <2>1 DEF PositionRecords
    <3> QED BY <2>3, <3>1, <3>2
  <2>7. ~(pos.zero + 1 >= 2) => OK([Refreshed EXCEPT !.zero = @ + 1])
    <3>1. ~(pos.zero + 1 >= 2) => [Refreshed EXCEPT !.zero = @ + 1] \in PositionRecords(DayQty)
      BY <1>6, <2>1, <2>2, <2>3, PositionChanges
    <3>2. [Refreshed EXCEPT !.zero = @ + 1].seen = pos.seen  BY <2>1 DEF PositionRecords
    <3> QED BY <2>1, <3>1, <3>2
  <2> HIDE DEF OK
  <2>8. OK(Untracked)  BY DEF OK
  <2> QED BY <2>4, <2>5, <2>6, <2>7, <2>8
<1>9. pos' = Untracked \/ (pos' \in PositionRecords(DayQty) /\ pos'.seen <= soldToday)
  BY <1>2, <1>7, <1>8 DEF MonitorTypeOK, PositionRecords
<1>10. pos'.seen <= soldToday'
  BY <1>2, <1>9 DEF brokerVars, Untracked, MonitorTypeOK, DayQty
<1>11. wrong' \in 0 .. MaxWrong
  <2>1. wrong \in 0 .. MaxWrong /\ MaxWrong \in Nat  BY MaxWrongAssumption DEF MonitorTypeOK
  <2>2. wrong' = wrong \/ wrong' = 0 \/ (wrong < MaxWrong /\ wrong' = wrong + 1)
    BY <1>2 DEF Reading
  <2> QED BY ONLY <2>1, <2>2
<1>12. stage' \in {"top", "confirmed", "check", "shutting"}
  BY <1>2 DEF AfterResync
<1>13. MonitorTypeOK'
  BY <1>2, <1>9, <1>11, <1>12 DEF MonitorTypeOK, brokerVars, envVars, PositionRecords
<1>14. ExitOfTracked' /\ DayAddsUp' /\ BuysKnown'
  BY <1>2 DEF brokerVars, ExitOfTracked, DayAddsUp, BuysKnown
<1> QED BY <1>10, <1>13, <1>14


\* Other steps of the loop and of the clock leave the day's numbers alone
LEMMA LoopBounds ==
  ASSUME MonitorBounds, Running, Loop \/ Passes \/ Stops, ~Read
  PROVE  MonitorBounds'
<1> USE DEF MonitorBounds, envVars, knowVars, ghostVars
<1>1. /\ UNCHANGED <<brokerVars, buy, standalone, known, unshown>>
      /\ FinalState \/ wrong' = wrong
  BY DEF Loop, Passes, Stops, Start, ReadFails, LoopEnds, LoopConfirms, LoopDone, LoopResyncs,
         LoopChecks, CheckSells, Holds, Settles, Abandons, ShutdownSells, ShutdownSold, FinalState
<1>2. wrong' \in 0 .. MaxWrong
  <2>1. wrong \in 0 .. MaxWrong /\ MaxWrong \in Nat  BY MaxWrongAssumption DEF MonitorTypeOK
  <2>2. wrong' = wrong \/ wrong' = 0 \/ (wrong < MaxWrong /\ wrong' = wrong + 1)
    BY <1>1 DEF FinalState, Reading
  <2> QED BY ONLY <2>1, <2>2
<1>3. stop' \in BOOLEAN /\ clock' \in {"day", "eod", "last", "closed"}
  BY DEF MonitorTypeOK, Loop, Passes, Stops, Start, ReadFails, LoopEnds, LoopConfirms, LoopDone,
         LoopResyncs, LoopChecks, CheckSells, Holds, Settles, Abandons, ShutdownSells,
         ShutdownSold, FinalState
<1>4. rc' \in {"none", "ok", "left", "error"} /\ blind' \in BOOLEAN /\ shared' \in BOOLEAN
  BY DEF MonitorTypeOK, Loop, Passes, Stops, Start, ReadFails, LoopEnds, LoopConfirms, LoopDone,
         LoopResyncs, LoopChecks, CheckSells, Holds, Settles, Abandons, ShutdownSells,
         ShutdownSold, FinalState
<1>5. /\ stage' \in {"start", "first", "confirm", "due", "shutdown"} \cup
                    {"top", "confirmed", "check", "settle", "abandoned", "shutting", "selling",
                     "final", "ended"}
      /\ deferred' \in BOOLEAN
  BY DEF MonitorTypeOK, Loop, Passes, Stops, Start, ReadFails, LoopEnds, LoopConfirms, LoopDone,
         LoopResyncs, LoopChecks, CheckSells, Holds, Settles, Abandons, ShutdownSells,
         ShutdownSold, FinalState, BeginResync, AfterResync
<1>6. sellOrder' \in [SellIds -> [by : Workers, open : DayQty]]
  <2>1. CASE Abandons
    <3>1. UNCHANGED sellOrder \/ Leaves(exit.ask, net)  BY <2>1 DEF Abandons
    <3>2. exit.ask \in Nat /\ net \in Nat /\ net <= net  BY DEF MonitorTypeOK, DayQty
    <3> QED BY <3>1, <3>2, LeavesTypes DEF MonitorTypeOK
  <2>2. CASE ~Abandons
    <3>1. LoopOrders
      BY <2>2 DEF LoopOrders, Loop, Passes, Stops, Start, ReadFails, LoopEnds, LoopConfirms,
                  LoopDone, LoopResyncs, LoopChecks, CheckSells, Holds, Settles, ShutdownSells,
                  ShutdownSold, FinalState
    <3>2. ASSUME NEW w, BeginResync(w)
          PROVE  sellOrder' \in [SellIds -> [by : Workers, open : DayQty]]
      BY <3>2 DEF BeginResync, MonitorTypeOK, Workers
    <3> QED BY <3>1, <3>2 DEF LoopOrders, MonitorTypeOK
  <2> QED BY <2>1, <2>2
<1>7. LoopTracks \/ (pos' = pos /\ exit' = NoExit)
  BY DEF LoopTracks, Loop, Passes, Stops, Start, ReadFails, LoopEnds, LoopConfirms, LoopDone,
         LoopResyncs, LoopChecks, CheckSells, MaySell, Holds, Settles, Abandons, ShutdownSells,
         ShutdownSold, FinalState
<1>8. /\ pos' = pos \/ pos' = Untracked
      /\ exit' \in [st : {"none", "working", "sold", "short"}, ask : DayQty]
      /\ ExitOfTracked'
  <2>0. 0 \in DayQty  BY DEF DayQty
  <2>1. CASE pos' = pos /\ (exit' = exit \/ exit' = NoExit)
    BY <2>0, <2>1 DEF MonitorTypeOK, ExitOfTracked, NoExit
  <2>2. CASE Reap
    BY <2>0, <2>2 DEF Reap, ReapedPos, ReapedExit, NoExit, MonitorTypeOK, ExitOfTracked
  <2>3. CASE pos' = pos /\ pos # Untracked /\ exit' = Starts(pos.q)
    BY <2>3 DEF Starts, MonitorTypeOK, ExitOfTracked
  <2> QED BY <1>7, <2>1, <2>2, <2>3 DEF LoopTracks
<1>9. pos'.seen <= soldToday'
  BY <1>1, <1>8 DEF brokerVars, Untracked, MonitorTypeOK, DayQty
<1>10. MonitorTypeOK'
  BY <1>1, <1>2, <1>3, <1>4, <1>5, <1>6, <1>8 DEF MonitorTypeOK, brokerVars
<1>11. DayAddsUp' /\ BuysKnown'  BY <1>1 DEF brokerVars, DayAddsUp, BuysKnown
<1> QED BY <1>8, <1>9, <1>10, <1>11

\* Every variable keeps its type: what is held, sold, asked and seen (MonitoredPosition) stays
\* within the day's shares
THEOREM MonitorTypesKept == MonitorSpec => []MonitorTypeOK
<1>1. MonitorInit => MonitorBounds  BY MonitorInitBounds
<1>2. MonitorBounds /\ [MonitorNext]_monitorVars => MonitorBounds'
  <2> SUFFICES ASSUME MonitorBounds, [MonitorNext]_monitorVars PROVE MonitorBounds'
    OBVIOUS
  <2>1. CASE UNCHANGED monitorVars
    BY <2>1 DEF monitorVars, brokerVars, envVars, knowVars, ghostVars, MonitorBounds, MonitorTypeOK,
                ExitOfTracked, DayAddsUp, BuysKnown
  <2>2. CASE Running /\ Broker  BY <2>2, BrokerBounds
  <2>3. CASE Running /\ Task  BY <2>3, TaskBounds
  <2>4. CASE Running /\ Read  BY <2>4, ReadBounds
  <2>5. CASE Running /\ ~Read /\ (Loop \/ Passes \/ Stops)  BY <2>5, LoopBounds
  <2> QED BY <2>1, <2>2, <2>3, <2>4, <2>5 DEF MonitorNext
<1>3. MonitorBounds => MonitorTypeOK  BY DEF MonitorBounds
<1> QED BY <1>1, <1>2, <1>3, PTL DEF MonitorSpec

=====================================================================================
