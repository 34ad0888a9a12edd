-------------------------- MODULE LateFillBooking_proofs --------------------------
(***************************************************************************)
(* Proofs about LateFillBooking, for any processes, any quantity and any   *)
(* troubles: what the journal counts as booked has its trade rows; with    *)
(* nothing failing each share is booked once; once nobody will look at the *)
(* order again every share it traded is booked or named by an alert; and,  *)
(* while the journal can be written, every share booked twice was named.   *)
(***************************************************************************)
EXTENDS LateFillBooking, TLAPS

USE ProcsAssumption, RequestedAssumption, LockChoicesAssumption, TroublesAssumption

-----------------------------------------------------------------------------
(* The invariant. *)

\* The shares up to a total have their rows
Rows(total, rows) == \A s \in Shares : s <= total => rows[s] >= 1

\* What a process reports it has booked; but for one that lost the claim, which is finished
\* with the order and says no more
Sound(r, rows) ==
    /\ (r.pc = "idle" /\ r.fin) \/ Rows(r.rep, rows)
    /\ r.pc \in {"claim", "claimed", "line"} => r.fin
    /\ r.pc = "confirm" => Rows(r.upto, rows)

CountedInv == Rows(journal.booked, times) /\ \A p \in Procs : Sound(proc[p], times)

BInv == TypeOK /\ CountedInv

-----------------------------------------------------------------------------
(* Helpers. *)

\* The larger of two totals is one of them.
LEMMA LargerIs == \A a, b \in Total : Larger(a, b) \in Total /\ Larger(a, b) \in {a, b}
BY DEF Larger, Total

\* The shares between two totals are shares.
LEMMA SpanIs == \A a, b \in Total : Span(a, b) \subseteq Shares
BY DEF Span, Total, Shares

\* What is left of a process when its resume ends
Left(r) == [NewProc("idle", r.rep) EXCEPT !.fin = r.fin, !.unbookedAt = r.unbookedAt]

\* A process whose resume has ended keeps its report only.
LEMMA LeftIs ==
  ASSUME NEW r \in ProcStates
  PROVE  /\ Left(r) \in ProcStates
         /\ Left(r).pc = "idle" /\ Left(r).rep = r.rep /\ Left(r).fin = r.fin
         /\ ~Left(r).won /\ ~Left(r).background
<1> DEFINE new == NewProc("idle", r.rep)
<1>1. /\ new \in ProcStates /\ new.pc = "idle" /\ new.rep = r.rep
      /\ ~new.won /\ ~new.background
  BY DEF NewProc, ProcStates, PCs, Total
<1>2. r.fin \in BOOLEAN /\ r.unbookedAt \in Total \cup {Unknown}  BY DEF ProcStates
<1> DEFINE next == [new EXCEPT !.fin = r.fin, !.unbookedAt = r.unbookedAt]
<1>3. /\ next \in ProcStates /\ next.pc = "idle" /\ next.rep = r.rep /\ next.fin = r.fin
      /\ ~next.won /\ ~next.background
  <2> HIDE DEF new
  <2> QED  BY <1>1, <1>2 DEF ProcStates
<1>4. Left(r) = next  BY DEF Left
<1> QED  BY <1>3, <1>4

\* Whoever lets go of a lock leaves it well typed.
LEMMA UnlockedType == ASSUME TypeOK, NEW p \in Procs PROVE Unlocked(p) \in Procs \cup {None}
BY DEF TypeOK, Unlocked

\* One process goes on; rows are only added
LEMMA OneMoves ==
  ASSUME BInv, NEW p \in Procs, NEW r \in ProcStates, Set(p, r), Sound(r, times'),
         times' \in [Shares -> 0 .. 2], \A s \in Shares : times[s] >= 1 => times'[s] >= 1
  PROVE  /\ proc' \in [Procs -> ProcStates] /\ \A q \in Procs : Sound(proc'[q], times')
         /\ Rows(journal.booked, times')
<1>1. proc \in [Procs -> ProcStates]  BY DEF BInv, TypeOK
<1>2. /\ proc' \in [Procs -> ProcStates] /\ proc'[p] = r
      /\ \A q \in Procs \ {p} : proc'[q] = proc[q]
  BY <1>1 DEF Set
<1>3. \A n \in Total : Rows(n, times) => Rows(n, times')  BY DEF Rows
<1>4. ASSUME NEW q \in Procs PROVE proc[q].rep \in Total /\ proc[q].upto \in Total
  BY <1>1 DEF ProcStates
<1>5. \A q \in Procs \ {p} : Sound(proc[q], times')
  BY <1>3, <1>4 DEF BInv, CountedInv, Sound
<1>6. Rows(journal.booked, times')  BY <1>3 DEF BInv, CountedInv, TypeOK
<1> QED  BY <1>2, <1>5, <1>6

\* Nothing is counted at the start.
LEMMA InitCounted == Init => BInv
<1> SUFFICES ASSUME Init PROVE BInv  OBVIOUS
<1>1. PICK r \in 0 .. (Requested - 1) :
         /\ done = r
         /\ times = [s \in Shares |-> IF s <= r THEN 1 ELSE 0]
         /\ journal = [booked |-> r, pending |-> {}, final |-> "no", last |-> "open",
                       claimed |-> FALSE]
         /\ proc = [p \in Procs |-> IF p = First THEN NewProc("idle", r)
                                    ELSE NewProc("unborn", 0)]
  BY DEF Init
<1>2. r \in Total  BY DEF Total
<1>3. /\ NewProc("idle", r) \in ProcStates /\ NewProc("unborn", 0) \in ProcStates
      /\ Sound(NewProc("idle", r), times) /\ Sound(NewProc("unborn", 0), times)
  BY <1>1, <1>2 DEF NewProc, ProcStates, PCs, Total, Unknown, Sound, Rows, Shares
<1>4. TypeOK
  <2>1. times \in [Shares -> 0 .. 2] /\ proc \in [Procs -> ProcStates]  BY <1>1, <1>3
  <2>2. journal \in [booked : Total, pending : SUBSET Lines, final : {"no", "known", "unknown"},
                     last : {"open", "final"}, claimed : BOOLEAN]
    BY <1>1, <1>2
  <2> QED  BY <1>1, <1>2, <2>1, <2>2 DEF Init, TypeOK
<1>5. CountedInv  BY <1>1, <1>3 DEF CountedInv, Rows, Shares
<1> QED  BY <1>4, <1>5 DEF BInv

\* A resume that ends keeps what its process counts.
LEMMA OneLeaves ==
  ASSUME BInv, NEW p \in Procs, NEW r \in ProcStates, Leave(p, r), r.fin \/ Rows(r.rep, times'),
         times' \in [Shares -> 0 .. 2], \A s \in Shares : times[s] >= 1 => times'[s] >= 1
  PROVE  /\ proc' \in [Procs -> ProcStates] /\ \A q \in Procs : Sound(proc'[q], times')
         /\ Rows(journal.booked, times')
         /\ lock' \in Procs \cup {None}
<1>1. Set(p, Left(r)) /\ lock' = Unlocked(p)  BY DEF Leave, Left
<1>2. Sound(Left(r), times')  BY LeftIs DEF Sound
<1> HIDE DEF Left
<1> QED  BY <1>1, <1>2, LeftIs, OneMoves, UnlockedType DEF BInv

Journals == [booked : Total, pending : SUBSET Lines, final : {"no", "known", "unknown"},
             last : {"open", "final"}, claimed : BOOLEAN]

\* The journal has the fields that its lines give it.
LEMMA JournalTyped == TypeOK => journal \in Journals
BY DEF TypeOK, Journals

\* Lines are added, confirmed and reported to a journal; a total counts once its rows are there
LEMMA JournalIs ==
  ASSUME NEW j \in Journals
  PROVE  /\ \A line \in Lines : Pending(j, line) \in Journals /\ Pending(j, line).booked = j.booked
         /\ \A n \in Total : /\ Booked(j, n) \in Journals /\ Reported(j, n) \in Journals
                             /\ Booked(j, n).booked \in {j.booked, n}
                             /\ Reported(j, n).booked \in {j.booked, n}
<1>1. \A n \in Total : Larger(j.booked, n) \in Total /\ Larger(j.booked, n) \in {j.booked, n}
  BY LargerIs DEF Journals
<1>2. ASSUME NEW line \in Lines
      PROVE  Pending(j, line) \in Journals /\ Pending(j, line).booked = j.booked
  BY DEF Pending, Journals
<1>3. ASSUME NEW n \in Total
      PROVE  Booked(j, n) \in Journals /\ Booked(j, n).booked = Larger(j.booked, n)
  BY <1>1 DEF Booked, Journals
<1>4. ASSUME NEW n \in Total
      PROVE  Reported(j, n) \in Journals /\ Reported(j, n).booked = Larger(j.booked, n)
  BY <1>1 DEF Reported, Journals
<1> QED  BY <1>1, <1>2, <1>3, <1>4

-----------------------------------------------------------------------------
(* Every step keeps the invariant. *)

\* What the broker does, and a journal that fails, count nothing.
LEMMA BrokerSteps == ASSUME BInv, Trade \/ End \/ JournalFails PROVE BInv'
<1>1. TypeOK'
  <2>1. CASE Trade  BY <2>1 DEF Trade, BInv, TypeOK, Total, journalVars, alertVars
  <2>2. CASE End  BY <2>2 DEF End, BInv, TypeOK, journalVars, alertVars
  <2>3. CASE JournalFails
    BY <2>3 DEF JournalFails, Meets, BInv, TypeOK, brokerVars, alertVars
  <2> QED  BY <2>1, <2>2, <2>3
<1>2. UNCHANGED <<times, proc>> /\ journal' = journal
  BY DEF Trade, End, JournalFails, journalVars
<1>3. CountedInv'  BY <1>2 DEF BInv, CountedInv
<1> QED  BY <1>1, <1>3 DEF BInv

\* A process that starts counts what the journal says.
LEMMA BootStep == ASSUME BInv, NEW p \in Procs, Boot(p) PROVE BInv'
<1> DEFINE r == [proc[p] EXCEPT !.pc = "idle", !.rep = journal.booked]
<1>1. proc[p] \in ProcStates /\ journal.booked \in Total  BY DEF BInv, TypeOK
<1>2. r \in ProcStates /\ r.pc = "idle" /\ r.rep = journal.booked
  BY <1>1 DEF ProcStates, PCs
<1>3. Set(p, r) /\ UNCHANGED <<brokerVars, times, journalVars, lockable, lock, alertVars, trouble>>
  BY DEF Boot
<1> HIDE DEF r
<1>4. Sound(r, times')  BY <1>2, <1>3 DEF Sound, BInv, CountedInv
<1>5. /\ proc' \in [Procs -> ProcStates] /\ \A q \in Procs : Sound(proc'[q], times')
  BY <1>2, <1>3, <1>4, OneMoves DEF BInv, TypeOK
<1> QED  BY <1>3, <1>5 DEF BInv, TypeOK, CountedInv, brokerVars, journalVars, alertVars

\* A process that dies counts nothing any more.
LEMMA CrashStep == ASSUME BInv, NEW p \in Procs, Crash(p) PROVE BInv'
<1> DEFINE r == NewProc("dead", 0)
<1>1. r \in ProcStates /\ r.pc = "dead" /\ r.rep = 0
  BY DEF NewProc, ProcStates, PCs, Total, Unknown
<1>2. Set(p, r) /\ UNCHANGED <<brokerVars, times, journalVars, lockable, alertVars>>
  BY DEF Crash
<1> HIDE DEF r
<1>3. Sound(r, times')  BY <1>1 DEF Sound, Rows, Shares
<1>4. /\ proc' \in [Procs -> ProcStates] /\ \A q \in Procs : Sound(proc'[q], times')
  BY <1>1, <1>2, <1>3, OneMoves DEF BInv, TypeOK
<1>5. /\ lock' \in Procs \cup {None} /\ trouble' \subseteq Kinds \cup {"gap", "unknown"}
  BY UnlockedType DEF Crash, Meets, Kinds, BInv, TypeOK
<1> QED  BY <1>2, <1>4, <1>5 DEF BInv, TypeOK, CountedInv, brokerVars, journalVars, alertVars

\* A resume starts from the larger of its own count and the journal's.
LEMMA StartStep == ASSUME BInv, NEW p \in Procs, Start(p) PROVE BInv'
<1> DEFINE rep == Larger(proc[p].rep, journal.booked)
           synced == [proc[p] EXCEPT !.rep = rep]
           ended == [synced EXCEPT !.fin = TRUE]
           reads == [synced EXCEPT !.pc = "read1"]
<1>1. proc[p] \in ProcStates /\ journal.booked \in Total /\ proc[p].rep \in Total
  BY DEF BInv, TypeOK, ProcStates
<1>2. rep \in Total /\ Rows(rep, times)
  <2>1. Rows(proc[p].rep, times) /\ Rows(journal.booked, times)
    BY DEF BInv, CountedInv, Sound, Start
  <2> QED  BY <1>1, <2>1, LargerIs
<1>3. /\ ended \in ProcStates /\ ended.rep = rep /\ ended.pc = "idle"
      /\ reads \in ProcStates /\ reads.rep = rep /\ reads.pc = "read1"
  <2> HIDE DEF rep
  <2> QED  BY <1>1, <1>2 DEF ProcStates, PCs, Start
<1>4. (Set(p, ended) \/ Set(p, reads)) /\ UNCHANGED <<brokerVars, times, journalVars>>
  BY DEF Start
<1> HIDE DEF rep, synced, ended, reads
<1>5. Sound(ended, times') /\ Sound(reads, times')  BY <1>2, <1>3, <1>4 DEF Sound
<1>6. /\ proc' \in [Procs -> ProcStates] /\ \A q \in Procs : Sound(proc'[q], times')
  BY <1>3, <1>4, <1>5, OneMoves DEF BInv, TypeOK
<1>7. lock' \in Procs \cup {None}  BY DEF Start, BInv, TypeOK
<1>8. flagged' \subseteq Shares /\ keyed' \subseteq Total
  <2>1. \A l \in ToAlert : l.upto \in Total /\ Span(l.from, l.upto) \subseteq Shares
    BY SpanIs DEF ToAlert, BInv, TypeOK, Lines
  <2>2. CASE p \in lockable
    <3>1. UNION {Span(l.from, l.upto) : l \in ToAlert} \subseteq Shares  BY <2>1
    <3>2. {l.upto : l \in ToAlert} \subseteq Total  BY <2>1
    <3> QED  BY <2>2, <3>1, <3>2 DEF Start, Key, BInv, TypeOK
  <2> QED  BY <2>2 DEF Start, BInv, TypeOK, alertVars
<1> QED
  BY <1>4, <1>6, <1>7, <1>8 DEF Start, BInv, TypeOK, CountedInv, brokerVars, journalVars

\* Progress is booked: a booking line, and its writing
LEMMA BeginStep ==
  ASSUME BInv, NEW p \in Procs, NEW base \in Journals, base.booked = journal.booked
            \/ base.booked = proc[p].rep,
         NEW stage \in {"first", "second"}, NEW upto \in (0 .. done) \cup {Unknown},
         MayBookProgress(p, upto), Begin(p, base, stage, upto), proc[p].pc \in {"read1", "read2"},
         UNCHANGED <<brokerVars, times, writable, lockable, alertVars, trouble>>
  PROVE  BInv'
<1> DEFINE r == [proc[p] EXCEPT !.pc = "write", !.stage = stage, !.upto = upto]
           line == [from |-> proc[p].rep, upto |-> upto, fin |-> FALSE, locked |-> TRUE]
<1>1. proc[p] \in ProcStates /\ proc[p].rep \in Total /\ done \in Total /\ Sound(proc[p], times)
  BY DEF BInv, TypeOK, ProcStates, CountedInv
<1>2. upto \in Total  BY <1>1 DEF MayBookProgress, Unknown, Total
<1>3. r \in ProcStates /\ r.pc = "write" /\ r.rep = proc[p].rep
  BY <1>1, <1>2 DEF ProcStates, PCs
<1>4. line \in Lines  BY <1>1, <1>2 DEF Lines
<1>5. Set(p, r) /\ journal' = Pending(base, line) /\ lock' = lock  BY DEF Begin
<1> HIDE DEF r, line
<1>6. Sound(r, times')  BY <1>1, <1>3 DEF Sound, brokerVars
<1>7. /\ proc' \in [Procs -> ProcStates] /\ \A q \in Procs : Sound(proc'[q], times')
      /\ Rows(journal.booked, times')
  BY <1>3, <1>5, <1>6, OneMoves DEF BInv, TypeOK
<1>8. journal' \in Journals /\ Rows(journal'.booked, times')
  <2>1. Rows(proc[p].rep, times)  BY <1>1 DEF Sound
  <2> QED  BY <1>4, <1>5, <1>7, <2>1, JournalIs
<1> QED  BY <1>5, <1>7, <1>8 DEF BInv, TypeOK, CountedInv, brokerVars, alertVars, Journals

\* Progress is counted when it is about to be written.
LEMMA ReadOpenStep == ASSUME BInv, NEW p \in Procs, ReadOpen(p) PROVE BInv'
<1>1. PICK upto \in (0 .. done) \cup {Unknown} :
        \/ MayBookProgress(p, upto) /\ Begin(p, journal, "first", upto)
        \/ Set(p, [proc[p] EXCEPT !.pc = "read2"]) /\ UNCHANGED <<journal, lock>>
  BY DEF ReadOpen
<1>2. UNCHANGED <<brokerVars, times, writable, lockable, alertVars, trouble>>
  BY DEF ReadOpen
<1>3. CASE MayBookProgress(p, upto) /\ Begin(p, journal, "first", upto)
  BY <1>2, <1>3, BeginStep DEF ReadOpen, BInv, TypeOK, Journals
<1>4. CASE Set(p, [proc[p] EXCEPT !.pc = "read2"]) /\ UNCHANGED <<journal, lock>>
  <2> DEFINE r == [proc[p] EXCEPT !.pc = "read2"]
  <2>1. proc[p] \in ProcStates /\ Sound(proc[p], times)  BY DEF BInv, TypeOK, CountedInv
  <2>2. r \in ProcStates /\ r.pc = "read2" /\ r.rep = proc[p].rep
    BY <2>1 DEF ProcStates, PCs
  <2> HIDE DEF r
  <2>3. Sound(r, times')  BY <1>2, <2>1, <2>2 DEF Sound, ReadOpen
  <2>4. /\ proc' \in [Procs -> ProcStates] /\ \A q \in Procs : Sound(proc'[q], times')
    BY <1>2, <1>4, <2>2, <2>3, OneMoves DEF BInv, TypeOK, r
  <2> QED  BY <1>2, <1>4, <2>4 DEF BInv, TypeOK, CountedInv, brokerVars, alertVars
<1> QED  BY <1>1, <1>3, <1>4

\* An order that stays open is left with its progress.
LEMMA StuckStep == ASSUME BInv, NEW p \in Procs, Stuck(p) PROVE BInv'
<1> DEFINE after == IF writable THEN Reported(journal, proc[p].rep) ELSE journal
<1>1. PICK upto \in (0 .. done) \cup {Unknown} :
        \/ MayBookProgress(p, upto) /\ Begin(p, after, "second", upto)
        \/ Leave(p, proc[p]) /\ journal' = after
  BY DEF Stuck
<1>2. UNCHANGED <<brokerVars, times, writable, lockable, alertVars, trouble>>
  BY DEF Stuck
<1>3. /\ proc[p] \in ProcStates /\ journal \in Journals /\ proc[p].rep \in Total
      /\ proc[p].pc = "read2" /\ Rows(proc[p].rep, times) /\ Rows(journal.booked, times)
  BY DEF BInv, TypeOK, Journals, ProcStates, CountedInv, Sound, Stuck
<1>4. after \in Journals /\ after.booked \in {journal.booked, proc[p].rep}
  BY <1>3, JournalIs
<1> HIDE DEF after
<1>5. CASE MayBookProgress(p, upto) /\ Begin(p, after, "second", upto)
  BY <1>2, <1>3, <1>4, <1>5, BeginStep
<1>6. CASE Leave(p, proc[p]) /\ journal' = after
  <2>1. /\ proc' \in [Procs -> ProcStates] /\ \A q \in Procs : Sound(proc'[q], times')
        /\ lock' \in Procs \cup {None}
    BY <1>2, <1>3, <1>6, OneLeaves DEF BInv, TypeOK
  <2>2. Rows(journal'.booked, times')  BY <1>2, <1>3, <1>4, <1>6
  <2> QED
    BY <1>2, <1>4, <1>6, <2>1, <2>2 DEF BInv, TypeOK, CountedInv, brokerVars, alertVars, Journals
<1> QED  BY <1>1, <1>5, <1>6

\* A final order goes on to its claim, or is done.
LEMMA ReadFinalStep == ASSUME BInv, NEW p \in Procs, ReadFinal(p) PROVE BInv'
<1> DEFINE ended == [proc[p] EXCEPT !.fin = TRUE]
           claims == [proc[p] EXCEPT !.pc = "claim", !.fin = TRUE, !.upto = done,
                                     !.stage = "final"]
<1>1. /\ proc[p] \in ProcStates /\ done \in Total /\ Rows(proc[p].rep, times)
      /\ proc[p].pc \in {"read1", "read2"}
  BY DEF BInv, TypeOK, CountedInv, Sound, ReadFinal
<1>2. /\ ended \in ProcStates /\ ended.fin
      /\ claims \in ProcStates /\ claims.pc = "claim" /\ claims.fin /\ claims.rep = proc[p].rep
  BY <1>1 DEF ProcStates, PCs
<1>3. UNCHANGED <<brokerVars, times, writable, lockable, alertVars>>  BY DEF ReadFinal
<1>4. (Set(p, claims) /\ lock' = lock) \/ Leave(p, ended)  BY DEF ReadFinal
<1> HIDE DEF ended, claims
<1>5. Sound(claims, times')  BY <1>1, <1>2, <1>3 DEF Sound
<1>6. /\ proc' \in [Procs -> ProcStates] /\ \A q \in Procs : Sound(proc'[q], times')
      /\ lock' \in Procs \cup {None}
  <2>1. CASE Set(p, claims) /\ lock' = lock
    BY <1>2, <1>3, <1>5, <2>1, OneMoves DEF BInv, TypeOK
  <2>2. CASE Leave(p, ended)
    BY <1>2, <1>3, <2>2, OneLeaves DEF BInv, TypeOK
  <2> QED  BY <1>4, <2>1, <2>2
<1>7. journal' \in Journals /\ journal'.booked = journal.booked
  <2>1. PICK known \in BOOLEAN :
          journal' = IF ~writable THEN journal
                     ELSE [journal EXCEPT !.final = IF known THEN "known" ELSE "unknown",
                                           !.last = "final"]
    BY DEF ReadFinal
  <2>2. PICK how \in {"known", "unknown"} :
          journal' = journal \/ journal' = [journal EXCEPT !.final = how, !.last = "final"]
    BY <2>1
  <2>3. journal \in Journals  BY JournalTyped DEF BInv
  <2>4. CASE journal' = journal  BY <2>3, <2>4
  <2>5. CASE journal' = [journal EXCEPT !.final = how, !.last = "final"]
    BY <2>3, <2>5 DEF Journals
  <2> QED  BY <2>2, <2>4, <2>5
<1>8. trouble' \subseteq Kinds \cup {"gap", "unknown"}  BY DEF ReadFinal, BInv, TypeOK
<1> QED
  BY <1>3, <1>6, <1>7, <1>8 DEF BInv, TypeOK, CountedInv, brokerVars, alertVars, Journals

\* A claim is won or lost; neither counts a share.
LEMMA ClaimStep == ASSUME BInv, NEW p \in Procs, Claim(p) PROVE BInv'
<1> DEFINE r == [proc[p] EXCEPT !.pc = "claimed", !.won = ~journal.claimed]
<1>1. /\ proc[p] \in ProcStates /\ proc[p].pc = "claim" /\ Sound(proc[p], times)
      /\ journal \in Journals /\ journal.claimed \in BOOLEAN
  BY DEF BInv, TypeOK, CountedInv, Claim, Journals
<1>2. /\ r \in ProcStates /\ r.pc = "claimed" /\ r.fin = proc[p].fin /\ r.rep = proc[p].rep
  BY <1>1 DEF ProcStates, PCs
<1>3. UNCHANGED <<brokerVars, times, writable, lockable, keyed, trouble>>  BY DEF Claim
<1>4. \/ Set(p, r) /\ journal' = [journal EXCEPT !.claimed = TRUE] /\ UNCHANGED <<lock, flagged>>
      \/ /\ flagged' = flagged \cup Span(proc[p].rep, proc[p].upto)
         /\ Leave(p, proc[p]) /\ journal' = journal
  BY DEF Claim
<1> HIDE DEF r
<1>5. Sound(r, times')  BY <1>1, <1>2, <1>3 DEF Sound
<1>6. /\ proc' \in [Procs -> ProcStates] /\ \A q \in Procs : Sound(proc'[q], times')
      /\ lock' \in Procs \cup {None} /\ flagged' \subseteq Shares
      /\ journal' \in Journals /\ journal'.booked = journal.booked
  <2>1. CASE /\ Set(p, r) /\ journal' = [journal EXCEPT !.claimed = TRUE]
             /\ UNCHANGED <<lock, flagged>>
    <3>1. journal' \in Journals /\ journal'.booked = journal.booked
      BY <1>1, <2>1 DEF Journals
    <3> QED  BY <1>2, <1>3, <1>5, <2>1, <3>1, OneMoves DEF BInv, TypeOK
  <2>2. CASE /\ flagged' = flagged \cup Span(proc[p].rep, proc[p].upto)
             /\ Leave(p, proc[p]) /\ journal' = journal
    <3>1. proc[p].rep \in Total /\ proc[p].upto \in Total /\ proc[p].fin
      BY <1>1 DEF ProcStates, Sound
    <3> QED  BY <1>1, <1>3, <2>2, <3>1, OneLeaves, SpanIs DEF BInv, TypeOK
  <2> QED  BY <1>4, <2>1, <2>2
<1> QED  BY <1>3, <1>6 DEF BInv, TypeOK, CountedInv, brokerVars, Journals

\* The winner reads what is booked before it books the rest.
LEMMA ReadBookedStep == ASSUME BInv, NEW p \in Procs, ReadBooked(p) PROVE BInv'
<1> DEFINE from == Larger(proc[p].rep, journal.booked)
           loses == [proc[p] EXCEPT !.rep = proc[p].upto]
           booked == [proc[p] EXCEPT !.rep = from]
           writes == [proc[p] EXCEPT !.pc = "line", !.rep = from]
<1>1. /\ proc[p] \in ProcStates /\ proc[p].pc = "claimed" /\ proc[p].fin
      /\ proc[p].rep \in Total /\ proc[p].upto \in Total /\ journal.booked \in Total
      /\ Rows(proc[p].rep, times) /\ Rows(journal.booked, times)
  BY DEF BInv, TypeOK, CountedInv, Sound, ReadBooked, ProcStates
<1>2. from \in Total /\ Rows(from, times)  BY <1>1, LargerIs
<1>3. UNCHANGED <<brokerVars, times, journalVars, lockable, alertVars, trouble>>
  BY DEF ReadBooked
<1>4. Leave(p, loses) \/ Leave(p, booked) \/ (Set(p, writes) /\ lock' = lock)
  BY DEF ReadBooked
<1> HIDE DEF from
<1>5. /\ loses \in ProcStates /\ loses.fin /\ booked \in ProcStates /\ booked.fin
      /\ writes \in ProcStates /\ writes.pc = "line" /\ writes.fin /\ writes.rep = from
  BY <1>1, <1>2 DEF ProcStates, PCs
<1> HIDE DEF loses, booked, writes
<1>6. Sound(writes, times')  BY <1>2, <1>3, <1>5 DEF Sound
<1>7. /\ proc' \in [Procs -> ProcStates] /\ \A q \in Procs : Sound(proc'[q], times')
      /\ lock' \in Procs \cup {None}
  <2>1. CASE Leave(p, loses) \/ Leave(p, booked)
    BY <1>3, <1>5, <2>1, OneLeaves DEF BInv, TypeOK
  <2>2. CASE Set(p, writes) /\ lock' = lock
    BY <1>3, <1>5, <1>6, <2>2, OneMoves DEF BInv, TypeOK
  <2> QED  BY <1>4, <2>1, <2>2
<1> QED  BY <1>3, <1>7 DEF BInv, TypeOK, CountedInv, brokerVars, journalVars, alertVars

\* The booking line comes before the rows.
LEMMA WriteLineStep == ASSUME BInv, NEW p \in Procs, WriteLine(p) PROVE BInv'
<1> DEFINE r == [proc[p] EXCEPT !.pc = "write"]
           line == [from |-> proc[p].rep, upto |-> proc[p].upto, fin |-> TRUE,
                    locked |-> lock = p]
<1>1. proc[p] \in ProcStates /\ Sound(proc[p], times) /\ proc[p].pc = "line"
  BY DEF BInv, TypeOK, CountedInv, WriteLine
<1>2. r \in ProcStates /\ r.pc = "write" /\ r.rep = proc[p].rep
  BY <1>1 DEF ProcStates, PCs
<1>3. line \in Lines  BY <1>1 DEF Lines, ProcStates
<1>4. /\ Set(p, r)
      /\ UNCHANGED <<brokerVars, times, writable, lockable, lock, alertVars, trouble>>
      /\ journal' = Pending(journal, line) \/ journal' = journal
  BY DEF WriteLine
<1> HIDE DEF r, line
<1>5. Sound(r, times')  BY <1>1, <1>2, <1>4 DEF Sound
<1>6. /\ proc' \in [Procs -> ProcStates] /\ \A q \in Procs : Sound(proc'[q], times')
  BY <1>2, <1>4, <1>5, OneMoves DEF BInv, TypeOK
<1>7. journal' \in Journals /\ journal'.booked = journal.booked
  BY <1>3, <1>4, JournalIs DEF BInv, TypeOK, Journals
<1> QED  BY <1>4, <1>6, <1>7 DEF BInv, TypeOK, CountedInv, brokerVars, alertVars, Journals

\* Rows are added for the shares of a booking, and none is taken away
LEMMA RowsWrittenIs ==
  ASSUME BInv, NEW p \in Procs, proc[p].pc = "write"
  PROVE  /\ RowsWritten(p) \in [Shares -> 0 .. 2]
         /\ \A s \in Shares : times[s] >= 1 => RowsWritten(p)[s] >= 1
         /\ Rows(proc[p].upto, RowsWritten(p))
<1>1. times \in [Shares -> 0 .. 2] /\ Rows(proc[p].rep, times)
  BY DEF BInv, TypeOK, CountedInv, Sound
<1>2. proc[p].rep \in Total /\ proc[p].upto \in Total  BY DEF BInv, TypeOK, ProcStates
<1>3. RowsWritten(p) \in [Shares -> 0 .. 2]  BY <1>1 DEF RowsWritten, Twice
<1>4. \A s \in Shares : times[s] >= 1 => RowsWritten(p)[s] >= 1
  BY <1>1 DEF RowsWritten, Twice
<1>5. Rows(proc[p].upto, RowsWritten(p))
  BY <1>1, <1>2 DEF Rows, RowsWritten, Twice, Span, Shares, Total
<1> QED  BY <1>3, <1>4, <1>5

\* Rows written are not counted before their confirmation.
LEMMA WriteRowsStep == ASSUME BInv, NEW p \in Procs, WriteRows(p) PROVE BInv'
<1> DEFINE r == [proc[p] EXCEPT !.pc = "confirm"]
<1>1. proc[p] \in ProcStates /\ proc[p].pc = "write" /\ Rows(proc[p].rep, times)
  BY DEF BInv, TypeOK, CountedInv, Sound, WriteRows
<1>2. r \in ProcStates /\ r.pc = "confirm" /\ r.rep = proc[p].rep /\ r.upto = proc[p].upto
  BY <1>1 DEF ProcStates, PCs
<1>3. /\ Set(p, r) /\ times' = RowsWritten(p)
      /\ UNCHANGED <<brokerVars, journalVars, lockable, lock, alertVars, trouble>>
  BY DEF WriteRows
<1> HIDE DEF r
<1>4. Sound(r, times')
  BY <1>1, <1>2, <1>3, RowsWrittenIs DEF Sound, Rows
<1>5. /\ proc' \in [Procs -> ProcStates] /\ \A q \in Procs : Sound(proc'[q], times')
      /\ Rows(journal.booked, times') /\ times' \in [Shares -> 0 .. 2]
  BY <1>1, <1>2, <1>3, <1>4, RowsWrittenIs, OneMoves
<1> QED  BY <1>3, <1>5 DEF BInv, TypeOK, CountedInv, brokerVars, journalVars, alertVars

\* The await of a booking returns, or nobody awaits it
LEMMA OneReturns ==
  ASSUME BInv, NEW p \in Procs, NEW r \in ProcStates, Return(p, r), Rows(r.rep, times'),
         times' \in [Shares -> 0 .. 2], \A s \in Shares : times[s] >= 1 => times'[s] >= 1
  PROVE  /\ proc' \in [Procs -> ProcStates] /\ \A q \in Procs : Sound(proc'[q], times')
         /\ Rows(journal.booked, times')
         /\ lock' \in Procs \cup {None}
<1>1. CASE Leave(p, r)  BY <1>1, OneLeaves
<1>2. CASE Set(p, [r EXCEPT !.pc = "read2"]) /\ UNCHANGED lock
  <2> DEFINE next == [r EXCEPT !.pc = "read2"]
  <2>1. next \in ProcStates /\ next.pc = "read2" /\ next.rep = r.rep
    BY DEF ProcStates, PCs
  <2> HIDE DEF next
  <2>2. Sound(next, times')  BY <2>1 DEF Sound
  <2> QED  BY <1>2, <2>1, <2>2, OneMoves DEF next, BInv, TypeOK
<1> QED  BY <1>1, <1>2 DEF Return

\* Rows that were not written are not counted.
LEMMA WriteFailsStep == ASSUME BInv, NEW p \in Procs, WriteFails(p) PROVE BInv'
<1> DEFINE r == IF proc[p].stage = "final" THEN proc[p]
                ELSE [proc[p] EXCEPT !.unbookedAt = proc[p].upto]
<1>1. /\ proc[p] \in ProcStates /\ proc[p].pc = "write" /\ Rows(proc[p].rep, times)
      /\ proc[p].rep \in Total /\ proc[p].upto \in Total
  BY DEF BInv, TypeOK, CountedInv, Sound, WriteFails, ProcStates
<1>2. r \in ProcStates /\ r.rep = proc[p].rep
  BY <1>1 DEF ProcStates
<1>3. /\ Return(p, r) /\ times' \in {times, RowsWritten(p)}
      /\ flagged' = flagged \cup Span(proc[p].rep, proc[p].upto) /\ Key({proc[p].upto})
      /\ UNCHANGED <<brokerVars, journalVars, lockable>>
  BY DEF WriteFails
<1> HIDE DEF r
<1>4. /\ times' \in [Shares -> 0 .. 2] /\ \A s \in Shares : times[s] >= 1 => times'[s] >= 1
  BY <1>1, <1>3, RowsWrittenIs DEF BInv, TypeOK
<1>5. Rows(r.rep, times')  BY <1>1, <1>2, <1>4 DEF Rows
<1>6. /\ proc' \in [Procs -> ProcStates] /\ \A q \in Procs : Sound(proc'[q], times')
      /\ Rows(journal.booked, times') /\ lock' \in Procs \cup {None}
  BY <1>2, <1>3, <1>4, <1>5, OneReturns
<1>7. flagged' \subseteq Shares /\ keyed' \subseteq Total
  BY <1>1, <1>3, SpanIs DEF Key, BInv, TypeOK
<1>8. trouble' \subseteq Kinds \cup {"gap", "unknown"}
  BY DEF WriteFails, Kinds, BInv, TypeOK
<1> QED  BY <1>3, <1>4, <1>6, <1>7, <1>8 DEF BInv, TypeOK, CountedInv, brokerVars, journalVars

\* What is confirmed has its rows.
LEMMA ConfirmStep == ASSUME BInv, NEW p \in Procs, Confirm(p) PROVE BInv'
<1> DEFINE r == [proc[p] EXCEPT !.rep = proc[p].upto, !.unbookedAt = Unknown]
<1>1. /\ proc[p] \in ProcStates /\ Rows(proc[p].upto, times) /\ proc[p].upto \in Total
      /\ Rows(journal.booked, times) /\ journal \in Journals
  BY DEF BInv, TypeOK, CountedInv, Sound, Confirm, ProcStates, Journals
<1>2. r \in ProcStates /\ r.rep = proc[p].upto
  BY <1>1 DEF ProcStates
<1>3. /\ Return(p, r) /\ journal' \in {journal, Booked(journal, proc[p].upto)}
      /\ UNCHANGED <<brokerVars, times, writable, lockable, alertVars, trouble>>
  BY DEF Confirm
<1> HIDE DEF r
<1>4. /\ proc' \in [Procs -> ProcStates] /\ \A q \in Procs : Sound(proc'[q], times')
      /\ lock' \in Procs \cup {None}
  BY <1>1, <1>2, <1>3, OneReturns DEF BInv, TypeOK
<1>5. journal' \in Journals /\ Rows(journal'.booked, times')
  BY <1>1, <1>3, JournalIs
<1> QED  BY <1>3, <1>4, <1>5 DEF BInv, TypeOK, CountedInv, brokerVars, alertVars, Journals

\* A write that outlives its resume goes on.
LEMMA CutStep == ASSUME BInv, NEW p \in Procs, Cut(p) PROVE BInv'
<1> DEFINE r == [proc[p] EXCEPT !.background = TRUE]
<1>1. /\ proc[p] \in ProcStates /\ proc[p].pc \in {"read1", "read2", "write"}
      /\ Rows(proc[p].rep, times) /\ proc[p].rep \in Total
      /\ Rows(journal.booked, times) /\ journal \in Journals
  BY DEF BInv, TypeOK, CountedInv, Sound, Cut, ProcStates, Journals
<1>2. r \in ProcStates /\ r.pc = proc[p].pc /\ r.rep = proc[p].rep
  BY <1>1 DEF ProcStates
<1>3. /\ journal' \in {journal, Reported(journal, proc[p].rep)}
      /\ UNCHANGED <<brokerVars, times, writable, lockable, alertVars>>
      /\ \/ proc[p].pc = "write" /\ Set(p, r) /\ lock' = Unlocked(p)
         \/ Leave(p, proc[p])
  BY DEF Cut
<1> HIDE DEF r
<1>4. /\ proc' \in [Procs -> ProcStates] /\ \A q \in Procs : Sound(proc'[q], times')
      /\ lock' \in Procs \cup {None}
  <2>1. CASE proc[p].pc = "write" /\ Set(p, r) /\ lock' = Unlocked(p)
    <3>1. Sound(r, times')  BY <1>1, <1>2, <1>3, <2>1 DEF Sound
    <3> QED  BY <1>2, <1>3, <2>1, <3>1, OneMoves, UnlockedType DEF BInv, TypeOK
  <2>2. CASE Leave(p, proc[p])
    BY <1>1, <1>3, <2>2, OneLeaves DEF BInv, TypeOK
  <2> QED  BY <1>3, <2>1, <2>2
<1>5. journal' \in Journals /\ Rows(journal'.booked, times')
  BY <1>1, <1>3, JournalIs
<1>6. trouble' \subseteq Kinds \cup {"gap", "unknown"}  BY DEF Cut, Kinds, BInv, TypeOK
<1> QED  BY <1>3, <1>4, <1>5, <1>6 DEF BInv, TypeOK, CountedInv, brokerVars, alertVars, Journals

\* Every step keeps the inductive invariant.
LEMMA NextCounted == BInv /\ [Next]_vars => BInv'
<1> SUFFICES ASSUME BInv, [Next]_vars PROVE BInv'  OBVIOUS
<1>1. CASE UNCHANGED vars
  BY <1>1 DEF vars, brokerVars, journalVars, alertVars, BInv, TypeOK, CountedInv
<1>2. CASE Trade \/ End \/ JournalFails  BY <1>2, BrokerSteps
<1>3. ASSUME NEW p \in Procs, Boot(p) \/ Crash(p) PROVE BInv'
  BY <1>3, BootStep, CrashStep
<1>4. ASSUME NEW p \in Procs, Resume(p) PROVE BInv'
  BY <1>4, StartStep, ReadOpenStep, StuckStep, ReadFinalStep, CutStep DEF Resume
<1>5. ASSUME NEW p \in Procs, Book(p) PROVE BInv'
  BY <1>5, ClaimStep, ReadBookedStep, WriteLineStep, WriteRowsStep, WriteFailsStep, ConfirmStep
  DEF Book
<1> QED  BY <1>1, <1>2, <1>3, <1>4, <1>5 DEF Next

\* What the journal and the processes count as booked has its trade rows.
THEOREM Counted == Spec => []BInv
BY InitCounted, NextCounted, PTL DEF Spec

\* Every variable keeps its type
THEOREM TypeCorrect == Spec => []TypeOK
<1>1. BInv => TypeOK  BY DEF BInv
<1> QED  BY <1>1, Counted, PTL

\* What the journal counts as booked has its trade rows (_persist_late_fill, _sync_booked,
\* _left_unresolved), whoever booked it and whatever failed
THEOREM CountedIsBooked == Spec => []NothingCountedUnbooked
<1>1. BInv => NothingCountedUnbooked
  BY DEF BInv, CountedInv, Rows, NothingCountedUnbooked
<1> QED  BY <1>1, Counted, PTL

-----------------------------------------------------------------------------
(* Nothing fails: each share is booked once.                               *)
(*                                                                         *)
(* If all processes can use the lock, only its holder reads or books.  If  *)
(* none can, progress is not booked, and the winner of the claim books the *)
(* final fill alone.  Either way one process books at a time, beginning    *)
(* where the journal says the last one ended.                              *)

Bookings == {"line", "write", "confirm"}
Active == {"read1", "read2", "claim", "claimed"} \cup Bookings

\* Process p in state r, given the journal and the holder of the lock
Calm(p, r, j, holder) ==
    /\ ~r.background
    /\ r.won => j.claimed
    /\ ~r.fin \/ r.pc \in {"read1", "read2"} => r.rep <= j.booked
    /\ lockable = Procs /\ r.pc \in Active => holder = p
    /\ lockable = {} /\ r.pc \in Bookings => r.won
    /\ r.pc \in {"read1", "read2"} /\ holder = p => r.rep >= j.booked
    /\ r.pc \in {"line", "write"} => r.rep >= j.booked /\ r.upto > r.rep
    /\ r.pc = "confirm" => r.upto >= j.booked

\* What is beyond the journal's total is not booked, unless its confirmation is on its way
RowsInv ==
    /\ \A s \in Shares : times[s] <= 1
    /\ \A s \in Shares : s > journal.booked /\ times[s] >= 1 =>
         \E p \in Procs : proc[p].pc = "confirm" /\ s <= proc[p].upto

CalmInv ==
    /\ writable /\ (lockable = {} \/ lockable = Procs) /\ (lockable = {} => lock = None)
    /\ \A p \in Procs : Calm(p, proc[p], journal, lock)
    /\ \A p, q \in Procs : proc[p].won /\ proc[q].won => p = q

OnceInv == trouble = {} => CalmInv /\ RowsInv

\* One process books at a time
LEMMA OneBooks ==
  ASSUME CalmInv, NEW p \in Procs, NEW q \in Procs,
         proc[p].pc \in Bookings, proc[q].pc \in Bookings
  PROVE  p = q
BY DEF CalmInv, Calm, Active

\* The steps that neither write rows nor confirm them
LEMMA CalmStep ==
  ASSUME BInv, CalmInv, RowsInv, NEW p \in Procs, NEW r \in ProcStates, Set(p, r),
         UNCHANGED <<times, writable, lockable>>,
         journal'.booked = journal.booked, journal.claimed => journal'.claimed,
         \/ lock' = lock \/ lock' = Unlocked(p)
         \/ lock = None /\ lock' = p /\ p \in lockable,
         Calm(p, r, journal', lock'),
         r.won => proc[p].won \/ ~journal.claimed,
         proc[p].pc # "confirm", r.pc # "confirm"
  PROVE  CalmInv' /\ RowsInv'
<1>1. proc \in [Procs -> ProcStates]  BY DEF BInv, TypeOK
<1>2. proc'[p] = r /\ \A q \in Procs \ {p} : proc'[q] = proc[q]
  BY <1>1 DEF Set
<1>3. ASSUME NEW q \in Procs \ {p} PROVE Calm(q, proc[q], journal', lock')
  <2>1. lock' = q => lock = q  BY DEF Unlocked
  <2>2. lock = q => lock' = q  BY DEF Unlocked
  <2>3. Calm(q, proc[q], journal, lock)  BY DEF CalmInv
  <2> QED  BY <2>1, <2>2, <2>3 DEF Calm
<1>4. \A q \in Procs : Calm(q, proc'[q], journal', lock')  BY <1>2, <1>3
<1>5. lockable = {} => lock' = None  BY DEF CalmInv, Unlocked
<1>6. ASSUME NEW a \in Procs, NEW b \in Procs, proc'[a].won, proc'[b].won PROVE a = b
  <2>1. \A q \in Procs : proc[q].won => journal.claimed  BY DEF CalmInv, Calm
  <2> QED  BY <1>2, <1>6, <2>1 DEF CalmInv
<1>7. CalmInv'  BY <1>4, <1>5, <1>6 DEF CalmInv, Calm
<1>8. RowsInv'  BY <1>2 DEF RowsInv
<1> QED  BY <1>7, <1>8

\* A resume that ends lets go of lock and claim.
LEMMA CalmLeaves ==
  ASSUME BInv, CalmInv, RowsInv, NEW p \in Procs, NEW r \in ProcStates, Leave(p, r),
         UNCHANGED <<times, writable, lockable>>,
         journal'.booked = journal.booked, journal.claimed => journal'.claimed,
         r.fin \/ r.rep <= journal.booked, proc[p].pc # "confirm"
  PROVE  CalmInv' /\ RowsInv'
<1>1. Set(p, Left(r)) /\ lock' = Unlocked(p)  BY DEF Leave, Left
<1>2. Calm(p, Left(r), journal', lock')  BY LeftIs DEF Calm, Active, Bookings
<1> HIDE DEF Left
<1> QED  BY <1>1, <1>2, LeftIs, CalmStep

\* What lines and reports leave of a journal
LEMMA JournalKeeps ==
  ASSUME NEW j \in Journals
  PROVE  /\ \A line \in Lines : /\ Pending(j, line).booked = j.booked
                                /\ Pending(j, line).claimed = j.claimed
         /\ \A n \in Total : /\ Booked(j, n).booked = Larger(j.booked, n)
                             /\ Booked(j, n).claimed = j.claimed
                             /\ Reported(j, n).booked = Larger(j.booked, n)
                             /\ Reported(j, n).claimed = j.claimed
BY DEF Pending, Booked, Reported, Journals

\* With nothing failing, a process that starts finds all that was confirmed.
LEMMA CalmBoot ==
  ASSUME BInv, CalmInv, RowsInv, NEW p \in Procs, Boot(p) PROVE CalmInv' /\ RowsInv'
<1> DEFINE r == [proc[p] EXCEPT !.pc = "idle", !.rep = journal.booked]
<1>1. proc[p] \in ProcStates /\ journal.booked \in Total /\ Calm(p, proc[p], journal, lock)
  BY DEF BInv, TypeOK, CalmInv
<1>2. /\ r \in ProcStates /\ r.pc = "idle" /\ r.rep = journal.booked /\ r.won = proc[p].won
      /\ r.background = proc[p].background
  BY <1>1 DEF ProcStates, PCs
<1>3. Set(p, r) /\ UNCHANGED <<times, journal, writable, lockable, lock>>
      /\ proc[p].pc = "unborn"
  BY DEF Boot, journalVars
<1> HIDE DEF r
<1>4. Calm(p, r, journal', lock')
  BY <1>1, <1>2, <1>3 DEF Calm, Active, Bookings, Total
<1> QED  BY <1>1, <1>2, <1>3, <1>4, CalmStep

\* A resume starts when nobody else books.
LEMMA CalmStart ==
  ASSUME BInv, CalmInv, RowsInv, NEW p \in Procs, Start(p) PROVE CalmInv' /\ RowsInv'
<1> DEFINE rep == Larger(proc[p].rep, journal.booked)
           synced == [proc[p] EXCEPT !.rep = rep]
           ended == [synced EXCEPT !.fin = TRUE]
           reads == [synced EXCEPT !.pc = "read1"]
<1>1. /\ proc[p] \in ProcStates /\ journal.booked \in Total /\ proc[p].rep \in Total
      /\ Calm(p, proc[p], journal, lock) /\ proc[p].pc = "idle" /\ ~proc[p].fin
  BY DEF BInv, TypeOK, ProcStates, CalmInv, Start
<1>2. rep = journal.booked  BY <1>1 DEF Calm, Larger, Total
<1>3. /\ ended \in ProcStates /\ ended.rep = rep /\ ended.pc = "idle" /\ ended.fin
      /\ ended.won = proc[p].won /\ ended.background = proc[p].background
      /\ reads \in ProcStates /\ reads.rep = rep /\ reads.pc = "read1"
      /\ reads.won = proc[p].won /\ reads.background = proc[p].background
  <2> HIDE DEF rep
  <2> QED  BY <1>1, <1>2 DEF ProcStates, PCs
<1>4. /\ UNCHANGED <<times, journal, writable, lockable>>
      /\ p \in lockable => lock = None
      /\ \/ Set(p, ended) /\ lock' = lock
         \/ Set(p, reads) /\ lock' = IF p \in lockable THEN p ELSE lock
  BY DEF Start, journalVars
<1> HIDE DEF rep, synced, ended, reads
<1>5. CASE Set(p, ended) /\ lock' = lock
  <2>1. Calm(p, ended, journal', lock')
    BY <1>1, <1>3, <1>4, <1>5 DEF Calm, Active, Bookings
  <2> QED  BY <1>1, <1>3, <1>4, <1>5, <2>1, CalmStep
<1>6. CASE Set(p, reads) /\ lock' = IF p \in lockable THEN p ELSE lock
  <2>1. Calm(p, reads, journal', lock')
    BY <1>1, <1>2, <1>3, <1>4, <1>6 DEF Calm, Active, Bookings, Total
  <2> QED  BY <1>1, <1>3, <1>4, <1>6, <2>1, CalmStep
<1> QED  BY <1>4, <1>5, <1>6

\* Progress is booked under the lock only, so not where nobody has one
LEMMA CalmBegin ==
  ASSUME BInv, CalmInv, RowsInv, NEW p \in Procs, NEW base \in Journals,
         base.booked = journal.booked, base.claimed = journal.claimed,
         NEW stage \in {"first", "second"}, NEW upto \in (0 .. done) \cup {Unknown},
         MayBookProgress(p, upto), Begin(p, base, stage, upto), proc[p].pc \in {"read1", "read2"},
         UNCHANGED <<times, writable, lockable>>
  PROVE  CalmInv' /\ RowsInv'
<1> DEFINE r == [proc[p] EXCEPT !.pc = "write", !.stage = stage, !.upto = upto]
           line == [from |-> proc[p].rep, upto |-> upto, fin |-> FALSE, locked |-> TRUE]
<1>1. /\ proc[p] \in ProcStates /\ proc[p].rep \in Total /\ done \in Total
      /\ Calm(p, proc[p], journal, lock) /\ lock = p /\ upto > proc[p].rep /\ lockable # {}
  BY DEF BInv, TypeOK, ProcStates, CalmInv, MayBookProgress
<1>2. upto \in Total  BY <1>1 DEF Unknown, Total
<1>3. /\ r \in ProcStates /\ r.pc = "write" /\ r.rep = proc[p].rep /\ r.upto = upto
      /\ r.won = proc[p].won /\ r.background = proc[p].background /\ r.fin = proc[p].fin
  BY <1>1, <1>2 DEF ProcStates, PCs
<1>4. line \in Lines  BY <1>1, <1>2 DEF Lines
<1>5. Set(p, r) /\ journal' = Pending(base, line) /\ lock' = lock  BY DEF Begin
<1> HIDE DEF r, line
<1>6. journal'.booked = journal.booked /\ journal'.claimed = journal.claimed
  BY <1>4, <1>5, JournalKeeps
<1>7. Calm(p, r, journal', lock')
  BY <1>1, <1>3, <1>5, <1>6 DEF Calm, Active, Bookings
<1> QED  BY <1>1, <1>3, <1>5, <1>6, <1>7, CalmStep

\* Progress is booked by one process at a time.
LEMMA CalmReadOpen ==
  ASSUME BInv, CalmInv, RowsInv, NEW p \in Procs, ReadOpen(p) PROVE CalmInv' /\ RowsInv'
<1>1. PICK upto \in (0 .. done) \cup {Unknown} :
        \/ MayBookProgress(p, upto) /\ Begin(p, journal, "first", upto)
        \/ Set(p, [proc[p] EXCEPT !.pc = "read2"]) /\ UNCHANGED <<journal, lock>>
  BY DEF ReadOpen
<1>2. /\ UNCHANGED <<times, writable, lockable>> /\ journal \in Journals
      /\ proc[p] \in ProcStates /\ Calm(p, proc[p], journal, lock) /\ proc[p].pc = "read1"
  BY DEF ReadOpen, BInv, TypeOK, Journals, CalmInv
<1>3. CASE MayBookProgress(p, upto) /\ Begin(p, journal, "first", upto)
  BY <1>2, <1>3, CalmBegin
<1>4. CASE Set(p, [proc[p] EXCEPT !.pc = "read2"]) /\ UNCHANGED <<journal, lock>>
  <2> DEFINE r == [proc[p] EXCEPT !.pc = "read2"]
  <2>1. /\ r \in ProcStates /\ r.pc = "read2" /\ r.rep = proc[p].rep /\ r.won = proc[p].won
        /\ r.background = proc[p].background
    BY <1>2 DEF ProcStates, PCs
  <2>2. Set(p, r)  BY <1>4
  <2> HIDE DEF r
  <2>3. Calm(p, r, journal', lock')  BY <1>2, <1>4, <2>1 DEF Calm, Active, Bookings
  <2> QED  BY <1>2, <1>4, <2>1, <2>2, <2>3, CalmStep
<1> QED  BY <1>1, <1>3, <1>4

\* An order that stays open lets the next one go on from what was booked.
LEMMA CalmStuck ==
  ASSUME BInv, CalmInv, RowsInv, NEW p \in Procs, Stuck(p) PROVE CalmInv' /\ RowsInv'
<1> DEFINE after == IF writable THEN Reported(journal, proc[p].rep) ELSE journal
<1>1. PICK upto \in (0 .. done) \cup {Unknown} :
        \/ MayBookProgress(p, upto) /\ Begin(p, after, "second", upto)
        \/ Leave(p, proc[p]) /\ journal' = after
  BY DEF Stuck
<1>2. /\ UNCHANGED <<times, writable, lockable>> /\ journal \in Journals
      /\ proc[p] \in ProcStates /\ Calm(p, proc[p], journal, lock) /\ proc[p].pc = "read2"
  BY DEF Stuck, BInv, TypeOK, Journals, CalmInv
<1>3. after \in Journals /\ after.booked = journal.booked /\ after.claimed = journal.claimed
  <2>1. proc[p].rep \in Total /\ proc[p].rep <= journal.booked /\ journal.booked \in Total
    BY <1>2 DEF Calm, ProcStates, Journals
  <2>2. Larger(journal.booked, proc[p].rep) = journal.booked  BY <2>1 DEF Larger, Total
  <2> QED  BY <1>2, <2>1, <2>2, JournalIs, JournalKeeps
<1> HIDE DEF after
<1>4. CASE MayBookProgress(p, upto) /\ Begin(p, after, "second", upto)
  BY <1>2, <1>3, <1>4, CalmBegin
<1>5. CASE Leave(p, proc[p]) /\ journal' = after
  BY <1>2, <1>3, <1>5, CalmLeaves DEF Calm
<1> QED  BY <1>1, <1>4, <1>5

\* A final fill goes to the claim with nothing in between.
LEMMA CalmReadFinal ==
  ASSUME BInv, CalmInv, RowsInv, NEW p \in Procs, ReadFinal(p) PROVE CalmInv' /\ RowsInv'
<1> DEFINE ended == [proc[p] EXCEPT !.fin = TRUE]
           claims == [proc[p] EXCEPT !.pc = "claim", !.fin = TRUE, !.upto = done,
                                     !.stage = "final"]
<1>1. /\ proc[p] \in ProcStates /\ done \in Total /\ Calm(p, proc[p], journal, lock)
      /\ proc[p].pc \in {"read1", "read2"}
  BY DEF BInv, TypeOK, CalmInv, ReadFinal
<1>2. /\ ended \in ProcStates /\ ended.fin
      /\ claims \in ProcStates /\ claims.pc = "claim" /\ claims.fin
      /\ claims.won = proc[p].won /\ claims.background = proc[p].background
  BY <1>1 DEF ProcStates, PCs
<1>3. UNCHANGED <<times, writable, lockable>>  BY DEF ReadFinal
<1>4. (Set(p, claims) /\ lock' = lock) \/ Leave(p, ended)  BY DEF ReadFinal
<1>5. journal'.booked = journal.booked /\ journal'.claimed = journal.claimed
  <2>1. PICK how \in {"known", "unknown"} :
          journal' = journal \/ journal' = [journal EXCEPT !.final = how, !.last = "final"]
    BY DEF ReadFinal
  <2> QED  BY <2>1 DEF BInv, TypeOK
<1> HIDE DEF ended, claims
<1>6. CASE Set(p, claims) /\ lock' = lock
  <2>1. Calm(p, claims, journal', lock')
    BY <1>1, <1>2, <1>5, <1>6 DEF Calm, Active, Bookings
  <2> QED  BY <1>1, <1>2, <1>3, <1>5, <1>6, <2>1, CalmStep
<1>7. CASE Leave(p, ended)
  BY <1>1, <1>2, <1>3, <1>5, <1>7, CalmLeaves
<1> QED  BY <1>4, <1>6, <1>7

\* One process wins the claim.
LEMMA CalmClaim ==
  ASSUME BInv, CalmInv, RowsInv, NEW p \in Procs, Claim(p) PROVE CalmInv' /\ RowsInv'
<1> DEFINE r == [proc[p] EXCEPT !.pc = "claimed", !.won = ~journal.claimed]
<1>1. /\ proc[p] \in ProcStates /\ proc[p].pc = "claim" /\ proc[p].fin
      /\ Calm(p, proc[p], journal, lock) /\ journal \in Journals /\ journal.claimed \in BOOLEAN
  BY DEF BInv, TypeOK, CountedInv, Sound, Claim, Journals, CalmInv
<1>2. /\ r \in ProcStates /\ r.pc = "claimed" /\ r.fin /\ r.won = ~journal.claimed
      /\ r.background = proc[p].background
  BY <1>1 DEF ProcStates, PCs
<1>3. /\ UNCHANGED <<times, writable, lockable>>
      /\ \/ Set(p, r) /\ journal' = [journal EXCEPT !.claimed = TRUE] /\ lock' = lock
         \/ Leave(p, proc[p]) /\ journal' = journal
  BY DEF Claim
<1> HIDE DEF r
<1>4. CASE Set(p, r) /\ journal' = [journal EXCEPT !.claimed = TRUE] /\ lock' = lock
  <2>1. journal'.booked = journal.booked /\ journal'.claimed
    BY <1>1, <1>4 DEF Journals
  <2>2. Calm(p, r, journal', lock')
    BY <1>1, <1>2, <1>4, <2>1 DEF Calm, Active, Bookings
  <2> QED  BY <1>1, <1>2, <1>3, <1>4, <2>1, <2>2, CalmStep
<1>5. CASE Leave(p, proc[p]) /\ journal' = journal
  BY <1>1, <1>3, <1>5, CalmLeaves
<1> QED  BY <1>3, <1>4, <1>5

\* The winner finds booked what has rows.
LEMMA CalmReadBooked ==
  ASSUME BInv, CalmInv, RowsInv, NEW p \in Procs, ReadBooked(p) PROVE CalmInv' /\ RowsInv'
<1> DEFINE from == Larger(proc[p].rep, journal.booked)
           loses == [proc[p] EXCEPT !.rep = proc[p].upto]
           booked == [proc[p] EXCEPT !.rep = from]
           writes == [proc[p] EXCEPT !.pc = "line", !.rep = from]
<1>1. /\ proc[p] \in ProcStates /\ proc[p].pc = "claimed" /\ proc[p].fin
      /\ proc[p].rep \in Total /\ proc[p].upto \in Total /\ journal.booked \in Total
      /\ Calm(p, proc[p], journal, lock)
  BY DEF BInv, TypeOK, CountedInv, Sound, ReadBooked, ProcStates, CalmInv
<1>2. from \in Total /\ from >= journal.booked  BY <1>1 DEF Larger, Total
<1>3. UNCHANGED <<times, journal, writable, lockable>>  BY DEF ReadBooked, journalVars
<1>4. \/ Leave(p, loses) \/ Leave(p, booked)
      \/ Set(p, writes) /\ lock' = lock /\ MayBook(p) /\ proc[p].upto > from
  BY DEF ReadBooked
<1> HIDE DEF from
<1>5. /\ loses \in ProcStates /\ loses.fin /\ booked \in ProcStates /\ booked.fin
      /\ writes \in ProcStates /\ writes.pc = "line" /\ writes.fin /\ writes.rep = from
      /\ writes.upto = proc[p].upto /\ writes.won = proc[p].won
      /\ writes.background = proc[p].background
  BY <1>1, <1>2 DEF ProcStates, PCs
<1> HIDE DEF loses, booked, writes
<1>6. CASE Leave(p, loses) \/ Leave(p, booked)
  BY <1>1, <1>3, <1>5, <1>6, CalmLeaves
<1>7. CASE Set(p, writes) /\ lock' = lock /\ MayBook(p) /\ proc[p].upto > from
  <2>1. lockable = {} => proc[p].won  BY <1>7 DEF MayBook, CalmInv
  <2>2. Calm(p, writes, journal', lock')
    BY <1>1, <1>2, <1>3, <1>5, <1>7, <2>1 DEF Calm, Active, Bookings
  <2> QED  BY <1>1, <1>3, <1>5, <1>7, <2>2, CalmStep
<1> QED  BY <1>4, <1>6, <1>7

\* Its line is about shares without rows.
LEMMA CalmWriteLine ==
  ASSUME BInv, CalmInv, RowsInv, NEW p \in Procs, WriteLine(p) PROVE CalmInv' /\ RowsInv'
<1> DEFINE r == [proc[p] EXCEPT !.pc = "write"]
           line == [from |-> proc[p].rep, upto |-> proc[p].upto, fin |-> TRUE,
                    locked |-> lock = p]
<1>1. /\ proc[p] \in ProcStates /\ proc[p].pc = "line" /\ journal \in Journals
      /\ Calm(p, proc[p], journal, lock)
  BY DEF BInv, TypeOK, CalmInv, WriteLine, Journals
<1>2. /\ r \in ProcStates /\ r.pc = "write" /\ r.rep = proc[p].rep /\ r.upto = proc[p].upto
      /\ r.won = proc[p].won /\ r.background = proc[p].background /\ r.fin = proc[p].fin
  BY <1>1 DEF ProcStates, PCs
<1>3. line \in Lines  BY <1>1 DEF Lines, ProcStates
<1>4. /\ Set(p, r) /\ UNCHANGED <<times, writable, lockable, lock>>
      /\ journal' = Pending(journal, line) \/ journal' = journal
  BY DEF WriteLine
<1> HIDE DEF r, line
<1>5. journal'.booked = journal.booked /\ journal'.claimed = journal.claimed
  BY <1>1, <1>3, <1>4, JournalKeeps
<1>6. Calm(p, r, journal', lock')
  BY <1>1, <1>2, <1>4, <1>5 DEF Calm, Active, Bookings
<1> QED  BY <1>1, <1>2, <1>4, <1>5, <1>6, CalmStep

\* A resume that is cut short while it reads
LEMMA CalmCut ==
  ASSUME BInv, CalmInv, RowsInv, NEW p \in Procs, Cut(p), trouble' = {}
  PROVE  CalmInv' /\ RowsInv'
<1>1. /\ Leave(p, proc[p]) /\ proc[p].pc \in {"read1", "read2"}
      /\ journal' \in {journal, Reported(journal, proc[p].rep)}
      /\ UNCHANGED <<times, writable, lockable>>
  BY DEF Cut
<1>2. /\ proc[p] \in ProcStates /\ journal \in Journals
      /\ proc[p].rep \in Total /\ proc[p].rep <= journal.booked /\ journal.booked \in Total
  BY <1>1 DEF BInv, TypeOK, Journals, ProcStates, CalmInv, Calm
<1>3. Larger(journal.booked, proc[p].rep) = journal.booked  BY <1>2 DEF Larger, Total
<1>4. journal'.booked = journal.booked /\ journal'.claimed = journal.claimed
  BY <1>1, <1>2, <1>3, JournalKeeps
<1> QED  BY <1>1, <1>2, <1>4, CalmLeaves

\* The shares of a booking have no rows yet: they are beyond the journal's total, and no other
\* booking is under way
LEMMA CalmWriteRows ==
  ASSUME BInv, CalmInv, RowsInv, NEW p \in Procs, WriteRows(p) PROVE CalmInv' /\ RowsInv'
<1> DEFINE r == [proc[p] EXCEPT !.pc = "confirm"]
<1>1. /\ proc[p] \in ProcStates /\ proc[p].pc = "write" /\ Calm(p, proc[p], journal, lock)
      /\ proc \in [Procs -> ProcStates] /\ times \in [Shares -> 0 .. 2]
      /\ proc[p].rep \in Total /\ proc[p].upto \in Total /\ journal.booked \in Total
  BY DEF BInv, TypeOK, CalmInv, WriteRows, ProcStates
<1>2. /\ r \in ProcStates /\ r.pc = "confirm" /\ r.rep = proc[p].rep /\ r.upto = proc[p].upto
      /\ r.won = proc[p].won /\ r.background = proc[p].background /\ r.fin = proc[p].fin
  BY <1>1 DEF ProcStates, PCs
<1>3. /\ Set(p, r) /\ times' = RowsWritten(p)
      /\ UNCHANGED <<journal, writable, lockable, lock>>
  BY DEF WriteRows, journalVars
<1> HIDE DEF r
<1>4. proc'[p] = r /\ \A q \in Procs \ {p} : proc'[q] = proc[q]
  BY <1>1, <1>3 DEF Set
<1>5. CalmInv'
  <2>1. Calm(p, r, journal, lock)
    BY <1>1, <1>2 DEF Calm, Active, Bookings, Total
  <2> QED  BY <1>2, <1>3, <1>4, <2>1 DEF CalmInv, Calm
<1>6. ASSUME NEW s \in Shares, s > journal.booked PROVE times[s] = 0
  <2>1. \A q \in Procs : proc[q].pc # "confirm"
    BY <1>1, OneBooks DEF Bookings
  <2> QED  BY <1>1, <1>6, <2>1 DEF RowsInv
<1>7. ASSUME NEW s \in Shares
      PROVE  IF s \in Span(proc[p].rep, proc[p].upto)
             THEN s > journal.booked /\ s <= proc[p].upto /\ times'[s] = 1
             ELSE times'[s] = times[s]
  <2>1. CASE s \in Span(proc[p].rep, proc[p].upto)
    <3>1. s > journal.booked /\ s <= proc[p].upto
      BY <1>1, <2>1 DEF Calm, Span, Total
    <3> QED  BY <1>3, <1>6, <2>1, <3>1 DEF RowsWritten, Twice
  <2> QED  BY <1>3, <2>1 DEF RowsWritten
<1>8. RowsInv'
  <2>1. \A s \in Shares : times'[s] <= 1  BY <1>7 DEF RowsInv
  <2>2. ASSUME NEW s \in Shares, s > journal.booked, times'[s] >= 1
        PROVE  s <= r.upto
    BY <1>2, <1>6, <1>7, <2>2
  <2> QED  BY <1>2, <1>3, <1>4, <2>1, <2>2 DEF RowsInv
<1> QED  BY <1>5, <1>8

\* The confirmation takes the journal's total past the rows just written
LEMMA CalmConfirm ==
  ASSUME BInv, CalmInv, RowsInv, NEW p \in Procs, Confirm(p) PROVE CalmInv' /\ RowsInv'
<1> DEFINE r == [proc[p] EXCEPT !.rep = proc[p].upto, !.unbookedAt = Unknown]
           goes == [r EXCEPT !.pc = "read2"]
<1>1. /\ proc[p] \in ProcStates /\ proc[p].pc = "confirm" /\ Calm(p, proc[p], journal, lock)
      /\ proc \in [Procs -> ProcStates] /\ journal \in Journals
      /\ proc[p].upto \in Total /\ journal.booked \in Total
  BY DEF BInv, TypeOK, CalmInv, Confirm, ProcStates, Journals
<1>2. /\ r \in ProcStates /\ r.pc = "confirm" /\ r.rep = proc[p].upto /\ r.won = proc[p].won
      /\ r.background = proc[p].background /\ r.stage = proc[p].stage /\ r.fin = proc[p].fin
  BY <1>1 DEF ProcStates
<1>3. /\ journal'.booked = proc[p].upto /\ journal'.claimed = journal.claimed
      /\ UNCHANGED <<times, writable, lockable>>
      /\ Return(p, r)
  <2>1. Larger(journal.booked, proc[p].upto) = proc[p].upto
    BY <1>1 DEF Calm, Larger, Total
  <2>2. journal' = Booked(journal, proc[p].upto)  BY DEF Confirm, CalmInv
  <2> QED  BY <1>1, <2>1, <2>2, JournalKeeps DEF Confirm
<1> HIDE DEF r
<1>4. PICK n \in ProcStates :
        /\ Set(p, n) /\ n.pc # "confirm" /\ (n.won => proc[p].won)
        /\ lock' = lock \/ lock' = Unlocked(p)
        /\ Calm(p, n, journal', lock')
  <2>1. CASE Set(p, goes) /\ lock' = lock
    <3>1. /\ goes \in ProcStates /\ goes.pc = "read2" /\ goes.rep = proc[p].upto
          /\ goes.won = r.won /\ goes.background = r.background
      BY <1>2 DEF ProcStates, PCs
    <3> HIDE DEF goes
    <3>2. Calm(p, goes, journal', lock')
      BY <1>1, <1>2, <1>3, <2>1, <3>1 DEF Calm, Active, Bookings, Total
    <3> QED  BY <1>2, <2>1, <3>1, <3>2
  <2>2. CASE Leave(p, r)
    <3>1. Set(p, Left(r)) /\ lock' = Unlocked(p)  BY <2>2 DEF Leave, Left
    <3> HIDE DEF Left
    <3>2. Calm(p, Left(r), journal', lock')
      BY <1>1, <1>2, <1>3, LeftIs DEF Calm, Active, Bookings, Total
    <3> QED  BY <1>2, <3>1, <3>2, LeftIs
  <2> QED  BY <1>3, <2>1, <2>2 DEF Return
<1>5. proc'[p] = n /\ \A q \in Procs \ {p} : proc'[q] = proc[q]
  BY <1>1, <1>4 DEF Set
<1>6. CalmInv'
  <2>1. ASSUME NEW q \in Procs \ {p} PROVE Calm(q, proc[q], journal', lock')
    <3>1. (lock' = q => lock = q) /\ (lock = q => lock' = q)  BY <1>4 DEF Unlocked
    <3>2. Calm(q, proc[q], journal, lock)  BY DEF CalmInv
    <3>3. proc[q].pc \notin Bookings  BY <1>1, OneBooks DEF Bookings
    <3>4. lock # q \/ proc[q].pc \notin Active
      BY <1>1 DEF CalmInv, Calm, Active, Bookings
    <3>5. journal.booked <= proc[p].upto  BY <1>1 DEF Calm
    <3>6. proc[q].rep \in Total  BY <1>1 DEF ProcStates
    <3> QED  BY <1>1, <1>3, <3>1, <3>2, <3>3, <3>4, <3>5, <3>6 DEF Calm, Active, Bookings, Total
  <2>2. \A q \in Procs : Calm(q, proc'[q], journal', lock')  BY <1>4, <1>5, <2>1
  <2>3. lockable = {} => lock' = None  BY <1>4 DEF CalmInv, Unlocked
  <2>4. \A a, b \in Procs : proc'[a].won /\ proc'[b].won => a = b
    BY <1>4, <1>5 DEF CalmInv
  <2> QED  BY <1>3, <2>2, <2>3, <2>4 DEF CalmInv, Calm
<1>7. RowsInv'
  <2>1. ASSUME NEW s \in Shares, s > journal'.booked PROVE times[s] = 0
    <3>1. s > journal.booked /\ s > proc[p].upto
      BY <1>1, <1>3, <2>1 DEF Calm, Shares, Total
    <3>2. \A q \in Procs : proc[q].pc = "confirm" => q = p
      BY <1>1, OneBooks DEF Bookings
    <3> QED
      BY <1>1, <3>1, <3>2 DEF RowsInv, BInv, TypeOK, Shares, Total
  <2> QED  BY <1>3, <2>1 DEF RowsInv
<1> QED  BY <1>6, <1>7

\* No share has a row at the start.
LEMMA InitOnce == LockChoices \subseteq {{}, Procs} /\ Init => OnceInv
<1> SUFFICES ASSUME LockChoices \subseteq {{}, Procs}, Init PROVE CalmInv /\ RowsInv
  BY DEF OnceInv
<1>1. PICK r \in 0 .. (Requested - 1) :
         /\ times = [s \in Shares |-> IF s <= r THEN 1 ELSE 0]
         /\ journal = [booked |-> r, pending |-> {}, final |-> "no", last |-> "open",
                       claimed |-> FALSE]
         /\ proc = [p \in Procs |-> IF p = First THEN NewProc("idle", r)
                                    ELSE NewProc("unborn", 0)]
  BY DEF Init
<1>2. CalmInv
  BY <1>1 DEF CalmInv, Calm, Init, NewProc, Active, Bookings
<1>3. RowsInv  BY <1>1 DEF RowsInv, Shares
<1> QED  BY <1>2, <1>3

\* Every step without trouble keeps each share to one row.
LEMMA NextOnce == BInv /\ OnceInv /\ [Next]_vars => OnceInv'
<1> SUFFICES ASSUME BInv, OnceInv, [Next]_vars, trouble' = {} PROVE CalmInv' /\ RowsInv'
  BY DEF OnceInv
<1>1. trouble = {}
  BY DEF Next, Trade, End, JournalFails, Boot, Crash, Resume, Book, Start, ReadOpen, Stuck,
     ReadFinal, Cut, Claim, ReadBooked, WriteLine, WriteRows, WriteFails, Confirm, vars
<1>2. CalmInv /\ RowsInv  BY <1>1 DEF OnceInv
<1>3. CASE UNCHANGED vars
  BY <1>2, <1>3 DEF vars, journalVars, CalmInv, Calm, RowsInv
<1>4. CASE Trade \/ End
  BY <1>2, <1>4 DEF Trade, End, journalVars, CalmInv, Calm, RowsInv
<1>5. ~JournalFails  BY DEF JournalFails
<1>6. ASSUME NEW p \in Procs, Boot(p) \/ Crash(p) PROVE CalmInv' /\ RowsInv'
  <2>1. ~Crash(p)  BY DEF Crash
  <2> QED  BY <1>2, <1>6, <2>1, CalmBoot
<1>7. ASSUME NEW p \in Procs, Resume(p) PROVE CalmInv' /\ RowsInv'
  BY <1>2, <1>7, CalmStart, CalmReadOpen, CalmStuck, CalmReadFinal, CalmCut DEF Resume
<1>8. ASSUME NEW p \in Procs, Book(p) PROVE CalmInv' /\ RowsInv'
  <2>1. ~WriteFails(p)  BY DEF WriteFails
  <2> QED
    BY <1>2, <1>8, <2>1, CalmClaim, CalmReadBooked, CalmWriteLine, CalmWriteRows, CalmConfirm
    DEF Book
<1> QED  BY <1>3, <1>4, <1>5, <1>6, <1>7, <1>8 DEF Next

\* With nothing failing each share is booked once (the claim marker, the order lock and the
\* booked total of record_late_fill), if all processes can use the lock directory or none can
THEOREM EachShareOnce ==
  ASSUME LockChoices \subseteq {{}, Procs}
  PROVE  Spec => []BookedOnce
<1>1. Init => BInv /\ OnceInv  BY InitCounted, InitOnce
<1>2. BInv /\ OnceInv /\ [Next]_vars => (BInv /\ OnceInv)'  BY NextCounted, NextOnce
<1>3. OnceInv => BookedOnce  BY DEF OnceInv, RowsInv, BookedOnce
<1> QED  BY <1>1, <1>2, <1>3, PTL DEF Spec

-----------------------------------------------------------------------------
(* Once nobody looks at the order again, its shares are booked or flagged. *)

\* The broker gave every fill, and nobody died with one that nobody else knows
Told == trouble \cap {"gap", "unknown"} = {}

\* Every share traded has its row, or an alert
Accounted == \A s \in 1 .. done : times[s] >= 1 \/ s \in flagged

\* Process state r is on its way to book all that was traded
BooksAll(r) ==
    /\ (r.pc = "claimed" /\ r.won) \/ r.pc \in Bookings
    /\ r.upto = done

\* A process goes to the claim with all that was traded
ClaimsAll(r) == r.pc \in {"claim", "claimed", "line"} => final /\ r.upto = done

\* Once the fill is claimed, somebody books all of it, or left a line that says so
ClaimedInv ==
    Told /\ journal.claimed =>
       /\ final
       /\ \/ Accounted
          \/ \E p \in Procs : BooksAll(proc[p])
          \/ \E l \in journal.pending : l.upto >= done

\* Once the order is journalled as final, its fill is accounted for, claimed, or about to be
FinalInv ==
    Told /\ journal.last = "final" =>
       /\ final
       /\ Accounted \/ journal.claimed \/ \E p \in Procs : proc[p].pc = "claim"

SettleInv ==
    /\ \A p \in Procs : ClaimsAll(proc[p])
    /\ ClaimedInv /\ FinalInv
    /\ journal.final = "unknown" => "unknown" \in trouble

\* What is accounted for stays so.
LEMMA AccountedStays ==
  ASSUME BInv, Accounted, done' = done, flagged \subseteq flagged',
         \A s \in Shares : times[s] >= 1 => times'[s] >= 1
  PROVE  Accounted'
<1>1. done \in Total  BY DEF BInv, TypeOK
<1>2. 1 .. done \subseteq Shares  BY <1>1 DEF Shares, Total
<1> QED  BY <1>2 DEF Accounted

\* What the step of one process must say to keep it: its part in the booking of all that was
\* traded is handed on, or that is accounted for
LEMMA SettleStep ==
  ASSUME BInv, SettleInv, NEW p \in Procs, NEW r \in ProcStates, Set(p, r),
         UNCHANGED brokerVars, trouble \subseteq trouble', flagged \subseteq flagged',
         \A s \in Shares : times[s] >= 1 => times'[s] >= 1,
         ClaimsAll(r),
         Told' /\ BooksAll(proc[p]) =>
            BooksAll(r) \/ Accounted' \/ \E l \in journal'.pending : l.upto >= done,
         Told' /\ proc[p].pc = "claim" => r.pc = "claim" \/ journal'.claimed \/ Accounted',
         \A l \in journal.pending : l.upto >= done => l \in journal'.pending \/ Accounted',
         journal.claimed => journal'.claimed,
         journal'.claimed => journal.claimed \/ (final /\ BooksAll(r)),
         Told' /\ journal'.last = "final" =>
            journal.last = "final" \/ (final /\ (Accounted' \/ r.pc = "claim")),
         journal'.final = "unknown" => journal.final = "unknown" \/ "unknown" \in trouble'
  PROVE  SettleInv'
<1>1. done' = done /\ final' = final /\ done \in Total  BY DEF brokerVars, BInv, TypeOK
<1>2. proc'[p] = r /\ \A q \in Procs \ {p} : proc'[q] = proc[q]
  BY DEF Set, BInv, TypeOK
<1>3. Told' => Told  BY DEF Told
<1>4. Accounted => Accounted'  BY <1>1, AccountedStays
<1>5. \A q \in Procs : ClaimsAll(proc[q])'
  BY <1>1, <1>2 DEF SettleInv, ClaimsAll
<1>6. ClaimedInv'
  <2> SUFFICES ASSUME Told', journal'.claimed
               PROVE  /\ final'
                      /\ \/ Accounted'
                         \/ \E q \in Procs : BooksAll(proc[q])'
                         \/ \E l \in journal'.pending : l.upto >= done'
    BY DEF ClaimedInv, BooksAll
  <2>1. CASE final /\ BooksAll(r)
    BY <1>1, <1>2, <2>1 DEF BooksAll
  <2>2. CASE journal.claimed
    <3>1. /\ final
          /\ \/ Accounted
             \/ \E q \in Procs : BooksAll(proc[q])
             \/ \E l \in journal.pending : l.upto >= done
      BY <1>3, <2>2 DEF SettleInv, ClaimedInv
    <3>2. CASE Accounted  BY <1>1, <1>4, <3>1, <3>2
    <3>3. ASSUME NEW q \in Procs, BooksAll(proc[q])
          PROVE  \/ Accounted'
                 \/ \E o \in Procs : BooksAll(proc[o])'
                 \/ \E l \in journal'.pending : l.upto >= done'
      <4>1. CASE q = p
        <5>1. BooksAll(r) => BooksAll(proc[p])'  BY <1>1, <1>2 DEF BooksAll
        <5> QED  BY <1>1, <3>3, <4>1, <5>1
      <4>2. CASE q # p
        <5>1. BooksAll(proc[q])'  BY <1>1, <1>2, <3>3, <4>2 DEF BooksAll
        <5> QED  BY <5>1
      <4> QED  BY <4>1, <4>2
    <3>4. CASE \E l \in journal.pending : l.upto >= done
      BY <1>1, <3>1, <3>4
    <3> QED  BY <1>1, <3>1, <3>2, <3>3, <3>4
  <2> QED  BY <2>1, <2>2
<1>7. FinalInv'
  <2> SUFFICES ASSUME Told', journal'.last = "final"
               PROVE  /\ final'
                      /\ Accounted' \/ journal'.claimed \/ \E q \in Procs : proc'[q].pc = "claim"
    BY DEF FinalInv
  <2>1. CASE final /\ (Accounted' \/ r.pc = "claim")
    BY <1>1, <1>2, <2>1
  <2>2. CASE journal.last = "final"
    <3>1. final /\ (Accounted \/ journal.claimed \/ \E q \in Procs : proc[q].pc = "claim")
      BY <1>3, <2>2 DEF SettleInv, FinalInv
    <3>2. ASSUME NEW q \in Procs, proc[q].pc = "claim"
          PROVE  Accounted' \/ journal'.claimed \/ proc'[q].pc = "claim"
      BY <1>2, <3>2
    <3> QED  BY <1>1, <1>4, <3>1, <3>2
  <2> QED  BY <2>1, <2>2
<1>8. journal'.final = "unknown" => "unknown" \in trouble'
  BY DEF SettleInv
<1> QED  BY <1>5, <1>6, <1>7, <1>8 DEF SettleInv

\* What lines, confirmations and reports leave of a journal's other fields
LEMMA JournalFields ==
  ASSUME NEW j \in Journals
  PROVE  /\ \A line \in Lines :
              /\ Pending(j, line).pending = j.pending \cup {line}
              /\ Pending(j, line).final = j.final /\ Pending(j, line).last = j.last
         /\ \A n \in Total :
              /\ Booked(j, n).pending = {l \in j.pending : l.upto > n}
              /\ Booked(j, n).final = j.final /\ Booked(j, n).last = j.last
              /\ Reported(j, n).pending = j.pending
              /\ Reported(j, n).final = j.final /\ Reported(j, n).last = "open"
BY DEF Pending, Booked, Reported, Journals

\* What a process reports and what an alert names together are all it traded.
LEMMA AllAccounted ==
  ASSUME BInv, NEW rep \in Total, Rows(rep, times'), done' = done,
         \A s \in Shares : s > rep /\ s <= done => s \in flagged'
  PROVE  Accounted'
<1>1. done \in Total  BY DEF BInv, TypeOK
<1>2. ASSUME NEW s \in 1 .. done PROVE times'[s] >= 1 \/ s \in flagged'
  <2>1. s \in Shares  BY <1>1 DEF Shares, Total
  <2>2. CASE s <= rep  BY <2>1, <2>2 DEF Rows
  <2>3. CASE s > rep  BY <1>1, <2>1, <2>3 DEF Total
  <2> QED  BY <1>1, <2>1, <2>2, <2>3 DEF Shares, Total
<1> QED  BY <1>2 DEF Accounted

\* The broker's steps, and a journal that fails, settle nothing.
LEMMA SettleBroker == ASSUME BInv, SettleInv, Trade \/ End \/ JournalFails PROVE SettleInv'
<1>0. UNCHANGED <<times, journal, proc, flagged>> /\ trouble \subseteq trouble'
  BY DEF Trade, End, JournalFails, journalVars, alertVars
<1>1. CASE Trade
  <2>1. ~final /\ trouble' = trouble  BY <1>1 DEF Trade
  <2> QED  BY <1>0, <2>1 DEF SettleInv, ClaimedInv, FinalInv, ClaimsAll, Told
<1>2. CASE End
  <2>1. final' /\ done' = done /\ trouble' = trouble  BY <1>2 DEF End
  <2> QED
    BY <1>0, <2>1 DEF SettleInv, ClaimedInv, FinalInv, ClaimsAll, Told, Accounted, BooksAll
<1>3. CASE JournalFails
  <2>1. UNCHANGED <<done, final>>  BY <1>3 DEF JournalFails, brokerVars
  <2> QED
    BY <1>0, <2>1 DEF SettleInv, ClaimedInv, FinalInv, ClaimsAll, Told, Accounted, BooksAll
<1> QED  BY <1>1, <1>2, <1>3

\* A process that starts takes no part yet.
LEMMA SettleBoot == ASSUME BInv, SettleInv, NEW p \in Procs, Boot(p) PROVE SettleInv'
<1> DEFINE r == [proc[p] EXCEPT !.pc = "idle", !.rep = journal.booked]
<1>1. proc[p] \in ProcStates /\ journal.booked \in Total  BY DEF BInv, TypeOK
<1>2. r \in ProcStates /\ r.pc = "idle"  BY <1>1 DEF ProcStates, PCs
<1>3. Set(p, r) /\ UNCHANGED <<brokerVars, times, journal, flagged, trouble>>
      /\ proc[p].pc = "unborn"
  BY DEF Boot, journalVars, alertVars
<1> HIDE DEF r
<1> QED  BY <1>2, <1>3, SettleStep DEF ClaimsAll, BooksAll, Bookings

\* A process that dies leaves its rows, or its line, or a fill nobody else knows.
LEMMA SettleCrash == ASSUME BInv, SettleInv, NEW p \in Procs, Crash(p) PROVE SettleInv'
<1> DEFINE r == NewProc("dead", 0)
<1>1. r \in ProcStates /\ r.pc = "dead"
  BY DEF NewProc, ProcStates, PCs, Total, Unknown
<1>2. Set(p, r) /\ UNCHANGED <<brokerVars, times, journal, flagged>>
  BY DEF Crash, journalVars, alertVars
<1>3. /\ proc[p] \in ProcStates /\ proc[p].upto \in Total /\ Sound(proc[p], times)
      /\ done \in Total
  BY DEF BInv, TypeOK, CountedInv, ProcStates
<1> HIDE DEF r
<1>4. trouble \subseteq trouble' /\ (Told' => ~Unwritten(p))
  BY DEF Crash, Told
<1>5. ASSUME Told', BooksAll(proc[p])
      PROVE  Accounted' \/ \E l \in journal'.pending : l.upto >= done
  <2>1. CASE proc[p].pc = "confirm"
    <3>1. Rows(done, times')  BY <1>2, <1>3, <1>5, <2>1 DEF Sound, BooksAll
    <3>2. \A s \in Shares : s > done /\ s <= done => s \in flagged'  BY <1>3 DEF Total, Shares
    <3> QED  BY <1>2, <1>3, <3>1, <3>2, AllAccounted DEF brokerVars
  <2>2. CASE proc[p].pc = "write"
    <3>1. PICK l \in journal.pending : ~(l.upto < proc[p].upto)
      BY <1>4, <1>5, <2>2 DEF Unwritten
    <3>2. l.upto \in Total  BY DEF BInv, TypeOK, Lines
    <3> QED  BY <1>2, <1>3, <1>5, <3>1, <3>2 DEF BooksAll, Total
  <2> QED  BY <1>4, <1>5, <2>1, <2>2 DEF BooksAll, Bookings, Unwritten
<1>6. Told' => proc[p].pc # "claim"  BY <1>4 DEF Unwritten
<1> QED  BY <1>1, <1>2, <1>4, <1>5, <1>6, SettleStep DEF ClaimsAll, BooksAll, Bookings

\* A resume that starts only alerts.
LEMMA SettleStart == ASSUME BInv, SettleInv, NEW p \in Procs, Start(p) PROVE SettleInv'
<1> DEFINE rep == Larger(proc[p].rep, journal.booked)
           synced == [proc[p] EXCEPT !.rep = rep]
           ended == [synced EXCEPT !.fin = TRUE]
           reads == [synced EXCEPT !.pc = "read1"]
<1>1. proc[p] \in ProcStates /\ journal.booked \in Total /\ proc[p].rep \in Total
  BY DEF BInv, TypeOK, ProcStates
<1>2. rep \in Total  BY <1>1, LargerIs
<1>3. /\ ended \in ProcStates /\ ended.pc = "idle"
      /\ reads \in ProcStates /\ reads.pc = "read1"
  <2> HIDE DEF rep
  <2> QED  BY <1>1, <1>2 DEF ProcStates, PCs, Start
<1>4. /\ Set(p, ended) \/ Set(p, reads)
      /\ UNCHANGED <<brokerVars, times, journal, trouble>> /\ proc[p].pc = "idle"
  BY DEF Start, journalVars
<1> HIDE DEF rep, synced, ended, reads
<1>5. flagged \subseteq flagged'  BY DEF Start, alertVars
<1> QED  BY <1>3, <1>4, <1>5, SettleStep DEF ClaimsAll, BooksAll, Bookings

\* Progress is another booking.
LEMMA SettleBegin ==
  ASSUME BInv, SettleInv, NEW p \in Procs, NEW base \in Journals,
         base.pending = journal.pending, base.claimed = journal.claimed,
         base.final = journal.final, base.last \in {journal.last, "open"},
         NEW stage \in {"first", "second"}, NEW upto \in (0 .. done) \cup {Unknown},
         MayBookProgress(p, upto), Begin(p, base, stage, upto), proc[p].pc \in {"read1", "read2"},
         UNCHANGED <<brokerVars, times, flagged, trouble>>
  PROVE  SettleInv'
<1> DEFINE r == [proc[p] EXCEPT !.pc = "write", !.stage = stage, !.upto = upto]
           line == [from |-> proc[p].rep, upto |-> upto, fin |-> FALSE, locked |-> TRUE]
<1>1. proc[p] \in ProcStates /\ proc[p].rep \in Total /\ done \in Total
  BY DEF BInv, TypeOK, ProcStates
<1>2. upto \in Total  BY <1>1 DEF MayBookProgress, Unknown, Total
<1>3. r \in ProcStates /\ r.pc = "write"  BY <1>1, <1>2 DEF ProcStates, PCs
<1>4. line \in Lines  BY <1>1, <1>2 DEF Lines
<1>5. Set(p, r) /\ journal' = Pending(base, line)  BY DEF Begin
<1> HIDE DEF r, line
<1>6. /\ journal.pending \subseteq journal'.pending /\ journal'.claimed = journal.claimed
      /\ journal'.final = journal.final /\ journal'.last \in {journal.last, "open"}
  BY <1>4, <1>5, JournalFields, JournalKeeps
<1> QED  BY <1>3, <1>5, <1>6, SettleStep DEF ClaimsAll, BooksAll, Bookings

\* A first read settles nothing.
LEMMA SettleReadOpen == ASSUME BInv, SettleInv, NEW p \in Procs, ReadOpen(p) PROVE SettleInv'
<1>1. PICK upto \in (0 .. done) \cup {Unknown} :
        \/ MayBookProgress(p, upto) /\ Begin(p, journal, "first", upto)
        \/ Set(p, [proc[p] EXCEPT !.pc = "read2"]) /\ UNCHANGED <<journal, lock>>
  BY DEF ReadOpen
<1>2. /\ UNCHANGED <<brokerVars, times, flagged, trouble>> /\ journal \in Journals
      /\ proc[p] \in ProcStates /\ proc[p].pc = "read1"
  BY DEF ReadOpen, BInv, TypeOK, Journals, alertVars
<1>3. CASE MayBookProgress(p, upto) /\ Begin(p, journal, "first", upto)
  BY <1>2, <1>3, SettleBegin
<1>4. CASE Set(p, [proc[p] EXCEPT !.pc = "read2"]) /\ UNCHANGED <<journal, lock>>
  <2> DEFINE r == [proc[p] EXCEPT !.pc = "read2"]
  <2>1. r \in ProcStates /\ r.pc = "read2"  BY <1>2 DEF ProcStates, PCs
  <2>2. Set(p, r)  BY <1>4
  <2> HIDE DEF r
  <2> QED  BY <1>2, <1>4, <2>1, <2>2, SettleStep DEF ClaimsAll, BooksAll, Bookings
<1> QED  BY <1>1, <1>3, <1>4

\* A resume that ends, with its part in a booking of everything handed on
LEMMA SettleLeaves ==
  ASSUME BInv, SettleInv, NEW p \in Procs, NEW r \in ProcStates, Leave(p, r),
         UNCHANGED <<brokerVars, times>>, flagged \subseteq flagged',
         trouble \subseteq trouble',
         Told' /\ BooksAll(proc[p]) => Accounted',
         Told' /\ proc[p].pc = "claim" => Accounted',
         journal.pending \subseteq journal'.pending, journal'.claimed = journal.claimed,
         Told' /\ journal'.last = "final" => journal.last = "final" \/ (final /\ Accounted'),
         journal'.final = "unknown" => journal.final = "unknown" \/ "unknown" \in trouble'
  PROVE  SettleInv'
<1>1. Set(p, Left(r))  BY DEF Leave, Left
<1>2. Left(r) \in ProcStates /\ Left(r).pc = "idle"  BY LeftIs
<1> HIDE DEF Left
<1> QED  BY <1>1, <1>2, SettleStep DEF ClaimsAll, BooksAll, Bookings

\* The order is open again.
LEMMA SettleStuck == ASSUME BInv, SettleInv, NEW p \in Procs, Stuck(p) PROVE SettleInv'
<1> DEFINE after == IF writable THEN Reported(journal, proc[p].rep) ELSE journal
<1>1. PICK upto \in (0 .. done) \cup {Unknown} :
        \/ MayBookProgress(p, upto) /\ Begin(p, after, "second", upto)
        \/ Leave(p, proc[p]) /\ journal' = after
  BY DEF Stuck
<1>2. /\ UNCHANGED <<brokerVars, times, flagged, trouble>> /\ journal \in Journals
      /\ proc[p] \in ProcStates /\ proc[p].pc = "read2" /\ proc[p].rep \in Total
  BY DEF Stuck, BInv, TypeOK, Journals, alertVars, ProcStates
<1>3. /\ after \in Journals /\ after.pending = journal.pending
      /\ after.claimed = journal.claimed /\ after.final = journal.final
      /\ after.last \in {journal.last, "open"}
  BY <1>2, JournalIs, JournalKeeps, JournalFields
<1> HIDE DEF after
<1>4. CASE MayBookProgress(p, upto) /\ Begin(p, after, "second", upto)
  BY <1>2, <1>3, <1>4, SettleBegin
<1>5. CASE Leave(p, proc[p]) /\ journal' = after
  BY <1>2, <1>3, <1>5, SettleLeaves DEF BooksAll, Bookings
<1> QED  BY <1>1, <1>4, <1>5

\* A final read ends with all reported, or goes to the claim.
LEMMA SettleReadFinal == ASSUME BInv, SettleInv, NEW p \in Procs, ReadFinal(p) PROVE SettleInv'
<1> DEFINE ended == [proc[p] EXCEPT !.fin = TRUE]
           claims == [proc[p] EXCEPT !.pc = "claim", !.fin = TRUE, !.upto = done,
                                     !.stage = "final"]
<1>1. /\ proc[p] \in ProcStates /\ proc[p].rep \in Total /\ done \in Total
      /\ Rows(proc[p].rep, times) /\ proc[p].pc \in {"read1", "read2"} /\ final
      /\ journal \in Journals
  BY DEF BInv, TypeOK, CountedInv, Sound, ReadFinal, ProcStates, Journals
<1>2. /\ ended \in ProcStates
      /\ claims \in ProcStates /\ claims.pc = "claim" /\ claims.upto = done
  BY <1>1 DEF ProcStates, PCs
<1>3. UNCHANGED <<brokerVars, times, flagged>> /\ trouble \subseteq trouble'
  BY DEF ReadFinal, alertVars
<1>4. PICK known \in BOOLEAN :
        /\ journal' = IF ~writable THEN journal
                      ELSE [journal EXCEPT !.final = IF known THEN "known" ELSE "unknown",
                                            !.last = "final"]
        /\ trouble' = IF known THEN trouble ELSE trouble \cup {"unknown"}
        /\ IF known /\ done > proc[p].rep THEN Set(p, claims) /\ UNCHANGED lock
           ELSE Leave(p, ended)
  BY DEF ReadFinal
<1> HIDE DEF ended, claims
<1>5. Told' => known  BY <1>4 DEF Told
<1>6. /\ journal'.pending = journal.pending /\ journal'.claimed = journal.claimed
      /\ journal'.final = "unknown" => journal.final = "unknown" \/ "unknown" \in trouble'
  <2>1. CASE known  BY <1>1, <1>4, <2>1 DEF Journals
  <2>2. CASE ~known  BY <1>1, <1>4, <2>2 DEF Journals
  <2> QED  BY <2>1, <2>2
<1>7. CASE known /\ done > proc[p].rep
  <2>1. Set(p, claims)  BY <1>4, <1>7
  <2> QED
    BY <1>1, <1>2, <1>3, <1>6, <2>1, SettleStep DEF ClaimsAll, BooksAll, Bookings
<1>8. CASE ~(known /\ done > proc[p].rep)
  <2>1. Leave(p, ended)  BY <1>4, <1>8
  <2>2. Told' => Accounted'
    <3>1. ASSUME Told' PROVE Accounted'
      <4>1. \A s \in Shares : s > proc[p].rep /\ s <= done => s \in flagged'
        BY <1>1, <1>5, <1>8, <3>1 DEF Total, Shares
      <4> QED  BY <1>1, <1>3, <4>1, AllAccounted DEF brokerVars
    <3> QED  BY <3>1
  <2> QED  BY <1>1, <1>2, <1>3, <1>6, <2>1, <2>2, SettleLeaves
<1> QED  BY <1>7, <1>8

\* A claim is won by somebody, or its fill is alerted.
LEMMA SettleClaim == ASSUME BInv, SettleInv, NEW p \in Procs, Claim(p) PROVE SettleInv'
<1> DEFINE r == [proc[p] EXCEPT !.pc = "claimed", !.won = ~journal.claimed]
<1>1. /\ proc[p] \in ProcStates /\ proc[p].pc = "claim" /\ Rows(proc[p].rep, times)
      /\ journal \in Journals /\ journal.claimed \in BOOLEAN /\ proc[p].rep \in Total
      /\ final /\ proc[p].upto = done /\ done \in Total
  BY DEF BInv, TypeOK, CountedInv, Sound, Claim, Journals, ProcStates, SettleInv, ClaimsAll
<1>2. /\ r \in ProcStates /\ r.pc = "claimed" /\ r.won = ~journal.claimed /\ r.upto = done
  BY <1>1 DEF ProcStates, PCs
<1>3. UNCHANGED <<brokerVars, times, trouble>> /\ flagged \subseteq flagged'
  BY DEF Claim
<1>4. \/ Set(p, r) /\ journal' = [journal EXCEPT !.claimed = TRUE]
      \/ /\ flagged' = flagged \cup Span(proc[p].rep, proc[p].upto)
         /\ Leave(p, proc[p]) /\ journal' = journal
  BY DEF Claim
<1> HIDE DEF r
<1>5. CASE Set(p, r) /\ journal' = [journal EXCEPT !.claimed = TRUE]
  <2>1. /\ journal'.pending = journal.pending /\ journal'.claimed
        /\ journal'.final = journal.final /\ journal'.last = journal.last
    BY <1>1, <1>5 DEF Journals
  <2>2. journal.claimed \/ BooksAll(r)  BY <1>2 DEF BooksAll
  <2> QED
    BY <1>1, <1>2, <1>3, <1>5, <2>1, <2>2, SettleStep DEF ClaimsAll, BooksAll, Bookings
<1>6. CASE /\ flagged' = flagged \cup Span(proc[p].rep, proc[p].upto)
           /\ Leave(p, proc[p]) /\ journal' = journal
  <2>1. \A s \in Shares : s > proc[p].rep /\ s <= done => s \in flagged'
    BY <1>1, <1>6 DEF Span, Total, Shares
  <2>2. Accounted'  BY <1>1, <1>3, <2>1, AllAccounted DEF brokerVars
  <2> QED  BY <1>1, <1>3, <1>6, <2>2, SettleLeaves
<1> QED  BY <1>4, <1>5, <1>6

\* The winner goes on, unless all is booked.
LEMMA SettleReadBooked ==
  ASSUME BInv, SettleInv, NEW p \in Procs, ReadBooked(p) PROVE SettleInv'
<1> DEFINE from == Larger(proc[p].rep, journal.booked)
           loses == [proc[p] EXCEPT !.rep = proc[p].upto]
           booked == [proc[p] EXCEPT !.rep = from]
           writes == [proc[p] EXCEPT !.pc = "line", !.rep = from]
<1>1. /\ proc[p] \in ProcStates /\ proc[p].pc = "claimed"
      /\ proc[p].rep \in Total /\ proc[p].upto \in Total /\ journal.booked \in Total
      /\ Rows(proc[p].rep, times) /\ Rows(journal.booked, times)
      /\ final /\ proc[p].upto = done /\ done \in Total
  BY DEF BInv, TypeOK, CountedInv, Sound, ReadBooked, ProcStates, SettleInv, ClaimsAll
<1>2. from \in Total /\ Rows(from, times)  BY <1>1, LargerIs
<1>3. UNCHANGED <<brokerVars, times, journal, flagged, trouble>>
  BY DEF ReadBooked, journalVars, alertVars
<1>4. \/ Leave(p, loses) /\ ~MayBook(p)
      \/ Leave(p, booked) /\ proc[p].upto <= from
      \/ Set(p, writes)
  BY DEF ReadBooked
<1> HIDE DEF from
<1>5. /\ loses \in ProcStates /\ booked \in ProcStates
      /\ writes \in ProcStates /\ writes.pc = "line" /\ writes.upto = done
  BY <1>1, <1>2 DEF ProcStates, PCs
<1> HIDE DEF loses, booked, writes
<1>6. CASE Leave(p, loses) /\ ~MayBook(p)
  <2>1. ~BooksAll(proc[p])  BY <1>1, <1>6 DEF BooksAll, Bookings, MayBook
  <2> QED  BY <1>1, <1>3, <1>5, <1>6, <2>1, SettleLeaves
<1>7. CASE Leave(p, booked) /\ proc[p].upto <= from
  <2>1. \A s \in Shares : s > from /\ s <= done => s \in flagged'
    BY <1>1, <1>2, <1>7 DEF Total, Shares
  <2>2. Accounted'  BY <1>2, <1>3, <2>1, AllAccounted DEF brokerVars
  <2> QED  BY <1>1, <1>3, <1>5, <1>7, <2>2, SettleLeaves
<1>8. CASE Set(p, writes)
  BY <1>1, <1>3, <1>5, <1>8, SettleStep DEF ClaimsAll, BooksAll, Bookings
<1> QED  BY <1>4, <1>6, <1>7, <1>8

\* A line is added.
LEMMA SettleWriteLine ==
  ASSUME BInv, SettleInv, NEW p \in Procs, WriteLine(p) PROVE SettleInv'
<1> DEFINE r == [proc[p] EXCEPT !.pc = "write"]
           line == [from |-> proc[p].rep, upto |-> proc[p].upto, fin |-> TRUE,
                    locked |-> lock = p]
<1>1. proc[p] \in ProcStates /\ proc[p].pc = "line" /\ journal \in Journals
  BY DEF BInv, TypeOK, WriteLine, Journals
<1>2. r \in ProcStates /\ r.pc = "write" /\ r.upto = proc[p].upto
  BY <1>1 DEF ProcStates, PCs
<1>3. line \in Lines  BY <1>1 DEF Lines, ProcStates
<1>4. /\ Set(p, r) /\ UNCHANGED <<brokerVars, times, flagged, trouble>>
      /\ journal' = Pending(journal, line) \/ journal' = journal
  BY DEF WriteLine, alertVars
<1> HIDE DEF r, line
<1>5. /\ journal.pending \subseteq journal'.pending /\ journal'.claimed = journal.claimed
      /\ journal'.final = journal.final /\ journal'.last = journal.last
  BY <1>1, <1>3, <1>4, JournalFields, JournalKeeps
<1> QED  BY <1>1, <1>2, <1>4, <1>5, SettleStep DEF ClaimsAll, BooksAll, Bookings

\* The rows are there.
LEMMA SettleWriteRows ==
  ASSUME BInv, SettleInv, NEW p \in Procs, WriteRows(p) PROVE SettleInv'
<1> DEFINE r == [proc[p] EXCEPT !.pc = "confirm"]
<1>1. proc[p] \in ProcStates /\ proc[p].pc = "write"
  BY DEF BInv, TypeOK, WriteRows
<1>2. r \in ProcStates /\ r.pc = "confirm" /\ r.upto = proc[p].upto
  BY <1>1 DEF ProcStates, PCs
<1>3. /\ Set(p, r) /\ times' = RowsWritten(p)
      /\ UNCHANGED <<brokerVars, journal, flagged, trouble>>
  BY DEF WriteRows, journalVars, alertVars
<1> HIDE DEF r
<1>4. \A s \in Shares : times[s] >= 1 => times'[s] >= 1  BY <1>1, <1>3, RowsWrittenIs
<1> QED  BY <1>1, <1>2, <1>3, <1>4, SettleStep DEF ClaimsAll, BooksAll, Bookings

\* The await of a booking returns, with its part in a booking of everything done
LEMMA SettleReturns ==
  ASSUME BInv, SettleInv, NEW p \in Procs, NEW r \in ProcStates, Return(p, r),
         proc[p].pc \in {"write", "confirm"},
         UNCHANGED brokerVars, flagged \subseteq flagged', trouble \subseteq trouble',
         \A s \in Shares : times[s] >= 1 => times'[s] >= 1,
         BooksAll(proc[p]) => Accounted',
         \A l \in journal.pending : l.upto >= done => l \in journal'.pending \/ Accounted',
         journal'.claimed = journal.claimed, journal'.last = journal.last,
         journal'.final = journal.final
  PROVE  SettleInv'
<1>1. PICK n \in ProcStates : Set(p, n) /\ n.pc \in {"read2", "idle"}
  <2>1. CASE Set(p, [r EXCEPT !.pc = "read2"])
    <3> DEFINE n == [r EXCEPT !.pc = "read2"]
    <3>1. n \in ProcStates /\ n.pc = "read2"  BY DEF ProcStates, PCs
    <3> QED  BY <2>1, <3>1
  <2>2. CASE Leave(p, r)
    <3>1. Set(p, Left(r))  BY <2>2 DEF Leave, Left
    <3> HIDE DEF Left
    <3> QED  BY <3>1, LeftIs
  <2> QED  BY <2>1, <2>2 DEF Return
<1> QED  BY <1>1, SettleStep DEF ClaimsAll, BooksAll, Bookings

\* What failed is alerted.
LEMMA SettleWriteFails ==
  ASSUME BInv, SettleInv, NEW p \in Procs, WriteFails(p) PROVE SettleInv'
<1> DEFINE r == IF proc[p].stage = "final" THEN proc[p]
                ELSE [proc[p] EXCEPT !.unbookedAt = proc[p].upto]
<1>1. /\ proc[p] \in ProcStates /\ proc[p].pc = "write" /\ Rows(proc[p].rep, times)
      /\ proc[p].rep \in Total /\ proc[p].upto \in Total /\ done \in Total
  BY DEF BInv, TypeOK, CountedInv, Sound, WriteFails, ProcStates
<1>2. r \in ProcStates  BY <1>1 DEF ProcStates
<1>3. /\ Return(p, r) /\ times' \in {times, RowsWritten(p)}
      /\ flagged' = flagged \cup Span(proc[p].rep, proc[p].upto)
      /\ trouble \subseteq trouble' /\ UNCHANGED <<brokerVars, journal>>
  BY DEF WriteFails, journalVars
<1> HIDE DEF r
<1>4. \A s \in Shares : times[s] >= 1 => times'[s] >= 1  BY <1>1, <1>3, RowsWrittenIs
<1>5. ASSUME BooksAll(proc[p]) PROVE Accounted'
  <2>1. \A s \in Shares : s > proc[p].rep /\ s <= done => s \in flagged'
    BY <1>1, <1>3, <1>5 DEF Span, Total, Shares, BooksAll
  <2>2. Rows(proc[p].rep, times')  BY <1>1, <1>4 DEF Rows
  <2> QED  BY <1>1, <1>3, <2>1, <2>2, AllAccounted DEF brokerVars
<1> QED  BY <1>1, <1>2, <1>3, <1>4, <1>5, SettleReturns

\* What is confirmed has its rows, and takes away only lines within it.
LEMMA SettleConfirm == ASSUME BInv, SettleInv, NEW p \in Procs, Confirm(p) PROVE SettleInv'
<1> DEFINE r == [proc[p] EXCEPT !.rep = proc[p].upto, !.unbookedAt = Unknown]
<1>1. /\ proc[p] \in ProcStates /\ Rows(proc[p].upto, times) /\ proc[p].upto \in Total
      /\ journal \in Journals /\ proc[p].pc = "confirm" /\ done \in Total
  BY DEF BInv, TypeOK, CountedInv, Sound, Confirm, ProcStates, Journals
<1>2. r \in ProcStates  BY <1>1 DEF ProcStates
<1>3. /\ Return(p, r) /\ journal' \in {journal, Booked(journal, proc[p].upto)}
      /\ UNCHANGED <<brokerVars, times, flagged, trouble>>
  BY DEF Confirm, alertVars
<1> HIDE DEF r
<1>4. ASSUME done <= proc[p].upto PROVE Accounted'
  <2>1. \A s \in Shares : s > proc[p].upto /\ s <= done => s \in flagged'
    BY <1>1, <1>4 DEF Total, Shares
  <2>2. Rows(proc[p].upto, times')  BY <1>1, <1>3
  <2> QED  BY <1>1, <1>3, <2>1, <2>2, AllAccounted DEF brokerVars
<1>5. /\ journal'.claimed = journal.claimed /\ journal'.last = journal.last
      /\ journal'.final = journal.final
      /\ \A l \in journal.pending : l.upto > proc[p].upto => l \in journal'.pending
  BY <1>1, <1>3, JournalFields, JournalKeeps
<1>6. ASSUME NEW l \in journal.pending, l.upto >= done
      PROVE  l \in journal'.pending \/ Accounted'
  <2>1. l.upto \in Total  BY DEF BInv, TypeOK, Lines
  <2>2. CASE l.upto > proc[p].upto  BY <1>5, <2>2
  <2>3. CASE l.upto <= proc[p].upto  BY <1>1, <1>4, <1>6, <2>1, <2>3 DEF Total
  <2> QED  BY <1>1, <2>1, <2>2, <2>3 DEF Total
<1>7. BooksAll(proc[p]) => Accounted'  BY <1>1, <1>4 DEF BooksAll, Total
<1> QED  BY <1>1, <1>2, <1>3, <1>5, <1>6, <1>7, SettleReturns

\* A booking whose resume is cut goes on.
LEMMA SettleCut == ASSUME BInv, SettleInv, NEW p \in Procs, Cut(p) PROVE SettleInv'
<1> DEFINE r == [proc[p] EXCEPT !.background = TRUE]
<1>1. /\ proc[p] \in ProcStates /\ proc[p].pc \in {"read1", "read2", "write"}
      /\ proc[p].rep \in Total /\ journal \in Journals
  BY DEF BInv, TypeOK, CountedInv, Cut, ProcStates, Journals
<1>2. r \in ProcStates /\ r.pc = proc[p].pc /\ r.upto = proc[p].upto
  BY <1>1 DEF ProcStates
<1>3. /\ journal' \in {journal, Reported(journal, proc[p].rep)}
      /\ UNCHANGED <<brokerVars, times, flagged>> /\ trouble \subseteq trouble'
      /\ \/ proc[p].pc = "write" /\ Set(p, r)
         \/ proc[p].pc # "write" /\ Leave(p, proc[p])
  BY DEF Cut, alertVars
<1> HIDE DEF r
<1>4. /\ journal'.pending = journal.pending /\ journal'.claimed = journal.claimed
      /\ journal'.final = journal.final /\ journal'.last \in {journal.last, "open"}
  BY <1>1, <1>3, JournalFields, JournalKeeps
<1>5. CASE proc[p].pc = "write" /\ Set(p, r)
  BY <1>1, <1>2, <1>3, <1>4, <1>5, SettleStep DEF ClaimsAll, BooksAll, Bookings
<1>6. CASE proc[p].pc # "write" /\ Leave(p, proc[p])
  BY <1>1, <1>3, <1>4, <1>6, SettleLeaves DEF BooksAll, Bookings
<1> QED  BY <1>3, <1>5, <1>6

\* Every step keeps it.
LEMMA NextSettles == BInv /\ SettleInv /\ [Next]_vars => SettleInv'
<1> SUFFICES ASSUME BInv, SettleInv, [Next]_vars PROVE SettleInv'  OBVIOUS
<1>1. CASE UNCHANGED vars
  BY <1>1 DEF vars, brokerVars, journalVars, alertVars, SettleInv, ClaimedInv, FinalInv,
     ClaimsAll, BooksAll, Told, Accounted
<1>2. CASE Trade \/ End \/ JournalFails  BY <1>2, SettleBroker
<1>3. ASSUME NEW p \in Procs, Boot(p) \/ Crash(p) PROVE SettleInv'
  BY <1>3, SettleBoot, SettleCrash
<1>4. ASSUME NEW p \in Procs, Resume(p) PROVE SettleInv'
  BY <1>4, SettleStart, SettleReadOpen, SettleStuck, SettleReadFinal, SettleCut DEF Resume
<1>5. ASSUME NEW p \in Procs, Book(p) PROVE SettleInv'
  BY <1>5, SettleClaim, SettleReadBooked, SettleWriteLine, SettleWriteRows, SettleWriteFails,
     SettleConfirm DEF Book
<1> QED  BY <1>1, <1>2, <1>3, <1>4, <1>5 DEF Next

\* Nothing is claimed or final at the start.
LEMMA InitSettles == Init => SettleInv
<1> SUFFICES ASSUME Init PROVE SettleInv  OBVIOUS
<1>1. PICK r \in 0 .. (Requested - 1) :
         /\ journal = [booked |-> r, pending |-> {}, final |-> "no", last |-> "open",
                       claimed |-> FALSE]
         /\ proc = [p \in Procs |-> IF p = First THEN NewProc("idle", r)
                                    ELSE NewProc("unborn", 0)]
  BY DEF Init
<1> QED  BY <1>1 DEF SettleInv, ClaimedInv, FinalInv, ClaimsAll, NewProc

\* Once nobody will look at the order again, every share it traded is booked or named by a
\* CRITICAL alert (today_unresolved, record_late_fill), whatever failed, died or was cut short,
\* and whoever could use the lock; but for a fill the broker never gave, and for a process
\* that died between reading a final fill and journalling its booking
THEOREM NothingForgotten == Spec => []SettledMeansBooked
<1>1. Init => BInv /\ SettleInv  BY InitCounted, InitSettles
<1>2. BInv /\ SettleInv /\ [Next]_vars => (BInv /\ SettleInv)'  BY NextCounted, NextSettles
<1>3. BInv /\ SettleInv => SettledMeansBooked
  <2> SUFFICES ASSUME BInv, SettleInv, Settled, Told PROVE Accounted
    BY DEF SettledMeansBooked, Told, Accounted
  <2>1. /\ journal.last = "final" /\ journal.final # "unknown"
        /\ \A p \in Procs : proc[p].pc \in {"unborn", "dead", "idle"}
    BY DEF Settled, Adoptable, SettleInv, Told, BInv, TypeOK
  <2>2. Accounted \/ journal.claimed  BY <2>1 DEF SettleInv, FinalInv
  <2>3. CASE journal.claimed
    <3>1. Accounted \/ \E l \in journal.pending : l.upto >= done
      BY <2>1, <2>3 DEF SettleInv, ClaimedInv, BooksAll, Bookings
    <3>2. CASE journal.pending # {}
      <4>1. journal.booked >= done  BY <2>1, <3>2 DEF Settled, Adoptable, Finished
      <4>2. /\ Rows(journal.booked, times) /\ done \in Total /\ journal.booked \in Total
        BY DEF BInv, CountedInv, TypeOK
      <4> QED  BY <4>1, <4>2 DEF Rows, Accounted, Total, Shares
    <3> QED  BY <3>1, <3>2
  <2> QED  BY <2>2, <2>3
<1> QED  BY <1>1, <1>2, <1>3, PTL DEF Spec

-----------------------------------------------------------------------------
(* Shares booked twice were named by an alert.                             *)
(*                                                                         *)
(* If all processes can use the lock, whoever takes it alerts the bookings *)
(* that others began under it and have not confirmed, so that from then on *)
(* only its own booking can write rows that no alert has named, and it     *)
(* begins beyond all rows but those.                                       *)

\* The shares of a booking
Work(r) == Span(r.rep, r.upto)

\* A booking under way, of shares that no alert has named
Risky(r) == r.pc \in {"write", "confirm"} /\ ~(Work(r) \subseteq flagged)

\* What the holder of the lock, or whoever takes it next, begins from
Base == IF lock # None THEN proc[lock].rep ELSE journal.booked

\* Who works has the lock, but for a booking that outlived its resume
HoldInv == \A p \in Procs :
    /\ lock = p <=> proc[p].pc \in Active /\ ~proc[p].background
    /\ proc[p].background => proc[p].pc \in {"write", "confirm"}

\* Nobody has booked more than the journal says, or begun beyond the holder
RepInv == \A p \in Procs :
    /\ proc[p].pc \in Active \/ (proc[p].pc = "idle" /\ ~proc[p].fin) =>
          proc[p].rep <= journal.booked
    /\ proc[p].pc \in Active => proc[p].rep <= Base
    /\ proc[p].pc \in Bookings => proc[p].upto > proc[p].rep

\* Every booking of shares not named by an alert has its line
LineInv ==
    /\ \A l \in journal.pending : l.locked /\ l.from <= Base
    /\ \A q \in Procs : Risky(proc[q]) =>
          \E l \in journal.pending : l.from = proc[q].rep /\ l.upto = proc[q].upto

\* A total that was alerted had all shares up to it named
KeyInv == \A n \in keyed : Span(Base, n) \subseteq flagged

\* One such booking at a time, and it is the holder's
OneRisky ==
    /\ \A p, q \in Procs : Risky(proc[p]) /\ Risky(proc[q]) => p = q
    /\ lock # None => \A q \in Procs : Risky(proc[q]) => q = lock

\* It books shares that have no rows, beyond what the journal says
FreshInv ==
    /\ \A q \in Procs : proc[q].pc = "write" =>
          \A s \in Work(proc[q]) : times[s] >= 1 => s \in flagged
    /\ \A q \in Procs : Risky(proc[q]) =>
          \A s \in Work(proc[q]) : s <= journal.booked => s \in flagged
    /\ lock # None => \A s \in Shares : s > proc[lock].rep /\ times[s] >= 1 =>
          s \in flagged \/ (proc[lock].pc = "confirm" /\ s <= proc[lock].upto)

\* Rows are in the journal, within a line, or named by an alert; rows written twice are named
NamedInv ==
    /\ \A s \in Shares : times[s] >= 1 /\ s \notin flagged =>
          s <= journal.booked \/ \E l \in journal.pending : s <= l.upto
    /\ \A s \in Shares : times[s] >= 2 => s \in flagged

LockInv ==
    /\ writable /\ lockable = Procs
    /\ HoldInv /\ RepInv /\ LineInv /\ KeyInv /\ OneRisky /\ FreshInv /\ NamedInv

\* Process p goes on to state r: it keeps the booking it is at, or begins one under the lock
Works(p, r) ==
    /\ lock' = lock \/ lock' = Unlocked(p)
    /\ lock' = p <=> r.pc \in Active /\ ~r.background
    /\ r.background => r.pc \in {"write", "confirm"}
    /\ r.pc \in Active \/ (r.pc = "idle" /\ ~r.fin) => r.rep <= journal'.booked
    /\ r.pc \in Active => /\ proc[p].pc \in Active /\ r.rep >= proc[p].rep
                          /\ r.background => r.rep = proc[p].rep
                          /\ proc[p].pc = "confirm" => r.rep >= proc[p].upto
    /\ r.pc \in Bookings => r.upto > r.rep
    /\ r.pc \in {"write", "confirm"} =>
          /\ r.rep = proc[p].rep
          /\ \/ proc[p].pc \in {"write", "confirm"} /\ r.upto = proc[p].upto
             \/ /\ r.pc = "write" /\ proc[p].pc # "confirm" /\ lock = p /\ lock' = p
                /\ \E l \in journal'.pending : l.from = r.rep /\ l.upto = r.upto

\* ... and what it counts as booked it has written, what it could not confirm it alerts
Records(p, r) ==
    /\ flagged \subseteq flagged'
    /\ \A n \in keyed' : n \in keyed \/ (proc[p].pc = "write" /\ n = proc[p].upto
                                         /\ Work(proc[p]) \subseteq flagged')
    /\ journal.booked <= journal'.booked
    /\ \A s \in Shares : s > journal.booked /\ s <= journal'.booked =>
          proc[p].pc = "confirm" /\ s \in Work(proc[p])
    /\ \A l \in journal.pending : l \in journal'.pending \/ l.upto <= journal'.booked
    /\ \A l \in journal'.pending :
          l \in journal.pending \/ (l.locked /\ l.from = proc[p].rep /\ lock = p)
    /\ \A s \in Shares : times'[s] # times[s] =>
          /\ proc[p].pc = "write" /\ s \in Work(proc[p]) /\ times'[s] = Twice(times[s])
          /\ r.pc # "write" /\ (s \in flagged' \/ r.pc = "confirm")

Proceeds(p, r) == Works(p, r) /\ Records(p, r)

\* Totals and their order
LEMMA Counts ==
  ASSUME BInv
  PROVE  /\ journal.booked \in Nat /\ \A q \in Procs : proc[q].rep \in Nat /\ proc[q].upto \in Nat
         /\ \A l \in journal.pending : l.from \in Nat /\ l.upto \in Nat
         /\ \A n \in keyed : n \in Nat
         /\ \A s \in Shares : times[s] \in 0 .. 2
         /\ proc \in [Procs -> ProcStates] /\ lock \in Procs \cup {None}
BY DEF BInv, TypeOK, ProcStates, Total, Lines

\* The holder begins ever further.
LEMMA BaseGrows ==
  ASSUME BInv, BInv', LockInv, NEW p \in Procs, NEW r \in ProcStates, Set(p, r), Proceeds(p, r)
  PROVE  Base <= Base' /\ Base \in Nat /\ Base' \in Nat
<1>1. proc'[p] = r /\ \A q \in Procs \ {p} : proc'[q] = proc[q]
  BY DEF Set, BInv, TypeOK
<1>2. /\ journal.booked \in Nat /\ journal'.booked \in Nat /\ r.rep \in Nat
      /\ \A q \in Procs : proc[q].rep \in Nat
      /\ lock \in Procs \cup {None}
  BY Counts DEF BInv, TypeOK, ProcStates, Total
<1>3. journal.booked <= journal'.booked  BY DEF Proceeds, Records
<1>4. CASE lock = None
  <2>1. lock' = None  BY <1>4 DEF Proceeds, Works, Unlocked
  <2> QED  BY <1>2, <1>3, <1>4, <2>1 DEF Base
<1>5. CASE lock # None /\ lock # p
  <2>1. lock' = lock  BY <1>5 DEF Proceeds, Works, Unlocked
  <2> QED  BY <1>1, <1>2, <1>5, <2>1 DEF Base
<1>6. CASE lock = p
  <2>1. proc[p].rep <= journal.booked
    BY <1>6 DEF LockInv, HoldInv, RepInv
  <2>2. CASE lock' = p
    <3>1. r.rep >= proc[p].rep  BY <2>2 DEF Proceeds, Works
    <3> QED  BY <1>1, <1>2, <1>6, <2>2, <3>1 DEF Base
  <2>3. CASE lock' = None
    BY <1>2, <1>3, <1>6, <2>1, <2>3 DEF Base
  <2> QED  BY <1>6, <2>2, <2>3 DEF Proceeds, Works, Unlocked
<1> QED  BY <1>2, <1>4, <1>5, <1>6

\* A process at work, and its journal, counted in natural numbers after a step too
LEMMA CountsNext ==
  ASSUME BInv, BInv', NEW p \in Procs, NEW r \in ProcStates, Set(p, r)
  PROVE  /\ proc'[p] = r /\ \A q \in Procs \ {p} : proc'[q] = proc[q]
         /\ journal'.booked \in Nat /\ r.rep \in Nat /\ r.upto \in Nat
         /\ \A l \in journal'.pending : l.from \in Nat /\ l.upto \in Nat
         /\ \A n \in keyed' : n \in Nat
         /\ \A s \in Shares : times'[s] \in 0 .. 2
         /\ lock' \in Procs \cup {None}
<1>1. proc'[p] = r /\ \A q \in Procs \ {p} : proc'[q] = proc[q]
  BY DEF Set, BInv, TypeOK
<1>2. /\ journal'.booked \in Total /\ journal'.pending \subseteq Lines /\ keyed' \subseteq Total
      /\ times' \in [Shares -> 0 .. 2] /\ lock' \in Procs \cup {None}
  BY DEF BInv, TypeOK
<1> QED  BY <1>1, <1>2 DEF ProcStates, Total, Lines

\* Who works has the lock.
LEMMA HoldStep ==
  ASSUME BInv, BInv', LockInv, NEW p \in Procs, NEW r \in ProcStates, Set(p, r), Proceeds(p, r)
  PROVE  HoldInv'
<1>1. proc'[p] = r /\ \A q \in Procs \ {p} : proc'[q] = proc[q]  BY CountsNext
<1>2. HoldInv  BY DEF LockInv
<1>3. /\ lock' = lock \/ lock' = Unlocked(p)
      /\ lock' = p <=> r.pc \in Active /\ ~r.background
      /\ r.background => r.pc \in {"write", "confirm"}
  BY DEF Proceeds, Works
<1>4. ASSUME NEW q \in Procs \ {p} PROVE lock' = q <=> lock = q
  BY <1>3 DEF Unlocked
<1> QED  BY <1>1, <1>2, <1>3, <1>4 DEF HoldInv

\* Nobody begins beyond the holder.
LEMMA RepStep ==
  ASSUME BInv, BInv', LockInv, NEW p \in Procs, NEW r \in ProcStates, Set(p, r), Proceeds(p, r)
  PROVE  RepInv'
<1>1. /\ proc'[p] = r /\ \A q \in Procs \ {p} : proc'[q] = proc[q]
      /\ journal'.booked \in Nat /\ r.rep \in Nat
  BY CountsNext
<1>2. /\ journal.booked \in Nat /\ \A q \in Procs : proc[q].rep \in Nat
  BY Counts
<1>3. Base <= Base' /\ Base \in Nat /\ Base' \in Nat  BY BaseGrows
<1>4. RepInv  BY DEF LockInv
<1>5. ASSUME NEW q \in Procs \ {p}
      PROVE  /\ proc[q].pc \in Active \/ (proc[q].pc = "idle" /\ ~proc[q].fin) =>
                   proc[q].rep <= journal'.booked
             /\ proc[q].pc \in Active => proc[q].rep <= Base'
             /\ proc[q].pc \in Bookings => proc[q].upto > proc[q].rep
  <2>1. journal.booked <= journal'.booked  BY DEF Proceeds, Records
  <2>2. proc[q].rep \in Nat  BY <1>2
  <2> QED  BY <1>1, <1>2, <1>3, <1>4, <2>1, <2>2 DEF RepInv
<1>6. r.pc \in Active => r.rep <= Base'
  <2>1. ASSUME r.pc \in Active PROVE r.rep <= Base'
    <3>1. CASE lock' = p
      <4>1. Base' = r.rep  BY <1>1, <3>1 DEF Base
      <4> QED  BY <1>1, <4>1
    <3>2. CASE lock' # p
      <4>1. r.background  BY <2>1, <3>2 DEF Proceeds, Works
      <4>2. r.rep = proc[p].rep /\ proc[p].pc \in Active  BY <2>1, <4>1 DEF Proceeds, Works
      <4>3. proc[p].rep <= Base  BY <1>4, <4>2 DEF RepInv
      <4> QED  BY <1>1, <1>3, <4>2, <4>3
    <3> QED  BY <3>1, <3>2
  <2> QED  BY <2>1
<1>7. /\ r.pc \in Active \/ (r.pc = "idle" /\ ~r.fin) => r.rep <= journal'.booked
      /\ r.pc \in Bookings => r.upto > r.rep
  BY DEF Proceeds, Works
<1> QED  BY <1>1, <1>5, <1>6, <1>7 DEF RepInv

\* A total confirmed takes in no share of another risky booking.
LEMMA ConfirmedNamed ==
  ASSUME BInv, BInv', LockInv, NEW p \in Procs, NEW r \in ProcStates, Set(p, r), Proceeds(p, r),
         NEW q \in Procs \ {p}, Risky(proc[q])
  PROVE  \A s \in Work(proc[q]) : s <= journal'.booked => s \in flagged'
<1> SUFFICES ASSUME NEW s \in Work(proc[q]), s <= journal'.booked PROVE s \in flagged'
  OBVIOUS
<1>1. flagged \subseteq flagged'  BY DEF Proceeds, Records
<1>2. s \in Shares  BY SpanIs DEF Work, BInv, TypeOK, ProcStates
<1>3. CASE s <= journal.booked
  BY <1>1, <1>3 DEF LockInv, FreshInv
<1>4. CASE s > journal.booked
  <2>1. proc[p].pc = "confirm" /\ s \in Work(proc[p])  BY <1>2, <1>4 DEF Proceeds, Records
  <2>2. ~Risky(proc[p])  BY DEF LockInv, OneRisky
  <2>3. s \in flagged  BY <2>1, <2>2 DEF Risky
  <2> QED  BY <1>1, <2>3
<1>5. s \in Nat /\ journal.booked \in Nat  BY <1>2, Counts DEF Shares
<1> QED  BY <1>3, <1>4, <1>5

\* Every risky booking keeps its line.
LEMMA LineStep ==
  ASSUME BInv, BInv', LockInv, NEW p \in Procs, NEW r \in ProcStates, Set(p, r), Proceeds(p, r)
  PROVE  LineInv'
<1>1. /\ proc'[p] = r /\ \A q \in Procs \ {p} : proc'[q] = proc[q]
      /\ journal'.booked \in Nat /\ r.rep \in Nat /\ r.upto \in Nat
  BY CountsNext
<1>2. /\ journal.booked \in Nat /\ \A q \in Procs : proc[q].rep \in Nat /\ proc[q].upto \in Nat
      /\ \A l \in journal.pending : l.from \in Nat /\ l.upto \in Nat
  BY Counts
<1>3. Base <= Base' /\ Base \in Nat /\ Base' \in Nat  BY BaseGrows
<1>4. LineInv  BY DEF LockInv
<1>5. ASSUME NEW l \in journal'.pending PROVE l.locked /\ l.from <= Base'
  <2>1. CASE l \in journal.pending
    <3>1. l.locked /\ l.from <= Base /\ l.from \in Nat  BY <1>2, <1>4, <2>1 DEF LineInv
    <3> QED  BY <1>3, <3>1
  <2>2. CASE l \notin journal.pending
    <3>1. l.locked /\ l.from = proc[p].rep /\ lock = p  BY <2>2 DEF Proceeds, Records
    <3>2. Base = proc[p].rep  BY <3>1 DEF Base
    <3> QED  BY <1>3, <3>1, <3>2
  <2> QED  BY <2>1, <2>2
<1>6. \A l \in journal.pending : l \in journal'.pending \/ l.upto <= journal'.booked
  BY DEF Proceeds, Records
<1>7. flagged \subseteq flagged'  BY DEF Proceeds, Records
<1>8. ASSUME NEW q \in Procs \ {p}, Risky(proc[q]), ~(Work(proc[q]) \subseteq flagged')
      PROVE  \E l \in journal'.pending : l.from = proc[q].rep /\ l.upto = proc[q].upto
  <2>1. PICK l \in journal.pending : l.from = proc[q].rep /\ l.upto = proc[q].upto
    BY <1>4, <1>8 DEF LineInv
  <2>2. CASE l \in journal'.pending  BY <2>1, <2>2
  <2>3. CASE l.upto <= journal'.booked
    <3>1. \A s \in Work(proc[q]) : s \in Nat /\ s <= proc[q].upto
      BY <1>2 DEF Work, Span
    <3>2. \A s \in Work(proc[q]) : s <= journal'.booked
      BY <1>1, <1>2, <2>1, <2>3, <3>1
    <3> QED  BY <1>8, <3>2, ConfirmedNamed
  <2> QED  BY <1>6, <2>2, <2>3
<1>9. ASSUME r.pc \in {"write", "confirm"}, ~(Work(r) \subseteq flagged')
      PROVE  \E l \in journal'.pending : l.from = r.rep /\ l.upto = r.upto
  <2>1. CASE \E l \in journal'.pending : l.from = r.rep /\ l.upto = r.upto  BY <2>1
  <2>2. CASE proc[p].pc \in {"write", "confirm"} /\ r.upto = proc[p].upto
    <3>1. r.rep = proc[p].rep  BY <1>9 DEF Proceeds, Works
    <3>2. Work(r) = Work(proc[p])  BY <2>2, <3>1 DEF Work
    <3>3. Risky(proc[p])  BY <1>7, <1>9, <2>2, <3>2 DEF Risky
    <3>4. PICK l \in journal.pending : l.from = proc[p].rep /\ l.upto = proc[p].upto
      BY <1>4, <3>3 DEF LineInv
    <3>5. CASE l \in journal'.pending  BY <2>2, <3>1, <3>4, <3>5
    <3>6. CASE l.upto <= journal'.booked
      <4>1. PICK s \in Work(r) : s \notin flagged'  BY <1>9
      <4>2. s \in Shares /\ s \in Nat /\ s <= r.upto
        BY <1>1, <4>1, SpanIs DEF Work, Span, ProcStates, Shares
      <4>3. s > journal.booked
        BY <1>2, <1>7, <3>2, <3>3, <4>1, <4>2 DEF LockInv, FreshInv
      <4>4. s <= journal'.booked  BY <1>1, <2>2, <3>4, <3>6, <4>2
      <4>5. proc[p].pc = "confirm"  BY <4>2, <4>3, <4>4 DEF Proceeds, Records
      <4>6. r.rep >= proc[p].upto  BY <1>9, <4>5 DEF Proceeds, Works, Active, Bookings
      <4>7. r.upto > r.rep  BY <1>9 DEF Proceeds, Works, Bookings
      <4> QED  BY <1>1, <1>2, <2>2, <4>6, <4>7
    <3> QED  BY <1>6, <3>5, <3>6
  <2> QED  BY <1>9, <2>1, <2>2 DEF Proceeds, Works
<1>10. ASSUME NEW q \in Procs, Risky(proc[q])'
       PROVE  \E l \in journal'.pending : l.from = proc'[q].rep /\ l.upto = proc'[q].upto
  <2>1. proc'[q].pc \in {"write", "confirm"} /\ ~(Work(proc'[q]) \subseteq flagged')
    BY <1>10 DEF Risky, Work
  <2>2. CASE q = p  BY <1>1, <1>9, <2>1, <2>2
  <2>3. CASE q # p
    <3>1. Risky(proc[q])  BY <1>1, <1>7, <2>1, <2>3 DEF Risky
    <3> QED  BY <1>1, <1>8, <2>1, <2>3, <3>1
  <2> QED  BY <2>2, <2>3
<1> QED  BY <1>5, <1>10 DEF LineInv

\* Who begins further has fewer shares to go.
LEMMA SpanShrinks ==
  \A a, b \in Nat : a <= b => \A n \in Nat : Span(b, n) \subseteq Span(a, n)
BY DEF Span

\* A total is alerted with all the shares the holder has still to book.
LEMMA KeyStep ==
  ASSUME BInv, BInv', LockInv, NEW p \in Procs, NEW r \in ProcStates, Set(p, r), Proceeds(p, r)
  PROVE  KeyInv'
<1>1. Base <= Base' /\ Base \in Nat /\ Base' \in Nat  BY BaseGrows
<1>2. flagged \subseteq flagged'  BY DEF Proceeds, Records
<1>3. ASSUME NEW n \in keyed' PROVE Span(Base', n) \subseteq flagged'
  <2>1. n \in Nat  BY CountsNext
  <2>2. CASE n \in keyed
    <3>1. Span(Base, n) \subseteq flagged  BY <2>2 DEF LockInv, KeyInv
    <3>2. Span(Base', n) \subseteq Span(Base, n)  BY <1>1, <2>1, SpanShrinks
    <3> QED  BY <1>2, <3>1, <3>2
  <2>3. CASE proc[p].pc = "write" /\ n = proc[p].upto /\ Work(proc[p]) \subseteq flagged'
    <3>1. proc[p].rep <= Base  BY <2>3 DEF LockInv, RepInv, Active, Bookings
    <3>2. proc[p].rep \in Nat  BY Counts
    <3>3. proc[p].rep <= Base'  BY <1>1, <3>1, <3>2
    <3>4. Span(Base', n) \subseteq Span(proc[p].rep, n)
      BY <1>1, <2>1, <3>2, <3>3, SpanShrinks
    <3> QED  BY <2>3, <3>4 DEF Work
  <2> QED  BY <2>2, <2>3 DEF Proceeds, Records
<1>4. \A n \in keyed' : Span(Base', n) = Span(Base, n)'
  BY DEF Span
<1> QED  BY <1>3, <1>4 DEF KeyInv

\* What is risky after the step was so before, or has the lock.
LEMMA RiskyBefore ==
  ASSUME BInv, BInv', LockInv, NEW p \in Procs, NEW r \in ProcStates, Set(p, r), Proceeds(p, r),
         NEW q \in Procs, Risky(proc[q])'
  PROVE  Risky(proc[q]) \/ (q = p /\ lock = p /\ lock' = p)
<1>1. proc'[p] = r /\ \A o \in Procs \ {p} : proc'[o] = proc[o]  BY CountsNext
<1>2. proc'[q].pc \in {"write", "confirm"} /\ ~(Work(proc'[q]) \subseteq flagged')
  BY DEF Risky, Work
<1>3. flagged \subseteq flagged'  BY DEF Proceeds, Records
<1>4. CASE q # p  BY <1>1, <1>2, <1>3, <1>4 DEF Risky
<1>5. CASE q = p
  <2>1. r.pc \in {"write", "confirm"} /\ ~(Work(r) \subseteq flagged')  BY <1>1, <1>2, <1>5
  <2>2. CASE proc[p].pc \in {"write", "confirm"} /\ r.upto = proc[p].upto
    <3>1. Work(r) = Work(proc[p])  BY <2>1, <2>2 DEF Proceeds, Works, Work
    <3> QED  BY <1>3, <1>5, <2>1, <2>2, <3>1 DEF Risky
  <2>3. CASE r.pc = "write" /\ lock = p /\ lock' = p
    BY <1>5, <2>3
  <2> QED  BY <2>1, <2>2, <2>3 DEF Proceeds, Works
<1> QED  BY <1>4, <1>5

\* The holder's booking is the only risky one.
LEMMA OneStep ==
  ASSUME BInv, BInv', LockInv, NEW p \in Procs, NEW r \in ProcStates, Set(p, r), Proceeds(p, r)
  PROVE  OneRisky'
<1>1. OneRisky  BY DEF LockInv
<1>2. ASSUME NEW a \in Procs, NEW b \in Procs, Risky(proc[a])', Risky(proc[b])'
      PROVE  a = b
  <2>1. Risky(proc[a]) \/ (a = p /\ lock = p)  BY <1>2, RiskyBefore
  <2>2. Risky(proc[b]) \/ (b = p /\ lock = p)  BY <1>2, RiskyBefore
  <2> QED  BY <1>1, <2>1, <2>2, ProcsAssumption DEF OneRisky
<1>3. ASSUME lock' # None, NEW q \in Procs, Risky(proc[q])' PROVE q = lock'
  <2>1. lock' = lock  BY <1>3 DEF Proceeds, Works, Unlocked
  <2>2. Risky(proc[q]) \/ (q = p /\ lock = p)  BY <1>3, RiskyBefore
  <2> QED  BY <1>1, <1>3, <2>1, <2>2 DEF OneRisky
<1> QED  BY <1>2, <1>3 DEF OneRisky

\* A row that another process adds to a share is named by an alert, or within its risky booking
LEMMA OthersRows ==
  ASSUME BInv, BInv', LockInv, NEW p \in Procs, NEW r \in ProcStates, Set(p, r), Proceeds(p, r),
         NEW s \in Shares, times'[s] >= 1
  PROVE  \/ times[s] >= 1
         \/ proc[p].pc = "write" /\ s \in Work(proc[p])
              /\ (s \in flagged \/ Risky(proc[p]))
BY DEF Proceeds, Records, Risky

\* What is about to be written has no rows.
LEMMA FreshStep ==
  ASSUME BInv, BInv', LockInv, NEW p \in Procs, NEW r \in ProcStates, Set(p, r), Proceeds(p, r)
  PROVE  FreshInv'
<1>1. /\ proc'[p] = r /\ \A q \in Procs \ {p} : proc'[q] = proc[q]
      /\ journal'.booked \in Nat /\ r.rep \in Nat /\ r.upto \in Nat
      /\ \A s \in Shares : times'[s] \in 0 .. 2
  BY CountsNext
<1>2. /\ journal.booked \in Nat /\ \A q \in Procs : proc[q].rep \in Nat /\ proc[q].upto \in Nat
      /\ \A s \in Shares : times[s] \in 0 .. 2
  BY Counts
<1>3. flagged \subseteq flagged'  BY DEF Proceeds, Records
<1>4. FreshInv /\ OneRisky  BY DEF LockInv
<1>5. \A q \in Procs : Work(proc[q]) \subseteq Shares
  BY SpanIs DEF Work, BInv, TypeOK, ProcStates
<1>6. Work(r) \subseteq Shares  BY SpanIs DEF Work, ProcStates
\* another process
<1>7. ASSUME NEW q \in Procs \ {p}, proc[q].pc = "write", NEW s \in Work(proc[q]),
             times'[s] >= 1
      PROVE  s \in flagged'
  <2>1. CASE times[s] >= 1  BY <1>3, <1>4, <1>7, <2>1 DEF FreshInv
  <2>2. CASE s \in flagged  BY <1>3, <2>2
  <2>3. CASE Risky(proc[p])
    <3>1. ~Risky(proc[q])  BY <1>4, <2>3 DEF OneRisky
    <3> QED  BY <1>3, <1>7, <3>1 DEF Risky
  <2> QED  BY <1>5, <1>7, <2>1, <2>2, <2>3, OthersRows
\* a booking that begins
<1>8. ASSUME r.pc = "write", proc[p].pc # "confirm", lock = p, NEW s \in Work(r), times[s] >= 1
      PROVE  s \in flagged
  <2>1. r.rep = proc[p].rep  BY <1>8 DEF Proceeds, Works
  <2>2. s \in Shares /\ s > proc[p].rep
    BY <1>1, <1>2, <1>6, <1>8, <2>1 DEF Work, Span
  <2> QED  BY <1>4, <1>8, <2>2, ProcsAssumption DEF FreshInv
<1>9. ASSUME r.pc = "write", NEW s \in Work(r), times'[s] >= 1
      PROVE  s \in flagged'
  <2>1. times'[s] = times[s]  BY <1>6, <1>9 DEF Proceeds, Records
  <2>2. CASE proc[p].pc # "confirm" /\ lock = p  BY <1>3, <1>8, <1>9, <2>1, <2>2
  <2>3. CASE proc[p].pc \in {"write", "confirm"} /\ r.upto = proc[p].upto
    <3>1. Work(r) = Work(proc[p])  BY <1>9, <2>3 DEF Proceeds, Works, Work
    <3>2. proc[p].pc = "write"
      BY <1>1, <1>2, <1>9, <2>3 DEF Proceeds, Works, Active, Bookings
    <3> QED  BY <1>3, <1>4, <1>9, <2>1, <3>1, <3>2 DEF FreshInv
  <2> QED  BY <1>9, <2>2, <2>3 DEF Proceeds, Works
<1>10. \A q \in Procs : proc'[q].pc = "write" =>
          \A s \in Work(proc'[q]) : times'[s] >= 1 => s \in flagged'
  BY <1>1, <1>7, <1>9
\* a share that the journal counts now
<1>11. ASSUME NEW q \in Procs, Risky(proc[q])', NEW s \in Work(proc'[q]), s <= journal'.booked
       PROVE  s \in flagged'
  <2>1. CASE q # p
    <3>1. Risky(proc[q])  BY <1>11, <2>1, RiskyBefore
    <3> QED  BY <1>1, <1>11, <2>1, <3>1, ConfirmedNamed
  <2>2. CASE q = p
    <3>1. /\ r.pc \in {"write", "confirm"} /\ ~(Work(r) \subseteq flagged') /\ s \in Work(r)
          /\ r.rep = proc[p].rep
      BY <1>1, <1>11, <2>2 DEF Risky, Work, Proceeds, Works
    <3>2. s \in Shares /\ s \in Nat /\ s <= r.upto
      BY <1>1, <1>6, <3>1 DEF Work, Span, Shares
    <3>3. CASE proc[p].pc \in {"write", "confirm"} /\ r.upto = proc[p].upto
      <4>1. Work(r) = Work(proc[p])  BY <3>1, <3>3 DEF Work
      <4>2. Risky(proc[p])  BY <1>3, <3>1, <3>3, <4>1 DEF Risky
      <4>3. proc[p].pc # "confirm"
        BY <1>1, <1>2, <3>1, <3>3 DEF Proceeds, Works, Active, Bookings
      <4>4. s <= journal.booked  BY <1>2, <1>11, <3>2, <4>3 DEF Proceeds, Records
      <4> QED  BY <1>3, <1>4, <3>1, <4>1, <4>2, <4>4 DEF FreshInv
    <3>4. CASE r.pc = "write" /\ proc[p].pc # "confirm" /\ lock = p
      <4>1. s <= journal.booked  BY <1>2, <1>11, <3>2, <3>4 DEF Proceeds, Records
      <4>2. times[s] >= 1  BY <3>2, <4>1 DEF BInv, CountedInv, Rows
      <4> QED  BY <1>3, <1>8, <3>1, <3>4, <4>2
    <3> QED  BY <3>1, <3>3, <3>4 DEF Proceeds, Works
  <2> QED  BY <2>1, <2>2
\* the holder
<1>12. ASSUME lock' # None, NEW s \in Shares, s > proc'[lock'].rep, times'[s] >= 1
       PROVE  s \in flagged' \/ (proc'[lock'].pc = "confirm" /\ s <= proc'[lock'].upto)
  <2>1. lock' = lock /\ lock \in Procs  BY <1>12, Counts DEF Proceeds, Works, Unlocked
  <2>2. CASE lock # p
    <3>1. proc'[lock'] = proc[lock]  BY <1>1, <2>1, <2>2
    <3>2. CASE times[s] >= 1
      BY <1>3, <1>4, <1>12, <2>1, <3>1, <3>2 DEF FreshInv
    <3>3. ~Risky(proc[p])  BY <1>4, <1>12, <2>1, <2>2 DEF OneRisky
    <3> QED  BY <1>3, <1>12, <3>2, <3>3, OthersRows
  <2>3. CASE lock = p
    <3>1. proc'[lock'] = r /\ r.pc \in Active  BY <1>1, <2>1, <2>3 DEF Proceeds, Works
    <3>2. r.rep >= proc[p].rep /\ (proc[p].pc = "confirm" => r.rep >= proc[p].upto)
      BY <3>1 DEF Proceeds, Works
    <3>3. s \in Nat /\ s > r.rep  BY <1>12, <3>1 DEF Shares
    <3>4. CASE times'[s] = times[s]
      <4>1. s > proc[p].rep  BY <1>1, <1>2, <3>2, <3>3
      <4>2. s \in flagged \/ (proc[p].pc = "confirm" /\ s <= proc[p].upto)
        BY <1>4, <1>12, <2>1, <2>3, <3>4, <4>1 DEF FreshInv
      <4> QED  BY <1>1, <1>2, <1>3, <3>2, <3>3, <4>2
    <3>5. CASE times'[s] # times[s]
      <4>1. s \in Work(proc[p]) /\ (s \in flagged' \/ r.pc = "confirm")
        BY <3>5 DEF Proceeds, Records
      <4>2. r.pc = "confirm" => r.upto = proc[p].upto  BY DEF Proceeds, Works
      <4>3. s <= proc[p].upto  BY <1>2, <4>1 DEF Work, Span
      <4> QED  BY <3>1, <4>1, <4>2, <4>3
    <3> QED  BY <3>4, <3>5
  <2> QED  BY <2>2, <2>3
<1> QED
  <2>1. \A q \in Procs : Work(proc'[q]) = Work(proc[q])'  BY DEF Work, Span
  <2> QED  BY <1>10, <1>11, <1>12, <2>1 DEF FreshInv

\* Rows stay where the journal or an alert knows them.
LEMMA NamedStep ==
  ASSUME BInv, BInv', LockInv, NEW p \in Procs, NEW r \in ProcStates, Set(p, r), Proceeds(p, r)
  PROVE  NamedInv'
<1>1. /\ journal'.booked \in Nat /\ \A l \in journal'.pending : l.upto \in Nat
      /\ \A s \in Shares : times'[s] \in 0 .. 2
  BY CountsNext
<1>2. /\ journal.booked \in Nat /\ \A q \in Procs : proc[q].rep \in Nat /\ proc[q].upto \in Nat
      /\ \A s \in Shares : times[s] \in 0 .. 2 /\ \A l \in journal.pending : l.upto \in Nat
  BY Counts
<1>3. flagged \subseteq flagged' /\ journal.booked <= journal'.booked
  BY DEF Proceeds, Records
<1>4. FreshInv /\ NamedInv /\ LineInv  BY DEF LockInv
<1>5. ASSUME NEW s \in Shares, times'[s] >= 1, s \notin flagged'
      PROVE  s <= journal'.booked \/ \E l \in journal'.pending : s <= l.upto
  <2>0. s \in Nat  BY DEF Shares
  <2>1. ASSUME NEW l \in journal.pending, s <= l.upto
        PROVE  s <= journal'.booked \/ \E k \in journal'.pending : s <= k.upto
    BY <1>1, <1>2, <2>0, <2>1 DEF Proceeds, Records
  <2>2. CASE times[s] >= 1
    <3>1. s <= journal.booked \/ \E l \in journal.pending : s <= l.upto
      BY <1>3, <1>4, <1>5, <2>2 DEF NamedInv
    <3> QED  BY <1>1, <1>2, <1>3, <2>0, <2>1, <3>1
  <2>3. CASE proc[p].pc = "write" /\ s \in Work(proc[p]) /\ Risky(proc[p])
    <3>1. PICK l \in journal.pending : l.upto = proc[p].upto  BY <1>4, <2>3 DEF LineInv
    <3>2. s <= l.upto  BY <1>2, <2>3, <3>1 DEF Work, Span
    <3> QED  BY <2>1, <3>2
  <2> QED  BY <1>3, <1>5, <2>2, <2>3, OthersRows
<1>6. ASSUME NEW s \in Shares, times'[s] >= 2 PROVE s \in flagged'
  <2>1. CASE times'[s] = times[s]  BY <1>3, <1>4, <1>6, <2>1 DEF NamedInv
  <2>2. CASE times'[s] # times[s]
    <3>1. proc[p].pc = "write" /\ s \in Work(proc[p]) /\ times[s] >= 1
      BY <1>2, <1>6, <2>2 DEF Proceeds, Records, Twice
    <3> QED  BY <1>3, <1>4, <3>1 DEF FreshInv
  <2> QED  BY <2>1, <2>2
<1> QED  BY <1>5, <1>6 DEF NamedInv

\* All of it, if the journal can be written
LEMMA LockStep ==
  ASSUME BInv, BInv', LockInv, NEW p \in Procs, NEW r \in ProcStates, Set(p, r), Proceeds(p, r),
         UNCHANGED <<writable, lockable>>
  PROVE  LockInv'
BY HoldStep, RepStep, LineStep, KeyStep, OneStep, FreshStep, NamedStep DEF LockInv

\* Neither rows nor alerts nor what the journal counts change
Quiet ==
    /\ UNCHANGED <<times, flagged, keyed>>
    /\ journal'.booked = journal.booked /\ journal'.pending = journal.pending

\* ... so nothing is recorded.
LEMMA QuietRecords ==
  ASSUME BInv, NEW p \in Procs, NEW r \in ProcStates, Quiet
  PROVE  Records(p, r)
<1>1. journal.booked \in Nat /\ Shares \subseteq Nat  BY Counts DEF Shares
<1>2. journal'.booked = journal.booked /\ journal'.pending = journal.pending  BY DEF Quiet
<1>3. flagged' = flagged /\ keyed' = keyed /\ times' = times  BY DEF Quiet
<1>4. \A s \in Shares : ~(s > journal.booked /\ s <= journal'.booked)  BY <1>1, <1>2
<1>5. journal.booked <= journal'.booked  BY <1>1, <1>2
<1>6. \A n \in keyed' : n \in keyed  BY <1>3
<1>7. \A s \in Shares : times'[s] = times[s]  BY <1>3
<1> QED  BY <1>2, <1>3, <1>4, <1>5, <1>6, <1>7 DEF Records

\* A resume that ends lets go of the lock.
LEMMA LeaveProceeds ==
  ASSUME BInv, LockInv, NEW p \in Procs, NEW r \in ProcStates, Leave(p, r),
         r.fin \/ r.rep <= journal.booked, Quiet
  PROVE  Set(p, Left(r)) /\ Left(r) \in ProcStates /\ Proceeds(p, Left(r))
<1>1. Set(p, Left(r)) /\ lock' = Unlocked(p)  BY DEF Leave, Left
<1>2. /\ Left(r) \in ProcStates /\ Left(r).pc = "idle" /\ Left(r).rep = r.rep
      /\ Left(r).fin = r.fin /\ ~Left(r).background
  BY LeftIs
<1> HIDE DEF Left
<1>3. lock' # p  BY <1>1 DEF Unlocked
<1>4. journal.booked \in Nat  BY Counts
<1> QED  BY <1>1, <1>2, <1>3, <1>4, QuietRecords DEF Proceeds, Works, Quiet, Active, Bookings

\* Whoever reads or claims holds the lock, and has booked what the journal says.
LEMMA Holds ==
  ASSUME BInv, LockInv, NEW p \in Procs, proc[p].pc \in Active \ {"write", "confirm"}
  PROVE  /\ lock = p /\ ~proc[p].background /\ proc[p].rep <= journal.booked
         /\ proc[p] \in ProcStates /\ proc[p].rep \in Nat /\ proc[p].upto \in Nat
         /\ journal.booked \in Nat /\ journal \in Journals
BY Counts, JournalTyped DEF BInv, TypeOK, LockInv, HoldInv, RepInv

\* A process that starts begins with what the journal says.
LEMMA LockBoot ==
  ASSUME BInv, LockInv, NEW p \in Procs, Boot(p)
  PROVE  \E r \in ProcStates : Set(p, r) /\ Proceeds(p, r)
<1> DEFINE r == [proc[p] EXCEPT !.pc = "idle", !.rep = journal.booked]
<1>1. proc[p] \in ProcStates /\ journal.booked \in Total /\ proc[p].pc = "unborn"
  BY DEF BInv, TypeOK, Boot
<1>2. /\ r \in ProcStates /\ r.pc = "idle" /\ r.rep = journal.booked
      /\ r.background = proc[p].background
  BY <1>1 DEF ProcStates, PCs
<1>3. Set(p, r) /\ lock' = lock /\ Quiet  BY DEF Boot, journalVars, alertVars, Quiet
<1> HIDE DEF r
<1>4. lock # p /\ ~proc[p].background
  BY <1>1 DEF LockInv, HoldInv, Active, Bookings
<1>5. journal.booked \in Nat  BY Counts
<1> QED  BY <1>2, <1>3, <1>4, <1>5, QuietRecords DEF Proceeds, Works, Quiet, Active, Bookings

\* The kernel drops the lock of a process that dies.
LEMMA LockCrash ==
  ASSUME BInv, LockInv, NEW p \in Procs, Crash(p)
  PROVE  \E r \in ProcStates : Set(p, r) /\ Proceeds(p, r)
<1> DEFINE r == NewProc("dead", 0)
<1>1. r \in ProcStates /\ r.pc = "dead" /\ ~r.background
  BY DEF NewProc, ProcStates, PCs, Total, Unknown
<1>2. Set(p, r) /\ lock' = Unlocked(p) /\ Quiet
  BY DEF Crash, journalVars, alertVars, Quiet
<1> HIDE DEF r
<1>3. lock' # p  BY <1>2 DEF Unlocked
<1>4. journal.booked \in Nat  BY Counts
<1> QED  BY <1>1, <1>2, <1>3, <1>4, QuietRecords DEF Proceeds, Works, Quiet, Active, Bookings

\* Progress is booked under the lock, from what the holder has booked.
LEMMA LockBegin ==
  ASSUME BInv, LockInv, NEW p \in Procs, NEW base \in Journals,
         base.booked = journal.booked, base.pending = journal.pending,
         NEW stage \in {"first", "second"}, NEW upto \in (0 .. done) \cup {Unknown},
         MayBookProgress(p, upto), Begin(p, base, stage, upto), proc[p].pc \in {"read1", "read2"},
         UNCHANGED <<times, flagged, keyed>>
  PROVE  \E r \in ProcStates : Set(p, r) /\ Proceeds(p, r)
<1> DEFINE r == [proc[p] EXCEPT !.pc = "write", !.stage = stage, !.upto = upto]
           line == [from |-> proc[p].rep, upto |-> upto, fin |-> FALSE, locked |-> TRUE]
<1>1. /\ proc[p] \in ProcStates /\ proc[p].rep \in Total /\ done \in Total
      /\ upto > proc[p].rep /\ lock = p
  BY DEF BInv, TypeOK, ProcStates, MayBookProgress
<1>2. upto \in Total  BY <1>1 DEF Unknown, Total
<1>3. /\ r \in ProcStates /\ r.pc = "write" /\ r.rep = proc[p].rep /\ r.upto = upto
      /\ r.background = proc[p].background
  BY <1>1, <1>2 DEF ProcStates, PCs
<1>4. line \in Lines /\ line.from = proc[p].rep /\ line.upto = upto /\ line.locked
  BY <1>1, <1>2 DEF Lines
<1>5. Set(p, r) /\ journal' = Pending(base, line) /\ lock' = lock  BY DEF Begin
<1> HIDE DEF r, line
<1>6. journal'.booked = journal.booked /\ journal'.pending = journal.pending \cup {line}
  BY <1>4, <1>5, JournalKeeps, JournalFields
<1>7. /\ ~proc[p].background /\ proc[p].rep <= journal.booked
      /\ journal.booked \in Nat /\ proc[p].rep \in Nat
  BY Holds DEF Active, Bookings
<1>8. Proceeds(p, r)
  <2>1. \E l \in journal'.pending : l.from = r.rep /\ l.upto = r.upto
    BY <1>3, <1>4, <1>6
  <2>2. Works(p, r)
    BY <1>1, <1>3, <1>5, <1>6, <1>7, <2>1 DEF Works, Active, Bookings
  <2>3. Shares \subseteq Nat  BY DEF Shares
  <2>4. Records(p, r)
    <3>1. times' = times /\ flagged' = flagged /\ keyed' = keyed  OBVIOUS
    <3>2. \A s \in Shares : ~(s > journal.booked /\ s <= journal'.booked)
      BY <1>6, <1>7, <2>3
    <3>3. \A l \in journal'.pending :
             l \in journal.pending \/ (l.locked /\ l.from = proc[p].rep /\ lock = p)
      BY <1>1, <1>4, <1>6
    <3> QED  BY <1>6, <1>7, <3>1, <3>2, <3>3 DEF Records
  <2> QED  BY <2>2, <2>4 DEF Proceeds
<1> QED  BY <1>3, <1>5, <1>8

\* A first read keeps the lock.
LEMMA LockReadOpen ==
  ASSUME BInv, LockInv, NEW p \in Procs, ReadOpen(p)
  PROVE  \E r \in ProcStates : Set(p, r) /\ Proceeds(p, r)
<1>1. PICK upto \in (0 .. done) \cup {Unknown} :
        \/ MayBookProgress(p, upto) /\ Begin(p, journal, "first", upto)
        \/ Set(p, [proc[p] EXCEPT !.pc = "read2"]) /\ UNCHANGED <<journal, lock>>
  BY DEF ReadOpen
<1>2. UNCHANGED <<times, flagged, keyed>> /\ proc[p].pc = "read1"
  BY DEF ReadOpen, alertVars
<1>3. /\ lock = p /\ ~proc[p].background /\ proc[p].rep <= journal.booked
      /\ proc[p] \in ProcStates /\ proc[p].rep \in Nat /\ journal.booked \in Nat
      /\ journal \in Journals
  BY <1>2, Holds DEF Active, Bookings
<1>4. CASE MayBookProgress(p, upto) /\ Begin(p, journal, "first", upto)
  BY <1>2, <1>3, <1>4, LockBegin
<1>5. CASE Set(p, [proc[p] EXCEPT !.pc = "read2"]) /\ UNCHANGED <<journal, lock>>
  <2> DEFINE r == [proc[p] EXCEPT !.pc = "read2"]
  <2>1. /\ r \in ProcStates /\ r.pc = "read2" /\ r.rep = proc[p].rep
        /\ r.background = proc[p].background
    BY <1>3 DEF ProcStates, PCs
  <2>2. Set(p, r)  BY <1>5
  <2> HIDE DEF r
  <2>3. Quiet  BY <1>2, <1>5 DEF Quiet
  <2>4. Proceeds(p, r)
    BY <1>2, <1>3, <1>5, <2>1, <2>3, QuietRecords DEF Proceeds, Works, Active, Bookings
  <2> QED  BY <2>1, <2>2, <2>4
<1> QED  BY <1>1, <1>4, <1>5

\* What is reported changes nothing that the journal counts.
LEMMA ReportedQuiet ==
  ASSUME BInv, LockInv, NEW p \in Procs, proc[p].pc \in Active
  PROVE  LET j == Reported(journal, proc[p].rep)
         IN  j \in Journals /\ j.booked = journal.booked /\ j.pending = journal.pending
<1>1. /\ journal \in Journals /\ proc[p].rep \in Total /\ proc[p].rep <= journal.booked
      /\ journal.booked \in Total
  BY JournalTyped DEF BInv, TypeOK, ProcStates, LockInv, RepInv
<1>2. Larger(journal.booked, proc[p].rep) = journal.booked  BY <1>1 DEF Larger, Total
<1> QED  BY <1>1, <1>2, JournalIs, JournalKeeps, JournalFields

\* A last read that finds the order working books its progress or ends.
LEMMA LockStuck ==
  ASSUME BInv, LockInv, NEW p \in Procs, Stuck(p)
  PROVE  \E r \in ProcStates : Set(p, r) /\ Proceeds(p, r)
<1> DEFINE after == IF writable THEN Reported(journal, proc[p].rep) ELSE journal
<1>1. PICK upto \in (0 .. done) \cup {Unknown} :
        \/ MayBookProgress(p, upto) /\ Begin(p, after, "second", upto)
        \/ Leave(p, proc[p]) /\ journal' = after
  BY DEF Stuck
<1>2. UNCHANGED <<times, flagged, keyed>> /\ proc[p].pc = "read2"
  BY DEF Stuck, alertVars
<1>3. proc[p].rep <= journal.booked /\ proc[p] \in ProcStates /\ journal \in Journals
  BY <1>2, Holds DEF Active, Bookings
<1>4. after \in Journals /\ after.booked = journal.booked /\ after.pending = journal.pending
  BY <1>2, <1>3, ReportedQuiet DEF Active
<1> HIDE DEF after
<1>5. CASE MayBookProgress(p, upto) /\ Begin(p, after, "second", upto)
  BY <1>2, <1>4, <1>5, LockBegin
<1>6. CASE Leave(p, proc[p]) /\ journal' = after
  BY <1>2, <1>3, <1>4, <1>6, LeaveProceeds DEF Quiet
<1> QED  BY <1>1, <1>5, <1>6

\* A final read goes on to the claim, or ends.
LEMMA LockReadFinal ==
  ASSUME BInv, LockInv, NEW p \in Procs, ReadFinal(p)
  PROVE  \E r \in ProcStates : Set(p, r) /\ Proceeds(p, r)
<1> DEFINE ended == [proc[p] EXCEPT !.fin = TRUE]
           claims == [proc[p] EXCEPT !.pc = "claim", !.fin = TRUE, !.upto = done,
                                     !.stage = "final"]
<1>1. proc[p].pc \in {"read1", "read2"} /\ done \in Total
  BY DEF ReadFinal, BInv, TypeOK
<1>2. /\ lock = p /\ ~proc[p].background /\ proc[p].rep <= journal.booked
      /\ proc[p] \in ProcStates /\ proc[p].rep \in Nat /\ journal.booked \in Nat
      /\ journal \in Journals
  BY <1>1, Holds DEF Active, Bookings
<1>3. /\ ended \in ProcStates /\ ended.fin
      /\ claims \in ProcStates /\ claims.pc = "claim" /\ claims.fin
      /\ claims.rep = proc[p].rep /\ claims.background = proc[p].background
  BY <1>1, <1>2 DEF ProcStates, PCs
<1>4. Quiet
  <2>1. PICK how \in {"known", "unknown"} :
          journal' = journal \/ journal' = [journal EXCEPT !.final = how, !.last = "final"]
    BY DEF ReadFinal
  <2> QED  BY <1>2, <2>1 DEF ReadFinal, alertVars, Quiet, Journals
<1>5. (Set(p, claims) /\ lock' = lock) \/ Leave(p, ended)  BY DEF ReadFinal
<1> HIDE DEF ended, claims
<1>6. CASE Set(p, claims) /\ lock' = lock
  <2>1. Proceeds(p, claims)
    BY <1>1, <1>2, <1>3, <1>4, <1>6, QuietRecords
       DEF Proceeds, Works, Quiet, Active, Bookings
  <2> QED  BY <1>3, <1>6, <2>1
<1>7. CASE Leave(p, ended)
  BY <1>3, <1>4, <1>7, LeaveProceeds
<1> QED  BY <1>5, <1>6, <1>7

\* The claim is taken, or found taken.
LEMMA LockClaim ==
  ASSUME BInv, LockInv, NEW p \in Procs, Claim(p)
  PROVE  \E r \in ProcStates : Set(p, r) /\ Proceeds(p, r)
<1> DEFINE r == [proc[p] EXCEPT !.pc = "claimed", !.won = ~journal.claimed]
<1>1. proc[p].pc = "claim" /\ journal.claimed \in BOOLEAN /\ writable
  BY DEF Claim, BInv, TypeOK, LockInv
<1>2. /\ lock = p /\ ~proc[p].background /\ proc[p].rep <= journal.booked
      /\ proc[p] \in ProcStates /\ proc[p].rep \in Nat /\ journal.booked \in Nat
      /\ journal \in Journals
  BY <1>1, Holds DEF Active, Bookings
<1>3. /\ r \in ProcStates /\ r.pc = "claimed" /\ r.rep = proc[p].rep
      /\ r.background = proc[p].background
  BY <1>1, <1>2 DEF ProcStates, PCs
<1>4. /\ Set(p, r) /\ journal' = [journal EXCEPT !.claimed = TRUE]
      /\ UNCHANGED <<times, lock, flagged, keyed>>
  BY <1>1 DEF Claim
<1> HIDE DEF r
<1>5. Quiet  BY <1>2, <1>4 DEF Quiet, Journals
<1>6. Proceeds(p, r)
  BY <1>1, <1>2, <1>3, <1>4, <1>5, QuietRecords DEF Proceeds, Works, Quiet, Active, Bookings
<1> QED  BY <1>3, <1>4, <1>6

\* The holder goes on from what the journal says.
LEMMA LockReadBooked ==
  ASSUME BInv, LockInv, NEW p \in Procs, ReadBooked(p)
  PROVE  \E r \in ProcStates : Set(p, r) /\ Proceeds(p, r)
<1> DEFINE from == Larger(proc[p].rep, journal.booked)
           loses == [proc[p] EXCEPT !.rep = proc[p].upto]
           booked == [proc[p] EXCEPT !.rep = from]
           writes == [proc[p] EXCEPT !.pc = "line", !.rep = from]
<1>1. proc[p].pc = "claimed" /\ proc[p].fin /\ proc[p].upto \in Total
  BY DEF ReadBooked, BInv, CountedInv, Sound, TypeOK, ProcStates
<1>2. /\ lock = p /\ ~proc[p].background /\ proc[p].rep <= journal.booked
      /\ proc[p] \in ProcStates /\ proc[p].rep \in Nat /\ journal.booked \in Nat
      /\ journal \in Journals
  BY <1>1, Holds DEF Active, Bookings
<1>3. from = journal.booked /\ from \in Total
  BY <1>2 DEF Larger, Journals
<1>4. \/ Leave(p, loses) \/ Leave(p, booked)
      \/ Set(p, writes) /\ lock' = lock /\ proc[p].upto > from
  BY DEF ReadBooked
<1>5. Quiet  BY DEF ReadBooked, journalVars, alertVars, Quiet
<1> HIDE DEF from
<1>6. /\ loses \in ProcStates /\ loses.fin /\ booked \in ProcStates /\ booked.fin
      /\ writes \in ProcStates /\ writes.pc = "line" /\ writes.rep = from
      /\ writes.upto = proc[p].upto /\ writes.background = proc[p].background
  BY <1>1, <1>2, <1>3 DEF ProcStates, PCs
<1> HIDE DEF loses, booked, writes
<1>7. CASE Leave(p, loses) \/ Leave(p, booked)
  BY <1>5, <1>6, <1>7, LeaveProceeds
<1>8. CASE Set(p, writes) /\ lock' = lock /\ proc[p].upto > from
  <2>1. Proceeds(p, writes)
    BY <1>1, <1>2, <1>3, <1>5, <1>6, <1>8, QuietRecords
       DEF Proceeds, Works, Quiet, Active, Bookings
  <2> QED  BY <1>6, <1>8, <2>1
<1> QED  BY <1>4, <1>7, <1>8

\* The line comes before the rows.
LEMMA LockWriteLine ==
  ASSUME BInv, LockInv, NEW p \in Procs, WriteLine(p)
  PROVE  \E r \in ProcStates : Set(p, r) /\ Proceeds(p, r)
<1> DEFINE r == [proc[p] EXCEPT !.pc = "write"]
           line == [from |-> proc[p].rep, upto |-> proc[p].upto, fin |-> TRUE,
                    locked |-> lock = p]
<1>1. proc[p].pc = "line" /\ writable /\ proc[p].upto > proc[p].rep
  BY DEF WriteLine, LockInv, RepInv, Bookings
<1>2. /\ lock = p /\ ~proc[p].background /\ proc[p].rep <= journal.booked
      /\ proc[p] \in ProcStates /\ proc[p].rep \in Nat /\ journal.booked \in Nat
      /\ journal \in Journals
  BY <1>1, Holds DEF Active, Bookings
<1>3. /\ r \in ProcStates /\ r.pc = "write" /\ r.rep = proc[p].rep /\ r.upto = proc[p].upto
      /\ r.background = proc[p].background
  BY <1>2 DEF ProcStates, PCs
<1>4. line \in Lines /\ line.from = proc[p].rep /\ line.upto = proc[p].upto /\ line.locked
  BY <1>2 DEF Lines, ProcStates
<1>5. /\ Set(p, r) /\ UNCHANGED <<times, lock, flagged, keyed>>
      /\ journal' = Pending(journal, line)
  BY <1>1 DEF WriteLine, alertVars
<1> HIDE DEF r, line
<1>6. journal'.booked = journal.booked /\ journal'.pending = journal.pending \cup {line}
  BY <1>2, <1>4, <1>5, JournalKeeps, JournalFields
<1>7. Works(p, r)
  <2>1. \E l \in journal'.pending : l.from = r.rep /\ l.upto = r.upto
    BY <1>3, <1>4, <1>6
  <2> QED  BY <1>1, <1>2, <1>3, <1>5, <1>6, <2>1 DEF Works, Active, Bookings
<1>8. Records(p, r)
  <2>1. times' = times /\ flagged' = flagged /\ keyed' = keyed  BY <1>5
  <2>2. \A s \in Shares : ~(s > journal.booked /\ s <= journal'.booked)
    BY <1>2, <1>6 DEF Shares
  <2>3. \A l \in journal'.pending :
           l \in journal.pending \/ (l.locked /\ l.from = proc[p].rep /\ lock = p)
    BY <1>2, <1>4, <1>6
  <2> QED  BY <1>2, <1>6, <2>1, <2>2, <2>3 DEF Records
<1> QED  BY <1>3, <1>5, <1>7, <1>8 DEF Proceeds

\* What a booking under way is
LEMMA Underway ==
  ASSUME BInv, LockInv, NEW p \in Procs, proc[p].pc \in {"write", "confirm"}
  PROVE  /\ lock = p <=> ~proc[p].background
         /\ proc[p].rep <= journal.booked /\ proc[p].upto > proc[p].rep
         /\ proc[p] \in ProcStates /\ proc[p].rep \in Nat /\ proc[p].upto \in Nat
         /\ journal.booked \in Nat /\ journal \in Journals /\ proc[p].upto \in Total
BY Counts, JournalTyped
   DEF BInv, TypeOK, LockInv, HoldInv, RepInv, Active, Bookings, ProcStates

\* The rows of a booking are written.
LEMMA LockWriteRows ==
  ASSUME BInv, LockInv, NEW p \in Procs, WriteRows(p)
  PROVE  \E r \in ProcStates : Set(p, r) /\ Proceeds(p, r)
<1> DEFINE r == [proc[p] EXCEPT !.pc = "confirm"]
<1>1. proc[p].pc = "write"  BY DEF WriteRows
<1>2. /\ lock = p <=> ~proc[p].background
      /\ proc[p].rep <= journal.booked /\ proc[p].upto > proc[p].rep
      /\ proc[p] \in ProcStates /\ proc[p].rep \in Nat /\ journal.booked \in Nat
  BY <1>1, Underway
<1>3. /\ r \in ProcStates /\ r.pc = "confirm" /\ r.rep = proc[p].rep /\ r.upto = proc[p].upto
      /\ r.background = proc[p].background
  BY <1>2 DEF ProcStates, PCs
<1>4. Set(p, r) /\ times' = RowsWritten(p) /\ UNCHANGED <<journal, lock, flagged, keyed>>
  BY DEF WriteRows, journalVars, alertVars
<1> HIDE DEF r
<1>5. Works(p, r)
  BY <1>1, <1>2, <1>3, <1>4 DEF Works, Active, Bookings
<1>6. Records(p, r)
  <2>1. \A s \in Shares : ~(s > journal.booked /\ s <= journal'.booked)
    BY <1>2, <1>4 DEF Shares
  <2>2. ASSUME NEW s \in Shares, times'[s] # times[s]
        PROVE  s \in Work(proc[p]) /\ times'[s] = Twice(times[s])
    BY <1>4, <2>2 DEF RowsWritten, Work
  <2> QED  BY <1>1, <1>2, <1>3, <1>4, <2>1, <2>2 DEF Records
<1> QED  BY <1>3, <1>4, <1>5, <1>6 DEF Proceeds

\* Where the await of a booking returns to
LEMMA ReturnIs ==
  ASSUME NEW p \in Procs, NEW r \in ProcStates, Return(p, r)
  PROVE  \E n \in ProcStates :
           /\ Set(p, n) /\ n.rep = r.rep /\ ~n.background
           /\ \/ n.pc = "read2" /\ ~r.background /\ lock' = lock
              \/ n.pc = "idle" /\ lock' = Unlocked(p)
<1>1. CASE /\ Set(p, [r EXCEPT !.pc = "read2"]) /\ lock' = lock /\ ~r.background
  <2> DEFINE n == [r EXCEPT !.pc = "read2"]
  <2>1. n \in ProcStates /\ n.pc = "read2" /\ n.rep = r.rep /\ n.background = r.background
    BY DEF ProcStates, PCs
  <2>2. Set(p, n)  BY <1>1
  <2> HIDE DEF n
  <2> QED  BY <1>1, <2>1, <2>2
<1>2. CASE Leave(p, r)
  <2>1. Set(p, Left(r)) /\ lock' = Unlocked(p)  BY <1>2 DEF Leave, Left
  <2> HIDE DEF Left
  <2> QED  BY <2>1, LeftIs
<1> QED  BY <1>1, <1>2 DEF Return

\* A booking that returns has counted what it has written, or begins again from where it did.
LEMMA ReturnWorks ==
  ASSUME BInv, LockInv, NEW p \in Procs, proc[p].pc \in {"write", "confirm"},
         NEW n \in ProcStates, ~n.background, n.rep >= proc[p].rep, n.rep <= journal'.booked,
         proc[p].pc = "confirm" => n.rep >= proc[p].upto,
         \/ n.pc = "read2" /\ ~proc[p].background /\ lock' = lock
         \/ n.pc = "idle" /\ lock' = Unlocked(p)
  PROVE  Works(p, n)
<1>1. lock = p <=> ~proc[p].background  BY Underway
<1>2. Unlocked(p) # p  BY DEF Unlocked
<1> QED  BY <1>1, <1>2 DEF Works, Active, Bookings

\* What failed is alerted, whether its rows landed or not.
LEMMA LockWriteFails ==
  ASSUME BInv, LockInv, NEW p \in Procs, WriteFails(p)
  PROVE  \E r \in ProcStates : Set(p, r) /\ Proceeds(p, r)
<1> DEFINE r == IF proc[p].stage = "final" THEN proc[p]
                ELSE [proc[p] EXCEPT !.unbookedAt = proc[p].upto]
<1>1. proc[p].pc = "write"  BY DEF WriteFails
<1>2. /\ proc[p].rep <= journal.booked /\ proc[p].upto > proc[p].rep
      /\ proc[p] \in ProcStates /\ proc[p].rep \in Nat /\ journal.booked \in Nat
      /\ proc[p].upto \in Total
  BY <1>1, Underway
<1>3. r \in ProcStates /\ r.rep = proc[p].rep /\ r.background = proc[p].background
  BY <1>2 DEF ProcStates
<1>4. /\ Return(p, r) /\ times' \in {times, RowsWritten(p)}
      /\ flagged' = flagged \cup Work(proc[p]) /\ UNCHANGED journal
      /\ keyed' = keyed \cup {proc[p].upto}
  BY DEF WriteFails, journalVars, Work, Key, LockInv
<1> HIDE DEF r
<1>5. PICK n \in ProcStates :
        /\ Set(p, n) /\ n.rep = r.rep /\ ~n.background
        /\ \/ n.pc = "read2" /\ ~r.background /\ lock' = lock
           \/ n.pc = "idle" /\ lock' = Unlocked(p)
  BY <1>3, <1>4, ReturnIs
<1>6. Works(p, n)  BY <1>1, <1>2, <1>3, <1>4, <1>5, ReturnWorks
<1>7. Records(p, n)
  <2>1. \A s \in Shares : ~(s > journal.booked /\ s <= journal'.booked)
    BY <1>2, <1>4 DEF Shares
  <2>2. ASSUME NEW s \in Shares, times'[s] # times[s]
        PROVE  s \in Work(proc[p]) /\ times'[s] = Twice(times[s])
    BY <1>4, <2>2 DEF RowsWritten, Work
  <2> QED  BY <1>1, <1>2, <1>4, <1>5, <2>1, <2>2 DEF Records
<1> QED  BY <1>5, <1>6, <1>7 DEF Proceeds

\* The journal counts what has its rows.
LEMMA LockConfirm ==
  ASSUME BInv, LockInv, NEW p \in Procs, Confirm(p)
  PROVE  \E r \in ProcStates : Set(p, r) /\ Proceeds(p, r)
<1> DEFINE r == [proc[p] EXCEPT !.rep = proc[p].upto, !.unbookedAt = Unknown]
<1>1. proc[p].pc = "confirm" /\ writable  BY DEF Confirm, LockInv
<1>2. /\ proc[p].rep <= journal.booked /\ proc[p].upto > proc[p].rep
      /\ proc[p] \in ProcStates /\ proc[p].rep \in Nat /\ proc[p].upto \in Nat
      /\ journal.booked \in Nat /\ journal \in Journals /\ proc[p].upto \in Total
  BY <1>1, Underway
<1>3. r \in ProcStates /\ r.rep = proc[p].upto /\ r.background = proc[p].background
  BY <1>2 DEF ProcStates
<1>4. /\ Return(p, r) /\ journal' = Booked(journal, proc[p].upto)
      /\ times' = times /\ flagged' = flagged /\ keyed' = keyed
  BY <1>1 DEF Confirm, alertVars
<1> HIDE DEF r
<1>5. PICK n \in ProcStates :
        /\ Set(p, n) /\ n.rep = r.rep /\ ~n.background
        /\ \/ n.pc = "read2" /\ ~r.background /\ lock' = lock
           \/ n.pc = "idle" /\ lock' = Unlocked(p)
  BY <1>3, <1>4, ReturnIs
<1>6. /\ journal'.booked = Larger(journal.booked, proc[p].upto)
      /\ journal'.pending = {l \in journal.pending : l.upto > proc[p].upto}
  BY <1>2, <1>4, JournalKeeps, JournalFields
<1>7. /\ journal'.booked \in Nat /\ journal'.booked >= journal.booked
      /\ journal'.booked >= proc[p].upto
      /\ journal'.booked \in {journal.booked, proc[p].upto}
  BY <1>2, <1>6 DEF Larger
<1>8. Works(p, n)  BY <1>1, <1>2, <1>3, <1>5, <1>7, ReturnWorks
<1>9. Records(p, n)
  <2>1. ASSUME NEW s \in Shares, s > journal.booked, s <= journal'.booked
        PROVE  s \in Work(proc[p])
    BY <1>2, <1>7, <2>1 DEF Shares, Work, Span
  <2>2. \A l \in journal.pending : l \in journal'.pending \/ l.upto <= journal'.booked
    BY <1>2, <1>6, <1>7, Counts
  <2>3. journal'.pending \subseteq journal.pending  BY <1>6
  <2> QED  BY <1>1, <1>4, <1>7, <2>1, <2>2, <2>3 DEF Records
<1> QED  BY <1>5, <1>8, <1>9 DEF Proceeds

\* A booking whose resume is cut lets go of the lock.
LEMMA LockCut ==
  ASSUME BInv, LockInv, NEW p \in Procs, Cut(p)
  PROVE  \E r \in ProcStates : Set(p, r) /\ Proceeds(p, r)
<1> DEFINE r == [proc[p] EXCEPT !.background = TRUE]
<1>1. /\ proc[p].pc \in {"read1", "read2", "write"} /\ UNCHANGED <<times, flagged, keyed>>
      /\ journal' \in {journal, Reported(journal, proc[p].rep)}
      /\ \/ proc[p].pc = "write" /\ Set(p, r) /\ lock' = Unlocked(p)
         \/ Leave(p, proc[p])
  BY DEF Cut, alertVars
<1>2. Quiet  BY <1>1, ReportedQuiet DEF Quiet, Active, Bookings
<1>3. /\ proc[p] \in ProcStates /\ proc[p].rep \in Nat /\ journal.booked \in Nat
      /\ proc[p].rep <= journal.booked
  BY <1>1, Counts DEF BInv, TypeOK, LockInv, RepInv, Active, Bookings
<1>4. /\ r \in ProcStates /\ r.pc = proc[p].pc /\ r.rep = proc[p].rep /\ r.upto = proc[p].upto
      /\ r.background
  BY <1>3 DEF ProcStates
<1> HIDE DEF r
<1>5. CASE proc[p].pc = "write" /\ Set(p, r) /\ lock' = Unlocked(p)
  <2>1. proc[p].upto > proc[p].rep  BY <1>5, Underway
  <2>2. lock' # p  BY <1>5 DEF Unlocked
  <2>3. Proceeds(p, r)
    BY <1>2, <1>3, <1>4, <1>5, <2>1, <2>2, QuietRecords
       DEF Proceeds, Works, Quiet, Active, Bookings
  <2> QED  BY <1>4, <1>5, <2>3
<1>6. CASE Leave(p, proc[p])
  BY <1>2, <1>3, <1>6, LeaveProceeds
<1> QED  BY <1>1, <1>5, <1>6

\* Whoever takes the lock alerts what others began under it, so that no booking is risky.
LEMMA LockStart ==
  ASSUME BInv, BInv', LockInv, NEW p \in Procs, Start(p)
  PROVE  LockInv'
<1> DEFINE synced == [proc[p] EXCEPT !.rep = Larger(@, journal.booked)]
           ended == [synced EXCEPT !.fin = TRUE]
           reads == [synced EXCEPT !.pc = "read1"]
<1>1. /\ HoldInv /\ RepInv /\ LineInv /\ KeyInv /\ OneRisky /\ FreshInv /\ NamedInv
      /\ writable /\ lockable = Procs
  BY DEF LockInv
<1>2. /\ proc[p] \in ProcStates /\ proc[p].pc = "idle" /\ ~proc[p].fin
      /\ proc[p].rep \in Nat /\ journal.booked \in Nat /\ journal.booked \in Total
      /\ proc[p].rep <= journal.booked /\ ~proc[p].background
  BY <1>1, Counts DEF Start, BInv, TypeOK, RepInv, HoldInv
<1>3. Larger(proc[p].rep, journal.booked) = journal.booked  BY <1>2 DEF Larger
<1>4. /\ lock = None /\ Base = journal.booked
      /\ UNCHANGED <<times, journal, writable, lockable>>
      /\ flagged' = flagged \cup UNION {Span(l.from, l.upto) : l \in ToAlert}
      /\ keyed' = keyed \cup {l.upto : l \in ToAlert}
  BY <1>1 DEF Start, Base, Key, journalVars
<1>5. PICK r \in ProcStates :
        /\ Set(p, r) /\ r.rep = journal.booked /\ ~r.background
        /\ (r.pc = "idle" /\ lock' = None) \/ (r.pc = "read1" /\ lock' = p)
  <2>1. /\ ended \in ProcStates /\ ended.rep = journal.booked /\ ~ended.background
        /\ ended.pc = "idle"
        /\ reads \in ProcStates /\ reads.rep = journal.booked /\ ~reads.background
        /\ reads.pc = "read1"
    BY <1>2, <1>3 DEF ProcStates, PCs
  <2>2. (Set(p, ended) /\ lock' = lock) \/ (Set(p, reads) /\ lock' = p)
    BY <1>1 DEF Start
  <2> HIDE DEF ended, reads
  <2> QED  BY <1>4, <2>1, <2>2
<1>6. /\ proc'[p] = r /\ \A q \in Procs \ {p} : proc'[q] = proc[q]
  BY <1>5, CountsNext
<1>7. Base' = journal.booked
  BY <1>4, <1>5, <1>6 DEF Base
<1>8. flagged \subseteq flagged'  BY <1>4
<1>9. ASSUME NEW l \in journal.pending PROVE Span(journal.booked, l.upto) \subseteq flagged'
  <2>1. l.from \in Nat /\ l.upto \in Nat /\ l.locked /\ l.from <= journal.booked
    BY <1>1, <1>4, Counts DEF LineInv
  <2>2. CASE l.upto \in keyed  BY <1>1, <1>4, <1>8, <2>2 DEF KeyInv
  <2>3. CASE l.upto \notin keyed
    <3>1. l \in ToAlert  BY <2>1, <2>3 DEF ToAlert
    <3>2. Span(l.from, l.upto) \subseteq flagged'  BY <1>4, <3>1
    <3>3. Span(journal.booked, l.upto) \subseteq Span(l.from, l.upto)
      BY <1>2, <2>1 DEF Span
    <3> QED  BY <3>2, <3>3
  <2> QED  BY <2>2, <2>3
<1>10. ASSUME NEW q \in Procs PROVE ~Risky(proc[q])'
  <2> SUFFICES ASSUME q # p, Risky(proc[q]), NEW s \in Work(proc[q]) PROVE s \in flagged'
    BY <1>5, <1>6, <1>8 DEF Risky, Work
  <2>1. PICK l \in journal.pending : l.from = proc[q].rep /\ l.upto = proc[q].upto
    BY <1>1 DEF LineInv
  <2>2. /\ proc[q].rep \in Nat /\ proc[q].upto \in Nat /\ l.upto \in Nat
        /\ s \in Nat /\ s <= proc[q].upto
    BY Counts DEF Work, Span
  <2>3. CASE s <= journal.booked  BY <1>1, <1>8, <2>3 DEF FreshInv
  <2>4. CASE s > journal.booked
    <3>1. s \in Span(journal.booked, l.upto)  BY <1>2, <2>1, <2>2, <2>4 DEF Span
    <3> QED  BY <1>9, <3>1
  <2> QED  BY <1>2, <2>2, <2>3, <2>4
<1>11. HoldInv'  BY <1>1, <1>4, <1>5, <1>6 DEF HoldInv, Active, Bookings
<1>12. RepInv'
  <2>1. \A q \in Procs \ {p} : proc[q].rep \in Nat  BY Counts
  <2> QED  BY <1>1, <1>2, <1>4, <1>5, <1>6, <1>7, <2>1 DEF RepInv, Active, Bookings
<1>13. LineInv'  BY <1>1, <1>4, <1>7, <1>10 DEF LineInv
<1>14. KeyInv'
  <2>1. ASSUME NEW n \in keyed' PROVE Span(journal.booked, n) \subseteq flagged'
    <3>1. CASE n \in keyed  BY <1>1, <1>4, <1>8, <3>1 DEF KeyInv
    <3>2. CASE n \in {l.upto : l \in ToAlert}  BY <1>9, <3>2 DEF ToAlert
    <3> QED  BY <1>4, <3>1, <3>2
  <2> QED  BY <1>7, <2>1 DEF KeyInv
<1>15. OneRisky'  BY <1>10 DEF OneRisky
<1>16. FreshInv'
  <2>1. ASSUME NEW q \in Procs, proc'[q].pc = "write", NEW s \in Work(proc'[q]), times[s] >= 1
        PROVE  s \in flagged'
    <3>1. q # p  BY <1>5, <1>6, <2>1
    <3> QED  BY <1>1, <1>6, <1>8, <2>1, <3>1 DEF FreshInv
  <2>2. ASSUME NEW s \in Shares, s > journal.booked, times[s] >= 1 PROVE s \in flagged'
    <3>1. s \in Nat  BY DEF Shares
    <3>2. CASE s \in flagged  BY <1>8, <3>2
    <3>3. CASE \E l \in journal.pending : s <= l.upto
      <4>1. PICK l \in journal.pending : s <= l.upto  BY <3>3
      <4>2. s \in Span(journal.booked, l.upto)
        BY <1>2, <2>2, <3>1, <4>1, Counts DEF Span
      <4> QED  BY <1>9, <4>2
    <3> QED  BY <1>1, <1>2, <2>2, <3>1, <3>2, <3>3 DEF NamedInv
  <2>3. lock' # None => lock' = p /\ proc'[lock'].rep = journal.booked
    BY <1>5, <1>6
  <2> QED  BY <1>4, <1>10, <2>1, <2>2, <2>3 DEF FreshInv
<1>17. NamedInv'  BY <1>1, <1>4, <1>8 DEF NamedInv
<1> QED
  BY <1>1, <1>4, <1>11, <1>12, <1>13, <1>14, <1>15, <1>16, <1>17 DEF LockInv

\* What only the broker does leaves it.
LEMMA LockStays ==
  ASSUME LockInv,
         UNCHANGED <<times, journal, writable, lockable, lock, proc, flagged, keyed>>
  PROVE  LockInv'
BY DEF LockInv, HoldInv, RepInv, LineInv, KeyInv, OneRisky, FreshInv, NamedInv, Base, Risky,
   Work

\* Every step with the journal writable keeps it.
LEMMA NextLocks ==
  ASSUME BInv, BInv', LockInv, [Next]_vars, "journal" \notin trouble'
  PROVE  LockInv'
<1>1. CASE UNCHANGED vars \/ Trade \/ End
  BY <1>1, LockStays DEF Trade, End, vars, journalVars, alertVars
<1>2. ~JournalFails  BY DEF JournalFails
<1>3. ASSUME NEW p \in Procs, Boot(p) \/ Crash(p) PROVE LockInv'
  <2>1. UNCHANGED <<writable, lockable>>  BY <1>3 DEF Boot, Crash, journalVars
  <2> QED  BY <1>3, <2>1, LockBoot, LockCrash, LockStep
<1>4. ASSUME NEW p \in Procs, ReadOpen(p) \/ Stuck(p) \/ ReadFinal(p) \/ Cut(p) PROVE LockInv'
  <2>1. UNCHANGED <<writable, lockable>>
    BY <1>4 DEF ReadOpen, Stuck, ReadFinal, Cut
  <2> QED  BY <1>4, <2>1, LockReadOpen, LockStuck, LockReadFinal, LockCut, LockStep
<1>5. ASSUME NEW p \in Procs, Book(p) PROVE LockInv'
  <2>1. UNCHANGED <<writable, lockable>>
    BY <1>5 DEF Book, Claim, ReadBooked, WriteLine, WriteRows, WriteFails, Confirm, journalVars
  <2> QED
    BY <1>5, <2>1, LockClaim, LockReadBooked, LockWriteLine, LockWriteRows, LockWriteFails,
       LockConfirm, LockStep
    DEF Book
<1> QED  BY <1>1, <1>2, <1>3, <1>4, <1>5, LockStart DEF Next, Resume

-----------------------------------------------------------------------------
(* If no process can use the lock, only the one that won the claim of the  *)
(* final fill writes rows: once, and beyond what has any.                  *)

\* It has won the claim and has not written its rows
Writing(r) == r.won /\ r.pc \in {"claimed", "line", "write"}

\* A process, with journal j
Unaided(r, j) ==
    /\ ~r.fin \/ r.pc \in {"read1", "read2", "claim"} => r.rep <= j.booked
    /\ r.pc \in {"claim", "claimed"} \cup Bookings => r.stage = "final"
    /\ r.pc \in Bookings => r.won /\ r.fin
    /\ r.won => j.claimed /\ r.pc \in {"claimed"} \cup Bookings
    /\ r.pc \in {"line", "write"} => r.rep >= j.booked

NoLockInv ==
    /\ writable /\ lockable = {} /\ lock = None
    /\ \A p \in Procs : Unaided(proc[p], journal)
    /\ \A p, q \in Procs : proc[p].won /\ proc[q].won => p = q
    /\ \A s \in Shares : times[s] <= 1
    /\ ~journal.claimed \/ (\E p \in Procs : Writing(proc[p])) =>
          \A s \in Shares : s > journal.booked => times[s] = 0

\* One process goes on; if it wins, nobody had won, and if it books, it has won.
LEMMA UnaidedStep ==
  ASSUME BInv, BInv', NoLockInv, NEW p \in Procs, NEW r \in ProcStates, Set(p, r),
         lock' = None, UNCHANGED <<writable, lockable>>, Unaided(r, journal'),
         journal.claimed => journal'.claimed, journal.booked <= journal'.booked,
         journal'.booked = journal.booked \/ proc[p].won,
         r.won => proc[p].won \/ ~journal.claimed,
         Writing(r) => Writing(proc[p]) \/ ~journal.claimed,
         times' = times \/ (proc[p].won /\ ~Writing(r)), \A s \in Shares : times'[s] <= 1
  PROVE  NoLockInv'
<1>1. /\ proc'[p] = r /\ \A q \in Procs \ {p} : proc'[q] = proc[q]
      /\ journal'.booked \in Nat
  BY CountsNext
<1>2. journal.booked \in Nat /\ \A q \in Procs : proc[q].rep \in Nat  BY Counts
<1>3. ASSUME NEW q \in Procs \ {p} PROVE Unaided(proc[q], journal')
  <2>1. Unaided(proc[q], journal) /\ proc[q].rep \in Nat  BY <1>2 DEF NoLockInv
  <2>2. CASE journal'.booked = journal.booked  BY <2>1, <2>2 DEF Unaided
  <2>3. CASE proc[p].won
    <3>1. ~proc[q].won  BY <2>3 DEF NoLockInv
    <3> QED  BY <1>1, <1>2, <2>1, <3>1 DEF Unaided, Bookings
  <2> QED  BY <2>2, <2>3
<1>4. \A a, b \in Procs : proc'[a].won /\ proc'[b].won => a = b
  <2>1. \A q \in Procs : proc[q].won => journal.claimed  BY DEF NoLockInv, Unaided
  <2> QED  BY <1>1, <2>1 DEF NoLockInv
<1>5. ASSUME ~journal'.claimed \/ \E q \in Procs : Writing(proc'[q]),
             NEW s \in Shares, s > journal'.booked
      PROVE  times'[s] = 0
  <2>1. s > journal.booked  BY <1>1, <1>2, <1>5 DEF Shares
  <2>2. ~journal.claimed \/ \E q \in Procs : Writing(proc[q])
    BY <1>1, <1>5
  <2>3. CASE times' = times  BY <2>1, <2>2, <2>3 DEF NoLockInv
  <2>4. CASE proc[p].won /\ ~Writing(r)
    <3>1. journal'.claimed  BY <2>4 DEF NoLockInv, Unaided
    <3>2. PICK q \in Procs : Writing(proc'[q])  BY <1>5, <3>1
    <3>3. q # p /\ proc[q].won  BY <1>1, <2>4, <3>2 DEF Writing
    <3> QED  BY <2>4, <3>3 DEF NoLockInv
  <2> QED  BY <2>3, <2>4
<1>6. \A q \in Procs : Unaided(proc'[q], journal')  BY <1>1, <1>3
<1> QED  BY <1>4, <1>5, <1>6 DEF NoLockInv

\* A resume that ends before a booking
LEMMA UnaidedLeaves ==
  ASSUME BInv, BInv', NoLockInv, NEW p \in Procs, NEW r \in ProcStates, Leave(p, r),
         UNCHANGED <<times, writable, lockable>>, journal'.claimed = journal.claimed,
         journal'.booked = journal.booked, r.fin \/ r.rep <= journal.booked
  PROVE  NoLockInv'
<1>1. Set(p, Left(r)) /\ lock' = Unlocked(p)  BY DEF Leave, Left
<1>2. /\ Left(r) \in ProcStates /\ Left(r).pc = "idle" /\ Left(r).rep = r.rep
      /\ Left(r).fin = r.fin /\ ~Left(r).won
  BY LeftIs
<1> HIDE DEF Left
<1>3. Unaided(Left(r), journal') /\ ~Writing(Left(r))
  BY <1>2 DEF Unaided, Bookings, Writing
<1>4. lock' = None /\ \A s \in Shares : times'[s] <= 1
  BY <1>1 DEF NoLockInv, Unlocked
<1>5. journal.booked <= journal'.booked  BY Counts
<1> QED  BY <1>1, <1>2, <1>3, <1>4, <1>5, UnaidedStep

\* What a process at any point of a resume is, if nobody has the lock
LEMMA Alone ==
  ASSUME BInv, NoLockInv, NEW p \in Procs
  PROVE  /\ proc[p] \in ProcStates /\ Unaided(proc[p], journal) /\ Sound(proc[p], times)
         /\ journal \in Journals /\ journal.booked \in Nat /\ journal.booked \in Total
         /\ proc[p].rep \in Nat /\ proc[p].upto \in Nat /\ proc[p].upto \in Total
         /\ lock # p /\ lock = None /\ Unlocked(p) = None
         /\ \A s \in Shares : times[s] <= 1
BY Counts, JournalTyped DEF BInv, TypeOK, CountedInv, NoLockInv, Unlocked, ProcStates

\* A process starts, or dies.
LEMMA UnaidedLives ==
  ASSUME BInv, BInv', NoLockInv, NEW p \in Procs, Boot(p) \/ Crash(p)
  PROVE  NoLockInv'
<1> DEFINE dead == NewProc("dead", 0)
           born == [proc[p] EXCEPT !.pc = "idle", !.rep = journal.booked]
<1>1. /\ dead \in ProcStates /\ dead.pc = "dead" /\ ~dead.won /\ dead.rep = 0
  BY DEF NewProc, ProcStates, PCs, Total, Unknown
<1>2. /\ UNCHANGED <<times, journal, writable, lockable>>
      /\ Set(p, dead) \/ (Set(p, born) /\ proc[p].pc = "unborn")
      /\ lock' = None
  BY Alone DEF Boot, Crash, journalVars
<1>0. proc[p] \in ProcStates /\ journal.booked \in Total  BY Alone
<1>3. /\ born \in ProcStates /\ born.pc = "idle" /\ born.rep = journal.booked
      /\ born.won = proc[p].won
  BY <1>0 DEF ProcStates, PCs
<1> HIDE DEF dead, born
<1>4. Unaided(dead, journal') /\ ~Writing(dead)
  BY <1>1, <1>2, Alone DEF Unaided, Bookings, Writing
<1>5. proc[p].pc = "unborn" => Unaided(born, journal') /\ ~Writing(born) /\ ~born.won
  BY <1>2, <1>3, Alone DEF Unaided, Bookings, Writing
<1>6. journal.booked <= journal'.booked  BY <1>2, Alone
<1> QED  BY <1>1, <1>2, <1>3, <1>4, <1>5, <1>6, Alone, UnaidedStep

\* A resume starts from what the journal says.
LEMMA UnaidedStart ==
  ASSUME BInv, BInv', NoLockInv, NEW p \in Procs, Start(p)
  PROVE  NoLockInv'
<1> DEFINE synced == [proc[p] EXCEPT !.rep = Larger(@, journal.booked)]
           ended == [synced EXCEPT !.fin = TRUE]
           reads == [synced EXCEPT !.pc = "read1"]
<1>1. proc[p].pc = "idle" /\ ~proc[p].fin /\ p \notin lockable  BY DEF Start, NoLockInv
<1>0. proc[p] \in ProcStates /\ journal.booked \in Total  BY Alone
<1>2. proc[p].rep <= journal.booked /\ ~proc[p].won
  BY <1>1, Alone DEF Unaided, Bookings
<1>3. Larger(proc[p].rep, journal.booked) = journal.booked  BY <1>2, Alone DEF Larger
<1>4. /\ ended \in ProcStates /\ ended.rep = journal.booked /\ ~ended.won
      /\ ended.pc = "idle"
      /\ reads \in ProcStates /\ reads.rep = journal.booked /\ ~reads.won
      /\ reads.pc = "read1"
  BY <1>1, <1>2, <1>3, <1>0 DEF ProcStates, PCs
<1>5. /\ Set(p, ended) \/ Set(p, reads)
      /\ UNCHANGED <<times, journal, writable, lockable>> /\ lock' = None
  BY <1>1, Alone DEF Start, journalVars
<1> HIDE DEF ended, reads
<1>6. \A r \in {ended, reads} : Unaided(r, journal') /\ ~Writing(r) /\ ~r.won
  BY <1>4, <1>5, Alone DEF Unaided, Bookings, Writing
<1>7. journal.booked <= journal'.booked  BY <1>5, Alone
<1> QED  BY <1>4, <1>5, <1>6, <1>7, Alone, UnaidedStep

\* No progress is booked without the lock: an open order is read, left or cut.
LEMMA UnaidedReads ==
  ASSUME BInv, BInv', NoLockInv, NEW p \in Procs, ReadOpen(p) \/ Stuck(p)
  PROVE  NoLockInv'
<1> DEFINE next == [proc[p] EXCEPT !.pc = "read2"]
<1>1. /\ \A upto : ~MayBookProgress(p, upto)
      /\ UNCHANGED <<times, writable, lockable>> /\ proc[p].pc \in {"read1", "read2"}
  BY Alone DEF MayBookProgress, ReadOpen, Stuck
<1>2. proc[p].rep <= journal.booked /\ ~proc[p].won
  BY <1>1, Alone DEF Unaided, Bookings
<1>3. CASE ReadOpen(p)
  <2>1. Set(p, next) /\ journal' = journal /\ lock' = None
    BY <1>1, <1>3, Alone DEF ReadOpen
  <2>2. /\ next \in ProcStates /\ next.pc = "read2" /\ next.rep = proc[p].rep
        /\ ~next.won
    BY <1>2, Alone DEF ProcStates, PCs
  <2> HIDE DEF next
  <2>3. Unaided(next, journal') /\ ~Writing(next)
    BY <1>2, <2>1, <2>2 DEF Unaided, Bookings, Writing
  <2>4. journal.booked <= journal'.booked  BY <2>1, Alone
  <2> QED  BY <1>1, <2>1, <2>2, <2>3, <2>4, Alone, UnaidedStep
<1>4. CASE Stuck(p)
  <2>1. Leave(p, proc[p]) /\ journal' \in {journal, Reported(journal, proc[p].rep)}
    BY <1>1, <1>4 DEF Stuck
  <2>2. proc[p].rep \in Total  BY Alone DEF ProcStates
  <2>3. Larger(journal.booked, proc[p].rep) = journal.booked
    BY <1>2, Alone DEF Larger
  <2>4. journal'.booked = journal.booked /\ journal'.claimed = journal.claimed
    BY <2>1, <2>2, <2>3, Alone, JournalKeeps, JournalFields
  <2> QED  BY <1>1, <1>2, <2>1, <2>4, Alone, UnaidedLeaves
<1> QED  BY <1>3, <1>4

\* A final fill goes on to the claim, or there is nothing to record.
LEMMA UnaidedReadFinal ==
  ASSUME BInv, BInv', NoLockInv, NEW p \in Procs, ReadFinal(p)
  PROVE  NoLockInv'
<1> DEFINE ended == [proc[p] EXCEPT !.fin = TRUE]
           claims == [proc[p] EXCEPT !.pc = "claim", !.fin = TRUE, !.upto = done,
                                     !.stage = "final"]
<1>1. /\ proc[p].pc \in {"read1", "read2"} /\ done \in Total
      /\ UNCHANGED <<times, writable, lockable>>
  BY DEF ReadFinal, BInv, TypeOK
<1>0. proc[p] \in ProcStates  BY Alone
<1>2. proc[p].rep <= journal.booked /\ ~proc[p].won
  BY <1>1, Alone DEF Unaided, Bookings
<1>3. /\ ended \in ProcStates /\ ended.fin
      /\ claims \in ProcStates /\ claims.pc = "claim" /\ claims.rep = proc[p].rep
      /\ claims.stage = "final" /\ ~claims.won
  BY <1>0, <1>1, <1>2 DEF ProcStates, PCs
<1>4. journal'.booked = journal.booked /\ journal'.claimed = journal.claimed
  <2>1. PICK how \in {"known", "unknown"} :
          journal' = journal \/ journal' = [journal EXCEPT !.final = how, !.last = "final"]
    BY DEF ReadFinal
  <2> QED  BY <2>1, Alone DEF Journals
<1>5. (Set(p, claims) /\ lock' = None) \/ Leave(p, ended)  BY Alone DEF ReadFinal
<1> HIDE DEF ended, claims
<1>6. CASE Set(p, claims) /\ lock' = None
  <2>1. Unaided(claims, journal') /\ ~Writing(claims)
    BY <1>2, <1>3, <1>4 DEF Unaided, Bookings, Writing
  <2>2. journal.booked <= journal'.booked  BY <1>4, Alone
  <2> QED  BY <1>1, <1>3, <1>4, <1>6, <2>1, <2>2, Alone, UnaidedStep
<1>7. CASE Leave(p, ended)
  BY <1>1, <1>3, <1>4, <1>7, UnaidedLeaves
<1> QED  BY <1>5, <1>6, <1>7

\* One process wins the claim.
LEMMA UnaidedClaim ==
  ASSUME BInv, BInv', NoLockInv, NEW p \in Procs, Claim(p)
  PROVE  NoLockInv'
<1> DEFINE r == [proc[p] EXCEPT !.pc = "claimed", !.won = ~journal.claimed]
<1>1. /\ proc[p].pc = "claim" /\ writable /\ journal.claimed \in BOOLEAN
      /\ proc[p].fin /\ proc[p].stage = "final" /\ ~proc[p].won
  BY Alone DEF Claim, NoLockInv, Unaided, Bookings, Sound, Journals
<1>2. /\ Set(p, r) /\ lock' = None /\ journal' = [journal EXCEPT !.claimed = TRUE]
      /\ UNCHANGED <<times, writable, lockable>>
  BY <1>1, Alone DEF Claim
<1>0. proc[p] \in ProcStates  BY Alone
<1>3. /\ r \in ProcStates /\ r.pc = "claimed" /\ (r.won <=> ~journal.claimed)
      /\ r.fin /\ r.stage = "final"
  BY <1>0, <1>1 DEF ProcStates, PCs
<1> HIDE DEF r
<1>4. journal'.booked = journal.booked /\ journal'.claimed
  BY <1>2, Alone DEF Journals
<1>5. Unaided(r, journal')  BY <1>3, <1>4 DEF Unaided, Bookings
<1>6. journal.booked <= journal'.booked /\ (Writing(r) => ~journal.claimed)
  BY <1>3, <1>4, Alone DEF Writing
<1> QED  BY <1>2, <1>3, <1>4, <1>5, <1>6, Alone, UnaidedStep

\* Only the winner goes on, from what the journal says.
LEMMA UnaidedReadBooked ==
  ASSUME BInv, BInv', NoLockInv, NEW p \in Procs, ReadBooked(p)
  PROVE  NoLockInv'
<1> DEFINE from == Larger(proc[p].rep, journal.booked)
           loses == [proc[p] EXCEPT !.rep = proc[p].upto]
           booked == [proc[p] EXCEPT !.rep = from]
           writes == [proc[p] EXCEPT !.pc = "line", !.rep = from]
<1>1. /\ proc[p].pc = "claimed" /\ proc[p].fin /\ proc[p].stage = "final"
      /\ UNCHANGED <<times, journal, writable, lockable>>
  BY Alone DEF ReadBooked, Sound, journalVars, Unaided
<1>2. from >= journal.booked /\ from \in Total
  BY Alone DEF Larger, ProcStates
<1>3. \/ Leave(p, loses) \/ Leave(p, booked)
      \/ Set(p, writes) /\ lock' = None /\ proc[p].won
  BY Alone DEF ReadBooked, MayBook
<1> HIDE DEF from
<1>0. proc[p] \in ProcStates /\ proc[p].upto \in Total  BY Alone
<1>4. /\ loses \in ProcStates /\ loses.fin /\ booked \in ProcStates /\ booked.fin
      /\ writes \in ProcStates /\ writes.pc = "line" /\ writes.rep = from /\ writes.fin
      /\ writes.stage = "final" /\ writes.won = proc[p].won
  BY <1>0, <1>1, <1>2 DEF ProcStates, PCs
<1> HIDE DEF loses, booked, writes
<1>5. CASE Leave(p, loses) \/ Leave(p, booked)
  BY <1>1, <1>4, <1>5, UnaidedLeaves
<1>6. CASE Set(p, writes) /\ lock' = None /\ proc[p].won
  <2>1. Unaided(writes, journal')
    BY <1>1, <1>2, <1>4, <1>6, Alone DEF Unaided, Bookings
  <2>2. Writing(proc[p]) /\ journal.booked <= journal'.booked
    BY <1>1, <1>6, Alone DEF Writing
  <2> QED  BY <1>1, <1>4, <1>6, <2>1, <2>2, Alone, UnaidedStep
<1> QED  BY <1>3, <1>5, <1>6

\* The winner writes its line.
LEMMA UnaidedWriteLine ==
  ASSUME BInv, BInv', NoLockInv, NEW p \in Procs, WriteLine(p)
  PROVE  NoLockInv'
<1> DEFINE r == [proc[p] EXCEPT !.pc = "write"]
           line == [from |-> proc[p].rep, upto |-> proc[p].upto, fin |-> TRUE,
                    locked |-> lock = p]
<1>1. /\ proc[p].pc = "line" /\ Set(p, r) /\ lock' = None
      /\ UNCHANGED <<times, writable, lockable>>
      /\ journal' = Pending(journal, line) \/ journal' = journal
  BY Alone DEF WriteLine
<1>2. /\ r \in ProcStates /\ r.pc = "write" /\ r.rep = proc[p].rep /\ r.won = proc[p].won
      /\ r.fin = proc[p].fin /\ r.stage = proc[p].stage
  BY Alone DEF ProcStates, PCs
<1>3. line \in Lines  BY Alone DEF Lines, ProcStates
<1> HIDE DEF r, line
<1>4. journal'.booked = journal.booked /\ journal'.claimed = journal.claimed
  BY <1>1, <1>3, Alone, JournalKeeps
<1>5. Unaided(r, journal') /\ Writing(proc[p])
  BY <1>1, <1>2, <1>4, Alone DEF Unaided, Bookings, Writing
<1>6. journal.booked <= journal'.booked  BY <1>4, Alone
<1> QED  BY <1>1, <1>2, <1>4, <1>5, <1>6, Alone, UnaidedStep

\* The rows of the winner are the first of their shares.
LEMMA FirstRows ==
  ASSUME BInv, NoLockInv, NEW p \in Procs, proc[p].pc = "write"
  PROVE  \A s \in Shares : RowsWritten(p)[s] <= 1
<1>1. Writing(proc[p]) /\ proc[p].rep >= journal.booked
  BY Alone DEF Unaided, Bookings, Writing
<1>2. ASSUME NEW s \in Shares, s \in Span(proc[p].rep, proc[p].upto)
      PROVE  times[s] = 0
  <2>1. s > journal.booked  BY <1>1, <1>2, Alone DEF Span
  <2> QED  BY <1>1, <2>1 DEF NoLockInv
<1> QED  BY <1>2, Alone DEF RowsWritten, Twice

\* The winner writes its rows.
LEMMA UnaidedWriteRows ==
  ASSUME BInv, BInv', NoLockInv, NEW p \in Procs, WriteRows(p)
  PROVE  NoLockInv'
<1> DEFINE r == [proc[p] EXCEPT !.pc = "confirm"]
<1>1. /\ proc[p].pc = "write" /\ Set(p, r) /\ lock' = None /\ times' = RowsWritten(p)
      /\ UNCHANGED <<journal, writable, lockable>>
  BY Alone DEF WriteRows, journalVars
<1>2. /\ r \in ProcStates /\ r.pc = "confirm" /\ r.rep = proc[p].rep /\ r.won = proc[p].won
      /\ r.fin = proc[p].fin /\ r.stage = proc[p].stage
  BY Alone DEF ProcStates, PCs
<1> HIDE DEF r
<1>3. Unaided(r, journal') /\ ~Writing(r) /\ proc[p].won
  BY <1>1, <1>2, Alone DEF Unaided, Bookings, Writing
<1>4. journal.booked <= journal'.booked  BY <1>1, Alone
<1>5. \A s \in Shares : times'[s] <= 1  BY <1>1, FirstRows
<1> QED  BY <1>1, <1>2, <1>3, <1>4, <1>5, Alone, UnaidedStep

\* The winner's booking ends, recorded or failed: its resume has ended with it.
LEMMA UnaidedReturns ==
  ASSUME BInv, BInv', NoLockInv, NEW p \in Procs, NEW r \in ProcStates, Return(p, r),
         proc[p].pc \in {"write", "confirm"}, r.stage = proc[p].stage, r.fin = proc[p].fin,
         UNCHANGED <<writable, lockable>>, journal'.claimed = journal.claimed,
         journal.booked <= journal'.booked, \A s \in Shares : times'[s] <= 1
  PROVE  NoLockInv'
<1>1. proc[p].stage = "final" /\ proc[p].won /\ proc[p].fin
  BY Alone DEF Unaided, Bookings
<1>2. Leave(p, r)  BY <1>1 DEF Return
<1>3. Set(p, Left(r)) /\ lock' = None  BY <1>2, Alone DEF Leave, Left
<1>4. /\ Left(r) \in ProcStates /\ Left(r).pc = "idle"
      /\ Left(r).fin = r.fin /\ ~Left(r).won
  BY LeftIs
<1> HIDE DEF Left
<1>5. Unaided(Left(r), journal') /\ ~Writing(Left(r))
  BY <1>1, <1>4 DEF Unaided, Bookings, Writing
<1> QED  BY <1>1, <1>3, <1>4, <1>5, UnaidedStep

\* The winner's writing fails, with rows that may have landed.
LEMMA UnaidedWriteFails ==
  ASSUME BInv, BInv', NoLockInv, NEW p \in Procs, WriteFails(p)
  PROVE  NoLockInv'
<1> DEFINE r == IF proc[p].stage = "final" THEN proc[p]
                ELSE [proc[p] EXCEPT !.unbookedAt = proc[p].upto]
<1>1. /\ proc[p].pc = "write" /\ Return(p, r) /\ times' \in {times, RowsWritten(p)}
      /\ UNCHANGED <<journal, writable, lockable>>
  BY DEF WriteFails, journalVars
<1>2. r \in ProcStates /\ r.stage = proc[p].stage /\ r.fin = proc[p].fin
  BY Alone DEF ProcStates
<1> HIDE DEF r
<1>3. \A s \in Shares : times'[s] <= 1  BY <1>1, FirstRows, Alone
<1>4. journal.booked <= journal'.booked  BY <1>1, Alone
<1> QED  BY <1>1, <1>2, <1>3, <1>4, UnaidedReturns

\* The winner's total is counted.
LEMMA UnaidedConfirm ==
  ASSUME BInv, BInv', NoLockInv, NEW p \in Procs, Confirm(p)
  PROVE  NoLockInv'
<1> DEFINE r == [proc[p] EXCEPT !.rep = proc[p].upto, !.unbookedAt = Unknown]
<1>1. /\ proc[p].pc = "confirm" /\ Return(p, r) /\ UNCHANGED <<times, writable, lockable>>
      /\ journal' = Booked(journal, proc[p].upto) \/ journal' = journal
  BY DEF Confirm
<1>0. proc[p] \in ProcStates /\ proc[p].upto \in Total  BY Alone
<1>2. r \in ProcStates /\ r.stage = proc[p].stage /\ r.fin = proc[p].fin
  BY <1>0 DEF ProcStates
<1> HIDE DEF r
<1>3. journal'.claimed = journal.claimed /\ journal.booked <= journal'.booked
  BY <1>1, Alone, JournalKeeps DEF Larger
<1> QED  BY <1>1, <1>2, <1>3, Alone, UnaidedReturns

\* A resume is cut: a booking of the winner goes on.
LEMMA UnaidedCut ==
  ASSUME BInv, BInv', NoLockInv, NEW p \in Procs, Cut(p)
  PROVE  NoLockInv'
<1> DEFINE r == [proc[p] EXCEPT !.background = TRUE]
<1>0. proc[p] \in ProcStates  BY Alone
<1>1. /\ proc[p].pc \in {"read1", "read2", "write"}
      /\ UNCHANGED <<times, writable, lockable>>
      /\ \/ journal' = journal
         \/ ~proc[p].fin /\ journal' = Reported(journal, proc[p].rep)
  BY DEF Cut
<1>2. journal'.booked = journal.booked /\ journal'.claimed = journal.claimed
  <2>1. CASE ~proc[p].fin /\ journal' = Reported(journal, proc[p].rep)
    <3>1. proc[p].rep <= journal.booked /\ proc[p].rep \in Total
      BY <2>1, Alone DEF Unaided, ProcStates
    <3>2. Larger(journal.booked, proc[p].rep) = journal.booked
      BY <3>1, Alone DEF Larger
    <3> QED  BY <2>1, <3>1, <3>2, Alone, JournalKeeps
  <2> QED  BY <1>1, <2>1
<1>3. CASE proc[p].pc = "write"
  <2>1. Set(p, r) /\ lock' = None  BY <1>3, Alone DEF Cut
  <2>2. /\ r \in ProcStates /\ r.pc = "write" /\ r.rep = proc[p].rep /\ r.won = proc[p].won
        /\ r.fin = proc[p].fin /\ r.stage = proc[p].stage
    BY <1>0, <1>3 DEF ProcStates
  <2> HIDE DEF r
  <2>3. Unaided(r, journal') /\ Writing(proc[p])
    BY <1>2, <1>3, <2>2, Alone DEF Unaided, Bookings, Writing
  <2>4. journal.booked <= journal'.booked  BY <1>2, Alone
  <2> QED  BY <1>1, <1>2, <2>1, <2>2, <2>3, <2>4, Alone, UnaidedStep
<1>4. CASE proc[p].pc # "write"
  <2>1. Leave(p, proc[p])  BY <1>4 DEF Cut
  <2>2. proc[p].rep <= journal.booked  BY <1>1, <1>4, Alone DEF Unaided
  <2> QED  BY <1>1, <1>2, <2>1, <2>2, Alone, UnaidedLeaves
<1> QED  BY <1>3, <1>4

\* Every step with the journal writable keeps it.
LEMMA NextUnaided ==
  ASSUME BInv, BInv', NoLockInv, [Next]_vars, "journal" \notin trouble'
  PROVE  NoLockInv'
<1>1. CASE UNCHANGED vars \/ Trade \/ End
  BY <1>1 DEF Trade, End, vars, journalVars, NoLockInv, Unaided, Writing
<1>2. ~JournalFails  BY DEF JournalFails
<1>3. ASSUME NEW p \in Procs, Boot(p) \/ Crash(p) PROVE NoLockInv'
  BY <1>3, UnaidedLives
<1>4. ASSUME NEW p \in Procs, Resume(p) PROVE NoLockInv'
  BY <1>4, UnaidedStart, UnaidedReads, UnaidedReadFinal, UnaidedCut DEF Resume
<1>5. ASSUME NEW p \in Procs, Book(p) PROVE NoLockInv'
  BY <1>5, UnaidedClaim, UnaidedReadBooked, UnaidedWriteLine, UnaidedWriteRows,
     UnaidedWriteFails, UnaidedConfirm
  DEF Book
<1> QED  BY <1>1, <1>2, <1>3, <1>4, <1>5 DEF Next

-----------------------------------------------------------------------------
\* At the start the First process is about to resume, with what its caller booked
LEMMA InitDoubles ==
  ASSUME LockChoices \subseteq {{}, Procs}, Init
  PROVE  LockInv \/ NoLockInv
<1>1. PICK r \in 0 .. (Requested - 1) :
         /\ times = [s \in Shares |-> IF s <= r THEN 1 ELSE 0]
         /\ journal = [booked |-> r, pending |-> {}, final |-> "no", last |-> "open",
                       claimed |-> FALSE]
         /\ proc = [p \in Procs |-> IF p = First THEN NewProc("idle", r)
                                    ELSE NewProc("unborn", 0)]
  BY DEF Init
<1>2. /\ r \in Nat /\ lockable \in {{}, Procs} /\ writable /\ lock = None /\ keyed = {}
      /\ journal.booked = r /\ journal.pending = {} /\ ~journal.claimed
  BY <1>1 DEF Init
<1>3. \A p \in Procs : /\ proc[p].pc \in {"idle", "unborn"} /\ proc[p].rep <= r
                       /\ ~proc[p].won /\ ~proc[p].background
  BY <1>1, <1>2 DEF NewProc
<1>4. \A s \in Shares : /\ times[s] <= 1 /\ (times[s] >= 1 => s <= r)
                        /\ ~(times[s] >= 2)
                        /\ (s > r => times[s] = 0)
  BY <1>1, <1>2 DEF Shares
<1>5. CASE lockable = {}
  BY <1>2, <1>3, <1>4, <1>5 DEF NoLockInv, Unaided, Bookings, Writing
<1>6. CASE lockable = Procs
  <2>1. HoldInv /\ RepInv  BY <1>2, <1>3 DEF HoldInv, RepInv, Active, Bookings
  <2>2. LineInv /\ KeyInv /\ OneRisky  BY <1>2, <1>3 DEF LineInv, KeyInv, OneRisky, Risky
  <2>3. FreshInv  BY <1>2, <1>3 DEF FreshInv, Risky
  <2>4. NamedInv  BY <1>2, <1>4 DEF NamedInv
  <2> QED  BY <1>2, <1>6, <2>1, <2>2, <2>3, <2>4 DEF LockInv
<1> QED  BY <1>2, <1>5, <1>6

\* Trouble is not forgotten.
LEMMA TroubleStays == [Next]_vars => trouble \subseteq trouble'
BY DEF Next, Trade, End, JournalFails, Boot, Crash, Resume, Book, Start, ReadOpen, Stuck,
   ReadFinal, Cut, Claim, ReadBooked, WriteLine, WriteRows, WriteFails, Confirm, vars

\* When all processes can use the order lock, or none can, shares booked twice were named by a
\* CRITICAL alert (the booking lines, _sync_booked, _alert_unbooked, the claim), whatever
\* failed, died or was cut short; while the journal cannot be written only its own alert warns
THEOREM DoublesNamed ==
  ASSUME LockChoices \subseteq {{}, Procs}
  PROVE  Spec => []DoubleBookingFlagged
<1> DEFINE DInv == "journal" \notin trouble => LockInv \/ NoLockInv
<1>1. Init => BInv /\ DInv  BY InitCounted, InitDoubles
<1>2. BInv /\ DInv /\ [Next]_vars => (BInv /\ DInv)'
  <2> SUFFICES ASSUME BInv, DInv, [Next]_vars PROVE BInv' /\ DInv'  OBVIOUS
  <2>1. BInv'  BY NextCounted
  <2>2. ASSUME "journal" \notin trouble' PROVE LockInv' \/ NoLockInv'
    <3>1. LockInv \/ NoLockInv  BY <2>2, TroubleStays
    <3> QED  BY <2>1, <2>2, <3>1, NextLocks, NextUnaided
  <2> QED  BY <2>1, <2>2
<1>3. BInv /\ DInv => DoubleBookingFlagged
  <2> SUFFICES ASSUME BInv, LockInv \/ NoLockInv, NEW s \in Shares, times[s] >= 2
               PROVE  s \in flagged
    BY DEF DoubleBookingFlagged
  <2>1. times[s] \in Nat  BY DEF BInv, TypeOK
  <2> QED  BY <2>1 DEF LockInv, NamedInv, NoLockInv
<1> QED  BY <1>1, <1>2, <1>3, PTL DEF Spec
===================================================================================
