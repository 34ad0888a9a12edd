---------------------------- MODULE LateFillBooking ----------------------------
(***************************************************************************)
(* One order left unresolved, and the Skopaq processes of the host that    *)
(* resume it and book what it fills late (skopaq/execution/                *)
(* position_monitor.py: resume_order, record_late_fill).                   *)
(*                                                                         *)
(* They share the order journal (order_journal.py), its claim markers and  *)
(* the per-order lock (sell_lock.py: OrderLock); a process whose lock      *)
(* directory is unusable goes ahead without it.  Writing the trade rows    *)
(* takes time, can fail, and outlives a resume that is cut short; the      *)
(* journal directory can be unwritable for a while; processes die.         *)
(***************************************************************************)
EXTENDS Integers, FiniteSets

CONSTANTS
    Procs,        \* the processes of the host
    First,        \* the one that placed the order
    None,         \* nobody holds the order lock
    Requested,    \* TrackedOrder.requested
    LockChoices,  \* the sets of processes whose lock directory may be the usable ones
    Troubles,     \* what can go wrong: a subset of Kinds
    MaxKinds      \* bound: how many kinds of trouble one behaviour meets

Kinds == {"crash", "fail", "cut", "journal"}

ASSUME ProcsAssumption == First \in Procs /\ None \notin Procs
ASSUME RequestedAssumption == Requested \in Nat \ {0}
ASSUME LockChoicesAssumption == LockChoices \subseteq SUBSET Procs
ASSUME TroublesAssumption == Troubles \subseteq Kinds /\ MaxKinds \in Nat

VARIABLES
    done, final,   \* the broker: shares traded, and whether the order is finished
    times,         \* history: how often each share's trade row was written (2: or more)
    journal,       \* today's lines of the order, and the claim marker of its late fill
    writable,      \* the journal directory can be written
    lockable,      \* the processes whose lock directory works
    lock,          \* the holder of the order lock
    proc,          \* the processes
    flagged,       \* shares a CRITICAL alert named as not booked, or perhaps booked twice
    keyed,         \* totals whose booking-unconfirmed alert was sent today (once_today)
    trouble        \* history: what has gone wrong so far

brokerVars  == <<done, final>>
journalVars == <<journal, writable>>
alertVars   == <<flagged, keyed>>
vars == <<brokerVars, times, journalVars, lockable, lock, proc, alertVars, trouble>>

-----------------------------------------------------------------------------
(* The journal.                                                            *)

Unknown == -1
Shares == 1 .. Requested
Total == 0 .. Requested
Larger(a, b) == IF a >= b THEN a ELSE b

\* _persist_late_fill's delta: the total, less what was reported
Span(from, upto) == (from + 1) .. upto

\* A booking line: the totals before and after, Confirmation.may_be_open, the lock
Lines == [from : Total, upto : Total, fin : BOOLEAN, locked : BOOLEAN]

\* BookingState.finished: final, and all of its fill booked (or its fill unknown)
Finished == \/ journal.final = "unknown"
            \/ journal.final = "known" /\ journal.booked >= done

\* (mutant) an order whose last line is final never adopted again
AdoptableUnresolvedOnly == journal.last = "open"

\* today_unresolved: its last event is not final, or it has a booking nobody confirmed
Adoptable == journal.last = "open" \/ (journal.pending # {} /\ ~Finished)

\* (mutant) the total counted as booked once its booking line is written
PendingCounted(j, line) == [j EXCEPT !.pending = @ \cup {line}, !.booked = line.upto]

\* Journal j with a booking line, a confirmed total, or what a state line says was
\* reported.  A booked total covers the earlier booking lines up to it
Pending(j, line) == [j EXCEPT !.pending = @ \cup {line}]
Booked(j, total) == [j EXCEPT !.booked = Larger(@, total),
                              !.pending = {l \in @ : l.upto > total}]
Reported(j, total) == [j EXCEPT !.booked = Larger(@, total), !.last = "open"]

\* _abandoned_final: its process no longer holds the lock we hold
AbandonedFinal == \E l \in journal.pending : l.fin /\ l.locked

\* A process: where it is (pc), its TrackedOrder (filled_reported, a final state,
\* unbooked_at), and the booking under way (its total, the read it follows, its claim,
\* whether its resume is gone)
NewProc(state, reported) ==
    [pc |-> state, rep |-> reported, fin |-> FALSE, unbookedAt |-> Unknown,
     upto |-> 0, stage |-> "first", won |-> FALSE, background |-> FALSE]
Meets(kind) == kind \in Troubles /\ Cardinality((trouble \cap Kinds) \cup {kind}) <= MaxKinds
Set(p, fields) == proc' = [proc EXCEPT ![p] = fields]
Unlocked(p) == IF lock = p THEN None ELSE lock

\* _alert_unbooked, _alert_unconfirmed: one alert a day for each total
Key(totals) == keyed' = IF writable THEN keyed \cup totals ELSE keyed

\* (mutant) only the lines of final fills alerted
ToAlertFinalOnly == {l \in journal.pending : l.locked /\ l.fin /\ l.upto \notin keyed}

\* The booking lines _sync_booked alerts: made under the lock its caller holds now
ToAlert == {l \in journal.pending : l.locked /\ l.upto \notin keyed}

-----------------------------------------------------------------------------
(* The broker, and processes coming and going.                             *)

Trade ==
    /\ ~final /\ done < Requested
    /\ done' \in (done + 1) .. Requested
    /\ final' = (done' = Requested)
    /\ UNCHANGED <<times, journalVars, lockable, lock, proc, alertVars, trouble>>

\* Cancelled (every resume asks for it), expired, or rejected
End ==
    /\ ~final /\ final' = TRUE
    /\ UNCHANGED <<done, times, journalVars, lockable, lock, proc, alertVars, trouble>>

\* The journal directory fills up or becomes read-only, and recovers
JournalFails ==
    /\ Meets("journal")
    /\ writable' = ~writable
    /\ trouble' = trouble \cup {"journal"}
    /\ UNCHANGED <<brokerVars, times, journal, lockable, lock, proc, alertVars>>

\* A process starts (skopaq monitor, the next daemon) and adopts the order: load_journal
Boot(p) ==
    /\ proc[p].pc = "unborn" /\ Adoptable
    /\ Set(p, [proc[p] EXCEPT !.pc = "idle", !.rep = journal.booked])
    /\ UNCHANGED <<brokerVars, times, journalVars, lockable, lock, alertVars, trouble>>

\* A final fill read but not yet in a booking line is known to nobody else
Unwritten(p) ==
    \/ proc[p].pc \in {"claim", "claimed", "line"}
    \/ proc[p].pc = "write" /\ \A l \in journal.pending : l.upto < proc[p].upto

Crash(p) ==
    /\ Meets("crash")
    /\ proc[p].pc \notin {"unborn", "dead"}
    /\ Set(p, NewProc("dead", 0))
    /\ lock' = Unlocked(p)
    /\ trouble' = trouble \cup {"crash"} \cup (IF Unwritten(p) THEN {"gap"} ELSE {})
    /\ UNCHANGED <<brokerVars, times, journalVars, lockable, alertVars>>

-----------------------------------------------------------------------------
(* A resume: resume_order, and the reads of LiveOrderWorker.resume.        *)

\* What a resume kept for itself ends with it
Leave(p, fields) ==
    /\ Set(p, [NewProc("idle", fields.rep) EXCEPT !.fin = fields.fin,
                                                  !.unbookedAt = fields.unbookedAt])
    /\ lock' = Unlocked(p)

\* The lock is tried once; what the journal says was booked is taken as reported, and
\* bookings begun under this lock and never confirmed are alerted (_sync_booked)
Start(p) ==
    /\ proc[p].pc = "idle" /\ ~proc[p].fin
    /\ p \in lockable => lock = None
    /\ LET synced == [proc[p] EXCEPT !.rep = Larger(@, journal.booked)]
       IN  \/ /\ Finished
              /\ Set(p, [synced EXCEPT !.fin = TRUE])
              /\ UNCHANGED lock
           \/ /\ ~Finished
              /\ Set(p, [synced EXCEPT !.pc = "read1"])
              /\ lock' = IF p \in lockable THEN p ELSE lock
    /\ IF p \in lockable
       THEN /\ flagged' = flagged \cup UNION {Span(l.from, l.upto) : l \in ToAlert}
            /\ Key({l.upto : l \in ToAlert})
       ELSE UNCHANGED alertVars
    /\ UNCHANGED <<brokerVars, times, journalVars, lockable, trouble>>

\* record_late_fill for an order that may still work: booked only under the lock, only
\* with a price, not at a total that failed here, and only if the line is written
MayBookProgress(p, upto) ==
    upto > proc[p].rep /\ lock = p /\ writable /\ proc[p].unbookedAt # upto

Begin(p, base, stage, upto) ==
    /\ Set(p, [proc[p] EXCEPT !.pc = "write", !.stage = stage, !.upto = upto])
    /\ journal' = Pending(base, [from |-> proc[p].rep, upto |-> upto, fin |-> FALSE,
                                 locked |-> TRUE])
    /\ UNCHANGED lock

\* The first read finds the order working (or is an older view, or fails): its progress
\* is booked before the cancel is sent
ReadOpen(p) ==
    /\ proc[p].pc = "read1"
    /\ \E upto \in (0 .. done) \cup {Unknown} :
         \/ /\ MayBookProgress(p, upto)
            /\ Begin(p, journal, "first", upto)
         \/ /\ Set(p, [proc[p] EXCEPT !.pc = "read2"])
            /\ UNCHANGED <<journal, lock>>
    /\ UNCHANGED <<brokerVars, times, writable, lockable, alertVars, trouble>>

\* The cancel window ends with the order working: a stuck line with what is reported,
\* then the progress of the last read
Stuck(p) ==
    /\ proc[p].pc = "read2"
    /\ LET after == IF writable THEN Reported(journal, proc[p].rep) ELSE journal
       IN  \E upto \in (0 .. done) \cup {Unknown} :
             \/ /\ MayBookProgress(p, upto)
                /\ Begin(p, after, "second", upto)
             \/ /\ Leave(p, proc[p])
                /\ journal' = after
    /\ UNCHANGED <<brokerVars, times, writable, lockable, alertVars, trouble>>

\* A read finds it final: _terminal marks and journals it.  With an unknown fill, or
\* nothing beyond what is reported, there is nothing to record
ReadFinal(p) ==
    /\ proc[p].pc \in {"read1", "read2"} /\ final
    /\ \E known \in BOOLEAN :
         /\ journal' = IF ~writable THEN journal
                       ELSE [journal EXCEPT !.final = IF known THEN "known" ELSE "unknown",
                                             !.last = "final"]
         /\ trouble' = IF known THEN trouble ELSE trouble \cup {"unknown"}
         /\ IF known /\ done > proc[p].rep
            THEN /\ Set(p, [proc[p] EXCEPT !.pc = "claim", !.fin = TRUE, !.upto = done,
                                           !.stage = "final"])
                 /\ UNCHANGED lock
            ELSE Leave(p, [proc[p] EXCEPT !.fin = TRUE])
    /\ UNCHANGED <<brokerVars, times, writable, lockable, alertVars>>

-----------------------------------------------------------------------------
(* Booking a final fill: the claim, then the total booked so far.          *)

\* journal.claim: a marker another process made is seen even in a read-only directory;
\* if it cannot be written nobody can tell, and nothing is booked (_alert_unclaimed)
Claim(p) ==
    /\ proc[p].pc = "claim"
    /\ \/ /\ journal.claimed \/ writable
          /\ Set(p, [proc[p] EXCEPT !.pc = "claimed", !.won = ~journal.claimed])
          /\ journal' = [journal EXCEPT !.claimed = TRUE]
          /\ UNCHANGED <<lock, flagged>>
       \/ /\ ~journal.claimed /\ ~writable
          /\ flagged' = flagged \cup Span(proc[p].rep, proc[p].upto)
          /\ Leave(p, proc[p])
          /\ UNCHANGED journal
    /\ UNCHANGED <<brokerVars, times, writable, lockable, keyed, trouble>>

\* (mutant) whoever reads the final fill books it
MayBookAnyone(p) == TRUE

\* The winner books it, or the holder of the lock the winner died under
MayBook(p) == proc[p].won \/ (lock = p /\ AbandonedFinal)

ReadBooked(p) ==
    /\ proc[p].pc = "claimed"
    /\ LET from == Larger(proc[p].rep, journal.booked)
       IN  \/ /\ ~MayBook(p)
              /\ Leave(p, [proc[p] EXCEPT !.rep = proc[p].upto])
           \/ /\ MayBook(p) /\ proc[p].upto <= from
              /\ Leave(p, [proc[p] EXCEPT !.rep = from])
           \/ /\ MayBook(p) /\ proc[p].upto > from
              /\ Set(p, [proc[p] EXCEPT !.pc = "line", !.rep = from])
              /\ UNCHANGED lock
    /\ UNCHANGED <<brokerVars, times, journalVars, lockable, alertVars, trouble>>

\* The booking line of a final fill; the booking goes on even if it cannot be written
WriteLine(p) ==
    /\ proc[p].pc = "line"
    /\ journal' = IF writable
                  THEN Pending(journal, [from |-> proc[p].rep, upto |-> proc[p].upto,
                                         fin |-> TRUE, locked |-> lock = p])
                  ELSE journal
    /\ Set(p, [proc[p] EXCEPT !.pc = "write"])
    /\ UNCHANGED <<brokerVars, times, writable, lockable, lock, alertVars, trouble>>

-----------------------------------------------------------------------------
(* _persist_late_fill, which runs on behind a shield when its resume is cut. *)

\* The await of record_late_fill returns: to the cancel after the first read's progress,
\* else out of the resume.  Nobody awaits a booking whose resume was cut
Return(p, fields) ==
    IF fields.stage = "first" /\ ~fields.background
    THEN Set(p, [fields EXCEPT !.pc = "read2"]) /\ UNCHANGED lock
    ELSE Leave(p, fields)

Twice(n) == IF n = 0 THEN 1 ELSE 2
RowsWritten(p) == [s \in Shares |-> IF s \in Span(proc[p].rep, proc[p].upto)
                                    THEN Twice(times[s]) ELSE times[s]]

WriteRows(p) ==
    /\ proc[p].pc = "write"
    /\ times' = RowsWritten(p)
    /\ Set(p, [proc[p] EXCEPT !.pc = "confirm"])
    /\ UNCHANGED <<brokerVars, journalVars, lockable, lock, alertVars, trouble>>

\* on_late_fill raises or returns False; the rows may have landed all the same
WriteFails(p) ==
    /\ proc[p].pc = "write" /\ Meets("fail")
    /\ times' \in {times, RowsWritten(p)}
    /\ flagged' = flagged \cup Span(proc[p].rep, proc[p].upto)
    /\ Key({proc[p].upto})
    /\ Return(p, IF proc[p].stage = "final" THEN proc[p]
                 ELSE [proc[p] EXCEPT !.unbookedAt = proc[p].upto])
    /\ trouble' = trouble \cup {"fail"}
    /\ UNCHANGED <<brokerVars, journalVars, lockable>>

\* The booked line, and the total taken as reported
Confirm(p) ==
    /\ proc[p].pc = "confirm"
    /\ journal' = IF writable THEN Booked(journal, proc[p].upto) ELSE journal
    /\ Return(p, [proc[p] EXCEPT !.rep = proc[p].upto, !.unbookedAt = Unknown])
    /\ UNCHANGED <<brokerVars, times, writable, lockable, alertVars, trouble>>

\* The resume is cancelled at an await (resume_orders' timeout, the monitor ending) or
\* ends with an error: the lock is released, but a booking under way goes on.  On a
\* timeout _left_unresolved journals what is reported, unless the order is final
Cut(p) ==
    /\ proc[p].pc \in {"read1", "read2", "write"} /\ ~proc[p].background
    /\ Meets("cut")
    /\ journal' \in {journal} \cup (IF writable /\ ~proc[p].fin
                                    THEN {Reported(journal, proc[p].rep)} ELSE {})
    /\ \/ /\ proc[p].pc = "write"
          /\ Set(p, [proc[p] EXCEPT !.background = TRUE])
          /\ lock' = Unlocked(p)
          /\ trouble' = trouble \cup {"cut"}
       \/ /\ proc[p].pc # "write"
          /\ Leave(p, proc[p])
          /\ UNCHANGED trouble
    /\ UNCHANGED <<brokerVars, times, writable, lockable, alertVars>>

-----------------------------------------------------------------------------
\* The order was left stuck (its caller booked what was reported) or interrupted
Init ==
    /\ \E r \in 0 .. (Requested - 1) :
         /\ done = r
         /\ times = [s \in Shares |-> IF s <= r THEN 1 ELSE 0]
         /\ journal = [booked |-> r, pending |-> {}, final |-> "no", last |-> "open",
                       claimed |-> FALSE]
         /\ proc = [p \in Procs |-> IF p = First THEN NewProc("idle", r)
                                    ELSE NewProc("unborn", 0)]
    /\ final = FALSE
    /\ writable = TRUE
    /\ lockable \in LockChoices
    /\ lock = None
    /\ flagged = {} /\ keyed = {}
    /\ trouble = {}

Resume(p) == Start(p) \/ ReadOpen(p) \/ Stuck(p) \/ ReadFinal(p) \/ Cut(p)
Book(p) == \/ Claim(p) \/ ReadBooked(p) \/ WriteLine(p) \/ WriteRows(p)
           \/ WriteFails(p) \/ Confirm(p)

Next == \/ Trade \/ End \/ JournalFails
        \/ \E p \in Procs : Boot(p) \/ Crash(p) \/ Resume(p) \/ Book(p)

Spec == Init /\ [][Next]_vars

-----------------------------------------------------------------------------
(* Properties.                                                             *)

PCs == {"unborn", "idle", "read1", "read2", "claim", "claimed", "line", "write",
        "confirm", "dead"}
ProcStates == [pc : PCs, rep : Total, fin : BOOLEAN, upto : Total,
               stage : {"first", "second", "final"}, unbookedAt : Total \cup {Unknown},
               won : BOOLEAN, background : BOOLEAN]

\* The type invariant
TypeOK ==
    /\ done \in Total /\ final \in BOOLEAN
    /\ times \in [Shares -> 0 .. 2]
    /\ journal \in [booked : Total, pending : SUBSET Lines,
                    final : {"no", "known", "unknown"}, last : {"open", "final"},
                    claimed : BOOLEAN]
    /\ writable \in BOOLEAN
    /\ lockable \subseteq Procs
    /\ lock \in Procs \cup {None}
    /\ proc \in [Procs -> ProcStates]
    /\ flagged \subseteq Shares /\ keyed \subseteq Total
    /\ trouble \subseteq Kinds \cup {"gap", "unknown"}

\* What the journal counts as booked has its trade rows, whoever booked it
NothingCountedUnbooked == \A s \in Shares : s <= journal.booked => times[s] >= 1

\* When all processes can use the lock, or none can, shares booked twice were named by a
\* CRITICAL alert, whatever failed, died or was cut short.  While the journal cannot be
\* written only its own alert warns of them
DoubleBookingFlagged ==
    "journal" \notin trouble => \A s \in Shares : times[s] >= 2 => s \in flagged

\* With nothing failing, each share is booked once, locks or no locks
BookedOnce == trouble = {} => \A s \in Shares : times[s] <= 1

\* Nobody works on the order any more, and nobody would adopt it
Settled == /\ ~Adoptable
           /\ \A p \in Procs : proc[p].pc \in {"unborn", "dead"}
                                 \/ (proc[p].pc = "idle" /\ proc[p].fin)

\* Once nobody will look at the order again, every share it traded is booked or named by
\* a CRITICAL alert; but for a fill the broker never gave, and for a process that died
\* between reading a final fill and journalling its booking
SettledMeansBooked ==
    final /\ Settled /\ trouble \cap {"gap", "unknown"} = {} =>
        \A s \in 1 .. done : times[s] >= 1 \/ s \in flagged

=============================================================================
