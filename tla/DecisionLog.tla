------------------------------- MODULE DecisionLog -------------------------------
(***************************************************************************)
(* The decision log: what every analysis decided, pending until its        *)
(* outcome is known, then settled with a lesson later analyses read.       *)
(*                                                                         *)
(* Each machine has it as a file (`TradingMemoryLog`, its writers under a  *)
(* lock); one row in Supabase mirrors it (`MemoryStore`) for machines      *)
(* whose disk goes with a deploy.  A process merges the row into its file  *)
(* when it starts, without the lock, and its file into the row when it has *)
(* decided or settled something; either is a read, a merge and a write of  *)
(* everything, with other processes in between.                            *)
(***************************************************************************)
EXTENDS Integers, FiniteSets

CONSTANTS
    Procs,          \* processes with a graph: daemon, settle, analyze, MCP server
    Machines,
    Homes,          \* where the processes may run: functions from Procs to Machines
    Count,          \* bound: decisions, 1 .. Count by date (one a date and ticker)
    MaxEntries      \* reflection_max_memory_entries

ASSUME HomesAssumption == Homes \subseteq [Procs -> Machines]
ASSUME CountAssumption == Count \in Nat \ {0} /\ MaxEntries \in Nat

Decisions == 1 .. Count

VARIABLES
    file,       \* the log file of each machine
    row,        \* the decision_log row
    home,
    proc,       \* where each process is, and what it has read
    stored,     \* for the properties: decisions recorded,
    mirrored,   \* that have been in the row,
    done,       \* that have been settled,
    gone,       \* that went with a machine's disk before they were mirrored;
    silent      \* what went wrong and nobody noticed

ghostVars == <<stored, mirrored, done, gone, silent>>
vars == <<file, row, home, proc, ghostVars>>

Log == [Decisions -> {"none", "pending", "settled"}]
Empty == [d \in Decisions |-> "none"]
Ways == {"load overlap", "save overlap", "died loading"}

Off == [pc |-> "off", got |-> Empty, chosen |-> {}, stale |-> FALSE]
Ready == [Off EXCEPT !.pc = "ready"]

TypeOK ==
    /\ file \in [Machines -> Log] /\ row \in Log /\ home \in Homes
    /\ proc \in [Procs -> [pc : {"off", "load", "write", "ready", "settle", "save", "saving",
                                 "upsert"},
                           got : Log, chosen : SUBSET Decisions, stale : BOOLEAN]]
    /\ stored \subseteq Decisions /\ mirrored \subseteq Decisions /\ done \subseteq Decisions
    /\ gone \subseteq Decisions /\ silent \subseteq Ways

Init ==
    /\ file = [m \in Machines |-> Empty] /\ row = Empty /\ home \in Homes
    /\ proc = [p \in Procs |-> Off]
    /\ stored = {} /\ mirrored = {} /\ done = {} /\ gone = {} /\ silent = {}

-----------------------------------------------------------------------------
(* Logs. *)

In(log) == {d \in Decisions : log[d] # "none"}
Settled(log) == {d \in Decisions : log[d] = "settled"}
Pending(log) == {d \in Decisions : log[d] = "pending"}

\* (mutant) the first source wins
MergedFirst(first, second) ==
    [d \in Decisions |-> IF first[d] = "none" THEN second[d] ELSE first[d]]

\* merge_entries: a settled copy wins over a pending one
Merged(first, second) ==
    [d \in Decisions |-> IF first[d] = "none" \/ (first[d] = "pending" /\ second[d] = "settled")
                         THEN second[d] ELSE first[d]]

\* _cap: of the settled ones the most recent
Capped(log) ==
    [d \in Decisions |-> IF /\ d \in Settled(log)
                            /\ Cardinality({e \in Settled(log) : e >= d}) > MaxEntries
                         THEN "none" ELSE log[d]]

-----------------------------------------------------------------------------
(* Steps of a process. *)

At(p, pc) == proc[p].pc = pc
FileOf(p) == file[home[p]]

\* The processes which have read the file (or the row), and will write it whole
Loading(p) == {q \in Procs \ {p} : At(q, "write") /\ home[q] = home[p]}
Saving(p) == {q \in Procs \ {p} : At(q, "upsert")}

Goes(p, to, late) ==
    proc' = [q \in Procs |-> IF q = p THEN to
                             ELSE IF q \in late THEN [proc[q] EXCEPT !.stale = TRUE]
                             ELSE proc[q]]

WritesFile(p, log, to) ==
    /\ file' = [file EXCEPT ![home[p]] = log]
    /\ Goes(p, to, IF log = FileOf(p) THEN {} ELSE Loading(p))
    /\ UNCHANGED <<row, home>>

\* A process starts; _ensure_graph loads, unless the row cannot be read or is empty
Starts(p) ==
    /\ At(p, "off")
    /\ \/ Goes(p, Ready, {})
       \/ row # Empty /\ Goes(p, [Off EXCEPT !.pc = "load", !.got = row], {})
    /\ UNCHANGED <<file, row, home, ghostVars>>

\* The row first, then the file
LoadReads(p) ==
    /\ At(p, "load")
    /\ Goes(p, [proc[p] EXCEPT !.pc = "write", !.got = Merged(@, FileOf(p))], {})
    /\ UNCHANGED <<file, row, home, ghostVars>>

\* write_text, without the lock: what was written since the read is lost
LoadWrites(p) ==
    /\ At(p, "write")
    /\ WritesFile(p, proc[p].got, Ready)
    /\ silent' = silent \cup (IF proc[p].stale THEN {"load overlap"} ELSE {})
    /\ UNCHANGED <<stored, mirrored, done, gone>>

\* propagate() ends with store_decision, unless the file has the decision; then _save_memory
Decides(p, d) ==
    /\ At(p, "ready")
    /\ LET new == FileOf(p)[d] = "none" IN
       /\ WritesFile(p, IF new THEN [FileOf(p) EXCEPT ![d] = "pending"] ELSE FileOf(p),
                     [Ready EXCEPT !.pc = "save"])
       /\ stored' = stored \cup {d}
       /\ gone' = IF new THEN gone \ {d} ELSE gone
    /\ UNCHANGED <<mirrored, done, silent>>

\* settle_pending (before an analysis, after an exit, in settle_due) and _settle_realized: read
\* what is pending, price some or none of it, reflect on it for minutes ...
Settles(p) ==
    /\ At(p, "ready")
    /\ \E chosen \in SUBSET Pending(FileOf(p)) :
         Goes(p, [Ready EXCEPT !.pc = "settle", !.chosen = chosen], {})
    /\ UNCHANGED <<file, row, home, ghostVars>>

\* ... and settle those that are still pending
Updated(log, chosen) ==
    [d \in Decisions |-> IF d \in chosen \cap Pending(log) THEN "settled" ELSE log[d]]

\* An analysis goes on to its decision; the others save (settle_due if it settled any)
Updates(p) ==
    /\ At(p, "settle")
    /\ \E to \in {"ready", "save"} :
         WritesFile(p, Updated(FileOf(p), proc[p].chosen), [Ready EXCEPT !.pc = to])
    /\ done' = done \cup (Settled(Updated(FileOf(p), proc[p].chosen)))
    /\ UNCHANGED <<stored, mirrored, gone, silent>>

\* save: the file first ...
SaveReads(p) ==
    /\ At(p, "save")
    /\ Goes(p, IF FileOf(p) = Empty THEN Ready
               ELSE [Ready EXCEPT !.pc = "saving", !.got = FileOf(p)], {})
    /\ UNCHANGED <<file, row, home, ghostVars>>

\* (mutant) a row that cannot be read counts as empty
RowOrNothing == {row, Empty}

\* What may be read of the row to save over it
RowRead == {row}

\* ... then the row; one that cannot be read is not written
SaveMerges(p) ==
    /\ At(p, "saving")
    /\ \/ \E remote \in RowRead :
            Goes(p, [proc[p] EXCEPT !.pc = "upsert", !.got = Capped(Merged(remote, @))], {})
       \/ Goes(p, Ready, {})
    /\ UNCHANGED <<file, row, home, ghostVars>>

\* An upsert that fails may have been applied
Upserts(p) ==
    /\ At(p, "upsert")
    /\ \/ /\ row' = proc[p].got
          /\ Goes(p, Ready, IF proc[p].got = row THEN {} ELSE Saving(p))
          /\ mirrored' = mirrored \cup In(proc[p].got)
          /\ silent' = silent \cup (IF proc[p].stale THEN {"save overlap"} ELSE {})
       \/ Goes(p, Ready, {}) /\ UNCHANGED <<row, mirrored, silent>>
    /\ UNCHANGED <<file, home, stored, done, gone>>

\* A process ends, or dies: between the truncation and the write of its load, perhaps.  (Under
\* the lock the file is appended to, or replaced)
Ends(p) ==
    /\ ~At(p, "off")
    /\ \/ Goes(p, Off, {}) /\ UNCHANGED <<file, row, home, silent>>
       \/ At(p, "write") /\ WritesFile(p, Empty, Off) /\ silent' = silent \cup {"died loading"}
    /\ UNCHANGED <<stored, mirrored, done, gone>>

\* A deploy replaces the machine: its disk goes
Redeploys(m) ==
    /\ \A p \in Procs : home[p] = m => At(p, "off")
    /\ file' = [file EXCEPT ![m] = Empty]
    /\ gone' = gone \cup {d \in In(file[m]) \ mirrored :
                            \A n \in Machines \ {m} : file[n][d] = "none"}
    /\ UNCHANGED <<row, home, proc, stored, mirrored, done, silent>>

Next ==
    \/ \E p \in Procs :
         \/ Starts(p) \/ LoadReads(p) \/ LoadWrites(p)
         \/ Settles(p) \/ Updates(p) \/ SaveReads(p) \/ SaveMerges(p) \/ Upserts(p) \/ Ends(p)
         \/ \E d \in Decisions : Decides(p, d)
    \/ \E m \in Machines : Redeploys(m)

Spec == Init /\ [][Next]_vars

-----------------------------------------------------------------------------
(* Properties. *)

\* A decision is in some machine's file until it is in the row (unless a deploy took the file
\* before), and in the row from then on, at least until it is settled and _cap drops it: a row
\* that cannot be read, an upsert that fails, a process that dies or starts from an older row
\* lose none.  Excepted are the overlaps that MemoryStore does not exclude
DecisionsKept ==
    silent = {} =>
       \A d \in stored \ done :
          \/ row[d] # "none"
          \/ d \notin mirrored /\ (d \in gone \/ \E m \in Machines : file[m][d] # "none")

\* No merge makes a settled decision pending again: it would be settled, and counted, twice.
\* (_cap may drop it from the row, to which a machine that has it pending may bring it back)
SettledStays ==
    [][\A d \in Decisions :
         /\ row[d] = "settled" /\ row'[d] = "pending" => "save overlap" \in silent'
         /\ \A m \in Machines :
              file[m][d] = "settled" /\ file'[m][d] = "pending" => "load overlap" \in silent']_vars
=============================================================================
