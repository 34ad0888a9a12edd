--------------------------- MODULE DecisionLog_proofs ---------------------------
(***************************************************************************)
(* Proofs about DecisionLog, for any processes on any machines, any number *)
(* of decisions and any cap: no decision is lost before it is settled, and *)
(* none that is settled becomes pending, but for the overlaps the store    *)
(* does not exclude.                                                       *)
(***************************************************************************)
EXTENDS DecisionLog, TLAPS

USE HomesAssumption

-----------------------------------------------------------------------------
(* The invariant. *)

\* What is in a log has been recorded, what is settled in one has been settled by somebody
Within(log, recorded, settled) ==
    \A d \in Decisions : /\ log[d] # "none" => d \in recorded
                         /\ log[d] = "settled" => d \in settled

SourceInv ==
    /\ Within(row, stored, done) /\ mirrored \subseteq stored
    /\ \A m \in Machines : Within(file[m], stored, done)
    /\ \A p \in Procs : Within(proc[p].got, stored, done)

\* What a load will write has all that the file has, unless another wrote it since it was read
WriteInv ==
    \A p \in Procs : At(p, "write") /\ ~proc[p].stale =>
       \A d \in Decisions : /\ FileOf(p)[d] # "none" => proc[p].got[d] # "none"
                            /\ FileOf(p)[d] = "settled" => proc[p].got[d] = "settled"

\* What a save will write has all of the row that is not settled, unless another wrote it since
UpsertInv ==
    \A p \in Procs : At(p, "upsert") /\ ~proc[p].stale =>
       \A d \in Decisions : /\ row[d] # "none" /\ d \notin done => proc[p].got[d] # "none"
                            /\ row[d] = "settled" => proc[p].got[d] # "pending"

\* A decision is mirrored and in the row, or not yet mirrored and in some file
KeptInv ==
    silent = {} =>
       \A d \in stored \ done :
          /\ d \in mirrored => row[d] # "none"
          /\ d \notin mirrored => d \in gone \/ \E m \in Machines : file[m][d] # "none"

IInv == TypeOK /\ SourceInv /\ WriteInv /\ UpsertInv /\ KeptInv

-----------------------------------------------------------------------------
(* Logs. *)

\* A merge has what either has, and settled what either has settled
LEMMA MergedIs ==
  ASSUME NEW a \in Log, NEW b \in Log
  PROVE  /\ Merged(a, b) \in Log
         /\ \A d \in Decisions :
              /\ Merged(a, b)[d] = "none" <=> a[d] = "none" /\ b[d] = "none"
              /\ Merged(a, b)[d] = "settled" <=> a[d] = "settled" \/ b[d] = "settled"
BY DEF Merged, Log

\* The cap drops settled decisions only
LEMMA CappedIs ==
  ASSUME NEW a \in Log
  PROVE  /\ Capped(a) \in Log
         /\ \A d \in Decisions : /\ Capped(a)[d] \in {a[d], "none"}
                                 /\ a[d] = "pending" => Capped(a)[d] = "pending"
BY DEF Capped, Log, Settled

\* An update settles pending decisions and changes nothing else
LEMMA UpdatedIs ==
  ASSUME NEW a \in Log, NEW chosen \in SUBSET Decisions
  PROVE  /\ Updated(a, chosen) \in Log
         /\ \A d \in Decisions : /\ Updated(a, chosen)[d] = "none" <=> a[d] = "none"
                                 /\ a[d] = "settled" => Updated(a, chosen)[d] = "settled"
BY DEF Updated, Log, Pending

\* Empty logs keep all that was recorded.
LEMMA InitInv == Init => IInv
BY DEF Init, IInv, TypeOK, SourceInv, Within, WriteInv, UpsertInv, KeptInv, Off, Empty, Log, At,
   Ways

-----------------------------------------------------------------------------
(* Kinds of steps. *)

Procedure == [pc : {"off", "load", "write", "ready", "settle", "save", "saving", "upsert"},
              got : Log, chosen : SUBSET Decisions, stale : BOOLEAN]

\* Nobody settles but in done, and what a load or a save will write is complete
WorkInv == SourceInv /\ WriteInv /\ UpsertInv

\* A process reads: nothing but its own state changes
LEMMA ReadStep ==
  ASSUME IInv, NEW p \in Procs, NEW to \in Procedure, Goes(p, to, {}),
         UNCHANGED <<file, row, home, ghostVars>>,
         Within(to.got, stored, done),
         to.pc = "write" /\ ~to.stale =>
            \A d \in Decisions : /\ FileOf(p)[d] # "none" => to.got[d] # "none"
                                 /\ FileOf(p)[d] = "settled" => to.got[d] = "settled",
         to.pc = "upsert" /\ ~to.stale =>
            \A d \in Decisions : /\ row[d] # "none" /\ d \notin done => to.got[d] # "none"
                                 /\ row[d] = "settled" => to.got[d] # "pending"
  PROVE  IInv'
<1>1. /\ proc' \in [Procs -> Procedure] /\ proc'[p] = to
      /\ \A q \in Procs \ {p} : proc'[q] = proc[q]
  BY DEF IInv, TypeOK, Goes, Procedure
<1>2. TypeOK'  BY <1>1 DEF IInv, TypeOK, Procedure, ghostVars
<1>3. SourceInv'
  BY <1>1 DEF SourceInv, IInv, Within, ghostVars
<1>4. WriteInv'
  BY <1>1 DEF WriteInv, IInv, At, FileOf
<1>5. UpsertInv'
  BY <1>1 DEF UpsertInv, IInv, At, ghostVars
<1>6. KeptInv'  BY DEF KeptInv, IInv, ghostVars
<1> QED  BY <1>2, <1>3, <1>4, <1>5, <1>6 DEF IInv

\* One process goes on, what some others have read is stale
LEMMA LateIs ==
  ASSUME proc \in [Procs -> Procedure], NEW p \in Procs, NEW to \in Procedure,
         NEW late \in SUBSET (Procs \ {p}), Goes(p, to, late)
  PROVE  /\ proc' \in [Procs -> Procedure] /\ proc'[p] = to
         /\ \A q \in Procs \ {p} : /\ proc'[q].pc = proc[q].pc /\ proc'[q].got = proc[q].got
                                   /\ q \notin late => proc'[q] = proc[q]
                                   /\ q \in late => proc'[q].stale
<1>1. \A q \in Procs : [proc[q] EXCEPT !.stale = TRUE] \in Procedure
  BY DEF Procedure
<1>2. proc' \in [Procs -> Procedure] /\ proc'[p] = to  BY <1>1 DEF Goes
<1>3. ASSUME NEW q \in Procs \ {p}
      PROVE  /\ q \notin late => proc'[q] = proc[q]
             /\ q \in late => proc'[q] = [proc[q] EXCEPT !.stale = TRUE]
  BY DEF Goes
<1>4. ASSUME NEW q \in Procs \ {p}
      PROVE  LET r == [proc[q] EXCEPT !.stale = TRUE] IN
             r.pc = proc[q].pc /\ r.got = proc[q].got /\ r.stale
  BY DEF Procedure
<1> QED  BY <1>2, <1>3, <1>4

\* A process writes its machine's file and goes on to something else
LEMMA FileStep ==
  ASSUME IInv, NEW p \in Procs, NEW log \in Log, NEW to \in Procedure, WritesFile(p, log, to),
         to.pc \notin {"write", "upsert"}, done \subseteq done', stored \subseteq stored',
         mirrored' = mirrored, Within(log, stored', done'), Within(to.got, stored', done')
  PROVE  /\ WorkInv'
         /\ file' \in [Machines -> Log] /\ proc' \in [Procs -> Procedure]
         /\ file'[home[p]] = log /\ home[p] \in Machines
         /\ \A m \in Machines \ {home[p]} : file'[m] = file[m]
<1>1. /\ file \in [Machines -> Log] /\ home \in [Procs -> Machines]
      /\ proc \in [Procs -> Procedure]
  BY DEF IInv, TypeOK, Procedure
<1>2. /\ file' \in [Machines -> Log] /\ file'[home[p]] = log /\ home[p] \in Machines
      /\ \A m \in Machines \ {home[p]} : file'[m] = file[m]
      /\ row' = row /\ home' = home
  BY <1>1 DEF WritesFile
<1>3. PICK late \in SUBSET (Procs \ {p}) :
        /\ Goes(p, to, late)
        /\ late = IF log = FileOf(p) THEN {} ELSE Loading(p)
  BY DEF WritesFile, Loading
<1>4. /\ proc'[p] = to
      /\ \A q \in Procs \ {p} : /\ proc'[q].pc = proc[q].pc /\ proc'[q].got = proc[q].got
                                /\ q \notin late => proc'[q] = proc[q]
                                /\ q \in late => proc'[q].stale
      /\ proc' \in [Procs -> Procedure]
  BY <1>1, <1>3, LateIs
<1>5. SourceInv'
  BY <1>1, <1>2, <1>4 DEF SourceInv, IInv, Within
<1>6. WriteInv'
  <2> SUFFICES ASSUME NEW q \in Procs, proc'[q].pc = "write", ~proc'[q].stale,
                      NEW d \in Decisions
               PROVE  /\ file'[home[q]][d] # "none" => proc'[q].got[d] # "none"
                      /\ file'[home[q]][d] = "settled" => proc'[q].got[d] = "settled"
    BY <1>2 DEF WriteInv, At, FileOf
  <2>1. q # p /\ q \notin late /\ proc'[q] = proc[q]  BY <1>4
  <2>2. file'[home[q]] = file[home[q]]
    BY <1>1, <1>2, <1>3, <2>1 DEF Loading, FileOf, At
  <2> QED  BY <2>1, <2>2 DEF IInv, WriteInv, At, FileOf
<1>7. UpsertInv'
  BY <1>2, <1>4 DEF UpsertInv, IInv, At
<1> QED  BY <1>2, <1>4, <1>5, <1>6, <1>7 DEF WorkInv

-----------------------------------------------------------------------------
(* Every step keeps the invariant. *)

\* A process that starts has read nothing yet.
LEMMA StartsStep == ASSUME IInv, NEW p \in Procs, Starts(p) PROVE IInv'
<1>1. /\ Ready \in Procedure /\ Ready.got = Empty /\ Ready.pc = "ready"
      /\ Within(Empty, stored, done)
  BY DEF Ready, Off, Empty, Procedure, Log, Within
<1>2. CASE Goes(p, Ready, {})
  BY <1>1, <1>2, ReadStep DEF Starts
<1>3. CASE row # Empty /\ Goes(p, [Off EXCEPT !.pc = "load", !.got = row], {})
  <2> DEFINE to == [Off EXCEPT !.pc = "load", !.got = row]
  <2>1. to \in Procedure /\ to.pc = "load" /\ to.got = row
    BY DEF Off, IInv, TypeOK, Procedure
  <2>2. Within(to.got, stored, done)  BY <2>1 DEF IInv, SourceInv
  <2> HIDE DEF to
  <2> QED  BY <1>3, <2>1, <2>2, ReadStep DEF Starts, to
<1> QED  BY <1>2, <1>3 DEF Starts

\* A load merges what the row has into what the file has.
LEMMA LoadReadsStep == ASSUME IInv, NEW p \in Procs, LoadReads(p) PROVE IInv'
<1> DEFINE to == [proc[p] EXCEPT !.pc = "write", !.got = Merged(@, FileOf(p))]
<1>1. proc[p] \in Procedure /\ proc[p].got \in Log /\ FileOf(p) \in Log /\ home[p] \in Machines
  BY DEF IInv, TypeOK, Procedure, FileOf
<1>2. /\ to \in Procedure /\ to.pc = "write" /\ to.got = Merged(proc[p].got, FileOf(p))
  BY <1>1, MergedIs DEF Procedure
<1>3. \A d \in Decisions : /\ FileOf(p)[d] # "none" => to.got[d] # "none"
                           /\ FileOf(p)[d] = "settled" => to.got[d] = "settled"
  BY <1>1, <1>2, MergedIs
<1>4. Within(to.got, stored, done)
  <2>1. Within(proc[p].got, stored, done) /\ Within(FileOf(p), stored, done)
    BY <1>1 DEF IInv, SourceInv, FileOf
  <2> QED  BY <1>1, <1>2, <2>1, MergedIs DEF Within
<1>5. Goes(p, to, {}) /\ UNCHANGED <<file, row, home, ghostVars>>  BY DEF LoadReads
<1> HIDE DEF to
<1> QED  BY <1>2, <1>3, <1>4, <1>5, ReadStep

\* The file gets what was read of both, and loses nothing unless it has changed meanwhile.
LEMMA LoadWritesStep == ASSUME IInv, NEW p \in Procs, LoadWrites(p) PROVE IInv'
<1>1. /\ Ready \in Procedure /\ Ready.got = Empty /\ Ready.pc = "ready"
      /\ Within(Empty, stored', done')
  BY DEF Ready, Off, Empty, Procedure, Log, Within
<1>2. /\ proc[p].got \in Log /\ FileOf(p) \in Log /\ home[p] \in Machines
      /\ proc[p].stale \in BOOLEAN
  BY DEF IInv, TypeOK, FileOf
<1>3. /\ WorkInv' /\ file' \in [Machines -> Log] /\ proc' \in [Procs -> Procedure]
      /\ file'[home[p]] = proc[p].got
      /\ \A m \in Machines \ {home[p]} : file'[m] = file[m]
  <2>1. Within(proc[p].got, stored', done')  BY DEF IInv, SourceInv, LoadWrites
  <2> QED  BY <1>1, <1>2, <2>1, FileStep DEF LoadWrites
<1>4. TypeOK'
  BY <1>2, <1>3 DEF TypeOK, IInv, LoadWrites, WritesFile, Procedure, Ways
<1>5. KeptInv'
  <2> SUFFICES ASSUME silent' = {}, NEW d \in stored \ done, NEW m \in Machines,
                      file[m][d] # "none"
               PROVE  file'[m][d] # "none"
    BY DEF KeptInv, IInv, LoadWrites, WritesFile
  <2>1. ~proc[p].stale /\ d \in Decisions
    BY <1>2 DEF LoadWrites, IInv, TypeOK
  <2>2. CASE m = home[p]
    BY <1>3, <2>1, <2>2 DEF LoadWrites, IInv, WriteInv, FileOf
  <2> QED  BY <1>3, <2>2
<1> QED  BY <1>3, <1>4, <1>5 DEF IInv, WorkInv

\* A decision is in its machine's file.
LEMMA DecidesStep ==
  ASSUME IInv, NEW p \in Procs, NEW d \in Decisions, Decides(p, d) PROVE IInv'
<1> DEFINE new == FileOf(p)[d] = "none"
           log == IF new THEN [FileOf(p) EXCEPT ![d] = "pending"] ELSE FileOf(p)
           to == [Ready EXCEPT !.pc = "save"]
<1>1. /\ to \in Procedure /\ to.got = Empty /\ to.pc = "save"
      /\ Within(Empty, stored', done')
  BY DEF Ready, Off, Empty, Procedure, Log, Within
<1>2. FileOf(p) \in Log /\ home[p] \in Machines
  BY DEF IInv, TypeOK, FileOf
<1>3. /\ log \in Log
      /\ \A e \in Decisions : /\ FileOf(p)[e] # "none" => log[e] = FileOf(p)[e]
                              /\ FileOf(p)[e] = "none" => log[e] = "none" \/ e = d
      /\ log[d] # "none" /\ (log[d] = "settled" => FileOf(p)[d] = "settled")
  BY <1>2 DEF Log
<1>4. /\ WritesFile(p, log, to) /\ done' = done /\ row' = row /\ home' = home
      /\ mirrored' = mirrored /\ stored' = stored \cup {d}
  BY DEF Decides, WritesFile
<1>5. /\ WorkInv' /\ file' \in [Machines -> Log] /\ proc' \in [Procs -> Procedure]
      /\ file'[home[p]] = log
      /\ \A m \in Machines \ {home[p]} : file'[m] = file[m]
  <2>1. Within(log, stored', done')
    <3>1. Within(FileOf(p), stored, done)  BY <1>2 DEF IInv, SourceInv, FileOf
    <3> HIDE DEF log
    <3> QED  BY <1>2, <1>3, <1>4, <3>1 DEF Within
  <2> HIDE DEF log, to
  <2> QED  BY <1>1, <1>3, <1>4, <2>1, FileStep
<1>6. TypeOK'
  BY <1>4, <1>5 DEF TypeOK, IInv, Decides, Procedure
<1>7. \A e \in Decisions : \A m \in Machines : file[m][e] # "none" => file'[m][e] # "none"
  BY <1>3, <1>5 DEF FileOf
<1>8. KeptInv'
  <2> SUFFICES ASSUME silent' = {}, NEW e \in stored' \ done
               PROVE  /\ e \in mirrored => row[e] # "none"
                      /\ e \notin mirrored => \/ e \in gone'
                                            \/ \E m \in Machines : file'[m][e] # "none"
    BY <1>4 DEF KeptInv, Decides
  <2>1. silent = {} /\ mirrored' = mirrored /\ e \in Decisions
    BY <1>6 DEF Decides, TypeOK
  <2>2. CASE e = d /\ e \notin stored
    <3>1. e \notin mirrored  BY <2>2 DEF IInv, SourceInv
    <3> QED  BY <1>2, <1>3, <1>5, <2>2, <3>1
  <2>3. CASE e \in stored
    <3>1. \/ e \in gone' \/ e \notin gone \/ file'[home[p]][e] # "none"
      BY <1>3, <1>5 DEF Decides
    <3> QED  BY <1>2, <1>7, <2>1, <2>3, <3>1 DEF KeptInv, IInv
  <2> QED  BY <2>2, <2>3 DEF Decides
<1> QED  BY <1>5, <1>6, <1>8 DEF IInv, WorkInv

\* The settlement chooses from what is recorded.
LEMMA SettlesStep == ASSUME IInv, NEW p \in Procs, Settles(p) PROVE IInv'
<1>1. PICK chosen \in SUBSET Pending(FileOf(p)) :
        Goes(p, [Ready EXCEPT !.pc = "settle", !.chosen = chosen], {})
  BY DEF Settles
<1> DEFINE to == [Ready EXCEPT !.pc = "settle", !.chosen = chosen]
<1>2. to \in Procedure /\ to.pc = "settle" /\ to.got = Empty /\ Within(Empty, stored, done)
  BY DEF Ready, Off, Empty, Procedure, Log, Within, Pending
<1> HIDE DEF to
<1> QED  BY <1>1, <1>2, ReadStep DEF Settles, to

\* Settling an entry leaves the others as they are.
LEMMA UpdatesStep == ASSUME IInv, NEW p \in Procs, Updates(p) PROVE IInv'
<1> DEFINE log == Updated(FileOf(p), proc[p].chosen)
<1>1. PICK pc \in {"ready", "save"} : WritesFile(p, log, [Ready EXCEPT !.pc = pc])
  BY DEF Updates
<1> DEFINE to == [Ready EXCEPT !.pc = pc]
<1>2. to \in Procedure /\ to.pc = pc /\ to.got = Empty /\ Within(Empty, stored', done')
  BY DEF Ready, Off, Empty, Procedure, Log, Within
<1>3. FileOf(p) \in Log /\ proc[p].chosen \in SUBSET Decisions /\ home[p] \in Machines
  BY DEF IInv, TypeOK, FileOf
<1>4. /\ log \in Log /\ \A d \in Decisions : log[d] = "none" <=> FileOf(p)[d] = "none"
  BY <1>3, UpdatedIs
<1>5. /\ done' = done \cup Settled(log) /\ stored' = stored /\ mirrored' = mirrored
      /\ gone' = gone /\ silent' = silent /\ row' = row /\ home' = home
  BY DEF Updates, WritesFile
<1> HIDE DEF log, to
<1>6. Within(log, stored', done')
  <2>1. Within(FileOf(p), stored, done)  BY <1>3 DEF IInv, SourceInv, FileOf
  <2> QED  BY <1>4, <1>5, <2>1 DEF Within, Settled
<1>7. /\ WorkInv' /\ file' \in [Machines -> Log] /\ proc' \in [Procs -> Procedure]
      /\ file'[home[p]] = log
      /\ \A m \in Machines \ {home[p]} : file'[m] = file[m]
  BY <1>1, <1>2, <1>4, <1>5, <1>6, FileStep DEF to
<1>8. TypeOK'
  BY <1>4, <1>5, <1>7 DEF TypeOK, IInv, Procedure, Settled
<1>9. KeptInv'
  <2>1. \A d \in Decisions : \A m \in Machines : file[m][d] # "none" => file'[m][d] # "none"
    BY <1>4, <1>7 DEF FileOf
  <2> QED  BY <1>5, <1>8, <2>1 DEF KeptInv, IInv, TypeOK
<1> QED  BY <1>7, <1>8, <1>9 DEF IInv, WorkInv

\* A save reads the row first.
LEMMA SaveReadsStep == ASSUME IInv, NEW p \in Procs, SaveReads(p) PROVE IInv'
<1> DEFINE to == IF FileOf(p) = Empty THEN Ready
                 ELSE [Ready EXCEPT !.pc = "saving", !.got = FileOf(p)]
<1>1. FileOf(p) \in Log /\ Within(FileOf(p), stored, done)
  BY DEF IInv, TypeOK, SourceInv, FileOf
<1>2. to \in Procedure /\ to.pc \in {"ready", "saving"} /\ Within(to.got, stored, done)
  BY <1>1 DEF Ready, Off, Empty, Procedure, Log, Within
<1>3. Goes(p, to, {}) /\ UNCHANGED <<file, row, home, ghostVars>>  BY DEF SaveReads
<1> HIDE DEF to
<1> QED  BY <1>2, <1>3, ReadStep

\* It merges the file into what it has read.
LEMMA SaveMergesStep == ASSUME IInv, NEW p \in Procs, SaveMerges(p) PROVE IInv'
<1>1. CASE Goes(p, Ready, {})
  <2>1. Ready \in Procedure /\ Ready.pc = "ready" /\ Within(Ready.got, stored, done)
    BY DEF Ready, Off, Empty, Procedure, Log, Within
  <2> QED  BY <1>1, <2>1, ReadStep DEF SaveMerges
<1>2. CASE Goes(p, [proc[p] EXCEPT !.pc = "upsert", !.got = Capped(Merged(row, @))], {})
  <2> DEFINE all == Merged(row, proc[p].got)
             to == [proc[p] EXCEPT !.pc = "upsert", !.got = Capped(Merged(row, @))]
  <2>1. /\ proc[p] \in Procedure /\ proc[p].got \in Log /\ row \in Log
        /\ Within(row, stored, done) /\ Within(proc[p].got, stored, done)
    BY DEF IInv, TypeOK, Procedure, SourceInv
  <2>2. /\ all \in Log
        /\ \A d \in Decisions :
             /\ all[d] = "none" <=> row[d] = "none" /\ proc[p].got[d] = "none"
             /\ all[d] = "settled" <=> row[d] = "settled" \/ proc[p].got[d] = "settled"
    BY <2>1, MergedIs
  <2> HIDE DEF all
  <2>3. /\ Capped(all) \in Log
        /\ \A d \in Decisions : /\ Capped(all)[d] \in {all[d], "none"}
                                /\ all[d] = "pending" => Capped(all)[d] = "pending"
    BY <2>2, CappedIs
  <2>4. to \in Procedure /\ to.pc = "upsert" /\ to.got = Capped(all)
    BY <2>1, <2>3 DEF Procedure, all
  <2> HIDE DEF to
  <2>5. Within(all, stored, done)  BY <2>1, <2>2 DEF Within
  <2>6. Within(to.got, stored, done)  BY <2>3, <2>4, <2>5 DEF Within
  <2>7. \A d \in Decisions : /\ row[d] # "none" /\ d \notin done => to.got[d] # "none"
                             /\ row[d] = "settled" => to.got[d] # "pending"
    <3> SUFFICES ASSUME NEW d \in Decisions
                 PROVE  /\ row[d] # "none" /\ d \notin done => to.got[d] # "none"
                        /\ row[d] = "settled" => to.got[d] # "pending"
      OBVIOUS
    <3>1. all[d] \in {"none", "pending", "settled"}  BY <2>2 DEF Log
    <3> QED  BY <2>2, <2>3, <2>4, <2>5, <3>1 DEF Within
  <2> QED  BY <1>2, <2>4, <2>6, <2>7, ReadStep DEF SaveMerges, to
<1> QED  BY <1>1, <1>2 DEF SaveMerges, RowRead

\* The row gets the merge, and loses nothing unsettled unless it has changed meanwhile.
LEMMA UpsertsStep == ASSUME IInv, NEW p \in Procs, Upserts(p) PROVE IInv'
<1>1. /\ Ready \in Procedure /\ Ready.pc = "ready" /\ Ready.got = Empty
      /\ Within(Empty, stored, done)
  BY DEF Ready, Off, Empty, Procedure, Log, Within
<1>2. CASE Goes(p, Ready, {}) /\ UNCHANGED <<row, mirrored, silent>>
  BY <1>1, <1>2, ReadStep DEF Upserts, ghostVars
<1>3. CASE /\ row' = proc[p].got
           /\ Goes(p, Ready, IF proc[p].got = row THEN {} ELSE Saving(p))
           /\ mirrored' = mirrored \cup In(proc[p].got)
           /\ silent' = silent \cup (IF proc[p].stale THEN {"save overlap"} ELSE {})
  <2>1. /\ proc \in [Procs -> Procedure] /\ proc[p].got \in Log /\ proc[p].stale \in BOOLEAN
        /\ Within(proc[p].got, stored, done) /\ At(p, "upsert")
    BY DEF IInv, TypeOK, Procedure, SourceInv, Upserts
  <2>2. PICK late \in SUBSET (Procs \ {p}) :
          /\ Goes(p, Ready, late)
          /\ late = IF proc[p].got = row THEN {} ELSE Saving(p)
    BY <1>3 DEF Saving
  <2>3. /\ proc'[p] = Ready /\ proc' \in [Procs -> Procedure]
        /\ \A q \in Procs \ {p} : /\ proc'[q].pc = proc[q].pc /\ proc'[q].got = proc[q].got
                                  /\ q \notin late => proc'[q] = proc[q]
                                  /\ q \in late => proc'[q].stale
    BY <1>1, <2>1, <2>2, LateIs
  <2>4. file' = file /\ home' = home /\ stored' = stored /\ done' = done /\ gone' = gone
    BY DEF Upserts
  <2>5. TypeOK'
    BY <1>3, <2>1, <2>3, <2>4 DEF IInv, TypeOK, Procedure, In, Ways
  <2>6. SourceInv'
    <3>1. Within(row', stored, done)  BY <1>3, <2>1
    <3>2. mirrored' \subseteq stored  BY <1>3, <2>1 DEF IInv, SourceInv, Within, In
    <3>3. \A q \in Procs : Within(proc'[q].got, stored, done)
      BY <1>1, <2>3 DEF IInv, SourceInv
    <3> QED  BY <2>4, <3>1, <3>2, <3>3 DEF IInv, SourceInv
  <2>7. WriteInv'
    BY <1>1, <2>3, <2>4 DEF IInv, WriteInv, At, FileOf
  <2>8. UpsertInv'
    <3> SUFFICES ASSUME NEW q \in Procs, proc'[q].pc = "upsert", ~proc'[q].stale
                 PROVE  \A d \in Decisions :
                          /\ row'[d] # "none" /\ d \notin done => proc'[q].got[d] # "none"
                          /\ row'[d] = "settled" => proc'[q].got[d] # "pending"
      BY <2>4 DEF UpsertInv, At
    <3>1. q # p /\ q \notin late /\ proc'[q] = proc[q]  BY <1>1, <2>3
    <3>2. row' = row  BY <1>3, <2>2, <3>1 DEF Saving, At
    <3> QED  BY <3>1, <3>2 DEF IInv, UpsertInv, At
  <2>9. KeptInv'
    <3> SUFFICES ASSUME silent' = {}, NEW d \in stored \ done
                 PROVE  /\ d \in mirrored' => row'[d] # "none"
                        /\ d \notin mirrored' => \/ d \in gone
                                                 \/ \E m \in Machines : file[m][d] # "none"
      BY <2>4 DEF KeptInv
    <3>1. silent = {} /\ ~proc[p].stale /\ d \in Decisions  BY <1>3, <2>1 DEF IInv, TypeOK
    <3>2. d \notin mirrored => d \in gone \/ \E m \in Machines : file[m][d] # "none"
      BY <3>1 DEF IInv, KeptInv
    <3>3. row[d] # "none" => proc[p].got[d] # "none"
      BY <2>1, <3>1 DEF IInv, UpsertInv
    <3>4. d \in mirrored => row[d] # "none"  BY <3>1 DEF IInv, KeptInv
    <3> QED  BY <1>3, <3>1, <3>2, <3>3, <3>4 DEF In
  <2> QED  BY <2>5, <2>6, <2>7, <2>8, <2>9 DEF IInv
<1> QED  BY <1>2, <1>3 DEF Upserts

\* A process that ends leaves file and row; a death in a write may empty the file.
LEMMA EndsStep == ASSUME IInv, NEW p \in Procs, Ends(p) PROVE IInv'
<1>1. Off \in Procedure /\ Off.pc = "off" /\ Off.got = Empty /\ Empty \in Log
  BY DEF Off, Empty, Procedure, Log
<1>2. Within(Empty, stored, done)  BY DEF Within, Empty
<1>3. CASE Goes(p, Off, {}) /\ UNCHANGED <<file, row, home, silent>>
  BY <1>1, <1>2, <1>3, ReadStep DEF Ends, ghostVars
<1>4. CASE WritesFile(p, Empty, Off) /\ silent' = silent \cup {"died loading"}
  <2>1. /\ done' = done /\ stored' = stored /\ mirrored' = mirrored /\ gone' = gone
        /\ row' = row /\ home' = home
    BY <1>4 DEF Ends, WritesFile
  <2>2. WorkInv' /\ file' \in [Machines -> Log] /\ proc' \in [Procs -> Procedure]
    BY <1>1, <1>2, <1>4, <2>1, FileStep
  <2>3. TypeOK'  BY <1>4, <2>1, <2>2 DEF IInv, TypeOK, Procedure, Ways
  <2>4. KeptInv'  BY <1>4 DEF KeptInv
  <2> QED  BY <2>2, <2>3, <2>4 DEF IInv, WorkInv
<1> QED  BY <1>3, <1>4 DEF Ends

\* A machine's file goes, and with it only what was never mirrored.
LEMMA RedeploysStep == ASSUME IInv, NEW m \in Machines, Redeploys(m) PROVE IInv'
<1>1. /\ row' = row /\ home' = home /\ proc' = proc /\ stored' = stored /\ done' = done
      /\ mirrored' = mirrored /\ silent' = silent
  BY DEF Redeploys
<1>2. Empty \in Log /\ \A d \in Decisions : Empty[d] = "none"  BY DEF Empty, Log
<1>3. /\ file' \in [Machines -> Log] /\ file'[m] = Empty
      /\ \A n \in Machines \ {m} : file'[n] = file[n]
  BY <1>2 DEF IInv, TypeOK, Redeploys
<1>4. TypeOK'  BY <1>1, <1>3 DEF IInv, TypeOK, Redeploys, In
<1>5. SourceInv'  BY <1>1, <1>2, <1>3 DEF IInv, SourceInv, Within
<1>6. WriteInv'
  <2> SUFFICES ASSUME NEW p \in Procs, At(p, "write")
               PROVE  FileOf(p)' = FileOf(p)
    BY <1>1 DEF IInv, WriteInv, At
  <2>1. home[p] \in Machines \ {m}  BY DEF IInv, TypeOK, Redeploys, At
  <2> QED  BY <1>1, <1>3, <2>1 DEF FileOf
<1>7. UpsertInv'  BY <1>1 DEF IInv, UpsertInv, At
<1>8. KeptInv'
  <2> SUFFICES ASSUME silent = {}, NEW d \in stored \ done, d \notin mirrored, d \notin gone'
               PROVE  \E n \in Machines : file'[n][d] # "none"
    BY <1>1 DEF IInv, KeptInv
  <2>1. d \in Decisions /\ d \notin gone  BY DEF IInv, TypeOK, Redeploys
  <2>2. PICK n \in Machines : file[n][d] # "none"  BY <2>1 DEF IInv, KeptInv
  <2>3. CASE n = m
    <3>1. \E k \in Machines \ {m} : file[k][d] # "none"
      BY <2>1, <2>2, <2>3 DEF Redeploys, In
    <3> QED  BY <1>3, <3>1
  <2> QED  BY <1>3, <2>2, <2>3
<1> QED  BY <1>4, <1>5, <1>6, <1>7, <1>8 DEF IInv

\* Every step keeps the inductive invariant.
LEMMA NextInv == IInv /\ [Next]_vars => IInv'
<1> SUFFICES ASSUME IInv, [Next]_vars PROVE IInv'  OBVIOUS
<1>1. CASE UNCHANGED vars
  BY <1>1 DEF vars, ghostVars, IInv, TypeOK, SourceInv, WriteInv, UpsertInv, KeptInv, At, FileOf
<1>2. ASSUME NEW p \in Procs, Starts(p) PROVE IInv'  BY <1>2, StartsStep
<1>3. ASSUME NEW p \in Procs, LoadReads(p) PROVE IInv'  BY <1>3, LoadReadsStep
<1>4. ASSUME NEW p \in Procs, LoadWrites(p) PROVE IInv'  BY <1>4, LoadWritesStep
<1>5. ASSUME NEW p \in Procs, Settles(p) PROVE IInv'  BY <1>5, SettlesStep
<1>6. ASSUME NEW p \in Procs, Updates(p) PROVE IInv'  BY <1>6, UpdatesStep
<1>7. ASSUME NEW p \in Procs, SaveReads(p) PROVE IInv'  BY <1>7, SaveReadsStep
<1>8. ASSUME NEW p \in Procs, SaveMerges(p) PROVE IInv'  BY <1>8, SaveMergesStep
<1>9. ASSUME NEW p \in Procs, Upserts(p) PROVE IInv'  BY <1>9, UpsertsStep
<1>10. ASSUME NEW p \in Procs, Ends(p) PROVE IInv'  BY <1>10, EndsStep
<1>11. ASSUME NEW p \in Procs, NEW d \in Decisions, Decides(p, d) PROVE IInv'
  BY <1>11, DecidesStep
<1>12. ASSUME NEW m \in Machines, Redeploys(m) PROVE IInv'  BY <1>12, RedeploysStep
<1> QED
  BY <1>1, <1>2, <1>3, <1>4, <1>5, <1>6, <1>7, <1>8, <1>9, <1>10, <1>11, <1>12 DEF Next

\* What is recorded stays in a file or in the row, through every start, save and settlement.
THEOREM Invariance == Spec => []IInv
BY InitInv, NextInv, PTL DEF Spec

-----------------------------------------------------------------------------
(* What follows. *)

\* Every variable keeps its type
THEOREM TypeCorrect == Spec => []TypeOK
<1>1. IInv => TypeOK  BY DEF IInv
<1> QED  BY <1>1, Invariance, PTL

\* A decision stays in a file, then in the row, until it is settled: a read or an upsert of the
\* row that fails, a death, a load of an older row lose none (MemoryStore.load, save)
THEOREM NoDecisionLost == Spec => []DecisionsKept
<1>1. IInv => DecisionsKept
  <2> SUFFICES ASSUME IInv, silent = {}, NEW d \in stored \ done
               PROVE  \/ row[d] # "none"
                      \/ /\ d \notin mirrored
                         /\ d \in gone \/ \E m \in Machines : file[m][d] # "none"
    BY DEF DecisionsKept
  <2> QED  BY DEF IInv, KeptInv
<1> QED  BY <1>1, Invariance, PTL

\* No load, save or update makes a settled decision pending again (merge_entries)
THEOREM SettledForGood == Spec => SettledStays
<1> DEFINE Stays ==
      \A d \in Decisions :
         /\ row[d] = "settled" /\ row'[d] = "pending" => "save overlap" \in silent'
         /\ \A m \in Machines :
              file[m][d] = "settled" /\ file'[m][d] = "pending" => "load overlap" \in silent'
<1>1. IInv /\ [Next]_vars => [Stays]_vars
  <2> SUFFICES ASSUME IInv, Next PROVE Stays  OBVIOUS
  <2>1. row \in Log /\ file \in [Machines -> Log] /\ home \in [Procs -> Machines]
    BY DEF IInv, TypeOK
  <2>2. row' = row \/ \E p \in Procs : Upserts(p) /\ row' = proc[p].got
    BY DEF Next, Starts, LoadReads, LoadWrites, Settles, Updates, SaveReads, SaveMerges,
       Upserts, Ends, Decides, Redeploys, WritesFile
  <2>3. ASSUME NEW p \in Procs, Upserts(p), row' = proc[p].got, NEW d \in Decisions,
               row[d] = "settled", row'[d] = "pending"
        PROVE  "save overlap" \in silent'
    <3>1. row' # row /\ proc[p].stale \in BOOLEAN  BY <2>3 DEF IInv, TypeOK
    <3>2. proc[p].stale  BY <2>3, <3>1 DEF IInv, UpsertInv, Upserts
    <3> QED  BY <2>3, <3>1, <3>2 DEF Upserts
  <2>4. file' = file \/ (\E m \in Machines : Redeploys(m))
          \/ \E p \in Procs : \/ LoadWrites(p) \/ Updates(p) \/ WritesFile(p, Empty, Off)
                              \/ \E d \in Decisions : Decides(p, d)
    BY DEF Next, Starts, LoadReads, Settles, SaveReads, SaveMerges, Upserts, Ends
  <2> DEFINE Keeps == \A d \in Decisions, m \in Machines :
                        file[m][d] = "settled" => file'[m][d] # "pending"
  <2>5. ASSUME NEW m \in Machines, Redeploys(m) PROVE Keeps
    BY <2>1, <2>5 DEF Redeploys, Empty
  <2>6. ASSUME NEW p \in Procs, WritesFile(p, Empty, Off) PROVE Keeps
    BY <2>1, <2>6 DEF WritesFile, Empty
  <2>7. ASSUME NEW p \in Procs, NEW d \in Decisions, Decides(p, d) PROVE Keeps
    BY <2>1, <2>7 DEF Decides, WritesFile, FileOf, Log
  <2>8. ASSUME NEW p \in Procs, Updates(p) PROVE Keeps
    <3>1. FileOf(p) \in Log /\ proc[p].chosen \in SUBSET Decisions
      BY <2>1 DEF IInv, TypeOK, FileOf
    <3>2. file' = [file EXCEPT ![home[p]] = Updated(FileOf(p), proc[p].chosen)]
      BY <2>8 DEF Updates, WritesFile
    <3>3. \A d \in Decisions :
             FileOf(p)[d] = "settled" => Updated(FileOf(p), proc[p].chosen)[d] = "settled"
      BY <3>1, UpdatedIs
    <3> QED  BY <2>1, <3>2, <3>3 DEF FileOf
  <2>9. ASSUME NEW p \in Procs, LoadWrites(p), NEW d \in Decisions, NEW m \in Machines,
               file[m][d] = "settled", file'[m][d] = "pending"
        PROVE  "load overlap" \in silent'
    <3>1. file' = [file EXCEPT ![home[p]] = proc[p].got] /\ proc[p].stale \in BOOLEAN
      BY <2>9 DEF LoadWrites, WritesFile, IInv, TypeOK
    <3>2. m = home[p] /\ proc[p].got[d] = "pending"  BY <2>1, <2>9, <3>1
    <3>3. proc[p].stale  BY <2>9, <3>1, <3>2 DEF IInv, WriteInv, LoadWrites, FileOf
    <3> QED  BY <2>9, <3>3 DEF LoadWrites
  <2>10. ASSUME NEW d \in Decisions, NEW m \in Machines,
                file[m][d] = "settled", file'[m][d] = "pending"
         PROVE  "load overlap" \in silent'
    BY <2>4, <2>5, <2>6, <2>7, <2>8, <2>9, <2>10
  <2> QED  BY <2>2, <2>3, <2>10
<1>2. Spec => [][Stays]_vars  BY <1>1, Invariance, PTL DEF Spec
<1> QED  BY <1>2 DEF SettledStays
=============================================================================
