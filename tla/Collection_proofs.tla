-------------------------- MODULE Collection_proofs --------------------------
(***************************************************************************)
(* Proofs about Collection, for every set of invocations, manifests, runs  *)
(* and files, and every value of the bounds.                               *)
(***************************************************************************)
EXTENDS Collection, FiniteSetTheorems, SequenceTheorems, WellFoundedInduction, TLAPS

\* No step of an invocation or of the operator replaces what an invocation finds at the
\* output path: only the operator removes or alters it (rename_create_only).
THEOREM OutputIsKept == Spec => OutputKept
<1>1. ASSUME [Next]_vars
      PROVE  out # Absent /\ out' # out => UNCHANGED job
  <2>1. CASE UNCHANGED vars
    BY <2>1 DEF vars
  <2>2. ASSUME NEW p \in Procs, Invocation(p)
        PROVE  out' = out \/ out = Absent
    BY <2>2 DEF Invocation, Begin, Load, ReserveEvidence, CopyEvidence, CopyReport, Render,
      Unprepared, Compare, Stage, StageFails, Install, Creatable, InstallFails, Dies, Goes, Abort
  <2>3. CASE Operator
    BY <2>3 DEF Operator, EditManifest, EditJourney, ReplaceRun, FinishReplacing, Tamper, TouchOutput
  <2>4. QED
    BY <1>1, <2>1, <2>2, <2>3 DEF Next
<1>2. QED
  BY <1>1, PTL DEF Spec, OutputKept
-----------------------------------------------------------------------------
(* The inductive invariant *)

Points == {"idle", "load", "reserve", "copy", "report", "render", "compare",
           "stage", "install", "done", "dead"}

FitsOutput(j, m, entries) ==
  Fits(j, Size(Generated(m, entries)).files, Size(Generated(m, entries)).bytes,
       MaxOutputFiles, MaxOutputBytes)

\* The invocation ended with an error.
Failed(j) == j.pc = "done" /\ j.status = "error"

\* What an invocation holds in memory: what it has read is what it has reserved, but for
\* the one file it is about to copy.  One that has ended knows only what it had read: at most
\* as many files as it may, and more bytes only if the last file made it give up.
Sound(j) ==
  /\ DOMAIN j = DOMAIN Idle
  /\ j.pc \in Points /\ j.mode \in {"none", "build", "check"} /\ j.status \in Statuses
  /\ j.input.files <= MaxInputFiles /\ j.input.bytes <= MaxInputBytes
  /\ j.read.files <= MaxInputFiles /\ (j.read.bytes <= MaxInputBytes \/ Failed(j))
  /\ j.retained.files <= MaxOutputFiles /\ j.retained.bytes <= MaxOutputBytes
  /\ j.pc # "done" => j.input = IF j.pc = "copy" THEN Plus(j.read, 1, j.size) ELSE j.read
  /\ j.pc \in {"stage", "install"} => FitsOutput(j.retained, j.manifest, j.entries)

CollectionInv ==
  /\ manifest \in Manifests
  /\ changes \in 0..MaxChanges
  /\ DOMAIN job = Procs
  /\ \A p \in Procs : Sound(job[p])
  /\ staging \subseteq Procs
  /\ \A p \in staging : job[p].pc \in {"install", "dead"} \/ Failed(job[p])

\* An invocation that has not begun is sound.
LEMMA IdleSound == Sound(Idle)
  BY BoundsAreNatural DEF Sound, Idle, Zero, Points, Statuses

\* The step of one invocation leaves the others as they are.
LEMMA OneStep ==
  ASSUME CollectionInv, NEW p \in Procs, NEW j, Sound(j), job' = [job EXCEPT ![p] = j],
         UNCHANGED <<manifest, changes>>,
         \/ staging' \subseteq staging \ {p}
         \/ staging' \subseteq staging \cup {p} /\ (j.pc \in {"install", "dead"} \/ Failed(j))
  PROVE  CollectionInv'
<1>1. DOMAIN job' = Procs /\ job'[p] = j /\ \A q \in Procs \ {p} : job'[q] = job[q]
  BY DEF CollectionInv
<1>2. \A q \in Procs : Sound(job'[q])
  BY <1>1 DEF CollectionInv
<1>3. /\ staging' \subseteq Procs
      /\ \A q \in staging' : job'[q].pc \in {"install", "dead"} \/ Failed(job'[q])
  BY <1>1 DEF CollectionInv
<1>4. QED
  BY <1>1, <1>2, <1>3 DEF CollectionInv, Sound, Failed

\* An invocation that ends without an error leaves no staging directory, one that is not about
\* to install has none, and one that fails may leave its own.
LEMMA EndKept ==
  ASSUME CollectionInv, NEW p \in Procs, NEW status \in Statuses, NEW shown,
         Ends(p, status, shown), UNCHANGED <<manifest, changes>>, job[p].pc # "done",
         \/ staging' \subseteq staging \ {p}
         \/ staging' = staging /\ job[p].pc \notin {"install", "dead"}
         \/ staging' \subseteq staging \cup {p} /\ status = "error"
  PROVE  CollectionInv'
<1> DEFINE j == Ended(p, status, shown)
<1>1. /\ DOMAIN j = DOMAIN Idle /\ j.pc = "done" /\ j.mode = job[p].mode /\ j.status = status
      /\ j.read = job[p].read /\ j.input = Zero /\ j.retained = Zero
  BY DEF Ended, Idle
<1>2. Sound(job[p]) /\ ~Failed(job[p])
  BY DEF CollectionInv, Failed
<1> HIDE DEF j
<1>3. Sound(j)
  BY <1>1, <1>2, BoundsAreNatural DEF Sound, Points, Zero
<1>4. p \in staging => job[p].pc \in {"install", "dead"}
  BY <1>2 DEF CollectionInv
<1>5. \/ staging' \subseteq staging \ {p}
      \/ staging' \subseteq staging \cup {p} /\ Failed(j)
  BY <1>1, <1>4 DEF Failed
<1>6. job' = [job EXCEPT ![p] = j]
  BY DEF Ends, j
<1>7. QED
  BY <1>3, <1>5, <1>6, OneStep

\* An invocation that goes on soundly keeps the invariant.
LEMMA Went ==
  ASSUME CollectionInv, NEW p \in Procs, NEW j, Goes(p, j), Sound(j),
         job[p].pc \notin {"install", "done", "dead"}
  PROVE  CollectionInv'
<1>1. p \notin staging
  BY DEF CollectionInv, Failed
<1>2. staging' \subseteq staging \ {p} /\ UNCHANGED <<manifest, changes>>
  BY <1>1 DEF Goes, disk
<1>3. QED
  BY <1>2, OneStep DEF Goes

\* An invocation that gives up keeps the invariant.
LEMMA Aborted ==
  ASSUME CollectionInv, NEW p \in Procs, Abort(p), job[p].pc \notin {"install", "done", "dead"}
  PROVE  CollectionInv'
<1>1. Ends(p, "error", {}) /\ UNCHANGED <<manifest, changes>> /\ staging' = staging
  BY DEF Abort, disk
<1>2. QED
  BY <1>1, EndKept DEF Statuses
-----------------------------------------------------------------------------
(* The steps *)

\* So does one that begins.
LEMMA BeginKeeps ==
  ASSUME CollectionInv, NEW p \in Procs, Begin(p)
  PROVE  CollectionInv'
<1>1. job[p].pc \notin {"install", "done", "dead"}
  BY DEF Begin, At
<1>2. PICK mode \in {"build", "check"} :
        IF ValidManifest(manifest) /\ OutputAddressable
          THEN Goes(p, [Idle EXCEPT !.pc = "load", !.mode = mode, !.manifest = manifest])
          ELSE Ends(p, "error", {}) /\ UNCHANGED <<disk, out, staging, installed, changes>>
  BY DEF Begin
<1> DEFINE j == [Idle EXCEPT !.pc = "load", !.mode = mode, !.manifest = manifest]
<1>3. Sound(j)
  BY IdleSound DEF Sound, Idle, Points
<1>4. CASE Goes(p, j)
  BY <1>1, <1>3, <1>4, Went
<1>5. CASE Ends(p, "error", {}) /\ UNCHANGED <<disk, out, staging, installed, changes>>
  BY <1>1, <1>5, Aborted DEF Abort
<1>6. QED
  BY <1>2, <1>4, <1>5

\* So does one that loads a journey.
LEMMA LoadKeeps ==
  ASSUME CollectionInv, NEW p \in Procs, Load(p)
  PROVE  CollectionInv'
<1>1. job[p].pc = "load" /\ Sound(job[p])
  BY DEF Load, At, CollectionInv
<1>2. CASE Abort(p)
  BY <1>1, <1>2, Aborted
<1>3. ASSUME NEW doc, Goes(p, [job[p] EXCEPT !.pc = "reserve", !.loaded = doc])
      PROVE  CollectionInv'
  <2> DEFINE j == [job[p] EXCEPT !.pc = "reserve", !.loaded = doc]
  <2>1. Sound(j)
    BY <1>1 DEF Sound, Idle, Points
  <2>2. QED
    BY <1>1, <1>3, <2>1, Went
<1>4. QED
  BY <1>2, <1>3 DEF Load

\* So does one that reserves a file.
LEMMA ReserveKeeps ==
  ASSUME CollectionInv, NEW p \in Procs, ReserveEvidence(p)
  PROVE  CollectionInv'
<1> DEFINE size == runs[Entry(p).run].evidence.size
           j == [job[p] EXCEPT !.pc = "copy", !.size = size, !.input = Plus(@, 1, size)]
<1>1. job[p].pc = "reserve" /\ Sound(job[p])
  BY DEF ReserveEvidence, At, CollectionInv
<1>2. CASE Abort(p)
  BY <1>1, <1>2, Aborted
<1>3. CASE Goes(p, j) /\ Fits(job[p].input, 1, size, MaxInputFiles, MaxInputBytes)
  <2>1. Sound(j)
    BY <1>1, <1>3 DEF Sound, Idle, Points, Fits, Plus
  <2>2. QED
    BY <1>1, <1>3, <2>1, Went
<1>4. QED
  BY <1>2, <1>3 DEF ReserveEvidence

\* So does one that copies a file: what it read is what it reserved, or it gives up.
LEMMA CopyEvidenceKeeps ==
  ASSUME CollectionInv, NEW p \in Procs, CopyEvidence(p)
  PROVE  CollectionInv'
<1> DEFINE held == runs[Entry(p).run].evidence
           read == Plus(job[p].read, 1, held.size)
           j == [job[p] EXCEPT !.pc = "report", !.evidence = held, !.read = read]
           gone == [Ended(p, "error", {}) EXCEPT !.read = read]
<1>1. job[p].pc = "copy" /\ Sound(job[p])
  BY DEF CopyEvidence, At, CollectionInv
<1>2. CASE Goes(p, gone)
  <2>1. /\ DOMAIN gone = DOMAIN Idle /\ gone.pc = "done" /\ gone.mode = job[p].mode
        /\ gone.status = "error" /\ gone.input = Zero /\ gone.retained = Zero
        /\ gone.read = read
    BY DEF Ended, Idle
  <2>2. gone.read.files <= MaxInputFiles
    BY <1>1, <2>1 DEF Sound, Plus
  <2> HIDE DEF gone
  <2>3. Sound(gone)
    BY <1>1, <2>1, <2>2, BoundsAreNatural DEF Sound, Points, Statuses, Failed, Zero
  <2>4. QED
    BY <1>1, <1>2, <2>3, Went
<1>3. CASE Goes(p, j) /\ held.size = job[p].size
  <2>1. j.read = j.input /\ j.pc = "report"
    BY <1>1, <1>3 DEF Sound, Idle
  <2>2. Sound(j)
    BY <1>1, <2>1 DEF Sound, Idle, Points
  <2>3. QED
    BY <1>1, <1>3, <2>2, Went
<1>4. QED
  BY <1>2, <1>3 DEF CopyEvidence

\* So does one that copies a report.
LEMMA CopyReportKeeps ==
  ASSUME CollectionInv, NEW p \in Procs, CopyReport(p)
  PROVE  CollectionInv'
<1>1. job[p].pc = "report" /\ Sound(job[p])
  BY DEF CopyReport, At, CollectionInv
<1>2. CASE Abort(p)
  BY <1>1, <1>2, Aborted
<1>3. ASSUME NEW report, Fits(job[p].input, 1, 1, MaxInputFiles, MaxInputBytes),
             Goes(p, [job[p] EXCEPT !.pc = "render", !.report = report,
                                    !.input = Plus(@, 1, 1), !.read = Plus(@, 1, 1)])
      PROVE  CollectionInv'
  <2> DEFINE j == [job[p] EXCEPT !.pc = "render", !.report = report,
                                 !.input = Plus(@, 1, 1), !.read = Plus(@, 1, 1)]
  <2>1. j.input = Plus(job[p].input, 1, 1) /\ j.read = j.input /\ j.pc = "render"
    BY <1>1 DEF Sound, Idle
  <2>2. j.input.files <= MaxInputFiles /\ j.input.bytes <= MaxInputBytes
    BY <1>3, <2>1 DEF Fits, Plus
  <2>3. Sound(j)
    BY <1>1, <2>1, <2>2 DEF Sound, Idle, Points
  <2>4. QED
    BY <1>1, <1>3, <2>3, Went
<1>4. QED
  BY <1>2, <1>3 DEF CopyReport

\* So does one that renders its copy.
LEMMA RenderKeeps ==
  ASSUME CollectionInv, NEW p \in Procs, Render(p)
  PROVE  CollectionInv'
<1>1. job[p].pc = "render" /\ Sound(job[p])
  BY DEF Render, At, CollectionInv
<1>2. CASE Abort(p)
  BY <1>1, <1>2, Aborted
<1>3. ASSUME NEW kept, NEW entry, NEW pc \in {"compare", "load"},
             Fits(job[p].retained, kept.files, kept.bytes, MaxOutputFiles, MaxOutputBytes),
             Goes(p, [job[p] EXCEPT !.pc = pc, !.entries = Append(@, entry),
                                    !.retained = Plus(@, kept.files, kept.bytes),
                                    !.loaded = NoDocument, !.size = 0,
                                    !.evidence = Tampered, !.report = Tampered])
      PROVE  CollectionInv'
  <2> DEFINE j == [job[p] EXCEPT !.pc = pc, !.entries = Append(@, entry),
                                 !.retained = Plus(@, kept.files, kept.bytes),
                                 !.loaded = NoDocument, !.size = 0,
                                 !.evidence = Tampered, !.report = Tampered]
  <2>1. /\ j.retained = Plus(job[p].retained, kept.files, kept.bytes) /\ j.pc = pc
        /\ j.input = job[p].input /\ j.read = job[p].read
        /\ j.mode = job[p].mode /\ j.status = job[p].status /\ DOMAIN j = DOMAIN Idle
    BY <1>1 DEF Sound, Idle
  <2>2. j.retained.files <= MaxOutputFiles /\ j.retained.bytes <= MaxOutputBytes
    BY <1>3, <2>1 DEF Fits, Plus
  <2>3. Sound(j)
    BY <1>1, <1>3, <2>1, <2>2 DEF Sound, Points
  <2>4. QED
    BY <1>1, <1>3, <2>3, Went
<1>4. QED
  BY <1>2, <1>3 DEF Render

\* An invocation answers with a status, or goes on to stage.
LEMMA AnswerType ==
  ASSUME NEW p \in Procs
  PROVE  Answer(p) = "stage" \/ Answer(p) \in Statuses
  BY DEF Answer, Status, StatusOf, Mismatch, Statuses

\* One that could not prepare an entry keeps the invariant.
LEMMA UnpreparedKeeps ==
  ASSUME CollectionInv, NEW p \in Procs, Unprepared(p)
  PROVE  CollectionInv'
  BY EndKept DEF Unprepared, At, Statuses, disk

\* So does one that compares with the output.
LEMMA CompareKeeps ==
  ASSUME CollectionInv, NEW p \in Procs, Compare(p)
  PROVE  CollectionInv'
<1>1. /\ job[p].pc = "compare" /\ Sound(job[p]) /\ Prepared(p)
      /\ UNCHANGED <<manifest, changes>> /\ staging' = staging /\ p \notin staging
  BY DEF Compare, At, CollectionInv, disk, Failed
<1>2. CASE job' = [job EXCEPT ![p].pc = "stage"]
  <2> DEFINE j == [job[p] EXCEPT !.pc = "stage"]
  <2>1. job' = [job EXCEPT ![p] = j]
    BY <1>2
  <2>2. FitsOutput(job[p].retained, job[p].manifest, job[p].entries)
    BY <1>1 DEF Prepared, FitsOutput, Files
  <2>3. Sound(j)
    BY <1>1, <2>2 DEF Sound, Idle, Points
  <2>4. QED
    BY <1>1, <2>1, <2>3, OneStep
<1>3. CASE Answer(p) # "stage" /\ Ends(p, Answer(p), Shown(p))
  BY <1>1, <1>3, AnswerType, EndKept
<1>4. QED
  BY <1>2, <1>3 DEF Compare

\* So does one that stages its tree, which fits.
LEMMA StageKeeps ==
  ASSUME CollectionInv, NEW p \in Procs, Stage(p)
  PROVE  CollectionInv'
<1> DEFINE j == [job[p] EXCEPT !.pc = "install"]
<1>1. job[p].pc = "stage" /\ Sound(job[p]) /\ UNCHANGED <<manifest, changes>>
  BY DEF Stage, At, CollectionInv, disk
<1>2. Sound(j) /\ j.pc = "install"
  BY <1>1 DEF Sound, Idle, Points
<1>3. job' = [job EXCEPT ![p] = j] /\ staging' \subseteq staging \cup {p}
  BY DEF Stage
<1>4. QED
  BY <1>1, <1>2, <1>3, OneStep

\* So does one that ends after staging.
LEMMA EndKeeps ==
  ASSUME CollectionInv, NEW p \in Procs, StageFails(p) \/ Install(p) \/ InstallFails(p)
  PROVE  CollectionInv'
<1>1. Status(p) \in Statuses /\ "error" \in Statuses
  BY DEF Status, StatusOf, Statuses
<1>2. CASE StageFails(p)
  BY <1>1, <1>2, EndKept DEF StageFails, At, disk
<1>3. CASE Install(p)
  BY <1>1, <1>3, EndKept DEF Install, At, disk
<1>4. CASE InstallFails(p)
  BY <1>1, <1>4, EndKept DEF InstallFails, At, disk
<1>5. QED
  BY <1>2, <1>3, <1>4

\* So does one that dies.
LEMMA DiesKeeps ==
  ASSUME CollectionInv, NEW p \in Procs, Dies(p)
  PROVE  CollectionInv'
<1> DEFINE j == [Idle EXCEPT !.pc = "dead"]
<1>1. Sound(j) /\ j.pc = "dead"
  BY IdleSound DEF Sound, Idle, Points
<1>2. job' = [job EXCEPT ![p] = j] /\ staging' \subseteq staging \cup {p} /\ UNCHANGED <<manifest, changes>>
  BY DEF Dies, disk
<1>3. QED
  BY <1>1, <1>2, OneStep

\* The operator edits files, never the memory or the staging directory of an invocation.
LEMMA OperatorKeeps ==
  ASSUME CollectionInv, Operator
  PROVE  CollectionInv'
<1>1. UNCHANGED <<job, staging>>
  BY DEF Operator, EditManifest, EditJourney, ReplaceRun, FinishReplacing, Tamper, TouchOutput
<1>2. manifest' \in Manifests
  BY DEF CollectionInv, Operator, EditManifest, EditJourney, ReplaceRun, FinishReplacing, Tamper,
    TouchOutput, disk
<1>3. Edits \/ changes' = changes
  BY DEF Operator, EditManifest, EditJourney, ReplaceRun, FinishReplacing, Tamper, TouchOutput
<1>4. changes' \in 0..MaxChanges
  BY <1>3, BoundsAreNatural DEF CollectionInv, Edits
<1>5. QED
  BY <1>1, <1>2, <1>4 DEF CollectionInv, Sound, Failed

\* The invariant holds at the start.
LEMMA Initially ==
  ASSUME Init
  PROVE  CollectionInv
  BY IdleSound, BoundsAreNatural, StartsHaveManifests DEF Init, CollectionInv

\* The inductive invariant holds of every step: what an invocation holds is within the
\* bounds, what it has read is what it has reserved, and one that read a file which grew
\* after it was reserved has ended with an error.
THEOREM CollectionInductive == Spec => []CollectionInv
<1>1. ASSUME CollectionInv, [Next]_vars
      PROVE  CollectionInv'
  <2>1. CASE UNCHANGED vars
    BY <1>1, <2>1 DEF vars, disk, CollectionInv, Sound, Failed
  <2>2. ASSUME NEW p \in Procs, Invocation(p)
        PROVE  CollectionInv'
    BY <1>1, <2>2, BeginKeeps, LoadKeeps, ReserveKeeps, CopyEvidenceKeeps, CopyReportKeeps,
      RenderKeeps, UnpreparedKeeps, CompareKeeps, StageKeeps, EndKeeps, DiesKeeps DEF Invocation
  <2>3. CASE Operator
    BY <1>1, <2>3, OperatorKeeps
  <2>4. QED
    BY <1>1, <2>1, <2>2, <2>3 DEF Next
<1>2. QED
  BY <1>1, Initially, PTL DEF Spec

\* Every field keeps its type, and a staging directory exists only while its invocation is
\* about to install it, or once that invocation died or reported an error (write_new_tree).
THEOREM CollectionTypeCorrect == Spec => []CollectionTypeOK
<1>1. CollectionInv => CollectionTypeOK
  BY DEF CollectionInv, CollectionTypeOK, Sound, Points, Failed, GaveUp
<1>2. QED
  BY <1>1, CollectionInductive, PTL

\* No invocation retains and generates more, or reads more, than one collection may, but for
\* the file that grew after its size was reserved: the copy of that file is its last, for a
\* copy must have the reserved size (CopyLimits).
THEOREM BoundsHold == Spec => []WithinBounds
<1>1. CollectionInv => WithinBounds
  BY DEF CollectionInv, WithinBounds, Sound, FitsOutput, Fits, Files, Failed, GaveUp
<1>2. QED
  BY <1>1, CollectionInductive, PTL
-----------------------------------------------------------------------------
(* What an invocation remembers: its mode, and a state for each entry *)

EntryStatuses == {"guide_ready", "findings_ready", "not_publishable", "error"}

Remembers(j) ==
  /\ j.pc \in Points
  /\ j.pc \notin {"idle", "done", "dead"} => j.mode \in {"build", "check"}
  /\ DOMAIN j = DOMAIN Idle
  /\ \E S : j.entries \in Seq(S)
  /\ \A k \in DOMAIN j.entries : j.entries[k].status \in EntryStatuses

MemoryInv == DOMAIN job = Procs /\ \A p \in Procs : Remembers(job[p])

\* An invocation that has not begun has nothing to remember.
LEMMA IdleRemembers == Remembers(Idle)
<1>1. Idle.entries \in Seq({}) /\ DOMAIN Idle.entries = {}
  BY DEF Idle
<1>2. QED
  BY <1>1 DEF Remembers, Idle, Points

\* An invocation that ends or dies starts from an idle memory.
LEMMA BlankRemembers ==
  ASSUME NEW j, DOMAIN j = DOMAIN Idle, j.entries = Idle.entries,
         j.pc \in {"done", "dead"} \/ (j.pc = "load" /\ j.mode \in {"build", "check"})
  PROVE  Remembers(j)
  BY IdleRemembers DEF Remembers, Points

\* An invocation's step leaves the others' memory alone.
LEMMA OneRemembers ==
  ASSUME MemoryInv, NEW p \in Procs, NEW j, Remembers(j), job' = [job EXCEPT ![p] = j]
  PROVE  MemoryInv'
<1>1. DOMAIN job' = Procs /\ \A q \in Procs : Remembers(job'[q])
  BY DEF MemoryInv
<1>2. QED
  BY <1>1 DEF MemoryInv, Remembers

\* An invocation that ends keeps its entries.
LEMMA EndRemembers ==
  ASSUME MemoryInv, NEW p \in Procs, NEW status, NEW shown, Ends(p, status, shown)
  PROVE  MemoryInv'
<1> DEFINE j == Ended(p, status, shown)
<1>1. DOMAIN j = DOMAIN Idle /\ j.entries = Idle.entries /\ j.pc = "done"
  BY DEF Idle, Ended
<1>2. job' = [job EXCEPT ![p] = j]
  BY DEF Ends
<1>3. QED
  <2> HIDE DEF j
  <2>1. Remembers(j)
    BY <1>1, BlankRemembers
  <2>2. QED
    BY <1>2, <2>1, OneRemembers

\* A step that leaves mode and entries alone.
LEMMA GoingRemembers ==
  ASSUME MemoryInv, NEW p \in Procs, NEW j, job' = [job EXCEPT ![p] = j],
         job[p].pc \notin {"idle", "done", "dead"}, j.pc \in Points,
         DOMAIN j = DOMAIN job[p], j.mode = job[p].mode, j.entries = job[p].entries
  PROVE  MemoryInv'
<1>1. Remembers(j)
  BY DEF MemoryInv, Remembers
<1>2. QED
  BY <1>1, OneRemembers

\* A renderer's answer is the status of an entry.
LEMMA RenderStatusType ==
  ASSUME NEW report, NEW evidence, NEW doc
  PROVE  RenderOf(report, evidence, doc).status \in EntryStatuses
  BY DEF RenderOf, RenderStatus, EntryStatuses

\* An invocation adds the renderer's answer to its entries.
LEMMA RenderRemembers ==
  ASSUME MemoryInv, NEW p \in Procs, Render(p)
  PROVE  MemoryInv'
<1>1. job[p].pc = "render" /\ Remembers(job[p])
  BY DEF Render, At, MemoryInv
<1>2. CASE Abort(p)
  BY <1>2, EndRemembers DEF Abort
<1>3. ASSUME NEW kept, NEW entry, NEW pc \in {"compare", "load"}, entry.status \in EntryStatuses,
             Goes(p, [job[p] EXCEPT !.pc = pc, !.entries = Append(@, entry),
                                    !.retained = Plus(@, kept.files, kept.bytes),
                                    !.loaded = NoDocument, !.size = 0,
                                    !.evidence = Tampered, !.report = Tampered])
      PROVE  MemoryInv'
  <2> DEFINE j == [job[p] EXCEPT !.pc = pc, !.entries = Append(@, entry),
                                 !.retained = Plus(@, kept.files, kept.bytes),
                                 !.loaded = NoDocument, !.size = 0,
                                 !.evidence = Tampered, !.report = Tampered]
  <2>1. /\ j.pc = pc /\ j.mode = job[p].mode /\ DOMAIN j = DOMAIN Idle
        /\ j.entries = Append(job[p].entries, entry)
    BY <1>1 DEF Remembers, Idle
  <2>2. PICK S : job[p].entries \in Seq(S)
    BY <1>1 DEF Remembers
  <2>3. job[p].entries \in Seq(S \cup {entry})
    BY <2>2
  <2>4. /\ j.entries \in Seq(S \cup {entry})
        /\ \A k \in DOMAIN j.entries : j.entries[k].status \in EntryStatuses
    BY <1>1, <1>3, <2>1, <2>3 DEF Remembers
  <2>5. Remembers(j)
    <3> HIDE DEF j
    <3>1. QED
      BY <1>1, <1>3, <2>1, <2>4 DEF Remembers, Points
  <2>6. QED
    BY <1>3, <2>5, OneRemembers DEF Goes
<1>4. QED
  <2> DEFINE r == RenderOf(job[p].report, job[p].evidence, journeys[Entry(p).journey])
             kept == Kept(r.status, job[p].evidence.size)
             entry == [topic |-> Entry(p).topic, key |-> Entry(p).key, status |-> r.status,
                       run |-> r.run, journey |-> job[p].loaded, evidence |-> job[p].evidence]
             pc == IF Len(job[p].entries) + 1 = Len(Plan(p)) THEN "compare" ELSE "load"
  <2>1. entry.status \in EntryStatuses /\ pc \in {"compare", "load"}
    BY RenderStatusType
  <2>2. \/ Abort(p)
        \/ Goes(p, [job[p] EXCEPT !.pc = pc, !.entries = Append(@, entry),
                                  !.retained = Plus(@, kept.files, kept.bytes),
                                  !.loaded = NoDocument, !.size = 0,
                                  !.evidence = Tampered, !.report = Tampered])
    BY DEF Render
  <2>3. QED
    <3> HIDE DEF entry, pc, kept
    <3>1. QED
      BY <1>2, <1>3, <2>1, <2>2

\* Every step of an invocation keeps what it remembers.
LEMMA StepRemembers ==
  ASSUME MemoryInv, NEW p \in Procs, Invocation(p)
  PROVE  MemoryInv'
<1>1. Remembers(job[p])
  BY DEF MemoryInv
<1>2. CASE Begin(p)
  <2>1. PICK mode \in {"build", "check"} :
          \/ Goes(p, [Idle EXCEPT !.pc = "load", !.mode = mode, !.manifest = manifest])
          \/ Ends(p, "error", {})
    BY <1>2 DEF Begin
  <2> DEFINE j == [Idle EXCEPT !.pc = "load", !.mode = mode, !.manifest = manifest]
  <2>2. DOMAIN j = DOMAIN Idle /\ j.entries = Idle.entries /\ j.pc = "load" /\ j.mode = mode
    BY DEF Idle
  <2>3. QED
    BY <2>1, <2>2, BlankRemembers, OneRemembers, EndRemembers DEF Goes
<1>3. CASE Abort(p)
  BY <1>3, EndRemembers DEF Abort
<1>4. CASE Load(p) /\ ~Abort(p)
  BY <1>1, <1>4, GoingRemembers DEF Load, At, Goes, Remembers, Idle, Points
<1>5. CASE ReserveEvidence(p) /\ ~Abort(p)
  BY <1>1, <1>5, GoingRemembers DEF ReserveEvidence, At, Goes, Remembers, Idle, Points
<1>6. CASE CopyEvidence(p)
  <2> DEFINE read == Plus(job[p].read, 1, runs[Entry(p).run].evidence.size)
             gone == [Ended(p, "error", {}) EXCEPT !.read = read]
  <2>1. CASE Goes(p, gone)
    <3>1. DOMAIN gone = DOMAIN Idle /\ gone.entries = Idle.entries /\ gone.pc = "done"
      BY DEF Ended, Idle
    <3>2. job' = [job EXCEPT ![p] = gone]
      BY <2>1 DEF Goes
    <3>3. QED
      <4> HIDE DEF gone
      <4>1. QED
        BY <3>1, <3>2, BlankRemembers, OneRemembers
  <2>2. CASE ~Goes(p, gone)
    BY <1>1, <1>6, <2>2, GoingRemembers DEF CopyEvidence, At, Goes, Remembers, Idle, Points
  <2>3. QED
    BY <2>1, <2>2
<1>7. CASE CopyReport(p) /\ ~Abort(p)
  BY <1>1, <1>7, GoingRemembers DEF CopyReport, At, Goes, Remembers, Idle, Points
<1>8. CASE Render(p)
  BY <1>8, RenderRemembers
<1>9. CASE Unprepared(p) \/ StageFails(p) \/ Install(p) \/ InstallFails(p)
  BY <1>9, EndRemembers DEF Unprepared, StageFails, Install, InstallFails
<1>10. CASE Compare(p)
  <2>1. CASE Ends(p, Answer(p), Shown(p))
    BY <2>1, EndRemembers
  <2>2. CASE job' = [job EXCEPT ![p].pc = "stage"]
    BY <1>1, <1>10, <2>2, GoingRemembers DEF Compare, At, Remembers, Idle, Points
  <2>3. QED
    BY <1>10, <2>1, <2>2 DEF Compare
<1>11. CASE Stage(p)
  BY <1>1, <1>11, GoingRemembers DEF Stage, At, Remembers, Idle, Points
<1>12. CASE Dies(p)
  <2> DEFINE j == [Idle EXCEPT !.pc = "dead"]
  <2>1. DOMAIN j = DOMAIN Idle /\ j.entries = Idle.entries /\ j.pc = "dead"
    BY DEF Idle
  <2>2. job' = [job EXCEPT ![p] = j]
    BY <1>12 DEF Dies
  <2>3. QED
    <3> HIDE DEF j
    <3>1. QED
      BY <2>1, <2>2, BlankRemembers, OneRemembers
<1>13. QED
  BY <1>2, <1>3, <1>4, <1>5, <1>6, <1>7, <1>8, <1>9, <1>10, <1>11, <1>12 DEF Invocation

\* While an invocation works it has a mode, and every entry it prepared has one of four states.
THEOREM MemoryInvariant == Spec => []MemoryInv
<1>1. Init => MemoryInv
  BY IdleRemembers DEF Init, MemoryInv
<1>2. ASSUME MemoryInv, [Next]_vars
      PROVE  MemoryInv'
  <2>1. CASE job' = job
    BY <1>2, <2>1 DEF MemoryInv, Remembers
  <2>2. Operator \/ UNCHANGED vars => job' = job
    BY DEF vars, Operator, EditManifest, EditJourney, ReplaceRun, FinishReplacing, Tamper, TouchOutput
  <2>3. QED
    BY <1>2, <2>1, <2>2, StepRemembers DEF Next
<1>3. QED
  BY <1>1, <1>2, PTL DEF Spec
-----------------------------------------------------------------------------
(* How an invocation ends *)

\* The three ways: without a verdict, from a comparison, and from an installation.
LEMMA Endings ==
  ASSUME MemoryInv, [Next]_vars, NEW p \in Procs, Ending(p)
  PROVE  \/ job'[p].status = "error"
         \/ Compare(p) /\ job'[p].status = Answer(p) /\ Answer(p) # "stage"
         \/ Install(p) /\ job'[p].status = Status(p)
<1>1. job'[p] # job[p]
  BY DEF Ending
<1>2. ASSUME NEW status, NEW shown, Ends(p, status, shown)
      PROVE  job'[p].status = status
  BY <1>2 DEF Ends, Ended, MemoryInv, Idle
<1>3. Invocation(p)
  <2>1. ~UNCHANGED vars /\ ~Operator
    BY <1>1 DEF vars, Operator, EditManifest, EditJourney, ReplaceRun, FinishReplacing, Tamper, TouchOutput
  <2>2. PICK q \in Procs : Invocation(q)
    BY <2>1 DEF Next
  <2>3. \E j : job' = [job EXCEPT ![q] = j]
    BY <2>2 DEF Invocation, Begin, Load, ReserveEvidence, CopyEvidence, CopyReport, Render,
      Unprepared, Compare, Stage, StageFails, Install, InstallFails, Dies, Goes, Abort, Ends
  <2>4. q = p
    BY <1>1, <2>3 DEF MemoryInv
  <2>5. QED
    BY <2>2, <2>4
<1>4. ASSUME NEW j, Goes(p, j), j.pc # "done"
      PROVE  FALSE
  BY <1>4 DEF Goes, MemoryInv, Ending
<1>5. CASE Abort(p)
  BY <1>2, <1>5 DEF Abort
<1>6. ~Begin(p)
  BY DEF Begin, At, Ending
<1>7. ~Abort(p) => ~Load(p) /\ ~ReserveEvidence(p) /\ ~CopyReport(p)
  BY <1>4 DEF Load, ReserveEvidence, CopyReport, MemoryInv, Remembers, Idle
<1>14. CASE CopyEvidence(p)
  <2> DEFINE held == runs[Entry(p).run].evidence
             read == Plus(job[p].read, 1, held.size)
             j == [job[p] EXCEPT !.pc = "report", !.evidence = held, !.read = read]
             gone == [Ended(p, "error", {}) EXCEPT !.read = read]
  <2>1. j.pc = "report" /\ gone.status = "error"
    BY DEF Ended, Idle, MemoryInv, Remembers
  <2>2. Goes(p, j) \/ Goes(p, gone)
    BY <1>14 DEF CopyEvidence
  <2> HIDE DEF j, gone
  <2>3. Goes(p, gone)
    BY <1>4, <2>1, <2>2
  <2>4. QED
    BY <2>1, <2>3 DEF Goes, MemoryInv
<1>8. ~Abort(p) => ~Render(p)
  BY <1>4 DEF Render, MemoryInv, Remembers, Idle
<1>9. CASE Unprepared(p) \/ StageFails(p) \/ InstallFails(p)
  BY <1>2, <1>9 DEF Unprepared, StageFails, InstallFails
<1>10. CASE Compare(p)
  <2>1. job' # [job EXCEPT ![p].pc = "stage"]
    BY DEF Ending, MemoryInv, Remembers, Idle
  <2>2. Answer(p) # "stage" /\ Ends(p, Answer(p), Shown(p))
    BY <1>10, <2>1 DEF Compare
  <2>3. QED
    BY <1>2, <1>10, <2>2
<1>11. CASE Install(p)
  <2>1. Ends(p, Status(p), Shown(p))
    BY <1>11 DEF Install
  <2>2. QED
    BY <1>2, <1>11, <2>1
<1>12. ~Stage(p) /\ ~Dies(p)
  BY DEF Stage, Dies, Ending, MemoryInv, Remembers, Idle
<1>13. QED
  BY <1>3, <1>5, <1>6, <1>7, <1>8, <1>9, <1>10, <1>11, <1>12, <1>14 DEF Invocation

\* What differs from its output is not publishable, or an error.
LEMMA MismatchType ==
  ASSUME NEW expected, NEW actual
  PROVE  Mismatch(expected, actual) \in {"not_publishable", "error"}
  BY DEF Mismatch

\* A build that ends without an error leaves the tree its report describes, and a check that
\* answers with the collection's own status found it (build, check).
THEOREM ReportsMatchTheDisk == Spec => ReportMatchesDisk
<1>1. ASSUME MemoryInv, [Next]_vars, NEW p \in Procs, Ending(p), job'[p].status # "error",
             job[p].mode = "check" => job'[p].status \in {"ready", "findings"}
      PROVE  out' = Files(p)
  <2>1. CASE Install(p)
    BY <2>1 DEF Install
  <2>2. CASE Compare(p) /\ job'[p].status = Answer(p) /\ Answer(p) # "stage"
    <3>1. job[p].mode \in {"build", "check"} /\ out' = out
      BY <1>1, <2>2 DEF Compare, At, MemoryInv, Remembers
    <3>2. Identical(out, Files(p))
      BY <1>1, <2>2, <3>1, MismatchType DEF Answer
    <3>3. QED
      BY <3>1, <3>2 DEF Identical
  <2>3. QED
    BY <1>1, <2>1, <2>2, Endings
<1>2. MemoryInv /\ [Next]_vars =>
        [\A p \in Procs :
           (Ending(p) /\ job'[p].status # "error"
              /\ (job[p].mode = "check" => job'[p].status \in {"ready", "findings"}))
           => out' = Files(p)]_vars
  BY <1>1
<1>3. QED
  BY <1>2, MemoryInvariant, PTL DEF Spec, ReportMatchesDisk

\* The status of a collection is no better than that of any entry.
LEMMA StatusIsWorst ==
  ASSUME NEW entries, NEW k \in DOMAIN entries, entries[k].status \in EntryStatuses
  PROVE  Rank(StatusOf(entries)) >= Rank(entries[k].status)
<1>1. Has(entries, entries[k].status)
  BY DEF Has
<1>2. QED
  BY <1>1 DEF StatusOf, Rank, EntryStatuses

\* No invocation reports its collection as better than any of the entries it prepared
\* (the status precedence of build and check).
THEOREM TheWorstDecides == Spec => WorstDecides
<1>1. ASSUME MemoryInv, [Next]_vars, NEW p \in Procs, Ending(p), NEW k \in DOMAIN job[p].entries
      PROVE  Rank(job'[p].status) >= Rank(job[p].entries[k].status)
  <2>1. job[p].entries[k].status \in EntryStatuses
    BY <1>1 DEF MemoryInv, Remembers
  <2>2. CASE job'[p].status = "error"
    BY <2>1, <2>2 DEF Rank, EntryStatuses
  <2>3. CASE job'[p].status = Status(p)
    BY <2>1, <2>3, StatusIsWorst DEF Status
  <2>4. CASE Compare(p) /\ job'[p].status = "not_publishable"
    <3>1. job[p].entries[k].status # "error"
      BY <1>1, <2>4 DEF Compare, Prepared, Status, StatusOf, Has
    <3>2. QED
      BY <2>1, <2>4, <3>1 DEF Rank, EntryStatuses
  <2>5. CASE Compare(p) /\ job'[p].status = Answer(p) /\ Answer(p) # "stage"
    BY <2>2, <2>3, <2>4, <2>5, MismatchType DEF Answer
  <2>6. QED
    BY <1>1, <2>2, <2>3, <2>5, Endings
<1>2. MemoryInv /\ [Next]_vars =>
        [\A p \in Procs : Ending(p) =>
           \A k \in DOMAIN job[p].entries : Rank(job'[p].status) >= Rank(job[p].entries[k].status)]_vars
  BY <1>1
<1>3. QED
  BY <1>2, MemoryInvariant, PTL DEF Spec, WorstDecides
-----------------------------------------------------------------------------
(* What a tree says of its inputs *)

ReportPath == <<"collection-report.json">>

\* A tree has the paths of its files.
LEMMA AsTreeDomain ==
  ASSUME NEW listed
  PROVE  DOMAIN AsTree(listed) = {f[1] : f \in listed}
  BY DEF AsTree

\* A tree has a listed file at each of its paths.
LEMMA AsTreeAt ==
  ASSUME NEW listed, NEW path \in DOMAIN AsTree(listed)
  PROVE  \E f \in listed : f[1] = path /\ AsTree(listed)[path] = f[2]
<1>1. \E f \in listed : f[1] = path
  <2>1. path \in {f[1] : f \in listed}
    BY AsTreeDomain
  <2>2. QED
    BY <2>1
<1> DEFINE chosen == CHOOSE f \in listed : f[1] = path
<1>2. chosen \in listed /\ chosen[1] = path
  BY <1>1
<1>3. AsTree(listed)[path] = chosen[2]
  BY <1>1 DEF AsTree
<1>4. QED
  BY <1>2, <1>3

PagePath(t, e) == <<"topics", t.id, e.key, "index.md">>
ImagePath(t, e) == <<"topics", t.id, e.key, "001-focused.png">>

\* The files of a public tree, by their paths.
LEMMA PublicAt ==
  ASSUME NEW m, NEW entries, NEW path \in DOMAIN PublicFiles(m, entries)
  PROVE  LET file == PublicFiles(m, entries)[path] IN
         \/ path \in {<<"index.md">>, <<"guide-collection.json">>}
         \/ \E t \in m :
              \/ path = <<"topics", t.id, "index.md">> /\ file = TopicIndex(t, entries)
              \/ \E k \in Section(t, entries) :
                   \/ path = PagePath(t, entries[k]) /\ file = GuidePage(t, entries, k)
                   \/ path = ImagePath(t, entries[k]) /\ file = Image(entries[k].evidence)
<1> DEFINE Topic(t) ==
             {<<(<<"topics", t.id, "index.md">>), TopicIndex(t, entries)>>}
               \cup UNION {{<<(<<"topics", t.id, entries[k].key, "index.md">>), GuidePage(t, entries, k)>>,
                            <<(<<"topics", t.id, entries[k].key, "001-focused.png">>), Image(entries[k].evidence)>>}
                           : k \in Section(t, entries)}
           tops == {<<(<<"index.md">>), RootIndex(m)>>,
                    <<(<<"guide-collection.json">>), Json({[manifest |-> m]} \cup Range(entries))>>}
           listed == tops \cup UNION {Topic(t) : t \in m}
<1>1. PublicFiles(m, entries) = AsTree(listed)
  BY DEF PublicFiles
<1>2. PICK f \in listed : f[1] = path /\ PublicFiles(m, entries)[path] = f[2]
  <2> HIDE DEF listed
  <2>1. QED
    BY <1>1, AsTreeAt
<1>3. CASE f \in tops
  BY <1>2, <1>3
<1>4. ASSUME NEW t \in m, f \in Topic(t)
      PROVE  \/ f[1] = <<"topics", t.id, "index.md">> /\ f[2] = TopicIndex(t, entries)
             \/ \E k \in Section(t, entries) :
                  \/ f[1] = PagePath(t, entries[k]) /\ f[2] = GuidePage(t, entries, k)
                  \/ f[1] = ImagePath(t, entries[k]) /\ f[2] = Image(entries[k].evidence)
  BY <1>4 DEF PagePath, ImagePath
<1>5. QED
  <2> HIDE DEF Topic, tops
  <2>1. QED
    BY <1>2, <1>3, <1>4

\* Each page of a public tree has its image beside it.
LEMMA PublicImage ==
  ASSUME NEW m, NEW entries, NEW t \in m, NEW k \in Section(t, entries)
  PROVE  ImagePath(t, entries[k]) \in DOMAIN PublicFiles(m, entries)
<1> DEFINE Topic(u) ==
             {<<(<<"topics", u.id, "index.md">>), TopicIndex(u, entries)>>}
               \cup UNION {{<<(<<"topics", u.id, entries[n].key, "index.md">>), GuidePage(u, entries, n)>>,
                            <<(<<"topics", u.id, entries[n].key, "001-focused.png">>), Image(entries[n].evidence)>>}
                           : n \in Section(u, entries)}
           listed == {<<(<<"index.md">>), RootIndex(m)>>,
                      <<(<<"guide-collection.json">>), Json({[manifest |-> m]} \cup Range(entries))>>}
                       \cup UNION {Topic(u) : u \in m}
           f == <<ImagePath(t, entries[k]), Image(entries[k].evidence)>>
<1>1. PublicFiles(m, entries) = AsTree(listed)
  BY DEF PublicFiles
<1>2. f \in Topic(t)
  BY DEF ImagePath
<1>3. f \in listed /\ f[1] = ImagePath(t, entries[k])
  <2> HIDE DEF Topic
  <2>1. QED
    BY <1>2
<1>4. QED
  <2> HIDE DEF listed, f
  <2>1. QED
    BY <1>1, <1>3, AsTreeDomain

\* The files of a public tree leave the place of the report free.
LEMMA PublicHasNoReport ==
  ASSUME NEW m, NEW entries
  PROVE  ReportPath \notin DOMAIN PublicFiles(m, entries)
<1>1. SUFFICES ASSUME NEW path \in DOMAIN PublicFiles(m, entries)
               PROVE  path # ReportPath
  OBVIOUS
<1>2. \/ path \in {<<"index.md">>, <<"guide-collection.json">>}
      \/ \E t \in m :
           \/ path = <<"topics", t.id, "index.md">>
           \/ \E k \in Section(t, entries) :
                \/ path = PagePath(t, entries[k])
                \/ path = ImagePath(t, entries[k])
  BY PublicAt
<1>3. QED
  BY <1>2 DEF ReportPath, PagePath, ImagePath

ReviewPath(e, path) == <<"review", e.topic, e.key>> \o path
Cited(e) == Restrict(e, {"run", "journey"})

Findings(entries) == {e \in Range(entries) : e.status = "findings_ready"}

\* The files of a review tree, by their paths.
LEMMA ReviewAt ==
  ASSUME NEW m, NEW entries, NEW path \in DOMAIN ReviewFiles(m, entries)
  PROVE  LET file == ReviewFiles(m, entries)[path] IN
         \/ /\ path = <<"review", "index.md">>
            /\ file.data = {[manifest |-> m]} \cup {Restrict(e, {"key", "status", "journey"}) : e \in Range(entries)}
         \/ \E e \in Findings(entries) :
              \/ path = ReviewPath(e, <<"render", "findings.json">>) /\ file.data = {Cited(e)}
              \/ path = ReviewPath(e, <<"render", "findings.md">>) /\ file.data = {Cited(e)}
              \/ /\ path = ReviewPath(e, <<"report.json">>)
                 /\ file.data = {Restrict(e, {"run", "journey", "status"})}
              \/ path = ReviewPath(e, <<"evidence", "001.png">>) /\ file.data = {e.evidence}
<1> DEFINE Found == {e \in Range(entries) : e.status = "findings_ready"}
           Review(e) ==
             LET Here(at) == <<"review", e.topic, e.key>> \o at
                 cited == Restrict(e, {"run", "journey"})
             IN {<<Here(<<"render", "findings.json">>), Json({cited})>>,
                 <<Here(<<"render", "findings.md">>),
                   Markdown({cited}, {Link(1, <<"report.json">>), Link(1, <<"evidence", "001.png">>)})>>,
                 <<Here(<<"report.json">>), Json({Restrict(e, {"run", "journey", "status"})})>>,
                 <<Here(<<"evidence", "001.png">>), Image(e.evidence)>>}
           Index == Markdown({[manifest |-> m]} \cup {Restrict(e, {"key", "status", "journey"}) : e \in Range(entries)},
                             {Link(0, <<e.topic, e.key, "render", "findings.md">>) : e \in Found})
           listed == {<<(<<"review", "index.md">>), Index>>} \cup UNION {Review(e) : e \in Found}
<1>1. ReviewFiles(m, entries) = AsTree(listed)
  BY DEF ReviewFiles
<1>2. PICK f \in listed : f[1] = path /\ ReviewFiles(m, entries)[path] = f[2]
  <2> HIDE DEF listed
  <2>1. QED
    BY <1>1, AsTreeAt
<1>3. CASE f = <<(<<"review", "index.md">>), Index>>
  <2>1. Index.data = {[manifest |-> m]} \cup {Restrict(e, {"key", "status", "journey"}) : e \in Range(entries)}
    BY DEF Markdown
  <2>2. QED
    <3> HIDE DEF Index
    <3>1. QED
      BY <1>2, <1>3, <2>1
<1>4. ASSUME NEW e \in Found, f \in Review(e)
      PROVE  \/ f[1] = ReviewPath(e, <<"render", "findings.json">>) /\ f[2].data = {Cited(e)}
             \/ f[1] = ReviewPath(e, <<"render", "findings.md">>) /\ f[2].data = {Cited(e)}
             \/ /\ f[1] = ReviewPath(e, <<"report.json">>)
                /\ f[2].data = {Restrict(e, {"run", "journey", "status"})}
             \/ f[1] = ReviewPath(e, <<"evidence", "001.png">>) /\ f[2].data = {e.evidence}
  <2> DEFINE json == Json({Cited(e)})
             md == Markdown({Cited(e)}, {Link(1, <<"report.json">>), Link(1, <<"evidence", "001.png">>)})
             report == Json({Restrict(e, {"run", "journey", "status"})})
             image == Image(e.evidence)
  <2>1. /\ json.data = {Cited(e)} /\ md.data = {Cited(e)} /\ image.data = {e.evidence}
        /\ report.data = {Restrict(e, {"run", "journey", "status"})}
    BY DEF Json, Markdown, Image
  <2>2. \/ f = <<ReviewPath(e, <<"render", "findings.json">>), json>>
        \/ f = <<ReviewPath(e, <<"render", "findings.md">>), md>>
        \/ f = <<ReviewPath(e, <<"report.json">>), report>>
        \/ f = <<ReviewPath(e, <<"evidence", "001.png">>), image>>
    BY <1>4 DEF ReviewPath, Cited
  <2>3. QED
    <3> HIDE DEF json, md, report, image
    <3>1. QED
      BY <2>1, <2>2
<1>5. QED
  <2>1. Found = Findings(entries)
    BY DEF Findings
  <2>2. QED
    <3> HIDE DEF Review, Found, Index
    <3>1. QED
      BY <1>2, <1>3, <1>4, <2>1

Below == {<<"render", "findings.json">>, <<"render", "findings.md">>, <<"report.json">>,
          <<"evidence", "001.png">>}

\* A path below an entry's review: its head is the entry's own.
LEMMA ReviewPathShape ==
  ASSUME NEW e, NEW rest \in Below
  PROVE  /\ Len(ReviewPath(e, rest)) \in Nat /\ Len(ReviewPath(e, rest)) >= 4
         /\ ReviewPath(e, rest)[1] = "review"
         /\ SubSeq(ReviewPath(e, rest), 1, 3) = <<"review", e.topic, e.key>>
<1> DEFINE S == {"review", e.topic, e.key, "render", "findings.json", "findings.md", "report.json",
                 "evidence", "001.png"}
           head == <<"review", e.topic, e.key>>
<1>1. head \in Seq(S) /\ Len(head) = 3 /\ head[1] = "review"
  OBVIOUS
<1>2. rest \in Seq(S) /\ Len(rest) >= 1
  <2>1. rest = <<"report.json">> => rest \in Seq(S) /\ Len(rest) = 1
    OBVIOUS
  <2>2. ASSUME NEW a \in S, NEW b \in S, rest = <<a, b>>
        PROVE  rest \in Seq(S) /\ Len(rest) >= 1
    BY <2>2
  <2>3. CASE rest = <<"report.json">>
    BY <2>1, <2>3
  <2>4. CASE rest # <<"report.json">>
    <3>1. \/ rest = <<"render", "findings.json">> \/ rest = <<"render", "findings.md">>
          \/ rest = <<"evidence", "001.png">>
      BY <2>4 DEF Below
    <3>2. {"render", "findings.json", "findings.md", "evidence", "001.png"} \subseteq S
      OBVIOUS
    <3>3. QED
      <4> HIDE DEF S
      <4>1. QED
        BY <2>2, <3>1, <3>2
  <2>5. QED
    BY <2>3, <2>4
<1>3. ReviewPath(e, rest) = head \o rest
  BY DEF ReviewPath
<1>4. QED
  <2> HIDE DEF S, head
  <2>1. /\ Len(head \o rest) = 3 + Len(rest)
        /\ head \o rest \in Seq(S)
        /\ \A i \in 1..3 : (head \o rest)[i] = head[i]
    <3>1. /\ Len(head \o rest) = Len(head) + Len(rest)
          /\ head \o rest \in Seq(S)
          /\ \A i \in 1 .. Len(head) + Len(rest) :
               (head \o rest)[i] = IF i <= Len(head) THEN head[i] ELSE rest[i - Len(head)]
      BY <1>1, <1>2, ConcatProperties
    <3>2. Len(rest) \in Nat
      BY <1>2
    <3>3. QED
      BY <1>1, <3>1, <3>2
  <2>2. SubSeq(head \o rest, 1, 3) = head
    BY <1>1, <1>2, <2>1
  <2>3. QED
    BY <1>1, <1>2, <1>3, <2>1, <2>2 DEF head

\* So do those of a review.
LEMMA ReviewHasNoReport ==
  ASSUME NEW m, NEW entries
  PROVE  ReportPath \notin DOMAIN ReviewFiles(m, entries)
<1>1. SUFFICES ASSUME NEW path \in DOMAIN ReviewFiles(m, entries)
               PROVE  path # ReportPath
  OBVIOUS
<1>2. Len(ReportPath) = 1 /\ Len(<<"review", "index.md">>) = 2
  BY DEF ReportPath
<1>3. CASE path = <<"review", "index.md">>
  BY <1>2, <1>3
<1>4. ASSUME NEW e, NEW rest \in Below,
             path = ReviewPath(e, rest)
      PROVE  path # ReportPath
  <2>1. Len(path) \in Nat /\ Len(path) >= 4
    BY <1>4, ReviewPathShape
  <2>2. \A n \in Nat : n >= 4 => n # Len(ReportPath)
    BY <1>2
  <2>3. Len(path) # Len(ReportPath)
    BY <2>1, <2>2, Zenon
  <2>4. QED
    BY <2>3
<1>5. \/ path = <<"review", "index.md">>
      \/ \E e \in Findings(entries) :
           \/ path = ReviewPath(e, <<"render", "findings.json">>)
           \/ path = ReviewPath(e, <<"render", "findings.md">>)
           \/ path = ReviewPath(e, <<"report.json">>)
           \/ path = ReviewPath(e, <<"evidence", "001.png">>)
  BY ReviewAt
<1>6. QED
  BY <1>3, <1>4, <1>5 DEF Below

\* An output whose report is the expected one, or cannot be read, is not stale.
LEMMA SameInputsAreNotStale ==
  ASSUME NEW expected, NEW actual, Identity(actual) \in {{}, Identity(expected)}
  PROVE  Mismatch(expected, actual) = "error"
<1> DEFINE stale == ~FALSE /\ IdentityChanged(expected, actual)
           Differs(path) ==
             CASE path \notin DOMAIN actual -> "missing_output"
               [] path \notin DOMAIN expected -> "unexpected_output"
               [] OTHER -> IF actual[path] = expected[path] THEN "same" ELSE "changed_output"
           found == {Differs(path) : path \in DOMAIN expected \cup DOMAIN actual} \ {"same"}
<1>1. ~stale
  BY DEF IdentityChanged
<1>2. CompareAndAudit(expected, actual, FALSE) = Audit(actual) \cup (IF stale /\ found # {} THEN {"stale_output"} ELSE found)
  BY DEF CompareAndAudit
<1>3. "stale_output" \notin Audit(actual)
  BY DEF Audit
<1>4. \A path : Differs(path) # "stale_output"
  OBVIOUS
<1>5. "stale_output" \notin found
  <2> HIDE DEF Differs
  <2>1. QED
    BY <1>4
<1>6. CompareAndAudit(expected, actual, FALSE) # {"stale_output"}
  <2> HIDE DEF found, stale
  <2>1. QED
    BY <1>1, <1>2, <1>3, <1>5
<1>7. QED
  BY <1>6 DEF Mismatch

\* The inputs are those of the installed output, but a file of it was altered, lost or added:
\* as long as its report names these inputs, or none, check calls the output damaged, never
\* merely out of date (compare_and_audit).
THEOREM DamageIsNotStaleness == Spec => BrokenIsNotStale
<1>1. ASSUME MemoryInv, [Next]_vars, NEW p \in Procs, ChecksDamaged(p),
             out # Foreign => Identity(out) \in {{}, Identity(installed)}
      PROVE  job'[p].status = "error"
  <2>1. ~Install(p) /\ Ending(p)
    BY <1>1 DEF Install, At, ChecksDamaged
  <2>2. CASE job'[p].status = Answer(p)
    <3>1. Readable => Mismatch(Files(p), out) = "error"
      BY <1>1, SameInputsAreNotStale DEF Readable, ChecksDamaged
    <3>2. Answer(p) = "error"
      BY <1>1, <3>1 DEF Answer, Identical, ChecksDamaged
    <3>3. QED
      BY <2>2, <3>2
  <2>3. QED
    BY <1>1, <2>1, <2>2, Endings
<1>2. MemoryInv /\ [Next]_vars =>
        [\A p \in Procs :
           ChecksDamaged(p) /\ (out # Foreign => Identity(out) \in {{}, Identity(installed)})
           => job'[p].status = "error"]_vars
  BY <1>1
<1>3. QED
  BY <1>2, MemoryInvariant, PTL DEF Spec, BrokenIsNotStale
-----------------------------------------------------------------------------
(* The order of the entries *)

\* Before orders these entries one after another.
InLine(S) ==
  /\ \A a, b \in S : a = b \/ Before(a, b) \/ Before(b, a)
  /\ \A a, b, c \in S : Before(a, b) /\ Before(b, c) => Before(a, c)
  /\ \A a \in S : ~Before(a, a)

IsLast(x, S) == x \in S /\ \A y \in S : y = x \/ Before(y, x)

\* A property of finite sets that fails somewhere fails in a smallest set.
LEMMA SmallestBad ==
  ASSUME NEW S, IsFiniteSet(S), NEW Bad \in SUBSET SUBSET S, Bad # {}
  PROVE  \E T \in Bad : \A x \in T : T \ {x} \notin Bad
<1>1. IsWellFoundedOn(StrictSubsetOrdering(S), SUBSET S)
  BY FS_StrictSubsetOrderingWellFounded, FS_FiniteSubsetsOfFinite
<1>2. PICK T \in Bad : \A U \in Bad : <<U, T>> \notin StrictSubsetOrdering(S)
  <2> DEFINE R == StrictSubsetOrdering(S)
             All == SUBSET S
  <2>1. IsWellFoundedOn(R, All) /\ Bad \subseteq All
    BY <1>1
  <2> HIDE DEF R, All
  <2>2. \E T \in Bad : \A U \in Bad : ~(<<U, T>> \in R)
    BY <2>1, WFMin
  <2>3. QED
    BY <2>2 DEF R
<1>3. ASSUME NEW x \in T
      PROVE  T \ {x} \notin Bad
  BY <1>2, <1>3 DEF StrictSubsetOrdering
<1>4. QED
  BY <1>3

\* Finitely many entries in line have a last one.
LEMMA LastExists ==
  ASSUME NEW S, IsFiniteSet(S), InLine(S), S # {}
  PROVE  \E x \in S : IsLast(x, S)
<1> DEFINE Bad == {T \in SUBSET S : T # {} /\ \A x \in T : ~IsLast(x, T)}
<1>1. SUFFICES Bad = {}
  BY DEF IsLast
<1>2. SUFFICES ASSUME Bad # {}
               PROVE  FALSE
  OBVIOUS
<1>3. PICK T \in Bad : \A x \in T : T \ {x} \notin Bad
  <2> HIDE DEF Bad
  <2>1. Bad \in SUBSET SUBSET S
    BY DEF Bad
  <2>2. QED
    BY <1>2, <2>1, SmallestBad
<1>4. PICK x \in T : TRUE
  OBVIOUS
<1>5. ~IsLast(x, T) /\ T \subseteq S
  BY <1>4
<1>6. T \ {x} # {}
  BY <1>4, <1>5 DEF IsLast
<1>7. PICK y \in T \ {x} : IsLast(y, T \ {x})
  BY <1>3, <1>4, <1>6
<1>8. CASE Before(x, y)
  BY <1>7, <1>8 DEF IsLast
<1>9. CASE Before(y, x)
  <2>1. \A z \in T : z = x \/ Before(z, x)
    BY <1>4, <1>5, <1>7, <1>9 DEF IsLast, InLine
  <2>2. QED
    BY <1>4, <1>5, <2>1 DEF IsLast
<1>10. QED
  BY <1>4, <1>5, <1>7, <1>8, <1>9 DEF InLine

\* A finite set of entries in line has a sorted sequence.
LEMMA SortedExists ==
  ASSUME NEW S, IsFiniteSet(S), InLine(S)
  PROVE  SortedSeqs(S) # {}
<1> DEFINE Bad == {T \in SUBSET S : SortedSeqs(T) = {}}
<1>1. SUFFICES ASSUME Bad # {}
               PROVE  FALSE
  OBVIOUS
<1>2. PICK T \in Bad : \A x \in T : T \ {x} \notin Bad
  <2> HIDE DEF Bad
  <2>1. Bad \in SUBSET SUBSET S
    BY DEF Bad
  <2>2. QED
    BY <1>1, <2>1, SmallestBad
<1>3. T \subseteq S /\ SortedSeqs(T) = {} /\ IsFiniteSet(T) /\ InLine(T)
  BY FS_Subset DEF InLine
<1>4. CASE T = {}
  <2>1. Cardinality(T) = 0
    BY <1>4, FS_EmptySet
  <2>2. <<>> \in SortedSeqs(T)
    BY <1>4, <2>1 DEF SortedSeqs
  <2>3. QED
    BY <1>3, <2>2
<1>5. CASE T # {}
  <2>1. PICK x \in T : IsLast(x, T)
    BY <1>3, <1>5, LastExists
  <2> DEFINE U == T \ {x}
             n == Cardinality(U)
  <2>2. n \in Nat /\ Cardinality(T) = n + 1
    <3>1. Cardinality(T) \in Nat
      BY <1>3, FS_CardinalityType
    <3>2. IsFiniteSet(U) /\ Cardinality(U) = Cardinality(T) - 1
      BY <1>3, <2>1, FS_RemoveElement DEF IsLast
    <3>3. Cardinality(U) \in Nat
      BY <3>2, FS_CardinalityType
    <3>4. QED
      BY <3>1, <3>2, <3>3
  <2>3. SortedSeqs(U) # {}
    BY <1>2, <1>3
  <2>4. PICK list \in [1..n -> U] : \A i, j \in 1..n : i < j => Before(list[i], list[j])
    BY <2>3 DEF SortedSeqs
  <2> DEFINE longer == [i \in 1 .. n + 1 |-> IF i = n + 1 THEN x ELSE list[i]]
  <2> HIDE DEF n
  <2>5. longer \in [1 .. n + 1 -> T]
    <3>1. \A i \in 1 .. n + 1 : i = n + 1 \/ i \in 1..n
      BY <2>2
    <3>2. QED
      BY <2>4, <3>1
  <2>6. ASSUME NEW i \in 1 .. n + 1, NEW j \in 1 .. n + 1, i < j
        PROVE  Before(longer[i], longer[j])
    <3>1. i \in 1..n /\ longer[i] = list[i] /\ list[i] \in U
      BY <2>2, <2>4, <2>6
    <3>2. CASE j = n + 1
      BY <2>1, <3>1, <3>2 DEF IsLast
    <3>3. CASE j # n + 1
      <4>1. j \in 1..n /\ longer[j] = list[j]
        BY <2>2, <2>6, <3>3
      <4>2. QED
        BY <2>4, <2>6, <3>1, <4>1
    <3>4. QED
      BY <3>2, <3>3
  <2>7. longer \in SortedSeqs(T)
    <3> HIDE DEF longer
    <3>1. QED
      BY <2>2, <2>5, <2>6 DEF SortedSeqs
  <2>8. QED
    BY <1>3, <2>7
<1>6. QED
  BY <1>4, <1>5

\* The entries of a valid manifest are finitely many, in line.
LEMMA ListedInLine ==
  ASSUME NEW m \in Manifests, ValidManifest(m)
  PROVE  IsFiniteSet(Listed(m)) /\ InLine(Listed(m)) /\ Listed(m) # {}
<1>1. IsFiniteSet(Listed(m))
  <2> DEFINE Of(t) == {[topic |-> t, guide |-> g] : g \in t.guides}
  <2>1. ASSUME NEW t \in m
        PROVE  IsFiniteSet(Of(t))
    <3> DEFINE f == [g \in t.guides |-> [topic |-> t, guide |-> g]]
    <3>1. f \in Surjection(t.guides, Of(t))
      BY DEF Surjection
    <3>2. IsFiniteSet(t.guides)
      BY ManifestsAreFinite
    <3>3. QED
      <4> HIDE DEF f, Of
      <4>1. QED
        BY <3>1, <3>2, FS_Surjection
  <2>2. IsFiniteSet({Of(t) : t \in m})
    <3> DEFINE Sets == {Of(t) : t \in m}
               f == [t \in m |-> Of(t)]
    <3>1. f \in Surjection(m, Sets)
      <4> HIDE DEF Of
      <4>1. QED
        BY DEF Surjection
    <3>2. IsFiniteSet(m)
      BY ManifestsAreFinite
    <3>3. QED
      <4> HIDE DEF f, Sets
      <4>1. IsFiniteSet(Sets)
        BY <3>1, <3>2, FS_Surjection
      <4>2. QED
        BY <4>1 DEF Sets
  <2>3. \A T \in {Of(t) : t \in m} : IsFiniteSet(T)
    BY <2>1
  <2>4. QED
    BY <2>2, <2>3, FS_UNION DEF Listed
<1>2. ASSUME NEW x \in Listed(m)
      PROVE  /\ x.topic \in m /\ x.guide \in x.topic.guides
             /\ x = [topic |-> x.topic, guide |-> x.guide]
             /\ x.topic.order \in Nat /\ x.guide.order \in Nat
  BY <1>2, ManifestsAreFinite DEF Listed
<1>3. ASSUME NEW a \in Listed(m), NEW b \in Listed(m)
      PROVE  a = b \/ Before(a, b) \/ Before(b, a)
  <2>1. a.topic.order = b.topic.order => a.topic = b.topic
    BY <1>2 DEF ValidManifest, Unique
  <2>2. a.topic = b.topic /\ a.guide.order = b.guide.order => a.guide = b.guide
    BY <1>2 DEF ValidManifest, Unique
  <2>3. \/ a.topic.order < b.topic.order \/ b.topic.order < a.topic.order \/ a.topic.order = b.topic.order
    BY <1>2
  <2>4. \/ a.guide.order < b.guide.order \/ b.guide.order < a.guide.order \/ a.guide.order = b.guide.order
    BY <1>2
  <2>5. a.topic = b.topic /\ a.guide = b.guide => a = b
    BY <1>2
  <2>6. QED
    BY <2>1, <2>2, <2>3, <2>4, <2>5 DEF Before
<1>4. ASSUME NEW a \in Listed(m), NEW b \in Listed(m), NEW c \in Listed(m), Before(a, b), Before(b, c)
      PROVE  Before(a, c)
  BY <1>2, <1>4 DEF Before
<1>5. ASSUME NEW a \in Listed(m)
      PROVE  ~Before(a, a)
  BY <1>2, <1>5 DEF Before
<1>6. Listed(m) # {}
  <2>1. PICK t \in m : TRUE
    BY DEF ValidManifest
  <2>2. PICK g \in t.guides : TRUE
    BY <2>1 DEF ValidManifest
  <2>3. [topic |-> t, guide |-> g] \in Listed(m)
    BY <2>1, <2>2 DEF Listed
  <2>4. QED
    BY <2>3
<1>7. QED
  BY <1>1, <1>3, <1>4, <1>5, <1>6 DEF InLine

\* The entries of a valid manifest, one after another: each is a guide of the manifest, and
\* no key comes twice.
LEMMA OrderedEntries ==
  ASSUME NEW m \in Manifests, ValidManifest(m)
  PROVE  /\ Len(Ordered(m)) \in Nat \ {0} /\ DOMAIN Ordered(m) = 1..Len(Ordered(m))
         /\ \A k \in DOMAIN Ordered(m) : \E t \in m : \E g \in t.guides :
              Ordered(m)[k] = [topic |-> t.id, key |-> g.key, run |-> g.run, journey |-> g.journey]
         /\ \A i, j \in DOMAIN Ordered(m) : Ordered(m)[i].key = Ordered(m)[j].key => i = j
<1> DEFINE n == Cardinality(Listed(m))
           list == CHOOSE l \in SortedSeqs(Listed(m)) : TRUE
           at(k) == [topic |-> list[k].topic.id, key |-> list[k].guide.key,
                     run |-> list[k].guide.run, journey |-> list[k].guide.journey]
<1>1. n \in Nat \ {0}
  BY ListedInLine, FS_CardinalityType, FS_EmptySet
<1>2. list \in SortedSeqs(Listed(m))
  BY ListedInLine, SortedExists
<1>3. list \in [1..n -> Listed(m)] /\ \A i, j \in 1..n : i < j => Before(list[i], list[j])
  BY <1>2 DEF SortedSeqs
<1>4. Ordered(m) = [k \in 1..n |-> at(k)]
  BY DEF Ordered
<1> HIDE DEF n, list
<1>5. Len(Ordered(m)) = n /\ DOMAIN Ordered(m) = 1..n
  BY <1>1, <1>4
<1>6. ASSUME NEW k \in 1..n
      PROVE  /\ list[k].topic \in m /\ list[k].guide \in list[k].topic.guides
             /\ list[k] \in Listed(m) /\ list[k] = [topic |-> list[k].topic, guide |-> list[k].guide]
  BY <1>3, <1>6 DEF Listed
<1>7. ASSUME NEW i \in 1..n, NEW j \in 1..n, i < j
      PROVE  Ordered(m)[i].key # Ordered(m)[j].key
  <2> DEFINE t == list[i].topic
             u == list[j].topic
             g == list[i].guide
             h == list[j].guide
  <2>1. list[i].guide.key = list[j].guide.key => list[i] = list[j]
    <3>1. /\ t \in m /\ u \in m /\ g \in t.guides /\ h \in u.guides
          /\ list[i] = [topic |-> t, guide |-> g] /\ list[j] = [topic |-> u, guide |-> h]
      BY <1>6
    <3> HIDE DEF t, u, g, h
    <3>2. g.key = h.key => t = u /\ g = h
      BY <3>1 DEF ValidManifest
    <3>3. QED
      BY <3>1, <3>2 DEF g, h
  <2>2. list[i] # list[j]
    BY <1>3, <1>6, <1>7, ListedInLine DEF InLine
  <2>3. QED
    BY <1>4, <2>1, <2>2
<1>8. \A i, j \in DOMAIN Ordered(m) : Ordered(m)[i].key = Ordered(m)[j].key => i = j
  BY <1>1, <1>5, <1>7
<1>9. \A k \in DOMAIN Ordered(m) : \E t \in m : \E g \in t.guides :
        Ordered(m)[k] = [topic |-> t.id, key |-> g.key, run |-> g.run, journey |-> g.journey]
  BY <1>4, <1>5, <1>6
<1>10. QED
  BY <1>1, <1>5, <1>8, <1>9
-----------------------------------------------------------------------------
(* What the generated files say *)

EvidenceFields == {"of", "size"}

\* The entry names a recorded run with this outcome and carries that run's evidence.
Vouched(e, outcome) ==
  Recorded(e.run, e.journey, outcome) /\ e.evidence.of = e.run /\ DOMAIN e.evidence = EvidenceFields

\* The k-th entry is that of the k-th guide, and what is published of it is vouched for.
Attested(m, entries, k) ==
  /\ k \in DOMAIN Ordered(m)
  /\ entries[k].topic = Ordered(m)[k].topic /\ entries[k].key = Ordered(m)[k].key
  /\ entries[k].status \in EntryStatuses
  /\ entries[k].status = "guide_ready" => Vouched(entries[k], "passed")
  /\ entries[k].status = "findings_ready" => Vouched(entries[k], "failed")

\* InstalledTellsTheTruth of any tree, in which the image a page shows is there.
Truthful(tree) ==
  /\ \A path \in DOMAIN tree : path[1] \in {"topics", "review"} =>
       \A fact \in tree[path].data : "run" \in DOMAIN fact =>
         /\ Recorded(fact.run, fact.journey, IF path[1] = "topics" THEN "passed" ELSE "failed")
         /\ ImageBeside(path) \in DOMAIN tree
         /\ \A e \in tree[ImageBeside(path)].data : e.of = fact.run
  /\ <<"index.md">> \in DOMAIN tree => \A path \in DOMAIN tree : path[1] # "review"

\* Two entries with one key are one.
LEMMA KeysDiffer ==
  ASSUME NEW m \in Manifests, ValidManifest(m), NEW entries,
         \A k \in DOMAIN entries : Attested(m, entries, k),
         NEW i \in DOMAIN entries, NEW j \in DOMAIN entries, entries[i].key = entries[j].key
  PROVE  i = j
  BY OrderedEntries DEF Attested

\* A page shows the image beside it.
LEMMA PageImage ==
  ASSUME NEW t, NEW e
  PROVE  ImageBeside(PagePath(t, e)) = ImagePath(t, e)
<1> DEFINE S == {"topics", t.id, e.key, "index.md"}
           head == <<"topics", t.id, e.key>>
<1>1. SubSeq(<<"topics", t.id, e.key, "index.md">>, 1, 3) = head
  <2> DEFINE s == <<"topics", t.id, e.key, "index.md">>
  <2>1. s \in Seq(S) /\ Len(s) = 4
    OBVIOUS
  <2>2. s[1] = head[1] /\ s[2] = head[2] /\ s[3] = head[3] /\ Len(head) = 3 /\ DOMAIN head = 1..3
    OBVIOUS
  <2>3. SubSeq(s, 1, 3) = [i \in 1..3 |-> s[i]]
    <3> HIDE DEF s, S
    <3>1. QED
      BY <2>1
  <2>4. head = [i \in 1..3 |-> head[i]]
    BY <2>2
  <2>5. \A i \in 1..3 : s[i] = head[i]
    <3> HIDE DEF s, head
    <3>1. QED
      BY <2>2
  <2>6. SubSeq(s, 1, 3) = head
    <3> HIDE DEF s, head
    <3>1. QED
      BY <2>3, <2>4, <2>5
  <2>7. QED
    BY <2>6
<1>2. head \o <<"001-focused.png">> = <<"topics", t.id, e.key, "001-focused.png">>
  <2> DEFINE T == S \cup {"001-focused.png"}
             name == <<"001-focused.png">>
             whole == <<"topics", t.id, e.key, "001-focused.png">>
  <2>1. head \in Seq(T) /\ name \in Seq(T) /\ whole \in Seq(T)
    OBVIOUS
  <2>2. Len(head) = 3 /\ Len(name) = 1 /\ Len(whole) = 4
    OBVIOUS
  <2>3. whole[1] = head[1] /\ whole[2] = head[2] /\ whole[3] = head[3] /\ whole[4] = name[1]
    OBVIOUS
  <2>4. head \o name = whole
    <3> HIDE DEF T, head, name, whole
    <3>1. /\ Len(head \o name) = 4 /\ head \o name \in Seq(T)
          /\ \A i \in 1..4 : (head \o name)[i] = IF i <= 3 THEN head[i] ELSE name[i - 3]
      <4>1. /\ Len(head \o name) = Len(head) + Len(name)
            /\ head \o name \in Seq(T)
            /\ \A i \in 1 .. Len(head) + Len(name) :
                 (head \o name)[i] = IF i <= Len(head) THEN head[i] ELSE name[i - Len(head)]
        BY <2>1, ConcatProperties
      <4>2. Len(head) + Len(name) = 4
        BY <2>2
      <4>3. QED
        BY <2>2, <4>1, <4>2
    <3>2. \A i \in 1..4 : (head \o name)[i] = whole[i]
      BY <2>3, <3>1
    <3>3. QED
      BY <2>1, <2>2, <3>1, <3>2
  <2>5. QED
    BY <2>4
<1>3. PagePath(t, e)[1] = "topics"
  BY DEF PagePath
<1>4. QED
  BY <1>1, <1>2, <1>3 DEF ImageBeside, PagePath, ImagePath

\* A public tree of attested entries tells the truth.
LEMMA PublicIsTruthful ==
  ASSUME NEW m \in Manifests, ValidManifest(m), NEW entries,
         \A k \in DOMAIN entries : Attested(m, entries, k), StatusOf(entries) = "ready"
  PROVE  Truthful(PublicFiles(m, entries))
<1> DEFINE tree == PublicFiles(m, entries)
<1> HIDE DEF tree
<1>1. ASSUME NEW k \in DOMAIN entries
      PROVE  Vouched(entries[k], "passed")
  <2>1. entries[k].status \in EntryStatuses
    BY DEF Attested
  <2>2. entries[k].status \notin {"error", "not_publishable", "findings_ready"}
    BY DEF StatusOf, Has
  <2>3. QED
    BY <2>1, <2>2 DEF Attested, EntryStatuses
<1>2. ASSUME NEW path \in DOMAIN tree
      PROVE  path[1] # "review"
  <2>1. \/ path \in {<<"index.md">>, <<"guide-collection.json">>}
        \/ \E t \in m :
             \/ path = <<"topics", t.id, "index.md">>
             \/ \E k \in Section(t, entries) : path = PagePath(t, entries[k]) \/ path = ImagePath(t, entries[k])
    BY <1>2, PublicAt DEF tree
  <2>2. QED
    BY <2>1 DEF PagePath, ImagePath
<1>3. ASSUME NEW t \in m, NEW k \in Section(t, entries)
      PROVE  tree[ImagePath(t, entries[k])].data = {entries[k].evidence}
  <2> DEFINE path == ImagePath(t, entries[k])
             file == tree[path]
  <2>1. path \in DOMAIN tree
    BY PublicImage DEF tree
  <2>2. \/ path \in {<<"index.md">>, <<"guide-collection.json">>}
        \/ \E u \in m :
             \/ path = <<"topics", u.id, "index.md">>
             \/ \E n \in Section(u, entries) :
                  \/ path = PagePath(u, entries[n])
                  \/ path = ImagePath(u, entries[n]) /\ file = Image(entries[n].evidence)
    <3> HIDE DEF path
    <3>1. QED
      BY <2>1, PublicAt DEF tree
  <2>3. /\ path \notin {<<"index.md">>, <<"guide-collection.json">>}
        /\ \A u : path # <<"topics", u.id, "index.md">>
        /\ \A u, e : path # PagePath(u, e)
    BY DEF ImagePath, PagePath
  <2>4. PICK u \in m : \E n \in Section(u, entries) :
          path = ImagePath(u, entries[n]) /\ file = Image(entries[n].evidence)
    <3> HIDE DEF path, file
    <3>1. QED
      BY <2>2, <2>3
  <2>5. PICK n \in Section(u, entries) : path = ImagePath(u, entries[n]) /\ file = Image(entries[n].evidence)
    BY <2>4
  <2>6. n = k
    <3>1. entries[n].key = entries[k].key
      BY <2>5 DEF ImagePath
    <3>2. QED
      BY <3>1, KeysDiffer DEF Section
  <2>7. QED
    <3> HIDE DEF path, file
    <3>1. file.data = {entries[k].evidence}
      BY <2>5, <2>6 DEF Image
    <3>2. QED
      BY <3>1 DEF file, path
<1>4. ASSUME NEW path \in DOMAIN tree, path[1] \in {"topics", "review"},
             NEW fact \in tree[path].data, "run" \in DOMAIN fact
      PROVE  /\ path[1] = "topics"
             /\ Recorded(fact.run, fact.journey, "passed")
             /\ ImageBeside(path) \in DOMAIN tree
             /\ \A e \in tree[ImageBeside(path)].data : e.of = fact.run
  <2>1. path[1] = "topics"
    BY <1>2, <1>4
  <2>2. \/ path \in {<<"index.md">>, <<"guide-collection.json">>}
        \/ \E t \in m :
             \/ path = <<"topics", t.id, "index.md">> /\ tree[path] = TopicIndex(t, entries)
             \/ \E k \in Section(t, entries) :
                  \/ path = PagePath(t, entries[k]) /\ tree[path] = GuidePage(t, entries, k)
                  \/ path = ImagePath(t, entries[k]) /\ tree[path] = Image(entries[k].evidence)
    BY <1>4, PublicAt DEF tree
  <2>3. path \notin {<<"index.md">>, <<"guide-collection.json">>}
    BY <2>1
  <2>4. ASSUME NEW t \in m, tree[path] = TopicIndex(t, entries)
        PROVE  FALSE
    <3>1. tree[path].data = {[topic |-> t]} \cup {Restrict(g, {"key", "journey"}) : g \in {entries[k] : k \in Section(t, entries)}}
      BY <2>4 DEF TopicIndex, Markdown
    <3>2. "run" \notin DOMAIN fact
      BY <1>4, <3>1 DEF Restrict
    <3>3. QED
      BY <1>4, <3>2
  <2>5. ASSUME NEW t \in m, NEW k \in Section(t, entries), tree[path] = Image(entries[k].evidence)
        PROVE  FALSE
    <3>1. fact = entries[k].evidence
      BY <1>4, <2>5 DEF Image
    <3>2. k \in DOMAIN entries
      BY DEF Section
    <3>3. DOMAIN fact = EvidenceFields
      BY <1>1, <3>1, <3>2 DEF Vouched
    <3>4. QED
      BY <1>4, <3>3 DEF EvidenceFields
  <2>6. PICK t \in m : \E k \in Section(t, entries) :
          path = PagePath(t, entries[k]) /\ tree[path] = GuidePage(t, entries, k)
    BY <2>2, <2>3, <2>4, <2>5
  <2>7. PICK k \in Section(t, entries) : path = PagePath(t, entries[k]) /\ tree[path] = GuidePage(t, entries, k)
    BY <2>6
  <2>8. fact = entries[k]
    <3>1. tree[path].data = {[topic |-> t], entries[k]}
      BY <2>7 DEF GuidePage, Markdown
    <3>2. QED
      BY <1>4, <3>1
  <2>9. Vouched(entries[k], "passed")
    BY <1>1 DEF Section
  <2>10. ImageBeside(path) \in DOMAIN tree /\ tree[ImageBeside(path)].data = {entries[k].evidence}
    BY <1>3, <2>7, PageImage, PublicImage DEF tree
  <2>11. QED
    BY <2>1, <2>8, <2>9, <2>10 DEF Vouched
<1>5. QED
  BY <1>2, <1>4 DEF Truthful, tree

EvidencePath(e) == ReviewPath(e, <<"evidence", "001.png">>)

\* A review entry shows the image beside it.
LEMMA ReviewImage ==
  ASSUME NEW e, NEW rest \in Below
  PROVE  ImageBeside(ReviewPath(e, rest)) = EvidencePath(e)
  BY ReviewPathShape DEF ImageBeside, EvidencePath, ReviewPath

\* The paths of two entries' reviews differ where the names or the entries' keys do.
LEMMA ReviewPathsDiffer ==
  ASSUME NEW e, NEW f, NEW rest \in Below, ReviewPath(e, rest) = EvidencePath(f)
  PROVE  e.key = f.key /\ rest = <<"evidence", "001.png">>
<1> DEFINE p == ReviewPath(e, rest)
           names == <<"evidence", "001.png">>
           S == {"review", e.topic, e.key, f.topic, f.key, "render", "findings.json", "findings.md",
                 "report.json", "evidence", "001.png"}
           he == <<"review", e.topic, e.key>>
           hf == <<"review", f.topic, f.key>>
<1>1. names \in Below /\ p = ReviewPath(f, names)
  BY DEF Below, EvidencePath
<1>2. SubSeq(p, 1, 3) = he /\ SubSeq(p, 1, 3) = hf
  <2> HIDE DEF names, p
  <2>1. SubSeq(p, 1, 3) = hf
    BY <1>1, ReviewPathShape
  <2>2. SubSeq(p, 1, 3) = he
    BY ReviewPathShape DEF p
  <2>3. QED
    BY <2>1, <2>2
<1>3. he = hf
  BY <1>2
<1>4. e.key = f.key
  BY <1>3
<1>5. he \in Seq(S) /\ names \in Seq(S)
  OBVIOUS
<1>6. rest \in Seq(S)
  <2>1. \/ rest = <<"render", "findings.json">> \/ rest = <<"render", "findings.md">>
        \/ rest = <<"report.json">> \/ rest = <<"evidence", "001.png">>
    BY DEF Below
  <2>2. /\ <<"render", "findings.json">> \in Seq(S) /\ <<"render", "findings.md">> \in Seq(S)
        /\ <<"report.json">> \in Seq(S) /\ <<"evidence", "001.png">> \in Seq(S)
    OBVIOUS
  <2>3. QED
    <3> HIDE DEF S
    <3>1. QED
      BY <2>1, <2>2
<1>7. he \o rest = he \o names
  BY <1>1, <1>3 DEF ReviewPath
<1>8. rest = names
  <2> HIDE DEF he, names, S
  <2>1. QED
    BY <1>5, <1>6, <1>7, ConcatSimplifications
<1>9. QED
  BY <1>4, <1>8

\* A review of attested entries tells the truth.
LEMMA ReviewIsTruthful ==
  ASSUME NEW m \in Manifests, ValidManifest(m), NEW entries,
         \A k \in DOMAIN entries : Attested(m, entries, k)
  PROVE  Truthful(ReviewFiles(m, entries))
<1> DEFINE tree == ReviewFiles(m, entries)
           Found == Findings(entries)
<1> HIDE DEF tree, Found
<1>1. ASSUME NEW e \in Found
      PROVE  Vouched(e, "failed") /\ \E k \in DOMAIN entries : entries[k] = e
  BY DEF Found, Findings, Range, Attested
<1>2. ASSUME NEW path \in DOMAIN tree
      PROVE  \/ /\ path = <<"review", "index.md">>
                /\ tree[path].data = {[manifest |-> m]}
                     \cup {Restrict(e, {"key", "status", "journey"}) : e \in Range(entries)}
             \/ \E e \in Found : \E rest \in Below :
                  /\ path = ReviewPath(e, rest)
                  /\ IF rest = <<"evidence", "001.png">> THEN tree[path].data = {e.evidence}
                     ELSE tree[path].data \in {{Cited(e)}, {Restrict(e, {"run", "journey", "status"})}}
  <2>1. /\ <<"evidence", "001.png">> \in Below /\ <<"report.json">> \in Below
        /\ <<"render", "findings.json">> \in Below /\ <<"render", "findings.md">> \in Below
    BY DEF Below
  <2>2. /\ <<"report.json">> # <<"evidence", "001.png">>
        /\ <<"render", "findings.json">> # <<"evidence", "001.png">>
        /\ <<"render", "findings.md">> # <<"evidence", "001.png">>
    OBVIOUS
  <2>3. \/ /\ path = <<"review", "index.md">>
           /\ tree[path].data = {[manifest |-> m]}
                \cup {Restrict(e, {"key", "status", "journey"}) : e \in Range(entries)}
        \/ \E e \in Found :
             \/ path = ReviewPath(e, <<"render", "findings.json">>) /\ tree[path].data = {Cited(e)}
             \/ path = ReviewPath(e, <<"render", "findings.md">>) /\ tree[path].data = {Cited(e)}
             \/ /\ path = ReviewPath(e, <<"report.json">>)
                /\ tree[path].data = {Restrict(e, {"run", "journey", "status"})}
             \/ path = ReviewPath(e, <<"evidence", "001.png">>) /\ tree[path].data = {e.evidence}
    BY ReviewAt DEF tree, Found
  <2>4. QED
    BY <2>1, <2>2, <2>3
<1>3. ASSUME NEW e \in Found, EvidencePath(e) \in DOMAIN tree
      PROVE  tree[EvidencePath(e)].data = {e.evidence}
  <2>1. EvidencePath(e) # <<"review", "index.md">>
    <3>1. Len(EvidencePath(e)) \in Nat /\ Len(EvidencePath(e)) >= 4
      BY ReviewPathShape DEF EvidencePath, Below
    <3>2. Len(<<"review", "index.md">>) = 2
      OBVIOUS
    <3>3. \A n \in Nat : n >= 4 => n # Len(<<"review", "index.md">>)
      BY <3>2
    <3>4. Len(EvidencePath(e)) # Len(<<"review", "index.md">>)
      BY <3>1, <3>3, Zenon
    <3>5. QED
      BY <3>4
  <2>2. PICK f \in Found : \E rest \in Below :
          /\ EvidencePath(e) = ReviewPath(f, rest)
          /\ IF rest = <<"evidence", "001.png">> THEN tree[EvidencePath(e)].data = {f.evidence}
             ELSE tree[EvidencePath(e)].data \in {{Cited(f)}, {Restrict(f, {"run", "journey", "status"})}}
    BY <1>2, <1>3, <2>1
  <2>3. f.key = e.key /\ tree[EvidencePath(e)].data = {f.evidence}
    BY <2>2, ReviewPathsDiffer
  <2>4. e = f
    BY <1>1, <2>3, KeysDiffer
  <2>5. QED
    BY <2>3, <2>4
<1>4. ASSUME NEW path \in DOMAIN tree
      PROVE  path[1] = "review"
  BY <1>2, <1>4, ReviewPathShape
<1>5. ASSUME NEW e \in Found
      PROVE  EvidencePath(e) \in DOMAIN tree
  <2> DEFINE F == {x \in Range(entries) : x.status = "findings_ready"}
             Review(x) ==
               LET Here(sub) == <<"review", x.topic, x.key>> \o sub
                   cited == Restrict(x, {"run", "journey"})
               IN {<<Here(<<"render", "findings.json">>), Json({cited})>>,
                   <<Here(<<"render", "findings.md">>),
                     Markdown({cited}, {Link(1, <<"report.json">>), Link(1, <<"evidence", "001.png">>)})>>,
                   <<Here(<<"report.json">>), Json({Restrict(x, {"run", "journey", "status"})})>>,
                   <<Here(<<"evidence", "001.png">>), Image(x.evidence)>>}
             Index == Markdown({[manifest |-> m]} \cup {Restrict(x, {"key", "status", "journey"}) : x \in Range(entries)},
                               {Link(0, <<x.topic, x.key, "render", "findings.md">>) : x \in F})
             listed == {<<(<<"review", "index.md">>), Index>>} \cup UNION {Review(x) : x \in F}
             f == <<EvidencePath(e), Image(e.evidence)>>
  <2>1. tree = AsTree(listed)
    BY DEF tree, ReviewFiles
  <2>2. f \in Review(e) /\ f[1] = EvidencePath(e)
    BY DEF EvidencePath, ReviewPath
  <2>3. e \in F
    BY DEF Found, Findings
  <2>4. f \in listed
    <3> HIDE DEF f, Review, F, Index
    <3>1. QED
      BY <2>2, <2>3
  <2>5. QED
    <3> HIDE DEF listed, f
    <3>1. DOMAIN tree = {x[1] : x \in listed}
      BY <2>1, AsTreeDomain
    <3>2. QED
      BY <2>2, <2>4, <3>1
<1>6. ASSUME NEW path \in DOMAIN tree, NEW fact \in tree[path].data, "run" \in DOMAIN fact
      PROVE  /\ Recorded(fact.run, fact.journey, "failed")
             /\ ImageBeside(path) \in DOMAIN tree
             /\ \A x \in tree[ImageBeside(path)].data : x.of = fact.run
  <2>1. CASE tree[path].data = {[manifest |-> m]} \cup {Restrict(e, {"key", "status", "journey"}) : e \in Range(entries)}
    <3>1. "run" \notin DOMAIN fact
      BY <1>6, <2>1 DEF Restrict
    <3>2. QED
      BY <1>6, <3>1
  <2>2. ASSUME NEW e \in Found, NEW rest \in Below, path = ReviewPath(e, rest),
               IF rest = <<"evidence", "001.png">> THEN tree[path].data = {e.evidence}
               ELSE tree[path].data \in {{Cited(e)}, {Restrict(e, {"run", "journey", "status"})}}
        PROVE  /\ Recorded(fact.run, fact.journey, "failed")
               /\ ImageBeside(path) \in DOMAIN tree
               /\ \A x \in tree[ImageBeside(path)].data : x.of = fact.run
    <3>1. Vouched(e, "failed")
      BY <1>1
    <3>2. fact # e.evidence
      BY <1>6, <3>1 DEF Vouched, EvidenceFields
    <3>3. fact \in {Cited(e), Restrict(e, {"run", "journey", "status"})}
      BY <1>6, <2>2, <3>2
    <3>4. fact.run = e.run /\ fact.journey = e.journey
      BY <3>3 DEF Cited, Restrict
    <3>5. ImageBeside(path) \in DOMAIN tree /\ tree[ImageBeside(path)].data = {e.evidence}
      BY <1>3, <1>5, <2>2, ReviewImage
    <3>6. QED
      BY <3>1, <3>4, <3>5 DEF Vouched
  <2>3. QED
    BY <1>2, <1>6, <2>1, <2>2
<1>7. <<"index.md">> \notin DOMAIN tree
  <2>1. <<"index.md">>[1] = "index.md"
    OBVIOUS
  <2>2. QED
    BY <1>4, <2>1
<1>8. QED
  <2>1. \A path \in DOMAIN tree : path[1] # "topics"
    BY <1>4
  <2>2. QED
    BY <1>6, <1>7, <2>1 DEF Truthful, tree

\* The report of a generated tree lies beside the other files and changes none.
LEMMA GeneratedIsTruthful ==
  ASSUME NEW m \in Manifests, ValidManifest(m), NEW entries,
         \A k \in DOMAIN entries : Attested(m, entries, k)
  PROVE  Truthful(Generated(m, entries))
<1> DEFINE files == IF StatusOf(entries) = "ready" THEN PublicFiles(m, entries) ELSE ReviewFiles(m, entries)
           report == Json({[manifest |-> m, snapshot |-> Snapshot(entries, files)]})
           tree == Generated(m, entries)
<1>1. Truthful(files) /\ ReportPath \notin DOMAIN files
  BY PublicIsTruthful, ReviewIsTruthful, PublicHasNoReport, ReviewHasNoReport
<1>2. tree = [path \in DOMAIN files \cup {ReportPath} |-> IF path \in DOMAIN files THEN files[path] ELSE report]
  BY DEF Generated, ReportPath
<1>3. ReportPath[1] = "collection-report.json" /\ ReportPath # <<"index.md">>
  BY DEF ReportPath
<1> HIDE DEF files, report, tree
<1>4. ASSUME NEW path \in DOMAIN tree, path[1] \in {"topics", "review"}
      PROVE  path \in DOMAIN files /\ tree[path] = files[path]
  BY <1>2, <1>3, <1>4
<1>5. ASSUME NEW path \in DOMAIN files
      PROVE  path \in DOMAIN tree /\ tree[path] = files[path]
  BY <1>2, <1>5
<1>6. <<"index.md">> \in DOMAIN tree => <<"index.md">> \in DOMAIN files
  BY <1>2, <1>3
<1>7. ASSUME NEW path \in DOMAIN tree, path[1] \in {"topics", "review"},
             NEW fact \in tree[path].data, "run" \in DOMAIN fact
      PROVE  /\ Recorded(fact.run, fact.journey, IF path[1] = "topics" THEN "passed" ELSE "failed")
             /\ ImageBeside(path) \in DOMAIN tree
             /\ \A e \in tree[ImageBeside(path)].data : e.of = fact.run
  BY <1>1, <1>4, <1>5, <1>7 DEF Truthful
<1>8. QED
  BY <1>1, <1>4, <1>6, <1>7 DEF Truthful, tree
-----------------------------------------------------------------------------
(* What the entries an invocation holds are made from *)

Reports == {r.report : r \in AllRuns}

\* Every run directory holds a recorded report, and the evidence of some run, or none's.
DiskInv ==
  /\ \A path \in DOMAIN runs :
       /\ {"report", "evidence"} \subseteq DOMAIN runs[path]
       /\ runs[path].report \in Reports
       /\ DOMAIN runs[path].evidence = EvidenceFields
  /\ \A r \in replacing : r.report \in Reports
  /\ \A m \in Manifests : \A g \in Guides(m) : g.run \in DOMAIN runs

Reading == {"load", "reserve", "copy", "report", "render"}

Attests(j) ==
  /\ DOMAIN j = DOMAIN Idle
  /\ j.pc \notin {"idle", "done", "dead"} => j.manifest \in Manifests /\ ValidManifest(j.manifest)
  /\ \E S : j.entries \in Seq(S)
  /\ \A k \in DOMAIN j.entries : Attested(j.manifest, j.entries, k)
  /\ j.pc \in Reading => Len(j.entries) + 1 \in DOMAIN Ordered(j.manifest)
  /\ j.pc \in {"report", "render"} => DOMAIN j.evidence = EvidenceFields
  /\ j.pc = "render" => j.report \in Reports

EntriesInv == DiskInv /\ DOMAIN job = Procs /\ \A p \in Procs : Attests(job[p])

\* The next entry is a guide of the manifest, and its run directory is there.
LEMMA EntryIsGuide ==
  ASSUME EntriesInv, NEW p \in Procs, job[p].pc \in Reading
  PROVE  Entry(p).run \in DOMAIN runs
<1> DEFINE j == job[p]
           k == Len(j.entries) + 1
<1>1. j.manifest \in Manifests /\ ValidManifest(j.manifest) /\ k \in DOMAIN Ordered(j.manifest)
  BY DEF EntriesInv, Attests, Reading
<1>2. PICK t \in j.manifest : \E g \in t.guides :
        Ordered(j.manifest)[k] = [topic |-> t.id, key |-> g.key, run |-> g.run, journey |-> g.journey]
  <2> HIDE DEF j, k
  <2>1. QED
    BY <1>1, OrderedEntries
<1>3. PICK g \in t.guides :
        Ordered(j.manifest)[k] = [topic |-> t.id, key |-> g.key, run |-> g.run, journey |-> g.journey]
  BY <1>2
<1>4. g \in Guides(j.manifest)
  BY <1>3 DEF Guides
<1>5. g.run \in DOMAIN runs
  BY <1>1, <1>4 DEF EntriesInv, DiskInv
<1>6. Entry(p).run = g.run
  BY <1>3 DEF Entry, Plan
<1>7. QED
  BY <1>5, <1>6

\* An invocation without entries has nothing to attest.
LEMMA IdleAttests ==
  ASSUME NEW j, DOMAIN j = DOMAIN Idle, j.entries = <<>>, j.pc \in {"idle", "done", "dead"}
  PROVE  Attests(j)
<1>1. j.entries \in Seq({}) /\ DOMAIN j.entries = {}
  OBVIOUS
<1>2. QED
  BY <1>1 DEF Attests, Reading

\* An invocation's step leaves the others' entries attested.
LEMMA OneAttests ==
  ASSUME EntriesInv, NEW p \in Procs, NEW j, Attests(j), job' = [job EXCEPT ![p] = j],
         UNCHANGED <<runs, replacing>>
  PROVE  EntriesInv'
<1>1. DOMAIN job' = Procs /\ \A q \in Procs : Attests(job'[q])
  BY DEF EntriesInv
<1>2. QED
  BY <1>1 DEF EntriesInv, DiskInv, Attests, Attested, Vouched, Recorded

\* An invocation that ends keeps its entries attested.
LEMMA EndAttests ==
  ASSUME EntriesInv, NEW p \in Procs, NEW status, NEW shown, Ends(p, status, shown),
         UNCHANGED <<runs, replacing>>
  PROVE  EntriesInv'
<1> DEFINE j == Ended(p, status, shown)
<1>1. DOMAIN j = DOMAIN Idle /\ j.entries = <<>> /\ j.pc = "done"
  BY DEF Idle, Ended
<1>2. job' = [job EXCEPT ![p] = j]
  BY DEF Ends
<1>3. QED
  <2> HIDE DEF j
  <2>1. QED
    BY <1>1, <1>2, IdleAttests, OneAttests

\* A step that leaves the manifest and the entries alone.
LEMMA GoingAttests ==
  ASSUME EntriesInv, NEW p \in Procs, NEW j, Goes(p, j), job[p].pc \notin {"idle", "done", "dead"},
         DOMAIN j = DOMAIN job[p], j.manifest = job[p].manifest, j.entries = job[p].entries,
         j.pc \in Reading => job[p].pc \in Reading,
         j.pc \in {"report", "render"} => DOMAIN j.evidence = EvidenceFields,
         j.pc = "render" => j.report \in Reports
  PROVE  EntriesInv'
<1>1. Attests(j)
  BY DEF EntriesInv, Attests
<1>2. QED
  BY <1>1, OneAttests DEF Goes, disk

\* So does one that gives up.
LEMMA AbortAttests ==
  ASSUME EntriesInv, NEW p \in Procs, Abort(p)
  PROVE  EntriesInv'
  BY EndAttests DEF Abort, disk

\* One that begins has a manifest whose entries it will read.
LEMMA BeginAttests ==
  ASSUME CollectionInv, EntriesInv, NEW p \in Procs, Begin(p)
  PROVE  EntriesInv'
<1>1. PICK mode \in {"build", "check"} :
        IF ValidManifest(manifest) /\ OutputAddressable
          THEN Goes(p, [Idle EXCEPT !.pc = "load", !.mode = mode, !.manifest = manifest])
          ELSE Ends(p, "error", {}) /\ UNCHANGED <<disk, out, staging, installed, changes>>
  BY DEF Begin
<1> DEFINE j == [Idle EXCEPT !.pc = "load", !.mode = mode, !.manifest = manifest]
<1>2. CASE Abort(p)
  BY <1>2, AbortAttests
<1>3. CASE ValidManifest(manifest) /\ Goes(p, j)
  <2>1. /\ DOMAIN j = DOMAIN Idle /\ j.entries = <<>> /\ j.pc = "load" /\ j.manifest = manifest
    BY DEF Idle
  <2>2. manifest \in Manifests
    BY DEF CollectionInv
  <2>3. j.entries \in Seq({}) /\ DOMAIN j.entries = {} /\ Len(j.entries) = 0
    <3> HIDE DEF j
    <3>1. QED
      BY <2>1
  <2>4. 1 \in DOMAIN Ordered(manifest)
    BY <1>3, <2>2, OrderedEntries
  <2>5. Attests(j)
    <3> HIDE DEF j
    <3>1. QED
      BY <1>3, <2>1, <2>2, <2>3, <2>4 DEF Attests, Reading
  <2>6. QED
    BY <1>3, <2>5, OneAttests DEF Goes, disk
<1>4. QED
  BY <1>1, <1>2, <1>3 DEF Abort

\* Reading adds nothing to the entries.
LEMMA ReadAttests ==
  ASSUME EntriesInv, NEW p \in Procs, Load(p) \/ ReserveEvidence(p) \/ CopyEvidence(p) \/ CopyReport(p)
  PROVE  EntriesInv'
<1>1. Attests(job[p])
  BY DEF EntriesInv
<1>2. CASE Abort(p)
  BY <1>2, AbortAttests
<1>3. CASE Load(p) /\ ~Abort(p)
  BY <1>1, <1>3, GoingAttests DEF Load, At, Attests, Idle, Reading
<1>4. CASE ReserveEvidence(p) /\ ~Abort(p)
  BY <1>1, <1>4, GoingAttests DEF ReserveEvidence, At, Attests, Idle, Reading
<1>5. CASE CopyEvidence(p)
  <2> DEFINE read == Plus(job[p].read, 1, runs[Entry(p).run].evidence.size)
             gone == [Ended(p, "error", {}) EXCEPT !.read = read]
  <2>3. CASE Goes(p, gone)
    <3>1. DOMAIN gone = DOMAIN Idle /\ gone.entries = <<>> /\ gone.pc = "done"
      BY DEF Ended, Idle
    <3>2. QED
      <4> HIDE DEF gone
      <4>1. Attests(gone)
        BY <3>1, IdleAttests
      <4>2. QED
        BY <2>3, <4>1, OneAttests DEF Goes, disk
  <2>1. DOMAIN runs[Entry(p).run].evidence = EvidenceFields
    BY <1>5, EntryIsGuide DEF CopyEvidence, At, EntriesInv, DiskInv, Reading
  <2>2. CASE ~Goes(p, gone)
    BY <1>1, <1>5, <2>1, <2>2, GoingAttests DEF CopyEvidence, At, Attests, Idle, Reading
  <2>4. QED
    BY <2>2, <2>3
<1>6. CASE CopyReport(p) /\ ~Abort(p)
  <2>1. runs[Entry(p).run].report \in Reports
    BY <1>6, EntryIsGuide DEF CopyReport, At, EntriesInv, DiskInv, Reading
  <2>2. QED
    BY <1>1, <1>6, <2>1, GoingAttests DEF CopyReport, At, Attests, Idle, Reading
<1>7. QED
  BY <1>2, <1>3, <1>4, <1>5, <1>6

\* What the renderer accepts is the recorded run whose evidence it was given, for the journey
\* that was loaded.
LEMMA RenderVouches ==
  ASSUME NEW report \in Reports, NEW evidence, DOMAIN evidence = EvidenceFields, NEW doc, NEW loaded,
         NEW entry, SameProvenance(RenderOf(report, evidence, doc), loaded),
         entry.status = RenderOf(report, evidence, doc).status,
         entry.run = RenderOf(report, evidence, doc).run,
         entry.journey = loaded, entry.evidence = evidence
  PROVE  /\ entry.status \in EntryStatuses
         /\ entry.status = "guide_ready" => Vouched(entry, "passed")
         /\ entry.status = "findings_ready" => Vouched(entry, "failed")
<1> DEFINE r == RenderOf(report, evidence, doc)
<1>1. CASE doc.sound /\ report.journey = doc /\ evidence.of = report.id
  <2>1. r = [status |-> RenderStatus(report.outcome, doc), run |-> report.id, journey |-> doc]
    BY <1>1 DEF RenderOf
  <2>2. r.status = RenderStatus(report.outcome, doc) /\ r.run = report.id /\ r.journey = doc
    BY <2>1
  <2>3. r.status # "error" => doc = loaded
    BY <2>2 DEF SameProvenance
  <2>4. PICK run \in AllRuns : run.report = report
    BY DEF Reports
  <2>5. r.status = "guide_ready" => Recorded(report.id, doc, "passed")
    BY <1>1, <2>2, <2>4 DEF RenderStatus, Recorded
  <2>6. r.status = "findings_ready" => Recorded(report.id, doc, "failed")
    BY <1>1, <2>2, <2>4 DEF RenderStatus, Recorded
  <2> HIDE DEF r
  <2>7. entry.status = r.status /\ entry.run = report.id
    BY <2>2 DEF r
  <2>8. r.status \in EntryStatuses
    BY RenderStatusType DEF r
  <2>9. QED
    BY <1>1, <2>3, <2>5, <2>6, <2>7, <2>8 DEF Vouched
<1>2. CASE ~(doc.sound /\ report.journey = doc /\ evidence.of = report.id)
  <2>1. r.status = "error"
    BY <1>2 DEF RenderOf
  <2>2. QED
    BY <2>1 DEF EntryStatuses
<1>3. QED
  BY <1>1, <1>2

\* An entry that is added is attested by the copy it was rendered from.
LEMMA RenderAttests ==
  ASSUME EntriesInv, NEW p \in Procs, Render(p)
  PROVE  EntriesInv'
<1> DEFINE old == job[p]
           m == old.manifest
           n == Len(old.entries)
           r == RenderOf(old.report, old.evidence, journeys[Entry(p).journey])
           kept == Kept(r.status, old.evidence.size)
           entry == [topic |-> Entry(p).topic, key |-> Entry(p).key, status |-> r.status,
                     run |-> r.run, journey |-> old.loaded, evidence |-> old.evidence]
           pc == IF n + 1 = Len(Plan(p)) THEN "compare" ELSE "load"
           j == [old EXCEPT !.pc = pc, !.entries = Append(@, entry),
                            !.retained = Plus(@, kept.files, kept.bytes),
                            !.loaded = NoDocument, !.size = 0,
                            !.evidence = Tampered, !.report = Tampered]
<1>1. old.pc = "render" /\ Attests(old)
  BY DEF Render, At, EntriesInv
<1>2. Abort(p) \/ (SameProvenance(r, old.loaded) /\ Goes(p, j))
  BY DEF Render
<1>3. CASE Abort(p)
  BY <1>3, AbortAttests
<1>4. CASE SameProvenance(r, old.loaded) /\ Goes(p, j)
  <2>1. /\ DOMAIN j = DOMAIN Idle /\ j.pc = pc /\ j.manifest = m
        /\ j.entries = Append(old.entries, entry)
    BY <1>1 DEF Attests, Idle
  <2>2. /\ m \in Manifests /\ ValidManifest(m) /\ n + 1 \in DOMAIN Ordered(m)
        /\ \A k \in DOMAIN old.entries : Attested(m, old.entries, k)
        /\ DOMAIN old.evidence = EvidenceFields /\ old.report \in Reports
    BY <1>1 DEF Attests, Reading
  <2>3. /\ entry.status \in EntryStatuses
        /\ entry.status = "guide_ready" => Vouched(entry, "passed")
        /\ entry.status = "findings_ready" => Vouched(entry, "failed")
    <3>1. /\ entry.status = r.status /\ entry.run = r.run
          /\ entry.journey = old.loaded /\ entry.evidence = old.evidence
      OBVIOUS
    <3> HIDE DEF entry
    <3>2. QED
      BY <1>4, <2>2, <3>1, RenderVouches
  <2>4. entry.topic = Ordered(m)[n + 1].topic /\ entry.key = Ordered(m)[n + 1].key
    BY DEF Entry, Plan
  <2> HIDE DEF entry, j, kept, pc, r, m, n, old
  <2>5. PICK S : old.entries \in Seq(S)
    BY <1>1 DEF Attests
  <2>6. old.entries \in Seq(S \cup {entry})
    BY <2>5
  <2>7. /\ j.entries \in Seq(S \cup {entry}) /\ n \in Nat
        /\ Len(j.entries) = n + 1 /\ DOMAIN j.entries = 1 .. n + 1 /\ DOMAIN old.entries = 1..n
        /\ j.entries[n + 1] = entry /\ \A k \in 1..n : j.entries[k] = old.entries[k]
    BY <2>1, <2>6 DEF n
  <2>8. ASSUME NEW k \in DOMAIN j.entries
        PROVE  Attested(m, j.entries, k)
    <3>1. CASE k = n + 1
      BY <2>2, <2>3, <2>4, <2>7, <3>1 DEF Attested
    <3>2. CASE k # n + 1
      <4>1. k \in 1..n
        BY <2>7, <3>2
      <4>2. Attested(m, old.entries, k) /\ j.entries[k] = old.entries[k]
        BY <2>2, <2>7, <4>1
      <4>3. QED
        BY <4>2 DEF Attested
    <3>3. QED
      BY <3>1, <3>2
  <2>9. pc \in {"compare", "load"} /\ (pc = "load" => n + 1 # Len(Ordered(m)))
    BY DEF pc, Plan, m, n, old
  <2>10. pc = "load" => n + 2 \in DOMAIN Ordered(m)
    <3>1. Len(Ordered(m)) \in Nat /\ DOMAIN Ordered(m) = 1..Len(Ordered(m))
      BY <2>2, OrderedEntries
    <3>2. \A a, b \in Nat : a + 1 \in 1..b /\ a + 1 # b => a + 2 \in 1..b
      OBVIOUS
    <3>3. n \in Nat /\ n + 1 \in 1..Len(Ordered(m))
      BY <2>2, <2>7, <3>1
    <3>4. pc = "load" => n + 2 \in 1..Len(Ordered(m))
      BY <2>9, <3>1, <3>2, <3>3
    <3>5. QED
      BY <3>1, <3>4
  <2>11. Len(j.entries) + 1 = n + 2
    BY <2>7
  <2>12. Attests(j)
    BY <2>1, <2>2, <2>7, <2>8, <2>9, <2>10, <2>11 DEF Attests, Reading
  <2>13. QED
    BY <1>4, <2>12, OneAttests DEF Goes, disk
<1>5. QED
  BY <1>2, <1>3, <1>4

\* No later step adds an entry.
LEMMA LaterAttests ==
  ASSUME EntriesInv, NEW p \in Procs,
         \/ Unprepared(p) \/ Compare(p) \/ Stage(p) \/ StageFails(p) \/ Install(p)
         \/ InstallFails(p) \/ Dies(p)
  PROVE  EntriesInv'
<1>1. Attests(job[p])
  BY DEF EntriesInv
<1>2. UNCHANGED <<runs, replacing>>
  BY DEF Unprepared, Compare, Stage, StageFails, Install, InstallFails, Dies, disk
<1>3. CASE \E status, shown : Ends(p, status, shown)
  BY <1>2, <1>3, EndAttests
<1>4. ASSUME NEW pc \in {"stage", "install"}, job[p].pc \in {"compare", "stage"},
             job' = [job EXCEPT ![p].pc = pc]
      PROVE  EntriesInv'
  <2> DEFINE j == [job[p] EXCEPT !.pc = pc]
  <2>1. Attests(j)
    BY <1>1, <1>4 DEF Attests, Idle, Reading
  <2>2. job' = [job EXCEPT ![p] = j]
    BY <1>4
  <2>3. QED
    <3> HIDE DEF j
    <3>1. QED
      BY <1>2, <2>1, <2>2, OneAttests
<1>5. CASE Compare(p)
  BY <1>3, <1>4, <1>5 DEF Compare, At
<1>6. CASE Stage(p)
  BY <1>4, <1>6 DEF Stage, At
<1>7. CASE Dies(p)
  <2> DEFINE j == [Idle EXCEPT !.pc = "dead"]
  <2>1. DOMAIN j = DOMAIN Idle /\ j.entries = <<>> /\ j.pc = "dead"
    BY DEF Idle
  <2>2. job' = [job EXCEPT ![p] = j]
    BY <1>7 DEF Dies
  <2>3. QED
    <3> HIDE DEF j
    <3>1. QED
      BY <1>2, <2>1, <2>2, IdleAttests, OneAttests
<1>8. Unprepared(p) \/ StageFails(p) \/ Install(p) \/ InstallFails(p) => \E status, shown : Ends(p, status, shown)
  BY DEF Unprepared, StageFails, Install, InstallFails
<1>9. QED
  BY <1>3, <1>5, <1>6, <1>7, <1>8

\* The operator's edits keep every run directory one of reports and evidence.
LEMMA OperatorAttests ==
  ASSUME EntriesInv, Operator
  PROVE  EntriesInv'
<1>1. job' = job
  BY DEF Operator, EditManifest, EditJourney, ReplaceRun, FinishReplacing, Tamper, TouchOutput
<1>2. DiskInv'
  <2>1. CASE UNCHANGED <<runs, replacing>>
    BY <2>1 DEF EntriesInv, DiskInv
  <2>2. ASSUME NEW path \in DOMAIN runs, ReplaceRun(path)
        PROVE  DiskInv'
    <3>1. PICK r \in AllRuns :
            /\ runs' = [runs EXCEPT ![path].evidence = r.evidence]
            /\ replacing' = {[path |-> path, report |-> r.report]}
      BY <2>2 DEF ReplaceRun
    <3>2. DOMAIN r.evidence = EvidenceFields /\ r.report \in Reports
      BY RunsAreRecorded DEF EvidenceFields, Reports
    <3>3. DOMAIN runs' = DOMAIN runs
      BY <3>1
    <3>4. ASSUME NEW q \in DOMAIN runs
          PROVE  /\ {"report", "evidence"} \subseteq DOMAIN runs'[q]
                 /\ runs'[q].report \in Reports
                 /\ DOMAIN runs'[q].evidence = EvidenceFields
      BY <3>1, <3>2 DEF EntriesInv, DiskInv
    <3>5. QED
      BY <3>1, <3>2, <3>3, <3>4 DEF EntriesInv, DiskInv, Reports
  <2>3. CASE FinishReplacing
    <3>1. PICK r \in replacing : runs' = [runs EXCEPT ![r.path].report = r.report]
      BY <2>3 DEF FinishReplacing
    <3>2. r.report \in Reports /\ DOMAIN runs' = DOMAIN runs /\ replacing' = {}
      BY <2>3, <3>1 DEF EntriesInv, DiskInv, FinishReplacing
    <3>3. ASSUME NEW q \in DOMAIN runs
          PROVE  /\ {"report", "evidence"} \subseteq DOMAIN runs'[q]
                 /\ runs'[q].report \in Reports
                 /\ DOMAIN runs'[q].evidence = EvidenceFields
      BY <3>1, <3>2 DEF EntriesInv, DiskInv
    <3>4. QED
      BY <3>2, <3>3 DEF EntriesInv, DiskInv, Reports
  <2>4. ASSUME NEW path \in DOMAIN runs, Tamper(path)
        PROVE  DiskInv'
    <3>1. /\ replacing' = replacing
          /\ runs' = [runs EXCEPT ![path].evidence.of = Tampered] \/ runs' = [runs EXCEPT ![path].link = TRUE]
      BY <2>4 DEF Tamper
    <3>2. DOMAIN runs' = DOMAIN runs
      BY <3>1
    <3>3. ASSUME NEW q \in DOMAIN runs
          PROVE  /\ {"report", "evidence"} \subseteq DOMAIN runs'[q]
                 /\ runs'[q].report \in Reports
                 /\ DOMAIN runs'[q].evidence = EvidenceFields
      BY <3>1 DEF EntriesInv, DiskInv
    <3>4. QED
      BY <3>1, <3>2, <3>3 DEF EntriesInv, DiskInv, Reports
  <2>5. \/ UNCHANGED <<runs, replacing>> \/ FinishReplacing
        \/ \E path \in DOMAIN runs : ReplaceRun(path) \/ Tamper(path)
    BY DEF Operator, EditManifest, EditJourney, TouchOutput, disk
  <2>6. QED
    BY <2>1, <2>2, <2>3, <2>4, <2>5
<1>3. QED
  BY <1>1, <1>2 DEF EntriesInv, Attests, Attested, Vouched, Recorded

\* Whatever was replaced or tampered with while it was copied, an entry to be published names a
\* recorded run of the edition that was loaded, and carries that run's evidence.
THEOREM EntriesInvariant == Spec => []EntriesInv
<1>1. Init => EntriesInv
  <2>1. ASSUME Init
        PROVE  DiskInv
    BY <2>1, RunsAreRecorded DEF Init, DiskInv, EvidenceFields, Reports
  <2>2. Attests(Idle)
    BY IdleAttests DEF Idle
  <2>3. QED
    BY <2>1, <2>2 DEF Init, EntriesInv
<1>2. ASSUME CollectionInv, EntriesInv, [Next]_vars
      PROVE  EntriesInv'
  <2>1. CASE UNCHANGED vars
    BY <1>2, <2>1 DEF vars, disk, EntriesInv, DiskInv, Attests, Attested, Vouched, Recorded
  <2>2. ASSUME NEW p \in Procs, Invocation(p)
        PROVE  EntriesInv'
    BY <1>2, <2>2, BeginAttests, ReadAttests, RenderAttests, LaterAttests DEF Invocation
  <2>3. CASE Operator
    BY <1>2, <2>3, OperatorAttests
  <2>4. QED
    BY <1>2, <2>1, <2>2, <2>3 DEF Next
<1>3. QED
  BY <1>1, <1>2, CollectionInductive, PTL DEF Spec

\* Each page of an installed collection names a run that passed for the edition it describes
\* and shows that run's image, each review entry a failed one (prepare_entry's checks).
THEOREM CollectionsTellTheTruth == Spec => []InstalledTellsTheTruth
<1> DEFINE Told == installed = Absent \/ Truthful(installed)
<1>1. Init => Told
  BY DEF Init
<1>2. ASSUME EntriesInv, Told, [Next]_vars
      PROVE  Told'
  <2>1. CASE installed' = installed
    BY <1>2, <2>1 DEF Truthful, Recorded, ImageBeside
  <2>2. ASSUME NEW p \in Procs, Install(p)
        PROVE  Told'
    <3> DEFINE m == job[p].manifest
               tree == Generated(m, job[p].entries)
    <3>1. /\ m \in Manifests /\ ValidManifest(m)
          /\ \A k \in DOMAIN job[p].entries : Attested(m, job[p].entries, k)
      BY <1>2, <2>2 DEF Install, At, EntriesInv, Attests
    <3>2. Truthful(tree)
      BY <3>1, GeneratedIsTruthful
    <3>3. installed' = tree
      BY <2>2 DEF Install, Files
    <3>4. QED
      <4> HIDE DEF tree
      <4>1. QED
        BY <3>2, <3>3 DEF Truthful, Recorded, ImageBeside
  <2>3. (\E p \in Procs : Install(p)) \/ installed' = installed
    <3>1. ASSUME NEW p \in Procs, Invocation(p)
          PROVE  Install(p) \/ installed' = installed
      BY <3>1 DEF Invocation, Begin, Load, ReserveEvidence, CopyEvidence, CopyReport, Render,
        Unprepared, Compare, Stage, StageFails, InstallFails, Dies, Goes, Abort
    <3>2. Operator => installed' = installed
      BY DEF Operator, EditManifest, EditJourney, ReplaceRun, FinishReplacing, Tamper, TouchOutput
    <3>3. QED
      BY <1>2, <3>1, <3>2 DEF Next, vars
  <2>4. QED
    BY <2>1, <2>2, <2>3
<1>3. Told => InstalledTellsTheTruth
  BY DEF InstalledTellsTheTruth, Truthful
<1>4. QED
  <2> HIDE DEF Told
  <2>1. QED
    BY <1>1, <1>2, <1>3, EntriesInvariant, PTL DEF Spec
=============================================================================
