------------------------------ MODULE Collection ------------------------------
(***************************************************************************)
(* `guides build` and `guides check` (src/collection.rs): a collection of  *)
(* guides from many runs.  Several invocations work on one manifest and    *)
(* one output directory, reading files an operator may edit meanwhile.     *)
(*                                                                         *)
(* A journey document is [id, rev, sound, guided], guided if it has a step *)
(* to show; its digest is the document.  A run directory is [report,       *)
(* evidence, link]: the report names its run, the journey it executed and  *)
(* its outcome, evidence names the run that recorded it, and link says     *)
(* that the directory holds a symlink.                                     *)
(***************************************************************************)
EXTENDS CollectionTree

CONSTANTS
  Procs,           \* invocations of the program
  Manifests,       \* editions of the manifest
  Documents,       \* editions of journey documents
  AllRuns,         \* runs that were ever recorded
  Starts,          \* [manifest, journeys, runs] on disk when the first invocation starts
  MaxInputFiles, MaxInputBytes,    \* what one invocation may copy
  MaxOutputFiles, MaxOutputBytes,  \* what one invocation may retain and generate together
  MaxChanges,      \* bound: edits of files by the operator
  Absent,          \* there is nothing at the output path
  Foreign,         \* there is something that is not a real directory
  Tampered         \* evidence that no run recorded

ASSUME BoundsAreNatural ==
  {MaxInputFiles, MaxInputBytes, MaxOutputFiles, MaxOutputBytes, MaxChanges} \subseteq Nat

ASSUME StartsHaveManifests == \A s \in Starts : s.manifest \in Manifests

\* A manifest is a file: it lists finitely many topics and guides, each with a number.
ASSUME ManifestsAreFinite ==
  \A m \in Manifests :
    /\ IsFiniteSet(m)
    /\ \A t \in m : /\ t.order \in Nat /\ IsFiniteSet(t.guides)
                   /\ \A g \in t.guides : g.order \in Nat

\* At first every run directory is one that was recorded, and every path of a manifest has
\* one (a missing file is not modelled).
ASSUME RunsAreRecorded ==
  /\ \A r \in AllRuns : /\ DOMAIN r = {"report", "evidence", "link"}
                       /\ DOMAIN r.evidence = {"of", "size"}
  /\ \A s \in Starts : /\ \A path \in DOMAIN s.runs : s.runs[path] \in AllRuns
                      /\ \A m \in Manifests : \A g \in Guides(m) : g.run \in DOMAIN s.runs

NoDocument == [id |-> "none", rev |-> 0, sound |-> FALSE, guided |-> FALSE]
NoRun == "none"

VARIABLES
  manifest,   \* the manifest file
  journeys,   \* the journey file at each path
  runs,       \* the run directory at each path
  replacing,  \* a run directory whose evidence is already that of another run, or {}
  out,        \* the output directory: Absent, Foreign or a tree
  staging,    \* invocations whose staging directory exists beside the output
  job,        \* what each invocation holds in memory
  installed,  \* history: the tree last installed by an invocation
  changes     \* bound: edits so far

disk == <<manifest, journeys, runs, replacing>>
vars == <<disk, out, staging, job, installed, changes>>

Zero == [files |-> 0, bytes |-> 0]

Idle == [pc |-> "idle", mode |-> "none", manifest |-> {}, entries |-> <<>>,
         loaded |-> NoDocument, size |-> 0, evidence |-> Tampered, report |-> Tampered,
         input |-> Zero, retained |-> Zero, read |-> Zero, status |-> "none", shown |-> {}]

Init ==
  /\ \E s \in Starts : manifest = s.manifest /\ journeys = s.journeys /\ runs = s.runs
  /\ replacing = {}
  /\ out = Absent /\ installed = Absent
  /\ staging = {}
  /\ job = [p \in Procs |-> Idle]
  /\ changes = 0

At(p, pc) == job[p].pc = pc

\* What is left of an invocation that has ended: its answer, and what it had read for it.
Ended(p, status, shown) ==
  [Idle EXCEPT !.pc = "done", !.mode = job[p].mode, !.read = job[p].read,
               !.status = status, !.shown = shown]

\* The invocation ends with this status and shows these entries in its report.
Ends(p, status, shown) == job' = [job EXCEPT ![p] = Ended(p, status, shown)]

\* error_report: a report without entries.
Abort(p) == Ends(p, "error", {}) /\ UNCHANGED <<disk, out, staging, installed, changes>>

Goes(p, change) ==
  /\ job' = [job EXCEPT ![p] = change]
  /\ UNCHANGED <<disk, out, staging, installed, changes>>
-----------------------------------------------------------------------------
(* prepare: the entries, one after another *)

\* CopyLimits::reserve, for one file or for several in a row.
Fits(l, files, bytes, maxFiles, maxBytes) ==
  l.files + files <= maxFiles /\ l.bytes + bytes <= maxBytes

Plus(l, files, bytes) == [files |-> l.files + files, bytes |-> l.bytes + bytes]

Plan(p) == Ordered(job[p].manifest)
Entry(p) == Plan(p)[Len(job[p].entries) + 1]

\* resolve_output_path: nothing, or a real directory.
OutputAddressable == out # Foreign

\* What the collection demands of a journey: that it loads, that it is valid, and that its
\* texts can stand in a document.
Portable(doc) == doc.sound

\* The manifest and the output path are read first.
Begin(p) ==
  /\ At(p, "idle")
  /\ \E mode \in {"build", "check"} :
       IF ValidManifest(manifest) /\ OutputAddressable
         THEN Goes(p, [Idle EXCEPT !.pc = "load", !.mode = mode, !.manifest = manifest])
         ELSE Ends(p, "error", {}) /\ UNCHANGED <<disk, out, staging, installed, changes>>

\* The journey of the entry is loaded and validated; its identity is used once.
Load(p) ==
  /\ At(p, "load")
  /\ LET doc == journeys[Entry(p).journey] IN
     IF Portable(doc) /\ \A k \in DOMAIN job[p].entries : job[p].entries[k].journey.id # doc.id
       THEN Goes(p, [job[p] EXCEPT !.pc = "reserve", !.loaded = doc])
       ELSE Abort(p)

\* copy_run_tree on the evidence: a symlink is refused, the size is reserved before the copy.
ReserveEvidence(p) ==
  /\ At(p, "reserve")
  /\ LET dir == runs[Entry(p).run] size == dir.evidence.size IN
     IF ~dir.link /\ Fits(job[p].input, 1, size, MaxInputFiles, MaxInputBytes)
       THEN Goes(p, [job[p] EXCEPT !.pc = "copy", !.size = size, !.input = Plus(@, 1, size)])
       ELSE Abort(p)

\* Mutant: what was copied is not compared with what was reserved.
CopyEvidenceUnchecked(p) ==
  /\ At(p, "copy")
  /\ LET held == runs[Entry(p).run].evidence IN
     Goes(p, [job[p] EXCEPT !.pc = "report", !.evidence = held, !.read = Plus(@, 1, held.size)])

\* The copy takes all that the file holds by now.  Only then is its size compared with the one
\* that was reserved, and the invocation gives up on a file that has changed.
CopyEvidence(p) ==
  /\ At(p, "copy")
  /\ LET held == runs[Entry(p).run].evidence
         read == Plus(job[p].read, 1, held.size)
     IN IF held.size = job[p].size
          THEN Goes(p, [job[p] EXCEPT !.pc = "report", !.evidence = held, !.read = read])
          ELSE Goes(p, [Ended(p, "error", {}) EXCEPT !.read = read])

\* The report is copied last; it has one byte in every run.
CopyReport(p) ==
  /\ At(p, "report")
  /\ IF Fits(job[p].input, 1, 1, MaxInputFiles, MaxInputBytes)
       THEN Goes(p, [job[p] EXCEPT !.pc = "render", !.report = runs[Entry(p).run].report,
                                   !.input = Plus(@, 1, 1), !.read = Plus(@, 1, 1)])
       ELSE Abort(p)

\* A run that passed makes a guide if its journey has a step to show.
RenderStatus(runOutcome, doc) ==
  CASE runOutcome = "passed" -> IF doc.guided THEN "guide_ready" ELSE "not_publishable"
    [] runOutcome = "failed" -> "findings_ready"
    [] runOutcome = "blocked" -> "not_publishable"
    [] OTHER -> "error"

\* render::run on the copy: what it accepts names the document and the evidence it was given.
RenderOf(report, evidence, doc) ==
  IF doc.sound /\ report.journey = doc /\ evidence.of = report.id
    THEN [status |-> RenderStatus(report.outcome, doc), run |-> report.id, journey |-> doc]
    ELSE [status |-> "error", run |-> NoRun, journey |-> NoDocument]

\* Mutant: the renderer's journey is not compared with the one that was loaded.
AnyProvenance(rendered, loaded) == TRUE

SameProvenance(rendered, loaded) ==
  IF rendered.journey = NoDocument THEN rendered.status = "error" ELSE rendered.journey = loaded

\* The renderer's outputs, and the evidence of findings, that are kept in memory.
Kept(status, size) ==
  CASE status = "guide_ready" -> [files |-> 2, bytes |-> 1 + size]
    [] status = "findings_ready" -> [files |-> 4, bytes |-> 3 + size]
    [] OTHER -> Zero

\* The renderer reads the journey file once more; a run satisfies one entry.
Render(p) ==
  /\ At(p, "render")
  /\ LET j == job[p]
         r == RenderOf(j.report, j.evidence, journeys[Entry(p).journey])
         kept == Kept(r.status, j.evidence.size)
         entry == [topic |-> Entry(p).topic, key |-> Entry(p).key, status |-> r.status,
                   run |-> r.run, journey |-> j.loaded, evidence |-> j.evidence]
     IN IF /\ SameProvenance(r, j.loaded)
           /\ Fits(j.retained, kept.files, kept.bytes, MaxOutputFiles, MaxOutputBytes)
           /\ r.run # NoRun => \A k \in DOMAIN j.entries : j.entries[k].run # r.run
          THEN Goes(p, [j EXCEPT !.pc = IF Len(j.entries) + 1 = Len(Plan(p)) THEN "compare" ELSE "load",
                                 !.entries = Append(@, entry),
                                 !.retained = Plus(@, kept.files, kept.bytes),
                                 !.loaded = NoDocument, !.size = 0,
                                 !.evidence = Tampered, !.report = Tampered])
          ELSE Abort(p)
-----------------------------------------------------------------------------
(* The prepared collection against the output directory *)

Status(p) == StatusOf(job[p].entries)
Files(p) == Generated(job[p].manifest, job[p].entries)
Shown(p) == {job[p].entries[k].key : k \in DOMAIN job[p].entries}

\* What was retained and what is generated share one bound; paths must not collide.
Prepared(p) ==
  /\ Status(p) # "error"
  /\ ~Collides(Files(p))
  /\ LET total == Size(Files(p)) IN
     Fits(job[p].retained, total.files, total.bytes, MaxOutputFiles, MaxOutputBytes)
  /\ Audit(Files(p)) = {}

\* A collection with an error has a report with its entries, any other failure none.
Unprepared(p) ==
  /\ At(p, "compare") /\ ~Prepared(p)
  /\ Ends(p, "error", IF Status(p) = "error" THEN Shown(p) ELSE {})
  /\ UNCHANGED <<disk, out, staging, installed, changes>>

\* Mutant: an output with the same paths is taken for the same output.
SamePaths(actual, expected) == DOMAIN actual = DOMAIN expected

Identical(actual, expected) == actual = expected

\* read_output_tree: a directory within the bounds.
Readable == /\ out # Foreign
            /\ Size(out).files <= MaxOutputFiles /\ Size(out).bytes <= MaxOutputBytes

Answer(p) ==
  CASE out = Absent -> IF job[p].mode = "build" THEN "stage" ELSE "not_publishable"
    [] out # Absent /\ ~Readable -> "error"
    [] out # Absent /\ Readable /\ Identical(out, Files(p)) -> Status(p)
    [] OTHER -> IF job[p].mode = "check" THEN Mismatch(Files(p), out) ELSE "error"

\* build and check: the output is read once.
Compare(p) ==
  /\ At(p, "compare") /\ Prepared(p)
  /\ IF Answer(p) = "stage" THEN job' = [job EXCEPT ![p].pc = "stage"]
                            ELSE Ends(p, Answer(p), Shown(p))
  /\ UNCHANGED <<disk, out, staging, installed, changes>>

\* write_new_tree: the whole tree beside the output, and reread.
Stage(p) ==
  /\ At(p, "stage")
  /\ job' = [job EXCEPT ![p].pc = "install"]
  /\ staging' = staging \cup {p}
  /\ UNCHANGED <<disk, out, installed, changes>>

\* Mutant: a plain rename, which replaces an empty directory.
Replaceable == out \in {Absent, EmptyTree}

\* rename_create_only succeeds only where there is nothing.
Creatable == out = Absent

\* Mutant: the tree is copied into place, and its staging directory stays.
InstallCopied(p) ==
  /\ At(p, "install") /\ Creatable
  /\ out' = Files(p) /\ installed' = Files(p)
  /\ Ends(p, Status(p), Shown(p))
  /\ UNCHANGED <<disk, staging, changes>>

Install(p) ==
  /\ At(p, "install") /\ Creatable
  /\ out' = Files(p) /\ installed' = Files(p)
  /\ staging' = staging \ {p}
  /\ Ends(p, Status(p), Shown(p))
  /\ UNCHANGED <<disk, changes>>

\* The rename fails, or what is there by now forbids it: the staging directory, no longer
\* temporary, is removed, and the removal may fail unnoticed.
InstallFails(p) ==
  /\ At(p, "install")
  /\ staging' \in {staging \ {p}, staging}
  /\ Ends(p, "error", Shown(p))
  /\ UNCHANGED <<disk, out, installed, changes>>

\* Staging fails: the temporary directory removes itself, if it can.
StageFails(p) ==
  /\ At(p, "stage")
  /\ staging' \in {staging, staging \cup {p}}
  /\ Ends(p, "error", Shown(p))
  /\ UNCHANGED <<disk, out, installed, changes>>

\* The process dies: a staging directory it has made, or has been making, stays.
Dies(p) ==
  /\ job[p].pc \notin {"idle", "done", "dead"}
  /\ job' = [job EXCEPT ![p] = [Idle EXCEPT !.pc = "dead"]]
  /\ staging' \in {staging} \cup {staging \cup {q} : q \in {p} \cap {r \in Procs : At(r, "stage")}}
  /\ UNCHANGED <<disk, out, installed, changes>>
-----------------------------------------------------------------------------
(* The operator, at any time *)

Edits == changes < MaxChanges /\ changes' = changes + 1

EditManifest ==
  /\ Edits
  /\ manifest' \in Manifests \ {manifest}
  /\ UNCHANGED <<journeys, runs, replacing, out, staging, job, installed>>

EditJourney(path) ==
  /\ Edits
  /\ \E doc \in Documents \ {journeys[path]} : journeys' = [journeys EXCEPT ![path] = doc]
  /\ UNCHANGED <<manifest, runs, replacing, out, staging, job, installed>>

\* Another run is copied over a run directory, its evidence before its report.
ReplaceRun(path) ==
  /\ Edits /\ replacing = {}
  /\ \E r \in AllRuns :
       /\ r.report.id # runs[path].report.id
       /\ runs' = [runs EXCEPT ![path].evidence = r.evidence]
       /\ replacing' = {[path |-> path, report |-> r.report]}
  /\ UNCHANGED <<manifest, journeys, out, staging, job, installed>>

FinishReplacing ==
  /\ \E r \in replacing : runs' = [runs EXCEPT ![r.path].report = r.report]
  /\ replacing' = {}
  /\ UNCHANGED <<manifest, journeys, out, staging, job, installed, changes>>

Tamper(path) ==
  /\ Edits
  /\ runs' \in {[runs EXCEPT ![path].evidence.of = Tampered], [runs EXCEPT ![path].link = TRUE]}
  /\ UNCHANGED <<manifest, journeys, replacing, out, staging, job, installed>>

\* The operator's hand in the output: occupied, moved away, or one file of it touched.
TouchOutput ==
  /\ Edits
  /\ \/ out = Absent /\ out' \in {EmptyTree, Foreign}
     \/ out # Absent /\ out' = Absent
     \/ out \notin {Absent, Foreign} /\ out' \in Damaged(out)
  /\ UNCHANGED <<disk, staging, job, installed>>

Invocation(p) ==
  \/ Begin(p) \/ Load(p) \/ ReserveEvidence(p) \/ CopyEvidence(p) \/ CopyReport(p) \/ Render(p)
  \/ Unprepared(p) \/ Compare(p) \/ Stage(p) \/ StageFails(p) \/ Install(p) \/ InstallFails(p)
  \/ Dies(p)

Operator ==
  \/ EditManifest \/ FinishReplacing \/ TouchOutput
  \/ \E path \in DOMAIN journeys : EditJourney(path)
  \/ \E path \in DOMAIN runs : ReplaceRun(path) \/ Tamper(path)

Next == Operator \/ \E p \in Procs : Invocation(p)

Spec == Init /\ [][Next]_vars
-----------------------------------------------------------------------------
(* Properties *)

Statuses == {"none", "ready", "findings", "not_publishable", "error"}

GaveUp(p) == job[p].pc = "done" /\ job[p].status = "error"

\* Every field keeps its type; an invocation that ended without an error has left no staging
\* directory, and none exists before the tree is staged (write_new_tree).
CollectionTypeOK ==
  /\ manifest \in Manifests
  /\ changes \in 0..MaxChanges
  /\ \A p \in Procs :
       /\ job[p].pc \in {"idle", "load", "reserve", "copy", "report", "render", "compare",
                        "stage", "install", "done", "dead"}
       /\ job[p].mode \in {"none", "build", "check"}
       /\ job[p].status \in Statuses
  /\ \A p \in staging : job[p].pc \in {"install", "dead"} \/ GaveUp(p)

\* What an invocation has read from all its runs together, and what it holds and generates
\* for all its entries together, keeps to the bounds of one collection (CopyLimits, shared
\* by every entry and reserved before each copy).  Only a file that grew after its size was
\* reserved can take the copy past them, and that copy is the invocation's last: it gives up.
WithinBounds ==
  \A p \in Procs :
    LET j == job[p] total == Size(Files(p)) IN
    /\ j.read.files <= MaxInputFiles
    /\ j.read.bytes <= MaxInputBytes \/ GaveUp(p)
    /\ j.retained.files <= MaxOutputFiles /\ j.retained.bytes <= MaxOutputBytes
    /\ j.pc \in {"stage", "install"} =>
         /\ j.retained.files + total.files <= MaxOutputFiles
         /\ j.retained.bytes + total.bytes <= MaxOutputBytes

Recorded(run, document, outcome) ==
  \E r \in AllRuns : r.report.id = run /\ r.report.journey = document /\ r.report.outcome = outcome

ImageBeside(path) ==
  SubSeq(path, 1, 3) \o (IF path[1] = "topics" THEN <<"001-focused.png">> ELSE <<"evidence", "001.png">>)

\* Whatever was edited, replaced or tampered with meanwhile: each page of an installed
\* collection names a run that passed for the very edition of the journey the page
\* describes, and shows that run's image; each review entry cites a failed run of its
\* edition and carries that run's evidence (prepare_entry's provenance check).
InstalledTellsTheTruth ==
  installed # Absent =>
    /\ \A path \in DOMAIN installed : path[1] \in {"topics", "review"} =>
         \A fact \in installed[path].data : "run" \in DOMAIN fact =>
           /\ Recorded(fact.run, fact.journey, IF path[1] = "topics" THEN "passed" ELSE "failed")
           /\ \A e \in installed[ImageBeside(path)].data : e.of = fact.run
    /\ <<"index.md">> \in DOMAIN installed => \A path \in DOMAIN installed : path[1] # "review"

\* No invocation replaces or removes what is at the output path: it can only put a tree
\* where there is nothing, even if something appeared there after it looked.
OutputKept ==
  [][out # Absent /\ out' # out => UNCHANGED job]_vars

Ending(p) == job[p].pc \notin {"idle", "done"} /\ job'[p].pc = "done"

\* A build that ends without an error leaves on disk exactly the tree its report describes,
\* and a check that answers with the collection's own status found exactly that tree.
ReportMatchesDisk ==
  [][\A p \in Procs :
       (Ending(p) /\ job'[p].status # "error"
          /\ (job[p].mode = "check" => job'[p].status \in {"ready", "findings"}))
       => out' = Files(p)]_vars

Rank(status) ==
  CASE status \in {"ready", "guide_ready"} -> 0
    [] status \in {"findings", "findings_ready"} -> 1
    [] status = "not_publishable" -> 2
    [] OTHER -> 3

\* No invocation reports its collection as better than any of the entries it prepared.
WorstDecides ==
  [][\A p \in Procs : Ending(p) =>
       \A k \in DOMAIN job[p].entries : Rank(job'[p].status) >= Rank(job[p].entries[k].status)]_vars

\* The output is as an invocation installed it, but the inputs have moved on: check calls
\* it unpublishable, never damaged.
StaleIsNotBroken ==
  [][\A p \in Procs :
       (Ending(p) /\ job[p].mode = "check" /\ job[p].pc = "compare" /\ Prepared(p)
          /\ out # Absent /\ out = installed)
       => job'[p].status # "error"]_vars

\* The invocation checks an output that should be the installed one, for its inputs are the
\* same, and is not: a file of it was altered, lost or added, or it was replaced.
ChecksDamaged(p) ==
  /\ Ending(p) /\ job[p].mode = "check" /\ job[p].pc = "compare" /\ Prepared(p)
  /\ out \notin {Absent, installed} /\ Files(p) = installed

\* check calls a damaged output broken, never merely out of date, if its report still names
\* the inputs, cannot be read or is lost: the damage is not explained by other inputs.
BrokenIsNotStale ==
  [][\A p \in Procs :
       ChecksDamaged(p) /\ (out # Foreign => Identity(out) \in {{}, Identity(installed)})
       => job'[p].status = "error"]_vars

\* What the documentation promises of check: exit code 4 for "broken output integrity", and
\* 3 only for "stale or missing output".  The code believes a report that was altered to
\* name other inputs.
BrokenIsNoticed ==
  [][\A p \in Procs : ChecksDamaged(p) => job'[p].status = "error"]_vars

\* What the documentation promises of an error report: the entries verified before a
\* provenance conflict of a later one are in it.  The code returns without them.
SiblingsShown ==
  [][\A p \in Procs :
       (/\ Ending(p) /\ job[p].pc = "render"
        /\ ~SameProvenance(RenderOf(job[p].report, job[p].evidence, journeys[Entry(p).journey]), job[p].loaded))
       => Shown(p) \subseteq job'[p].shown]_vars
=============================================================================
