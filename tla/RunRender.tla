------------------------------ MODULE RunRender ------------------------------
(***************************************************************************)
(* A run, and then `crawlson render` on its directory by several processes *)
(* (one render each), while the journey file may be edited, an artifact    *)
(* may change on disk and somebody may occupy render/.                     *)
(* render/ is installed as a whole by a rename.                            *)
(***************************************************************************)
EXTENDS CrawlRunProps

CONSTANTS
  Renderers,   \* processes that render this run
  Fragile      \* bound: kinds of artifacts that may change on disk

VARIABLES
  source,    \* the journey document the renderers are given
  changed,   \* the artifacts that are no longer what the report recorded
  rendered,  \* the result in render/, or what else is there
  job        \* what each renderer has read and decided

renderVars == <<source, changed, rendered, job>>
allVars == <<vars, renderVars>>

NoJourney == [schema |-> 0, auth |-> NoAuthentication, steps |-> <<>>, required |-> {}]

\* A result: the decision, the document it is about, and whether its images are those of the run.
Blanket(status) == [status |-> status, code |-> "none", journey |-> NoJourney, genuine |-> TRUE]

NoRender == Blanket("none")
EmptyRender == Blanket("empty")

\* render/ holds something the renderer did not write for this run.
Foreign == Blanket("foreign")

Waiting == [pc |-> "idle", result |-> NoRender, answer |-> "none"]

RenderInit ==
  /\ Init
  /\ source = journey
  /\ changed = {}
  /\ rendered = NoRender
  /\ job = [q \in Renderers |-> Waiting]

Run == Next /\ UNCHANGED renderVars

Answers(q, answer) ==
  /\ job' = [job EXCEPT ![q] = [Waiting EXCEPT !.pc = "done", !.answer = answer]]
  /\ UNCHANGED <<vars, source, changed>>

Goes(q, stage, found) ==
  /\ job' = [job EXCEPT ![q].pc = stage, ![q].result = found]
  /\ UNCHANGED <<vars, source, changed, rendered>>

\* The report and the journey document are read and checked, the artifacts last; then the decision.
Verify(q) ==
  /\ job[q].pc = "idle" /\ pc = "done"
  /\ LET d == Decision(OnDisk, source) IN
     IF written /\ Accepted(OnDisk, source, changed = {})
       THEN Goes(q, IF d.status = "guide_ready" THEN "images" ELSE "look",
                 [status |-> d.status, code |-> d.code, journey |-> source, genuine |-> TRUE])
       ELSE Answers(q, "error") /\ UNCHANGED rendered

Images(doc) == {[kind |-> "focused_screenshot", step |-> i] : i \in Guided(doc)}

GenuineImages(doc) == Images(doc) \cap changed = {}

\* Mutant: the images are read once more, but not verified once more.
ReadImagesUnverified(q) ==
  /\ job[q].pc = "images"
  /\ Goes(q, "look", [job[q].result EXCEPT !.genuine = GenuineImages(job[q].result.journey)])

\* build_guide reads the focused images again, and verifies what it read.
ReadImages(q) ==
  /\ job[q].pc = "images"
  /\ LET genuine == GenuineImages(job[q].result.journey) IN
     IF genuine THEN Goes(q, "look", [job[q].result EXCEPT !.genuine = genuine])
                ELSE Answers(q, "error") /\ UNCHANGED rendered

\* What is at render/ by now: nothing, these very bytes, or a conflict.
Look(q) ==
  /\ job[q].pc = "look"
  /\ IF rendered = NoRender
       THEN Goes(q, "stage", job[q].result)
       ELSE /\ Answers(q, IF rendered = job[q].result THEN rendered.status ELSE "error")
            /\ UNCHANGED rendered

\* Mutant: whatever appeared there since is replaced.
AlwaysRenamable == TRUE

\* The rename fails where there is something by now; on Unix it replaces an empty directory.
Renamable == rendered \in {NoRender, EmptyRender}

Install(q) ==
  /\ job[q].pc = "stage" /\ Renamable
  /\ rendered' = job[q].result
  /\ Answers(q, job[q].result.status)

\* Staging or the rename fails: the staging directory is removed.
InstallFails(q) ==
  /\ job[q].pc = "stage"
  /\ UNCHANGED rendered
  /\ Answers(q, "error")

EditJourney ==
  /\ pc = "done"
  /\ source' \in Journeys \ {source}
  /\ UNCHANGED <<vars, changed, rendered, job>>

OccupyRender ==
  /\ pc = "done" /\ rendered = NoRender
  /\ rendered' \in {EmptyRender, Foreign}
  /\ UNCHANGED <<vars, source, changed, job>>

\* Bound: one artifact changes, of the kinds in Fragile.
ChangeArtifact ==
  /\ pc = "done" /\ changed = {}
  /\ \E a \in artifacts : a.kind \in Fragile /\ changed' = {a}
  /\ UNCHANGED <<vars, source, rendered, job>>

RenderNext ==
  \/ Run \/ EditJourney \/ OccupyRender \/ ChangeArtifact
  \/ \E q \in Renderers :
       \/ Verify(q) \/ ReadImages(q) \/ Look(q) \/ Install(q) \/ InstallFails(q)

-----------------------------------------------------------------------------
(* What rendering must keep to *)

\* Types; and what a renderer holds is what its stage allows: a decision only once the
\* report was verified, a document of this run from then on.
RenderTypeOK ==
  /\ TypeOK
  /\ source \in Journeys /\ changed \subseteq artifacts
  /\ rendered.status \in DecisionStatuses \cup {"none", "empty", "foreign"}
  /\ \A q \in Renderers :
       /\ job[q].pc \in {"idle", "images", "look", "stage", "done"}
       /\ job[q].answer \in DecisionStatuses \cup {"none"}
       /\ job[q].pc \in {"images", "look", "stage"} =>
            job[q].result.status \in DecisionStatuses /\ job[q].result.journey = journey

Told(q, status) == job[q].pc # "done" /\ job'[q].answer = status

\* Whoever is told "guide_ready" finds in render/ a guide of a run that passed, about the
\* very document it executed, with the images it recorded, whatever was edited or replaced
\* while the guide was made; and every link the guide says was executed once and verified
\* was clicked once, by the browser, on that run.
GuideTellsTheTruth ==
  [][\A q \in Renderers : Told(q, "guide_ready") =>
       /\ rendered'.status = "guide_ready" /\ rendered'.journey = journey /\ rendered'.genuine
       /\ outcome = "passed" /\ cleanup = "passed"
       /\ \A i \in Guided(journey) :
            /\ Focused(OnDisk, i)
            /\ journey.steps[i].kind = "follow_link" => performed[i] = 1]_allVars

\* Whoever is told "findings_ready" finds in render/ the findings of a run that failed at
\* checkpoints or at a link, about the document it executed; a link they report as not
\* attempted was not clicked.
FindingsTellTheTruth ==
  [][\A q \in Renderers : Told(q, "findings_ready") =>
       /\ rendered'.status = "findings_ready" /\ rendered'.journey = journey
       /\ outcome = "failed" /\ cleanup = "passed"
       /\ \A i \in DOMAIN steps :
            /\ steps[i].status \in {"passed", "failed"}
            /\ DeliberateAction(i) \in {"none", "not_attempted"} => performed[i] = 0]_allVars

\* What is in render/ stays: no render, late, concurrent or of an edited journey, replaces
\* another's result or anybody's files; at most it fills an empty directory (render::publish).
NeverOverwritten ==
  [][rendered \notin {NoRender, EmptyRender} => rendered' = rendered]_allVars
-----------------------------------------------------------------------------
RenderSpec == RenderInit /\ [][RenderNext]_allVars
=============================================================================
