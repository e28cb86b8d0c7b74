---------------------------- MODULE CrawlRunProps ----------------------------
(***************************************************************************)
(* What must be true of every crawlson run.                                *)
(***************************************************************************)
EXTENDS CrawlRun, Render

\* The type invariant: every variable keeps to the values its Rust type allows, a pending
\* step is a step of the journey, and a step waiting for its last URL read has a result.
ControlOK ==
  /\ journey \in Journeys /\ opts \in CommandLines
  /\ pc \in ControlPoints
  /\ index \in 1 .. MaxSteps
  /\ pc \in StepPoints => index \in DOMAIN journey.steps
  /\ result \in {"none", "passed", "failed"}
  /\ pc = "trailing" => result # "none"
  /\ hasNavigated \in BOOLEAN
  /\ capture \in [href : Pages \cup {NoPage}, box : Nat, shot : Nat]
  /\ observation \in Observation

VerdictOK ==
  /\ primary \in Outcomes /\ outcome \in Outcomes /\ execution \in Outcomes
  /\ cause \in GateCodes \cup Causes \cup {"driver_unavailable", "run_directory_unavailable"}
  /\ reason \in GateCodes \cup Causes \cup Overrides

SessionOK ==
  /\ traceStarted \in BOOLEAN /\ staged \in BOOLEAN /\ expired \in BOOLEAN
  /\ records \in Seq(CommandRecord)
  /\ performed \in [1 .. MaxSteps -> Nat]

ReportOK ==
  /\ authentication \in AuthenticationStatus
  /\ steps \in Seq(StepRecord)
  /\ artifacts \subseteq Artifact
  /\ diagnostics \in BOOLEAN
  /\ cleanup \in CleanupStatus
  /\ written \in BOOLEAN

TypeOK == ControlOK /\ VerdictOK /\ SessionOK /\ ReportOK
-----------------------------------------------------------------------------
(* Vocabulary *)

Issued(capability) == {k \in DOMAIN records : records[k].capability = capability}

Links == Required(journey)

StatusesOf(j) == {steps[i].status : i \in DOMAIN j.steps \cap DOMAIN steps}

\* The capability of the command a step of the run has just recorded.
Appended == records'[Len(records')].capability

DeliberateAction(i) == steps[i].obs.action
-----------------------------------------------------------------------------
(* Verdicts *)

\* A run that reports "passed" has executed every declared step in order with success,
\* verified the sign-in a v4 journey asks for, clicked every link exactly once and
\* verified where it led, kept diagnostics, trace and report, closed its session, and
\* had no unsuccessful driver command on the way (runner::execute, finalize).
PassedIsEarned ==
  pc = "done" /\ outcome = "passed" =>
    /\ DOMAIN steps = DOMAIN journey.steps
    /\ StatusesOf(journey) = {"passed"}
    /\ journey.schema = 4 => authentication = "verified"
    /\ \A i \in Links : performed[i] = 1 /\ DeliberateAction(i) = "effect_verified"
    /\ diagnostics /\ TraceArtifact \in artifacts /\ written
    /\ cleanup = "passed"
    /\ \A k \in DOMAIN records : records[k].ok

\* The verdict of an execution is the worst that happened to a step, and the steps up to
\* the last one account for it: blocked and error end the run at the step that caused
\* them, failed needs a failed step, and a later evidence, cleanup or report failure
\* turns the report into an error without rewriting the execution's verdict.
VerdictExplained ==
  pc \in ClosingPoints \cup {"write", "done"} /\ steps # <<>> =>
    LET last == steps[Len(steps)].status
        before == {steps[i].status : i \in 1 .. Len(steps) - 1}
    IN /\ before \subseteq {"passed", "failed"}
       /\ execution = IF last \in {"blocked", "error"} THEN last
                      ELSE IF "failed" \in before \cup {last} THEN "failed" ELSE "passed"
       /\ outcome = execution \/ (outcome = "error" /\ reason \in Overrides)
       /\ cleanup = "failed" => outcome = "error"
       /\ execution = "failed" => cause = "checkpoint_failed"
-----------------------------------------------------------------------------
(* Interactive actions *)

\* A click the browser performed was licensed: the operator authorized exactly the
\* journey's origin and exactly its link steps, a v4 sign-in had been verified on a
\* visible checkpoint, every earlier step had a completed result, and the step is a link
\* whose href was its declared destination.
ClickLicensed ==
  \A i \in DOMAIN performed : performed[i] > 0 =>
    /\ i \in Links
    /\ opts.origin = "match" /\ opts.grants.wellFormed /\ opts.grants.named = Links
    /\ journey.schema = 4 => authentication = "verified"
    /\ \A k \in 1 .. i - 1 : k \in DOMAIN steps /\ steps[k].status \in {"passed", "failed"}
    /\ LET obs == IF i \in DOMAIN steps THEN steps[i].obs ELSE observation IN
       obs.href = journey.steps[i].url /\ obs.visible = "yes" /\ obs.enabled = "yes"

\* No click is retried, and none follows a click whose effect was not verified: a step
\* clicks at most once, and only when each earlier click reached its destination.
NeverRetried ==
  [][performed' # performed =>
       /\ \A i \in DOMAIN performed : performed'[i] <= 1
       /\ \A i \in DOMAIN performed :
            performed[i] = 1 => i \in DOMAIN steps /\ DeliberateAction(i) = "effect_verified"]_vars

\* The action state a report gives a link never understates what happened in the
\* browser: "not attempted" only when nothing was clicked, "acknowledged" or "verified"
\* only when it was, exactly once.
ActionStateHonest ==
  \A i \in DOMAIN steps :
    /\ DeliberateAction(i) \in {"none", "not_attempted"} => performed[i] = 0
    /\ DeliberateAction(i) \in {"driver_acknowledged", "effect_verified"} => performed[i] = 1
    /\ DeliberateAction(i) = "effect_verified" =>
         steps[i].obs.matched = "yes" /\ steps[i].obs.artifact = "focused"

\* Evidence precedes the action it documents: the sequences a step reports are those of
\* a bounding box and a screenshot issued back to back, and of the click right after.
EvidenceAdjacent ==
  /\ \A i \in DOMAIN steps :
       LET obs == steps[i].obs IN
       /\ obs.shot # 0 => /\ obs.shot = obs.box + 1
                          /\ {obs.box, obs.shot} \subseteq DOMAIN records
                          /\ records[obs.box].capability = "bounding_box"
                          /\ records[obs.shot].capability = "screenshot"
       /\ obs.click # 0 => /\ obs.click = obs.shot + 1
                           /\ obs.click \in Issued("click")
       /\ obs.artifact = "focused" =>
            \A k \in DOMAIN ArtifactKinds : [kind |-> ArtifactKinds[k], step |-> i] \in artifacts
  /\ \A k \in Issued("click") : k - 1 \in Issued("screenshot") /\ k - 2 \in Issued("bounding_box")

\* The step of the run that is being recorded.
LastStep == steps'[Len(steps')]

\* A step that passes or fails, whichever way it returns, ends with a look at the page: its
\* last command is a URL read that found the authorized origin.  A link that is not followed
\* is the exception: it fails at the inspection that ruled it out, or at the picture of a
\* link that leads elsewhere, on a page that was inside when the step began.
CompletedInside ==
  [][steps' # steps /\ LastStep.status \in {"passed", "failed"} =>
       /\ records' # records
       /\ LastStep.obs.observed \in Exact
       /\ \/ Appended = "current_url"
          \/ /\ LastStep.status = "failed" /\ LastStep.obs.action = "not_attempted"
             /\ LastStep.obs.before \in Exact
             /\ Appended \in PageInspections \cup {"screenshot"}]_vars
-----------------------------------------------------------------------------
(* Authentication *)

\* Nothing an authenticated guide could show or click happens before the visible sign-in
\* check has passed: no evidence, no click, no guide step, no recorded step but passed
\* navigations (validate_authentication_steps with execute's verification barrier).
VerifiedFirst ==
  journey.schema = 4 /\ authentication # "verified" =>
    /\ Issued("bounding_box") \cup Issued("screenshot") \cup Issued("click") = {}
    /\ artifacts \subseteq {TraceArtifact}
    /\ \A i \in DOMAIN steps : /\ ~journey.steps[i].guide
                               /\ i < journey.auth.verify => steps[i].status # "failed"
    /\ Len(steps) <= journey.auth.verify

\* The private copy of the sign-in state exists only while it is being loaded: if it
\* outlives the load, its removal failed, and then no step runs and nothing passes.
CopyConfined ==
  /\ staged /\ pc # "load" =>
       /\ authentication = "load_failed" /\ steps = <<>> /\ ~traceStarted
       /\ outcome = "error" \/ pc \in SetupPoints
  /\ Issued("authentication_load") # {} => journey.schema = 4
-----------------------------------------------------------------------------
(* Deadline, quiet and cleanup *)

\* A deadline that passes while a command of the setup or of a step is still to come makes
\* the run an error, whatever its steps had come to by then: it neither passes nor fails, and
\* is not blocked by what it can no longer look at.
DeadlineDecides ==
  expired /\ pc \in ClosingPoints \cup {"write", "done"} => execution = "error"

\* Once a step has blocked or failed the run with an error, the browser is not driven
\* again; a blocked run does not even read the console of the page it strayed to.
QuietAfterVerdict ==
  [][records' # records =>
       /\ primary \in {"blocked", "error"} => Appended \in CleanupGrace
       /\ primary = "blocked" => Appended \in {"trace_stop", "close"}]_vars

\* A session that may have been started is closed, last, on every path: with any command
\* issued, the report is not written before close has been tried, nothing follows it, and
\* a trace that was started is stopped before it.
CleanupCompulsory ==
  pc \in {"write", "done"} /\ (records # <<>> \/ steps # <<>> \/ staged) =>
    /\ cleanup # "not_needed"
    /\ cleanup = "passed" => Issued("close") = {Len(records)}
    /\ \A k \in Issued("close") : k = Len(records)
    /\ \A k \in Issued("trace_stop") : \A m \in Issued("close") : k < m

\* Every run ends: no command, deadline or failure leaves the runner waiting.
Terminates == <>(pc = "done")

\* Every run whose driver was launched attempts to close its session.
LaunchedIsClosed == (pc = "prepare") ~> (cleanup # "not_needed")
-----------------------------------------------------------------------------
(* The report *)

\* report.json as the renderer reads it back.
OnDisk == [identified     |-> cause # "journey_invalid",
           journey        |-> journey,
           required       |-> Required(journey),
           granted        |-> Granted(journey, opts),
           authentication |-> authentication,
           outcome        |-> outcome,
           execution      |-> execution,
           reason         |-> reason,
           cause          |-> cause,
           steps          |-> steps,
           artifacts      |-> artifacts,
           diagnostics    |-> diagnostics,
           cleanup        |-> cleanup,
           commands       |-> records]

\* What the runner writes for a run that passed or failed, the renderer accepts: none of
\* its checks rejects an honest, untouched report of a renderable journey.  A passed run
\* whose guide steps all show evidence becomes a guide, a run that failed at checkpoints
\* and links becomes findings.
HonestReportAccepted ==
  pc = "done" /\ written /\ outcome \in {"passed", "failed"} /\ RenderableJourney(journey) =>
    /\ Accepted(OnDisk, journey, TRUE)
    /\ outcome = "passed" /\ Guided(journey) # {} /\ Guided(journey) \subseteq Evidence(journey) =>
         Decision(OnDisk, journey).status = "guide_ready"
    /\ outcome = "failed"
       /\ (\A i \in DOMAIN steps : journey.steps[i].kind = "capture" => steps[i].status = "passed") =>
         Decision(OnDisk, journey).status = "findings_ready"

\* docs/architecture/render-v1.md: "Blocked runs are explicit non-publishable results."
BlockedIsNotPublishable ==
  pc = "done" /\ written /\ outcome = "blocked" /\ RenderableJourney(journey) =>
    Accepted(OnDisk, journey, TRUE) /\ Decision(OnDisk, journey).status = "not_publishable"
-----------------------------------------------------------------------------
(* The inductive invariant behind the theorems of CrawlRun_proofs *)

\* The browser is driven only for a run every gate has admitted.
Admission == pc \in SetupPoints \cup StepPoints => Admitted(journey, opts)

\* The steps reported so far are those before the one being executed.
StepsInOrder ==
  /\ pc \in {"preflight"} \cup SetupPoints => steps = <<>>
  /\ pc \in StepPoints => Len(steps) = index - 1

\* Only a link step gets to a click.
LinkPoints == pc \in {"click", "landed"} => Current.kind = "follow_link"

\* The step being executed has clicked, and its effect is verified if it is about to pass.
ClickPending ==
  /\ Current.kind = "follow_link"
  /\ \/ pc = "landed"
     \/ pc = "trailing" /\ (result = "passed" => observation.action = "effect_verified")

\* No step has clicked twice, and while the run goes on each step that clicked has reported
\* a verified effect or is the one being executed, past its click.
ClicksAccounted ==
  /\ pc \in {"preflight"} \cup SetupPoints => \A i \in 1 .. MaxSteps : performed[i] = 0
  /\ \A i \in 1 .. MaxSteps : performed[i] <= 1
  /\ pc \in StepPoints => \A i \in 1 .. MaxSteps : performed[i] = 1 =>
       \/ i \in DOMAIN steps /\ DeliberateAction(i) = "effect_verified"
       \/ i = index /\ ClickPending

Inductive == TypeOK /\ Admission /\ StepsInOrder /\ LinkPoints /\ ClicksAccounted
-----------------------------------------------------------------------------
(* The promise of a run *)

Phase ==
  CASE pc = "preflight" -> "judging"
    [] pc \in SetupPoints \cup StepPoints -> "driving"
    [] pc \in ClosingPoints \cup {"write"} -> "judged"
    [] pc = "done" -> "settled"

Promise == INSTANCE RunPromise WITH
  phase <- Phase,
  licensed <- IF Admitted(journey, opts) THEN Links ELSE {},
  clicked <- {i \in DOMAIN performed : performed[i] > 0},
  verdict <- execution,
  final <- outcome

\* The run keeps the promise: it judges before it drives, clicks each licensed link at
\* most once and in order, and never improves a result.
KeepsPromise == Promise!PSpec
=============================================================================
