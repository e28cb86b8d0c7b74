------------------------------ MODULE CrawlRun ------------------------------
(***************************************************************************)
(* One `crawlson run`: the runner (src/runner.rs) drives a journey step by *)
(* step through the agent-browser adapter (src/driver.rs).                 *)
(*                                                                         *)
(* Every driver command is one action, because the browser and the run     *)
(* deadline move between commands; what the runner computes after a        *)
(* command and before the next one belongs to the action of the command.   *)
(* pc names the command to issue next.                                     *)
(*                                                                         *)
(* The page is the browser's, not the runner's: scripts, timers, redirects *)
(* and late responses change it between any two commands.  So there is no  *)
(* variable for it: each command that looks at it finds any page.          *)
(***************************************************************************)
EXTENDS Report

CONSTANTS
  Journeys,      \* the journey documents a run may be given
  CommandLines,  \* the options it may be given
  Fallible       \* the driver commands that may fail before the deadline (a bound: all)

ASSUME InputsAssumption ==
  /\ Journeys \subseteq Document
  /\ CommandLines \subseteq Options
  /\ Fallible \subseteq Capabilities

VARIABLES
  journey,         \* the journey document of this run
  opts,            \* the command line of this run
  pc,              \* the driver command, or file operation, to perform next
  index,           \* the step being executed
  result,          \* the step's result while its trailing URL read is pending
  primary,         \* the outcome so far
  cause,           \* the reason code of primary, at last report.execution_reason.code
  hasNavigated,    \* a navigate step has completed
  traceStarted,    \* tracing is on
  capture,         \* the link resolved and the command sequences of its evidence
  observation,     \* the observation of the step being executed
  staged,          \* the private copy of the authentication state exists
  expired,         \* the run deadline has passed
  records,         \* the driver's command records, in order
  performed,       \* how often the browser performed each step's click
  outcome,         \* report.outcome
  execution,       \* report.execution_outcome
  reason,          \* report.reason.code
  authentication,  \* report.authentication.status
  steps,           \* report.steps
  artifacts,       \* report.artifacts
  diagnostics,     \* report.diagnostics is present
  cleanup,         \* report.cleanup.status
  written          \* report.json is on disk

inputs == <<journey, opts>>
stepVars == <<index, result, hasNavigated, capture, observation>>
verdict == <<primary, cause, outcome, execution, reason>>
evidence == <<steps, artifacts, diagnostics>>
vars == <<journey, opts, pc, index, result, primary, cause, hasNavigated,
          traceStarted, capture, observation, staged, expired, records, performed,
          outcome, execution, reason, authentication, steps, artifacts, diagnostics,
          cleanup, written>>
-----------------------------------------------------------------------------
(* Values *)

\* driver_error stands for the reason codes of every driver error but the three named here.
Causes == {"journey_passed", "checkpoint_failed", "origin_not_authorized",
           "authentication_verification_failed", "authentication_state_load_failed",
           "driver_error", "driver_confirmation_required", "action_effect_unknown"}

Overrides == {"diagnostics_failed", "trace_finalization_failed", "trace_artifact_invalid",
              "cleanup_failed", "report_write_failed", "run_incomplete",
              "run_directory_unavailable", "driver_unavailable"}

YesNo(b) == IF b THEN "yes" ELSE "no"

\* The inspections whose response names the page it was read from.
PageInspections == {"is_visible", "is_enabled", "get_attribute", "text"}

\* The capabilities the expired run deadline does not stop.
CleanupGrace == {"console", "page_errors", "trace_stop", "close"}

\* The points inside a step at which a driver command is pending.
StepPoints == {"entry", "act", "arrived", "text", "hidden", "link_visible",
               "link_enabled", "link_href", "box", "shot", "click", "landed",
               "trailing"}

SetupPoints == {"prepare", "stage", "load", "trace_start"}

ClosingPoints == {"console", "page_errors", "trace_stop", "close"}

ControlPoints == {"preflight", "write", "done"}
                   \cup SetupPoints \cup StepPoints \cup ClosingPoints

NoCapture == [href |-> NoPage, box |-> 0, shot |-> 0]
-----------------------------------------------------------------------------
(* The driver *)

Record(capability, ok) ==
  records' = Append(records, [capability |-> capability, ok |-> ok])

\* Mutant: the deadline is not consulted.
PermittedAlways(capability) == capability \in Capabilities

\* The run deadline leaves only the cleanup commands.
Permitted(capability) == capability \in CleanupGrace \/ ~expired

Succeeds(capability) == Permitted(capability) /\ Record(capability, TRUE)

\* Mutant: a command the deadline refuses is waited for.
FailsOnlyWithRecord(capability) ==
  capability \in Fallible /\ Permitted(capability) /\ Record(capability, FALSE)

\* The deadline or a failed spawn leaves no record, a timeout or a bad envelope a
\* failed one.
Fails(capability) ==
  \/ (capability \in Fallible \/ ~Permitted(capability)) /\ UNCHANGED records
  \/ capability \in Fallible /\ Permitted(capability) /\ Record(capability, FALSE)

\* Any driver error but a blocked navigation: a response of the wrong shape comes
\* from a command that succeeded.
Errors(capability) ==
  \/ Fails(capability)
  \/ capability \in Fallible /\ Succeeds(capability)
-----------------------------------------------------------------------------
(* The step being executed *)

Current == journey.steps[index]

Verifying == journey.schema = 4 /\ journey.auth.verify = index

\* The first command of a step's arm.
ActCommand ==
  CASE Current.kind = "navigate" -> "navigate"
    [] Current.kind \in {"check_url", "follow_link"} -> "current_url"
    [] OTHER -> "is_visible"

\* The command that is pending at a point of a step.
Command ==
  CASE pc = "act" -> ActCommand
    [] pc = "text" -> "text"
    [] pc = "link_visible" -> "is_visible"
    [] pc = "link_enabled" -> "is_enabled"
    [] pc = "link_href" -> "get_attribute"
    [] pc = "box" -> "bounding_box"
    [] pc = "shot" -> "screenshot"
    [] pc = "click" -> "click"
    [] OTHER -> "current_url"

\* What a step's arm records before its first command.
Declare(obs, k) ==
  LET step == journey.steps[k] IN
  CASE step.kind \in {"navigate", "check_url"} -> [obs EXCEPT !.expected = safe_url(step.url)]
    [] step.kind = "follow_link" -> [obs EXCEPT !.expected = safe_url(step.url),
                                                !.action = "not_attempted"]
    [] OTHER -> obs

\* The point a step starts at: its URL is read first once the run has navigated.
StartStep(k, navigated) ==
  /\ index' = k
  /\ hasNavigated' = navigated
  /\ pc' = IF navigated THEN "entry" ELSE "act"
  /\ observation' = IF navigated THEN NoObservation ELSE Declare(NoObservation, k)
  /\ result' = "none"
  /\ capture' = NoCapture

\* Mutant: the console of a blocked page is read.
ConcludeReadingConsole(p, c, traced) ==
  /\ primary' = p /\ cause' = c
  /\ outcome' = p /\ execution' = p /\ reason' = c
  /\ pc' = IF traced THEN "console" ELSE "close"

\* Mutant: the console is read for a passed run only.
ConcludeQuietOnFailure(p, c, traced) ==
  /\ primary' = p /\ cause' = c
  /\ outcome' = p /\ execution' = p /\ reason' = c
  /\ pc' = IF ~traced THEN "close" ELSE IF p = "passed" THEN "console" ELSE "trace_stop"

\* The execution outcome is fixed; what remains is evidence and cleanup.
Conclude(p, c, traced) ==
  /\ primary' = p /\ cause' = c
  /\ outcome' = p /\ execution' = p /\ reason' = c
  /\ pc' = IF ~traced THEN "close"
           ELSE IF p = "blocked" \/ "diagnostics" \notin journey.required THEN "trace_stop"
           ELSE "console"

EndStep(obs, status, p, c, stop) ==
  /\ steps' = Append(steps, [status |-> status, obs |-> obs])
  /\ \/ /\ stop \/ index = Len(journey.steps)
        /\ Conclude(p, c, traceStarted)
        /\ UNCHANGED <<index, hasNavigated>>
        /\ result' = "none" /\ capture' = NoCapture /\ observation' = NoObservation
     \/ /\ ~stop /\ index < Len(journey.steps)
        /\ primary' = p /\ cause' = c
        /\ StartStep(index + 1, hasNavigated \/ Current.kind = "navigate")
        /\ UNCHANGED <<outcome, execution, reason>>
  /\ UNCHANGED <<inputs, traceStarted, staged, expired, diagnostics, cleanup, written>>

\* Mutant: an earlier failure outlives a later block.
StepResultKeepsFirst(obs, res) ==
  LET status == IF res = "failed" /\ Verifying THEN "blocked" ELSE res
      p == IF primary = "passed" THEN status ELSE primary
      c == IF p = primary THEN cause
           ELSE IF p = "failed" THEN "checkpoint_failed" ELSE "origin_not_authorized"
  IN /\ EndStep(obs, status, p, c,
                status = "blocked" \/ (status = "failed" /\ Current.kind = "follow_link"))
     /\ authentication' = IF Verifying /\ res = "passed" THEN "verified" ELSE authentication

\* Mutant: the verification step fails like any other checkpoint.
StepResultUnbarred(obs, res) ==
  LET p == IF res = "passed" THEN primary ELSE res
      c == CASE res = "passed" -> cause
             [] res = "failed" -> "checkpoint_failed"
             [] res = "blocked" -> "origin_not_authorized"
  IN /\ EndStep(obs, res, p, c,
                res = "blocked" \/ (res = "failed" /\ Current.kind = "follow_link"))
     /\ authentication' = IF Verifying /\ res = "passed" THEN "verified" ELSE authentication

(***************************************************************************)
(* The step returned a result.  A failed verification step blocks the run, *)
(* a failed link action ends it, any other failed step lets it go on.      *)
(***************************************************************************)
StepResult(obs, res) ==
  LET status == IF res = "failed" /\ Verifying THEN "blocked" ELSE res
      p == IF status = "passed" THEN primary ELSE status
      c == CASE status = "passed" -> cause
             [] status = "failed" -> "checkpoint_failed"
             [] status = "blocked" /\ res = "blocked" -> "origin_not_authorized"
             [] status = "blocked" /\ res = "failed" -> "authentication_verification_failed"
  IN /\ EndStep(obs, status, p, c,
                status = "blocked" \/ (status = "failed" /\ Current.kind = "follow_link"))
     /\ authentication' = IF Verifying /\ res = "passed" THEN "verified" ELSE authentication

\* The step returned a driver error.
StepError(obs, p, c) ==
  /\ EndStep(obs, p, p, c, TRUE)
  /\ UNCHANGED authentication

\* The step goes on to its next command.
Advance(next, obs) ==
  /\ pc' = next
  /\ observation' = obs
  /\ UNCHANGED <<inputs, verdict, index, hasNavigated, traceStarted, staged, expired,
                 authentication, steps, diagnostics, cleanup, written>>

\* The step's arm is done; only the trailing URL read is left.
Settle(obs, res) ==
  /\ Advance("trailing", obs)
  /\ result' = res
  /\ UNCHANGED capture

\* A URL read goes to observed_url, or to before_url in a link's preflight.
Seen(obs, url) ==
  IF pc = "act" /\ Current.kind = "follow_link"
    THEN [obs EXCEPT !.before = safe_url(url)]
    ELSE [obs EXCEPT !.observed = safe_url(url)]

(***************************************************************************)
(* finalize_focused_capture: the three artifacts are recorded one after    *)
(* the other, and the operation fails at the first that cannot be.         *)
(***************************************************************************)
Captured(obs, taken, clicked, n) ==
  [obs EXCEPT !.box = taken.box, !.shot = taken.shot, !.click = clicked,
              !.artifact = IF n = 3 THEN "focused" ELSE IF n = 0 THEN "none" ELSE "raw"]

KeepArtifacts(n) ==
  artifacts' = artifacts \cup {[kind |-> ArtifactKinds[k], step |-> index] : k \in 1 .. n}
-----------------------------------------------------------------------------
(* Preconditions and setup *)

Init ==
  /\ journey \in Journeys
  /\ opts \in CommandLines
  /\ pc = "preflight"
  /\ index = 1 /\ result = "none" /\ primary = "passed" /\ cause = "journey_passed"
  /\ hasNavigated = FALSE /\ traceStarted = FALSE
  /\ capture = NoCapture /\ observation = NoObservation
  /\ staged = FALSE /\ expired = FALSE /\ records = <<>>
  /\ performed = [i \in 1 .. MaxSteps |-> 0]
  /\ outcome = "error" /\ execution = "error" /\ reason = "run_incomplete"
  /\ authentication = "none"
  /\ steps = <<>> /\ artifacts = {} /\ diagnostics = FALSE
  /\ cleanup = "not_needed" /\ written = FALSE

\* The run ends before the driver exists.
EndEarly(verdictOutcome, code, next) ==
  /\ pc = "preflight"
  /\ pc' = next
  /\ primary' = verdictOutcome /\ cause' = code
  /\ outcome' = verdictOutcome /\ execution' = verdictOutcome /\ reason' = code
  /\ UNCHANGED <<inputs, stepVars, performed, traceStarted, staged,
                 expired, records, evidence, cleanup, written>>

RunDirectoryUnavailable ==
  /\ EndEarly("error", "run_directory_unavailable", "done")
  /\ UNCHANGED authentication

Refuse ==
  \E k \in DOMAIN GateOrder :
    /\ RefusedBy(k, journey, opts)
    /\ EndEarly(RefusalOutcome(GateOrder[k]), GateOrder[k], "write")
    /\ authentication' = RefusalStatus(GateOrder[k], journey)

\* No supported agent-browser, or its control files cannot be written.
DriverUnavailable ==
  /\ Admitted(journey, opts)
  /\ EndEarly("error", "driver_unavailable", "write")
  /\ authentication' = IF journey.schema = 4 THEN "blocked" ELSE "none"

Launch ==
  /\ pc = "preflight"
  /\ Admitted(journey, opts)
  /\ pc' = "prepare"
  /\ authentication' = IF journey.schema = 4 THEN "blocked" ELSE "none"
  /\ UNCHANGED <<inputs, verdict, stepVars, performed, traceStarted, staged, expired,
                 records, evidence, cleanup, written>>

\* Mutant: a failed setup is not turned into a verdict.
AbandonSetupSilently(p, c) ==
  /\ Conclude(primary, cause, FALSE)
  /\ UNCHANGED <<inputs, stepVars, performed, traceStarted, expired, evidence, cleanup, written>>

\* Mutant: a failed setup returns before the cleanup.
AbandonSetupUnclosed(p, c) ==
  /\ primary' = p /\ cause' = c
  /\ outcome' = p /\ execution' = p /\ reason' = c
  /\ pc' = "write"
  /\ UNCHANGED <<inputs, stepVars, performed, traceStarted, expired, evidence, cleanup, written>>

\* Setup gives up: no step is executed.
AbandonSetup(p, c) ==
  /\ Conclude(p, c, FALSE)
  /\ UNCHANGED <<inputs, stepVars, performed, traceStarted, expired, evidence, cleanup, written>>

ContinueSetup(next) ==
  /\ pc' = next
  /\ UNCHANGED <<inputs, verdict, stepVars, performed, expired, evidence, cleanup, written>>

Prepare ==
  /\ pc = "prepare"
  /\ Succeeds("set_viewport")
  /\ ContinueSetup(IF journey.schema = 4 THEN "stage" ELSE "trace_start")
  /\ UNCHANGED <<authentication, staged, traceStarted>>

SetupCommandFails ==
  /\ pc \in {"prepare", "trace_start"}
  /\ Errors(IF pc = "prepare" THEN "set_viewport" ELSE "trace_start")
  /\ AbandonSetup("error", "driver_error")
  /\ UNCHANGED <<authentication, staged>>

StageState ==
  /\ pc = "stage"
  /\ staged' = TRUE
  /\ ContinueSetup("load")
  /\ UNCHANGED <<authentication, records, traceStarted>>

StageFails ==
  /\ pc = "stage"
  /\ authentication' = "load_failed"
  /\ AbandonSetup("error", "authentication_state_load_failed")
  /\ UNCHANGED <<staged, records>>

\* Mutant: the private copy is left behind.
LoadStateKeepingCopy ==
  /\ pc = "load"
  /\ Succeeds("authentication_load")
  /\ ContinueSetup("trace_start")
  /\ UNCHANGED <<authentication, staged, traceStarted>>

\* The private copy is removed right after the load, whatever the load did.
LoadState ==
  /\ pc = "load"
  /\ Succeeds("authentication_load")
  /\ staged' = FALSE
  /\ ContinueSetup("trace_start")
  /\ UNCHANGED <<authentication, traceStarted>>

LoadOrRemovalFails ==
  /\ pc = "load"
  /\ Errors("authentication_load") \/ Succeeds("authentication_load")
  /\ staged' \in BOOLEAN
  /\ authentication' = "load_failed"
  /\ AbandonSetup("error", "authentication_state_load_failed")

StartTrace ==
  /\ pc = "trace_start"
  /\ Succeeds("trace_start")
  /\ traceStarted' = TRUE
  /\ StartStep(1, FALSE)
  /\ UNCHANGED <<inputs, verdict, performed, staged, expired, authentication, evidence,
                 cleanup, written>>
-----------------------------------------------------------------------------
(* Steps: what is common to several kinds of step *)

\* The pages the browser can be at: no other than the blank one before a navigation.
Shown == IF hasNavigated \/ Current.kind = "navigate" THEN Pages ELSE {Blank}

\* A command that reads the URL, or is answered by a page, inside the origin.
ReadsInside(url) ==
  /\ url \in Shown \cap Origin
  /\ Succeeds("current_url")

AnsweredInside(capability) ==
  /\ Shown \cap Origin # {}
  /\ Succeeds(capability)

\* A URL read shows a page outside the origin: the step is blocked.
UrlOutside ==
  /\ pc \in StepPoints /\ Command = "current_url"
  /\ Succeeds("current_url")
  /\ \E url \in Shown \ Origin : StepResult(Seen(observation, url), "blocked")
  /\ UNCHANGED <<performed, artifacts>>

\* An inspection was answered by a page outside the origin.
StrayInspection ==
  /\ pc \in StepPoints /\ Command \in PageInspections
  /\ Shown \ Origin # {}
  /\ Succeeds(Command)
  /\ StepError(observation, "blocked", "origin_not_authorized")
  /\ UNCHANGED <<performed, artifacts>>

\* A command fails for any other reason, and with it the step.
StepCommandFails ==
  /\ pc \in StepPoints \ {"click", "landed"}
  /\ Errors(Command)
  /\ StepError(observation, "error", "driver_error")
  /\ UNCHANGED <<performed, artifacts>>

\* The URL read before the step's own commands.
EntryInside ==
  /\ pc = "entry"
  /\ \E url \in Pages : ReadsInside(url) /\ Advance("act", Declare(Seen(observation, url), index))
  /\ UNCHANGED <<result, capture, performed, artifacts>>

\* The URL read that ends the step.
TrailingInside ==
  /\ pc = "trailing"
  /\ \E url \in Pages : ReadsInside(url) /\ StepResult(Seen(observation, url), result)
  /\ UNCHANGED <<performed, artifacts>>

\* The URL read after a target was found hidden.
HiddenInside ==
  /\ pc = "hidden"
  /\ \E url \in Pages : ReadsInside(url) /\ StepResult(Seen(observation, url), "failed")
  /\ UNCHANGED <<performed, artifacts>>
-----------------------------------------------------------------------------
(* Steps: navigate, check_url, check_text *)

Acting(kinds) == pc = "act" /\ Current.kind \in kinds

Navigate ==
  /\ Acting({"navigate"})
  /\ Succeeds("navigate")
  /\ Advance("arrived", observation)
  /\ UNCHANGED <<result, capture, performed, artifacts>>

\* The adapter blocked the navigation, or its response is outside the origin.
NavigationBlocked ==
  /\ Acting({"navigate"})
  /\ Permitted("navigate")
  /\ \E ok \in BOOLEAN : Record("navigate", ok)
  /\ StepResult(observation, "blocked")
  /\ UNCHANGED <<performed, artifacts>>

Arrive ==
  /\ pc = "arrived"
  /\ \E url \in Pages : ReadsInside(url) /\ Settle(Seen(observation, url), "passed")
  /\ UNCHANGED <<performed, artifacts>>

CheckUrl ==
  /\ Acting({"check_url"})
  /\ \E url \in Pages :
       /\ ReadsInside(url)
       /\ Settle([Seen(observation, url) EXCEPT !.matched = YesNo(url = Current.url)],
                 IF url = Current.url THEN "passed" ELSE "failed")
  /\ UNCHANGED <<performed, artifacts>>

\* Mutant: a hidden target fails the step at once.
LookForTargetOnce ==
  /\ Acting({"check_text", "capture"})
  /\ AnsweredInside("is_visible")
  /\ \/ /\ Advance(IF Current.kind = "capture" THEN "box" ELSE "text",
                   [observation EXCEPT !.visible = "yes"])
        /\ UNCHANGED <<result, capture>>
     \/ StepResult([observation EXCEPT !.visible = "no"], "failed")
  /\ UNCHANGED <<performed, artifacts>>

\* Shared by check_text and capture.
LookForTarget ==
  /\ Acting({"check_text", "capture"})
  /\ AnsweredInside("is_visible")
  /\ \E visible \in BOOLEAN :
       Advance(IF ~visible THEN "hidden" ELSE IF Current.kind = "capture" THEN "box" ELSE "text",
               [observation EXCEPT !.visible = YesNo(visible)])
  /\ UNCHANGED <<result, capture, performed, artifacts>>

CheckText ==
  /\ pc = "text"
  /\ AnsweredInside("text")
  /\ \E matched \in BOOLEAN :
       Settle([observation EXCEPT !.matched = YesNo(matched)],
              IF matched THEN "passed" ELSE "failed")
  /\ UNCHANGED <<performed, artifacts>>
-----------------------------------------------------------------------------
(* Steps: focused evidence *)

\* Mutant: the sequence is taken before the command.
BoundingBoxEarly ==
  /\ pc = "box"
  /\ Succeeds("bounding_box")
  /\ Advance("shot", observation)
  /\ capture' = [capture EXCEPT !.box = Len(records)]
  /\ UNCHANGED <<result, performed, artifacts>>

BoundingBox ==
  /\ pc = "box"
  /\ Succeeds("bounding_box")
  /\ Advance("shot", observation)
  /\ capture' = [capture EXCEPT !.box = Len(records')]
  /\ UNCHANGED <<result, performed, artifacts>>

\* The bundle the screenshot completes.
Taken == [capture EXCEPT !.shot = Len(records) + 1]

CaptureEvidence ==
  /\ pc = "shot" /\ Current.kind = "capture"
  /\ Succeeds("screenshot")
  /\ KeepArtifacts(3)
  /\ Settle(Captured(observation, Taken, 0, 3), "passed")
  /\ UNCHANGED performed

\* A capture or a link step cannot keep the evidence it has just taken.
EvidenceFails ==
  /\ pc = "shot"
  /\ Succeeds("screenshot")
  /\ Current.kind = "follow_link" => capture.href # Current.url
  /\ \E n \in 0 .. 2 :
       /\ KeepArtifacts(n)
       /\ StepError(Captured(observation, Taken, 0, n), "error", "driver_error")
  /\ UNCHANGED performed
-----------------------------------------------------------------------------
(* Steps: follow_link *)

LinkPreflight ==
  /\ Acting({"follow_link"})
  /\ \E url \in Pages : ReadsInside(url) /\ Advance("link_visible", Seen(observation, url))
  /\ UNCHANGED <<result, capture, performed, artifacts>>

Unmatched(obs) == [obs EXCEPT !.matched = "no"]

LinkVisible ==
  /\ pc = "link_visible"
  /\ AnsweredInside("is_visible")
  /\ \/ /\ Advance("link_enabled", [observation EXCEPT !.visible = "yes"])
        /\ UNCHANGED <<result, capture>>
     \/ StepResult(Unmatched([observation EXCEPT !.visible = "no"]), "failed")
  /\ UNCHANGED <<performed, artifacts>>

LinkEnabled ==
  /\ pc = "link_enabled"
  /\ AnsweredInside("is_enabled")
  /\ \/ /\ Advance("link_href", [observation EXCEPT !.enabled = "yes"])
        /\ UNCHANGED <<result, capture>>
     \/ StepResult(Unmatched([observation EXCEPT !.enabled = "no"]), "failed")
  /\ UNCHANGED <<performed, artifacts>>

\* The href is absent, unusable, or resolves to some page.
LinkHref ==
  /\ pc = "link_href"
  /\ AnsweredInside("get_attribute")
  /\ \/ StepResult(Unmatched(observation), "failed")
     \/ \E href \in Pages :
          /\ Advance("box", [observation EXCEPT !.href = safe_url(href)])
          /\ capture' = [NoCapture EXCEPT !.href = href]
          /\ UNCHANGED result
  /\ UNCHANGED <<performed, artifacts>>

\* The link leads elsewhere: it is photographed and not clicked.
LinkRefused ==
  /\ pc = "shot" /\ Current.kind = "follow_link"
  /\ capture.href # Current.url
  /\ Succeeds("screenshot")
  /\ KeepArtifacts(3)
  /\ LET seen == Captured(observation, Taken, 0, 3) IN
     \/ capture.href \notin Exact /\ StepResult(seen, "blocked")
     \/ capture.href \in Exact /\ StepResult(Unmatched(seen), "failed")
  /\ UNCHANGED performed

LinkReady ==
  /\ pc = "shot" /\ Current.kind = "follow_link"
  /\ capture.href = Current.url
  /\ Succeeds("screenshot")
  /\ Advance("click", observation)
  /\ capture' = Taken
  /\ UNCHANGED <<result, performed, artifacts>>

\* The browser performs the click.
Performed == performed' = [performed EXCEPT ![index] = @ + 1]

Acknowledge(clicked, n) ==
  [Captured(observation, capture, clicked, n) EXCEPT !.action = "driver_acknowledged"]

\* Mutant: a timed-out click is reported as not attempted.
UnknownUnset(clicked, n) == Captured(observation, capture, clicked, n)

Unknown(clicked, n) ==
  [Captured(observation, capture, clicked, n) EXCEPT !.action = "effect_unknown"]

\* The click is acknowledged and its evidence kept, or it is not.
Click ==
  /\ pc = "click"
  /\ Succeeds("click")
  /\ Performed
  /\ \E n \in 0 .. 3 :
       /\ KeepArtifacts(n)
       /\ \/ /\ n = 3
             /\ Advance("landed", Acknowledge(Len(records'), 3))
             /\ UNCHANGED <<result, capture>>
          \/ /\ n < 3
             /\ StepError(Unknown(Len(records'), n), "error", "action_effect_unknown")

\* The adapter demands a confirmation nobody can give: nothing was clicked.
ClickNeedsConfirmation ==
  /\ pc = "click"
  /\ Permitted("click") /\ Record("click", FALSE)
  /\ \E n \in 0 .. 3 :
       /\ KeepArtifacts(n)
       /\ \/ /\ n = 3
             /\ StepError(Captured(observation, capture, Len(records'), 3),
                          "error", "driver_confirmation_required")
          \/ /\ n < 3
             /\ StepError(Unknown(Len(records'), n), "error", "action_effect_unknown")
  /\ UNCHANGED performed

\* Mutant: a click that timed out is issued again.
ClickRetried ==
  /\ pc = "click"
  /\ Permitted("click") /\ Record("click", FALSE)
  /\ Performed
  /\ UNCHANGED <<inputs, pc, stepVars, verdict, traceStarted, staged, expired,
                 authentication, evidence, cleanup, written>>

(***************************************************************************)
(* The click fails.  Without a record the command may not have been        *)
(* issued, after the deadline it was not; otherwise it may have been       *)
(* performed.                                                              *)
(***************************************************************************)
ClickFails ==
  /\ pc = "click"
  /\ Errors("click")
  /\ (Permitted("click") /\ Performed) \/ UNCHANGED performed
  /\ \E n \in 0 .. 3 :
       /\ KeepArtifacts(n)
       /\ StepError(Unknown(IF records' = records THEN 0 ELSE Len(records'), n),
                    "error", "action_effect_unknown")

Landed ==
  /\ pc = "landed"
  /\ \E url \in Pages :
       /\ ReadsInside(url)
       /\ LET seen == Seen(observation, url) IN
          \/ /\ url = Current.url
             /\ Settle([seen EXCEPT !.matched = "yes", !.action = "effect_verified"], "passed")
          \/ /\ url # Current.url
             /\ Settle(Unmatched(seen), "failed")
  /\ UNCHANGED <<performed, artifacts>>

LandingUnknown ==
  /\ pc = "landed"
  /\ Errors("current_url")
  /\ StepError([observation EXCEPT !.action = "effect_unknown"],
               "error", "action_effect_unknown")
  /\ UNCHANGED <<performed, artifacts>>
-----------------------------------------------------------------------------
(* Evidence, cleanup and the report *)

\* Mutant: an evidence failure is only logged.
OverrideForgotten(code) == code \in Overrides /\ UNCHANGED <<outcome, reason>>

\* Nothing after the execution changes its outcome; a failure overrides the report's.
Override(code) == outcome' = "error" /\ reason' = code

Closing(next) ==
  /\ pc' = next
  /\ UNCHANGED <<inputs, stepVars, primary, cause, execution, traceStarted, staged,
                 expired, authentication, steps>>

Console ==
  /\ pc = "console"
  /\ Succeeds("console")
  /\ Closing("page_errors")
  /\ UNCHANGED <<performed, outcome, reason, artifacts, diagnostics, cleanup, written>>

PageErrors ==
  /\ pc = "page_errors"
  /\ Succeeds("page_errors")
  /\ diagnostics' = TRUE
  /\ Closing("trace_stop")
  /\ UNCHANGED <<performed, outcome, reason, artifacts, cleanup, written>>

\* Neither response is looked at before both commands have succeeded.
DiagnosticsFail ==
  /\ pc \in {"console", "page_errors"}
  /\ Fails(pc) \/ (pc = "page_errors" /\ Succeeds(pc))
  /\ Override("diagnostics_failed")
  /\ Closing("trace_stop")
  /\ UNCHANGED <<performed, artifacts, diagnostics, cleanup, written>>

StopTrace ==
  /\ pc = "trace_stop"
  /\ Succeeds("trace_stop")
  /\ artifacts' = artifacts \cup {TraceArtifact}
  /\ Closing("close")
  /\ UNCHANGED <<performed, outcome, reason, diagnostics, cleanup, written>>

StopTraceFails ==
  /\ pc = "trace_stop"
  /\ \/ Errors("trace_stop") /\ Override("trace_finalization_failed")
     \/ Succeeds("trace_stop") /\ Override("trace_artifact_invalid")
  /\ Closing("close")
  /\ UNCHANGED <<performed, artifacts, diagnostics, cleanup, written>>

CloseSession ==
  /\ pc = "close"
  /\ Succeeds("close")
  /\ cleanup' = "passed"
  /\ Closing("write")
  /\ UNCHANGED <<performed, outcome, reason, artifacts, diagnostics, written>>

CloseFails ==
  /\ pc = "close"
  /\ Errors("close")
  /\ cleanup' = "failed"
  /\ Override("cleanup_failed")
  /\ Closing("write")
  /\ UNCHANGED <<performed, artifacts, diagnostics, written>>

WriteReport ==
  /\ pc = "write"
  /\ written' = TRUE
  /\ Closing("done")
  /\ UNCHANGED <<performed, outcome, reason, records, artifacts, diagnostics, cleanup>>

WriteReportFails ==
  /\ pc = "write"
  /\ Override("report_write_failed")
  /\ Closing("done")
  /\ UNCHANGED <<performed, records, artifacts, diagnostics, cleanup, written>>
-----------------------------------------------------------------------------
(* The environment *)

\* After the steps the deadline stops nothing.
DeadlinePasses ==
  /\ pc \in SetupPoints \cup StepPoints
  /\ ~expired
  /\ expired' = TRUE
  /\ UNCHANGED <<inputs, pc, stepVars, verdict, traceStarted, staged, performed, records,
                 authentication, evidence, cleanup, written>>

SetupStep ==
  \/ RunDirectoryUnavailable \/ Refuse \/ DriverUnavailable \/ Launch \/ Prepare
  \/ SetupCommandFails \/ StageState \/ StageFails \/ LoadState \/ LoadOrRemovalFails
  \/ StartTrace

JourneyStep ==
  \/ UrlOutside \/ StrayInspection \/ StepCommandFails \/ EntryInside \/ TrailingInside
  \/ HiddenInside \/ Navigate \/ NavigationBlocked \/ Arrive \/ CheckUrl \/ LookForTarget
  \/ CheckText \/ BoundingBox \/ CaptureEvidence \/ EvidenceFails \/ LinkPreflight
  \/ LinkVisible \/ LinkEnabled \/ LinkHref \/ LinkRefused \/ LinkReady \/ Click
  \/ ClickNeedsConfirmation \/ ClickFails \/ Landed \/ LandingUnknown

ClosingStep ==
  \/ Console \/ PageErrors \/ DiagnosticsFail \/ StopTrace \/ StopTraceFails
  \/ CloseSession \/ CloseFails \/ WriteReport \/ WriteReportFails

RunStep == SetupStep \/ JourneyStep \/ ClosingStep

Next == RunStep \/ DeadlinePasses

(***************************************************************************)
(* The runner is one thread and every driver command is bounded by a       *)
(* timeout, so it always takes its next step.  The deadline owes nothing: a *)
(* run may end before it.                                                  *)
(***************************************************************************)
Spec == Init /\ [][Next]_vars /\ WF_vars(RunStep)
=============================================================================
