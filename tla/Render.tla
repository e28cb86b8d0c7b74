------------------------------- MODULE Render --------------------------------
(***************************************************************************)
(* The renderer (src/render.rs) as a decision over a run report r, the     *)
(* journey document j it is given, and whether the artifacts are still     *)
(* what the report says (kept).  A report that passes every check is       *)
(* turned into a guide, into findings, or into a reason for neither.       *)
(***************************************************************************)
EXTENDS Report

Completed(r) == r.execution \in {"passed", "failed"}

Evidence(j) == IndexesOf(j, Evidential)

Focused(r, i) == [kind |-> "focused_screenshot", step |-> i] \in r.artifacts
-----------------------------------------------------------------------------
(* The report against itself and against the journey *)

\* cleanup.attempted is cleanup # "not_needed".
ValidOutcomes(r) ==
  CASE r.outcome = "passed" ->
         r.execution = "passed" /\ r.reason = "journey_passed" /\ r.cause = r.reason
    [] r.outcome = "failed" ->
         r.execution = "failed" /\ r.reason = "checkpoint_failed" /\ r.cause = r.reason
    [] r.outcome = "blocked" -> r.execution = "blocked" /\ r.cause = r.reason
    [] OTHER -> TRUE

\* Mutant: the digest of the journey document is not compared.
AnySource(r, j) == r.identified /\ Len(r.journey.steps) = Len(j.steps)

\* The report names the document it was given, by its digest.
SameSource(r, j) == r.identified /\ r.journey = j

\* An authorization is on record exactly from schema 3 on.
ValidAuthorization(r, j) ==
  j.schema >= 3 =>
    /\ r.required = Required(j)
    /\ r.commands # <<>> => r.granted = Required(j)

ReasonStatus(code) ==
  CASE code = "authentication_state_missing" -> "missing"
    [] code = "authentication_provider_unsupported" -> "unsupported"
    [] code = "authentication_state_invalid" -> "invalid"
    [] code = "authentication_state_load_failed" -> "load_failed"
    [] code = "authentication_verification_failed" -> "blocked"
    [] OTHER -> "none"

Count(r, capability) == Cardinality({k \in DOMAIN r.commands : r.commands[k].capability = capability})

\* The state is loaded by the second command, once, and before any step.
ValidLoad(r, verified) ==
  LET loads == {k \in DOMAIN r.commands : r.commands[k].capability = "authentication_load"} IN
  /\ loads \subseteq {2}
  /\ (r.steps = <<>> /\ ~verified) \/ (loads = {2} /\ r.commands[2].ok)
  /\ r.authentication \in {"missing", "unsupported", "invalid"} => r.commands = <<>>
  /\ r.authentication = "load_failed" => r.steps = <<>>

ValidAuthenticationReport(r, j) ==
  LET verified == j.auth.verify \in DOMAIN r.steps /\ r.steps[j.auth.verify].status = "passed"
      expected == IF verified THEN "verified"
                  ELSE IF ReasonStatus(r.cause) # "none" THEN ReasonStatus(r.cause) ELSE "blocked"
  IN IF j.schema # 4 THEN r.authentication = "none"
     ELSE /\ r.authentication = expected
          /\ ReasonStatus(r.reason) \in {"none", r.authentication}
          /\ ValidLoad(r, verified)

\* The guide never prints a query or a fragment, whatever the schema allows.
RenderableJourney(j) ==
  \A i \in DOMAIN j.steps :
    j.steps[i].kind \in {"navigate", "check_url", "follow_link"} => j.steps[i].url \in Exact
-----------------------------------------------------------------------------
(* The steps *)

CompleteSteps(r, j) ==
  Completed(r) =>
    /\ r.diagnostics
    /\ \/ Len(r.steps) = Len(j.steps)
       \/ /\ r.execution = "failed" /\ r.steps # <<>>
          /\ Len(r.steps) < Len(j.steps)
          /\ r.steps[Len(r.steps)].status = "failed"
          /\ j.steps[Len(r.steps)].kind = "follow_link"

Shots(obs) == obs.artifact # "none" /\ obs.box # 0 /\ obs.shot = obs.box + 1

ValidCheckText(status, obs) ==
  CASE status = "passed" -> obs.visible = "yes" /\ obs.matched = "yes"
    [] status = "failed" -> <<obs.visible, obs.matched>> \in {<<"no", "none">>, <<"yes", "no">>}
    [] OTHER -> TRUE

ValidFollowLink(status, obs) ==
  CASE status = "passed" ->
         /\ obs.visible = "yes" /\ obs.enabled = "yes" /\ obs.matched = "yes"
         /\ obs.action = "effect_verified" /\ obs.click # 0
         /\ obs.before # NoPage /\ obs.href = obs.expected
         /\ Shots(obs)
    [] status = "failed" ->
         /\ obs.matched = "no"
         /\ (obs.visible = "no" /\ obs.enabled = "none") \/ (obs.visible = "yes" /\ obs.enabled # "none")
         /\ obs.action \in {"not_attempted", "driver_acknowledged"}
    [] OTHER -> TRUE

ValidObservation(step, declared) ==
  LET obs == step.obs
      done == step.status \in {"passed", "failed"}
  IN /\ done => obs.observed \in Exact
     /\ declared.kind \in {"navigate", "check_url", "follow_link"} =>
          obs.expected = Bare[declared.url]
     /\ declared.kind = "check_url" /\ done =>
          obs.matched = IF step.status = "passed" THEN "yes" ELSE "no"
     /\ declared.kind = "check_text" => ValidCheckText(step.status, obs)
     /\ declared.kind = "follow_link" => ValidFollowLink(step.status, obs)
     /\ declared.kind = "capture" /\ step.status = "passed" => obs.visible = "yes" /\ Shots(obs)

ValidSteps(r, j) ==
  /\ Len(r.steps) <= Len(j.steps)
  /\ \A i \in DOMAIN r.steps : ValidObservation(r.steps[i], j.steps[i])
  /\ r.outcome = "passed" => \A i \in DOMAIN r.steps : r.steps[i].status = "passed"
  /\ r.execution = "failed" => /\ \E i \in DOMAIN r.steps : r.steps[i].status = "failed"
                               /\ r.cause = "checkpoint_failed"

\* The commands of a completed run: the lifecycle at both ends, one command for each
\* thing a step observed, and the evidence of a step adjacent to its click.
ValidCompletedDriver(r, j) ==
  LET n == Len(r.commands)
      At(k) == r.commands[k].capability
      offset == IF j.schema = 4 THEN 1 ELSE 0
      Executed(P(_)) == Cardinality({i \in DOMAIN r.steps : P(i)})
      shot == {i \in DOMAIN r.steps : r.steps[i].obs.box # 0}
  IN /\ n >= 6 + offset
     /\ At(1) = "set_viewport"
     /\ j.schema = 4 => At(2) = "authentication_load"
     /\ At(2 + offset) = "trace_start"
     /\ <<At(n - 3), At(n - 2), At(n - 1), At(n)>> = <<"console", "page_errors", "trace_stop", "close">>
     /\ \A k \in 1 .. n : r.commands[k].ok
     /\ \A c \in {"set_viewport", "trace_start", "console", "page_errors", "trace_stop", "close"} :
          Count(r, c) = 1
     /\ Count(r, "authentication_load") = offset
     /\ Count(r, "navigate") = Executed(LAMBDA i : j.steps[i].kind = "navigate")
     /\ Count(r, "is_visible") = Executed(LAMBDA i : r.steps[i].obs.visible # "none")
     /\ Count(r, "is_enabled") = Executed(LAMBDA i : r.steps[i].obs.enabled # "none")
     /\ Count(r, "get_attribute") =
          Executed(LAMBDA i : j.steps[i].kind = "follow_link" /\ r.steps[i].obs.enabled = "yes")
     /\ Count(r, "text") =
          Executed(LAMBDA i : j.steps[i].kind = "check_text" /\ r.steps[i].obs.visible = "yes")
     /\ Count(r, "click") = Executed(LAMBDA i : r.steps[i].obs.click # 0)
     /\ Count(r, "bounding_box") = Cardinality(shot)
     /\ Count(r, "screenshot") = Cardinality(shot)
     /\ Count(r, "current_url") >= Len(r.steps)
     /\ \A i \in shot :
          LET obs == r.steps[i].obs IN
          /\ {obs.box, obs.shot} \subseteq 1 .. n
          /\ At(obs.box) = "bounding_box" /\ At(obs.shot) = "screenshot"
          /\ obs.click # 0 => obs.click \in 1 .. n /\ At(obs.click) = "click" /\ obs.click = obs.shot + 1
-----------------------------------------------------------------------------
(* The artifacts *)

\* Every focused step has its image and its metadata, and what a step names exists.
ArtifactsPresent(r, j) ==
  \A i \in DOMAIN r.steps :
    LET obs == r.steps[i].obs IN
    /\ i \in Evidence(j) /\ obs.box # 0 =>
         /\ Focused(r, i) /\ obs.artifact = "focused"
         /\ [kind |-> "focus_metadata", step |-> i] \in r.artifacts
    /\ obs.artifact # "none" => [kind |-> "raw_screenshot", step |-> i] \in r.artifacts

TracePresent(r) == Completed(r) => TraceArtifact \in r.artifacts
-----------------------------------------------------------------------------
(* The decision *)

\* The checks, in the order the renderer makes them; the first that fails is its error.
Accepted(r, j, kept) ==
  /\ ValidOutcomes(r)
  /\ ValidJourney(j)
  /\ SameSource(r, j)
  /\ ValidAuthorization(r, j)
  /\ ValidAuthenticationReport(r, j)
  /\ RenderableJourney(j)
  /\ CompleteSteps(r, j)
  /\ ValidSteps(r, j)
  /\ r.outcome = r.execution /\ Completed(r) => ValidCompletedDriver(r, j)
  /\ kept
  /\ ArtifactsPresent(r, j)
  /\ TracePresent(r)

Unclean(r) ==
  \/ r.cleanup = "failed"
  \/ /\ r.outcome \in {"passed", "failed"}
     /\ (r.outcome # r.execution \/ r.cleanup # "passed")

Guided(j) == {i \in DOMAIN j.steps : j.steps[i].guide}

\* A guide instruction stands on passed focused evidence, and a link's on its verified effect.
Publishable(r, j, i) ==
  /\ i \in Evidence(j) /\ i \in DOMAIN r.steps
  /\ j.steps[i].kind = "follow_link" => r.steps[i].obs.action = "effect_verified"
  /\ r.steps[i].status = "passed"

GuideDecision(r, j) ==
  CASE Guided(j) = {} -> [status |-> "not_publishable", code |-> "guide_steps_missing"]
    [] \E i \in Guided(j) : ~Publishable(r, j, i) ->
         [status |-> "not_publishable", code |-> "guide_step_unverified"]
    [] OTHER -> [status |-> "guide_ready", code |-> "guide_rendered"]

FindingsDecision(r, j) ==
  IF \E i \in DOMAIN r.steps :
       /\ r.steps[i].status # "passed"
       /\ ~(r.steps[i].status = "failed" /\ j.steps[i].kind \in Checkpoints \cup Interactive)
    THEN [status |-> "error", code |-> "run_incomplete"]
    ELSE [status |-> "findings_ready", code |-> "findings_rendered"]

\* The decision over an accepted report; this is what goes into render/.
Decision(r, j) ==
  CASE Unclean(r) -> [status |-> "error",
                      code |-> IF r.cleanup = "failed" THEN "cleanup_failed" ELSE "run_incomplete"]
    [] ~Unclean(r) /\ r.outcome = "passed" -> GuideDecision(r, j)
    [] ~Unclean(r) /\ r.outcome = "failed" -> FindingsDecision(r, j)
    [] ~Unclean(r) /\ r.outcome = "blocked" -> [status |-> "not_publishable", code |-> "run_blocked"]
    [] ~Unclean(r) /\ r.outcome = "error" -> [status |-> "error", code |-> "run_error"]

DecisionStatuses == {"guide_ready", "findings_ready", "not_publishable", "error"}
=============================================================================
