------------------------------- MODULE Report --------------------------------
(***************************************************************************)
(* The run report, as the runner writes it and the renderer reads it.      *)
(***************************************************************************)
EXTENDS Preflight

CONSTANTS
  Bare,     \* a URL of the origin without its query and fragment
  Redacted  \* what a report says of a URL outside the origin

ASSUME ReportedAssumption ==
  /\ Bare \in [Origin -> Exact]
  /\ \A url \in Exact : Bare[url] = url
  /\ Redacted \notin Pages \cup {NoPage}

\* Mutant: the query of a URL is reported.
raw_url(url) == IF url \in Origin THEN url ELSE Redacted

\* What a report says of a URL.
safe_url(url) == IF url \in Origin THEN Bare[url] ELSE Redacted

Reported == Exact \cup {Redacted, NoPage}

Outcomes == {"passed", "failed", "blocked", "error"}

AuthenticationStatus == {"none", "blocked", "missing", "unsupported", "invalid",
                         "load_failed", "verified"}

ActionStates == {"none", "not_attempted", "driver_acknowledged", "effect_verified",
                 "effect_unknown"}

CleanupStatus == {"not_needed", "passed", "failed"}

Tri == {"none", "yes", "no"}

(***************************************************************************)
(* What a step observed.  box, shot and click are command sequences, 0 for *)
(* none.  A text digest is present exactly when matched is, in a text      *)
(* check; the capture token is made of the three sequences and adds        *)
(* nothing to them.                                                        *)
(***************************************************************************)
Observation == [expected : Reported, observed : Reported, before : Reported,
                href : Reported, visible : Tri, enabled : Tri, matched : Tri,
                action : ActionStates, box : Nat, shot : Nat, click : Nat,
                artifact : {"none", "raw", "focused"}]

NoObservation == [expected |-> NoPage, observed |-> NoPage, before |-> NoPage,
                  href |-> NoPage, visible |-> "none", enabled |-> "none",
                  matched |-> "none", action |-> "none", box |-> 0, shot |-> 0,
                  click |-> 0, artifact |-> "none"]

StepRecord == [status : Outcomes, obs : Observation]

\* The three artifacts of a focused capture, in the order they are recorded.
ArtifactKinds == <<"raw_screenshot", "focused_screenshot", "focus_metadata">>

Artifact == [kind : {"raw_screenshot", "focused_screenshot", "focus_metadata", "trace"},
             step : 0 .. MaxSteps]

TraceArtifact == [kind |-> "trace", step |-> 0]

StepCapabilities == {"navigate", "current_url", "is_visible", "is_enabled",
                     "get_attribute", "text", "bounding_box", "screenshot", "click"}

Capabilities == {"set_viewport", "authentication_load", "trace_start"}
                  \cup StepCapabilities
                  \cup {"console", "page_errors", "trace_stop", "close"}

CommandRecord == [capability : Capabilities, ok : BOOLEAN]
=============================================================================
