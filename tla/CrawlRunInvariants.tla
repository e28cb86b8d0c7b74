-------------------------- MODULE CrawlRunInvariants --------------------------
(***************************************************************************)
(* The inductive invariants behind the theorems about a run: what is true  *)
(* between any two commands, from which the properties of CrawlRunProps    *)
(* follow.  Each group rests on the ones before it.                        *)
(***************************************************************************)
EXTENDS CrawlRunProps

Underway == {"preflight"} \cup SetupPoints \cup StepPoints

Ended == ClosingPoints \cup {"write", "done"}
-----------------------------------------------------------------------------
(* The verdict: what the steps so far have made of it *)

\* A step that neither blocked nor broke the run lets it go on.
StepsGoOn == pc \in StepPoints => \A i \in DOMAIN steps : steps[i].status \in {"passed", "failed"}

FailedSoFar == \E i \in DOMAIN steps : steps[i].status = "failed"

\* While the run goes on its outcome is that of the steps so far.
VerdictSoFar ==
  pc \in Underway =>
    /\ primary = IF FailedSoFar THEN "failed" ELSE "passed"
    /\ cause = IF FailedSoFar THEN "checkpoint_failed" ELSE "journey_passed"

\* The verdict on the execution is the outcome at its end; a blocked run is not looked at again.
VerdictKept ==
  /\ pc \in Ended => primary = execution
  /\ pc \in {"console", "page_errors"} => primary # "blocked"

VerdictInv == StepsGoOn /\ VerdictSoFar /\ VerdictKept /\ VerdictExplained
-----------------------------------------------------------------------------
(* The session: what has been opened, staged and closed *)

\* Nothing has been driven before the driver was launched.
Unopened == pc = "preflight" => records = <<>> /\ authentication = "none"

\* No command has closed a session that is still in use.
StillOpen == pc \notin {"write", "done"} => Issued("close") = {} /\ cleanup = "not_needed"

\* Only the run of a sign-in journey stages its state, and only for the load.
StagedForLoad ==
  /\ pc \in {"stage", "load"} => journey.schema = 4
  /\ pc \in {"preflight", "prepare", "stage", "trace_start"} \cup StepPoints => ~staged

\* Steps are executed, and evidence is collected, under a trace.
Traced ==
  /\ pc \in {"preflight"} \cup SetupPoints => ~traceStarted
  /\ pc \in StepPoints \cup {"console", "page_errors", "trace_stop"} => traceStarted

SessionInv == Unopened /\ StillOpen /\ StagedForLoad /\ Traced /\ CleanupCompulsory /\ CopyConfined

\* What is known of a run before the story of its steps.
Outline == Inductive /\ SessionInv /\ VerdictInv
-----------------------------------------------------------------------------
(* The step being executed *)

LinkOnly == {"link_visible", "link_enabled", "link_href", "click", "landed"}

\* The points the run gets to only in steps of some kind.
KindOfPoint ==
  /\ pc = "arrived" => Current.kind = "navigate"
  /\ pc = "text" => Current.kind = "check_text"
  /\ pc = "hidden" => Current.kind \in {"check_text", "capture"}
  /\ pc \in {"box", "shot"} => Current.kind \in Evidential
  /\ pc \in LinkOnly => Current.kind = "follow_link"

\* The step is past the reading of its link.
OnLink(points) == pc \in points \/ (pc \in {"box", "shot"} /\ Current.kind = "follow_link")

\* A link is read on a page the run has navigated to, and a page is known from the first
\* URL read of a step on.
PageKnown ==
  /\ OnLink(LinkOnly) => hasNavigated
  /\ pc \in StepPoints \ {"entry"} /\ hasNavigated => observation.observed \in Exact

\* What the run has read of a link before it takes its picture and clicks it.
LinkRead ==
  /\ OnLink(LinkOnly \ {"link_visible"}) => observation.visible = "yes"
  /\ OnLink({"click", "landed"}) \/ pc = "link_href" => observation.enabled = "yes"
  /\ OnLink({"click", "landed"}) => observation.href = safe_url(capture.href)
  /\ pc \in {"click", "landed"} => capture.href = Current.url

\* A picture is taken right after its bounding box, a click right after the picture.
ShotAfterBox ==
  /\ pc \in {"shot", "click"} => /\ capture.box \in Issued("bounding_box")
  /\ pc = "shot" => capture.box = Len(records)
  /\ pc = "click" => /\ capture.shot = Len(records) /\ capture.shot \in Issued("screenshot")
                     /\ capture.shot = capture.box + 1

\* No step has evidence before its picture, or an effect before its click.
NothingShown ==
  pc \in StepPoints \ {"landed", "trailing"} =>
    /\ observation.shot = 0 /\ observation.click = 0 /\ observation.artifact = "none"
    /\ observation.action \in {"none", "not_attempted"}

\* What a step's observation says of its evidence, its click and its link is so.
EvidenceTold(i, obs) ==
  /\ obs.shot # 0 => /\ obs.shot = obs.box + 1
                     /\ obs.box \in Issued("bounding_box")
                     /\ obs.shot \in Issued("screenshot")
  /\ obs.click # 0 => obs.click = obs.shot + 1 /\ obs.click \in Issued("click")
  /\ obs.artifact = "focused" =>
       \A k \in DOMAIN ArtifactKinds : [kind |-> ArtifactKinds[k], step |-> i] \in artifacts

ActionTold(i, obs) ==
  /\ obs.action \in {"none", "not_attempted"} => performed[i] = 0
  /\ obs.action \in {"driver_acknowledged", "effect_verified"} => performed[i] = 1
  /\ obs.action = "effect_verified" => obs.matched = "yes" /\ obs.artifact = "focused"

LinkTold(i, obs) ==
  performed[i] > 0 =>
    obs.href = journey.steps[i].url /\ obs.visible = "yes" /\ obs.enabled = "yes"

Truthful(i, obs) == EvidenceTold(i, obs) /\ ActionTold(i, obs) /\ LinkTold(i, obs)

\* A step past its click, or past its last inspection, tells the truth; its result is
\* one its kind can have.
StepTold ==
  /\ pc \in {"landed", "trailing"} => Truthful(index, observation)
  /\ pc = "landed" => observation.action = "driver_acknowledged" /\ observation.artifact = "focused"
  /\ pc = "trailing" =>
       /\ Current.kind = "navigate" => result = "passed"
       /\ Current.kind = "follow_link" /\ result = "passed" => observation.action = "effect_verified"

CurrentInv == KindOfPoint /\ PageKnown /\ LinkRead /\ ShotAfterBox /\ NothingShown /\ StepTold
-----------------------------------------------------------------------------
(* The steps reported so far *)

\* A recorded step tells the truth, and its status is one it can have.
RecordTold(i) ==
  LET step == steps[i] IN
  /\ Truthful(i, step.obs)
  /\ step.status \in {"passed", "failed"} => step.obs.observed \in Exact
  /\ journey.steps[i].kind = "navigate" => step.status # "failed"
  /\ journey.steps[i].kind = "follow_link" /\ step.status = "passed" =>
       step.obs.action = "effect_verified"

RecordsTold == \A i \in DOMAIN steps : i \in DOMAIN journey.steps /\ RecordTold(i)

\* Every click was made right after the picture of what it clicked.
ClicksDocumented ==
  \A k \in Issued("click") : k - 1 \in Issued("screenshot") /\ k - 2 \in Issued("bounding_box")

\* The run of a sign-in journey is past its verification only if that has passed.
PastVerification ==
  pc \in StepPoints /\ journey.schema = 4 /\ index > journey.auth.verify =>
    authentication = "verified"

\* No sign-in is verified before the first step.
Unverified == pc \in {"preflight"} \cup SetupPoints => authentication # "verified"

\* A click was made for a link the operator had authorized, after the sign-in and with every
\* earlier step completed.
Licensed(i) ==
  /\ i \in Links
  /\ opts.origin = "match" /\ opts.grants.wellFormed /\ opts.grants.named = Links
  /\ journey.schema = 4 => authentication = "verified"
  /\ \A k \in 1 .. i - 1 : k \in DOMAIN steps /\ steps[k].status \in {"passed", "failed"}

ClicksLicensed == \A i \in 1 .. MaxSteps : performed[i] > 0 => Licensed(i)

\* Once the steps are over each click belongs to a recorded step.
ClicksRecorded ==
  pc \notin StepPoints => \A i \in 1 .. MaxSteps : performed[i] > 0 => i \in DOMAIN steps

StoryInv ==
  /\ RecordsTold /\ ClicksDocumented /\ PastVerification /\ Unverified
  /\ ClicksLicensed /\ ClicksRecorded /\ VerifiedFirst

\* What is known of a run and of its steps.
Story == Outline /\ CurrentInv /\ StoryInv
-----------------------------------------------------------------------------
(* A run that may still pass *)

AllOk == \A k \in DOMAIN records : records[k].ok

Clean == outcome \in {"passed", "failed"}

\* No command has failed in a run that has not been ended by it.
CommandsOk == pc \in Underway \/ (pc \in Ended /\ Clean) => AllOk

\* A report is that of its execution, or an error.
OutcomeKept == pc \in Ended => outcome \in {execution, "error"}

\* A run that passes or fails leaves its evidence behind and closes its session.
ClosedInOrder ==
  pc \in Ended /\ Clean =>
    /\ pc # "close" \/ traceStarted
    /\ pc \notin {"console", "page_errors"} => diagnostics
    /\ pc \in {"close", "write", "done"} => TraceArtifact \in artifacts
    /\ pc \in {"write", "done"} => cleanup = "passed"
    /\ pc = "done" => written

\* An execution that passed has executed every step, and clicked every link.
AllPassed ==
  pc \in Ended /\ execution = "passed" =>
    /\ steps # <<>> /\ DOMAIN steps = DOMAIN journey.steps
    /\ \A i \in DOMAIN steps : steps[i].status = "passed"
    /\ journey.schema = 4 => authentication = "verified"

EarnedInv == CommandsOk /\ OutcomeKept /\ ClosedInOrder /\ AllPassed
-----------------------------------------------------------------------------
(* A report its renderer accepts *)

\* The steps are under way, or over in a run that may still pass or fail.
Live == pc \in StepPoints \/ (pc \in Ended /\ Clean)

\* Where the commands of the setup are: they come first, each once.
Offset == IF journey.schema = 4 THEN 1 ELSE 0

SetupIssued ==
  /\ pc \in SetupPoints =>
       /\ \A c \in StepCapabilities \cup ClosingPoints \cup {"trace_start"} : Issued(c) = {}
       /\ Len(records) = CASE pc = "prepare" -> 0 [] pc = "trace_start" -> 1 + Offset [] OTHER -> 1
  /\ pc \in SetupPoints \ {"prepare"} \/ Live => Issued("set_viewport") = {1}
  /\ pc = "trace_start" \/ Live =>
       Issued("authentication_load") = IF journey.schema = 4 THEN {2} ELSE {}
  /\ Live => Issued("trace_start") = {2 + Offset} /\ Len(records) >= 2 + Offset

\* Where the commands of the closing are: they come last, each once, in this order.
ClosingOrder == <<"console", "page_errors", "trace_stop", "close">>

ClosingDone ==
  CASE pc = "page_errors" -> 1 [] pc = "trace_stop" -> 2 [] pc = "close" -> 3
    [] pc \in {"write", "done"} -> 4 [] OTHER -> 0

ClosingIssued ==
  Live => \A k \in 1 .. 4 :
    Issued(ClosingOrder[k]) = IF k <= ClosingDone THEN {Len(records) - ClosingDone + k} ELSE {}

\* The commands a step of some kind has issued once and no more, by what it has observed.
Counted == StepCapabilities \ {"current_url"}

Owes(c, kind, obs) ==
  CASE c = "navigate" -> kind = "navigate"
    [] c = "is_visible" -> obs.visible # "none"
    [] c = "is_enabled" -> obs.enabled # "none"
    [] c = "get_attribute" -> kind = "follow_link" /\ obs.enabled = "yes"
    [] c = "text" -> kind = "check_text" /\ obs.visible = "yes"
    [] c = "click" -> obs.click # 0
    [] c \in {"bounding_box", "screenshot"} -> obs.box # 0

Owing(c) == {i \in DOMAIN steps : Owes(c, journey.steps[i].kind, steps[i].obs)}

\* The commands a step of some kind has issued when it is at a point.
Past(point, kind, points, kinds) == point \in points \/ (point = "trailing" /\ kind \in kinds)

PastLink(point, kind, points) ==
  \/ Past(point, kind, points \cup {"click", "landed"}, Interactive)
  \/ point \in {"box", "shot"} /\ kind = "follow_link"

IssuedBy(point, kind, c) ==
  CASE c = "navigate" -> Past(point, kind, {"arrived"}, {"navigate"})
    [] c = "is_visible" -> Past(point, kind, {"text", "hidden", "link_enabled", "link_href", "box",
                                              "shot", "click", "landed"},
                                {"check_text"} \cup Evidential)
    [] c = "is_enabled" -> PastLink(point, kind, {"link_href"})
    [] c = "get_attribute" -> PastLink(point, kind, {})
    [] c = "text" -> Past(point, kind, {}, {"check_text"})
    [] c = "bounding_box" -> Past(point, kind, {"shot", "click", "landed"}, Evidential)
    [] c = "screenshot" -> Past(point, kind, {"click", "landed"}, Evidential)
    [] c = "click" -> Past(point, kind, {"landed"}, Interactive)

IssuedNow(c) == pc \in StepPoints /\ IssuedBy(pc, Current.kind, c)

\* There is one command for each thing a step has observed.
CommandsCounted ==
  Live => \A c \in Counted :
    Cardinality(Issued(c)) = Cardinality(Owing(c)) + (IF IssuedNow(c) THEN 1 ELSE 0)

\* Each step has read a URL.
LinkUnderway == pc \in StepPoints \ {"entry", "act"} /\ Current.kind = "follow_link"

UrlsRead ==
  Live => Cardinality(Issued("current_url")) >= Len(steps) + (IF LinkUnderway THEN 1 ELSE 0)

\* What a step has observed when it is at a point, and not before.
ObservedAt(point, step, obs) ==
  /\ point = "entry" => obs = NoObservation
  /\ point # "entry" /\ step.kind \in {"navigate", "check_url", "follow_link"} =>
       obs.expected = Bare[step.url]
  /\ point \notin {"entry", "landed", "trailing"} /\ step.kind = "follow_link" =>
       obs.action = "not_attempted"
  /\ point \notin {"entry", "act"} /\ step.kind = "follow_link" => obs.before \in Exact
  /\ point \in {"entry", "act", "arrived", "link_visible"} => obs.visible = "none"
  /\ point \in {"text", "box", "shot"} => obs.visible = "yes"
  /\ point = "hidden" => obs.visible = "no"
  /\ point \notin {"link_href", "click", "landed", "trailing"}
       /\ ~(point \in {"box", "shot"} /\ step.kind = "follow_link") => obs.enabled = "none"
  /\ point # "trailing" => obs.matched = "none"
  /\ point \notin {"landed", "trailing"} => obs.box = 0
  /\ point = "landed" => Shots(obs) /\ obs.click # 0

ObservedSoFar ==
  /\ pc \in StepPoints => ObservedAt(pc, Current, observation)
  /\ pc \in {"box", "shot"} => hasNavigated

\* A record its renderer accepts, with all of its evidence or with none.
Acceptable(status, obs, declared) ==
  /\ status \in {"passed", "failed"}
  /\ ValidObservation([status |-> status, obs |-> obs], declared)
  /\ IF obs.box = 0 THEN obs.artifact = "none" ELSE Shots(obs) /\ obs.artifact = "focused"

\* A step waiting for its last URL read has the record it will leave.
RecordReady ==
  pc = "trailing" =>
    /\ Acceptable(result, observation, Current)
    /\ \A c \in Counted : Owes(c, Current.kind, observation) <=> IssuedNow(c)

RecordsAcceptable ==
  Live => \A i \in DOMAIN steps : Acceptable(steps[i].status, steps[i].obs, journey.steps[i])

\* What a verdict that is neither blocked nor an error says.
VerdictMeant ==
  pc \in Ended /\ Clean =>
    /\ Admitted(journey, opts)
    /\ reason = cause
    /\ cause = IF execution = "passed" THEN "journey_passed" ELSE "checkpoint_failed"
    /\ steps # <<>>
    /\ \/ Len(steps) = Len(journey.steps)
       \/ /\ execution = "failed" /\ Len(steps) < Len(journey.steps)
          /\ steps[Len(steps)].status = "failed"
          /\ journey.steps[Len(steps)].kind = "follow_link"

\* The sign-in is verified by its step and by no other.
SignInTold ==
  /\ journey.schema # 4 => authentication = "none"
  /\ Live /\ journey.schema = 4 =>
       /\ authentication = "verified" <=> journey.auth.verify \in DOMAIN steps
       /\ journey.auth.verify \in DOMAIN steps => steps[journey.auth.verify].status = "passed"

AcceptedInv ==
  /\ SetupIssued /\ ClosingIssued /\ CommandsCounted /\ UrlsRead
  /\ ObservedSoFar /\ RecordReady /\ RecordsAcceptable /\ VerdictMeant /\ SignInTold
=============================================================================
