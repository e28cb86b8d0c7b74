--------------------------- MODULE RunStory_proofs ---------------------------
(***************************************************************************)
(* Proofs about what a report tells of the steps: the evidence, the pages, *)
(* the clicks and what licensed them, for every site, journey, option and  *)
(* failure.                                                                *)
(***************************************************************************)
EXTENDS CrawlRun_proofs

-----------------------------------------------------------------------------
(* The commands of a step *)

\* The only command a step issues is the one pending at its point.
LEMMA StepRecorded ==
  ASSUME TypeOK, JourneyStep
  PROVE  Recorded(Command)
  <1> USE CommandRecorded DEF Command, ActCommand, Acting, ReadsInside, AnsweredInside
  <1>1. CASE UrlOutside \/ StrayInspection \/ StepCommandFails
    BY <1>1 DEF UrlOutside, StrayInspection, StepCommandFails
  <1>2. CASE EntryInside \/ TrailingInside \/ HiddenInside \/ Arrive \/ CheckUrl
    BY <1>2 DEF EntryInside, TrailingInside, HiddenInside, Arrive, CheckUrl
  <1>3. CASE Navigate \/ LookForTarget \/ CheckText \/ BoundingBox \/ CaptureEvidence
    BY <1>3 DEF Navigate, LookForTarget, CheckText, BoundingBox, CaptureEvidence
  <1>4. CASE NavigationBlocked
    BY <1>4 DEF NavigationBlocked, Recorded, Record
  <1>5. CASE EvidenceFails \/ LinkPreflight \/ LinkVisible \/ LinkEnabled \/ LinkHref
    BY <1>5 DEF EvidenceFails, LinkPreflight, LinkVisible, LinkEnabled, LinkHref
  <1>6. CASE LinkRefused \/ LinkReady \/ Click \/ ClickFails \/ Landed \/ LandingUnknown
    BY <1>6 DEF LinkRefused, LinkReady, Click, ClickFails, Landed, LandingUnknown
  <1>7. CASE ClickNeedsConfirmation
    BY <1>7 DEF ClickNeedsConfirmation, Recorded, Record
  <1> QED BY <1>1, <1>2, <1>3, <1>4, <1>5, <1>6, <1>7 DEF JourneyStep

\* The commands that leave evidence are issued at points of their own.
LEMMA EvidencePoints ==
  ASSUME TypeOK, pc \in StepPoints
  PROVE  /\ Command \in Capabilities
         /\ Command = "bounding_box" <=> pc = "box"
         /\ Command = "screenshot" <=> pc = "shot"
         /\ Command = "click" <=> pc = "click"
  <1>1. Command \in Capabilities
    BY CommandType DEF Capabilities
  <1> QED BY <1>1 DEF Command, ActCommand, StepPoints

\* What a step leaves in the session: nothing is taken back, one click at most is added.
LEMMA StepLeaves ==
  ASSUME Outline, JourneyStep
  PROVE  /\ \A c : Issued(c) \subseteq Issued(c)'
         /\ artifacts \subseteq artifacts'
         /\ \A i \in (1 .. MaxSteps) \ {index} : performed'[i] = performed[i]
         /\ performed' # performed => pc = "click"
  <1>1. TypeOK /\ Clicking /\ pc \in StepPoints
    BY StepCommand DEF Outline, Inductive, Clicking
  <1>2. \A c : Issued(c) \subseteq Issued(c)'
    BY <1>1, StepRecorded, EvidencePoints, IssuedGrows
  <1>3. artifacts \subseteq artifacts'
    BY StepTouches DEF KeepArtifacts
  <1> QED BY <1>1, <1>2, <1>3, StepTouches, PerformedOnce
-----------------------------------------------------------------------------
(* Journeys and pages *)

\* What a report says of a URL of the origin is exact.
LEMMA InsideIsExact ==
  ASSUME NEW url \in Origin
  PROVE  safe_url(url) \in Exact
  BY ReportedAssumption DEF safe_url

\* Before it has navigated the browser shows no page of the origin.
LEMMA NavigatedFirst ==
  ASSUME Shown \cap Origin # {}, Current.kind # "navigate"
  PROVE  hasNavigated
  BY PagesAssumption DEF Shown

\* A link step leads to an address that a report gives unchanged.
LEMMA LinkStep ==
  ASSUME TypeOK, Admission, pc \in StepPoints, Current.kind = "follow_link"
  PROVE  /\ index \in Links
         /\ Current.url \in Exact /\ safe_url(Current.url) = Current.url
  <1>1. ValidJourney(journey) /\ index \in DOMAIN journey.steps
    BY AdmittedValid DEF Admission, TypeOK, ControlOK
  <1>2. ValidStep(journey, index) /\ journey.schema \in Nat
    BY <1>1 DEF ValidJourney
  <1>3. Current.url \in Exact
    BY <1>2 DEF ValidStep, ValidPath, Current, Interactive
  <1>4. safe_url(Current.url) = Current.url
    BY <1>3, PagesAssumption, ReportedAssumption DEF safe_url
  <1> QED BY <1>1, <1>3, <1>4 DEF Links, Required, IndexesOf, Interactive, Current

\* What a run was admitted with.
LEMMA AdmittedGrants ==
  ASSUME TypeOK, Admitted(journey, opts)
  PROVE  /\ opts.origin = "match"
         /\ Links # {} => opts.grants.wellFormed /\ opts.grants.named = Links
  <1>1. opts \in Options
    BY InputsAssumption DEF TypeOK, ControlOK
  <1>2. /\ 2 \in DOMAIN GateOrder /\ GateOrder[2] = "target_authorization_missing"
        /\ 3 \in DOMAIN GateOrder /\ GateOrder[3] = "target_not_authorized"
        /\ 4 \in DOMAIN GateOrder /\ GateOrder[4] = "target_authorization_invalid"
        /\ 6 \in DOMAIN GateOrder /\ GateOrder[6] = "action_authorization_invalid"
        /\ 8 \in DOMAIN GateOrder /\ GateOrder[8] = "action_authorization_mismatch"
    BY DEF GateOrder
  <1>3. opts.origin \notin {"missing", "other", "invalid"}
    BY <1>2 DEF Admitted, Refuses
  <1>4. Links # {} => opts.grants.wellFormed /\ opts.grants.named = Links
    BY <1>2 DEF Admitted, Refuses, RefusesActions, Links
  <1> QED BY <1>1, <1>3, <1>4 DEF Options

\* The steps of a sign-in journey up to its verification: navigations, then the check.
LEMMA BeforeVerification ==
  ASSUME TypeOK, Admission, pc \in StepPoints, journey.schema = 4
  PROVE  /\ journey.auth.verify \in Nat \ {0}
         /\ \A i \in 1 .. journey.auth.verify :
              /\ i \in DOMAIN journey.steps /\ ~journey.steps[i].guide
              /\ journey.steps[i].kind \notin Evidential
         /\ \A i \in 1 .. journey.auth.verify - 1 : journey.steps[i].kind = "navigate"
  <1>1. ValidJourney(journey) /\ journey.steps \in Seq(Step)
    BY AdmittedValid, InputsAssumption DEF Admission, TypeOK, ControlOK, Document
  <1>2. /\ journey.auth.verify \in DOMAIN journey.steps
        /\ journey.steps[journey.auth.verify].kind = "check_text"
        /\ \A i \in 1 .. journey.auth.verify : ~journey.steps[i].guide
        /\ \A i \in 1 .. journey.auth.verify - 1 :
             journey.steps[i].kind \notin Checkpoints \cup Evidential
    BY <1>1 DEF ValidJourney, ValidAuthenticationSteps, IndexesOf
  <1>3. journey.auth.verify \in Nat \ {0} /\ 1 .. journey.auth.verify \subseteq DOMAIN journey.steps
    BY <1>1, <1>2
  <1>4. \A i \in 1 .. journey.auth.verify : journey.steps[i] \in Step
    BY <1>1, <1>3
  <1>5. \A i \in 1 .. journey.auth.verify - 1 : i \in 1 .. journey.auth.verify
    BY <1>3
  <1>6. \A i \in 1 .. journey.auth.verify - 1 : journey.steps[i].kind = "navigate"
    BY <1>2, <1>4, <1>5 DEF Step, StepKinds, Checkpoints, Evidential
  <1>7. \A i \in 1 .. journey.auth.verify : journey.steps[i].kind \notin Evidential
    <2> TAKE i \in 1 .. journey.auth.verify
    <2>1. i = journey.auth.verify \/ i \in 1 .. journey.auth.verify - 1
      BY <1>3
    <2> QED BY <2>1, <1>2, <1>6 DEF Evidential
  <1> QED BY <1>2, <1>3, <1>6, <1>7
-----------------------------------------------------------------------------
(* Truthful observations *)

\* What was true of an observation stays so while its step does not click.
LEMMA TruthKept ==
  ASSUME Outline, JourneyStep, NEW i \in 1 .. MaxSteps, NEW obs, Truthful(i, obs),
         performed'[i] = performed[i]
  PROVE  Truthful(i, obs)'
  <1>1. journey' = journey
    BY StepOutline DEF Outline, Inductive
  <1> QED BY <1>1, StepLeaves DEF Truthful, EvidenceTold, ActionTold, LinkTold

\* An observation is as truthful as one that says the same of the evidence, the click and
\* the link.
LEMMA TruthSame ==
  ASSUME NEW i, NEW obs, NEW next, Truthful(i, obs),
         next.box = obs.box, next.shot = obs.shot, next.click = obs.click,
         next.artifact = obs.artifact, next.href = obs.href, next.visible = obs.visible,
         next.enabled = obs.enabled,
         \/ next.action = obs.action /\ next.matched = obs.matched
         \/ next.action = obs.action /\ obs.action # "effect_verified"
         \/ next.action = "effect_unknown"
         \/ /\ next.action = "effect_verified" /\ obs.action = "driver_acknowledged"
            /\ next.matched = "yes" /\ next.artifact = "focused"
  PROVE  Truthful(i, next)
  BY DEF Truthful, EvidenceTold, ActionTold, LinkTold

\* A step that shows nothing and has not clicked has nothing to be untruthful about.
LEMMA TruthOfNothing ==
  ASSUME NEW i, NEW obs, obs.shot = 0, obs.click = 0, obs.artifact = "none",
         obs.action \in {"none", "not_attempted"}, performed'[i] = 0
  PROVE  Truthful(i, obs)'
  BY DEF Truthful, EvidenceTold, ActionTold, LinkTold

\* Before its click a step has not clicked, and unless it clicks now it has not after.
LEMMA Unclicked ==
  ASSUME Outline, JourneyStep, pc \notin {"landed", "trailing"}
  PROVE  /\ performed[index] = 0
         /\ pc # "click" => performed' = performed
  <1>1. TypeOK /\ Clicking /\ pc \in StepPoints
    BY StepCommand DEF Outline, Inductive, Clicking
  <1> QED BY <1>1, NotClickedYet, StepLeaves
-----------------------------------------------------------------------------
(* The records *)

\* What the steps before the one being executed have reported stays true.
LEMMA ToldBefore ==
  ASSUME Outline, RecordsTold, JourneyStep, NEW i \in DOMAIN steps
  PROVE  i \in 1 .. MaxSteps /\ \A obs : obs = steps[i].obs => Truthful(i, obs)'
  <1>1. TypeOK /\ StepsInOrder /\ pc \in StepPoints
    BY StepCommand DEF Outline, Inductive
  <1>2. i \in 1 .. MaxSteps /\ i # index
    BY <1>1, StepIndex, PagesAssumption
  <1>3. performed'[i] = performed[i]
    BY <1>2, StepLeaves
  <1>4. ASSUME NEW obs, obs = steps[i].obs
        PROVE  Truthful(i, obs)'
    <2>1. Truthful(i, obs)
      BY <1>4 DEF RecordsTold, RecordTold
    <2> QED BY <1>2, <1>3, <2>1, TruthKept
  <1> QED BY <1>2, <1>4

\* A step that goes on leaves the records as true as they were.
LEMMA GoingRecords ==
  ASSUME Outline, RecordsTold, JourneyStep, Going
  PROVE  RecordsTold'
  <1> SUFFICES ASSUME NEW i \in DOMAIN steps'
               PROVE  i \in DOMAIN journey'.steps /\ RecordTold(i)'
    BY DEF RecordsTold
  <1>1. steps' = steps /\ journey' = journey
    BY DEF Going, inputs
  <1>2. PICK obs : obs = steps[i].obs
    OBVIOUS
  <1>3. Truthful(i, obs)'
    BY <1>1, <1>2, ToldBefore
  <1>4. Truthful(i, steps[i].obs)'
    BY <1>1, <1>2, <1>3
  <1> QED BY <1>1, <1>4 DEF RecordsTold, RecordTold

\* A step that ends is recorded, and what it reports must be true.
LEMMA EndStepRecordsTold ==
  ASSUME Outline, RecordsTold, JourneyStep, NEW obs, NEW status, NEW p, NEW c, NEW stop,
         EndStep(obs, status, p, c, stop), NEW k, k = index, Truthful(k, obs)',
         status \in {"passed", "failed"} => obs.observed \in Exact,
         Current.kind = "navigate" => status # "failed",
         Current.kind = "follow_link" /\ status = "passed" => obs.action = "effect_verified"
  PROVE  RecordsTold'
  <1> SUFFICES ASSUME NEW i \in DOMAIN steps'
               PROVE  i \in DOMAIN journey'.steps /\ RecordTold(i)'
    BY DEF RecordsTold
  <1>1. TypeOK /\ StepsInOrder /\ pc \in StepPoints /\ journey' = journey
    BY StepCommand, StepOutline DEF Outline, Inductive
  <1>2. /\ index \in Nat /\ DOMAIN steps = 1 .. index - 1 /\ DOMAIN steps' = 1 .. index
        /\ steps'[index] = [status |-> status, obs |-> obs]
        /\ \A m \in 1 .. index - 1 : steps'[m] = steps[m]
    BY <1>1, EndStepRecords
  <1>3. CASE i = index
    <2>1. i \in DOMAIN journey.steps
      BY <1>1, <1>3 DEF TypeOK, ControlOK
    <2>2. steps'[i].status = status /\ steps'[i].obs = obs
      BY <1>2, <1>3
    <2>3. Truthful(i, steps[i].obs)'
      BY <1>3, <2>2
    <2> QED BY <1>1, <1>3, <2>1, <2>2, <2>3 DEF RecordTold, Current
  <1>4. CASE i # index
    <2>1. i \in DOMAIN steps /\ steps'[i] = steps[i]
      BY <1>2, <1>4
    <2>2. PICK told : told = steps[i].obs
      OBVIOUS
    <2>3. Truthful(i, told)'
      BY <2>1, <2>2, ToldBefore
    <2>4. Truthful(i, steps[i].obs)'
      BY <2>1, <2>2, <2>3
    <2> QED BY <1>1, <2>1, <2>4 DEF RecordsTold, RecordTold
  <1> QED BY <1>3, <1>4

\* A step that ends in an error with a truthful observation leaves truthful records.
LEMMA ErrorTold ==
  ASSUME Outline, RecordsTold, JourneyStep, NEW obs, NEW p \in {"blocked", "error"}, NEW c,
         StepError(obs, p, c), NEW k, k = index, Truthful(k, obs)'
  PROVE  RecordsTold'
  <1>1. EndStep(obs, p, p, c, TRUE)
    BY DEF StepError
  <1> QED BY <1>1, EndStepRecordsTold

\* A step that ends with a result its kind can have leaves truthful records.
LEMMA ResultTold ==
  ASSUME Outline, RecordsTold, JourneyStep,
         NEW obs, NEW res \in {"passed", "failed", "blocked"}, StepResult(obs, res),
         NEW k, k = index, Truthful(k, obs)',
         res \in {"passed", "failed"} => obs.observed \in Exact,
         Current.kind = "navigate" => res # "failed",
         Current.kind = "follow_link" /\ res = "passed" => obs.action = "effect_verified"
  PROVE  RecordsTold'
  <1> DEFINE status == IF res = "failed" /\ Verifying THEN "blocked" ELSE res
  <1>1. PICK p, c, stop : EndStep(obs, status, p, c, stop)
    BY DEF StepResult
  <1>2. status = res \/ status = "blocked"
    OBVIOUS
  <1> HIDE DEF status
  <1> QED BY <1>1, <1>2, EndStepRecordsTold
-----------------------------------------------------------------------------
(* What each action reports *)

\* The fields a URL read leaves alone.
Unread == {"expected", "href", "visible", "enabled", "matched", "action", "box", "shot", "click",
           "artifact"}

\* A URL that is read changes what a step has observed, and nothing else.
LEMMA SeenFields ==
  ASSUME NEW obs \in Observation, NEW url
  PROVE  /\ \A f \in Unread : Seen(obs, url)[f] = obs[f]
         /\ ~(pc = "act" /\ Current.kind = "follow_link") =>
              Seen(obs, url).observed = safe_url(url)
         /\ pc = "act" /\ Current.kind = "follow_link" => Seen(obs, url).observed = obs.observed
  BY DEF Seen, Observation, Unread

\* A capture bundle adds the evidence it has, and nothing else.
LEMMA CapturedFields ==
  ASSUME NEW obs \in Observation, NEW taken, NEW clicked, NEW n
  PROVE  LET seen == Captured(obs, taken, clicked, n) IN
         /\ seen.box = taken.box /\ seen.shot = taken.shot /\ seen.click = clicked
         /\ seen.artifact = "focused" <=> n = 3
         /\ \A f \in {"expected", "observed", "before", "href", "visible", "enabled", "matched",
                      "action"} : seen[f] = obs[f]
  BY DEF Captured, Observation

\* Before its picture a step has nothing to tell but what it has read.
LEMMA NothingTold ==
  ASSUME Outline, CurrentInv, JourneyStep, pc \notin {"landed", "trailing", "click"},
         NEW k, k = index, NEW obs,
         obs.shot = observation.shot, obs.click = observation.click,
         obs.artifact = observation.artifact, obs.action = observation.action
  PROVE  Truthful(k, obs)'
  <1>1. pc \in StepPoints /\ performed'[k] = 0
    BY Unclicked, StepCommand DEF Outline, Inductive
  <1> QED BY <1>1, TruthOfNothing DEF CurrentInv, NothingShown

\* Past its click, or past its last inspection, a step keeps to what it has observed.
LEMMA SameTold ==
  ASSUME Outline, CurrentInv, JourneyStep, pc \in {"landed", "trailing"},
         NEW k, k = index, NEW obs,
         \A f \in {"box", "shot", "click", "artifact", "href", "visible", "enabled"} :
           obs[f] = observation[f],
         \/ obs.action = observation.action /\ obs.matched = observation.matched
         \/ obs.action = observation.action /\ observation.action # "effect_verified"
         \/ obs.action = "effect_unknown"
         \/ /\ obs.action = "effect_verified" /\ observation.action = "driver_acknowledged"
            /\ obs.matched = "yes" /\ obs.artifact = "focused"
  PROVE  Truthful(k, obs)'
  <1>1. PICK old : old = observation
    OBVIOUS
  <1>2. Truthful(k, old)
    BY <1>1 DEF CurrentInv, StepTold
  <1>3. Truthful(k, obs)
    BY <1>1, <1>2, TruthSame
  <1>4. k \in 1 .. MaxSteps /\ performed'[k] = performed[k]
    BY StepLeaves, StepIndex, StepCommand DEF Outline, Inductive
  <1> QED BY <1>3, <1>4, TruthKept

\* An observation stays truthful when a URL is read.
LEMMA SeenTold ==
  ASSUME Outline, CurrentInv, JourneyStep, pc # "click", NEW k, k = index, NEW obs, NEW url,
         obs = Seen(observation, url)
  PROVE  Truthful(k, obs)'
  <1>1. observation \in Observation
    BY StepState DEF Outline, Inductive
  <1>2. \A f \in Unread : obs[f] = observation[f]
    BY <1>1, SeenFields
  <1>3. CASE pc \in {"landed", "trailing"}
    BY <1>2, <1>3, SameTold DEF Unread
  <1>4. CASE pc \notin {"landed", "trailing"}
    BY <1>2, <1>4, NothingTold DEF Unread
  <1> QED BY <1>3, <1>4

\* The picture has just been taken, right after its box.
LEMMA PictureTold ==
  ASSUME Outline, CurrentInv, JourneyStep, pc = "shot", Succeeds("screenshot"),
         NEW k, k = index, NEW n \in 0 .. 3, KeepArtifacts(n), NEW obs,
         \/ obs = Captured(observation, Taken, 0, n)
         \/ obs = Unmatched(Captured(observation, Taken, 0, n))
  PROVE  Truthful(k, obs)' /\ obs.observed = observation.observed
  <1>1. TypeOK /\ observation \in Observation /\ Recorded("screenshot")
    BY StepState, CommandRecorded DEF Outline, Inductive
  <1>2. /\ capture \in Capture /\ capture.box = Len(records) /\ Len(records) \in Nat
        /\ capture.box \in Issued("bounding_box")
    BY <1>1, StepState, RecordsLength DEF CurrentInv, ShotAfterBox
  <1>3. /\ Len(records) + 1 \in Issued("screenshot")'
        /\ Issued("bounding_box") \subseteq Issued("bounding_box")'
    <2>1. records' # records /\ Len(records') = Len(records) + 1
      BY <1>1 DEF Succeeds, Record, TypeOK, SessionOK
    <2> QED BY <1>1, <2>1, IssuedGrows DEF Capabilities, StepCapabilities
  <1>4. Taken.box = Len(records) /\ Taken.shot = Len(records) + 1
    BY <1>2 DEF Taken, Capture
  <1>5. /\ obs.box = Len(records) /\ obs.shot = Len(records) + 1 /\ obs.click = 0
        /\ obs.artifact = "focused" => n = 3
        /\ obs.action = observation.action /\ obs.observed = observation.observed
    <2> DEFINE seen == Captured(observation, Taken, 0, n)
    <2>1. seen \in Observation
      <3>1. Taken \in Capture
        BY <1>2 DEF Taken, Capture
      <3> QED BY <1>1, <3>1, CapturedType
    <2>2. /\ seen.box = Len(records) /\ seen.shot = Len(records) + 1 /\ seen.click = 0
          /\ seen.artifact = "focused" => n = 3
          /\ seen.action = observation.action /\ seen.observed = observation.observed
      BY <1>1, <1>4, CapturedFields
    <2> HIDE DEF seen
    <2> QED BY <2>1, <2>2 DEF Unmatched, Observation, seen
  <1>6. performed'[k] = 0 /\ observation.action \in {"none", "not_attempted"}
    BY Unclicked, StepCommand DEF Outline, Inductive, CurrentInv, NothingShown
  <1>7. n = 3 => \A m \in DOMAIN ArtifactKinds : [kind |-> ArtifactKinds[m], step |-> k] \in artifacts'
    BY DEF KeepArtifacts, ArtifactKinds
  <1> QED BY <1>2, <1>3, <1>5, <1>6, <1>7 DEF Truthful, EvidenceTold, ActionTold, LinkTold

\* The click has been tried, right after the picture.
LEMMA ClickTold ==
  ASSUME Outline, CurrentInv, JourneyStep, pc = "click", Recorded("click"),
         NEW k, k = index, NEW n \in 0 .. 3, KeepArtifacts(n),
         NEW clicked, clicked = 0 \/ (records' # records /\ clicked = Len(records')), NEW obs,
         \/ obs = Unknown(clicked, n)
         \/ obs = Acknowledge(clicked, n) /\ n = 3 /\ performed'[k] = 1
         \/ obs = Captured(observation, capture, clicked, n) /\ performed' = performed
  PROVE  Truthful(k, obs)'
  <1>1. TypeOK /\ Admission /\ observation \in Observation /\ Len(records) \in Nat /\ pc \in StepPoints
    BY StepState, RecordsLength, StepCommand DEF Outline, Inductive
  <1>2. /\ capture \in Capture /\ capture.shot = Len(records)
        /\ capture.shot \in Issued("screenshot") /\ capture.shot = capture.box + 1
        /\ capture.box \in Issued("bounding_box") /\ capture.href = Current.url
        /\ observation.href = safe_url(capture.href)
        /\ observation.visible = "yes" /\ observation.enabled = "yes"
        /\ observation.action \in {"none", "not_attempted"} /\ Current.kind = "follow_link"
    BY <1>1, StepState DEF CurrentInv, ShotAfterBox, LinkRead, OnLink, LinkOnly, NothingShown,
                           KindOfPoint
  <1>3. observation.href = Current.url
    BY <1>1, <1>2, LinkStep
  <1>4. clicked # 0 => clicked = Len(records) + 1 /\ clicked \in Issued("click")'
    BY <1>1, IssuedGrows DEF Capabilities, StepCapabilities
  <1>5. \A c : Issued(c) \subseteq Issued(c)'
    BY StepLeaves
  <1>6. journey' = journey
    BY <1>1, StepOutline
  <1>7. clicked \in Nat
    BY <1>1, RecordsLength, <1>4
  <1>8. /\ obs.box = capture.box /\ obs.shot = capture.shot /\ obs.click = clicked
        /\ obs.artifact = "focused" => n = 3
        /\ obs.href = observation.href /\ obs.visible = "yes" /\ obs.enabled = "yes"
        /\ \/ obs.action = "effect_unknown"
           \/ obs.action = "driver_acknowledged" /\ performed'[k] = 1
           \/ obs.action = observation.action /\ performed' = performed
    <2> DEFINE seen == Captured(observation, capture, clicked, n)
    <2>1. seen \in Observation
      BY <1>1, <1>2, <1>7, CapturedType
    <2>2. /\ seen.box = capture.box /\ seen.shot = capture.shot /\ seen.click = clicked
          /\ seen.artifact = "focused" => n = 3
          /\ seen.href = observation.href /\ seen.visible = "yes" /\ seen.enabled = "yes"
          /\ seen.action = observation.action
      BY <1>1, <1>2, CapturedFields
    <2>3. \/ obs = [seen EXCEPT !.action = "effect_unknown"]
          \/ obs = [seen EXCEPT !.action = "driver_acknowledged"] /\ performed'[k] = 1
          \/ obs = seen /\ performed' = performed
      BY DEF Unknown, Acknowledge
    <2> HIDE DEF seen
    <2> QED BY <2>1, <2>2, <2>3 DEF Observation
  <1>9. performed[k] = 0
    BY <1>1, Unclicked
  <1>10. n = 3 => \A m \in DOMAIN ArtifactKinds : [kind |-> ArtifactKinds[m], step |-> k] \in artifacts'
    BY DEF KeepArtifacts, ArtifactKinds
  <1>11. EvidenceTold(k, obs)'
    BY <1>1, <1>2, <1>4, <1>5, <1>8, <1>10 DEF EvidenceTold
  <1>12. ActionTold(k, obs)'
    BY <1>2, <1>8, <1>9 DEF ActionTold
  <1>13. LinkTold(k, obs)'
    BY <1>3, <1>6, <1>8 DEF LinkTold, Current
  <1> QED BY <1>11, <1>12, <1>13 DEF Truthful

\* Every command of a step keeps the records truthful.
LEMMA JourneyStepRecords ==
  ASSUME Outline, CurrentInv, RecordsTold, JourneyStep
  PROVE  RecordsTold'
  <1>1. PICK k : k = index
    OBVIOUS
  <1>2. TypeOK /\ pc \in StepPoints /\ observation \in Observation
    BY StepState, StepCommand DEF Outline, Inductive
  <1>3. PICK before : before = observation
    OBVIOUS
  <1>4. pc # "click" => Truthful(k, before)'
    <2>1. CASE pc \in {"landed", "trailing"}
      BY <1>1, <1>3, <2>1, SameTold
    <2>2. CASE pc \notin {"landed", "trailing", "click"}
      BY <1>1, <1>3, <2>2, NothingTold
    <2> QED BY <2>1, <2>2
  <1>5. ASSUME NEW url \in Shown \cap Origin, NEW obs, obs = Seen(observation, url),
               ~(pc = "act" /\ Current.kind = "follow_link")
        PROVE  obs.observed \in Exact
    BY <1>2, <1>5, SeenFields, InsideIsExact
  <1>6. CASE UrlOutside
    <2>1. PICK url, obs : obs = Seen(observation, url) /\ StepResult(obs, "blocked") /\ pc # "click"
      BY <1>6 DEF UrlOutside, Command
    <2> QED BY <1>1, <2>1, SeenTold, ResultTold
  <1>7. CASE StrayInspection \/ StepCommandFails
    <2>1. pc # "click" /\ \E p \in {"blocked", "error"} : \E c : StepError(before, p, c)
      BY <1>3, <1>7 DEF StrayInspection, StepCommandFails, Command, PageInspections
    <2> QED BY <1>1, <1>4, <2>1, ErrorTold
  <1>8. CASE HiddenInside
    <2>1. PICK url, obs :
            /\ url \in Shown \cap Origin
            /\ obs = Seen(observation, url) /\ StepResult(obs, "failed") /\ pc = "hidden"
      BY <1>8 DEF HiddenInside, ReadsInside
    <2>2. Current.kind \notin {"navigate", "follow_link"}
      BY <2>1 DEF CurrentInv, KindOfPoint
    <2>3. Truthful(k, obs)' /\ obs.observed \in Exact
      BY <1>1, <1>5, <2>1, SeenTold
    <2> QED BY <1>1, <2>1, <2>2, <2>3, ResultTold
  <1>9. CASE TrailingInside
    <2>1. PICK url, obs :
            /\ url \in Shown \cap Origin
            /\ obs = Seen(observation, url) /\ StepResult(obs, result) /\ pc = "trailing"
      BY <1>9 DEF TrailingInside, ReadsInside
    <2>2. result \in {"passed", "failed"}
      BY <1>2, <2>1, StepState
    <2>3. Truthful(k, obs)' /\ obs.observed \in Exact /\ obs.action = observation.action
      BY <1>1, <1>2, <1>5, <2>1, SeenTold, SeenFields DEF Unread
    <2> QED BY <1>1, <2>1, <2>2, <2>3, ResultTold DEF CurrentInv, StepTold
  <1>10. CASE NavigationBlocked
    <2>1. StepResult(before, "blocked") /\ pc # "click"
      BY <1>3, <1>10 DEF NavigationBlocked, Acting
    <2> QED BY <1>1, <1>4, <2>1, ResultTold
  <1>11. CASE EvidenceFails
    <2>1. PICK n, obs : /\ n \in 0 .. 2
                        /\ KeepArtifacts(n) /\ obs = Captured(observation, Taken, 0, n)
                        /\ StepError(obs, "error", "driver_error")
                        /\ pc = "shot" /\ Succeeds("screenshot")
      BY <1>11 DEF EvidenceFails
    <2>2. n \in 0 .. 3
      BY <2>1
    <2> QED BY <1>1, <2>1, <2>2, PictureTold, ErrorTold
  <1>12. CASE LinkVisible \/ LinkEnabled \/ LinkHref
    <2>1. CASE Going
      BY <2>1, GoingRecords
    <2>2. CASE ~Going
      <3>1. PICK obs : /\ StepResult(obs, "failed")
                       /\ \/ obs = Unmatched([observation EXCEPT !.visible = "no"])
                          \/ obs = Unmatched([observation EXCEPT !.enabled = "no"])
                          \/ obs = Unmatched(observation)
        BY <1>12, <2>2, AdvanceGoes DEF LinkVisible, LinkEnabled, LinkHref, StepPoints
      <3>2. /\ obs.shot = observation.shot /\ obs.click = observation.click
            /\ obs.artifact = observation.artifact /\ obs.action = observation.action
            /\ obs.observed = observation.observed
        BY <1>2, <3>1 DEF Unmatched, Observation
      <3>3. pc \in {"link_visible", "link_enabled", "link_href"}
        BY <1>12 DEF LinkVisible, LinkEnabled, LinkHref
      <3>4. observation.observed \in Exact /\ Current.kind = "follow_link"
        BY <1>2, <3>3 DEF CurrentInv, PageKnown, KindOfPoint, OnLink, LinkOnly
      <3>5. Truthful(k, obs)'
        BY <1>1, <3>2, <3>3, NothingTold
      <3> QED BY <1>1, <3>1, <3>2, <3>4, <3>5, ResultTold
    <2> QED BY <2>1, <2>2
  <1>13. CASE LinkRefused
    <2>1. PICK obs, res :
            /\ res \in {"blocked", "failed"}
            /\ StepResult(obs, res)
            /\ \/ obs = Captured(observation, Taken, 0, 3)
               \/ obs = Unmatched(Captured(observation, Taken, 0, 3))
      BY <1>13 DEF LinkRefused
    <2>2. pc = "shot" /\ Succeeds("screenshot") /\ KeepArtifacts(3) /\ Current.kind = "follow_link"
      BY <1>13 DEF LinkRefused
    <2>3. Truthful(k, obs)' /\ obs.observed = observation.observed
      BY <1>1, <2>1, <2>2, PictureTold
    <2>4. observation.observed \in Exact
      BY <1>2, <2>2 DEF CurrentInv, PageKnown, OnLink
    <2> QED BY <1>1, <2>1, <2>2, <2>3, <2>4, ResultTold
  <1>14. CASE ClickNeedsConfirmation \/ ClickFails \/ (Click /\ ~Going)
    <2>1. PICK n, clicked, obs :
            /\ n \in 0 .. 3
            /\ KeepArtifacts(n)
            /\ clicked = 0 \/ (records' # records /\ clicked = Len(records'))
            /\ \/ obs = Unknown(clicked, n)
               \/ obs = Captured(observation, capture, clicked, n) /\ performed' = performed
            /\ \E c : StepError(obs, "error", c)
      <3>1. ClickNeedsConfirmation \/ Click => records' # records
        BY <1>2 DEF ClickNeedsConfirmation, Click, Succeeds, Record, TypeOK, SessionOK
      <3>2. CASE ClickNeedsConfirmation
        BY <3>1, <3>2 DEF ClickNeedsConfirmation
      <3>3. CASE ClickFails
        <4> DEFINE at == IF records' = records THEN 0 ELSE Len(records')
        <4>1. at = 0 \/ (records' # records /\ at = Len(records'))
          OBVIOUS
        <4>2. \E n \in 0 .. 3 : KeepArtifacts(n) /\ StepError(Unknown(at, n), "error", "action_effect_unknown")
          BY <3>3 DEF ClickFails
        <4> HIDE DEF at
        <4> QED BY <4>1, <4>2
      <3>4. CASE Click /\ ~Going
        BY <3>1, <3>4, AdvanceGoes DEF Click, StepPoints
      <3> QED BY <1>14, <3>2, <3>3, <3>4
    <2>2. pc = "click" /\ Recorded("click")
      BY <1>14, CommandRecorded DEF ClickNeedsConfirmation, ClickFails, Click, Recorded, Record
    <2>3. Truthful(k, obs)'
      BY <1>1, <2>1, <2>2, ClickTold
    <2> QED BY <1>1, <2>1, <2>3, ErrorTold
  <1>15. CASE LandingUnknown
    <2>1. PICK obs : /\ obs = [observation EXCEPT !.action = "effect_unknown"]
                     /\ StepError(obs, "error", "action_effect_unknown") /\ pc = "landed"
      BY <1>15 DEF LandingUnknown
    <2>2. /\ \A f \in {"box", "shot", "click", "artifact", "href", "visible", "enabled"} :
               obs[f] = observation[f]
          /\ obs.action = "effect_unknown"
      BY <1>2, <2>1 DEF Observation
    <2> QED BY <1>1, <2>1, <2>2, SameTold, ErrorTold
  <1>16. CASE Going
    BY <1>16, GoingRecords
  <1>17. \/ Going
         \/ UrlOutside \/ StrayInspection \/ StepCommandFails \/ TrailingInside \/ HiddenInside
         \/ NavigationBlocked \/ EvidenceFails \/ LinkVisible \/ LinkEnabled \/ LinkHref
         \/ LinkRefused \/ Click \/ ClickNeedsConfirmation \/ ClickFails \/ LandingUnknown
    <2>1. CASE Arrive \/ CheckUrl \/ CheckText \/ CaptureEvidence \/ Landed
      <3>1. \E obs, res : Settle(obs, res)
        BY <2>1 DEF Arrive, CheckUrl, CheckText, CaptureEvidence, Landed
      <3> QED BY <3>1, SettleGoes
    <2>2. CASE EntryInside \/ Navigate \/ LookForTarget \/ BoundingBox \/ LinkPreflight \/ LinkReady
      <3>1. \E next \in StepPoints : \E obs : Advance(next, obs)
        BY <2>2 DEF EntryInside, Navigate, LookForTarget, BoundingBox, LinkPreflight, LinkReady,
                    StepPoints
      <3> QED BY <3>1, AdvanceGoes
    <2> QED BY <2>1, <2>2 DEF JourneyStep
  <1> QED BY <1>6, <1>7, <1>8, <1>9, <1>10, <1>11, <1>12, <1>13, <1>14, <1>15, <1>16, <1>17
-----------------------------------------------------------------------------
(* The step being executed *)

\* Nothing is known of a step that has just started.
LEMMA FreshCurrent ==
  ASSUME NEW k, NEW navigated, StartStep(k, navigated)
  PROVE  CurrentInv'
  <1>1. /\ pc' \in {"entry", "act"}
        /\ pc' = "act" => ~hasNavigated'
        /\ observation' = NoObservation \/ observation' = Declare(NoObservation, k)
    BY DEF StartStep
  <1>2. /\ observation'.shot = 0 /\ observation'.click = 0 /\ observation'.artifact = "none"
        /\ observation'.action \in {"none", "not_attempted"}
    <2>1. /\ NoObservation \in Observation
          /\ NoObservation.shot = 0 /\ NoObservation.click = 0
          /\ NoObservation.artifact = "none" /\ NoObservation.action = "none"
      BY NoObservationType DEF NoObservation
    <2>2. PICK fresh : fresh = Declare(NoObservation, k)
      OBVIOUS
    <2>3. /\ fresh.shot = 0 /\ fresh.click = 0 /\ fresh.artifact = "none"
          /\ fresh.action \in {"none", "not_attempted"}
      BY <2>1, <2>2 DEF Declare, Observation
    <2> QED BY <1>1, <2>1, <2>2, <2>3
  <1>3. KindOfPoint' /\ StepTold'
    BY <1>1 DEF KindOfPoint, StepTold, LinkOnly
  <1>4. PageKnown' /\ LinkRead'
    BY <1>1 DEF PageKnown, LinkRead, OnLink, LinkOnly, StepPoints
  <1>5. ShotAfterBox' /\ NothingShown'
    BY <1>1, <1>2 DEF ShotAfterBox, NothingShown
  <1> QED BY <1>3, <1>4, <1>5 DEF CurrentInv

\* Nothing is left to know of the steps once they are over.
LEMMA OverCurrent ==
  ASSUME pc' \in {"preflight"} \cup SetupPoints \cup Ended
  PROVE  CurrentInv'
  BY DEF CurrentInv, KindOfPoint, PageKnown, LinkRead, ShotAfterBox, NothingShown, StepTold,
         OnLink, LinkOnly, SetupPoints, Ended, ClosingPoints, StepPoints

\* After a step that ended nothing is known of the next one yet.
LEMMA EndStepCurrent ==
  ASSUME NEW obs, NEW status, NEW p, NEW c, NEW stop, EndStep(obs, status, p, c, stop)
  PROVE  CurrentInv'
  <1>1. CASE Conclude(p, c, traceStarted)
    <2>1. pc' \in ClosingPoints
      BY <1>1 DEF Conclude, ClosingPoints
    <2> QED BY <2>1, OverCurrent DEF Ended
  <1>2. CASE StartStep(index + 1, hasNavigated \/ Current.kind = "navigate")
    BY <1>2, FreshCurrent
  <1> QED BY <1>1, <1>2 DEF EndStep

\* Nor after one that ended with a result.
LEMMA ResultCurrent ==
  ASSUME NEW obs, NEW res, StepResult(obs, res)
  PROVE  CurrentInv'
  BY EndStepCurrent DEF StepResult

\* Nor after one that ended in an error.
LEMMA ErrorCurrent ==
  ASSUME NEW obs, NEW p, NEW c, StepError(obs, p, c)
  PROVE  CurrentInv'
  BY EndStepCurrent DEF StepError

\* The last URL read of a step is all that is left of it.
LEMMA SettleCurrent ==
  ASSUME Outline, CurrentInv, JourneyStep,
         NEW obs, NEW res \in {"passed", "failed"}, Settle(obs, res),
         NEW k, k = index, Truthful(k, obs)',
         hasNavigated => obs.observed \in Exact,
         Current.kind = "navigate" => res = "passed",
         Current.kind = "follow_link" /\ res = "passed" => obs.action = "effect_verified"
  PROVE  CurrentInv'
  <1>1. /\ pc' = "trailing" /\ observation' = obs /\ result' = res /\ index' = index
        /\ hasNavigated' = hasNavigated /\ Current' = Current
    BY DEF Settle, Advance, inputs, Current
  <1>2. Truthful(index, observation)'
    BY <1>1
  <1> QED BY <1>1, <1>2 DEF CurrentInv, KindOfPoint, PageKnown, LinkRead, ShotAfterBox,
                            NothingShown, StepTold, OnLink, LinkOnly, StepPoints

\* What a step that goes on keeps.
LEMMA AdvanceKeeps ==
  ASSUME NEW next, NEW obs, Advance(next, obs)
  PROVE  /\ pc' = next /\ observation' = obs /\ index' = index /\ journey' = journey
         /\ hasNavigated' = hasNavigated /\ Current' = Current
  BY DEF Advance, inputs, Current

\* A step goes on before its picture.
LEMMA AdvanceCurrent ==
  ASSUME NEW next \in {"act", "arrived", "text", "hidden", "link_visible", "link_enabled",
                       "link_href", "box"},
         NEW obs, Advance(next, obs),
         obs.shot = 0, obs.click = 0, obs.artifact = "none",
         obs.action \in {"none", "not_attempted"},
         hasNavigated => obs.observed \in Exact,
         next = "arrived" => Current.kind = "navigate",
         next = "text" => Current.kind = "check_text",
         next = "hidden" => Current.kind \in {"check_text", "capture"},
         next = "box" => Current.kind \in Evidential,
         next \in LinkOnly => Current.kind = "follow_link" /\ hasNavigated,
         next = "box" /\ Current.kind = "follow_link" =>
           hasNavigated /\ obs.visible = "yes" /\ obs.enabled = "yes"
           /\ obs.href = safe_url(capture'.href),
         next \in {"link_enabled", "link_href"} => obs.visible = "yes",
         next = "link_href" => obs.enabled = "yes"
  PROVE  CurrentInv'
  <1>1. /\ pc' = next /\ observation' = obs /\ hasNavigated' = hasNavigated
        /\ Current' = Current
    BY AdvanceKeeps
  <1>2. KindOfPoint' /\ StepTold'
    BY <1>1 DEF KindOfPoint, StepTold, LinkOnly
  <1>3. PageKnown'
    BY <1>1 DEF PageKnown, OnLink, LinkOnly
  <1>4. LinkRead'
    <2>1. safe_url(capture.href)' = safe_url(capture'.href)
      BY DEF safe_url
    <2> QED BY <1>1, <2>1 DEF LinkRead, OnLink, LinkOnly
  <1>5. ShotAfterBox' /\ NothingShown'
    BY <1>1 DEF ShotAfterBox, NothingShown
  <1> QED BY <1>2, <1>3, <1>4, <1>5 DEF CurrentInv

\* What is known of the link at each point past its reading.
LEMMA LinkKnown ==
  ASSUME CurrentInv
  PROVE  /\ pc \in {"link_visible", "link_enabled", "link_href"} =>
              Current.kind = "follow_link" /\ hasNavigated /\ observation.observed \in Exact
         /\ pc \in {"link_enabled", "link_href"} => observation.visible = "yes"
         /\ pc = "link_href" => observation.enabled = "yes"
         /\ pc \in StepPoints \ {"landed", "trailing"} =>
              /\ observation.shot = 0 /\ observation.click = 0 /\ observation.artifact = "none"
              /\ observation.action \in {"none", "not_attempted"}
         /\ pc \in StepPoints \ {"entry"} /\ hasNavigated => observation.observed \in Exact
  BY DEF CurrentInv, KindOfPoint, PageKnown, LinkRead, NothingShown, OnLink, LinkOnly, StepPoints

\* Every command of a step adds to what is known of it what that command found.
LEMMA JourneyStepCurrent ==
  ASSUME Outline, CurrentInv, JourneyStep
  PROVE  CurrentInv'
  <1>1. PICK k : k = index
    OBVIOUS
  <1>2. TypeOK /\ pc \in StepPoints /\ observation \in Observation /\ capture \in Capture
    BY StepState, StepCommand DEF Outline, Inductive
  <1> USE DEF StepPoints, LinkOnly, OnLink
  <1>3. CASE \E obs : \E res : StepResult(obs, res)
    BY <1>3, ResultCurrent
  <1>4. CASE \E obs : \E p, c : StepError(obs, p, c)
    BY <1>4, ErrorCurrent
  <1>5. CASE EntryInside
    <2>1. PICK url, obs : /\ url \in Shown \cap Origin /\ obs = Seen(observation, url)
                          /\ Advance("act", Declare(obs, index)) /\ pc = "entry"
      BY <1>5 DEF EntryInside, ReadsInside
    <2>2. PICK next : next = Declare(obs, index)
      OBVIOUS
    <2>3. /\ obs \in Observation /\ obs.observed \in Exact
          /\ obs.shot = 0 /\ obs.click = 0 /\ obs.artifact = "none"
          /\ obs.action \in {"none", "not_attempted"}
      BY <1>2, <2>1, SeenFields, SeenType, InsideIsExact DEF CurrentInv, NothingShown, Unread
    <2>4. /\ next.observed \in Exact
          /\ next.shot = 0 /\ next.click = 0 /\ next.artifact = "none"
          /\ next.action \in {"none", "not_attempted"}
      BY <2>2, <2>3 DEF Declare, Observation
    <2> QED BY <2>1, <2>2, <2>4, AdvanceCurrent
  <1>6. CASE Navigate
    <2>1. Advance("arrived", observation) /\ pc = "act" /\ Current.kind = "navigate"
      BY <1>6 DEF Navigate, Acting
    <2> QED BY <2>1, LinkKnown, AdvanceCurrent
  <1>7. CASE LookForTarget
    <2>1. PICK next, obs : /\ next \in {"hidden", "box", "text"}
                           /\ \E v : obs = [observation EXCEPT !.visible = v]
                           /\ Advance(next, obs) /\ pc = "act"
                           /\ Current.kind \in {"check_text", "capture"}
                           /\ next = "box" <=> Current.kind = "capture" /\ next # "hidden"
      BY <1>7 DEF LookForTarget, Acting
    <2>2. /\ obs.observed = observation.observed /\ obs.shot = observation.shot
          /\ obs.click = observation.click /\ obs.artifact = observation.artifact
          /\ obs.action = observation.action
      BY <1>2, <2>1 DEF Observation
    <2> QED BY <2>1, <2>2, LinkKnown, AdvanceCurrent DEF Evidential
  <1>8. CASE BoundingBox
    <2>1. /\ Advance("shot", observation) /\ pc = "box" /\ Succeeds("bounding_box")
          /\ capture' = [capture EXCEPT !.box = Len(records')]
      BY <1>8 DEF BoundingBox
    <2>2. Len(records') \in Issued("bounding_box")'
      <3>1. Recorded("bounding_box") /\ records' # records
        BY <1>2, <2>1, CommandRecorded DEF Succeeds, Record, TypeOK, SessionOK
      <3> QED BY <1>2, <3>1, IssuedGrows DEF Capabilities, StepCapabilities
    <2>3. capture'.box = Len(records') /\ capture'.href = capture.href
      BY <1>2, <2>1 DEF Capture
    <2>4. safe_url(capture.href)' = safe_url(capture.href)
      BY <2>3 DEF safe_url
    <2>5. /\ pc' = "shot" /\ observation' = observation /\ hasNavigated' = hasNavigated
          /\ Current' = Current
      BY <2>1, AdvanceKeeps
    <2>6. KindOfPoint' /\ StepTold'
      BY <2>1, <2>5 DEF CurrentInv, KindOfPoint, StepTold
    <2>7. PageKnown' /\ LinkRead'
      BY <2>1, <2>4, <2>5 DEF CurrentInv, PageKnown, LinkRead
    <2>8. ShotAfterBox' /\ NothingShown'
      BY <2>1, <2>2, <2>3, <2>5 DEF CurrentInv, ShotAfterBox, NothingShown
    <2> QED BY <2>6, <2>7, <2>8 DEF CurrentInv
  <1>9. CASE LinkPreflight
    <2>1. PICK url, obs : /\ url \in Shown \cap Origin /\ obs = Seen(observation, url)
                          /\ Advance("link_visible", obs) /\ pc = "act"
                          /\ Current.kind = "follow_link"
      BY <1>9 DEF LinkPreflight, ReadsInside, Acting
    <2>2. hasNavigated
      BY <2>1, NavigatedFirst
    <2>3. /\ obs.observed = observation.observed /\ obs.shot = 0 /\ obs.click = 0
          /\ obs.artifact = "none" /\ obs.action \in {"none", "not_attempted"}
      BY <1>2, <2>1, SeenFields, LinkKnown DEF Unread
    <2> QED BY <2>1, <2>2, <2>3, LinkKnown, AdvanceCurrent
  <1>10. CASE LinkVisible /\ Going
    <2>1. CASE Advance("link_enabled", [observation EXCEPT !.visible = "yes"])
      <3>1. PICK obs : obs = [observation EXCEPT !.visible = "yes"]
        OBVIOUS
      <3>2. /\ obs.observed = observation.observed /\ obs.shot = observation.shot
            /\ obs.click = observation.click /\ obs.artifact = observation.artifact
            /\ obs.action = observation.action /\ obs.visible = "yes"
        BY <1>2, <3>1 DEF Observation
      <3>3. pc = "link_visible"
        BY <1>10 DEF LinkVisible
      <3> QED BY <2>1, <3>1, <3>2, <3>3, LinkKnown, AdvanceCurrent
    <2> QED BY <1>3, <1>10, <2>1 DEF LinkVisible
  <1>11. CASE LinkEnabled /\ Going
    <2>1. CASE Advance("link_href", [observation EXCEPT !.enabled = "yes"])
      <3>1. PICK obs : obs = [observation EXCEPT !.enabled = "yes"]
        OBVIOUS
      <3>2. /\ obs.observed = observation.observed /\ obs.shot = observation.shot
            /\ obs.click = observation.click /\ obs.artifact = observation.artifact
            /\ obs.action = observation.action /\ obs.visible = observation.visible
            /\ obs.enabled = "yes"
        BY <1>2, <3>1 DEF Observation
      <3>3. pc = "link_enabled"
        BY <1>11 DEF LinkEnabled
      <3> QED BY <2>1, <3>1, <3>2, <3>3, LinkKnown, AdvanceCurrent
    <2> QED BY <1>3, <1>11, <2>1 DEF LinkEnabled
  <1>12. CASE LinkHref /\ Going
    <2>1. ASSUME NEW href, Advance("box", [observation EXCEPT !.href = safe_url(href)]),
                 capture' = [NoCapture EXCEPT !.href = href]
          PROVE  CurrentInv'
      <3>1. PICK obs : obs = [observation EXCEPT !.href = safe_url(href)]
        OBVIOUS
      <3>2. /\ obs.observed = observation.observed /\ obs.shot = observation.shot
            /\ obs.click = observation.click /\ obs.artifact = observation.artifact
            /\ obs.action = observation.action /\ obs.visible = observation.visible
            /\ obs.enabled = observation.enabled /\ obs.href = safe_url(href)
        BY <1>2, <3>1 DEF Observation
      <3>3. pc = "link_href" /\ capture'.href = href
        BY <1>12, <2>1 DEF LinkHref, NoCapture
      <3> QED BY <2>1, <3>1, <3>2, <3>3, LinkKnown, AdvanceCurrent DEF Evidential
    <2> QED BY <1>3, <1>12, <2>1 DEF LinkHref
  <1>13. CASE LinkReady
    <2>1. /\ Advance("click", observation) /\ pc = "shot" /\ capture' = Taken
          /\ Current.kind = "follow_link" /\ capture.href = Current.url /\ Succeeds("screenshot")
      BY <1>13 DEF LinkReady
    <2>2. /\ Len(records') = Len(records) + 1 /\ Len(records) \in Nat
          /\ Len(records') \in Issued("screenshot")' /\ Issued("bounding_box") \subseteq Issued("bounding_box")'
      <3>1. Recorded("screenshot") /\ records' # records
        BY <1>2, <2>1, CommandRecorded DEF Succeeds, Record, TypeOK, SessionOK
      <3> QED BY <1>2, <3>1, IssuedGrows, RecordsLength DEF Capabilities, StepCapabilities
    <2>3. /\ capture'.box = capture.box /\ capture'.shot = Len(records') /\ capture'.href = capture.href
          /\ safe_url(capture.href)' = safe_url(capture.href)
      BY <1>2, <2>1, <2>2 DEF Capture, Taken, safe_url
    <2>4. /\ pc' = "click" /\ observation' = observation /\ hasNavigated' = hasNavigated
          /\ Current' = Current
      BY <2>1, AdvanceKeeps
    <2>5. KindOfPoint' /\ StepTold'
      BY <2>1, <2>4 DEF CurrentInv, KindOfPoint, StepTold
    <2>6. PageKnown' /\ LinkRead'
      BY <2>1, <2>3, <2>4 DEF CurrentInv, PageKnown, LinkRead
    <2>7. ShotAfterBox' /\ NothingShown'
      BY <2>1, <2>2, <2>3, <2>4 DEF CurrentInv, ShotAfterBox, NothingShown
    <2> QED BY <2>5, <2>6, <2>7 DEF CurrentInv
  <1>14. CASE Click /\ Going
    <2>1. CASE Advance("landed", Acknowledge(Len(records'), 3)) /\ KeepArtifacts(3) /\ capture' = capture
      <3>1. PICK clicked, obs : clicked = Len(records') /\ obs = Acknowledge(clicked, 3)
        OBVIOUS
      <3>2. pc = "click" /\ Succeeds("click") /\ Performed
        BY <1>14 DEF Click
      <3>3. Recorded("click") /\ records' # records /\ Len(records') \in Nat
        BY <1>2, <3>2, CommandRecorded, RecordsLength, StepEffects
        DEF Succeeds, Record, TypeOK, SessionOK, EffectsOK
      <3>4. performed'[k] = 1
        BY <1>1, <1>2, <3>2, Unclicked DEF Performed, TypeOK, SessionOK, ControlOK
      <3>5. Truthful(k, obs)'
        BY <1>1, <2>1, <3>1, <3>2, <3>3, <3>4, ClickTold
      <3>6. /\ obs.action = "driver_acknowledged" /\ obs.artifact = "focused"
            /\ obs.observed = observation.observed /\ obs.visible = observation.visible
            /\ obs.enabled = observation.enabled /\ obs.href = observation.href
        BY <1>2, <3>1, <3>3, CapturedType, CapturedFields DEF Acknowledge, Observation
      <3>7. Truthful(index, observation)'
        BY <1>1, <2>1, <3>1, <3>5, AdvanceKeeps
      <3>8. safe_url(capture.href)' = safe_url(capture.href)
        BY <2>1 DEF safe_url
      <3>9. /\ pc' = "landed" /\ observation' = obs /\ hasNavigated' = hasNavigated
            /\ Current' = Current
        BY <2>1, <3>1, AdvanceKeeps
      <3>10. KindOfPoint' /\ StepTold'
        BY <3>2, <3>6, <3>7, <3>9 DEF CurrentInv, KindOfPoint, StepTold
      <3>11. PageKnown' /\ LinkRead'
        BY <2>1, <3>2, <3>6, <3>8, <3>9 DEF CurrentInv, PageKnown, LinkRead
      <3>12. ShotAfterBox' /\ NothingShown'
        BY <3>9 DEF ShotAfterBox, NothingShown
      <3> QED BY <3>10, <3>11, <3>12 DEF CurrentInv
    <2> QED BY <1>4, <1>14, <2>1 DEF Click
  <1>15. CASE Arrive \/ CheckUrl
    <2>1. PICK url, obs, res :
            /\ url \in Shown \cap Origin /\ res \in {"passed", "failed"} /\ Settle(obs, res)
            /\ \/ obs = Seen(observation, url) /\ res = "passed" /\ pc = "arrived"
               \/ /\ \E v : obs = [Seen(observation, url) EXCEPT !.matched = v]
                  /\ Current.kind = "check_url" /\ pc = "act"
      BY <1>15 DEF Arrive, CheckUrl, ReadsInside, Acting
    <2>2. /\ obs.shot = observation.shot /\ obs.click = observation.click
          /\ obs.artifact = observation.artifact /\ obs.action = observation.action
          /\ obs.observed \in Exact
      <3>1. PICK seen : seen = Seen(observation, url)
        OBVIOUS
      <3>2. seen \in Observation /\ seen.observed \in Exact /\ \A f \in Unread : seen[f] = observation[f]
        BY <1>2, <2>1, <3>1, SeenFields, SeenType, InsideIsExact
      <3> QED BY <2>1, <3>1, <3>2 DEF Observation, Unread
    <2>3. Truthful(k, obs)'
      BY <1>1, <2>1, <2>2, NothingTold
    <2>4. /\ Current.kind # "follow_link"
          /\ Current.kind = "navigate" => res = "passed"
      BY <2>1 DEF CurrentInv, KindOfPoint
    <2> QED BY <1>1, <2>1, <2>2, <2>3, <2>4, SettleCurrent
  <1>16. CASE CheckText
    <2>1. PICK obs, res : /\ res \in {"passed", "failed"} /\ Settle(obs, res) /\ pc = "text"
                          /\ \E v : obs = [observation EXCEPT !.matched = v]
      BY <1>16 DEF CheckText
    <2>2. /\ obs.shot = observation.shot /\ obs.click = observation.click
          /\ obs.artifact = observation.artifact /\ obs.action = observation.action
          /\ obs.observed = observation.observed
      BY <1>2, <2>1 DEF Observation
    <2>3. Truthful(k, obs)'
      BY <1>1, <2>1, <2>2, NothingTold
    <2>4. Current.kind = "check_text"
      BY <2>1 DEF CurrentInv, KindOfPoint
    <2> QED BY <1>1, <2>1, <2>2, <2>3, <2>4, LinkKnown, SettleCurrent
  <1>17. CASE CaptureEvidence
    <2>1. PICK obs : /\ obs = Captured(observation, Taken, 0, 3) /\ Settle(obs, "passed")
                     /\ pc = "shot" /\ Succeeds("screenshot") /\ KeepArtifacts(3)
                     /\ Current.kind = "capture"
      BY <1>17 DEF CaptureEvidence
    <2>2. Truthful(k, obs)' /\ obs.observed = observation.observed
      BY <1>1, <2>1, PictureTold
    <2> QED BY <1>1, <2>1, <2>2, LinkKnown, SettleCurrent
  <1>18. CASE Landed
    <2>1. PICK url, obs, res :
            /\ url \in Shown \cap Origin /\ res \in {"passed", "failed"} /\ Settle(obs, res)
            /\ \/ /\ res = "passed"
                  /\ obs = [Seen(observation, url) EXCEPT !.matched = "yes", !.action = "effect_verified"]
               \/ res = "failed" /\ obs = Unmatched(Seen(observation, url))
      BY <1>18 DEF Landed, ReadsInside
    <2>2. /\ pc = "landed" /\ Current.kind = "follow_link"
          /\ observation.action = "driver_acknowledged" /\ observation.artifact = "focused"
      BY <1>18 DEF Landed, CurrentInv, KindOfPoint, StepTold
    <2>3. /\ \A f \in {"box", "shot", "click", "artifact", "href", "visible", "enabled"} :
               obs[f] = observation[f]
          /\ obs.observed \in Exact
          /\ res = "passed" => obs.action = "effect_verified" /\ obs.matched = "yes"
          /\ res = "failed" => obs.action = observation.action
      <3>1. PICK seen : seen = Seen(observation, url)
        OBVIOUS
      <3>2. seen \in Observation /\ seen.observed \in Exact /\ \A f \in Unread : seen[f] = observation[f]
        BY <1>2, <2>1, <2>2, <3>1, SeenFields, SeenType, InsideIsExact
      <3>3. \/ /\ res = "passed"
               /\ obs = [seen EXCEPT !.matched = "yes", !.action = "effect_verified"]
            \/ res = "failed" /\ obs = [seen EXCEPT !.matched = "no"]
        BY <2>1, <3>1 DEF Unmatched
      <3>4. /\ obs.box = seen.box /\ obs.shot = seen.shot /\ obs.click = seen.click
            /\ obs.artifact = seen.artifact /\ obs.href = seen.href /\ obs.visible = seen.visible
            /\ obs.enabled = seen.enabled /\ obs.observed = seen.observed
            /\ res = "passed" => obs.action = "effect_verified" /\ obs.matched = "yes"
            /\ res = "failed" => obs.action = seen.action
        BY <3>2, <3>3 DEF Observation
      <3> QED BY <3>2, <3>4 DEF Unread
    <2>4. Truthful(k, obs)'
      BY <1>1, <2>1, <2>2, <2>3, SameTold
    <2> QED BY <1>1, <2>1, <2>2, <2>3, <2>4, SettleCurrent
  <1>19. CASE UrlOutside \/ TrailingInside \/ HiddenInside \/ NavigationBlocked \/ LinkRefused
    BY <1>3, <1>19 DEF UrlOutside, TrailingInside, HiddenInside, NavigationBlocked, LinkRefused
  <1>20. CASE StrayInspection \/ StepCommandFails \/ EvidenceFails \/ ClickNeedsConfirmation
              \/ ClickFails \/ LandingUnknown
    BY <1>4, <1>20 DEF StrayInspection, StepCommandFails, EvidenceFails, ClickNeedsConfirmation,
                       ClickFails, LandingUnknown
  <1>21. CASE ~Going /\ (LinkVisible \/ LinkEnabled \/ LinkHref)
    <2>1. \E obs : StepResult(obs, "failed")
      BY <1>21, AdvanceGoes DEF LinkVisible, LinkEnabled, LinkHref
    <2> QED BY <1>3, <2>1
  <1>22. CASE ~Going /\ Click
    <2>1. \E obs : StepError(obs, "error", "action_effect_unknown")
      BY <1>22, AdvanceGoes DEF Click
    <2> QED BY <1>4, <2>1
  <1> QED BY <1>5, <1>6, <1>7, <1>8, <1>9, <1>10, <1>11, <1>12, <1>13, <1>14, <1>15, <1>16, <1>17,
             <1>18, <1>19, <1>20, <1>21, <1>22 DEF JourneyStep
-----------------------------------------------------------------------------
(* The clicks and the sign-in *)

\* A step changes the sign-in only by verifying it.
LEMMA StepVerifies ==
  ASSUME Outline, PastVerification, JourneyStep
  PROVE  /\ authentication = "verified" => authentication' = "verified"
         /\ PastVerification'
  <1>1. TypeOK /\ Admission /\ pc \in StepPoints /\ index \in Nat /\ journey' = journey
    BY StepCommand, StepOutline, StepIndex DEF Outline, Inductive
  <1>2. journey.schema = 4 => journey.auth.verify \in Nat
    BY <1>1, BeforeVerification
  <1>3. CASE Going
    <2>1. index' = index /\ authentication' = authentication
      BY <1>3 DEF Going
    <2> QED BY <1>1, <2>1 DEF PastVerification
  <1>4. ASSUME NEW obs, NEW p, NEW c, StepError(obs, p, c)
        PROVE  authentication' = authentication /\ pc' \in ClosingPoints
    BY <1>4 DEF StepError, EndStep, Conclude, ClosingPoints
  <1>5. ASSUME NEW obs, NEW res \in {"passed", "failed", "blocked"}, StepResult(obs, res)
        PROVE  /\ authentication = "verified" => authentication' = "verified"
               /\ PastVerification'
    <2>1. authentication' = IF Verifying /\ res = "passed" THEN "verified" ELSE authentication
      BY <1>5 DEF StepResult
    <2>2. CASE pc' \in StepPoints
      <3>1. /\ index' = index + 1
            /\ Verifying => res = "passed"
        BY <1>5, <2>2 DEF StepResult, EndStep, Conclude, StartStep, StepPoints
      <3>2. ASSUME journey.schema = 4, index' > journey.auth.verify
            PROVE  authentication' = "verified"
        <4>1. index > journey.auth.verify \/ index = journey.auth.verify
          BY <1>1, <1>2, <3>1, <3>2
        <4> QED BY <1>1, <2>1, <3>1, <3>2, <4>1 DEF PastVerification, Verifying
      <3> QED BY <1>1, <2>1, <3>2 DEF PastVerification
    <2> QED BY <2>1, <2>2 DEF PastVerification
  <1>6. ClosingPoints \cap StepPoints = {}
    BY DEF ClosingPoints, StepPoints
  <1> QED BY <1>1, <1>3, <1>4, <1>5, <1>6, JourneyShape DEF PastVerification

\* No evidence is taken and nothing is clicked before the sign-in is verified.
LEMMA EvidenceAfterSignIn ==
  ASSUME Story, pc \in {"box", "shot", "click"}, journey.schema = 4
  PROVE  authentication = "verified"
  <1>1. TypeOK /\ Admission /\ StepsInOrder /\ pc \in StepPoints
    BY DEF Story, Outline, Inductive, StepPoints
  <1>2. Current.kind \in Evidential
    BY DEF Story, CurrentInv, KindOfPoint, LinkOnly, Evidential
  <1>3. index \in Nat \ {0} /\ index \notin 1 .. journey.auth.verify
    BY <1>1, <1>2, BeforeVerification, StepIndex DEF Current
  <1> QED BY <1>1, <1>3, BeforeVerification DEF Story, StoryInv, PastVerification

\* A click follows its picture.
LEMMA StepClicksDocumented ==
  ASSUME Story, JourneyStep
  PROVE  ClicksDocumented'
  <1>1. TypeOK /\ pc \in StepPoints /\ Recorded(Command)
    BY StepRecorded, StepCommand DEF Story, Outline, Inductive
  <1>2. \A c : Issued(c) \subseteq Issued(c)'
    BY StepLeaves DEF Story
  <1>3. CASE pc # "click" \/ records' = records
    <2>1. Issued("click")' = Issued("click")
      <3>1. CASE pc # "click"
        BY <1>1, <3>1, EvidencePoints, IssuedGrows
      <3>2. CASE records' = records
        BY <3>2 DEF Issued
      <3> QED BY <1>3, <3>1, <3>2
    <2> QED BY <1>2, <2>1 DEF Story, StoryInv, ClicksDocumented
  <1>4. CASE pc = "click" /\ records' # records
    <2>1. /\ Issued("click")' = Issued("click") \cup {Len(records')}
          /\ Len(records') = Len(records) + 1 /\ Len(records) \in Nat
      BY <1>1, <1>4, EvidencePoints, IssuedGrows, RecordsLength
    <2>2. /\ capture.shot = Len(records) /\ capture.shot \in Issued("screenshot")
          /\ capture.shot = capture.box + 1 /\ capture.box \in Issued("bounding_box")
          /\ capture.box \in Nat
      BY <1>1, <1>4, StepState DEF Story, CurrentInv, ShotAfterBox, Capture
    <2>3. /\ Len(records') - 1 \in Issued("screenshot")'
          /\ Len(records') - 2 \in Issued("bounding_box")'
      BY <1>2, <2>1, <2>2
    <2> QED BY <1>2, <2>1, <2>3 DEF Story, StoryInv, ClicksDocumented
  <1> QED BY <1>3, <1>4

\* Whatever a step does, the steps before it stay as they were recorded.
LEMMA StepsKept ==
  ASSUME Outline, JourneyStep
  PROVE  /\ DOMAIN steps \subseteq DOMAIN steps' /\ index \notin DOMAIN steps
         /\ \A i \in DOMAIN steps : steps'[i] = steps[i]
         /\ DOMAIN steps' \subseteq DOMAIN steps \cup {index}
         /\ pc' \notin StepPoints => DOMAIN steps' = DOMAIN steps \cup {index}
         /\ DOMAIN steps = 1 .. index - 1 /\ index \in 1 .. MaxSteps
  <1>1. TypeOK /\ StepsInOrder /\ pc \in StepPoints
    BY StepCommand DEF Outline, Inductive
  <1>2. DOMAIN steps = 1 .. index - 1 /\ index \in 1 .. MaxSteps /\ index \notin DOMAIN steps
    BY <1>1, StepIndex
  <1>3. CASE Going
    BY <1>2, <1>3 DEF Going
  <1>4. ASSUME NEW obs, NEW status, NEW p, NEW c, NEW stop, EndStep(obs, status, p, c, stop)
        PROVE  /\ DOMAIN steps' = DOMAIN steps \cup {index}
               /\ \A i \in DOMAIN steps : steps'[i] = steps[i]
    <2>1. /\ DOMAIN steps = 1 .. index - 1 /\ DOMAIN steps' = 1 .. index
          /\ \A i \in 1 .. index - 1 : steps'[i] = steps[i]
      BY <1>1, <1>4, EndStepRecords
    <2>2. 1 .. index = (1 .. index - 1) \cup {index}
      BY <1>2
    <2> QED BY <2>1, <2>2
  <1> QED BY <1>1, <1>2, <1>3, <1>4, JourneyEnds DEF Ends

\* A click follows every gate, the sign-in and every earlier step.
LEMMA StepClicksLicensed ==
  ASSUME Story, JourneyStep
  PROVE  ClicksLicensed' /\ ClicksRecorded'
  <1>1. /\ TypeOK /\ Admission /\ Clicking /\ pc \in StepPoints
        /\ journey' = journey /\ opts' = opts
    BY StepCommand, StepOutline DEF Story, Outline, Inductive, Clicking
  <1>2. /\ DOMAIN steps = 1 .. index - 1 /\ index \in 1 .. MaxSteps
        /\ \A i \in DOMAIN steps : i \in DOMAIN steps' /\ steps'[i] = steps[i]
        /\ pc' \notin StepPoints => DOMAIN steps' = DOMAIN steps \cup {index}
    BY StepsKept DEF Story
  <1>3. authentication = "verified" => authentication' = "verified"
    BY StepVerifies DEF Story, StoryInv
  <1>4. ASSUME NEW i \in 1 .. MaxSteps, Licensed(i)
        PROVE  Licensed(i)'
    BY <1>1, <1>2, <1>3, <1>4 DEF Licensed, Links
  <1>5. ASSUME NEW i \in 1 .. MaxSteps, performed'[i] > 0, ~(performed[i] > 0)
        PROVE  Licensed(i) /\ i = index
    <2>1. pc = "click" /\ i = index
      BY <1>5, StepLeaves DEF Story
    <2>2. Current.kind = "follow_link"
      BY <2>1 DEF Story, CurrentInv, KindOfPoint, LinkOnly
    <2>3. index \in Links
      BY <1>1, <2>2, LinkStep
    <2>4. opts.origin = "match" /\ opts.grants.wellFormed /\ opts.grants.named = Links
      BY <1>1, <2>3, AdmittedGrants DEF Admission
    <2>5. journey.schema = 4 => authentication = "verified"
      BY <2>1, EvidenceAfterSignIn
    <2>6. \A k \in 1 .. i - 1 : k \in DOMAIN steps /\ steps[k].status \in {"passed", "failed"}
      BY <1>1, <1>2, <2>1 DEF Story, Outline, VerdictInv, StepsGoOn
    <2> QED BY <2>1, <2>3, <2>4, <2>5, <2>6 DEF Licensed
  <1>6. ClicksLicensed'
    BY <1>4, <1>5 DEF Story, StoryInv, ClicksLicensed
  <1>7. ASSUME pc' \notin StepPoints, NEW i \in 1 .. MaxSteps, performed'[i] > 0
        PROVE  i \in DOMAIN steps'
    <2>1. CASE performed[i] > 0
      <3>1. performed[i] = 1
        BY <1>1, <2>1 DEF TypeOK, SessionOK, Clicking, ClicksAccounted
      <3> QED BY <1>1, <1>2, <1>7, <3>1 DEF Clicking, ClicksAccounted
    <2>2. CASE ~(performed[i] > 0)
      BY <1>2, <1>5, <1>7, <2>2
    <2> QED BY <2>1, <2>2
  <1> QED BY <1>6, <1>7 DEF ClicksRecorded

\* Nothing is shown or clicked before the sign-in is verified.
LEMMA StepVerifiedFirst ==
  ASSUME Story, JourneyStep, RecordsTold'
  PROVE  VerifiedFirst'
  <1>1. /\ TypeOK /\ Admission /\ pc \in StepPoints /\ journey' = journey
    BY StepCommand, StepOutline DEF Story, Outline, Inductive
  <1> SUFFICES ASSUME journey.schema = 4, authentication' # "verified"
               PROVE  /\ Issued("bounding_box")' \cup Issued("screenshot")' \cup Issued("click")' = {}
                      /\ artifacts' \subseteq {TraceArtifact}
                      /\ \A i \in DOMAIN steps' :
                           /\ ~journey.steps[i].guide
                           /\ i < journey.auth.verify => steps'[i].status # "failed"
                      /\ Len(steps') <= journey.auth.verify
    BY <1>1 DEF VerifiedFirst
  <1>2. authentication # "verified"
    BY StepVerifies DEF Story, StoryInv
  <1>3. pc \notin {"box", "shot", "click"}
    BY <1>2, EvidenceAfterSignIn
  <1>4. /\ Issued("bounding_box") \cup Issued("screenshot") \cup Issued("click") = {}
        /\ artifacts \subseteq {TraceArtifact}
    BY <1>2 DEF Story, StoryInv, VerifiedFirst
  <1>5. /\ Issued("bounding_box")' = Issued("bounding_box")
        /\ Issued("screenshot")' = Issued("screenshot") /\ Issued("click")' = Issued("click")
    BY <1>1, <1>3, StepRecorded, EvidencePoints, IssuedGrows
  <1>6. artifacts' = artifacts
    BY <1>3 DEF JourneyStep, UrlOutside, StrayInspection, StepCommandFails, EntryInside,
                TrailingInside, HiddenInside, Navigate, NavigationBlocked, Arrive, CheckUrl,
                LookForTarget, CheckText, BoundingBox, CaptureEvidence, EvidenceFails,
                LinkPreflight, LinkVisible, LinkEnabled, LinkHref, LinkRefused, LinkReady, Click,
                ClickNeedsConfirmation, ClickFails, Landed, LandingUnknown
  <1>7. /\ journey.auth.verify \in Nat \ {0} /\ index \in Nat
        /\ \A i \in 1 .. journey.auth.verify : ~journey.steps[i].guide
        /\ \A i \in 1 .. journey.auth.verify - 1 : journey.steps[i].kind = "navigate"
    BY <1>1, BeforeVerification, StepIndex DEF Story, Outline, Inductive
  <1>8. index <= journey.auth.verify
    BY <1>1, <1>2, <1>7 DEF Story, StoryInv, PastVerification
  <1>9. DOMAIN steps' \subseteq 1 .. index /\ Len(steps') <= index
    <2>1. CASE Going
      BY <1>1, <2>1, StepIndex DEF Going, Story, Outline, Inductive
    <2>2. ASSUME NEW obs, NEW status, NEW p, NEW c, NEW stop, EndStep(obs, status, p, c, stop)
          PROVE  Len(steps') = index /\ DOMAIN steps' = 1 .. index
      BY <1>1, <2>2, EndStepRecords DEF Story, Outline, Inductive
    <2> QED BY <1>1, <1>7, <2>1, <2>2, JourneyEnds DEF Ends
  <1>10. ASSUME NEW i \in DOMAIN steps'
         PROVE  /\ ~journey.steps[i].guide
                /\ i < journey.auth.verify => steps'[i].status # "failed"
    <2>1. i \in 1 .. journey.auth.verify
      BY <1>7, <1>8, <1>9
    <2>2. journey.steps[i].kind = "navigate" => steps'[i].status # "failed"
      BY <1>1 DEF RecordsTold, RecordTold
    <2>3. i < journey.auth.verify => i \in 1 .. journey.auth.verify - 1
      BY <1>7, <2>1
    <2> QED BY <1>7, <2>1, <2>2, <2>3
  <1>11. Len(steps') <= journey.auth.verify
    <2>1. Len(steps') \in Nat
      BY JourneyStepType, <1>1 DEF TypeOK, ReportOK
    <2> QED BY <1>7, <1>8, <1>9, <2>1
  <1> QED BY <1>4, <1>5, <1>6, <1>10, <1>11

\* Every command of a step keeps the story.
LEMMA JourneyStepStory ==
  ASSUME Story, JourneyStep
  PROVE  StoryInv'
  <1>1. RecordsTold'
    BY JourneyStepRecords DEF Story, StoryInv
  <1>2. Unverified'
    <2>1. TypeOK
      BY DEF Story, Outline, Inductive
    <2> QED BY <2>1, StepOutline DEF Unverified, StepPoints, ClosingPoints, SetupPoints
  <1> QED BY <1>1, <1>2, StepClicksDocumented, StepVerifies, StepClicksLicensed, StepVerifiedFirst
          DEF Story, StoryInv
-----------------------------------------------------------------------------
(* Before and after the steps *)

\* The commands that leave evidence.
Telling == {"bounding_box", "screenshot", "click"}

\* There is nothing to tell of a run that has not begun.
LEMMA InitStory == Init => CurrentInv /\ StoryInv
  <1> SUFFICES ASSUME Init PROVE CurrentInv /\ StoryInv
    OBVIOUS
  <1>1. CurrentInv
    BY DEF Init, CurrentInv, KindOfPoint, PageKnown, LinkRead, ShotAfterBox, NothingShown,
           StepTold, OnLink, LinkOnly, StepPoints
  <1>2. steps = <<>> /\ records = <<>> /\ artifacts = {} /\ pc = "preflight"
        /\ \A i \in 1 .. MaxSteps : performed[i] = 0
    BY DEF Init
  <1>3. \A c : Issued(c) = {}
    BY <1>2 DEF Issued
  <1>4. /\ RecordsTold /\ ClicksDocumented /\ PastVerification /\ Unverified
        /\ ClicksLicensed /\ ClicksRecorded
    BY <1>2, <1>3 DEF Init, Unverified, RecordsTold, ClicksDocumented, PastVerification, ClicksLicensed,
                      ClicksRecorded, StepPoints
  <1>5. VerifiedFirst
    <2>1. journey \in Document
      BY InputsAssumption DEF Init
    <2>2. journey.auth.verify \in Nat /\ Len(steps) = 0
      BY <1>2, <2>1 DEF Document, Authentication
    <2> QED BY <1>2, <1>3, <2>2 DEF VerifiedFirst
  <1> QED BY <1>1, <1>4, <1>5 DEF StoryInv

\* Setup leaves no evidence, clicks nothing and executes no step.
LEMMA SetupLeaves ==
  ASSUME Outline, SetupStep
  PROVE  /\ steps = <<>> /\ steps' = <<>>
         /\ \A i \in 1 .. MaxSteps : performed'[i] = 0
         /\ \A c \in Telling : Issued(c)' = Issued(c)
         /\ UNCHANGED <<artifacts, journey>>
         /\ pc \in {"preflight"} \cup SetupPoints
         /\ \/ pc' \in {"preflight"} \cup SetupPoints \cup Ended
            \/ pc = "trace_start" /\ StartStep(1, FALSE)
  <1>1. TypeOK /\ Clicking
    BY DEF Outline, Inductive, Clicking
  <1>2. pc \in {"preflight"} \cup SetupPoints
    BY DEF SetupStep, RunDirectoryUnavailable, Refuse, DriverUnavailable, Launch, Prepare,
           SetupCommandFails, StageState, StageFails, LoadState, LoadOrRemovalFails, StartTrace,
           EndEarly, SetupPoints
  <1>3. steps = <<>> /\ \A i \in 1 .. MaxSteps : performed[i] = 0
    BY <1>1, <1>2 DEF Clicking, StepsInOrder, ClicksAccounted
  <1>4. UNCHANGED <<steps, artifacts, journey, performed>>
    BY DEF SetupStep, RunDirectoryUnavailable, Refuse, DriverUnavailable, Launch, Prepare,
           SetupCommandFails, StageState, StageFails, LoadState, LoadOrRemovalFails, StartTrace,
           EndEarly, ContinueSetup, AbandonSetup, evidence, inputs
  <1>5. \A c \in Telling : Issued(c)' = Issued(c)
    <2>1. CASE records' = records
      BY <2>1 DEF Issued
    <2>2. ASSUME NEW capability \in {"set_viewport", "authentication_load", "trace_start"},
                 Recorded(capability)
          PROVE  \A c \in Telling : Issued(c)' = Issued(c)
      BY <1>1, <2>2, IssuedGrows DEF Telling, Capabilities
    <2> QED BY <1>1, <2>1, <2>2, SetupCommand
  <1>6. \/ pc' \in {"preflight"} \cup SetupPoints \cup Ended
        \/ pc = "trace_start" /\ StartStep(1, FALSE)
    BY DEF SetupStep, RunDirectoryUnavailable, Refuse, DriverUnavailable, Launch, Prepare,
           SetupCommandFails, StageState, StageFails, LoadState, LoadOrRemovalFails, StartTrace,
           EndEarly, ContinueSetup, AbandonSetup, Conclude, SetupPoints, Ended, ClosingPoints
  <1> QED BY <1>2, <1>3, <1>4, <1>5, <1>6

\* The setup has no step to tell of.
LEMMA SetupStepStory ==
  ASSUME Story, SetupStep
  PROVE  CurrentInv' /\ StoryInv'
  <1>1. TypeOK /\ Admission /\ Outline /\ TypeOK'
    BY SetupStepType DEF Story, Outline, Inductive
  <1>2. CurrentInv'
    BY <1>1, SetupLeaves, OverCurrent, FreshCurrent
  <1>3. RecordsTold' /\ ClicksLicensed' /\ ClicksRecorded'
    BY <1>1, SetupLeaves DEF RecordsTold, ClicksLicensed, ClicksRecorded
  <1>4. ClicksDocumented'
    BY <1>1, SetupLeaves DEF Telling, Story, StoryInv, ClicksDocumented
  <1>5. journey.auth.verify \in Nat /\ index' \in Nat
    <2>1. journey \in Document
      BY <1>1, InputsAssumption DEF TypeOK, ControlOK
    <2> QED BY <1>1, <2>1 DEF Document, Authentication, TypeOK, ControlOK
  <1>6. PastVerification'
    <2>1. CASE pc' \in {"preflight"} \cup SetupPoints \cup Ended
      BY <2>1 DEF PastVerification, SetupPoints, StepPoints, Ended, ClosingPoints
    <2>2. CASE pc = "trace_start" /\ StartStep(1, FALSE)
      <3>1. ValidJourney(journey) /\ index' = 1 /\ journey' = journey
        BY <1>1, <2>2, AdmittedValid, SetupLeaves DEF Admission, SetupPoints, StartStep
      <3>2. journey.schema = 4 => journey.auth.verify # 0
        BY <3>1 DEF ValidJourney, ValidAuthenticationFields
      <3> QED BY <1>5, <3>1, <3>2 DEF PastVerification
    <2> QED BY <1>1, <2>1, <2>2, SetupLeaves
  <1>7. VerifiedFirst'
    <2>1. authentication # "verified"
      BY <1>1, SetupLeaves DEF Story, StoryInv, Unverified
    <2> QED BY <1>1, <1>5, <2>1, SetupLeaves DEF Story, StoryInv, VerifiedFirst, Telling
  <1>8. Unverified'
    <2>1. authentication' \in {authentication, "none", "blocked", "load_failed"}
             \/ pc' \notin {"preflight"} \cup SetupPoints
      BY DEF SetupStep, RunDirectoryUnavailable, Refuse, DriverUnavailable, Launch, Prepare,
             SetupCommandFails, StageState, StageFails, LoadState, LoadOrRemovalFails, StartTrace,
             EndEarly, ContinueSetup, SetupPoints
    <2> QED BY <1>1, <2>1, SetupLeaves DEF Story, StoryInv, Unverified
  <1> QED BY <1>2, <1>3, <1>4, <1>6, <1>7, <1>8 DEF StoryInv

\* After the steps nothing they have recorded changes, and only the trace is added.
LEMMA ClosingLeaves ==
  ASSUME TypeOK, ClosingStep
  PROVE  /\ UNCHANGED <<journey, opts, steps, authentication, performed>>
         /\ \A c \in Telling : Issued(c)' = Issued(c)
         /\ artifacts \subseteq artifacts' /\ artifacts' \subseteq artifacts \cup {TraceArtifact}
         /\ pc' \in Ended
  <1>1. artifacts' = artifacts \/ artifacts' = artifacts \cup {TraceArtifact}
    BY DEF ClosingStep, Console, PageErrors, DiagnosticsFail, StopTrace, StopTraceFails,
           CloseSession, CloseFails, WriteReport, WriteReportFails
  <1>2. \A c \in Telling : Issued(c)' = Issued(c)
    <2>1. CASE records' = records
      BY <2>1 DEF Issued
    <2>2. CASE pc \in CleanupGrace /\ Recorded(pc)
      BY <2>2, IssuedGrows DEF Telling, Capabilities, CleanupGrace
    <2> QED BY <2>1, <2>2, ClosingIssues DEF CleanupGrace
  <1>3. pc' \in Ended
    BY ClosingOutline DEF Ended, ClosingPoints
  <1> QED BY <1>1, <1>2, <1>3, ClosingOutline

\* The closing adds nothing to the steps.
LEMMA ClosingStepStory ==
  ASSUME Story, ClosingStep
  PROVE  CurrentInv' /\ StoryInv'
  <1>1. TypeOK /\ pc \notin StepPoints /\ pc' \notin StepPoints
    BY ClosingOutline, ClosingLeaves
    DEF Story, Outline, Inductive, Ended, ClosingPoints, StepPoints
  <1>2. CurrentInv'
    BY <1>1, ClosingLeaves, OverCurrent
  <1>3. RecordsTold'
    <2> SUFFICES ASSUME NEW i \in DOMAIN steps
                 PROVE  i \in DOMAIN journey.steps /\ RecordTold(i)'
      BY <1>1, ClosingLeaves DEF RecordsTold
    <2>1. i \in DOMAIN journey.steps /\ RecordTold(i)
      BY DEF Story, StoryInv, RecordsTold
    <2>2. PICK obs : obs = steps[i].obs
      OBVIOUS
    <2>3. Truthful(i, obs)
      BY <2>1, <2>2 DEF RecordTold
    <2>4. Truthful(i, obs)'
      BY <1>1, <2>3, ClosingLeaves
      DEF Truthful, EvidenceTold, ActionTold, LinkTold, Telling
    <2>5. Truthful(i, steps[i].obs)'
      BY <1>1, <2>2, <2>4, ClosingLeaves
    <2> QED BY <1>1, <2>1, <2>5, ClosingLeaves DEF RecordTold
  <1>4. ClicksDocumented'
    BY <1>1, ClosingLeaves DEF Telling, Story, StoryInv, ClicksDocumented
  <1>5. PastVerification' /\ Unverified'
    <2>1. pc' \notin {"preflight"} \cup SetupPoints
      BY <1>1, ClosingLeaves DEF Ended, ClosingPoints, SetupPoints
    <2> QED BY <1>1, <2>1 DEF PastVerification, Unverified
  <1>6. ClicksLicensed' /\ ClicksRecorded'
    BY <1>1, ClosingLeaves DEF Story, StoryInv, ClicksLicensed, ClicksRecorded, Licensed, Links
  <1>7. VerifiedFirst'
    BY <1>1, ClosingLeaves DEF Story, StoryInv, VerifiedFirst, Telling
  <1> QED BY <1>2, <1>3, <1>4, <1>5, <1>6, <1>7 DEF StoryInv

\* Nor does the deadline.
LEMMA OtherStepStory ==
  ASSUME Story, DeadlinePasses \/ UNCHANGED vars
  PROVE  CurrentInv' /\ StoryInv'
  <1>1. UNCHANGED <<journey, opts, pc, index, result, hasNavigated, capture, observation,
                    records, performed, authentication, steps, artifacts>>
    BY DEF DeadlinePasses, vars, inputs, stepVars, evidence
  <1>2. \A c : Issued(c)' = Issued(c)
    BY <1>1 DEF Issued
  <1>3. Current' = Current
    BY <1>1 DEF Current
  <1>4. \A i, obs : Truthful(i, obs)' = Truthful(i, obs)
    BY <1>1, <1>2 DEF Truthful, EvidenceTold, ActionTold, LinkTold
  <1>5. CurrentInv'
    <2>1. Truthful(index, observation)' = Truthful(index, observation)
      BY <1>1, <1>4
    <2>2. safe_url(capture.href)' = safe_url(capture.href)
      BY <1>1 DEF safe_url
    <2> QED BY <1>1, <1>2, <1>3, <2>1, <2>2
            DEF Story, CurrentInv, KindOfPoint, PageKnown, LinkRead, ShotAfterBox, NothingShown,
                StepTold, OnLink
  <1>6. RecordsTold'
    <2>1. \A i : Truthful(i, steps[i].obs)' = Truthful(i, steps[i].obs)
      BY <1>1, <1>4
    <2> QED BY <1>1, <2>1 DEF Story, StoryInv, RecordsTold, RecordTold
  <1>7. ClicksDocumented' /\ PastVerification' /\ Unverified' /\ VerifiedFirst'
    BY <1>1, <1>2 DEF Story, StoryInv, ClicksDocumented, PastVerification, Unverified,
                      VerifiedFirst
  <1>8. ClicksLicensed' /\ ClicksRecorded'
    BY <1>1 DEF Story, StoryInv, ClicksLicensed, ClicksRecorded, Licensed, Links
  <1> QED BY <1>5, <1>6, <1>7, <1>8 DEF StoryInv
-----------------------------------------------------------------------------
(* Theorems *)

\* The story holds at the start.
LEMMA StoryInit == Init => Story
  BY OutlineInit, InitStory DEF Story

\* The story holds after every step.
LEMMA StoryStep == Story /\ [Next]_vars => Story'
  BY OutlineStep, JourneyStepCurrent, JourneyStepStory, SetupStepStory, ClosingStepStory,
     OtherStepStory
  DEF Story, Next, RunStep

\* The story of every run: what the runner knows of the step being executed, and what the
\* recorded steps have told.
THEOREM StoryInvariant == Spec => []Story
  BY StoryInit, StoryStep, PTL DEF Spec

\* Every click of every run was licensed by the operator, after the sign-in and the completion
\* of every earlier step, on a visible, enabled link to the declared destination.
THEOREM ClicksAreLicensed == Spec => []ClickLicensed
  <1>1. Story => ClickLicensed
    <2> SUFFICES ASSUME Story, NEW i \in DOMAIN performed, performed[i] > 0
                 PROVE  /\ Licensed(i)
                        /\ LET obs == IF i \in DOMAIN steps THEN steps[i].obs ELSE observation IN
                           obs.href = journey.steps[i].url /\ obs.visible = "yes" /\ obs.enabled = "yes"
      BY DEF Story, ClickLicensed, Licensed
    <2>1. i \in 1 .. MaxSteps /\ Licensed(i) /\ performed[i] = 1
      BY DEF Story, StoryInv, ClicksLicensed, Outline, Inductive, TypeOK, SessionOK, ClicksAccounted
    <2>2. CASE i \in DOMAIN steps
      BY <2>1, <2>2 DEF Story, StoryInv, RecordsTold, RecordTold, Truthful, LinkTold
    <2>3. CASE i \notin DOMAIN steps
      <3>1. i = index /\ pc \in {"landed", "trailing"}
        BY <2>1, <2>3 DEF Story, StoryInv, ClicksRecorded, Outline, Inductive, ClicksAccounted,
                          ClickPending
      <3> QED BY <2>1, <2>3, <3>1 DEF Story, CurrentInv, StepTold, Truthful, LinkTold
    <2> QED BY <2>1, <2>2, <2>3
  <1> QED BY <1>1, StoryInvariant, PTL

\* No report of any run understates what happened in the browser.
THEOREM ActionStatesAreHonest == Spec => []ActionStateHonest
  <1>1. Story => ActionStateHonest
    BY DEF Story, StoryInv, RecordsTold, RecordTold, Truthful, ActionTold, ActionStateHonest,
           DeliberateAction
  <1> QED BY <1>1, StoryInvariant, PTL

\* In every run each picture follows its bounding box, and each click its picture, at once.
THEOREM EvidenceIsAdjacent == Spec => []EvidenceAdjacent
  <1>1. Story => EvidenceAdjacent
    BY DEF Story, StoryInv, RecordsTold, RecordTold, Truthful, EvidenceTold, ClicksDocumented,
           EvidenceAdjacent, Issued
  <1> QED BY <1>1, StoryInvariant, PTL

\* In every run of an authenticated guide the sign-in is verified before anything is shown or
\* clicked.
THEOREM SignInComesFirst == Spec => []VerifiedFirst
  <1>1. Story => VerifiedFirst
    BY DEF Story, StoryInv
  <1> QED BY <1>1, StoryInvariant, PTL
=============================================================================
