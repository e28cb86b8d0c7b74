--------------------------- MODULE CrawlRun_proofs ---------------------------
(***************************************************************************)
(* Theorems about every crawlson run, for every site, journey, option and  *)
(* failure: no bound of the model-checked instances is assumed here.       *)
(* First types and clicks, then the outline of a run: its verdict, its     *)
(* sign-in state, its session and its cleanup.                             *)
(***************************************************************************)
EXTENDS CrawlRunInvariants, TLAPS

-----------------------------------------------------------------------------
(* Data *)

\* Whatever URL the browser shows, what the report says of it is free of its query.
LEMMA SafeUrl ==
  ASSUME NEW url
  PROVE  safe_url(url) \in Reported
  BY ReportedAssumption DEF safe_url, Reported

\* The observation every step starts from is one.
LEMMA NoObservationType == NoObservation \in Observation
  BY DEF NoObservation, Observation, Reported, Tri, ActionStates

\* What a URL read leaves in an observation.
LEMMA SeenType ==
  ASSUME NEW obs \in Observation, NEW url
  PROVE  Seen(obs, url) \in Observation
  BY SafeUrl DEF Seen, Observation

\* Declaring a step's expectation leaves an observation.
LEMMA DeclareType ==
  ASSUME NEW obs \in Observation, NEW k
  PROVE  Declare(obs, k) \in Observation
  BY SafeUrl DEF Declare, Observation, ActionStates

Capture == [href : Pages \cup {NoPage}, box : Nat, shot : Nat]

\* Adding a capture bundle to an observation leaves an observation.
LEMMA CapturedType ==
  ASSUME NEW obs \in Observation, NEW taken \in Capture, NEW clicked \in Nat, NEW n
  PROVE  Captured(obs, taken, clicked, n) \in Observation
  BY DEF Captured, Capture, Observation

\* What a step knows after its click, certain or not, is an observation.
LEMMA ClickedType ==
  ASSUME TypeOK, NEW clicked \in Nat, NEW n
  PROVE  /\ Acknowledge(clicked, n) \in Observation
         /\ Unknown(clicked, n) \in Observation
  <1>1. Captured(observation, capture, clicked, n) \in Observation
    BY CapturedType DEF TypeOK, ControlOK, Capture
  <1> QED BY <1>1 DEF Acknowledge, Unknown, Observation, ActionStates

\* A run that every gate admits has a valid journey: between one and MaxSteps steps.
LEMMA AdmittedValid ==
  ASSUME TypeOK, Admitted(journey, opts)
  PROVE  ValidJourney(journey)
  <1>1. 1 \in DOMAIN GateOrder /\ GateOrder[1] = "journey_invalid"
    BY DEF GateOrder
  <1> QED BY <1>1 DEF Admitted, Refuses

\* At a point of a step there is a step of the journey to execute.
LEMMA StepType ==
  ASSUME TypeOK, pc \in StepPoints
  PROVE  Current \in Step
  BY InputsAssumption DEF TypeOK, ControlOK, Document, Current
-----------------------------------------------------------------------------
(* The driver *)

\* The command a step issues next is one that steps issue.
LEMMA CommandType ==
  ASSUME TypeOK, pc \in StepPoints
  PROVE  Command \in StepCapabilities
  BY StepType DEF Command, ActCommand, StepPoints, StepCapabilities, Step, StepKinds

\* Whatever becomes of a command, it leaves at most one record, and none but of the
\* cleanup commands once the deadline has passed.
Recorded(capability) ==
  \/ records' = records
  \/ /\ Permitted(capability)
     /\ \E ok \in BOOLEAN :
          records' = Append(records, [capability |-> capability, ok |-> ok])

\* Every way a command can end is one of recording it.
LEMMA CommandRecorded ==
  ASSUME NEW capability, Errors(capability) \/ Fails(capability) \/ Succeeds(capability)
  PROVE  Recorded(capability)
  BY DEF Errors, Fails, Succeeds, Record, Recorded

\* A recorded command leaves a sequence of records.
LEMMA RecordedType ==
  ASSUME SessionOK, NEW capability \in Capabilities, Recorded(capability)
  PROVE  records' \in Seq(CommandRecord)
  <1>1. records \in Seq(CommandRecord)
    BY DEF SessionOK
  <1>2. CASE records' = records
    BY <1>1, <1>2
  <1>3. ASSUME NEW ok \in BOOLEAN,
               records' = Append(records, [capability |-> capability, ok |-> ok])
        PROVE  records' \in Seq(CommandRecord)
    <2>1. [capability |-> capability, ok |-> ok] \in CommandRecord
      BY <1>3 DEF CommandRecord
    <2> QED BY <1>1, <1>3, <2>1
  <1> QED BY <1>2, <1>3 DEF Recorded

\* The number of records is a number.
LEMMA RecordsLength ==
  ASSUME TypeOK
  PROVE  /\ Len(records) \in Nat
         /\ records' \in Seq(CommandRecord) => Len(records') \in Nat
  BY DEF TypeOK, SessionOK
-----------------------------------------------------------------------------
(* The fragments that the actions of a step are built from *)

\* What a step's command may do to the driver's records, the browser and the artifacts.
EffectsOK ==
  /\ records' \in Seq(CommandRecord)
  /\ performed' \in [1 .. MaxSteps -> Nat]
  /\ artifacts' \subseteq Artifact

\* A step goes on to another of its commands.
LEMMA AdvanceType ==
  ASSUME TypeOK, Admission, pc \in StepPoints, EffectsOK,
         NEW next \in StepPoints, NEW obs \in Observation, Advance(next, obs),
         result' \in {"none", "passed", "failed"}, next = "trailing" => result' # "none",
         capture' \in Capture
  PROVE  TypeOK' /\ Admission'
  <1>1. ControlOK'
    BY DEF TypeOK, ControlOK, Advance, Capture, inputs, ControlPoints
  <1>2. VerdictOK' /\ SessionOK' /\ ReportOK'
    BY DEF TypeOK, VerdictOK, SessionOK, ReportOK, Advance, verdict, EffectsOK
  <1>3. Admission'
    BY DEF Admission, Advance, inputs
  <1> QED BY <1>1, <1>2, <1>3 DEF TypeOK

\* A step that is settled and goes on to its last URL keeps types and admission.
LEMMA SettleType ==
  ASSUME TypeOK, Admission, pc \in StepPoints, EffectsOK,
         NEW obs \in Observation, NEW res \in {"passed", "failed"}, Settle(obs, res)
  PROVE  TypeOK' /\ Admission'
  <1>1. Advance("trailing", obs) /\ result' = res /\ capture' = capture
    BY DEF Settle
  <1>2. capture' \in Capture
    BY <1>1 DEF TypeOK, ControlOK, Capture
  <1> QED BY <1>1, <1>2, AdvanceType DEF StepPoints

CauseType == GateCodes \cup Causes \cup {"driver_unavailable", "run_directory_unavailable"}

\* A verdict on the execution is one, and the run goes on to its closing points.
LEMMA ConcludeType ==
  ASSUME NEW p \in Outcomes, NEW c \in CauseType, NEW traced, Conclude(p, c, traced)
  PROVE  VerdictOK' /\ pc' \in ClosingPoints
  <1>1. c \in GateCodes \cup Causes \cup Overrides
    BY DEF CauseType, Overrides
  <1> QED BY <1>1 DEF Conclude, VerdictOK, CauseType, ClosingPoints

\* A step ends: the run starts the next one, or concludes.
LEMMA EndStepType ==
  ASSUME TypeOK, Admission, pc \in StepPoints, EffectsOK,
         NEW obs \in Observation, NEW status \in Outcomes,
         NEW p \in Outcomes, NEW c \in CauseType, NEW stop \in BOOLEAN,
         EndStep(obs, status, p, c, stop), authentication' \in AuthenticationStatus
  PROVE  TypeOK' /\ Admission'
  <1>1. /\ ValidJourney(journey)
        /\ index \in Nat /\ Len(journey.steps) \in 1 .. MaxSteps
    BY AdmittedValid, PagesAssumption DEF Admission, ValidJourney, TypeOK, ControlOK
  <1>2. journey' = journey /\ opts' = opts /\ journey.steps \in Seq(Step)
    BY InputsAssumption DEF EndStep, inputs, TypeOK, ControlOK, Document
  <1>3. steps' \in Seq(StepRecord)
    <2>1. [status |-> status, obs |-> obs] \in StepRecord
      BY DEF StepRecord
    <2> QED BY <2>1 DEF EndStep, TypeOK, ReportOK
  <1>4. SessionOK' /\ ReportOK'
    BY <1>3 DEF EndStep, TypeOK, SessionOK, ReportOK, EffectsOK
  <1>5. CASE (stop \/ index = Len(journey.steps)) /\ Conclude(p, c, traceStarted)
             /\ UNCHANGED <<index, hasNavigated>>
             /\ result' = "none" /\ capture' = NoCapture /\ observation' = NoObservation
    <2>1. VerdictOK' /\ pc' \in ClosingPoints
      BY <1>5, ConcludeType
    <2>2. ControlOK'
      BY <1>2, <1>5, <2>1, NoObservationType
      DEF TypeOK, ControlOK, ControlPoints, ClosingPoints, StepPoints, NoCapture
    <2>3. Admission'
      BY <2>1 DEF Admission, ClosingPoints, SetupPoints, StepPoints
    <2> QED BY <1>4, <2>1, <2>2, <2>3 DEF TypeOK
  <1>6. CASE /\ ~stop /\ index < Len(journey.steps)
             /\ primary' = p /\ cause' = c
             /\ StartStep(index + 1, hasNavigated \/ Current.kind = "navigate")
             /\ UNCHANGED <<outcome, execution, reason>>
    <2>1. VerdictOK'
      BY <1>6 DEF TypeOK, VerdictOK, CauseType
    <2>2. observation' \in Observation
      BY <1>6, NoObservationType, DeclareType DEF StartStep
    <2>3. index' \in 1 .. MaxSteps /\ index' \in DOMAIN journey'.steps
      BY <1>1, <1>2, <1>6, PagesAssumption DEF StartStep, TypeOK, ControlOK
    <2>4. pc' \in {"entry", "act"}
      BY <1>6 DEF StartStep
    <2>5. ControlOK'
      BY <1>2, <1>6, <2>2, <2>3, <2>4
      DEF TypeOK, ControlOK, ControlPoints, StartStep, StepPoints, NoCapture
    <2>6. Admission'
      BY <1>2 DEF Admission
    <2> QED BY <1>4, <2>1, <2>5, <2>6 DEF TypeOK
  <1> QED BY <1>5, <1>6 DEF EndStep

\* A step that ends in an error keeps types and admission.
LEMMA StepErrorType ==
  ASSUME TypeOK, Admission, pc \in StepPoints, EffectsOK,
         NEW obs \in Observation, NEW p \in Outcomes, NEW c \in Causes, StepError(obs, p, c)
  PROVE  TypeOK' /\ Admission'
  <1>1. EndStep(obs, p, p, c, TRUE) /\ c \in CauseType
    BY DEF StepError, CauseType
  <1>2. authentication' \in AuthenticationStatus
    BY DEF StepError, TypeOK, ReportOK
  <1> QED BY <1>1, <1>2, EndStepType

\* A step that ends with a result keeps types and admission.
LEMMA StepResultType ==
  ASSUME TypeOK, Admission, pc \in StepPoints, EffectsOK,
         NEW obs \in Observation, NEW res \in {"passed", "failed", "blocked"},
         StepResult(obs, res)
  PROVE  TypeOK' /\ Admission'
  <1> DEFINE status == IF res = "failed" /\ Verifying THEN "blocked" ELSE res
             p == IF status = "passed" THEN primary ELSE status
             c == CASE status = "passed" -> cause
                    [] status = "failed" -> "checkpoint_failed"
                    [] status = "blocked" /\ res = "blocked" -> "origin_not_authorized"
                    [] status = "blocked" /\ res = "failed" -> "authentication_verification_failed"
             stop == status = "blocked" \/ (status = "failed" /\ Current.kind = "follow_link")
  <1>1. EndStep(obs, status, p, c, stop)
    BY DEF StepResult
  <1>2. status \in Outcomes /\ p \in Outcomes /\ stop \in BOOLEAN
    BY DEF TypeOK, VerdictOK, Outcomes
  <1>3. c \in CauseType
    BY DEF TypeOK, VerdictOK, CauseType, Causes
  <1>4. authentication' \in AuthenticationStatus
    BY DEF StepResult, TypeOK, ReportOK, AuthenticationStatus
  <1> QED BY <1>1, <1>2, <1>3, <1>4, EndStepType
-----------------------------------------------------------------------------
(* The actions of a step *)

\* An action of a step is one driver command, whatever becomes of it.
LEMMA StepCommand ==
  ASSUME TypeOK, JourneyStep
  PROVE  pc \in StepPoints /\ \E capability \in StepCapabilities : Recorded(capability)
  <1>1. CASE UrlOutside
    BY <1>1, CommandRecorded DEF UrlOutside, StepCapabilities
  <1>2. CASE StrayInspection
    BY <1>2, CommandRecorded, CommandType DEF StrayInspection
  <1>3. CASE StepCommandFails
    BY <1>3, CommandRecorded, CommandType DEF StepCommandFails
  <1>4. CASE EntryInside \/ TrailingInside \/ HiddenInside \/ Arrive \/ CheckUrl
             \/ LinkPreflight \/ Landed \/ LandingUnknown
    <2>1. pc \in StepPoints
      BY <1>4 DEF EntryInside, TrailingInside, HiddenInside, Arrive, CheckUrl, LinkPreflight,
                  Landed, LandingUnknown, Acting, StepPoints
    <2>2. Errors("current_url") \/ Succeeds("current_url")
      BY <1>4 DEF EntryInside, TrailingInside, HiddenInside, Arrive, CheckUrl, LinkPreflight,
                  Landed, LandingUnknown, ReadsInside
    <2> QED BY <2>1, <2>2, CommandRecorded DEF StepCapabilities
  <1>5. CASE Navigate \/ NavigationBlocked
    <2>1. Recorded("navigate")
      BY <1>5, CommandRecorded DEF Navigate, NavigationBlocked, Record, Recorded
    <2> QED BY <1>5, <2>1 DEF Navigate, NavigationBlocked, Acting, StepPoints, StepCapabilities
  <1>6. CASE LookForTarget \/ CheckText \/ LinkVisible \/ LinkEnabled \/ LinkHref
    <2>1. pc \in StepPoints
      BY <1>6 DEF LookForTarget, CheckText, LinkVisible, LinkEnabled, LinkHref, Acting, StepPoints
    <2>2. \E capability \in {"is_visible", "is_enabled", "get_attribute", "text"} : Succeeds(capability)
      BY <1>6 DEF LookForTarget, CheckText, LinkVisible, LinkEnabled, LinkHref, AnsweredInside
    <2> QED BY <2>1, <2>2, CommandRecorded DEF StepCapabilities
  <1>7. CASE BoundingBox \/ CaptureEvidence \/ EvidenceFails \/ LinkRefused \/ LinkReady
    <2>1. pc \in StepPoints
      BY <1>7 DEF BoundingBox, CaptureEvidence, EvidenceFails, LinkRefused, LinkReady, StepPoints
    <2>2. Succeeds("bounding_box") \/ Succeeds("screenshot")
      BY <1>7 DEF BoundingBox, CaptureEvidence, EvidenceFails, LinkRefused, LinkReady
    <2> QED BY <2>1, <2>2, CommandRecorded DEF StepCapabilities
  <1>8. CASE Click \/ ClickNeedsConfirmation \/ ClickFails
    <2>1. pc \in StepPoints
      BY <1>8 DEF Click, ClickNeedsConfirmation, ClickFails, StepPoints
    <2>2. Recorded("click")
      BY <1>8, CommandRecorded DEF Click, ClickNeedsConfirmation, ClickFails, Record, Recorded
    <2> QED BY <2>1, <2>2 DEF StepCapabilities
  <1> QED BY <1>1, <1>2, <1>3, <1>4, <1>5, <1>6, <1>7, <1>8 DEF JourneyStep

\* Of the browser's clicks only the current step's count changes, by one, and only while its
\* click is pending; of the artifacts only the current step's grow.
LEMMA StepTouches ==
  ASSUME JourneyStep
  PROVE  /\ performed' = performed \/ (pc = "click" /\ Performed)
         /\ artifacts' = artifacts \/ \E n \in 0 .. 3 : KeepArtifacts(n)
  <1>1. CASE \/ UrlOutside \/ StrayInspection \/ StepCommandFails \/ EntryInside
             \/ TrailingInside \/ HiddenInside \/ Navigate \/ NavigationBlocked \/ Arrive
             \/ CheckUrl \/ LookForTarget \/ CheckText \/ BoundingBox \/ LinkPreflight
             \/ LinkVisible \/ LinkEnabled \/ LinkHref \/ LinkReady \/ Landed \/ LandingUnknown
    <2>1. UNCHANGED <<performed, artifacts>>
      BY <1>1 DEF UrlOutside, StrayInspection, StepCommandFails, EntryInside, TrailingInside,
                  HiddenInside, Navigate, NavigationBlocked, Arrive, CheckUrl, LookForTarget,
                  CheckText, BoundingBox, LinkPreflight, LinkVisible, LinkEnabled, LinkHref,
                  LinkReady, Landed, LandingUnknown
    <2> QED BY <2>1
  <1>2. CASE CaptureEvidence \/ LinkRefused
    <2>1. performed' = performed /\ KeepArtifacts(3)
      BY <1>2 DEF CaptureEvidence, LinkRefused
    <2> QED BY <2>1
  <1>3. CASE EvidenceFails
    <2>1. performed' = performed /\ \E n \in 0 .. 2 : KeepArtifacts(n)
      BY <1>3 DEF EvidenceFails
    <2> QED BY <2>1
  <1>4. CASE Click \/ ClickNeedsConfirmation \/ ClickFails
    <2>1. performed' = performed \/ (pc = "click" /\ Performed)
      BY <1>4 DEF Click, ClickNeedsConfirmation, ClickFails
    <2>2. \E n \in 0 .. 3 : KeepArtifacts(n)
      BY <1>4 DEF Click, ClickNeedsConfirmation, ClickFails
    <2> QED BY <2>1, <2>2
  <1> QED BY <1>1, <1>2, <1>3, <1>4 DEF JourneyStep

\* Every command of a step starts at a point of a step and keeps the typed effects.
LEMMA StepEffects ==
  ASSUME TypeOK, JourneyStep
  PROVE  pc \in StepPoints /\ EffectsOK
  <1>1. pc \in StepPoints /\ records' \in Seq(CommandRecord)
    <2>1. PICK capability \in StepCapabilities : Recorded(capability)
      BY StepCommand
    <2> QED BY <2>1, StepCommand, RecordedType DEF TypeOK, Capabilities
  <1>2. performed' \in [1 .. MaxSteps -> Nat]
    BY StepTouches DEF TypeOK, ControlOK, SessionOK, Performed
  <1>3. artifacts' \subseteq Artifact
    <2>1. ASSUME NEW n \in 0 .. 3, KeepArtifacts(n)
          PROVE  artifacts' \subseteq Artifact
      <3>1. \A k \in 1 .. n : [kind |-> ArtifactKinds[k], step |-> index] \in Artifact
        BY PagesAssumption DEF ArtifactKinds, Artifact, TypeOK, ControlOK
      <3> QED BY <2>1, <3>1 DEF KeepArtifacts, TypeOK, ReportOK
    <2> QED BY <2>1, StepTouches DEF TypeOK, ReportOK
  <1> QED BY <1>1, <1>2, <1>3 DEF EffectsOK

\* Where the run stands while a step is executed.
LEMMA StepState ==
  ASSUME TypeOK
  PROVE  /\ observation \in Observation /\ capture \in Capture
         /\ result \in {"none", "passed", "failed"}
         /\ pc = "trailing" => result \in {"passed", "failed"}
  BY DEF TypeOK, ControlOK, Capture

\* The observations the actions write are observations.
LEMMA ObservedType ==
  ASSUME NEW obs \in Observation
  PROVE  /\ Unmatched(obs) \in Observation
         /\ \A b \in BOOLEAN : [obs EXCEPT !.matched = YesNo(b)] \in Observation
         /\ \A b \in BOOLEAN : [obs EXCEPT !.visible = YesNo(b)] \in Observation
         /\ \A v \in Tri : [obs EXCEPT !.visible = v] \in Observation
         /\ \A v \in Tri : [obs EXCEPT !.enabled = v] \in Observation
         /\ \A v \in ActionStates : [obs EXCEPT !.action = v] \in Observation
         /\ \A url : [obs EXCEPT !.href = safe_url(url)] \in Observation
         /\ [obs EXCEPT !.matched = "yes", !.action = "effect_verified"] \in Observation
  BY SafeUrl DEF Unmatched, YesNo, Observation, Tri, ActionStates

\* Every action of a step keeps the types, and the run stays one the gates admitted.
LEMMA JourneyStepType ==
  ASSUME TypeOK, Admission, JourneyStep
  PROVE  TypeOK' /\ Admission'
  <1> USE StepEffects, StepState
  <1> DEFINE Goal == TypeOK' /\ Admission'
  <1>1. CASE UrlOutside
    BY <1>1, SeenType, StepResultType DEF UrlOutside
  <1>2. CASE StrayInspection
    BY <1>2, StepErrorType DEF StrayInspection, Causes, Outcomes
  <1>3. CASE StepCommandFails
    BY <1>3, StepErrorType DEF StepCommandFails, Causes, Outcomes
  <1>4. CASE EntryInside
    <2>1. PICK url \in Pages : Advance("act", Declare(Seen(observation, url), index))
      BY <1>4 DEF EntryInside
    <2>2. Declare(Seen(observation, url), index) \in Observation
      BY SeenType, DeclareType
    <2> QED BY <1>4, <2>1, <2>2, AdvanceType DEF EntryInside, StepPoints
  <1>5. CASE TrailingInside
    BY <1>5, SeenType, StepResultType DEF TrailingInside
  <1>6. CASE HiddenInside
    BY <1>6, SeenType, StepResultType DEF HiddenInside
  <1>7. CASE Navigate
    BY <1>7, AdvanceType DEF Navigate, StepPoints
  <1>8. CASE NavigationBlocked
    BY <1>8, StepResultType DEF NavigationBlocked
  <1>9. CASE Arrive
    BY <1>9, SeenType, SettleType DEF Arrive
  <1>10. CASE CheckUrl
    <2>1. PICK url \in Pages :
            Settle([Seen(observation, url) EXCEPT !.matched = YesNo(url = Current.url)],
                   IF url = Current.url THEN "passed" ELSE "failed")
      BY <1>10 DEF CheckUrl
    <2>2. [Seen(observation, url) EXCEPT !.matched = YesNo(url = Current.url)] \in Observation
      BY SeenType, ObservedType
    <2> QED BY <2>1, <2>2, SettleType
  <1>11. CASE LookForTarget
    <2>1. PICK visible \in BOOLEAN :
            Advance(IF ~visible THEN "hidden" ELSE IF Current.kind = "capture" THEN "box" ELSE "text",
                    [observation EXCEPT !.visible = YesNo(visible)])
      BY <1>11 DEF LookForTarget
    <2>2. [observation EXCEPT !.visible = YesNo(visible)] \in Observation
      BY ObservedType
    <2>3. (IF ~visible THEN "hidden" ELSE IF Current.kind = "capture" THEN "box" ELSE "text")
            \in StepPoints \ {"trailing"}
      BY DEF StepPoints
    <2> QED BY <1>11, <2>1, <2>2, <2>3, AdvanceType DEF LookForTarget
  <1>12. CASE CheckText
    <2>1. PICK matched \in BOOLEAN :
            Settle([observation EXCEPT !.matched = YesNo(matched)],
                   IF matched THEN "passed" ELSE "failed")
      BY <1>12 DEF CheckText
    <2> QED BY <2>1, ObservedType, SettleType
  <1>13. CASE BoundingBox
    <2>1. capture' \in Capture
      BY <1>13, RecordsLength DEF BoundingBox, Capture, EffectsOK
    <2> QED BY <1>13, <2>1, AdvanceType DEF BoundingBox, StepPoints
  <1>14. Taken \in Capture
    BY RecordsLength DEF Taken, Capture
  <1>15. CASE CaptureEvidence
    BY <1>14, <1>15, CapturedType, SettleType DEF CaptureEvidence
  <1>16. CASE EvidenceFails
    BY <1>14, <1>16, CapturedType, StepErrorType DEF EvidenceFails, Causes, Outcomes
  <1>17. CASE LinkPreflight
    BY <1>17, SeenType, AdvanceType DEF LinkPreflight, StepPoints
  <1>18. CASE LinkVisible
    <2>1. \A v \in {"yes", "no"} : [observation EXCEPT !.visible = v] \in Observation
      BY ObservedType DEF Tri
    <2>2. Unmatched([observation EXCEPT !.visible = "no"]) \in Observation
      BY <2>1, ObservedType
    <2> QED BY <1>18, <2>1, <2>2, AdvanceType, StepResultType DEF LinkVisible, StepPoints
  <1>19. CASE LinkEnabled
    <2>1. \A v \in {"yes", "no"} : [observation EXCEPT !.enabled = v] \in Observation
      BY ObservedType DEF Tri
    <2>2. Unmatched([observation EXCEPT !.enabled = "no"]) \in Observation
      BY <2>1, ObservedType
    <2> QED BY <1>19, <2>1, <2>2, AdvanceType, StepResultType DEF LinkEnabled, StepPoints
  <1>20. CASE LinkHref
    <2>1. CASE StepResult(Unmatched(observation), "failed")
      BY <2>1, ObservedType, StepResultType
    <2>2. ASSUME NEW href \in Pages, Advance("box", [observation EXCEPT !.href = safe_url(href)]),
                 capture' = [NoCapture EXCEPT !.href = href], UNCHANGED result
          PROVE  Goal
      <3>1. capture' \in Capture
        BY <2>2 DEF NoCapture, Capture
      <3>2. [observation EXCEPT !.href = safe_url(href)] \in Observation
        BY ObservedType
      <3> QED BY <2>2, <3>1, <3>2, AdvanceType DEF StepPoints
    <2> QED BY <1>20, <2>1, <2>2 DEF LinkHref
  <1>21. CASE LinkRefused
    <2>1. Captured(observation, Taken, 0, 3) \in Observation
      BY <1>14, CapturedType
    <2>2. Unmatched(Captured(observation, Taken, 0, 3)) \in Observation
      BY <2>1, ObservedType
    <2> QED BY <1>21, <2>1, <2>2, StepResultType DEF LinkRefused
  <1>22. CASE LinkReady
    BY <1>14, <1>22, AdvanceType DEF LinkReady, StepPoints
  <1>23. Len(records') \in Nat
    BY RecordsLength DEF EffectsOK
  <1>24. CASE Click
    <2>1. PICK n \in 0 .. 3 :
            \/ /\ Advance("landed", Acknowledge(Len(records'), 3))
               /\ UNCHANGED <<result, capture>>
            \/ StepError(Unknown(Len(records'), n), "error", "action_effect_unknown")
      BY <1>24 DEF Click
    <2>2. Acknowledge(Len(records'), 3) \in Observation /\ Unknown(Len(records'), n) \in Observation
      BY <1>23, ClickedType
    <2> QED BY <2>1, <2>2, AdvanceType, StepErrorType DEF StepPoints, Causes, Outcomes
  <1>25. CASE ClickNeedsConfirmation
    <2>1. PICK n \in 0 .. 3 :
            \/ StepError(Captured(observation, capture, Len(records'), 3),
                         "error", "driver_confirmation_required")
            \/ StepError(Unknown(Len(records'), n), "error", "action_effect_unknown")
      BY <1>25 DEF ClickNeedsConfirmation
    <2>2. /\ Captured(observation, capture, Len(records'), 3) \in Observation
          /\ Unknown(Len(records'), n) \in Observation
      BY <1>23, CapturedType, ClickedType
    <2> QED BY <2>1, <2>2, StepErrorType DEF Causes, Outcomes
  <1>26. CASE ClickFails
    <2>1. PICK n \in 0 .. 3 :
            StepError(Unknown(IF records' = records THEN 0 ELSE Len(records'), n),
                      "error", "action_effect_unknown")
      BY <1>26 DEF ClickFails
    <2>2. (IF records' = records THEN 0 ELSE Len(records')) \in Nat
      BY <1>23
    <2>3. Unknown(IF records' = records THEN 0 ELSE Len(records'), n) \in Observation
      BY <2>2, ClickedType
    <2> QED BY <2>1, <2>3, StepErrorType DEF Causes, Outcomes
  <1>27. CASE Landed
    <2>1. PICK url \in Pages :
            \/ Settle([Seen(observation, url) EXCEPT !.matched = "yes", !.action = "effect_verified"],
                      "passed")
            \/ Settle(Unmatched(Seen(observation, url)), "failed")
      BY <1>27 DEF Landed
    <2>2. Seen(observation, url) \in Observation
      BY SeenType
    <2>3. /\ [Seen(observation, url) EXCEPT !.matched = "yes", !.action = "effect_verified"]
               \in Observation
          /\ Unmatched(Seen(observation, url)) \in Observation
      BY <2>2, ObservedType
    <2> QED BY <2>1, <2>3, SettleType
  <1>28. CASE LandingUnknown
    <2>1. [observation EXCEPT !.action = "effect_unknown"] \in Observation
      BY ObservedType DEF ActionStates
    <2> QED BY <1>28, <2>1, StepErrorType DEF LandingUnknown, Causes, Outcomes
  <1> QED
    BY <1>1, <1>2, <1>3, <1>4, <1>5, <1>6, <1>7, <1>8, <1>9, <1>10, <1>11, <1>12, <1>13, <1>15,
       <1>16, <1>17, <1>18, <1>19, <1>20, <1>21, <1>22, <1>24, <1>25, <1>26, <1>27, <1>28
    DEF JourneyStep
-----------------------------------------------------------------------------
(* The other actions *)

\* Every run starts typed, and with nothing admitted.
LEMMA InitType == Init => TypeOK /\ Admission
  <1> SUFFICES ASSUME Init PROVE TypeOK /\ Admission
    OBVIOUS
  <1>1. ControlOK
    <2>1. 1 \in 1 .. MaxSteps
      BY PagesAssumption
    <2>2. NoCapture \in Capture
      BY DEF NoCapture, Capture
    <2> QED
      BY <2>1, <2>2, NoObservationType DEF Init, ControlOK, ControlPoints, StepPoints, Capture
  <1>2. VerdictOK
    BY DEF Init, VerdictOK, Outcomes, Causes, Overrides
  <1>3. SessionOK /\ ReportOK
    <2>1. <<>> \in Seq(CommandRecord) /\ <<>> \in Seq(StepRecord)
      OBVIOUS
    <2>2. [i \in 1 .. MaxSteps |-> 0] \in [1 .. MaxSteps -> Nat]
      OBVIOUS
    <2> QED BY <2>1, <2>2 DEF Init, SessionOK, ReportOK, AuthenticationStatus, CleanupStatus
  <1>4. Admission
    BY DEF Init, Admission, SetupPoints, StepPoints
  <1> QED BY <1>1, <1>2, <1>3, <1>4 DEF TypeOK

\* A run that ends before its driver exists.
LEMMA EndEarlyType ==
  ASSUME TypeOK, NEW p \in Outcomes,
         NEW c \in GateCodes \cup {"run_directory_unavailable", "driver_unavailable"},
         NEW next \in {"write", "done"}, EndEarly(p, c, next),
         authentication' \in AuthenticationStatus
  PROVE  TypeOK' /\ Admission'
  <1>1. ControlOK'
    BY DEF EndEarly, TypeOK, ControlOK, inputs, stepVars, ControlPoints, StepPoints
  <1>2. VerdictOK'
    BY DEF EndEarly, VerdictOK, Overrides
  <1>3. SessionOK' /\ ReportOK'
    BY DEF EndEarly, TypeOK, SessionOK, ReportOK, evidence
  <1>4. Admission'
    BY DEF EndEarly, Admission, SetupPoints, StepPoints
  <1> QED BY <1>1, <1>2, <1>3, <1>4 DEF TypeOK

\* A setup that is given up keeps types and admission.
LEMMA AbandonSetupType ==
  ASSUME TypeOK, NEW p \in Outcomes, NEW c \in Causes, AbandonSetup(p, c),
         pc \in SetupPoints, records' \in Seq(CommandRecord), staged' \in BOOLEAN,
         authentication' \in AuthenticationStatus
  PROVE  TypeOK' /\ Admission'
  <1>1. VerdictOK' /\ pc' \in ClosingPoints
    BY ConcludeType DEF AbandonSetup, CauseType
  <1>2. ControlOK'
    BY <1>1 DEF AbandonSetup, TypeOK, ControlOK, inputs, stepVars, ControlPoints,
                ClosingPoints, StepPoints
  <1>3. SessionOK' /\ ReportOK'
    BY DEF AbandonSetup, TypeOK, SessionOK, ReportOK, evidence
  <1>4. Admission'
    BY <1>1 DEF Admission, ClosingPoints, SetupPoints, StepPoints
  <1> QED BY <1>1, <1>2, <1>3, <1>4 DEF TypeOK

\* A setup that goes on keeps types and admission.
LEMMA ContinueSetupType ==
  ASSUME TypeOK, Admission, NEW next \in SetupPoints, ContinueSetup(next),
         pc \in SetupPoints, records' \in Seq(CommandRecord), staged' \in BOOLEAN,
         UNCHANGED <<authentication, traceStarted>>
  PROVE  TypeOK' /\ Admission'
  <1>1. ControlOK'
    BY DEF ContinueSetup, TypeOK, ControlOK, inputs, stepVars, ControlPoints, SetupPoints,
           StepPoints
  <1>2. VerdictOK' /\ SessionOK' /\ ReportOK'
    BY DEF ContinueSetup, TypeOK, VerdictOK, SessionOK, ReportOK, verdict, evidence
  <1>3. Admission'
    BY DEF ContinueSetup, Admission, inputs
  <1> QED BY <1>1, <1>2, <1>3 DEF TypeOK

\* Each gate has a reason, an outcome and an authentication status.
LEMMA RefusalType ==
  ASSUME NEW k \in DOMAIN GateOrder, NEW j
  PROVE  /\ GateOrder[k] \in GateCodes
         /\ RefusalOutcome(GateOrder[k]) \in Outcomes
         /\ RefusalStatus(GateOrder[k], j) \in AuthenticationStatus
  <1>1. RefusalStatus(GateOrder[k], j) \in AuthenticationStatus
    BY DEF RefusalStatus, AuthenticationStatus
  <1> QED BY <1>1 DEF GateCodes, RefusalOutcome, Outcomes

\* A step of the setup issues one of its own commands, or none.
LEMMA SetupCommand ==
  ASSUME TypeOK, SetupStep
  PROVE  \/ records' = records
         \/ pc \in SetupPoints
            /\ \E capability \in {"set_viewport", "authentication_load", "trace_start"} :
                 Recorded(capability)
  <1>1. CASE RunDirectoryUnavailable \/ Refuse \/ DriverUnavailable \/ Launch \/ StageState
             \/ StageFails
    BY <1>1 DEF RunDirectoryUnavailable, Refuse, DriverUnavailable, Launch, StageState,
                StageFails, EndEarly
  <1>2. CASE Prepare \/ SetupCommandFails \/ LoadState \/ LoadOrRemovalFails \/ StartTrace
    <2>1. pc \in SetupPoints
      BY <1>2 DEF Prepare, SetupCommandFails, LoadState, LoadOrRemovalFails, StartTrace, SetupPoints
    <2>2. \E capability \in {"set_viewport", "authentication_load", "trace_start"} :
            Errors(capability) \/ Succeeds(capability)
      BY <1>2 DEF Prepare, SetupCommandFails, LoadState, LoadOrRemovalFails, StartTrace
    <2> QED BY <2>1, <2>2, CommandRecorded
  <1> QED BY <1>1, <1>2 DEF SetupStep

\* Every step of the setup keeps types and admission.
LEMMA SetupStepType ==
  ASSUME TypeOK, Admission, SetupStep
  PROVE  TypeOK' /\ Admission'
  <1>1. records' \in Seq(CommandRecord)
    <2>1. SessionOK /\ records \in Seq(CommandRecord)
      BY DEF TypeOK, SessionOK
    <2> QED BY <2>1, SetupCommand, RecordedType DEF Capabilities
  <1>2. authentication \in AuthenticationStatus /\ staged \in BOOLEAN
    BY DEF TypeOK, ReportOK, SessionOK
  <1>3. CASE RunDirectoryUnavailable
    BY <1>2, <1>3, EndEarlyType DEF RunDirectoryUnavailable, Outcomes
  <1>4. CASE Refuse
    BY <1>4, RefusalType, EndEarlyType DEF Refuse
  <1>5. CASE DriverUnavailable
    BY <1>5, EndEarlyType DEF DriverUnavailable, Outcomes, AuthenticationStatus
  <1>6. CASE Launch
    <2>1. ControlOK' /\ VerdictOK'
      BY <1>6 DEF Launch, TypeOK, ControlOK, VerdictOK, inputs, stepVars, verdict, ControlPoints,
                  SetupPoints, StepPoints
    <2>2. SessionOK' /\ ReportOK'
      BY <1>6 DEF Launch, TypeOK, SessionOK, ReportOK, evidence, AuthenticationStatus
    <2>3. Admission'
      BY <1>6 DEF Launch, Admission, inputs
    <2> QED BY <2>1, <2>2, <2>3 DEF TypeOK
  <1>7. CASE Prepare
    BY <1>1, <1>2, <1>7, ContinueSetupType DEF Prepare, SetupPoints
  <1>8. CASE SetupCommandFails
    BY <1>1, <1>2, <1>8, AbandonSetupType DEF SetupCommandFails, SetupPoints, Outcomes, Causes
  <1>9. CASE StageState
    BY <1>1, <1>9, ContinueSetupType DEF StageState, SetupPoints
  <1>10. CASE StageFails
    BY <1>1, <1>2, <1>10, AbandonSetupType
    DEF StageFails, SetupPoints, Outcomes, Causes, AuthenticationStatus
  <1>11. CASE LoadState
    BY <1>1, <1>11, ContinueSetupType DEF LoadState, SetupPoints
  <1>12. CASE LoadOrRemovalFails
    BY <1>1, <1>12, AbandonSetupType
    DEF LoadOrRemovalFails, SetupPoints, Outcomes, Causes, AuthenticationStatus
  <1>13. CASE StartTrace
    <2>1. ValidJourney(journey) /\ Len(journey.steps) \in 1 .. MaxSteps
      BY <1>13, AdmittedValid DEF StartTrace, Admission, SetupPoints, ValidJourney
    <2>2. journey.steps \in Seq(Step)
      BY InputsAssumption DEF TypeOK, ControlOK, Document
    <2>3. 1 \in DOMAIN journey.steps /\ 1 \in 1 .. MaxSteps
      BY <2>1, <2>2, PagesAssumption
    <2>4. observation' \in Observation
      BY <1>13, NoObservationType, DeclareType DEF StartTrace, StartStep
    <2>5. pc' = "act" /\ index' = 1
      BY <1>13 DEF StartTrace, StartStep
    <2>6. ControlOK'
      BY <1>13, <2>3, <2>4, <2>5
      DEF StartTrace, StartStep, TypeOK, ControlOK, inputs, ControlPoints, StepPoints, NoCapture
    <2>7. VerdictOK' /\ SessionOK' /\ ReportOK'
      BY <1>1, <1>13
      DEF StartTrace, TypeOK, VerdictOK, SessionOK, ReportOK, verdict, evidence
    <2>8. Admission'
      BY <1>13 DEF StartTrace, Admission, SetupPoints, inputs
    <2> QED BY <2>6, <2>7, <2>8 DEF TypeOK
  <1> QED
    BY <1>3, <1>4, <1>5, <1>6, <1>7, <1>8, <1>9, <1>10, <1>11, <1>12, <1>13 DEF SetupStep

\* A step of the closing issues a cleanup command, or none.
LEMMA ClosingCommand ==
  ASSUME ClosingStep
  PROVE  \/ records' = records
         \/ \E capability \in CleanupGrace : Recorded(capability)
  <1>1. CASE WriteReport \/ WriteReportFails
    BY <1>1 DEF WriteReport, WriteReportFails
  <1>2. CASE Console \/ PageErrors \/ DiagnosticsFail \/ StopTrace \/ StopTraceFails
             \/ CloseSession \/ CloseFails
    <2>1. \E capability \in CleanupGrace :
            Errors(capability) \/ Fails(capability) \/ Succeeds(capability)
      BY <1>2 DEF Console, PageErrors, DiagnosticsFail, StopTrace, StopTraceFails,
                  CloseSession, CloseFails, CleanupGrace
    <2> QED BY <2>1, CommandRecorded
  <1> QED BY <1>1, <1>2 DEF ClosingStep

\* Every step of the closing keeps types and admission.
LEMMA ClosingStepType ==
  ASSUME TypeOK, ClosingStep
  PROVE  TypeOK' /\ Admission'
  <1>1. records' \in Seq(CommandRecord)
    <2>1. SessionOK /\ records \in Seq(CommandRecord)
      BY DEF TypeOK, SessionOK
    <2> QED BY <2>1, ClosingCommand, RecordedType DEF Capabilities, CleanupGrace
  <1>2. PICK next \in (ClosingPoints \ {"console"}) \cup {"write", "done"} : Closing(next)
    BY DEF ClosingStep, Console, PageErrors, DiagnosticsFail, StopTrace, StopTraceFails,
           CloseSession, CloseFails, WriteReport, WriteReportFails, ClosingPoints
  <1>3. /\ performed' = performed
        /\ outcome' \in {outcome, "error"}
        /\ reason' \in {reason} \cup Overrides
        /\ artifacts' \subseteq artifacts \cup {TraceArtifact}
        /\ diagnostics' \in {diagnostics, TRUE} /\ written' \in {written, TRUE}
        /\ cleanup' \in {cleanup, "passed", "failed"}
    BY DEF ClosingStep, Console, PageErrors, DiagnosticsFail, StopTrace, StopTraceFails,
           CloseSession, CloseFails, WriteReport, WriteReportFails, Override, Overrides
  <1>4. ControlOK'
    BY <1>2 DEF Closing, TypeOK, ControlOK, inputs, stepVars, ControlPoints, ClosingPoints,
                StepPoints
  <1>5. VerdictOK'
    BY <1>2, <1>3 DEF Closing, TypeOK, VerdictOK, Outcomes
  <1>6. SessionOK'
    BY <1>1, <1>2, <1>3 DEF Closing, TypeOK, SessionOK
  <1>7. TraceArtifact \in Artifact
    BY PagesAssumption DEF TraceArtifact, Artifact
  <1>8. ReportOK'
    BY <1>2, <1>3, <1>7 DEF Closing, TypeOK, ReportOK, CleanupStatus
  <1>9. Admission'
    BY <1>2 DEF Closing, Admission, ClosingPoints, SetupPoints, StepPoints
  <1> QED BY <1>4, <1>5, <1>6, <1>8, <1>9 DEF TypeOK

\* So does the deadline.
LEMMA DeadlinePassesType ==
  ASSUME TypeOK, Admission, DeadlinePasses
  PROVE  TypeOK' /\ Admission'
  <1>1. ControlOK' /\ VerdictOK'
    BY DEF DeadlinePasses, TypeOK, ControlOK, VerdictOK, inputs, stepVars, verdict
  <1>2. SessionOK' /\ ReportOK'
    BY DEF DeadlinePasses, TypeOK, SessionOK, ReportOK, evidence
  <1>3. Admission'
    BY DEF DeadlinePasses, Admission, inputs
  <1> QED BY <1>1, <1>2, <1>3 DEF TypeOK

\* So does a step of anybody else.
LEMMA StutterType ==
  ASSUME TypeOK, Admission, UNCHANGED vars
  PROVE  TypeOK' /\ Admission'
  BY DEF vars, TypeOK, ControlOK, VerdictOK, SessionOK, ReportOK, Admission
-----------------------------------------------------------------------------
(* Clicks *)

Clicking == StepsInOrder /\ LinkPoints /\ ClicksAccounted

\* The step being executed is the one after those recorded.
LEMMA StepIndex ==
  ASSUME TypeOK, StepsInOrder, pc \in StepPoints
  PROVE  /\ index \in 1 .. MaxSteps /\ index \in Nat
         /\ steps \in Seq(StepRecord) /\ Len(steps) = index - 1 /\ index \notin DOMAIN steps
  <1>1. index \in 1 .. MaxSteps /\ steps \in Seq(StepRecord) /\ Len(steps) = index - 1
    BY DEF TypeOK, ControlOK, ReportOK, StepsInOrder
  <1> QED BY <1>1, PagesAssumption

\* The current step has not clicked unless it is past its click.
LEMMA NotClickedYet ==
  ASSUME TypeOK, Clicking, pc \in StepPoints \ {"landed", "trailing"}
  PROVE  performed[index] = 0
  <1>1. performed[index] \in Nat /\ performed[index] <= 1
    BY StepIndex DEF TypeOK, SessionOK, Clicking, ClicksAccounted
  <1>2. performed[index] # 1
    BY StepIndex DEF Clicking, ClicksAccounted, ClickPending
  <1> QED BY <1>1, <1>2

\* The step goes on, and its clicks are as they were.
LEMMA AdvanceClicks ==
  ASSUME TypeOK, Clicking, pc \in StepPoints \ {"landed", "trailing"},
         NEW next \in StepPoints \ {"landed"}, NEW obs, Advance(next, obs),
         next = "click" => Current.kind = "follow_link", performed' = performed
  PROVE  Clicking'
  <1>1. performed[index] = 0
    BY NotClickedYet
  <1>2. /\ pc' = next /\ index' = index /\ steps' = steps /\ journey' = journey
    BY DEF Advance, inputs
  <1>3. StepsInOrder' /\ LinkPoints'
    BY <1>2 DEF Clicking, StepsInOrder, LinkPoints, Current, StepPoints, SetupPoints
  <1>4. ClicksAccounted'
    BY <1>1, <1>2 DEF Clicking, ClicksAccounted, ClickPending, DeliberateAction, StepPoints, SetupPoints
  <1> QED BY <1>3, <1>4 DEF Clicking

\* A step ends; the run goes on after it only if no click of it is left unverified.
LEMMA EndStepClicks ==
  ASSUME TypeOK, Clicking, pc \in StepPoints,
         NEW obs, NEW status, NEW p, NEW c, NEW stop \in BOOLEAN,
         EndStep(obs, status, p, c, stop),
         \A i \in 1 .. MaxSteps : performed'[i] <= 1,
         ~stop => /\ performed' = performed
                  /\ performed[index] = 1 => obs.action = "effect_verified"
  PROVE  Clicking'
  <1> DEFINE step == [status |-> status, obs |-> obs]
  <1>1. steps' = Append(steps, step) /\ journey' = journey
    BY DEF EndStep, inputs
  <1>2. CASE Conclude(p, c, traceStarted)
    <2>1. pc' \in ClosingPoints
      BY <1>2 DEF Conclude, ClosingPoints
    <2> QED BY <2>1 DEF Clicking, StepsInOrder, LinkPoints, ClicksAccounted, ClosingPoints,
                        StepPoints, SetupPoints
  <1>3. CASE ~stop /\ StartStep(index + 1, hasNavigated \/ Current.kind = "navigate")
    <2>1. pc' \in {"entry", "act"} /\ index' = index + 1
      BY <1>3 DEF StartStep
    <2>2. /\ Len(steps') = index
          /\ \A i \in DOMAIN steps : i \in DOMAIN steps' /\ steps'[i] = steps[i]
          /\ index \in DOMAIN steps' /\ steps'[index] = step
      <3>1. Len(steps') = Len(steps) + 1 /\ DOMAIN steps' = 1 .. Len(steps) + 1
        BY <1>1, StepIndex DEF Clicking
      <3>2. \A i \in DOMAIN steps : steps'[i] = steps[i]
        BY <1>1, StepIndex DEF Clicking
      <3>3. steps'[Len(steps) + 1] = step
        BY <1>1, StepIndex DEF Clicking
      <3> QED BY <3>1, <3>2, <3>3, StepIndex DEF Clicking
    <2>3. StepsInOrder' /\ LinkPoints'
      BY <2>1, <2>2, StepIndex DEF Clicking, StepsInOrder, LinkPoints, StepPoints, SetupPoints
    <2>4. ASSUME NEW i \in 1 .. MaxSteps, performed'[i] = 1
          PROVE  i \in DOMAIN steps' /\ steps'[i].obs.action = "effect_verified"
      <3>1. performed[i] = 1
        BY <1>3, <2>4
      <3>2. CASE i \in DOMAIN steps /\ DeliberateAction(i) = "effect_verified"
        BY <2>2, <3>2 DEF DeliberateAction
      <3>3. CASE i = index
        BY <1>3, <2>2, <3>1, <3>3
      <3> QED BY <3>1, <3>2, <3>3 DEF Clicking, ClicksAccounted
    <2>5. ClicksAccounted'
      BY <2>1, <2>4 DEF ClicksAccounted, DeliberateAction, StepPoints, SetupPoints
    <2> QED BY <2>3, <2>5 DEF Clicking
  <1> QED BY <1>2, <1>3 DEF EndStep

\* An error ends the run, whatever its step did.
LEMMA StepErrorClicks ==
  ASSUME TypeOK, Clicking, pc \in StepPoints, NEW obs, NEW p, NEW c, StepError(obs, p, c),
         \A i \in 1 .. MaxSteps : performed'[i] <= 1
  PROVE  Clicking'
  <1>1. EndStep(obs, p, p, c, TRUE)
    BY DEF StepError
  <1> QED BY <1>1, EndStepClicks

\* A result lets the run go on after a click only if the click's effect was verified.
LEMMA StepResultClicks ==
  ASSUME TypeOK, Clicking, pc \in StepPoints, performed' = performed,
         NEW obs, NEW res \in {"passed", "failed", "blocked"}, StepResult(obs, res),
         pc = "landed" => res = "blocked",
         pc = "trailing" => \/ res = "blocked"
                            \/ res = result /\ obs.action = observation.action
  PROVE  Clicking'
  <1> DEFINE status == IF res = "failed" /\ Verifying THEN "blocked" ELSE res
             stop == status = "blocked" \/ (status = "failed" /\ Current.kind = "follow_link")
  <1>1. \E p, c : EndStep(obs, status, p, c, stop)
    BY DEF StepResult
  <1>2. \A i \in 1 .. MaxSteps : performed'[i] <= 1
    BY DEF Clicking, ClicksAccounted
  <1>3. ASSUME ~stop, performed[index] = 1
        PROVE  obs.action = "effect_verified"
    <2>1. ClickPending
      BY <1>3, StepIndex DEF Clicking, ClicksAccounted
    <2> QED BY <1>3, <2>1 DEF ClickPending
  <1>4. stop \in BOOLEAN
    OBVIOUS
  <1> HIDE DEF status, stop
  <1> QED BY <1>1, <1>2, <1>3, <1>4, EndStepClicks

\* A click counts for the step being executed, which had not clicked.
LEMMA PerformedOnce ==
  ASSUME TypeOK, Clicking, pc \in StepPoints, performed' = performed \/ (pc = "click" /\ Performed)
  PROVE  /\ \A i \in 1 .. MaxSteps : performed'[i] <= 1
         /\ \A i \in (1 .. MaxSteps) \ {index} : performed'[i] = performed[i]
  <1>1. /\ performed \in [1 .. MaxSteps -> Nat] /\ index \in 1 .. MaxSteps
        /\ \A i \in 1 .. MaxSteps : performed[i] <= 1
    BY StepIndex DEF TypeOK, SessionOK, Clicking, ClicksAccounted
  <1>2. pc = "click" => performed[index] = 0
    BY NotClickedYet
  <1>3. CASE performed' = performed
    BY <1>1, <1>3
  <1>4. CASE pc = "click" /\ Performed
    <2>1. /\ \A i \in (1 .. MaxSteps) \ {index} : performed'[i] = performed[i]
          /\ performed'[index] = performed[index] + 1
      BY <1>1, <1>4 DEF Performed
    <2> QED BY <1>1, <1>2, <1>4, <2>1
  <1> QED BY <1>3, <1>4

\* Every step of the journey keeps its account of the clicks.
LEMMA JourneyStepClicks ==
  ASSUME TypeOK, Clicking, JourneyStep
  PROVE  Clicking'
  <1> USE StepEffects, StepState
  <1>1. \A i \in 1 .. MaxSteps : performed'[i] <= 1
    BY StepTouches, PerformedOnce
  <1>2. CASE UrlOutside
    BY <1>2, StepResultClicks DEF UrlOutside
  <1>3. CASE StrayInspection \/ StepCommandFails \/ EvidenceFails \/ ClickNeedsConfirmation
             \/ ClickFails \/ LandingUnknown
    <2>1. \E obs, p, c : StepError(obs, p, c)
      BY <1>3 DEF StrayInspection, StepCommandFails, EvidenceFails, ClickNeedsConfirmation,
                  ClickFails, LandingUnknown
    <2> QED BY <1>1, <2>1, StepErrorClicks
  <1>4. CASE EntryInside
    BY <1>4, AdvanceClicks DEF EntryInside, StepPoints
  <1>5. CASE TrailingInside
    <2>1. PICK url \in Pages : StepResult(Seen(observation, url), result)
      BY <1>5 DEF TrailingInside
    <2>2. pc = "trailing" /\ performed' = performed
      BY <1>5 DEF TrailingInside
    <2>3. Seen(observation, url).action = observation.action
      BY DEF Seen, Observation
    <2> QED BY <2>1, <2>2, <2>3, StepResultClicks
  <1>6. CASE HiddenInside
    BY <1>6, StepResultClicks DEF HiddenInside
  <1>7. CASE Navigate
    BY <1>7, AdvanceClicks DEF Navigate, Acting, StepPoints
  <1>8. CASE NavigationBlocked
    BY <1>8, StepResultClicks DEF NavigationBlocked, Acting
  <1>9. CASE Arrive \/ CheckUrl \/ CheckText \/ CaptureEvidence
    <2>1. /\ pc \in StepPoints \ {"landed", "trailing"} /\ performed' = performed
          /\ \E obs, res : Settle(obs, res)
      BY <1>9 DEF Arrive, CheckUrl, CheckText, CaptureEvidence, Acting, StepPoints
    <2> QED BY <2>1, AdvanceClicks DEF Settle, StepPoints
  <1>10. CASE LookForTarget
    <2>1. PICK visible \in BOOLEAN :
            Advance(IF ~visible THEN "hidden" ELSE IF Current.kind = "capture" THEN "box" ELSE "text",
                    [observation EXCEPT !.visible = YesNo(visible)])
      BY <1>10 DEF LookForTarget
    <2>2. (IF ~visible THEN "hidden" ELSE IF Current.kind = "capture" THEN "box" ELSE "text")
            \in StepPoints \ {"landed", "click"}
      BY DEF StepPoints
    <2> QED BY <1>10, <2>1, <2>2, AdvanceClicks DEF LookForTarget, Acting
  <1>11. CASE BoundingBox
    BY <1>11, AdvanceClicks DEF BoundingBox, StepPoints
  <1>12. CASE LinkPreflight
    BY <1>12, AdvanceClicks DEF LinkPreflight, Acting, StepPoints
  <1>13. CASE LinkVisible \/ LinkEnabled \/ LinkHref
    <2>1. pc \in StepPoints \ {"landed", "trailing"} /\ performed' = performed
      BY <1>13 DEF LinkVisible, LinkEnabled, LinkHref, StepPoints
    <2>2. \/ \E next \in {"link_enabled", "link_href", "box"} : \E obs : Advance(next, obs)
          \/ \E obs : StepResult(obs, "failed")
      BY <1>13 DEF LinkVisible, LinkEnabled, LinkHref
    <2> QED BY <2>1, <2>2, AdvanceClicks, StepResultClicks DEF StepPoints
  <1>14. CASE LinkRefused
    <2>1. pc = "shot" /\ performed' = performed
      BY <1>14 DEF LinkRefused
    <2>2. \E obs : StepResult(obs, "blocked") \/ StepResult(obs, "failed")
      BY <1>14 DEF LinkRefused
    <2> QED BY <2>1, <2>2, StepResultClicks
  <1>15. CASE LinkReady
    BY <1>15, AdvanceClicks DEF LinkReady, StepPoints
  <1>16. CASE Click
    <2>1. \/ \E obs, p, c : StepError(obs, p, c)
          \/ Advance("landed", Acknowledge(Len(records'), 3))
      BY <1>16 DEF Click
    <2>2. CASE Advance("landed", Acknowledge(Len(records'), 3))
      <3>1. /\ pc = "click" /\ pc' = "landed" /\ index' = index /\ steps' = steps
            /\ journey' = journey
        BY <1>16, <2>2 DEF Click, Advance, inputs
      <3>2. Current.kind = "follow_link"
        BY <3>1 DEF Clicking, LinkPoints
      <3>3. StepsInOrder' /\ LinkPoints'
        BY <3>1, <3>2 DEF Clicking, StepsInOrder, LinkPoints, Current, StepPoints, SetupPoints
      <3>4. ClicksAccounted'
        BY <1>1, <3>1, <3>2, StepTouches, PerformedOnce
        DEF Clicking, ClicksAccounted, ClickPending, DeliberateAction, Current, StepPoints, SetupPoints
      <3> QED BY <3>3, <3>4 DEF Clicking
    <2> QED BY <1>1, <2>1, <2>2, StepErrorClicks
  <1>17. CASE Landed
    <2>1. PICK url \in Pages :
            \/ Settle([Seen(observation, url) EXCEPT !.matched = "yes", !.action = "effect_verified"],
                      "passed")
            \/ Settle(Unmatched(Seen(observation, url)), "failed")
      BY <1>17 DEF Landed
    <2>2. /\ pc = "landed" /\ pc' = "trailing" /\ performed' = performed
          /\ index' = index /\ steps' = steps /\ journey' = journey
      BY <1>17, <2>1 DEF Landed, Settle, Advance, inputs
    <2>3. result' = "passed" => observation'.action = "effect_verified"
      <3>1. Seen(observation, url) \in Observation
        BY SeenType
      <3> QED BY <2>1, <3>1 DEF Settle, Advance, Observation
    <2>4. Current.kind = "follow_link"
      BY <2>2 DEF Clicking, LinkPoints
    <2>5. StepsInOrder' /\ LinkPoints'
      BY <2>2 DEF Clicking, StepsInOrder, LinkPoints, StepPoints, SetupPoints
    <2>6. ClicksAccounted'
      BY <2>2, <2>3, <2>4
      DEF Clicking, ClicksAccounted, ClickPending, DeliberateAction, Current, StepPoints, SetupPoints
    <2> QED BY <2>5, <2>6 DEF Clicking
  <1> QED
    BY <1>2, <1>3, <1>4, <1>5, <1>6, <1>7, <1>8, <1>9, <1>10, <1>11, <1>12, <1>13, <1>14, <1>15,
       <1>16, <1>17
    DEF JourneyStep

\* Outside the steps nothing clicks.
LEMMA OtherStepClicks ==
  ASSUME TypeOK, Clicking, SetupStep \/ ClosingStep \/ DeadlinePasses \/ UNCHANGED vars
  PROVE  Clicking' /\ performed' = performed
  <1>1. performed' = performed
    BY DEF SetupStep, RunDirectoryUnavailable, Refuse, DriverUnavailable, Launch, Prepare,
           SetupCommandFails, StageState, StageFails, LoadState, LoadOrRemovalFails, StartTrace,
           EndEarly, AbandonSetup, ContinueSetup, ClosingStep, Console, PageErrors,
           DiagnosticsFail, StopTrace, StopTraceFails, CloseSession, CloseFails, WriteReport,
           WriteReportFails, DeadlinePasses, vars
  <1>2. CASE SetupStep
    <2>1. /\ pc \in {"preflight"} \cup SetupPoints /\ steps' = steps /\ journey' = journey
          /\ \/ pc' \notin {"preflight"} \cup StepPoints
             \/ pc' = "act" /\ index' = 1
      BY <1>2
      DEF SetupStep, RunDirectoryUnavailable, Refuse, DriverUnavailable, Launch, Prepare,
          SetupCommandFails, StageState, StageFails, LoadState, LoadOrRemovalFails, StartTrace,
          EndEarly, AbandonSetup, ContinueSetup, Conclude, StartStep, evidence, inputs,
          SetupPoints, StepPoints
    <2>2. steps = <<>> /\ Len(steps) = 0 /\ \A i \in 1 .. MaxSteps : performed[i] = 0
      BY <2>1 DEF Clicking, StepsInOrder, ClicksAccounted
    <2>3. StepsInOrder' /\ LinkPoints'
      BY <2>1, <2>2 DEF StepsInOrder, LinkPoints, SetupPoints, StepPoints
    <2>4. ClicksAccounted'
      BY <1>1, <2>2 DEF ClicksAccounted
    <2> QED BY <1>1, <2>3, <2>4 DEF Clicking
  <1>3. CASE ClosingStep
    <2>1. pc' \in ClosingPoints \cup {"write", "done"}
      BY <1>3 DEF ClosingStep, Console, PageErrors, DiagnosticsFail, StopTrace, StopTraceFails,
                  CloseSession, CloseFails, WriteReport, WriteReportFails, Closing, ClosingPoints
    <2> QED BY <1>1, <2>1 DEF Clicking, StepsInOrder, LinkPoints, ClicksAccounted, ClosingPoints,
                              StepPoints, SetupPoints
  <1>4. CASE DeadlinePasses \/ UNCHANGED vars
    <2>1. UNCHANGED <<journey, pc, index, result, observation, steps>>
      BY <1>4 DEF DeadlinePasses, vars, inputs, stepVars, evidence
    <2> QED BY <1>1, <2>1 DEF Clicking, StepsInOrder, LinkPoints, ClicksAccounted, ClickPending,
                              Current, DeliberateAction
  <1> QED BY <1>2, <1>3, <1>4

\* Every run starts without a click.
LEMMA InitClicks == Init => Clicking
  BY DEF Init, Clicking, StepsInOrder, LinkPoints, ClicksAccounted, StepPoints

\* The inductive invariant holds at the start.
LEMMA InductiveInit == Init => Inductive
  BY InitType, InitClicks DEF Inductive, Clicking

\* The inductive invariant holds after every step.
LEMMA InductiveStep == Inductive /\ [Next]_vars => Inductive'
  BY SetupStepType, JourneyStepType, ClosingStepType, DeadlinePassesType, StutterType,
     JourneyStepClicks, OtherStepClicks
  DEF Inductive, Clicking, Next, RunStep

\* The inductive invariant holds of every run.
THEOREM InductiveInvariant == Spec => []Inductive
  BY InductiveInit, InductiveStep, PTL DEF Spec

\* In every run of every journey each variable keeps to its type: a pending step is a step
\* of the journey, and a report never names a query or a page outside the origin.
THEOREM TypeCorrect == Spec => []TypeOK
  <1>1. Inductive => TypeOK
    BY DEF Inductive
  <1> QED BY <1>1, InductiveInvariant, PTL

\* No run of any journey clicks a link twice, or clicks another link before the effect of the
\* last one it clicked has been verified.
THEOREM ClicksAreNeverRetried == Spec => NeverRetried
  <1> DEFINE Once == performed' # performed =>
               /\ \A i \in DOMAIN performed : performed'[i] <= 1
               /\ \A i \in DOMAIN performed :
                    performed[i] = 1 => i \in DOMAIN steps /\ DeliberateAction(i) = "effect_verified"
  <1>1. ASSUME Inductive, [Next]_vars PROVE [Once]_vars
    <2>1. TypeOK /\ Clicking /\ DOMAIN performed = 1 .. MaxSteps
      BY <1>1 DEF Inductive, Clicking, TypeOK, SessionOK
    <2>2. CASE JourneyStep
      <3>1. pc \in StepPoints /\ (performed' = performed \/ (pc = "click" /\ Performed))
        BY <2>1, <2>2, StepEffects, StepTouches
      <3>2. \A i \in 1 .. MaxSteps : performed'[i] <= 1
        BY <2>1, <3>1, PerformedOnce
      <3>3. pc = "click" => performed[index] = 0
        BY <2>1, NotClickedYet DEF StepPoints
      <3>4. ASSUME pc = "click", NEW i \in 1 .. MaxSteps, performed[i] = 1
            PROVE  i \in DOMAIN steps /\ DeliberateAction(i) = "effect_verified"
        BY <2>1, <3>1, <3>3, <3>4 DEF Clicking, ClicksAccounted
      <3> QED BY <2>1, <3>1, <3>2, <3>4
    <2>3. CASE SetupStep \/ ClosingStep \/ DeadlinePasses \/ UNCHANGED vars
      BY <2>1, <2>3, OtherStepClicks
    <2> QED BY <1>1, <2>2, <2>3 DEF Next, RunStep
  <1>2. Spec => [][Next]_vars
    BY PTL DEF Spec
  <1> QED BY <1>1, <1>2, InductiveInvariant, PTL DEF NeverRetried
-----------------------------------------------------------------------------
(* What a step of the runner does to the outline of the run *)

\* The step being executed goes on: only its own variables change.
Going ==
  /\ pc' \in StepPoints
  /\ UNCHANGED <<inputs, verdict, index, hasNavigated, traceStarted, staged, expired,
                 authentication, steps, diagnostics, cleanup, written>>

\* A step that goes on to its next command ends nothing.
LEMMA AdvanceGoes ==
  ASSUME NEW next \in StepPoints, NEW obs, Advance(next, obs)
  PROVE  Going
  BY DEF Advance, Going

\* Nor does one that goes on to read its last URL.
LEMMA SettleGoes ==
  ASSUME NEW obs, NEW res, Settle(obs, res)
  PROVE  Going
  BY AdvanceGoes DEF Settle, StepPoints

\* A step goes on, returns a result or returns an error.
LEMMA JourneyShape ==
  ASSUME TypeOK, JourneyStep
  PROVE  \/ Going
         \/ \E obs : \E res \in {"passed", "failed", "blocked"} : StepResult(obs, res)
         \/ \E obs : \E p \in {"blocked", "error"}, c \in Causes : StepError(obs, p, c)
  <1> DEFINE Shape == \/ Going
                      \/ \E obs : \E res \in {"passed", "failed", "blocked"} : StepResult(obs, res)
                      \/ \E obs : \E p \in {"blocked", "error"}, c \in Causes : StepError(obs, p, c)
  <1>1. CASE UrlOutside \/ HiddenInside \/ NavigationBlocked \/ LinkRefused
    BY <1>1 DEF UrlOutside, HiddenInside, NavigationBlocked, LinkRefused
  <1>2. CASE TrailingInside
    BY <1>2, StepState DEF TrailingInside
  <1>3. CASE StrayInspection \/ StepCommandFails \/ EvidenceFails \/ ClickNeedsConfirmation
             \/ ClickFails \/ LandingUnknown
    BY <1>3 DEF StrayInspection, StepCommandFails, EvidenceFails, ClickNeedsConfirmation,
                ClickFails, LandingUnknown, Causes
  <1>4. CASE Arrive \/ CheckUrl \/ CheckText \/ CaptureEvidence \/ Landed
    <2>1. \E obs, res : Settle(obs, res)
      BY <1>4 DEF Arrive, CheckUrl, CheckText, CaptureEvidence, Landed
    <2> QED BY <2>1, SettleGoes
  <1>5. CASE EntryInside \/ Navigate \/ LookForTarget \/ BoundingBox \/ LinkPreflight \/ LinkReady
    <2>1. \E next \in StepPoints : \E obs : Advance(next, obs)
      BY <1>5 DEF EntryInside, Navigate, LookForTarget, BoundingBox, LinkPreflight, LinkReady,
                  StepPoints
    <2> QED BY <2>1, AdvanceGoes
  <1>6. CASE LinkVisible \/ LinkEnabled \/ LinkHref
    <2>1. \/ \E obs : StepResult(obs, "failed")
          \/ \E next \in StepPoints : \E obs : Advance(next, obs)
      BY <1>6 DEF LinkVisible, LinkEnabled, LinkHref, StepPoints
    <2> QED BY <2>1, AdvanceGoes
  <1>7. CASE Click
    <2>1. \/ \E obs : StepError(obs, "error", "action_effect_unknown")
          \/ \E obs : Advance("landed", obs)
      BY <1>7 DEF Click
    <2> QED BY <2>1, AdvanceGoes DEF StepPoints, Causes
  <1> QED BY <1>1, <1>2, <1>3, <1>4, <1>5, <1>6, <1>7 DEF JourneyStep

\* A result, or an error, that ends a step with a status and makes p and c of the run's
\* outcome and its cause.
Ends(status, p, c) ==
  \E obs : \E stop \in BOOLEAN :
    /\ EndStep(obs, status, p, c, stop)
    /\ status \in {"blocked", "error"} => stop /\ p = status
    /\ status = "failed" => p = status /\ c = "checkpoint_failed"
    /\ status = "passed" => p = primary /\ c = cause

\* A command of a step lets the step go on or ends it, with some status and verdict.
LEMMA JourneyEnds ==
  ASSUME TypeOK, JourneyStep
  PROVE  \/ Going
         \/ \E status \in Outcomes : \E p, c : Ends(status, p, c)
  <1>1. ASSUME NEW obs, NEW res \in {"passed", "failed", "blocked"}, StepResult(obs, res)
        PROVE  \E status \in Outcomes : \E p, c : Ends(status, p, c)
    <2> DEFINE status == IF res = "failed" /\ Verifying THEN "blocked" ELSE res
               p == IF status = "passed" THEN primary ELSE status
               c == CASE status = "passed" -> cause
                      [] status = "failed" -> "checkpoint_failed"
                      [] status = "blocked" /\ res = "blocked" -> "origin_not_authorized"
                      [] status = "blocked" /\ res = "failed" -> "authentication_verification_failed"
               stop == status = "blocked" \/ (status = "failed" /\ Current.kind = "follow_link")
    <2>1. EndStep(obs, status, p, c, stop) /\ stop \in BOOLEAN
      BY <1>1 DEF StepResult
    <2>2. status \in {"passed", "failed", "blocked"} /\ (status = "blocked" => stop)
      OBVIOUS
    <2>3. /\ status = "passed" => p = primary /\ c = cause
          /\ status = "failed" => p = status /\ c = "checkpoint_failed"
          /\ status = "blocked" => p = status
      OBVIOUS
    <2> HIDE DEF status, p, c, stop
    <2>4. Ends(status, p, c)
      BY <2>1, <2>2, <2>3 DEF Ends
    <2> QED BY <2>2, <2>4 DEF Outcomes
  <1>2. ASSUME NEW obs, NEW p \in {"blocked", "error"}, NEW c, StepError(obs, p, c)
        PROVE  \E status \in Outcomes : \E q, d : Ends(status, q, d)
    <2>1. EndStep(obs, p, p, c, TRUE)
      BY <1>2 DEF StepError
    <2>2. Ends(p, p, c)
      BY <2>1 DEF Ends
    <2> QED BY <2>2 DEF Outcomes
  <1> QED BY <1>1, <1>2, JourneyShape

\* What is recorded of the steps when one of them ends.
LEMMA EndStepRecords ==
  ASSUME TypeOK, StepsInOrder, pc \in StepPoints,
         NEW obs, NEW status, NEW p, NEW c, NEW stop, EndStep(obs, status, p, c, stop)
  PROVE  /\ index \in Nat /\ DOMAIN steps = 1 .. index - 1
         /\ Len(steps') = index /\ DOMAIN steps' = 1 .. index /\ steps' # <<>>
         /\ steps'[index] = [status |-> status, obs |-> obs]
         /\ \A i \in 1 .. index - 1 : steps'[i] = steps[i]
  <1>1. /\ steps \in Seq(StepRecord) /\ Len(steps) = index - 1 /\ index \in Nat
        /\ steps' = Append(steps, [status |-> status, obs |-> obs])
    BY StepIndex DEF EndStep
  <1> QED BY <1>1

\* Of the outline only the verdict, the steps and the point change while the steps run.
LEMMA StepOutline ==
  ASSUME TypeOK, JourneyStep
  PROVE  /\ pc' \in StepPoints \cup ClosingPoints
         /\ UNCHANGED <<journey, opts, traceStarted, staged, diagnostics, cleanup, written>>
  <1>1. CASE Going
    BY <1>1 DEF Going, inputs
  <1>2. ASSUME NEW obs, NEW status, NEW p, NEW c, NEW stop, EndStep(obs, status, p, c, stop)
        PROVE  /\ pc' \in StepPoints \cup ClosingPoints
               /\ UNCHANGED <<journey, opts, traceStarted, staged, diagnostics, cleanup, written>>
    BY <1>2 DEF EndStep, Conclude, StartStep, inputs, StepPoints, ClosingPoints
  <1> QED BY <1>1, <1>2, JourneyEnds DEF Ends

\* A command that leaves a record leaves it at the end.
LEMMA IssuedGrows ==
  ASSUME TypeOK, NEW capability \in Capabilities, Recorded(capability)
  PROVE  /\ \A k \in DOMAIN records : k \in DOMAIN records' /\ records'[k] = records[k]
         /\ \A c : Issued(c) \subseteq Issued(c)'
         /\ \A c : c # capability => Issued(c)' = Issued(c)
         /\ records' # records => /\ Permitted(capability) /\ Appended = capability
                                  /\ Len(records') = Len(records) + 1
                                  /\ DOMAIN records' = DOMAIN records \cup {Len(records')}
                                  /\ Issued(capability)' = Issued(capability) \cup {Len(records')}
  <1>1. records \in Seq(CommandRecord) /\ Len(records) \in Nat /\ DOMAIN records = 1 .. Len(records)
    BY DEF TypeOK, SessionOK
  <1>2. CASE records' = records
    BY <1>2 DEF Issued
  <1>3. ASSUME NEW ok \in BOOLEAN, Permitted(capability),
               records' = Append(records, [capability |-> capability, ok |-> ok])
        PROVE  /\ \A k \in DOMAIN records : records'[k] = records[k]
               /\ Permitted(capability) /\ Len(records') = Len(records) + 1
               /\ DOMAIN records' = DOMAIN records \cup {Len(records')}
               /\ records'[Len(records')].capability = capability
    <2>1. [capability |-> capability, ok |-> ok] \in CommandRecord
      BY <1>3 DEF CommandRecord
    <2> QED BY <1>1, <1>3, <2>1
  <1>4. CASE records' # records
    <2>1. /\ \A k \in DOMAIN records : records'[k] = records[k]
          /\ Permitted(capability) /\ Len(records') = Len(records) + 1
          /\ DOMAIN records' = DOMAIN records \cup {Len(records')}
          /\ records'[Len(records')].capability = capability
      BY <1>3, <1>4 DEF Recorded
    <2>2. Len(records') \notin DOMAIN records
      BY <1>1, <2>1
    <2>3. \A c : Issued(c)' = Issued(c) \cup (IF c = capability THEN {Len(records')} ELSE {})
      BY <2>1, <2>2 DEF Issued
    <2> QED BY <2>1, <2>3 DEF Appended
  <1> QED BY <1>2, <1>4

\* The commands of a step neither close the session nor load its state.
LEMMA StepIssues ==
  ASSUME TypeOK, JourneyStep
  PROVE  /\ Issued("close")' = Issued("close")
         /\ Issued("authentication_load")' = Issued("authentication_load")
  <1>1. PICK capability \in StepCapabilities : Recorded(capability)
    BY StepCommand
  <1>2. capability \in Capabilities /\ capability \notin {"close", "authentication_load"}
    BY DEF Capabilities, StepCapabilities
  <1> QED BY <1>1, <1>2, IssuedGrows
-----------------------------------------------------------------------------
(* The session *)

\* Every run starts without a session.
LEMMA InitSession == Init => SessionInv
  BY DEF Init, SessionInv, Unopened, StillOpen, StagedForLoad, Traced, CleanupCompulsory,
         CopyConfined, Issued, SetupPoints, StepPoints

\* No command of a step opens, stages or closes anything.
LEMMA JourneyStepSession ==
  ASSUME TypeOK, SessionInv, JourneyStep
  PROVE  SessionInv'
  <1>1. /\ pc \in StepPoints /\ pc' \in StepPoints \cup ClosingPoints
        /\ UNCHANGED <<journey, traceStarted, staged, cleanup>>
    BY StepOutline, StepCommand
  <1>2. ~staged /\ traceStarted /\ Issued("close") = {} /\ cleanup = "not_needed"
    BY <1>1 DEF SessionInv, StillOpen, StagedForLoad, Traced, StepPoints
  <1>3. Unopened' /\ StillOpen'
    BY <1>1, <1>2, StepIssues DEF Unopened, StillOpen, StepPoints, ClosingPoints
  <1>4. StagedForLoad' /\ Traced'
    BY <1>1, <1>2 DEF StagedForLoad, Traced, StepPoints, ClosingPoints, SetupPoints
  <1>5. CleanupCompulsory' /\ CopyConfined'
    BY <1>1, <1>2, StepIssues
    DEF SessionInv, CleanupCompulsory, CopyConfined, StepPoints, ClosingPoints
  <1> QED BY <1>3, <1>4, <1>5 DEF SessionInv

\* The setup opens the session, and stages the sign-in state only for the load.
LEMMA SetupStepSession ==
  ASSUME TypeOK, Inductive, SessionInv, SetupStep
  PROVE  SessionInv'
  <1> USE DEF SessionInv, Unopened, StillOpen, StagedForLoad, Traced, CleanupCompulsory,
              CopyConfined, SetupPoints, StepPoints, ClosingPoints, inputs
  <1>1. pc \in {"preflight"} \cup SetupPoints /\ steps = <<>>
    BY DEF SetupStep, RunDirectoryUnavailable, Refuse, DriverUnavailable, Launch, Prepare,
           SetupCommandFails, StageState, StageFails, LoadState, LoadOrRemovalFails, StartTrace,
           EndEarly, Inductive, StepsInOrder
  <1>2. /\ Issued("close")' = {}
        /\ \/ Issued("authentication_load")' = Issued("authentication_load")
           \/ pc = "load"
    <2>1. Issued("close") = {}
      BY <1>1
    <2>2. CASE records' = records
      BY <2>1, <2>2 DEF Issued
    <2>3. CASE pc = "load" /\ Recorded("authentication_load")
      BY <2>1, <2>3, IssuedGrows DEF Capabilities
    <2>4. CASE Recorded("set_viewport") \/ Recorded("trace_start")
      BY <2>1, <2>4, IssuedGrows DEF Capabilities
    <2>5. \/ records' = records
          \/ pc = "load" /\ Recorded("authentication_load")
          \/ Recorded("set_viewport") \/ Recorded("trace_start")
      BY CommandRecorded
      DEF SetupStep, RunDirectoryUnavailable, Refuse, DriverUnavailable, Launch, Prepare,
          SetupCommandFails, StageState, StageFails, LoadState, LoadOrRemovalFails, StartTrace,
          EndEarly
    <2> QED BY <2>2, <2>3, <2>4, <2>5
  <1>3. CASE RunDirectoryUnavailable \/ Refuse \/ DriverUnavailable
    <2>1. \E p, c : \E next \in {"write", "done"} : EndEarly(p, c, next)
      BY <1>3 DEF RunDirectoryUnavailable, Refuse, DriverUnavailable
    <2>2. UNCHANGED <<journey, records, steps, staged, traceStarted, cleanup>>
          /\ pc = "preflight" /\ pc' \in {"write", "done"}
      BY <2>1 DEF EndEarly, evidence
    <2> QED BY <1>1, <1>2, <2>2 DEF Issued
  <1>4. CASE Launch
    BY <1>1, <1>2, <1>4 DEF Launch, evidence
  <1>5. CASE Prepare \/ StageState \/ LoadState
    BY <1>1, <1>2, <1>5 DEF Prepare, StageState, LoadState, ContinueSetup, evidence
  <1>6. CASE SetupCommandFails \/ StageFails \/ LoadOrRemovalFails
    BY <1>1, <1>2, <1>6 DEF SetupCommandFails, StageFails, LoadOrRemovalFails, AbandonSetup,
                            Conclude, evidence
  <1>7. CASE StartTrace
    BY <1>1, <1>2, <1>7 DEF StartTrace, StartStep, evidence
  <1> QED BY <1>3, <1>4, <1>5, <1>6, <1>7 DEF SetupStep

\* A command after the steps, and where it leads.
LEMMA ClosingIssues ==
  ASSUME TypeOK, ClosingStep
  PROVE  \/ pc \in {"console", "page_errors", "trace_stop", "close"} /\ Recorded(pc)
         \/ pc = "write" /\ records' = records
  <1>1. CASE WriteReport \/ WriteReportFails
    BY <1>1 DEF WriteReport, WriteReportFails
  <1>2. CASE Console \/ PageErrors \/ DiagnosticsFail
    <2>1. pc \in {"console", "page_errors"} /\ (Succeeds(pc) \/ Fails(pc))
      BY <1>2 DEF Console, PageErrors, DiagnosticsFail
    <2> QED BY <2>1, CommandRecorded
  <1>3. CASE StopTrace \/ StopTraceFails \/ CloseSession \/ CloseFails
    <2>1. pc \in {"trace_stop", "close"} /\ (Succeeds(pc) \/ Errors(pc))
      BY <1>3 DEF StopTrace, StopTraceFails, CloseSession, CloseFails
    <2> QED BY <2>1, CommandRecorded
  <1> QED BY <1>1, <1>2, <1>3 DEF ClosingStep

\* What every step after the steps leaves alone, and what it may do.
LEMMA ClosingOutline ==
  ASSUME ClosingStep
  PROVE  /\ UNCHANGED <<journey, opts, staged, traceStarted, steps, authentication, primary,
                        cause, execution, performed>>
         /\ \/ pc = "console" /\ pc' \in {"page_errors", "trace_stop"}
            \/ pc = "page_errors" /\ pc' = "trace_stop"
            \/ pc = "trace_stop" /\ pc' = "close"
            \/ pc = "close" /\ pc' = "write"
            \/ pc = "write" /\ pc' = "done"
         /\ UNCHANGED <<outcome, reason>> \/ (outcome' = "error" /\ reason' \in Overrides)
         /\ IF pc = "close" THEN cleanup' = "passed" \/ (cleanup' = "failed" /\ outcome' = "error")
                            ELSE cleanup' = cleanup
  <1>1. CASE Console \/ PageErrors \/ DiagnosticsFail
    BY <1>1 DEF Console, PageErrors, DiagnosticsFail, Closing, Override, Overrides, inputs
  <1>2. CASE StopTrace \/ StopTraceFails \/ CloseSession \/ CloseFails
    BY <1>2 DEF StopTrace, StopTraceFails, CloseSession, CloseFails, Closing, Override, Overrides,
                inputs
  <1>3. CASE WriteReport \/ WriteReportFails
    BY <1>3 DEF WriteReport, WriteReportFails, Closing, Override, Overrides, inputs
  <1> QED BY <1>1, <1>2, <1>3 DEF ClosingStep

\* The close of a session is its last command.
LEMMA CloseIsLast ==
  ASSUME TypeOK, SessionInv, pc = "close", CloseSession \/ CloseFails
  PROVE  /\ cleanup' = "passed" => Issued("close")' = {Len(records')}
         /\ \A k \in Issued("close")' : k = Len(records')
         /\ \A k \in Issued("trace_stop")' : \A m \in Issued("close")' : k < m
  <1>1. /\ records \in Seq(CommandRecord) /\ Len(records) \in Nat
        /\ DOMAIN records = 1 .. Len(records) /\ Issued("close") = {}
        /\ \A k \in Issued("trace_stop") : k \in 1 .. Len(records)
    BY DEF TypeOK, SessionOK, SessionInv, StillOpen, Issued
  <1>2. Recorded("close")
    BY CommandRecorded DEF CloseSession, CloseFails
  <1>3. CASE records' = records
    <2>1. cleanup' # "passed"
      <3>1. CASE CloseSession
        <4>1. records' = Append(records, [capability |-> "close", ok |-> TRUE])
          BY <3>1 DEF CloseSession, Succeeds, Record
        <4>2. Len(records') = Len(records) + 1
          BY <1>1, <4>1
        <4> QED BY <1>1, <1>3, <4>2
      <3>2. CASE CloseFails
        BY <3>2 DEF CloseFails
      <3> QED BY <3>1, <3>2
    <2>2. Issued("close")' = {}
      BY <1>1, <1>3 DEF Issued
    <2> QED BY <2>1, <2>2
  <1>4. CASE records' # records
    <2>1. /\ Len(records') = Len(records) + 1 /\ Issued("close")' = {Len(records')}
          /\ Issued("trace_stop")' = Issued("trace_stop")
      BY <1>1, <1>2, <1>4, IssuedGrows DEF Capabilities
    <2> QED BY <1>1, <2>1
  <1> QED BY <1>3, <1>4

\* The closing ends the trace and the session, in this order.
LEMMA ClosingStepSession ==
  ASSUME TypeOK, SessionInv, ClosingStep
  PROVE  SessionInv'
  <1>1. pc \in ClosingPoints \cup {"write"} /\ pc' \in ClosingPoints \cup {"write", "done"}
    BY ClosingOutline DEF ClosingPoints
  <1>2. /\ Issued("authentication_load")' = Issued("authentication_load")
        /\ pc # "close" => Issued("close")' = Issued("close")
    <2>1. CASE pc \in {"console", "page_errors", "trace_stop", "close"} /\ Recorded(pc)
      BY <2>1, IssuedGrows DEF Capabilities
    <2>2. CASE records' = records
      BY <2>2 DEF Issued
    <2> QED BY <2>1, <2>2, ClosingIssues
  <1>3. Unopened' /\ StagedForLoad' /\ Traced'
    BY <1>1, ClosingOutline
    DEF SessionInv, Unopened, StagedForLoad, Traced, ClosingPoints, SetupPoints, StepPoints
  <1>4. StillOpen'
    BY <1>1, <1>2, ClosingOutline DEF SessionInv, StillOpen, ClosingPoints
  <1>5. CleanupCompulsory'
    <2>1. CASE pc = "close"
      <3>1. CloseSession \/ CloseFails
        BY <2>1 DEF ClosingStep, Console, PageErrors, DiagnosticsFail, StopTrace, StopTraceFails,
                    WriteReport, WriteReportFails
      <3>2. cleanup' # "not_needed"
        BY <2>1, ClosingOutline
      <3> QED BY <2>1, <3>1, <3>2, CloseIsLast DEF CleanupCompulsory
    <2>2. CASE pc = "write"
      <3>1. records' = records /\ cleanup' = cleanup /\ steps' = steps /\ staged' = staged
        BY <2>2, ClosingIssues, ClosingOutline
      <3> QED BY <2>2, <3>1 DEF SessionInv, CleanupCompulsory, Issued
    <2>3. CASE pc \notin {"close", "write"}
      BY <2>3, ClosingOutline DEF CleanupCompulsory
    <2> QED BY <2>1, <2>2, <2>3
  <1>6. CopyConfined'
    BY <1>1, <1>2, ClosingOutline DEF SessionInv, CopyConfined, ClosingPoints, SetupPoints
  <1> QED BY <1>3, <1>4, <1>5, <1>6 DEF SessionInv

\* The deadline leaves the session alone.
LEMMA OtherStepSession ==
  ASSUME SessionInv, DeadlinePasses \/ UNCHANGED vars
  PROVE  SessionInv'
  <1>1. UNCHANGED <<journey, pc, records, staged, traceStarted, cleanup, steps, authentication,
                    outcome>>
    BY DEF DeadlinePasses, vars, inputs, stepVars, verdict, evidence
  <1> QED BY <1>1 DEF SessionInv, Unopened, StillOpen, StagedForLoad, Traced, CleanupCompulsory,
                      CopyConfined, Issued
-----------------------------------------------------------------------------
(* The verdict *)

\* Every run starts without a verdict.
LEMMA InitVerdict == Init => VerdictInv
  BY DEF Init, VerdictInv, StepsGoOn, VerdictSoFar, VerdictKept, VerdictExplained, FailedSoFar,
         Ended, StepPoints, ClosingPoints

\* A step that ends accounts for the verdict it leads to.
LEMMA EndStepVerdict ==
  ASSUME TypeOK, Inductive, SessionInv, VerdictInv, pc \in StepPoints,
         NEW status \in Outcomes, NEW p, NEW c, Ends(status, p, c)
  PROVE  VerdictInv'
  <1>1. PICK obs, stop :
          /\ stop \in BOOLEAN /\ EndStep(obs, status, p, c, stop)
          /\ status \in {"blocked", "error"} => stop /\ p = status
          /\ status = "failed" => p = status /\ c = "checkpoint_failed"
          /\ status = "passed" => p = primary /\ c = cause
    BY DEF Ends
  <1> DEFINE step == [status |-> status, obs |-> obs]
  <1>2. /\ index \in Nat /\ DOMAIN steps = 1 .. index - 1
        /\ Len(steps') = index /\ DOMAIN steps' = 1 .. index /\ steps' # <<>>
        /\ steps'[index] = step
        /\ \A i \in 1 .. index - 1 : steps'[i] = steps[i]
    BY <1>1, EndStepRecords DEF Inductive
  <1>3. \A i \in 1 .. index - 1 : steps[i].status \in {"passed", "failed"}
    BY <1>2 DEF VerdictInv, StepsGoOn
  <1>4. /\ primary = IF FailedSoFar THEN "failed" ELSE "passed"
        /\ cause = IF FailedSoFar THEN "checkpoint_failed" ELSE "journey_passed"
    BY DEF VerdictInv, VerdictSoFar, Underway
  <1>5. index \in 1 .. MaxSteps
    BY DEF TypeOK, ControlOK
  <1>6. FailedSoFar' <=> FailedSoFar \/ status = "failed"
    BY <1>2, <1>5 DEF FailedSoFar
  <1>7. /\ p = IF status \in {"blocked", "error"} THEN status
               ELSE IF FailedSoFar' THEN "failed" ELSE "passed"
        /\ status \in {"passed", "failed"} => c = IF FailedSoFar' THEN "checkpoint_failed" ELSE "journey_passed"
    BY <1>1, <1>4, <1>6 DEF Outcomes
  <1>8. CASE Conclude(p, c, traceStarted)
    <2>1. /\ pc' \in ClosingPoints /\ primary' = p /\ execution' = p /\ outcome' = p /\ cause' = c
          /\ pc' \in {"console", "page_errors"} => p # "blocked"
      BY <1>8 DEF Conclude, ClosingPoints
    <2>2. pc' \notin Underway /\ pc' \notin StepPoints
      BY <2>1 DEF ClosingPoints, Underway, SetupPoints, StepPoints
    <2>3. cleanup' = "not_needed"
      BY <1>1 DEF EndStep, SessionInv, StillOpen, StepPoints
    <2>4. VerdictExplained'
      <3> DEFINE last == steps'[Len(steps')].status
                 before == {steps'[i].status : i \in 1 .. Len(steps') - 1}
      <3>1. last = status
        BY <1>2
      <3>2. before \subseteq {"passed", "failed"}
        BY <1>2, <1>3
      <3>3. "failed" \in before \cup {last} <=> FailedSoFar'
        BY <1>2, <1>5, <1>6, <3>1 DEF FailedSoFar
      <3>4. execution' = IF last \in {"blocked", "error"} THEN last
                         ELSE IF "failed" \in before \cup {last} THEN "failed" ELSE "passed"
        BY <1>7, <2>1, <3>1, <3>3
      <3>5. execution' = "failed" => cause' = "checkpoint_failed"
        BY <1>7, <2>1 DEF Outcomes
      <3> QED BY <2>1, <2>3, <3>2, <3>4, <3>5 DEF VerdictExplained
    <2> QED BY <2>1, <2>2, <2>4 DEF VerdictInv, StepsGoOn, VerdictSoFar, VerdictKept
  <1>9. CASE ~stop /\ primary' = p /\ cause' = c
             /\ StartStep(index + 1, hasNavigated \/ Current.kind = "navigate")
    <2>1. pc' \in {"entry", "act"}
      BY <1>9 DEF StartStep
    <2>2. status \in {"passed", "failed"}
      BY <1>1, <1>9 DEF Outcomes
    <2>3. StepsGoOn'
      BY <1>2, <1>3, <1>5, <2>2 DEF StepsGoOn
    <2>4. VerdictSoFar'
      BY <1>7, <1>9, <2>2 DEF VerdictSoFar
    <2> QED BY <2>1, <2>3, <2>4
            DEF VerdictInv, VerdictKept, VerdictExplained, Ended, ClosingPoints
  <1> QED BY <1>1, <1>8, <1>9 DEF EndStep

\* Every command of a step keeps the verdict to the steps.
LEMMA JourneyStepVerdict ==
  ASSUME TypeOK, Inductive, SessionInv, VerdictInv, JourneyStep
  PROVE  VerdictInv'
  <1>1. pc \in StepPoints
    BY StepCommand
  <1>2. CASE Going
    <2>1. pc' \in StepPoints /\ UNCHANGED <<steps, primary, cause>>
      BY <1>2 DEF Going, verdict
    <2>2. pc' \notin Ended /\ pc' \notin {"console", "page_errors"} /\ pc' \notin ClosingPoints
      BY <2>1 DEF Ended, ClosingPoints, StepPoints
    <2> QED BY <1>1, <2>1, <2>2
            DEF VerdictInv, StepsGoOn, VerdictSoFar, VerdictKept, VerdictExplained, FailedSoFar,
                Underway, StepPoints
  <1> QED BY <1>1, <1>2, EndStepVerdict, JourneyEnds

\* A setup that is given up has its own verdict, without a step.
LEMMA SetupStepVerdict ==
  ASSUME TypeOK, Inductive, VerdictInv, SetupStep
  PROVE  VerdictInv'
  <1> USE DEF SetupPoints, StepPoints, ClosingPoints, Underway, Ended
  <1>1. /\ pc \in {"preflight"} \cup SetupPoints /\ steps = <<>> /\ steps' = <<>>
    BY DEF SetupStep, RunDirectoryUnavailable, Refuse, DriverUnavailable, Launch, Prepare,
           SetupCommandFails, StageState, StageFails, LoadState, LoadOrRemovalFails, StartTrace,
           EndEarly, ContinueSetup, AbandonSetup, evidence, Inductive, StepsInOrder
  <1>2. StepsGoOn' /\ VerdictExplained' /\ ~FailedSoFar /\ ~FailedSoFar'
    BY <1>1 DEF StepsGoOn, VerdictExplained, FailedSoFar
  <1>3. primary = "passed" /\ cause = "journey_passed"
    BY <1>1, <1>2 DEF VerdictInv, VerdictSoFar
  <1>4. CASE RunDirectoryUnavailable \/ Refuse \/ DriverUnavailable
    <2>1. \E p, c : \E next \in {"write", "done"} : EndEarly(p, c, next)
      BY <1>4 DEF RunDirectoryUnavailable, Refuse, DriverUnavailable
    <2>2. pc' \in {"write", "done"} /\ primary' = execution'
      BY <2>1 DEF EndEarly
    <2> QED BY <1>2, <2>2 DEF VerdictInv, VerdictSoFar, VerdictKept
  <1>5. CASE Launch \/ Prepare \/ StageState \/ LoadState \/ StartTrace
    <2>1. pc' \in SetupPoints \cup StepPoints /\ primary' = primary /\ cause' = cause
      BY <1>5 DEF Launch, Prepare, StageState, LoadState, StartTrace, ContinueSetup, StartStep,
                  verdict
    <2> QED BY <1>2, <1>3, <2>1 DEF VerdictInv, VerdictSoFar, VerdictKept
  <1>6. CASE SetupCommandFails \/ StageFails \/ LoadOrRemovalFails
    <2>1. pc' = "close" /\ primary' = execution'
      BY <1>6 DEF SetupCommandFails, StageFails, LoadOrRemovalFails, AbandonSetup, Conclude
    <2> QED BY <1>2, <2>1 DEF VerdictInv, VerdictSoFar, VerdictKept
  <1> QED BY <1>4, <1>5, <1>6 DEF SetupStep

\* The closing turns a verdict into an error, with a reason, or keeps it.
LEMMA ClosingStepVerdict ==
  ASSUME TypeOK, SessionInv, VerdictInv, ClosingStep
  PROVE  VerdictInv'
  <1>1. pc \in ClosingPoints \cup {"write"} /\ pc' \in ClosingPoints \cup {"write", "done"}
    BY ClosingOutline DEF ClosingPoints
  <1>2. StepsGoOn' /\ VerdictSoFar'
    BY <1>1 DEF StepsGoOn, VerdictSoFar, ClosingPoints, Underway, SetupPoints, StepPoints
  <1>3. VerdictKept'
    BY <1>1, ClosingOutline DEF VerdictInv, VerdictKept, Ended
  <1>4. VerdictExplained'
    <2>1. steps # <<>> /\ cleanup' = "failed" => outcome' = "error"
      <3>1. CASE pc = "close"
        BY <3>1, ClosingOutline
      <3>2. CASE pc \in ClosingPoints \ {"close"}
        BY <3>2, ClosingOutline DEF SessionInv, StillOpen, ClosingPoints
      <3>3. CASE pc = "write"
        BY <3>3, ClosingOutline DEF VerdictInv, VerdictExplained
      <3> QED BY <1>1, <3>1, <3>2, <3>3
    <2> QED BY <1>1, <2>1, ClosingOutline DEF VerdictInv, VerdictExplained, ClosingPoints
  <1> QED BY <1>2, <1>3, <1>4 DEF VerdictInv

\* The deadline leaves the verdict alone.
LEMMA OtherStepVerdict ==
  ASSUME VerdictInv, DeadlinePasses \/ UNCHANGED vars
  PROVE  VerdictInv'
  <1>1. UNCHANGED <<pc, cleanup, steps, primary, cause, outcome, execution, reason>>
    BY DEF DeadlinePasses, vars, stepVars, verdict, evidence
  <1> QED BY <1>1 DEF VerdictInv, StepsGoOn, VerdictSoFar, VerdictKept, VerdictExplained,
                      FailedSoFar
-----------------------------------------------------------------------------
(* Theorems *)

\* The outline holds at the start.
LEMMA OutlineInit == Init => Outline
  BY InductiveInit, InitSession, InitVerdict DEF Outline

\* The outline holds after every step.
LEMMA OutlineStep == Outline /\ [Next]_vars => Outline'
  BY InductiveStep, JourneyStepSession, SetupStepSession, ClosingStepSession, OtherStepSession,
     JourneyStepVerdict, SetupStepVerdict, ClosingStepVerdict, OtherStepVerdict
  DEF Outline, Inductive, Next, RunStep

\* The outline of every run: the verdict so far is that of the steps so far, and the session
\* is in the state its point implies.
THEOREM OutlineInvariant == Spec => []Outline
  BY OutlineInit, OutlineStep, PTL DEF Spec

\* In every run the recorded steps account for the verdict on the execution, and a report that
\* departs from it is an error with a reason of its own.
THEOREM VerdictIsExplained == Spec => []VerdictExplained
  <1>1. Outline => VerdictExplained
    BY DEF Outline, VerdictInv
  <1> QED BY <1>1, OutlineInvariant, PTL

\* Every run that may have started a session tries to close it, last of all, whatever failed.
THEOREM CleanupIsCompulsory == Spec => []CleanupCompulsory
  <1>1. Outline => CleanupCompulsory
    BY DEF Outline, SessionInv
  <1> QED BY <1>1, OutlineInvariant, PTL

\* In no run does the private copy of the sign-in state outlive its load, unless its removal
\* failed, and then the run ends in an error without a step.
THEOREM CopyIsConfined == Spec => []CopyConfined
  <1>1. Outline => CopyConfined
    BY DEF Outline, SessionInv
  <1> QED BY <1>1, OutlineInvariant, PTL

\* Once a step has blocked or broken a run, its browser receives cleanup commands only, and the
\* console of a blocked page is not read.
THEOREM QuietAfterTheVerdict == Spec => QuietAfterVerdict
  <1> DEFINE Quiet == records' # records =>
               /\ primary \in {"blocked", "error"} => Appended \in CleanupGrace
               /\ primary = "blocked" => Appended \in {"trace_stop", "close"}
  <1>1. ASSUME Outline, [Next]_vars PROVE [Quiet]_vars
    <2>1. TypeOK
      BY <1>1 DEF Outline, Inductive
    <2>2. CASE pc \in Underway
      BY <1>1, <2>2 DEF Outline, VerdictInv, VerdictSoFar
    <2>3. CASE ClosingStep
      <3>1. CASE records' # records
        <4>1. /\ pc \in {"console", "page_errors", "trace_stop", "close"}
              /\ Recorded(pc)
          BY <2>1, <2>3, <3>1, ClosingIssues
        <4>2. Appended = pc
          BY <2>1, <3>1, <4>1, IssuedGrows DEF Capabilities
        <4> QED BY <1>1, <4>1, <4>2 DEF Outline, VerdictInv, VerdictKept, CleanupGrace
      <3> QED BY <3>1
    <2>4. CASE SetupStep \/ JourneyStep
      <3>1. pc \in Underway \/ records' = records
        BY <2>1, <2>4, StepCommand, SetupCommand DEF Underway
      <3> QED BY <2>2, <3>1
    <2>5. CASE DeadlinePasses \/ UNCHANGED vars
      BY <2>5 DEF DeadlinePasses, vars
    <2> QED BY <1>1, <2>3, <2>4, <2>5 DEF Next, RunStep
  <1>2. Spec => [][Next]_vars
    BY PTL DEF Spec
  <1> QED BY <1>1, <1>2, OutlineInvariant, PTL DEF QuietAfterVerdict

\* The deadline has passed before the run ends only if its execution ends in an error.
DeadlineInv ==
  /\ pc = "preflight" => ~expired
  /\ DeadlineDecides

\* After the deadline a step of the journey can only end in an error.
LEMMA ExpiredStep ==
  ASSUME TypeOK, JourneyStep, expired
  PROVE  \E obs, c : StepError(obs, "error", c)
  <1>1. ~Permitted("current_url") /\ ~Permitted("navigate") /\ ~Permitted("bounding_box")
        /\ ~Permitted("screenshot") /\ ~Permitted("click")
        /\ \A capability \in PageInspections : ~Permitted(capability)
    BY DEF Permitted, CleanupGrace, PageInspections
  <1>2. /\ ~UrlOutside /\ ~StrayInspection /\ ~EntryInside /\ ~TrailingInside /\ ~HiddenInside
        /\ ~Arrive /\ ~CheckUrl /\ ~LinkPreflight /\ ~Landed
    BY <1>1 DEF UrlOutside, StrayInspection, EntryInside, TrailingInside, HiddenInside, Arrive,
                CheckUrl, LinkPreflight, Landed, ReadsInside, Succeeds
  <1>3. ~Navigate /\ ~NavigationBlocked /\ ~BoundingBox /\ ~Click /\ ~ClickNeedsConfirmation
    BY <1>1 DEF Navigate, NavigationBlocked, BoundingBox, Click, ClickNeedsConfirmation, Succeeds
  <1>4. ~LookForTarget /\ ~CheckText /\ ~LinkVisible /\ ~LinkEnabled /\ ~LinkHref
    BY <1>1 DEF LookForTarget, CheckText, LinkVisible, LinkEnabled, LinkHref, AnsweredInside,
                Succeeds, PageInspections
  <1>5. ~CaptureEvidence /\ ~EvidenceFails /\ ~LinkRefused /\ ~LinkReady
    BY <1>1 DEF CaptureEvidence, EvidenceFails, LinkRefused, LinkReady, Succeeds
  <1>6. StepCommandFails \/ ClickFails \/ LandingUnknown
    BY <1>2, <1>3, <1>4, <1>5 DEF JourneyStep
  <1> QED BY <1>6 DEF StepCommandFails, ClickFails, LandingUnknown

\* A deadline that passes before the last command of the steps makes the execution of every
\* run an error, whatever its steps had come to by then.
THEOREM DeadlineIsDecisive == Spec => []DeadlineDecides
  <1>1. Init => DeadlineInv
    BY DEF Init, DeadlineInv, DeadlineDecides, ClosingPoints
  <1>2. ASSUME Inductive, DeadlineInv, [Next]_vars
        PROVE  DeadlineInv'
    <2> USE DEF DeadlineInv, DeadlineDecides
    <2>1. TypeOK
      BY <1>2 DEF Inductive
    <2>2. CASE JourneyStep
      <3>1. pc' \in StepPoints \cup ClosingPoints /\ pc \in StepPoints
        BY <2>1, <2>2, StepOutline, StepCommand
      <3>2. expired' = expired
        <4>1. ASSUME NEW obs, NEW status, NEW p, NEW c, NEW stop, EndStep(obs, status, p, c, stop)
              PROVE  expired' = expired
          BY <4>1 DEF EndStep
        <4>2. CASE Going
          BY <4>2 DEF Going
        <4> QED BY <2>1, <2>2, <4>1, <4>2, JourneyEnds DEF Ends
      <3>3. CASE expired
        <4>1. PICK obs, c : StepError(obs, "error", c)
          BY <2>1, <2>2, <3>3, ExpiredStep
        <4>2. execution' = "error"
          BY <4>1 DEF StepError, EndStep, Conclude
        <4> QED BY <3>1, <4>2 DEF StepPoints, ClosingPoints
      <3> QED BY <3>1, <3>2, <3>3 DEF StepPoints, ClosingPoints
    <2>3. CASE SetupStep
      <3>1. CASE RunDirectoryUnavailable \/ Refuse \/ DriverUnavailable \/ Launch
        <4>1. pc = "preflight" /\ expired' = expired
          BY <3>1 DEF RunDirectoryUnavailable, Refuse, DriverUnavailable, Launch, EndEarly
        <4> QED BY <1>2, <4>1
      <3>2. CASE SetupCommandFails \/ StageFails \/ LoadOrRemovalFails
        <4>1. pc' = "close" /\ execution' = "error"
          BY <3>2 DEF SetupCommandFails, StageFails, LoadOrRemovalFails, AbandonSetup, Conclude
        <4> QED BY <4>1
      <3>3. CASE Prepare \/ StageState \/ LoadState \/ StartTrace
        <4>1. pc' \in SetupPoints \cup StepPoints
          BY <3>3 DEF Prepare, StageState, LoadState, StartTrace, ContinueSetup, StartStep,
                      SetupPoints, StepPoints
        <4> QED BY <4>1 DEF SetupPoints, StepPoints, ClosingPoints
      <3> QED BY <2>3, <3>1, <3>2, <3>3 DEF SetupStep
    <2>4. CASE ClosingStep
      <3>1. expired' = expired
        BY <2>4 DEF ClosingStep, Console, PageErrors, DiagnosticsFail, StopTrace, StopTraceFails,
                    CloseSession, CloseFails, WriteReport, WriteReportFails, Closing
      <3> QED BY <1>2, <2>4, <3>1, ClosingOutline DEF ClosingPoints
    <2>5. CASE DeadlinePasses
      BY <2>5 DEF DeadlinePasses, SetupPoints, StepPoints, ClosingPoints
    <2>6. CASE UNCHANGED vars
      BY <1>2, <2>6 DEF vars
    <2> QED BY <1>2, <2>2, <2>3, <2>4, <2>5, <2>6 DEF Next, RunStep
  <1>3. DeadlineInv => DeadlineDecides
    BY DEF DeadlineInv
  <1> QED BY <1>1, <1>2, <1>3, InductiveInvariant, PTL DEF Spec
=============================================================================
