-------------------------- MODULE RunPromise_proofs --------------------------
(***************************************************************************)
(* Proofs that a passed run has earned it, and that every step of a run is *)
(* a step of its promise, for every site, journey, option and failure.     *)
(***************************************************************************)
EXTENDS RunStory_proofs

-----------------------------------------------------------------------------
(* The commands of a run that may still pass *)

\* The command has succeeded, or nothing was issued.
Flawless ==
  \/ records' = records
  \/ \E capability \in Capabilities :
       records' = Append(records, [capability |-> capability, ok |-> TRUE])

\* A command that succeeds leaves no failure.
LEMMA SucceedsFlawless ==
  ASSUME NEW capability \in Capabilities, Succeeds(capability)
  PROVE  Flawless
  BY DEF Succeeds, Record, Flawless

\* Without a failure a run in which nothing has failed stays one.
LEMMA AllOkKept ==
  ASSUME TypeOK, AllOk, Flawless
  PROVE  AllOk'
  <1>1. records \in Seq(CommandRecord)
    BY DEF TypeOK, SessionOK
  <1>2. CASE records' = records
    BY <1>2 DEF AllOk
  <1>3. ASSUME NEW capability \in Capabilities,
               records' = Append(records, [capability |-> capability, ok |-> TRUE])
        PROVE  AllOk'
    <2>1. [capability |-> capability, ok |-> TRUE] \in CommandRecord
      BY DEF CommandRecord
    <2> QED BY <1>1, <1>3, <2>1 DEF AllOk
  <1> QED BY <1>2, <1>3 DEF Flawless

\* The run ends with a step that has blocked or broken it.
EndsBadly ==
  \E p \in {"blocked", "error"} : primary' = p /\ outcome' = p /\ execution' = p /\ pc' \in Ended

\* A step that ends in an error ends the run with it.
LEMMA ErrorEndsBadly ==
  ASSUME NEW obs, NEW p \in {"blocked", "error"}, NEW c, StepError(obs, p, c)
  PROVE  EndsBadly
  BY DEF StepError, EndStep, Conclude, EndsBadly, Ended, ClosingPoints

\* So does a step that is blocked.
LEMMA BlockedEndsBadly ==
  ASSUME NEW obs, StepResult(obs, "blocked")
  PROVE  EndsBadly
  BY DEF StepResult, EndStep, Conclude, EndsBadly, Ended, ClosingPoints

\* A command of a step leaves no failure, or ends the run badly.
LEMMA JourneyFlawless ==
  ASSUME TypeOK, JourneyStep
  PROVE  Flawless \/ EndsBadly
  <1> USE DEF Capabilities, StepCapabilities
  <1>1. Command \in Capabilities
    BY StepCommand, CommandType DEF Capabilities
  <1>2. CASE UrlOutside \/ NavigationBlocked
    BY <1>2, BlockedEndsBadly DEF UrlOutside, NavigationBlocked
  <1>3. CASE StrayInspection \/ StepCommandFails \/ EvidenceFails \/ ClickNeedsConfirmation
             \/ ClickFails \/ LandingUnknown
    BY <1>3, ErrorEndsBadly DEF StrayInspection, StepCommandFails, EvidenceFails,
                                ClickNeedsConfirmation, ClickFails, LandingUnknown
  <1>4. CASE EntryInside \/ TrailingInside \/ HiddenInside \/ Arrive \/ CheckUrl \/ LinkPreflight
             \/ Landed
    BY <1>4, SucceedsFlawless DEF EntryInside, TrailingInside, HiddenInside, Arrive, CheckUrl,
                                  LinkPreflight, Landed, ReadsInside
  <1>5. CASE LookForTarget \/ CheckText \/ LinkVisible \/ LinkEnabled \/ LinkHref
    BY <1>5, SucceedsFlawless DEF LookForTarget, CheckText, LinkVisible, LinkEnabled, LinkHref,
                                  AnsweredInside
  <1>6. CASE Navigate \/ BoundingBox \/ CaptureEvidence \/ LinkRefused \/ LinkReady \/ Click
    BY <1>6, SucceedsFlawless DEF Navigate, BoundingBox, CaptureEvidence, LinkRefused, LinkReady,
                                  Click
  <1> QED BY <1>2, <1>3, <1>4, <1>5, <1>6 DEF JourneyStep

\* Setup fails no command without ending the run with an error.
LEMMA SetupFlawless ==
  ASSUME SetupStep
  PROVE  Flawless \/ EndsBadly
  <1> USE DEF Capabilities
  <1>1. CASE RunDirectoryUnavailable \/ Refuse \/ DriverUnavailable
    <2>1. \E p, c, next : EndEarly(p, c, next)
      BY <1>1 DEF RunDirectoryUnavailable, Refuse, DriverUnavailable
    <2> QED BY <2>1 DEF EndEarly, Flawless
  <1>2. CASE Launch \/ StageState \/ StageFails
    BY <1>2 DEF Launch, StageState, StageFails, Flawless
  <1>3. CASE Prepare \/ LoadState \/ StartTrace
    BY <1>3, SucceedsFlawless DEF Prepare, LoadState, StartTrace
  <1>4. CASE SetupCommandFails \/ LoadOrRemovalFails
    BY <1>4 DEF SetupCommandFails, LoadOrRemovalFails, AbandonSetup, Conclude, EndsBadly, Ended,
                ClosingPoints
  <1> QED BY <1>1, <1>2, <1>3, <1>4 DEF SetupStep

\* A run the setup has ended is not clean.
LEMMA SetupEnds ==
  ASSUME SetupStep
  PROVE  pc' \in Underway \/ EndsBadly
  <1>1. CASE RunDirectoryUnavailable \/ DriverUnavailable
    BY <1>1 DEF RunDirectoryUnavailable, DriverUnavailable, EndEarly, EndsBadly, Ended
  <1>2. CASE Refuse
    BY <1>2 DEF Refuse, EndEarly, RefusalOutcome, EndsBadly, Ended
  <1>3. CASE Launch \/ Prepare \/ StageState \/ LoadState \/ StartTrace
    BY <1>3 DEF Launch, Prepare, StageState, LoadState, StartTrace, ContinueSetup, StartStep,
                Underway, SetupPoints, StepPoints
  <1>4. CASE SetupCommandFails \/ StageFails \/ LoadOrRemovalFails
    BY <1>4 DEF SetupCommandFails, StageFails, LoadOrRemovalFails, AbandonSetup, Conclude,
                EndsBadly, Ended, ClosingPoints
  <1> QED BY <1>1, <1>2, <1>3, <1>4 DEF SetupStep

\* A closing step that leaves the report clean has succeeded.
LEMMA ClosingFlawless ==
  ASSUME ClosingStep
  PROVE  outcome' = "error" \/ (outcome' = outcome /\ Flawless)
  <1>1. CASE Console \/ PageErrors \/ StopTrace \/ CloseSession
    BY <1>1, SucceedsFlawless DEF Console, PageErrors, StopTrace, CloseSession, Capabilities
  <1>2. CASE DiagnosticsFail \/ StopTraceFails \/ CloseFails \/ WriteReportFails
    BY <1>2 DEF DiagnosticsFail, StopTraceFails, CloseFails, WriteReportFails, Override
  <1>3. CASE WriteReport
    BY <1>3 DEF WriteReport, Flawless
  <1> QED BY <1>1, <1>2, <1>3 DEF ClosingStep
-----------------------------------------------------------------------------
(* A run that may still pass *)

\* Nothing has failed in a run that has not begun.
LEMMA InitEarned == Init => EarnedInv
  BY DEF Init, EarnedInv, CommandsOk, OutcomeKept, ClosedInOrder, AllPassed, AllOk, Ended,
         ClosingPoints

\* Of a run that has been blocked or broken nothing is asked.
LEMMA BadlyEarned ==
  ASSUME EndsBadly
  PROVE  EarnedInv'
  BY DEF EndsBadly, EarnedInv, CommandsOk, OutcomeKept, ClosedInOrder, AllPassed, Clean, Ended,
         Underway, ClosingPoints, SetupPoints, StepPoints

\* While a run is under way, that no command has failed is all it has earned.
LEMMA UnderwayEarned ==
  ASSUME pc' \in Underway, AllOk'
  PROVE  EarnedInv'
  BY DEF EarnedInv, CommandsOk, OutcomeKept, ClosedInOrder, AllPassed, Ended, Underway,
         ClosingPoints, SetupPoints, StepPoints

\* An execution that passes at a step has passed every step.
LEMMA PassesEarned ==
  ASSUME Outline, StoryInv, pc \in StepPoints,
         NEW obs, NEW res \in {"passed", "failed", "blocked"}, StepResult(obs, res),
         pc' \in Ended, execution' = "passed"
  PROVE  AllPassed'
  <1>1. TypeOK /\ Admission /\ StepsInOrder /\ index \in Nat
    BY StepIndex DEF Outline, Inductive
  <1>2. ValidJourney(journey) /\ journey.steps \in Seq(Step) /\ journey' = journey
    BY <1>1, AdmittedValid, InputsAssumption
    DEF Admission, TypeOK, ControlOK, Document, StepResult, EndStep, inputs
  <1>3. PICK p, c, stop :
          /\ EndStep(obs, res, p, c, stop)
          /\ res = "passed" /\ ~stop /\ p = primary /\ p = "passed"
          /\ index = Len(journey.steps)
    <2>1. Conclude(IF (IF res = "failed" /\ Verifying THEN "blocked" ELSE res) = "passed"
                     THEN primary ELSE IF res = "failed" /\ Verifying THEN "blocked" ELSE res,
                   cause', traceStarted)
      BY DEF StepResult, EndStep, Conclude, StartStep, Ended, ClosingPoints
    <2>2. res = "passed" /\ primary = "passed"
      BY <2>1 DEF Conclude
    <2>3. pc' \notin {"entry", "act"}
      BY DEF Ended, ClosingPoints
    <2> QED BY <2>2, <2>3 DEF StepResult, EndStep, StartStep
  <1>4. /\ DOMAIN steps' = 1 .. index /\ steps' # <<>> /\ DOMAIN steps = 1 .. index - 1
        /\ steps'[index].status = "passed"
        /\ \A i \in 1 .. index - 1 : steps'[i] = steps[i]
    <2>1. steps'[index] = [status |-> res, obs |-> obs]
      BY <1>1, <1>3, EndStepRecords
    <2> QED BY <1>1, <1>3, <2>1, EndStepRecords
  <1>5. \A i \in DOMAIN steps : steps[i].status = "passed"
    BY <1>3 DEF Outline, VerdictInv, VerdictSoFar, StepsGoOn, FailedSoFar, Underway
  <1>6. DOMAIN journey.steps = 1 .. index
    BY <1>2, <1>3
  <1>7. journey.schema = 4 => authentication' = "verified"
    <2>1. ASSUME journey.schema = 4
          PROVE  index > journey.auth.verify \/ index = journey.auth.verify
      BY <1>1, <1>2, <1>6, <2>1 DEF ValidJourney, ValidAuthenticationSteps, IndexesOf
    <2>2. authentication' = IF Verifying THEN "verified" ELSE authentication
      BY <1>3 DEF StepResult
    <2> QED BY <2>1, <2>2 DEF StoryInv, PastVerification, Verifying
  <1>8. \A i \in DOMAIN steps' : steps'[i].status = "passed"
    <2> TAKE i \in DOMAIN steps'
    <2>1. i = index \/ i \in 1 .. index - 1
      BY <1>1, <1>4
    <2> QED BY <1>4, <1>5, <2>1
  <1> QED BY <1>2, <1>4, <1>6, <1>7, <1>8 DEF AllPassed

\* A run whose steps are over keeps its diagnostics before anything else.
LEMMA ResultEarned ==
  ASSUME Outline, StoryInv, pc \in StepPoints, AllOk',
         NEW obs, NEW res \in {"passed", "failed", "blocked"}, StepResult(obs, res)
  PROVE  EarnedInv'
  <1>1. CASE pc' \in {"entry", "act"}
    BY <1>1, UnderwayEarned DEF Underway, StepPoints
  <1>2. CASE pc' \notin {"entry", "act"}
    <2>1. PICK p, c : Conclude(p, c, traceStarted)
      BY <1>2 DEF StepResult, EndStep, StartStep
    <2>2. traceStarted /\ journey.required = {"trace", "diagnostics"}
      BY AdmittedValid
      DEF Outline, SessionInv, Traced, Inductive, Admission, ValidJourney
    <2>3. /\ pc' \in {"console", "trace_stop"} /\ outcome' = p /\ execution' = p
          /\ pc' = "trace_stop" => p = "blocked"
      BY <2>1, <2>2 DEF Conclude
    <2>4. CommandsOk' /\ OutcomeKept' /\ ClosedInOrder'
      BY <2>3 DEF CommandsOk, OutcomeKept, ClosedInOrder, Clean
    <2>5. pc' \in Ended
      BY <2>3 DEF Ended, ClosingPoints
    <2>6. AllPassed'
      <3>1. CASE execution' = "passed"
        BY <2>5, <3>1, PassesEarned
      <3>2. CASE execution' # "passed"
        BY <3>2 DEF AllPassed
      <3> QED BY <3>1, <3>2
    <2> QED BY <2>4, <2>6 DEF EarnedInv
  <1> QED BY <1>1, <1>2

\* Every command of a step keeps what the run has earned.
LEMMA JourneyStepEarned ==
  ASSUME Story, EarnedInv, JourneyStep
  PROVE  EarnedInv'
  <1>1. TypeOK /\ pc \in StepPoints /\ AllOk
    BY StepCommand DEF Story, Outline, Inductive, EarnedInv, CommandsOk, Underway
  <1>2. CASE EndsBadly
    BY <1>2, BadlyEarned
  <1>3. CASE ~EndsBadly
    <2>1. AllOk'
      BY <1>1, <1>3, JourneyFlawless, AllOkKept
    <2>2. CASE Going
      BY <2>1, <2>2, UnderwayEarned DEF Going, Underway
    <2>3. ASSUME NEW obs, NEW res \in {"passed", "failed", "blocked"}, StepResult(obs, res)
          PROVE  EarnedInv'
      BY <1>1, <2>1, <2>3, ResultEarned DEF Story
    <2> QED BY <1>1, <1>3, <2>2, <2>3, JourneyShape, ErrorEndsBadly
  <1> QED BY <1>2, <1>3

\* So does every step of the setup.
LEMMA SetupStepEarned ==
  ASSUME Story, EarnedInv, SetupStep
  PROVE  EarnedInv'
  <1>1. TypeOK /\ pc \in Underway
    BY SetupLeaves DEF Story, Outline, Inductive, Underway
  <1>2. AllOk
    BY <1>1 DEF EarnedInv, CommandsOk
  <1> QED BY <1>1, <1>2, SetupFlawless, SetupEnds, AllOkKept, BadlyEarned, UnderwayEarned

\* So does every step of the closing.
LEMMA ClosingStepEarned ==
  ASSUME Story, EarnedInv, ClosingStep
  PROVE  EarnedInv'
  <1>1. TypeOK /\ pc \in Ended /\ pc' \in Ended
    BY ClosingOutline, ClosingLeaves DEF Story, Outline, Inductive, Ended, ClosingPoints
  <1>2. UNCHANGED <<journey, steps, authentication, execution, traceStarted>>
    BY ClosingOutline
  <1>3. AllPassed'
    BY <1>1, <1>2 DEF EarnedInv, AllPassed
  <1>4. OutcomeKept'
    BY <1>1, <1>2, ClosingFlawless DEF EarnedInv, OutcomeKept
  <1>5. CASE outcome' = "error"
    BY <1>1, <1>3, <1>4, <1>5 DEF EarnedInv, CommandsOk, ClosedInOrder, Clean, Ended, Underway,
                                  ClosingPoints, SetupPoints, StepPoints
  <1>6. CASE outcome' = outcome /\ Flawless /\ outcome # "error"
    <2>1. CommandsOk'
      BY <1>1, <1>6, AllOkKept DEF EarnedInv, CommandsOk, Clean, Ended, Underway, ClosingPoints,
                                   SetupPoints, StepPoints
    <2>2. ClosedInOrder'
      <3>1. CASE Console \/ PageErrors
        BY <1>1, <1>2, <1>6, <3>1
        DEF Console, PageErrors, Closing, EarnedInv, ClosedInOrder, Clean
      <3>2. CASE StopTrace
        <4>1. traceStarted
          BY <3>2 DEF StopTrace, Story, Outline, SessionInv, Traced
        <4> QED BY <1>1, <1>2, <1>6, <3>2, <4>1
                DEF StopTrace, Closing, EarnedInv, ClosedInOrder, Clean
      <3>3. CASE CloseSession \/ WriteReport
        BY <1>1, <1>2, <1>6, <3>3
        DEF CloseSession, WriteReport, Closing, EarnedInv, ClosedInOrder, Clean
      <3>4. CASE DiagnosticsFail \/ StopTraceFails \/ CloseFails \/ WriteReportFails
        BY <1>6, <3>4 DEF DiagnosticsFail, StopTraceFails, CloseFails, WriteReportFails, Override
      <3> QED BY <3>1, <3>2, <3>3, <3>4 DEF ClosingStep
    <2> QED BY <1>3, <1>4, <2>1, <2>2 DEF EarnedInv
  <1> QED BY <1>5, <1>6, ClosingFlawless

\* So does the deadline.
LEMMA OtherStepEarned ==
  ASSUME EarnedInv, DeadlinePasses \/ UNCHANGED vars
  PROVE  EarnedInv'
  <1>1. UNCHANGED <<journey, pc, records, outcome, execution, traceStarted, diagnostics, artifacts,
                    cleanup, written, steps, authentication>>
    BY DEF DeadlinePasses, vars, inputs, verdict, evidence
  <1> QED BY <1>1 DEF EarnedInv, CommandsOk, OutcomeKept, ClosedInOrder, AllPassed, AllOk, Clean
-----------------------------------------------------------------------------
(* A passed run *)

\* What a run has earned it keeps, after every step.
LEMMA EarnedStep == Story /\ EarnedInv /\ [Next]_vars => EarnedInv'
  BY JourneyStepEarned, SetupStepEarned, ClosingStepEarned, OtherStepEarned DEF Next, RunStep

\* In every run nothing has failed that has not been told: the commands of a run that may
\* still pass, its evidence and its session.
THEOREM EarnedInvariant == Spec => [](Story /\ EarnedInv)
  <1>1. Init => EarnedInv
    BY InitEarned
  <1> QED BY <1>1, EarnedStep, StoryInvariant, PTL DEF Spec

\* An execution that passed has clicked each link once and verified where it led.
LEMMA LinksClicked ==
  ASSUME Story, AllPassed, pc \in Ended, execution = "passed"
  PROVE  \A i \in Links : i \in DOMAIN steps /\ performed[i] = 1
                          /\ DeliberateAction(i) = "effect_verified"
  <1> TAKE i \in Links
  <1>1. i \in DOMAIN journey.steps /\ journey.steps[i].kind = "follow_link"
    BY DEF Links, Required, IndexesOf, Interactive
  <1>2. i \in DOMAIN steps /\ steps[i].status = "passed"
    BY <1>1 DEF AllPassed
  <1>3. steps[i].obs.action = "effect_verified" /\ performed[i] = 1
    BY <1>1, <1>2 DEF Story, StoryInv, RecordsTold, RecordTold, Truthful, ActionTold
  <1> QED BY <1>2, <1>3 DEF DeliberateAction

\* A run that reports "passed" has executed every step with success, verified its sign-in,
\* clicked every link once, kept its evidence, closed its session and failed no command.
THEOREM PassesAreEarned == Spec => []PassedIsEarned
  <1>1. Story /\ EarnedInv => PassedIsEarned
    <2> SUFFICES ASSUME Story, EarnedInv, pc = "done", outcome = "passed"
                 PROVE  /\ DOMAIN steps = DOMAIN journey.steps
                        /\ StatusesOf(journey) = {"passed"}
                        /\ journey.schema = 4 => authentication = "verified"
                        /\ \A i \in Links : performed[i] = 1 /\ DeliberateAction(i) = "effect_verified"
                        /\ diagnostics /\ TraceArtifact \in artifacts /\ written
                        /\ cleanup = "passed"
                        /\ \A k \in DOMAIN records : records[k].ok
      BY DEF PassedIsEarned
    <2>1. pc \in Ended /\ Clean /\ execution = "passed"
      BY DEF Ended, Clean, EarnedInv, OutcomeKept
    <2>2. AllPassed /\ ClosedInOrder /\ AllOk
      BY <2>1 DEF EarnedInv, CommandsOk
    <2>3. /\ DOMAIN steps = DOMAIN journey.steps /\ steps # <<>>
          /\ \A i \in DOMAIN steps : steps[i].status = "passed"
          /\ journey.schema = 4 => authentication = "verified"
      BY <2>1, <2>2 DEF AllPassed
    <2>4. \E i : i \in DOMAIN steps
      BY <2>3 DEF Story, Outline, Inductive, TypeOK, ReportOK
    <2>5. StatusesOf(journey) = {"passed"}
      BY <2>3, <2>4 DEF StatusesOf
    <2> QED BY <2>1, <2>2, <2>3, <2>5, LinksClicked DEF ClosedInOrder, AllOk
  <1> QED BY <1>1, EarnedInvariant, PTL
-----------------------------------------------------------------------------
(* The promise of a run *)

\* The links this run may click, and those it has clicked.
Licences == IF Admitted(journey, opts) THEN Links ELSE {}

Clicked == {i \in DOMAIN performed : performed[i] > 0}

\* The phase of the promise is that of the point the run has reached.
LEMMA PhaseOfPoint ==
  /\ pc = "preflight" => Phase = "judging"
  /\ pc \in SetupPoints \cup StepPoints => Phase = "driving"
  /\ pc \in ClosingPoints \cup {"write"} => Phase = "judged"
  /\ pc = "done" => Phase = "settled"
  /\ pc' = "preflight" => Phase' = "judging"
  /\ pc' \in SetupPoints \cup StepPoints => Phase' = "driving"
  /\ pc' \in ClosingPoints \cup {"write"} => Phase' = "judged"
  /\ pc' = "done" => Phase' = "settled"
  BY DEF Phase, SetupPoints, StepPoints, ClosingPoints

\* A step of the run that leaves these alone is none of its promise.
LEMMA PromiseStutter ==
  ASSUME Phase' = Phase, Licences' = Licences, Clicked' = Clicked,
         execution' = execution, outcome' = outcome
  PROVE  UNCHANGED Promise!pvars
  BY DEF Promise!pvars, Licences, Clicked

\* The steps of the promise, in terms of the run.
LEMMA PromiseSteps ==
  /\ /\ Phase = "judging" /\ Phase' \in {"judged", "settled"}
     /\ execution' \in {"blocked", "error"} /\ outcome' = execution'
     /\ Licences' = Licences /\ Clicked' = Clicked
     => Promise!PNext
  /\ /\ Phase = "judging" /\ Phase' = "driving" /\ execution' = execution /\ outcome' = outcome
     /\ Licences' = Licences /\ Clicked' = Clicked
     => Promise!PNext
  /\ /\ Phase = "driving" /\ Phase' = "driving" /\ execution' = execution /\ outcome' = outcome
     /\ Licences' = Licences
     /\ \E i \in Licences : Clicked' = Clicked \cup {i} /\ \A k \in Clicked : k < i
     => Promise!PNext
  /\ /\ Phase = "driving" /\ Phase' = "judged" /\ outcome' = execution'
     /\ execution' \in {"passed", "failed", "blocked", "error"}
     /\ Licences' = Licences /\ Clicked' = Clicked
     /\ execution' = "passed" => Clicked = Licences
     => Promise!PNext
  /\ /\ Phase = "driving" /\ Phase' = "judged" /\ execution' = "error" /\ outcome' = "error"
     /\ Licences' = Licences
     /\ \E i \in Licences : Clicked' = Clicked \cup {i} /\ \A k \in Clicked : k < i
     => Promise!PNext
  /\ /\ Phase = "judged" /\ Phase' \in {"judged", "settled"} /\ outcome' = "error"
     /\ execution' = execution /\ Licences' = Licences /\ Clicked' = Clicked
     => Promise!PNext
  /\ /\ Phase = "judged" /\ Phase' = "settled" /\ outcome' = outcome
     /\ execution' = execution /\ Licences' = Licences /\ Clicked' = Clicked
     => Promise!PNext
  <1> USE DEF Promise!PNext, Licences, Clicked
  <1>1. QED
    BY DEF Promise!Decline, Promise!Begin, Promise!Click, Promise!Follow, Promise!Judge,
           Promise!Conclude, Promise!LoseTrack, Promise!Withdraw, Promise!Settle

\* A run that has not begun has promised what every run promises.
LEMMA PromiseInit == Init => Promise!PInit
  <1> SUFFICES ASSUME Init PROVE Promise!PInit
    OBVIOUS
  <1>1. journey \in Document
    BY InputsAssumption DEF Init
  <1>2. Links \subseteq Nat
    BY <1>1 DEF Links, Required, IndexesOf, Document
  <1>3. Clicked = {}
    BY DEF Init, Clicked
  <1> QED BY <1>2, <1>3, PhaseOfPoint DEF Promise!PInit, Init, Clicked

\* Each link is clicked after those before it.
LEMMA ClickFollows ==
  ASSUME Story, JourneyStep, performed' # performed
  PROVE  /\ index \in Licences /\ Clicked' = Clicked \cup {index}
         /\ \A k \in Clicked : k < index
  <1>1. /\ TypeOK /\ Admission /\ Clicking /\ pc \in StepPoints /\ pc = "click" /\ Performed
    BY StepCommand, StepTouches, StepLeaves DEF Story, Outline, Inductive, Clicking
  <1>2. /\ performed \in [1 .. MaxSteps -> Nat] /\ index \in 1 .. MaxSteps
        /\ performed[index] = 0 /\ DOMAIN steps = 1 .. index - 1
    BY <1>1, Unclicked, StepsKept DEF TypeOK, SessionOK, ControlOK, Story
  <1>3. performed' = [performed EXCEPT ![index] = 1]
    BY <1>1, <1>2 DEF Performed
  <1>4. Clicked' = Clicked \cup {index}
    BY <1>2, <1>3 DEF Clicked
  <1>5. \A k \in Clicked : k < index
    <2> TAKE k \in Clicked
    <2>1. performed[k] = 1 /\ k \in 1 .. MaxSteps
      BY <1>1, <1>2 DEF Clicked, Clicking, ClicksAccounted
    <2>2. k \in DOMAIN steps
      BY <1>1, <2>1 DEF Clicking, ClicksAccounted, ClickPending
    <2> QED BY <1>2, <2>2
  <1>6. index \in Licences
    <2>1. Current.kind = "follow_link"
      BY <1>1 DEF Story, CurrentInv, KindOfPoint, LinkOnly
    <2> QED BY <1>1, <2>1, LinkStep DEF Licences, Admission
  <1> QED BY <1>4, <1>5, <1>6

\* An execution that has just passed has clicked every link.
LEMMA AllClicked ==
  ASSUME TypeOK, Admission, Story', AllPassed', pc \in StepPoints, pc' \in Ended,
         execution' = "passed", journey' = journey, NEW i \in Links
  PROVE  i \in DOMAIN performed /\ performed'[i] = 1
  <1>1. i \in DOMAIN journey.steps /\ journey.steps[i].kind = "follow_link"
    BY DEF Links, Required, IndexesOf, Interactive
  <1>2. i \in DOMAIN steps' /\ steps'[i].status = "passed"
    BY <1>1 DEF AllPassed
  <1>3. performed'[i] = 1
    BY <1>1, <1>2 DEF Story, StoryInv, RecordsTold, RecordTold, Truthful, ActionTold
  <1>4. ValidJourney(journey) /\ journey.steps \in Seq(Step)
    BY AdmittedValid, InputsAssumption DEF Admission, TypeOK, ControlOK, Document
  <1>5. i \in 1 .. MaxSteps
    BY <1>1, <1>4, PagesAssumption DEF ValidJourney
  <1> QED BY <1>3, <1>5 DEF TypeOK, SessionOK

\* Only these two actions click.
LEMMA ClickActs ==
  ASSUME JourneyStep, performed' # performed
  PROVE  Click \/ ClickFails
  BY DEF JourneyStep, UrlOutside, StrayInspection, StepCommandFails, EntryInside, TrailingInside,
         HiddenInside, Navigate, NavigationBlocked, Arrive, CheckUrl, LookForTarget, CheckText,
         BoundingBox, CaptureEvidence, EvidenceFails, LinkPreflight, LinkVisible, LinkEnabled,
         LinkHref, LinkRefused, LinkReady, ClickNeedsConfirmation, Landed, LandingUnknown

\* A command of a step is a Click, a Conclude or a LoseTrack of the promise, or nothing.
LEMMA PromiseJourney ==
  ASSUME Story, JourneyStep, Story', AllPassed'
  PROVE  Promise!PNext \/ UNCHANGED Promise!pvars
  <1>1. /\ TypeOK /\ Admission /\ pc \in StepPoints /\ Phase = "driving"
        /\ journey' = journey /\ opts' = opts
    BY StepCommand, StepOutline, PhaseOfPoint DEF Story, Outline, Inductive
  <1>2. Licences' = Licences /\ Licences = Links
    BY <1>1 DEF Licences, Links, Admission
  <1>3. performed' = performed => Clicked' = Clicked
    BY DEF Clicked
  <1>4. CASE pc' \in StepPoints
    <2>1. execution' = execution /\ outcome' = outcome
      <3>1. ASSUME NEW obs, NEW status, NEW p, NEW c, NEW stop, EndStep(obs, status, p, c, stop)
            PROVE  execution' = execution /\ outcome' = outcome
        BY <1>4, <3>1 DEF EndStep, Conclude, StepPoints
      <3>2. CASE Going
        BY <3>2 DEF Going, verdict
      <3> QED BY <1>1, <3>1, <3>2, JourneyEnds DEF Ends
    <2>2. Phase' = "driving"
      BY <1>4, PhaseOfPoint
    <2>3. CASE performed' = performed
      BY <1>1, <1>2, <1>3, <2>1, <2>2, <2>3, PromiseStutter
    <2>4. CASE performed' # performed
      BY <1>1, <1>2, <2>1, <2>2, <2>4, ClickFollows, PromiseSteps
    <2> QED BY <2>3, <2>4
  <1>5. CASE pc' \in ClosingPoints
    <2>1. PICK status, p, c : status \in Outcomes /\ Ends(status, p, c)
      BY <1>1, <1>5, JourneyEnds DEF Going, StepPoints, ClosingPoints
    <2>2. outcome' = execution' /\ execution' = p
      BY <1>5, <2>1 DEF Ends, EndStep, Conclude, StartStep, ClosingPoints
    <2>3. execution' \in Outcomes /\ pc' \in Ended /\ Phase' = "judged"
      BY <1>5, PhaseOfPoint DEF Story, Outline, Inductive, TypeOK, VerdictOK, Ended
    <2>4. CASE performed' = performed
      <3>1. ASSUME execution' = "passed" PROVE Clicked = Licences
        <4>1. \A i \in Licences : i \in Clicked
          BY <1>1, <1>2, <2>3, <2>4, <3>1, AllClicked DEF Clicked
        <4>2. \A i \in Clicked : i \in Licences
          BY <1>1, <1>2 DEF Clicked, Story, StoryInv, ClicksLicensed, Licensed, TypeOK, SessionOK
        <4> QED BY <4>1, <4>2
      <3> QED BY <1>1, <1>2, <1>3, <2>2, <2>3, <2>4, <3>1, PromiseSteps DEF Outcomes
    <2>5. CASE performed' # performed
      <3>1. Click \/ ClickFails
        BY <1>1, <2>5, ClickActs
      <3>2. execution' = "error"
        <4>1. ASSUME NEW obs, NEW c2, StepError(obs, "error", c2)
              PROVE  execution' = "error"
          BY <1>5, <4>1 DEF StepError, EndStep, Conclude, StartStep
        <4> QED BY <1>5, <3>1, <4>1 DEF Click, ClickFails, Advance, ClosingPoints
      <3> QED BY <1>1, <1>2, <2>2, <2>3, <2>5, <3>2, ClickFollows, PromiseSteps
    <2> QED BY <2>4, <2>5
  <1> QED BY <1>1, <1>4, <1>5, StepOutline

\* A step of the setup is a Decline, a Begin or a verdict of the promise, or nothing.
LEMMA PromiseSetup ==
  ASSUME Story, SetupStep
  PROVE  Promise!PNext \/ UNCHANGED Promise!pvars
  <1>1. TypeOK /\ Inductive
    BY DEF Story, Outline, Inductive
  <1>2. UNCHANGED <<journey, opts, performed>>
    <2>1. UNCHANGED <<journey, opts>>
      BY DEF SetupStep, RunDirectoryUnavailable, Refuse, DriverUnavailable, Launch, Prepare,
             SetupCommandFails, StageState, StageFails, LoadState, LoadOrRemovalFails, StartTrace,
             EndEarly, AbandonSetup, ContinueSetup, inputs
    <2> QED BY <1>1, <2>1, OtherStepClicks DEF Inductive, Clicking
  <1>3. Licences' = Licences /\ Clicked' = Clicked
    BY <1>2 DEF Licences, Links, Clicked
  <1>4. CASE RunDirectoryUnavailable \/ Refuse \/ DriverUnavailable
    <2>1. PICK p \in {"blocked", "error"}, next \in {"write", "done"} :
            \E c : EndEarly(p, c, next)
      BY <1>4 DEF RunDirectoryUnavailable, Refuse, DriverUnavailable, RefusalOutcome
    <2>2. /\ Phase = "judging" /\ Phase' \in {"judged", "settled"}
          /\ execution' = p /\ outcome' = p
      BY <2>1, PhaseOfPoint DEF EndEarly
    <2> QED BY <1>3, <2>2, PromiseSteps
  <1>5. CASE Launch
    <2>1. /\ Phase = "judging" /\ Phase' = "driving"
          /\ execution' = execution /\ outcome' = outcome
      BY <1>5, PhaseOfPoint DEF Launch, SetupPoints, verdict
    <2> QED BY <1>3, <2>1, PromiseSteps
  <1>6. CASE Prepare \/ StageState \/ LoadState \/ StartTrace
    <2>1. /\ pc \in SetupPoints /\ pc' \in SetupPoints \cup StepPoints
          /\ execution' = execution /\ outcome' = outcome
      BY <1>6 DEF Prepare, StageState, LoadState, StartTrace, ContinueSetup, StartStep, SetupPoints,
                  StepPoints, verdict
    <2>2. Phase' = Phase
      BY <2>1, PhaseOfPoint
    <2> QED BY <1>3, <2>1, <2>2, PromiseStutter
  <1>7. CASE SetupCommandFails \/ StageFails \/ LoadOrRemovalFails
    <2>1. /\ pc \in SetupPoints /\ pc' = "close" /\ execution' = "error" /\ outcome' = "error"
      BY <1>7 DEF SetupCommandFails, StageFails, LoadOrRemovalFails, AbandonSetup, Conclude,
                  SetupPoints
    <2>2. Phase = "driving" /\ Phase' = "judged"
      BY <2>1, PhaseOfPoint DEF ClosingPoints
    <2> QED BY <1>3, <2>1, <2>2, PromiseSteps
  <1> QED BY <1>4, <1>5, <1>6, <1>7 DEF SetupStep

\* A step of the closing is a Withdraw or the Settle of the promise, or nothing.
LEMMA PromiseClosing ==
  ASSUME Story, ClosingStep
  PROVE  Promise!PNext \/ UNCHANGED Promise!pvars
  <1>1. UNCHANGED <<journey, opts, performed, execution>>
    BY ClosingOutline
  <1>2. Licences' = Licences /\ Clicked' = Clicked
    BY <1>1 DEF Licences, Links, Clicked
  <1>3. /\ Phase = "judged"
        /\ Phase' = (IF pc = "write" THEN "settled" ELSE "judged")
    BY ClosingOutline, PhaseOfPoint DEF ClosingPoints
  <1>4. outcome' = outcome \/ outcome' = "error"
    BY ClosingOutline
  <1>5. CASE outcome' = "error"
    BY <1>1, <1>2, <1>3, <1>5, PromiseSteps
  <1>6. CASE outcome' = outcome
    BY <1>1, <1>2, <1>3, <1>6, PromiseSteps, PromiseStutter
  <1> QED BY <1>4, <1>5, <1>6

\* Every run keeps its promise, but for the fairness that ends it: it starts in a state of
\* RunPromise, and each of its steps is a step of RunPromise or none at all.
THEOREM RunsKeepTheirPromise == Spec => Promise!PInit /\ [][Promise!PNext]_(Promise!pvars)
  <1>1. Story /\ EarnedInv /\ (Story /\ EarnedInv)' /\ [Next]_vars =>
          [Promise!PNext]_(Promise!pvars)
    <2> SUFFICES ASSUME Story, Story', EarnedInv', [Next]_vars
                 PROVE  Promise!PNext \/ UNCHANGED Promise!pvars
      OBVIOUS
    <2>1. CASE JourneyStep
      BY <2>1, PromiseJourney DEF EarnedInv
    <2>2. CASE SetupStep \/ ClosingStep
      BY <2>2, PromiseSetup, PromiseClosing
    <2>3. CASE DeadlinePasses \/ UNCHANGED vars
      <3>1. UNCHANGED <<journey, opts, pc, performed, execution, outcome>>
        BY <2>3 DEF DeadlinePasses, vars, inputs, verdict
      <3>2. Phase' = Phase /\ Licences' = Licences /\ Clicked' = Clicked
        BY <3>1 DEF Phase, Licences, Links, Clicked
      <3> QED BY <3>1, <3>2, PromiseStutter
    <2> QED BY <2>1, <2>2, <2>3 DEF Next, RunStep
  <1> QED BY <1>1, PromiseInit, EarnedInvariant, PTL DEF Spec
=============================================================================
