--------------------------- MODULE RunRender_proofs ---------------------------
(***************************************************************************)
(* Proofs that what a renderer tells of a run is true, for every site,     *)
(* journey, option and failure, any number of renderers, any edit of the   *)
(* journey file and any change of the artifacts.                           *)
(***************************************************************************)
EXTENDS RunRender, RunPromise_proofs

DecisionCodes == {"guide_steps_missing", "guide_step_unverified", "guide_rendered",
                  "run_incomplete", "findings_rendered", "cleanup_failed", "run_blocked",
                  "run_error"}

\* What can be in render/, or in a renderer's hands.
Result == [status  : DecisionStatuses \cup {"none", "empty", "foreign"},
           code    : DecisionCodes \cup {"none"},
           journey : Journeys \cup {NoJourney},
           genuine : BOOLEAN]

Job == [pc     : {"idle", "images", "look", "stage", "done"},
        result : Result,
        answer : DecisionStatuses \cup {"none"}]

RenderTyped ==
  /\ source \in Journeys /\ changed \subseteq artifacts
  /\ rendered \in Result
  /\ job \in [Renderers -> Job]

\* Nothing is rendered, and nothing is touched, before the run is over.
Unrendered ==
  pc # "done" => /\ source = journey /\ changed = {} /\ rendered = NoRender
                 /\ \A q \in Renderers : job[q] = Waiting

\* The report of the run is on disk and passes every check, and the result it then calls for.
Verified == written /\ Accepted(OnDisk, journey, TRUE)

Decided == [status |-> Decision(OnDisk, journey).status, code |-> Decision(OnDisk, journey).code,
            journey |-> journey, genuine |-> TRUE]

\* A renderer that has verified the report holds the decision about the document that the
\* run has executed; it has not answered yet.
Holds(q) ==
  job[q].pc \in {"images", "look", "stage"} => Verified /\ job[q].result = Decided

Unanswered(q) == job[q].pc # "done" => job[q].answer = "none"

RenderInv ==
  /\ RenderTyped /\ Unrendered
  /\ \A q \in Renderers : Holds(q) /\ Unanswered(q)

-----------------------------------------------------------------------------
(* A run that is over *)

\* A run that is over stays as it is.
LEMMA RunIsOver ==
  ASSUME Outline, pc = "done", [Next]_vars
  PROVE  UNCHANGED vars
  <1>1. TypeOK
    BY DEF Outline, Inductive
  <1>2. ~JourneyStep
    BY <1>1, StepCommand DEF StepPoints
  <1>3. ~SetupStep
    BY SetupLeaves DEF SetupPoints
  <1>4. ~ClosingStep
    BY ClosingOutline
  <1>5. ~DeadlinePasses
    BY DEF DeadlinePasses, SetupPoints, StepPoints
  <1> QED BY <1>2, <1>3, <1>4, <1>5 DEF Next, RunStep

\* A run never changes the journey it executes.
LEMMA RunKeepsJourney ==
  ASSUME TypeOK, [Next]_vars
  PROVE  journey' = journey
  <1>1. CASE JourneyStep
    BY <1>1, StepOutline
  <1>2. CASE SetupStep
    BY <1>2 DEF SetupStep, RunDirectoryUnavailable, Refuse, DriverUnavailable, Launch, Prepare,
                SetupCommandFails, StageState, StageFails, LoadState, LoadOrRemovalFails,
                StartTrace, EndEarly, AbandonSetup, ContinueSetup, inputs
  <1>3. CASE ClosingStep
    BY <1>3, ClosingOutline
  <1>4. CASE DeadlinePasses \/ UNCHANGED vars
    BY <1>4 DEF DeadlinePasses, vars, inputs
  <1> QED BY <1>1, <1>2, <1>3, <1>4 DEF Next, RunStep

\* A renderer's step leaves the run alone.
RenderStep == EditJourney \/ OccupyRender \/ ChangeArtifact
                \/ \E q \in Renderers :
                     Verify(q) \/ ReadImages(q) \/ Look(q) \/ Install(q) \/ InstallFails(q)

\* No renderer and no edit changes the run.
LEMMA RenderLeavesRun ==
  ASSUME RenderStep
  PROVE  UNCHANGED vars
  <1>1. CASE EditJourney \/ OccupyRender \/ ChangeArtifact
    BY <1>1 DEF EditJourney, OccupyRender, ChangeArtifact
  <1>2. ASSUME NEW q, Verify(q) \/ ReadImages(q) \/ Look(q) \/ Install(q) \/ InstallFails(q)
        PROVE  UNCHANGED vars
    <2>1. \/ \E stage, found : Goes(q, stage, found)
          \/ \E answer : Answers(q, answer)
      BY <1>2 DEF Verify, ReadImages, Look, Install, InstallFails
    <2> QED BY <2>1 DEF Goes, Answers
  <1> QED BY <1>1, <1>2 DEF RenderStep

\* A step is one of the run or one of the rendering.
LEMMA RenderNextSteps ==
  ASSUME [RenderNext]_allVars
  PROVE  \/ Run
         \/ RenderStep
         \/ UNCHANGED allVars
  BY DEF RenderNext, RenderStep

\* To the run a step of the rendering is none.
LEMMA RunUnderRender ==
  ASSUME [RenderNext]_allVars
  PROVE  [Next]_vars
  <1>1. CASE Run
    BY <1>1 DEF Run
  <1>2. CASE RenderStep
    BY <1>2, RenderLeavesRun
  <1>3. CASE UNCHANGED allVars
    BY <1>3 DEF allVars
  <1> QED BY <1>1, <1>2, <1>3, RenderNextSteps

\* The run that is rendered is a run: what is known of runs is known of it.
LEMMA RunIsRendered == RenderSpec => [](Story /\ EarnedInv)
  <1>1. RenderInit => Story /\ EarnedInv
    BY StoryInit, InitEarned DEF RenderInit
  <1>2. Story /\ EarnedInv /\ [RenderNext]_allVars => (Story /\ EarnedInv)'
    BY RunUnderRender, StoryStep, EarnedStep
  <1> QED BY <1>1, <1>2, PTL DEF RenderSpec
-----------------------------------------------------------------------------
(* The decision *)

\* Every decision has a status and a code.
LEMMA DecisionType ==
  ASSUME TypeOK, NEW j
  PROVE  /\ Decision(OnDisk, j).status \in DecisionStatuses
         /\ Decision(OnDisk, j).code \in DecisionCodes
  <1> USE DEF DecisionStatuses, DecisionCodes
  <1>1. /\ GuideDecision(OnDisk, j).status \in DecisionStatuses
        /\ GuideDecision(OnDisk, j).code \in DecisionCodes
    BY DEF GuideDecision
  <1>2. /\ FindingsDecision(OnDisk, j).status \in DecisionStatuses
        /\ FindingsDecision(OnDisk, j).code \in DecisionCodes
    BY DEF FindingsDecision
  <1>3. OnDisk.outcome \in Outcomes
    BY DEF OnDisk, TypeOK, VerdictOK
  <1> QED BY <1>1, <1>2, <1>3 DEF Decision, Outcomes

\* An accepted document is the one the run has executed.
LEMMA AcceptedSource ==
  ASSUME NEW j, NEW kept, Accepted(OnDisk, j, kept)
  PROVE  j = journey /\ Accepted(OnDisk, journey, TRUE)
  <1>1. OnDisk.journey = journey
    BY DEF OnDisk
  <1>2. j = journey
    BY <1>1 DEF Accepted, SameSource
  <1> QED BY <1>2 DEF Accepted

-----------------------------------------------------------------------------
(* The steps of the renderers *)

\* Nothing is rendered at the start.
LEMMA RenderInvInit == RenderInit => RenderInv
  <1> SUFFICES ASSUME RenderInit PROVE RenderInv
    OBVIOUS
  <1>1. journey \in Journeys /\ pc = "preflight"
    BY DEF RenderInit, Init
  <1>2. NoRender \in Result /\ Waiting \in Job
    BY DEF NoRender, Blanket, Waiting, Result, Job
  <1> QED BY <1>1, <1>2 DEF RenderInit, RenderInv, RenderTyped, Unrendered, Holds, Unanswered, Waiting

\* The report of a run that has not moved says what it said.
LEMMA ReportStays ==
  ASSUME UNCHANGED vars
  PROVE  /\ Verified' = Verified /\ Decided' = Decided
         /\ UNCHANGED <<pc, journey, written, artifacts>>
  BY DEF vars, OnDisk, Verified, Decided

\* Until the run is over a step of it leaves the renderers waiting; after that there is none.
LEMMA RunKeepsRenders ==
  ASSUME Outline, RenderInv, Run \/ UNCHANGED allVars
  PROVE  RenderInv'
  <1>1. UNCHANGED renderVars /\ [Next]_vars
    BY DEF Run, allVars
  <1>2. CASE pc = "done"
    <2>1. UNCHANGED vars
      BY <1>1, <1>2, RunIsOver
    <2>2. pc' = "done" /\ artifacts' = artifacts /\ UNCHANGED <<source, changed, rendered, job>>
      BY <1>1, <1>2, <2>1, ReportStays DEF renderVars
    <2>3. RenderTyped' /\ Unrendered'
      BY <2>2 DEF RenderInv, RenderTyped, Unrendered
    <2>4. \A q \in Renderers : Holds(q)' /\ Unanswered(q)'
      <3> TAKE q \in Renderers
      <3>1. Holds(q) /\ Unanswered(q) /\ job'[q] = job[q]
        BY <2>2 DEF RenderInv
      <3>2. Unanswered(q)'
        BY <3>1 DEF Unanswered
      <3>3. Holds(q)'
        BY <2>1, <3>1, ReportStays DEF Holds
      <3> QED BY <3>2, <3>3
    <2> QED BY <2>3, <2>4 DEF RenderInv
  <1>3. CASE pc # "done"
    <2>1. /\ source = journey /\ changed = {} /\ rendered = NoRender
          /\ \A q \in Renderers : job[q] = Waiting
      BY <1>3 DEF RenderInv, Unrendered
    <2>2. journey' = journey
      BY <1>1, RunKeepsJourney DEF Outline, Inductive
    <2>3. /\ source' = journey' /\ changed' = {} /\ rendered' = NoRender
          /\ \A q \in Renderers : job'[q] = Waiting
      BY <1>1, <2>1, <2>2 DEF renderVars
    <2>4. RenderTyped'
      BY <1>1, <2>3 DEF renderVars, RenderInv, RenderTyped
    <2>5. Unrendered'
      BY <2>3 DEF Unrendered
    <2>6. \A q \in Renderers : Holds(q)' /\ Unanswered(q)'
      <3> TAKE q \in Renderers
      <3>1. job'[q].pc = "idle" /\ job'[q].answer = "none"
        BY <2>3 DEF Waiting
      <3> QED BY <3>1 DEF Holds, Unanswered
    <2> QED BY <2>4, <2>5, <2>6 DEF RenderInv
  <1> QED BY <1>2, <1>3

\* The environment touches no renderer.
LEMMA OthersKeepRenders ==
  ASSUME Outline, RenderInv, EditJourney \/ OccupyRender \/ ChangeArtifact
  PROVE  RenderInv'
  <1>1. UNCHANGED vars /\ pc = "done" /\ job' = job
    BY DEF EditJourney, OccupyRender, ChangeArtifact
  <1>2. pc' = "done" /\ artifacts' = artifacts
    BY <1>1, ReportStays
  <1>3. RenderTyped'
    <2>1. Foreign \in Result /\ EmptyRender \in Result
      BY DEF Foreign, EmptyRender, Blanket, Result
    <2> QED BY <1>1, <1>2, <2>1
            DEF EditJourney, OccupyRender, ChangeArtifact, RenderInv, RenderTyped
  <1>4. \A q \in Renderers : Holds(q)' /\ Unanswered(q)'
    <2> TAKE q \in Renderers
    <2>1. Holds(q) /\ Unanswered(q) /\ job'[q] = job[q]
      BY <1>1 DEF RenderInv
    <2>2. Unanswered(q)'
      BY <2>1 DEF Unanswered
    <2>3. Holds(q)'
      BY <1>1, <2>1, ReportStays DEF Holds
    <2> QED BY <2>2, <2>3
  <1> QED BY <1>2, <1>3, <1>4 DEF RenderInv, Unrendered

\* A renderer at work works on a run that is over.
LEMMA AtWork ==
  ASSUME RenderInv, NEW q \in Renderers, job[q].pc # "idle"
  PROVE  pc = "done"
  BY DEF RenderInv, Unrendered, Waiting

\* A result whose images were read again unchanged is the same result.
LEMMA StillGenuine ==
  ASSUME NEW r \in Result, r.genuine = TRUE
  PROVE  [r EXCEPT !.genuine = TRUE] = r
  BY DEF Result

\* What a step of one renderer may do to it: it answers, or goes on with what it holds.
LEMMA RendererSteps ==
  ASSUME Outline, RenderInv, NEW q \in Renderers,
         Verify(q) \/ ReadImages(q) \/ Look(q) \/ Install(q) \/ InstallFails(q)
  PROVE  /\ pc = "done" /\ job[q].pc # "done" /\ UNCHANGED <<source, changed>>
         /\ \/ \E answer \in DecisionStatuses : Answers(q, answer)
            \/ \E stage \in {"images", "look", "stage"} : Goes(q, stage, Decided) /\ Verified
         /\ rendered' = rendered \/ (Holds(q) /\ job[q].pc = "stage" /\ rendered' = job[q].result)
  <1>1. Holds(q) /\ job \in [Renderers -> Job]
    BY DEF RenderInv, RenderTyped
  <1>2. CASE Verify(q)
    <2>1. CASE written /\ Accepted(OnDisk, source, changed = {})
      <3>1. source = journey /\ Verified
        BY <2>1, AcceptedSource DEF Verified
      <3> QED BY <1>2, <2>1, <3>1 DEF Verify, Goes, Decided
    <2>2. CASE ~(written /\ Accepted(OnDisk, source, changed = {}))
      BY <1>2, <2>2 DEF Verify, Answers, DecisionStatuses
    <2> QED BY <2>1, <2>2
  <1>3. CASE ReadImages(q)
    <2>1. pc = "done" /\ job[q].pc = "images"
      BY <1>3, AtWork DEF ReadImages
    <2>2. CASE GenuineImages(job[q].result.journey)
      <3>1. Goes(q, "look", [job[q].result EXCEPT !.genuine = TRUE])
        BY <1>3, <2>2 DEF ReadImages
      <3>2. Verified /\ job[q].result = Decided
        BY <1>1, <2>1 DEF Holds
      <3>3. [job[q].result EXCEPT !.genuine = TRUE] = Decided
        <4>1. job[q] \in Job /\ Decided.genuine = TRUE
          BY <1>1 DEF Decided
        <4>2. Decided \in Result
          BY <3>2, <4>1 DEF Job
        <4> QED BY <3>2, <4>1, <4>2, StillGenuine
      <3> QED BY <2>1, <3>1, <3>2, <3>3 DEF Goes
    <2>3. CASE ~GenuineImages(job[q].result.journey)
      BY <1>3, <2>1, <2>3 DEF ReadImages, Answers, DecisionStatuses
    <2> QED BY <2>2, <2>3
  <1>4. CASE Look(q)
    <2>1. pc = "done" /\ job[q].pc = "look" /\ Verified /\ job[q].result = Decided
      BY <1>1, <1>4, AtWork DEF Look, Holds
    <2>2. CASE rendered = NoRender
      BY <1>4, <2>1, <2>2 DEF Look, Goes
    <2>3. CASE rendered # NoRender
      <3>1. job[q].result.status \in DecisionStatuses
        BY <2>1, DecisionType DEF Decided, Outline, Inductive
      <3> QED BY <1>4, <2>1, <2>3, <3>1 DEF Look, Answers, DecisionStatuses
    <2> QED BY <2>2, <2>3
  <1>5. CASE Install(q) \/ InstallFails(q)
    <2>1. pc = "done" /\ job[q].pc = "stage" /\ job[q].result = Decided
      BY <1>1, <1>5, AtWork DEF Install, InstallFails, Holds
    <2>2. job[q].result.status \in DecisionStatuses
      BY <2>1, DecisionType DEF Decided, Outline, Inductive
    <2> QED BY <1>1, <1>5, <2>1, <2>2 DEF Install, InstallFails, Answers, DecisionStatuses
  <1> QED BY <1>2, <1>3, <1>4, <1>5

\* Every step of a renderer keeps what it holds true.
LEMMA RendererKeeps ==
  ASSUME Outline, RenderInv, NEW q \in Renderers,
         Verify(q) \/ ReadImages(q) \/ Look(q) \/ Install(q) \/ InstallFails(q)
  PROVE  RenderInv'
  <1>1. /\ pc = "done" /\ UNCHANGED vars /\ job \in [Renderers -> Job] /\ Holds(q)
        /\ Unanswered(q) /\ job[q].pc # "done"
    BY RendererSteps, RenderLeavesRun DEF RenderStep, RenderInv, RenderTyped
  <1>2. pc' = "done" /\ UNCHANGED <<artifacts, source, changed, journey, written>>
    BY <1>1, RendererSteps, ReportStays
  <1>3. /\ Decision(OnDisk, journey).status \in DecisionStatuses
        /\ Decision(OnDisk, journey).code \in DecisionCodes
        /\ journey \in Journeys
    BY DecisionType DEF Outline, Inductive, TypeOK, ControlOK
  <1>4. rendered' \in Result
    BY <1>1, RendererSteps DEF RenderInv, RenderTyped, Job
  <1>5. PICK next : /\ job' = [job EXCEPT ![q] = next] /\ next \in Job
                    /\ next.pc # "done" => next.answer = "none"
                    /\ next.pc \in {"images", "look", "stage"} => Verified /\ next.result = Decided
    <2>1. CASE \E answer \in DecisionStatuses : Answers(q, answer)
      <3>1. PICK answer \in DecisionStatuses : Answers(q, answer)
        BY <2>1
      <3>2. PICK next : next = [Waiting EXCEPT !.pc = "done", !.answer = answer]
        OBVIOUS
      <3>3. job' = [job EXCEPT ![q] = next] /\ next \in Job /\ next.pc = "done"
        BY <3>1, <3>2 DEF Answers, Waiting, NoRender, Blanket, Job, Result
      <3> QED BY <3>3
    <2>2. CASE \E stage \in {"images", "look", "stage"} : Goes(q, stage, Decided) /\ Verified
      <3>1. PICK stage \in {"images", "look", "stage"} : Goes(q, stage, Decided) /\ Verified
        BY <2>2
      <3>2. job[q] \in Job /\ Decided \in Result
        BY <1>1, <1>3 DEF Result, Decided
      <3>3. PICK next : next = [job[q] EXCEPT !.pc = stage, !.result = Decided]
        OBVIOUS
      <3>4. next \in Job /\ next.result = Decided /\ next.answer = "none"
        <4>1. job[q].answer = "none"
          BY <1>1 DEF Unanswered
        <4>2. next \in Job /\ next.result = Decided /\ next.answer = job[q].answer
          BY <3>1, <3>2, <3>3 DEF Job
        <4> QED BY <4>1, <4>2
      <3>5. job' = [job EXCEPT ![q] = next]
        BY <1>1, <3>1, <3>3 DEF Goes
      <3> QED BY <3>1, <3>4, <3>5
    <2> QED BY <2>1, <2>2, RendererSteps
  <1>6. RenderTyped'
    BY <1>1, <1>2, <1>4, <1>5 DEF RenderInv, RenderTyped
  <1>7. \A p \in Renderers : Holds(p)' /\ Unanswered(p)'
    <2> TAKE p \in Renderers
    <2>1. CASE p = q
      <3>1. job'[p] = next
        BY <1>1, <1>5, <2>1
      <3>2. Unanswered(p)'
        BY <1>5, <3>1 DEF Unanswered
      <3>3. Holds(p)'
        BY <1>1, <1>2, <1>5, <3>1, ReportStays DEF Holds
      <3> QED BY <3>2, <3>3
    <2>2. CASE p # q
      <3>1. job'[p] = job[p] /\ Holds(p) /\ Unanswered(p)
        BY <1>1, <1>5, <2>2 DEF RenderInv
      <3>2. Unanswered(p)'
        BY <3>1 DEF Unanswered
      <3>3. Holds(p)'
        BY <1>1, <1>2, <3>1, ReportStays DEF Holds
      <3> QED BY <3>2, <3>3
    <2> QED BY <2>1, <2>2
  <1> QED BY <1>2, <1>6, <1>7 DEF RenderInv, Unrendered
-----------------------------------------------------------------------------
(* Theorems *)

\* The invariant of the rendering holds after every step.
LEMMA RenderInvStep ==
  ASSUME Outline, RenderInv, [RenderNext]_allVars
  PROVE  RenderInv'
  <1>1. CASE Run \/ UNCHANGED allVars
    BY <1>1, RunKeepsRenders
  <1>2. CASE RenderStep
    BY <1>2, OthersKeepRenders, RendererKeeps DEF RenderStep
  <1> QED BY <1>1, <1>2, RenderNextSteps

\* In every rendering of every run, a renderer past its verification holds the decision about the
\* document which that run executed, and the run has not moved since.
THEOREM RenderInvariant == RenderSpec => [](Story /\ EarnedInv /\ RenderInv)
  <1>1. Story => Outline
    BY DEF Story
  <1> QED BY <1>1, RenderInvInit, RenderInvStep, RunIsRendered, PTL DEF RenderSpec

\* However many renderers run, at whatever moment the journey or an artifact changes, each
\* variable keeps to its type, and what a renderer holds is about the document of the run.
THEOREM RenderTypeCorrect == RenderSpec => []RenderTypeOK
  <1>1. Story /\ RenderInv => RenderTypeOK
    <2> SUFFICES ASSUME Story, RenderInv PROVE RenderTypeOK
      OBVIOUS
    <2>1. TypeOK
      BY DEF Story, Outline, Inductive
    <2>2. /\ source \in Journeys /\ changed \subseteq artifacts
          /\ rendered.status \in DecisionStatuses \cup {"none", "empty", "foreign"}
      BY DEF RenderInv, RenderTyped, Result
    <2>3. ASSUME NEW q \in Renderers
          PROVE  /\ job[q].pc \in {"idle", "images", "look", "stage", "done"}
                 /\ job[q].answer \in DecisionStatuses \cup {"none"}
                 /\ job[q].pc \in {"images", "look", "stage"} =>
                      job[q].result.status \in DecisionStatuses /\ job[q].result.journey = journey
      <3>1. job[q] \in Job /\ Holds(q)
        BY DEF RenderInv, RenderTyped
      <3>2. Decided.status \in DecisionStatuses /\ Decided.journey = journey
        BY <2>1, DecisionType DEF Decided
      <3> QED BY <3>1, <3>2 DEF Job, Holds
    <2> QED BY <2>1, <2>2, <2>3 DEF RenderTypeOK
  <1> QED BY <1>1, RenderInvariant, PTL

\* Whatever happens, what is in render/ is never replaced but for an empty directory.
THEOREM RendersAreKept == RenderSpec => NeverOverwritten
  <1>1. [RenderNext]_allVars => [rendered \notin {NoRender, EmptyRender} => rendered' = rendered]_allVars
    <2> SUFFICES ASSUME RenderNext, rendered \notin {NoRender, EmptyRender}
                 PROVE  rendered' = rendered
      OBVIOUS
    <2>1. CASE Run
      BY <2>1 DEF Run, renderVars
    <2>2. CASE EditJourney \/ OccupyRender \/ ChangeArtifact
      BY <2>2 DEF EditJourney, OccupyRender, ChangeArtifact
    <2>3. ASSUME NEW q, Verify(q) \/ ReadImages(q) \/ Look(q) \/ Install(q) \/ InstallFails(q)
          PROVE  rendered' = rendered
      BY <2>3 DEF Verify, ReadImages, Look, Install, InstallFails, Goes, Answers, Renamable
    <2> QED BY <2>1, <2>2, <2>3 DEF RenderNext
  <1> QED BY <1>1, PTL DEF RenderSpec, NeverOverwritten

\* A renderer that has just been told a decision is told the one about this run, and that is
\* what is in render/ now.
LEMMA ToldIsDecided ==
  ASSUME Outline, RenderInv, [RenderNext]_allVars, NEW q \in Renderers,
         NEW status \in {"guide_ready", "findings_ready"}, Told(q, status)
  PROVE  Verified /\ rendered' = Decided /\ status = Decided.status
  <1>1. Holds(q) /\ Unanswered(q) /\ job \in [Renderers -> Job]
    BY DEF RenderInv, RenderTyped
  <1>2. job[q].answer = "none" /\ job'[q].answer = status /\ job'[q] # job[q]
    BY <1>1 DEF Told, Unanswered
  <1>3. job' # job
    BY <1>2
  <1>4. PICK p \in Renderers :
          Verify(p) \/ ReadImages(p) \/ Look(p) \/ Install(p) \/ InstallFails(p)
    BY <1>3 DEF RenderNext, Run, allVars, renderVars, EditJourney, OccupyRender, ChangeArtifact
  <1>5. \/ \E answer : Answers(p, answer)
        \/ \E stage, found : Goes(p, stage, found)
    BY <1>4 DEF Verify, ReadImages, Look, Install, InstallFails
  <1>6. p = q
    BY <1>1, <1>2, <1>5 DEF Answers, Goes
  <1>7. ~\E stage, found : Goes(p, stage, found)
    <2>1. ASSUME NEW stage, NEW found, Goes(q, stage, found)
          PROVE  job'[q].answer = job[q].answer
      <3>1. PICK was \in Job : was = job[q]
        BY <1>1
      <3>2. job'[q] = [was EXCEPT !.pc = stage, !.result = found]
        BY <1>1, <2>1, <3>1 DEF Goes
      <3> QED BY <3>1, <3>2 DEF Job
    <2> QED BY <1>2, <1>6, <2>1
  <1>8. \A answer : Answers(q, answer) => answer = status
    BY <1>1, <1>2 DEF Answers, Waiting
  <1>9. \/ Look(q) /\ rendered = job[q].result /\ rendered.status = status
        \/ Install(q) /\ job[q].result.status = status
    BY <1>4, <1>6, <1>7, <1>8 DEF Verify, ReadImages, Look, Install, InstallFails
  <1>10. CASE Look(q) /\ rendered = job[q].result /\ rendered.status = status
    <2>1. rendered # NoRender
      BY <1>10 DEF NoRender, Blanket
    <2> QED BY <1>1, <1>10, <2>1 DEF Look, Holds
  <1>11. CASE Install(q) /\ job[q].result.status = status
    BY <1>1, <1>11 DEF Install, Holds
  <1> QED BY <1>9, <1>10, <1>11

\* What an accepted report says of a step, as far as the guide relies on it.
LEMMA AcceptedSteps ==
  ASSUME Accepted(OnDisk, journey, TRUE), NEW i \in DOMAIN steps
  PROVE  /\ ValidObservation(steps[i], journey.steps[i])
         /\ i \in Evidence(journey) /\ steps[i].obs.box # 0 => Focused(OnDisk, i)
  <1>1. OnDisk.steps = steps /\ OnDisk.artifacts = artifacts
    BY DEF OnDisk
  <1> QED BY <1>1 DEF Accepted, ValidSteps, ArtifactsPresent

\* Whoever is told that a guide is ready finds it in render/: the guide of a run that passed,
\* about the very document, with its images, of links that were each clicked once.
THEOREM GuidesTellTheTruth == RenderSpec => GuideTellsTheTruth
  <1> DEFINE Honest ==
        \A q \in Renderers : Told(q, "guide_ready") =>
          /\ rendered'.status = "guide_ready" /\ rendered'.journey = journey /\ rendered'.genuine
          /\ outcome = "passed" /\ cleanup = "passed"
          /\ \A i \in Guided(journey) :
               /\ Focused(OnDisk, i)
               /\ journey.steps[i].kind = "follow_link" => performed[i] = 1
  <1>1. Story /\ RenderInv /\ [RenderNext]_allVars => Honest
    <2> SUFFICES ASSUME Story, RenderInv, [RenderNext]_allVars,
                        NEW q \in Renderers, Told(q, "guide_ready")
                 PROVE  /\ rendered'.status = "guide_ready" /\ rendered'.journey = journey
                        /\ rendered'.genuine
                        /\ outcome = "passed" /\ cleanup = "passed"
                        /\ \A i \in Guided(journey) :
                             /\ Focused(OnDisk, i)
                             /\ journey.steps[i].kind = "follow_link" => performed[i] = 1
      OBVIOUS
    <2>1. Verified /\ rendered' = Decided /\ Decided.status = "guide_ready"
      BY ToldIsDecided DEF Story
    <2>2. /\ OnDisk.outcome = outcome /\ OnDisk.cleanup = cleanup /\ OnDisk.steps = steps
          /\ outcome \in Outcomes
      BY DEF OnDisk, Story, Outline, Inductive, TypeOK, VerdictOK
    <2>3. /\ ~Unclean(OnDisk) /\ outcome = "passed"
          /\ GuideDecision(OnDisk, journey).status = "guide_ready"
      <3>1. Decision(OnDisk, journey).status = "guide_ready"
        BY <2>1 DEF Decided
      <3> QED BY <2>2, <3>1 DEF Decision, FindingsDecision, Outcomes
    <2>4. cleanup = "passed"
      BY <2>2, <2>3 DEF Unclean
    <2>5. \A i \in Guided(journey) : Publishable(OnDisk, journey, i)
      BY <2>3 DEF GuideDecision
    <2>6. ASSUME NEW i \in Guided(journey)
          PROVE  /\ Focused(OnDisk, i)
                 /\ journey.steps[i].kind = "follow_link" => performed[i] = 1
      <3>1. /\ i \in Evidence(journey) /\ i \in DOMAIN steps /\ steps[i].status = "passed"
            /\ journey.steps[i].kind = "follow_link" => steps[i].obs.action = "effect_verified"
        BY <2>2, <2>5 DEF Publishable
      <3>2. steps[i].obs.box # 0
        <4>1. journey.steps[i].kind \in {"capture", "follow_link"}
          BY <3>1 DEF Evidence, IndexesOf, Evidential
        <4> QED BY <2>1, <3>1, <4>1, AcceptedSteps
                DEF Verified, ValidObservation, ValidFollowLink, Shots
      <3>3. Focused(OnDisk, i)
        BY <2>1, <3>1, <3>2, AcceptedSteps DEF Verified
      <3>4. journey.steps[i].kind = "follow_link" => performed[i] = 1
        BY <3>1 DEF Story, StoryInv, RecordsTold, RecordTold, Truthful, ActionTold
      <3> QED BY <3>3, <3>4
    <2> QED BY <2>1, <2>3, <2>4, <2>6 DEF Decided
  <1>2. Story /\ RenderInv /\ [RenderNext]_allVars => [Honest]_allVars
    BY <1>1
  <1> QED BY <1>2, RenderInvariant, PTL DEF RenderSpec, GuideTellsTheTruth

\* Whoever is told that findings are ready finds in render/ the findings of a run that failed at
\* checkpoints or at a link; a link they call not attempted was not clicked.
THEOREM FindingsTellNoLie == RenderSpec => FindingsTellTheTruth
  <1> DEFINE Honest ==
        \A q \in Renderers : Told(q, "findings_ready") =>
          /\ rendered'.status = "findings_ready" /\ rendered'.journey = journey
          /\ outcome = "failed" /\ cleanup = "passed"
          /\ \A i \in DOMAIN steps :
               /\ steps[i].status \in {"passed", "failed"}
               /\ DeliberateAction(i) \in {"none", "not_attempted"} => performed[i] = 0
  <1>1. Story /\ RenderInv /\ [RenderNext]_allVars => Honest
    <2> SUFFICES ASSUME Story, RenderInv, [RenderNext]_allVars,
                        NEW q \in Renderers, Told(q, "findings_ready")
                 PROVE  /\ rendered'.status = "findings_ready" /\ rendered'.journey = journey
                        /\ outcome = "failed" /\ cleanup = "passed"
                        /\ \A i \in DOMAIN steps :
                             /\ steps[i].status \in {"passed", "failed"}
                             /\ DeliberateAction(i) \in {"none", "not_attempted"} => performed[i] = 0
      OBVIOUS
    <2>1. Verified /\ rendered' = Decided /\ Decided.status = "findings_ready"
      BY ToldIsDecided DEF Story
    <2>2. /\ OnDisk.outcome = outcome /\ OnDisk.cleanup = cleanup /\ OnDisk.steps = steps
          /\ outcome \in Outcomes
      BY DEF OnDisk, Story, Outline, Inductive, TypeOK, VerdictOK
    <2>3. /\ ~Unclean(OnDisk) /\ outcome = "failed"
          /\ FindingsDecision(OnDisk, journey).status = "findings_ready"
      <3>1. Decision(OnDisk, journey).status = "findings_ready"
        BY <2>1 DEF Decided
      <3> QED BY <2>2, <3>1 DEF Decision, GuideDecision, Outcomes
    <2>4. cleanup = "passed"
      BY <2>2, <2>3 DEF Unclean
    <2>5. \A i \in DOMAIN steps : steps[i].status \in {"passed", "failed"}
      BY <2>2, <2>3 DEF FindingsDecision
    <2>6. \A i \in DOMAIN steps :
            DeliberateAction(i) \in {"none", "not_attempted"} => performed[i] = 0
      BY DEF Story, StoryInv, RecordsTold, RecordTold, Truthful, ActionTold, DeliberateAction
    <2> QED BY <2>1, <2>3, <2>4, <2>5, <2>6 DEF Decided
  <1>2. Story /\ RenderInv /\ [RenderNext]_allVars => [Honest]_allVars
    BY <1>1
  <1> QED BY <1>2, RenderInvariant, PTL DEF RenderSpec, FindingsTellTheTruth
=============================================================================
