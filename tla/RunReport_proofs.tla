-------------------------- MODULE RunReport_proofs --------------------------
(***************************************************************************)
(* Proofs that a renderer accepts the report of every run that passed or   *)
(* failed.                                                                 *)
(***************************************************************************)
EXTENDS RunPromise_proofs, FiniteSetTheorems

-----------------------------------------------------------------------------
(* Counting commands and steps *)

\* The positions of a sequence that satisfy anything are finitely many.
LEMMA PositionsFinite ==
  ASSUME NEW S, NEW s \in Seq(S), NEW T \in SUBSET (DOMAIN s)
  PROVE  IsFiniteSet(T) /\ Cardinality(T) \in Nat
  <1>1. DOMAIN s = 1 .. Len(s) /\ Len(s) \in Nat
    OBVIOUS
  <1>2. IsFiniteSet(1 .. Len(s))
    BY <1>1, FS_Interval
  <1> QED BY <1>1, <1>2, FS_Subset, FS_CardinalityType

\* The commands and the steps that are counted can be.
LEMMA CountsFinite ==
  ASSUME TypeOK, NEW c
  PROVE  /\ IsFiniteSet(Issued(c)) /\ Cardinality(Issued(c)) \in Nat
         /\ IsFiniteSet(Owing(c)) /\ Cardinality(Owing(c)) \in Nat
         /\ DOMAIN records = 1 .. Len(records) /\ Len(records) \in Nat
  <1>1. records \in Seq(CommandRecord) /\ steps \in Seq(StepRecord)
    BY DEF TypeOK, SessionOK, ReportOK
  <1>2. Issued(c) \in SUBSET DOMAIN records
    BY DEF Issued
  <1>3. Owing(c) \in SUBSET DOMAIN steps
    BY DEF Owing
  <1>4. IsFiniteSet(Issued(c)) /\ Cardinality(Issued(c)) \in Nat
    BY <1>1, <1>2, PositionsFinite
  <1>5. IsFiniteSet(Owing(c)) /\ Cardinality(Owing(c)) \in Nat
    BY <1>1, <1>3, PositionsFinite
  <1> QED BY <1>1, <1>4, <1>5

\* A command that has succeeded is one more of its kind.
LEMMA OneMore ==
  ASSUME TypeOK, NEW capability \in Capabilities, Succeeds(capability)
  PROVE  /\ Cardinality(Issued(capability)') = Cardinality(Issued(capability)) + 1
         /\ \A c : c # capability => Issued(c)' = Issued(c)
         /\ Issued(capability)' = Issued(capability) \cup {Len(records')}
         /\ Len(records') = Len(records) + 1 /\ Len(records) \in Nat
  <1>1. Recorded(capability)
    BY CommandRecorded
  <1>2. records' # records /\ Len(records') = Len(records) + 1
    BY DEF Succeeds, Record, TypeOK, SessionOK
  <1>3. /\ Issued(capability)' = Issued(capability) \cup {Len(records')}
        /\ \A c : c # capability => Issued(c)' = Issued(c)
    BY <1>1, <1>2, IssuedGrows
  <1>4. Len(records') \notin Issued(capability)
    <2>1. DOMAIN records = 1 .. Len(records) /\ Len(records) \in Nat
      BY CountsFinite
    <2> QED BY <1>2, <2>1 DEF Issued
  <1>5. Cardinality(Issued(capability) \cup {Len(records')}) = Cardinality(Issued(capability)) + 1
    BY <1>4, CountsFinite, FS_AddElement
  <1> QED BY <1>2, <1>3, <1>5, CountsFinite

\* A step that goes on owes nothing it did not owe before but for its command.
LEMMA CountsGo ==
  ASSUME TypeOK, CommandsCounted, pc \in StepPoints, pc' \in StepPoints,
         UNCHANGED <<journey, steps, index>>,
         NEW capability \in StepCapabilities, Succeeds(capability),
         \A c \in Counted : IssuedBy(pc', Current.kind, c) <=>
                              IssuedBy(pc, Current.kind, c) \/ c = capability,
         capability \in Counted => ~IssuedBy(pc, Current.kind, capability)
  PROVE  CommandsCounted'
  <1> SUFFICES ASSUME NEW c \in Counted
               PROVE  Cardinality(Issued(c)') = Cardinality(Owing(c)') + (IF IssuedNow(c)' THEN 1 ELSE 0)
    BY DEF CommandsCounted
  <1>1. Owing(c)' = Owing(c) /\ Cardinality(Owing(c)) \in Nat
    BY CountsFinite DEF Owing
  <1>2. Current' = Current
    BY DEF Current
  <1>3. /\ IssuedNow(c) <=> IssuedBy(pc, Current.kind, c)
        /\ IssuedNow(c)' <=> IssuedBy(pc', Current.kind, c)
    BY <1>2 DEF IssuedNow
  <1>4. Cardinality(Issued(c)) = Cardinality(Owing(c)) + (IF IssuedNow(c) THEN 1 ELSE 0)
    BY DEF CommandsCounted, Live
  <1>5. CASE c = capability
    <2>1. Cardinality(Issued(c)') = Cardinality(Issued(c)) + 1
      BY <1>5, OneMore DEF Capabilities
    <2>2. ~IssuedNow(c) /\ IssuedNow(c)'
      BY <1>3, <1>5
    <2> QED BY <1>1, <1>4, <2>1, <2>2
  <1>6. CASE c # capability
    <2>1. Issued(c)' = Issued(c)
      BY <1>6, OneMore DEF Capabilities
    <2>2. IssuedNow(c)' <=> IssuedNow(c)
      BY <1>3, <1>6
    <2> QED BY <1>1, <1>4, <2>1, <2>2
  <1> QED BY <1>5, <1>6

\* A step that ends owes what it has issued.
LEMMA CountsEnd ==
  ASSUME TypeOK, StepsInOrder, CommandsCounted, pc \in StepPoints, pc' \notin StepPoints \ {"entry", "act"},
         journey' = journey, NEW obs, NEW status, NEW p, NEW c1, NEW stop,
         EndStep(obs, status, p, c1, stop),
         NEW capability \in StepCapabilities, Succeeds(capability),
         \A c \in Counted : Owes(c, Current.kind, obs) <=>
                              IssuedBy(pc, Current.kind, c) \/ c = capability,
         capability \in Counted => ~IssuedBy(pc, Current.kind, capability)
  PROVE  CommandsCounted'
  <1> SUFFICES ASSUME NEW c \in Counted
               PROVE  Cardinality(Issued(c)') = Cardinality(Owing(c)') + (IF IssuedNow(c)' THEN 1 ELSE 0)
    BY DEF CommandsCounted
  <1>1. /\ DOMAIN steps = 1 .. index - 1 /\ DOMAIN steps' = 1 .. index /\ index \in Nat \ {0}
        /\ steps'[index].obs = obs
        /\ \A i \in 1 .. index - 1 : steps'[i] = steps[i]
    <2>1. index \in Nat \ {0}
      BY PagesAssumption DEF TypeOK, ControlOK
    <2>2. steps'[index] = [status |-> status, obs |-> obs]
      BY EndStepRecords
    <2> QED BY <2>1, <2>2, EndStepRecords
  <1>2. ~IssuedNow(c)'
    BY DEF IssuedNow, IssuedBy, Past, PastLink, Counted, StepCapabilities
  <1>3. IssuedNow(c) <=> IssuedBy(pc, Current.kind, c)
    BY DEF IssuedNow
  <1>4. Cardinality(Issued(c)) = Cardinality(Owing(c)) + (IF IssuedNow(c) THEN 1 ELSE 0)
    BY DEF CommandsCounted, Live
  <1>5. Owing(c)' = IF Owes(c, Current.kind, obs) THEN Owing(c) \cup {index} ELSE Owing(c)
    <2>1. Owing(c)' = {i \in 1 .. index : Owes(c, journey.steps[i].kind, steps'[i].obs)}
      BY <1>1 DEF Owing
    <2>2. Owing(c) = {i \in 1 .. index - 1 : Owes(c, journey.steps[i].kind, steps'[i].obs)}
      BY <1>1 DEF Owing
    <2>3. 1 .. index = (1 .. index - 1) \cup {index}
      BY <1>1
    <2> QED BY <1>1, <2>1, <2>2, <2>3 DEF Current
  <1>6. /\ Cardinality(Owing(c)) \in Nat
        /\ Cardinality(Owing(c) \cup {index}) = Cardinality(Owing(c)) + 1
    <2>1. index \notin Owing(c)
      BY <1>1 DEF Owing
    <2> QED BY <2>1, CountsFinite, FS_AddElement
  <1>7. CASE c = capability
    <2>1. Cardinality(Issued(c)') = Cardinality(Issued(c)) + 1
      BY <1>7, OneMore DEF Capabilities
    <2> QED BY <1>2, <1>3, <1>4, <1>5, <1>6, <1>7, <2>1
  <1>8. CASE c # capability
    <2>1. Issued(c)' = Issued(c)
      BY <1>8, OneMore DEF Capabilities
    <2> QED BY <1>2, <1>3, <1>4, <1>5, <1>6, <1>8, <2>1
  <1> QED BY <1>7, <1>8
-----------------------------------------------------------------------------
(* A step that goes on, and one that ends *)

\* The next step has observed nothing but what it expects.
LEMMA FreshObserved ==
  ASSUME ValidJourney(journey), journey' = journey,
         NEW k \in DOMAIN journey.steps, NEW navigated, StartStep(k, navigated)
  PROVE  ObservedSoFar' /\ RecordReady'
  <1>1. Current' = journey.steps[k]
    BY DEF StartStep, Current
  <1>2. pc' \in {"entry", "act"}
    BY DEF StartStep
  <1>3. journey.steps[k].kind \in {"navigate", "check_url", "follow_link"} =>
          safe_url(journey.steps[k].url) = Bare[journey.steps[k].url]
    BY PagesAssumption DEF ValidJourney, ValidStep, ValidPath, safe_url
  <1>4. CASE navigated
    <2>1. pc' = "entry" /\ observation' = NoObservation
      BY <1>4 DEF StartStep
    <2> QED BY <2>1 DEF ObservedSoFar, ObservedAt, RecordReady, NoObservation
  <1>5. CASE ~navigated
    <2>1. pc' = "act" /\ observation' = Declare(NoObservation, k)
      BY <1>5 DEF StartStep
    <2>2. ObservedAt("act", journey.steps[k], Declare(NoObservation, k))
      BY <1>3 DEF ObservedAt, Declare, NoObservation
    <2> QED BY <1>1, <2>1, <2>2 DEF ObservedSoFar, RecordReady
  <1> QED BY <1>4, <1>5

\* A step that goes on has observed what it should at its next point.
LEMMA ObservedGo ==
  ASSUME NEW next \in StepPoints \ {"trailing"}, NEW obs, Advance(next, obs),
         ObservedAt(next, Current, obs), next \in {"box", "shot"} => hasNavigated
  PROVE  ObservedSoFar' /\ RecordReady'
  <1>1. pc' = next /\ observation' = obs /\ Current' = Current /\ hasNavigated' = hasNavigated
    BY AdvanceKeeps
  <1> QED BY <1>1 DEF ObservedSoFar, RecordReady

\* A step that is settled has the record it will leave.
LEMMA ObservedSettle ==
  ASSUME NEW res, NEW obs, Settle(obs, res), ObservedAt("trailing", Current, obs),
         Acceptable(res, obs, Current),
         \A c \in Counted : Owes(c, Current.kind, obs) <=> IssuedBy("trailing", Current.kind, c)
  PROVE  ObservedSoFar' /\ RecordReady'
  <1>1. Advance("trailing", obs) /\ result' = res
    BY DEF Settle
  <1>2. pc' = "trailing" /\ observation' = obs /\ Current' = Current
    BY <1>1, AdvanceKeeps
  <1>3. ObservedSoFar'
    BY <1>2 DEF ObservedSoFar
  <1>4. \A c \in Counted : IssuedNow(c)' <=> IssuedBy("trailing", Current.kind, c)
    BY <1>2 DEF IssuedNow, StepPoints
  <1> QED BY <1>1, <1>2, <1>3, <1>4 DEF RecordReady

\* A command of a step is none of the setup, nor of the closing.
LEMMA StepKeepsEnds ==
  ASSUME TypeOK, SetupIssued, ClosingIssued, pc \in StepPoints, journey' = journey,
         pc' \in StepPoints \cup {"console"},
         NEW capability \in StepCapabilities, Recorded(capability)
  PROVE  SetupIssued' /\ ClosingIssued'
  <1>1. \A c : c # capability => Issued(c)' = Issued(c)
    BY IssuedGrows DEF Capabilities
  <1>2. Len(records') >= Len(records) /\ Len(records) \in Nat /\ Len(records') \in Nat
    <2>1. Len(records) \in Nat
      BY CountsFinite
    <2>2. records' = records \/ Len(records') = Len(records) + 1
      BY IssuedGrows DEF Capabilities
    <2> QED BY <2>1, <2>2
  <1>3. capability \notin {"set_viewport", "authentication_load", "trace_start"} \cup ClosingPoints
    BY DEF StepCapabilities, ClosingPoints
  <1>4. pc' \notin SetupPoints
    BY DEF StepPoints, SetupPoints
  <1>5. Live
    BY DEF Live
  <1>6. Offset' = Offset /\ Offset \in Nat
    BY DEF Offset
  <1>7. SetupIssued'
    BY <1>1, <1>2, <1>3, <1>4, <1>5, <1>6 DEF SetupIssued
  <1>8. ClosingDone = 0 /\ ClosingDone' = 0
    BY DEF ClosingDone, StepPoints
  <1>9. \A k \in 1 .. 4 : Issued(ClosingOrder[k])' = {}
    <2> TAKE k \in 1 .. 4
    <2>1. ClosingOrder[k] \in ClosingPoints
      BY DEF ClosingOrder, ClosingPoints
    <2>2. Issued(ClosingOrder[k]) = {}
      BY <1>5, <1>8 DEF ClosingIssued
    <2> QED BY <1>1, <1>3, <2>1, <2>2
  <1>10. ClosingIssued'
    <2>1. \A k \in 1 .. 4 : ~(k <= 0)
      OBVIOUS
    <2> QED BY <1>8, <1>9, <2>1 DEF ClosingIssued
  <1> QED BY <1>7, <1>10

\* Without a sign-in no step changes its status.
LEMMA NoSignIn ==
  ASSUME TypeOK, JourneyStep, journey.schema # 4
  PROVE  authentication' = authentication
  <1>1. CASE Going
    BY <1>1 DEF Going
  <1>2. ASSUME NEW obs, NEW res, StepResult(obs, res)
        PROVE  authentication' = authentication
    BY <1>2 DEF StepResult, Verifying
  <1>3. ASSUME NEW obs, NEW p, NEW c, StepError(obs, p, c)
        PROVE  authentication' = authentication
    BY <1>3 DEF StepError
  <1> QED BY <1>1, <1>2, <1>3, JourneyShape

\* Of the report of a run that is blocked or broken at a step nothing is asked.
LEMMA BadlyAccepted ==
  ASSUME TypeOK, SignInTold, JourneyStep, EndsBadly
  PROVE  AcceptedInv'
  <1>1. pc' \in Ended /\ ~Clean' /\ ~Live'
    BY DEF EndsBadly, Clean, Live, Ended, StepPoints, ClosingPoints
  <1>2. pc' \notin StepPoints \cup SetupPoints
    BY <1>1 DEF Ended, StepPoints, SetupPoints, ClosingPoints
  <1>3. journey' = journey
    BY StepOutline
  <1>4. SignInTold'
    BY <1>1, <1>3, NoSignIn DEF SignInTold
  <1>5. ObservedSoFar' /\ RecordReady'
    BY <1>2 DEF ObservedSoFar, RecordReady, StepPoints
  <1>6. SetupIssued' /\ ClosingIssued' /\ CommandsCounted' /\ UrlsRead' /\ RecordsAcceptable'
    BY <1>1, <1>2 DEF SetupIssued, ClosingIssued, CommandsCounted, UrlsRead, RecordsAcceptable,
                      SetupPoints
  <1>7. VerdictMeant'
    BY <1>1 DEF VerdictMeant
  <1> QED BY <1>4, <1>5, <1>6, <1>7 DEF AcceptedInv

\* A step that goes on keeps what its renderer will accept.
LEMMA GoesAccepted ==
  ASSUME Story, AcceptedInv, JourneyStep,
         NEW next \in StepPoints, NEW obs, Advance(next, obs),
         NEW capability \in StepCapabilities, Succeeds(capability),
         ObservedSoFar', RecordReady',
         \A c \in Counted : IssuedBy(next, Current.kind, c) <=>
                              IssuedBy(pc, Current.kind, c) \/ c = capability,
         capability \in Counted => ~IssuedBy(pc, Current.kind, capability),
         \/ capability = "current_url" \/ next = "act" \/ pc \notin {"entry", "act"}
         \/ Current.kind # "follow_link"
  PROVE  AcceptedInv'
  <1>1. TypeOK /\ pc \in StepPoints
    BY StepCommand DEF Story, Outline, Inductive
  <1>2. /\ pc' = next /\ UNCHANGED <<journey, opts, steps, index, authentication>>
        /\ Current' = Current
    BY AdvanceKeeps DEF Advance, inputs
  <1>3. SetupIssued' /\ ClosingIssued'
    BY <1>1, <1>2, CommandRecorded, StepKeepsEnds DEF AcceptedInv
  <1>4. CommandsCounted'
    BY <1>1, <1>2, CountsGo DEF AcceptedInv
  <1>5. UrlsRead'
    <2>1. /\ Cardinality(Issued("current_url")) \in Nat
          /\ Cardinality(Issued("current_url")) >=
               Len(steps) + (IF LinkUnderway THEN 1 ELSE 0)
          /\ Len(steps) \in Nat
      BY <1>1, CountsFinite DEF AcceptedInv, UrlsRead, Live, TypeOK, ReportOK
    <2>2. CASE capability = "current_url"
      <3>1. Cardinality(Issued("current_url")') = Cardinality(Issued("current_url")) + 1
        BY <1>1, <2>2, OneMore DEF Capabilities
      <3> QED BY <1>2, <2>1, <3>1 DEF UrlsRead
    <2>3. CASE capability # "current_url"
      <3>1. Issued("current_url")' = Issued("current_url")
        BY <1>1, <2>3, OneMore DEF Capabilities
      <3>2. LinkUnderway' => LinkUnderway
        BY <1>1, <1>2, <2>3 DEF LinkUnderway
      <3> QED BY <1>2, <2>1, <3>1, <3>2 DEF UrlsRead
    <2> QED BY <2>2, <2>3
  <1>6. pc' \notin Ended /\ Live
    BY <1>1, <1>2 DEF Ended, StepPoints, ClosingPoints, Live
  <1>7. RecordsAcceptable' /\ VerdictMeant' /\ SignInTold'
    BY <1>2, <1>6 DEF AcceptedInv, RecordsAcceptable, VerdictMeant, SignInTold
  <1> QED BY <1>3, <1>4, <1>5, <1>7 DEF AcceptedInv

\* A run that ends with a step that failed or passed says so, and why.
LEMMA EndsMeaning ==
  ASSUME Story, pc \in StepPoints, NEW obs, NEW res \in {"passed", "failed"},
         StepResult(obs, res), ~EndsBadly
  PROVE  /\ \E p, c, stop : EndStep(obs, res, p, c, stop)
         /\ res = "failed" => ~Verifying
         /\ authentication' = IF Verifying THEN "verified" ELSE authentication
         /\ pc' \in {"entry", "act", "console"}
         /\ VerdictMeant'
  <1>1. /\ TypeOK /\ StepsInOrder /\ Admitted(journey, opts) /\ ValidJourney(journey)
        /\ traceStarted
    BY AdmittedValid
    DEF Story, Outline, Inductive, Admission, SessionInv, Traced
  <1>2. res = "failed" => ~Verifying
    BY DEF StepResult, EndStep, Conclude, EndsBadly, Ended, ClosingPoints
  <1> DEFINE p == IF res = "passed" THEN primary ELSE "failed"
             c == IF res = "passed" THEN cause ELSE "checkpoint_failed"
             stop == res = "failed" /\ Current.kind = "follow_link"
  <1>3. EndStep(obs, res, p, c, stop)
    BY <1>2 DEF StepResult
  <1>4. authentication' = IF Verifying THEN "verified" ELSE authentication
    BY <1>2 DEF StepResult
  <1>5. /\ p \in {"passed", "failed"}
        /\ c = IF p = "passed" THEN "journey_passed" ELSE "checkpoint_failed"
    BY DEF Story, Outline, VerdictInv, VerdictSoFar, Underway
  <1>6. /\ index \in Nat /\ Len(steps') = index /\ steps' # <<>>
        /\ steps'[index] = [status |-> res, obs |-> obs]
    BY <1>1, <1>3, EndStepRecords
  <1>7. journey' = journey /\ opts' = opts
    BY <1>3 DEF EndStep, inputs
  <1>8. CASE pc' \in {"entry", "act"}
    <2>1. pc' \notin Ended
      BY <1>8 DEF Ended, ClosingPoints
    <2> QED BY <1>2, <1>3, <1>4, <1>8, <2>1 DEF VerdictMeant
  <1>9. CASE pc' \notin {"entry", "act"}
    <2>1. Conclude(p, c, traceStarted) /\ (stop \/ index = Len(journey.steps))
      BY <1>3, <1>9 DEF EndStep, StartStep
    <2>2. pc' = "console" /\ outcome' = p /\ execution' = p /\ reason' = c /\ cause' = c
      BY <1>1, <1>5, <2>1 DEF Conclude, ValidJourney
    <2>3. index \in DOMAIN journey.steps /\ Len(journey.steps) \in Nat
      BY <1>1, InputsAssumption DEF TypeOK, ControlOK, Document, ValidJourney
    <2>4. \/ index = Len(journey.steps)
          \/ /\ p = "failed" /\ index < Len(journey.steps) /\ res = "failed"
             /\ Current.kind = "follow_link"
      <3>1. index <= Len(journey.steps)
        BY <1>1, <2>3, InputsAssumption DEF TypeOK, ControlOK, Document
      <3> QED BY <1>6, <2>1, <2>3, <3>1
    <2>5. VerdictMeant'
      BY <1>1, <1>5, <1>6, <1>7, <2>2, <2>4 DEF VerdictMeant, Current
    <2> QED BY <1>2, <1>3, <1>4, <2>2, <2>5
  <1> QED BY <1>8, <1>9

\* A step that ends with an acceptable record keeps what its renderer will accept.
LEMMA EndsAccepted ==
  ASSUME Story, AcceptedInv, JourneyStep,
         NEW obs, NEW res \in {"passed", "failed"}, StepResult(obs, res),
         NEW capability \in StepCapabilities, Succeeds(capability),
         Acceptable(res, obs, Current),
         \A c \in Counted : Owes(c, Current.kind, obs) <=>
                              IssuedBy(pc, Current.kind, c) \/ c = capability,
         capability \in Counted => ~IssuedBy(pc, Current.kind, capability),
         capability = "current_url" \/ LinkUnderway
  PROVE  AcceptedInv'
  <1>1. /\ TypeOK /\ StepsInOrder /\ pc \in StepPoints /\ ValidJourney(journey)
        /\ Admission
    BY StepCommand, AdmittedValid DEF Story, Outline, Inductive, Admission
  <1>2. CASE EndsBadly
    BY <1>1, <1>2, BadlyAccepted DEF AcceptedInv
  <1>3. CASE ~EndsBadly
    <2>1. PICK p, c1, stop : EndStep(obs, res, p, c1, stop)
      BY <1>1, <1>3, EndsMeaning
    <2>2. /\ res = "failed" => ~Verifying
          /\ authentication' = IF Verifying THEN "verified" ELSE authentication
          /\ pc' \in {"entry", "act", "console"}
          /\ VerdictMeant'
      BY <1>1, <1>3, EndsMeaning
    <2>3. /\ index \in Nat /\ DOMAIN steps = 1 .. index - 1 /\ DOMAIN steps' = 1 .. index
          /\ Len(steps') = index /\ Len(steps) = index - 1
          /\ steps'[index] = [status |-> res, obs |-> obs]
          /\ \A i \in 1 .. index - 1 : steps'[i] = steps[i]
      BY <1>1, <2>1, EndStepRecords DEF StepsInOrder
    <2>4. journey' = journey
      BY <2>1 DEF EndStep, inputs
    <2>5. SetupIssued' /\ ClosingIssued'
      BY <1>1, <2>2, <2>4, CommandRecorded, StepKeepsEnds DEF AcceptedInv, StepPoints
    <2>6. CommandsCounted'
      BY <1>1, <2>1, <2>2, <2>4, CountsEnd DEF AcceptedInv, StepPoints
    <2>7. UrlsRead'
      <3>1. /\ Cardinality(Issued("current_url")) \in Nat
            /\ Cardinality(Issued("current_url")) >=
                 Len(steps) + (IF LinkUnderway THEN 1 ELSE 0)
        BY <1>1, CountsFinite DEF AcceptedInv, UrlsRead, Live
      <3>2. ~LinkUnderway'
        BY <2>2 DEF LinkUnderway, StepPoints
      <3>3. CASE capability = "current_url"
        <4>1. Cardinality(Issued("current_url")') = Cardinality(Issued("current_url")) + 1
          BY <1>1, <3>3, OneMore DEF Capabilities
        <4> QED BY <2>3, <3>1, <3>2, <4>1 DEF UrlsRead
      <3>4. CASE capability # "current_url"
        <4>1. Issued("current_url")' = Issued("current_url")
          BY <1>1, <3>4, OneMore DEF Capabilities
        <4> QED BY <2>3, <3>1, <3>2, <3>4, <4>1 DEF UrlsRead
      <3> QED BY <3>3, <3>4
    <2>8. RecordsAcceptable'
      <3>1. ASSUME NEW i \in 1 .. index
            PROVE  Acceptable(steps'[i].status, steps'[i].obs, journey.steps[i])
        <4>1. CASE i = index
          BY <2>3, <4>1 DEF Current
        <4>2. CASE i \in 1 .. index - 1
          BY <1>1, <2>3, <4>2 DEF AcceptedInv, RecordsAcceptable, Live
        <4> QED BY <2>3, <3>1, <4>1, <4>2
      <3> QED BY <2>3, <2>4, <3>1 DEF RecordsAcceptable
    <2>9. SignInTold'
      <3>1. journey.schema # 4 => authentication' = "none"
        BY <2>2 DEF AcceptedInv, SignInTold, Verifying
      <3>2. ASSUME journey.schema = 4
            PROVE  /\ authentication' = "verified" <=> journey.auth.verify \in 1 .. index
                   /\ journey.auth.verify \in 1 .. index =>
                        steps'[journey.auth.verify].status = "passed"
        <4>1. /\ authentication = "verified" <=> journey.auth.verify \in 1 .. index - 1
              /\ journey.auth.verify \in 1 .. index - 1 =>
                   steps[journey.auth.verify].status = "passed"
          BY <1>1, <2>3, <3>2 DEF AcceptedInv, SignInTold, Live
        <4>2. journey.auth.verify \in 1 .. index <=>
                journey.auth.verify \in 1 .. index - 1 \/ journey.auth.verify = index
          <5>1. index \in 1 .. MaxSteps
            BY <1>1 DEF TypeOK, ControlOK
          <5> QED BY <2>3, <5>1, PagesAssumption
        <4>3. Verifying <=> journey.auth.verify = index
          BY <3>2 DEF Verifying
        <4> QED BY <2>2, <2>3, <4>1, <4>2, <4>3
      <3> QED BY <2>3, <2>4, <3>1, <3>2 DEF SignInTold
    <2>10. ObservedSoFar' /\ RecordReady'
      <3>1. CASE pc' = "console"
        BY <3>1 DEF ObservedSoFar, RecordReady, StepPoints
      <3>2. CASE pc' \in {"entry", "act"}
        <4>1. StartStep(index + 1, hasNavigated \/ Current.kind = "navigate")
              /\ index < Len(journey.steps)
          BY <2>1, <3>2 DEF EndStep, Conclude
        <4>2. index + 1 \in DOMAIN journey.steps
          BY <1>1, <2>3, <4>1, InputsAssumption DEF ValidJourney, TypeOK, ControlOK, Document
        <4> QED BY <1>1, <2>4, <4>1, <4>2, FreshObserved
      <3> QED BY <2>2, <3>1, <3>2
    <2> QED BY <2>2, <2>5, <2>6, <2>7, <2>8, <2>9, <2>10 DEF AcceptedInv
  <1> QED BY <1>2, <1>3
-----------------------------------------------------------------------------
(* What each command of a step finds *)

\* What is known at a point of a step.
LEMMA AtPoint ==
  ASSUME Story, AcceptedInv, JourneyStep
  PROVE  /\ TypeOK /\ Admission /\ ValidJourney(journey) /\ pc \in StepPoints
         /\ observation \in Observation /\ capture \in Capture /\ Current \in Step
         /\ ObservedAt(pc, Current, observation)
         /\ CurrentInv
         /\ Current.kind \in {"navigate", "check_url", "follow_link"} =>
              Current.url \in Origin /\ safe_url(Current.url) = Bare[Current.url]
  <1>1. TypeOK /\ Admission /\ ValidJourney(journey) /\ pc \in StepPoints
    BY StepCommand, AdmittedValid DEF Story, Outline, Inductive, Admission
  <1>2. index \in DOMAIN journey.steps
    BY <1>1 DEF TypeOK, ControlOK
  <1>3. Current.kind \in {"navigate", "check_url", "follow_link"} =>
          Current.url \in Origin /\ safe_url(Current.url) = Bare[Current.url]
    BY <1>1, <1>2, PagesAssumption DEF ValidJourney, ValidStep, ValidPath, safe_url, Current
  <1> QED BY <1>1, <1>3, StepState, StepType DEF AcceptedInv, ObservedSoFar, Story

\* The step declares what it expects.
LEMMA EntryAccepted ==
  ASSUME Story, AcceptedInv, JourneyStep, EntryInside
  PROVE  AcceptedInv'
  <1>1. /\ TypeOK /\ pc = "entry" /\ observation \in Observation /\ Current \in Step
        /\ observation = NoObservation
        /\ Current.kind \in {"navigate", "check_url", "follow_link"} =>
             safe_url(Current.url) = Bare[Current.url]
    BY AtPoint DEF EntryInside, ObservedAt
  <1>2. PICK url \in Pages : ReadsInside(url) /\ Advance("act", Declare(Seen(observation, url), index))
    BY DEF EntryInside
  <1> DEFINE obs == Declare(Seen(observation, url), index)
  <1>3. Seen(observation, url) \in Observation
    BY <1>1, SeenType
  <1>4. ObservedAt("act", Current, obs)
    <2>1. /\ Seen(observation, url).visible = "none" /\ Seen(observation, url).enabled = "none"
          /\ Seen(observation, url).matched = "none" /\ Seen(observation, url).box = 0
      BY <1>1, SeenFields DEF NoObservation, Unread
    <2>2. /\ obs.visible = "none" /\ obs.enabled = "none" /\ obs.matched = "none" /\ obs.box = 0
      BY <1>3, <2>1 DEF Declare, Observation
    <2>3. /\ Current.kind \in {"navigate", "check_url", "follow_link"} =>
               obs.expected = Bare[Current.url]
          /\ Current.kind = "follow_link" => obs.action = "not_attempted"
      BY <1>1, <1>3 DEF Declare, Observation, Current
    <2> QED BY <2>2, <2>3 DEF ObservedAt
  <1>5. ObservedSoFar' /\ RecordReady'
    <2> HIDE DEF obs
    <2> QED BY <1>2, <1>4, ObservedGo DEF StepPoints, obs
  <1>6. \A c \in Counted : ~IssuedBy("act", Current.kind, c) /\ ~IssuedBy("entry", Current.kind, c)
    BY DEF IssuedBy, Past, PastLink, Counted, StepCapabilities
  <1> QED
    <2>1. Succeeds("current_url") /\ "current_url" \in StepCapabilities \ Counted
      BY <1>2 DEF ReadsInside, StepCapabilities, Counted
    <2> HIDE DEF obs
    <2> QED BY <1>1, <1>2, <1>5, <1>6, <2>1, GoesAccepted DEF StepPoints, obs

\* The last URL read of a step adds nothing its renderer would refuse.
LEMMA TrailingAccepted ==
  ASSUME Story, AcceptedInv, JourneyStep, TrailingInside
  PROVE  AcceptedInv'
  <1>1. /\ TypeOK /\ pc = "trailing" /\ pc \in StepPoints
        /\ observation \in Observation /\ result \in {"passed", "failed"}
        /\ Acceptable(result, observation, Current)
        /\ \A c \in Counted : Owes(c, Current.kind, observation) <=> IssuedBy(pc, Current.kind, c)
    BY AtPoint, StepState DEF TrailingInside, AcceptedInv, RecordReady, IssuedNow
  <1>2. PICK url \in Pages : ReadsInside(url) /\ StepResult(Seen(observation, url), result)
    BY DEF TrailingInside
  <1>3. Succeeds("current_url") /\ safe_url(url) \in Exact
    BY <1>2, InsideIsExact DEF ReadsInside
  <1> DEFINE obs == Seen(observation, url)
  <1>4. /\ \A f \in Unread : obs[f] = observation[f]
        /\ obs.observed \in Exact /\ obs.before = observation.before
    BY <1>1, <1>3, SeenFields DEF Seen, Observation
  <1> HIDE DEF obs
  <1>5. /\ obs.expected = observation.expected /\ obs.href = observation.href
        /\ obs.visible = observation.visible /\ obs.enabled = observation.enabled
        /\ obs.matched = observation.matched /\ obs.action = observation.action
        /\ obs.box = observation.box /\ obs.shot = observation.shot
        /\ obs.click = observation.click /\ obs.artifact = observation.artifact
    BY <1>4 DEF Unread
  <1>6. Acceptable(result, obs, Current)
    BY <1>1, <1>4, <1>5 DEF Acceptable, ValidObservation, ValidCheckText, ValidFollowLink, Shots
  <1>7. \A c \in Counted : Owes(c, Current.kind, obs) <=> IssuedBy(pc, Current.kind, c)
    BY <1>1, <1>5 DEF Owes
  <1>8. "current_url" \in StepCapabilities \ Counted
    BY DEF StepCapabilities, Counted
  <1> QED BY <1>1, <1>2, <1>3, <1>6, <1>7, <1>8, EndsAccepted DEF obs

\* Nor does the one after a hidden target.
LEMMA HiddenAccepted ==
  ASSUME Story, AcceptedInv, JourneyStep, HiddenInside
  PROVE  AcceptedInv'
  <1>1. /\ TypeOK /\ pc = "hidden" /\ pc \in StepPoints /\ observation \in Observation
        /\ Current.kind \in {"check_text", "capture"}
        /\ observation.visible = "no" /\ observation.enabled = "none"
        /\ observation.matched = "none" /\ observation.box = 0 /\ observation.click = 0
        /\ observation.artifact = "none"
    BY AtPoint DEF HiddenInside, ObservedAt, CurrentInv, KindOfPoint, NothingShown
  <1>2. PICK url \in Pages : ReadsInside(url) /\ StepResult(Seen(observation, url), "failed")
    BY DEF HiddenInside
  <1>3. Succeeds("current_url") /\ safe_url(url) \in Exact
    BY <1>2, InsideIsExact DEF ReadsInside
  <1> DEFINE obs == Seen(observation, url)
  <1>4. /\ \A f \in Unread : obs[f] = observation[f]
        /\ obs.observed \in Exact
    BY <1>1, <1>3, SeenFields DEF Seen, Observation
  <1> HIDE DEF obs
  <1>5. /\ obs.visible = "no" /\ obs.enabled = "none" /\ obs.matched = "none" /\ obs.box = 0
        /\ obs.click = 0 /\ obs.artifact = "none"
    BY <1>1, <1>4 DEF Unread
  <1>6. Acceptable("failed", obs, Current)
    BY <1>1, <1>4, <1>5 DEF Acceptable, ValidObservation, ValidCheckText
  <1>7. \A c \in Counted : Owes(c, Current.kind, obs) <=> IssuedBy(pc, Current.kind, c)
    BY <1>1, <1>5 DEF Owes, IssuedBy, Past, PastLink, Counted, StepCapabilities
  <1>8. "current_url" \in StepCapabilities \ Counted
    BY DEF StepCapabilities, Counted
  <1> QED BY <1>1, <1>2, <1>3, <1>6, <1>7, <1>8, EndsAccepted DEF obs

\* A step that goes on having observed what it should.
LEMMA AdvancesAccepted ==
  ASSUME Story, AcceptedInv, JourneyStep,
         NEW next \in StepPoints \ {"trailing"}, NEW obs, Advance(next, obs),
         NEW capability \in StepCapabilities, Succeeds(capability),
         ObservedAt(next, Current, obs), next \in {"box", "shot"} => hasNavigated,
         \A c \in Counted : IssuedBy(next, Current.kind, c) <=>
                              IssuedBy(pc, Current.kind, c) \/ c = capability,
         capability \in Counted => ~IssuedBy(pc, Current.kind, capability),
         \/ capability = "current_url" \/ next = "act" \/ pc \notin {"entry", "act"}
         \/ Current.kind # "follow_link"
  PROVE  AcceptedInv'
  BY ObservedGo, GoesAccepted

\* A step that is settled with an acceptable record.
LEMMA SettlesAccepted ==
  ASSUME Story, AcceptedInv, JourneyStep,
         NEW res, NEW obs, Settle(obs, res),
         NEW capability \in StepCapabilities, Succeeds(capability),
         ObservedAt("trailing", Current, obs), Acceptable(res, obs, Current),
         \A c \in Counted : /\ Owes(c, Current.kind, obs) <=> IssuedBy("trailing", Current.kind, c)
                            /\ IssuedBy("trailing", Current.kind, c) <=>
                                 IssuedBy(pc, Current.kind, c) \/ c = capability,
         capability \in Counted => ~IssuedBy(pc, Current.kind, capability),
         \/ capability = "current_url" \/ pc \notin {"entry", "act"}
         \/ Current.kind # "follow_link"
  PROVE  AcceptedInv'
  <1>1. Advance("trailing", obs) /\ "trailing" \in StepPoints
    BY DEF Settle, StepPoints
  <1>2. ObservedSoFar' /\ RecordReady'
    BY ObservedSettle
  <1> QED BY <1>1, <1>2, GoesAccepted

\* The navigation of a step, and the page it led to.
LEMMA NavigateAccepted ==
  ASSUME Story, AcceptedInv, JourneyStep, Navigate \/ Arrive
  PROVE  AcceptedInv'
  <1>1. /\ TypeOK /\ pc \in StepPoints /\ observation \in Observation
        /\ ObservedAt(pc, Current, observation) /\ CurrentInv
    BY AtPoint
  <1>2. {"navigate", "current_url"} \subseteq StepCapabilities /\ "arrived" \in StepPoints
    BY DEF StepCapabilities, StepPoints
  <1>3. CASE Navigate
    <2>1. /\ pc = "act" /\ Current.kind = "navigate" /\ Succeeds("navigate")
          /\ Advance("arrived", observation)
      BY <1>3 DEF Navigate, Acting
    <2>2. ObservedAt("arrived", Current, observation)
      BY <1>1, <2>1 DEF ObservedAt
    <2>3. /\ \A c \in Counted : IssuedBy("arrived", Current.kind, c) <=>
                                 IssuedBy(pc, Current.kind, c) \/ c = "navigate"
          /\ ~IssuedBy(pc, Current.kind, "navigate")
      BY <2>1 DEF IssuedBy, Past, PastLink, Counted, StepCapabilities
    <2> QED BY <1>2, <2>1, <2>2, <2>3, AdvancesAccepted
  <1>4. CASE Arrive
    <2>1. /\ pc = "arrived" /\ Current.kind = "navigate"
          /\ observation.expected = Bare[Current.url]
          /\ observation.visible = "none" /\ observation.enabled = "none"
          /\ observation.box = 0 /\ observation.click = 0 /\ observation.artifact = "none"
      BY <1>1, <1>4 DEF Arrive, ObservedAt, CurrentInv, KindOfPoint, NothingShown
    <2>2. PICK url \in Pages : ReadsInside(url) /\ Settle(Seen(observation, url), "passed")
      BY <1>4 DEF Arrive
    <2>3. Succeeds("current_url") /\ safe_url(url) \in Exact
      BY <2>2, InsideIsExact DEF ReadsInside
    <2> DEFINE obs == Seen(observation, url)
    <2>4. /\ \A f \in Unread : obs[f] = observation[f]
          /\ obs.observed \in Exact
      BY <1>1, <2>1, <2>3, SeenFields
    <2> HIDE DEF obs
    <2>5. /\ obs.expected = Bare[Current.url] /\ obs.visible = "none" /\ obs.enabled = "none"
          /\ obs.box = 0 /\ obs.click = 0 /\ obs.artifact = "none"
      BY <2>1, <2>4 DEF Unread
    <2>6. Acceptable("passed", obs, Current) /\ ObservedAt("trailing", Current, obs)
      BY <2>1, <2>4, <2>5 DEF Acceptable, ValidObservation, ObservedAt
    <2>7. \A c \in Counted :
            /\ Owes(c, Current.kind, obs) <=> IssuedBy("trailing", Current.kind, c)
            /\ IssuedBy("trailing", Current.kind, c) <=> IssuedBy(pc, Current.kind, c)
      BY <2>1, <2>5
      DEF Owes, IssuedBy, Past, PastLink, Counted, StepCapabilities, Interactive, Evidential
    <2>8. "current_url" \notin Counted
      BY DEF Counted
    <2> QED BY <1>2, <2>1, <2>2, <2>3, <2>6, <2>7, <2>8, SettlesAccepted DEF obs
  <1> QED BY <1>3, <1>4

\* The check of a URL.
LEMMA CheckUrlAccepted ==
  ASSUME Story, AcceptedInv, JourneyStep, CheckUrl
  PROVE  AcceptedInv'
  <1>1. /\ TypeOK /\ pc = "act" /\ pc \in StepPoints /\ observation \in Observation
        /\ Current.kind = "check_url" /\ observation.expected = Bare[Current.url]
        /\ observation.visible = "none" /\ observation.enabled = "none"
        /\ observation.box = 0 /\ observation.click = 0 /\ observation.artifact = "none"
    BY AtPoint DEF CheckUrl, Acting, ObservedAt, CurrentInv, NothingShown
  <1>2. PICK url \in Pages :
          /\ ReadsInside(url)
          /\ Settle([Seen(observation, url) EXCEPT !.matched = YesNo(url = Current.url)],
                    IF url = Current.url THEN "passed" ELSE "failed")
    BY DEF CheckUrl
  <1>3. Succeeds("current_url") /\ safe_url(url) \in Exact
    BY <1>2, InsideIsExact DEF ReadsInside
  <1> DEFINE seen == Seen(observation, url)
             res == IF url = Current.url THEN "passed" ELSE "failed"
             obs == [seen EXCEPT !.matched = YesNo(url = Current.url)]
  <1>4. /\ \A f \in Unread : seen[f] = observation[f]
        /\ seen.observed \in Exact /\ seen \in Observation
    BY <1>1, <1>3, SeenFields, SeenType
  <1> HIDE DEF seen
  <1>5. /\ obs.expected = Bare[Current.url] /\ obs.visible = "none" /\ obs.enabled = "none"
        /\ obs.box = 0 /\ obs.click = 0 /\ obs.artifact = "none" /\ obs.observed \in Exact
        /\ obs.matched = IF res = "passed" THEN "yes" ELSE "no"
    BY <1>1, <1>4 DEF Unread, Observation, YesNo
  <1>6. Settle(obs, res) /\ res \in {"passed", "failed"}
    BY <1>2 DEF seen
  <1> HIDE DEF obs, res
  <1>7. Acceptable(res, obs, Current) /\ ObservedAt("trailing", Current, obs)
    BY <1>1, <1>5, <1>6 DEF Acceptable, ValidObservation, ObservedAt
  <1>8. \A c \in Counted :
          /\ Owes(c, Current.kind, obs) <=> IssuedBy("trailing", Current.kind, c)
          /\ IssuedBy("trailing", Current.kind, c) <=> IssuedBy(pc, Current.kind, c)
    BY <1>1, <1>5
    DEF Owes, IssuedBy, Past, PastLink, Counted, StepCapabilities, Interactive, Evidential
  <1>9. "current_url" \in StepCapabilities \ Counted
    BY DEF Counted, StepCapabilities
  <1> QED BY <1>3, <1>6, <1>7, <1>8, <1>9, SettlesAccepted

\* The look for a target, and the reading of its text.
LEMMA TargetAccepted ==
  ASSUME Story, AcceptedInv, JourneyStep, LookForTarget \/ CheckText
  PROVE  AcceptedInv'
  <1>1. /\ TypeOK /\ pc \in StepPoints /\ observation \in Observation
        /\ ObservedAt(pc, Current, observation) /\ CurrentInv
    BY AtPoint
  <1>2. CASE LookForTarget
    <2>1. /\ pc = "act" /\ Current.kind \in {"check_text", "capture"}
          /\ Succeeds("is_visible") /\ hasNavigated
      BY <1>2, NavigatedFirst DEF LookForTarget, Acting, AnsweredInside
    <2>2. PICK visible \in BOOLEAN :
            Advance(IF ~visible THEN "hidden" ELSE IF Current.kind = "capture" THEN "box" ELSE "text",
                    [observation EXCEPT !.visible = YesNo(visible)])
      BY <1>2 DEF LookForTarget
    <2> DEFINE next == IF ~visible THEN "hidden"
                       ELSE IF Current.kind = "capture" THEN "box" ELSE "text"
               obs == [observation EXCEPT !.visible = YesNo(visible)]
    <2>3. ObservedAt(next, Current, obs)
      BY <1>1, <2>1 DEF ObservedAt, Observation, YesNo
    <2>4. next \in {"hidden", "box", "text"} /\ (next = "box" => Current.kind = "capture")
          /\ (next = "text" => Current.kind = "check_text")
      BY <2>1
    <2>5. Advance(next, obs)
      BY <2>2
    <2> HIDE DEF next, obs
    <2>6. \A c \in Counted : IssuedBy(next, Current.kind, c) <=> c = "is_visible"
      BY <2>1, <2>4
      DEF IssuedBy, Past, PastLink, Counted, StepCapabilities, Interactive, Evidential
    <2>7. \A c \in Counted : ~IssuedBy(pc, Current.kind, c)
      BY <2>1 DEF IssuedBy, Past, PastLink, Counted, StepCapabilities
    <2>8. "is_visible" \in StepCapabilities /\ next \in StepPoints \ {"trailing"}
      BY <2>4 DEF StepCapabilities, StepPoints
    <2> QED BY <2>1, <2>3, <2>5, <2>6, <2>7, <2>8, AdvancesAccepted
  <1>3. CASE CheckText
    <2>1. /\ pc = "text" /\ Current.kind = "check_text" /\ Succeeds("text") /\ hasNavigated
      BY <1>1, <1>3, NavigatedFirst DEF CheckText, CurrentInv, KindOfPoint, AnsweredInside
    <2>2. /\ observation.visible = "yes" /\ observation.enabled = "none" /\ observation.box = 0
          /\ observation.click = 0 /\ observation.artifact = "none" /\ observation.observed \in Exact
      BY <1>1, <2>1 DEF ObservedAt, CurrentInv, NothingShown, PageKnown
    <2>3. PICK matched \in BOOLEAN :
            Settle([observation EXCEPT !.matched = YesNo(matched)],
                   IF matched THEN "passed" ELSE "failed")
      BY <1>3 DEF CheckText
    <2> DEFINE obs == [observation EXCEPT !.matched = YesNo(matched)]
               res == IF matched THEN "passed" ELSE "failed"
    <2>4. /\ obs.visible = "yes" /\ obs.enabled = "none" /\ obs.box = 0 /\ obs.click = 0
          /\ obs.artifact = "none" /\ obs.observed \in Exact
          /\ obs.matched = IF res = "passed" THEN "yes" ELSE "no"
      BY <1>1, <2>2 DEF Observation, YesNo
    <2>5. Settle(obs, res) /\ res \in {"passed", "failed"}
      BY <2>3
    <2> HIDE DEF obs, res
    <2>6. Acceptable(res, obs, Current) /\ ObservedAt("trailing", Current, obs)
      BY <2>1, <2>4, <2>5 DEF Acceptable, ValidObservation, ValidCheckText, ObservedAt
    <2>7. \A c \in Counted :
            /\ Owes(c, Current.kind, obs) <=> IssuedBy("trailing", Current.kind, c)
            /\ IssuedBy("trailing", Current.kind, c) <=>
                 IssuedBy(pc, Current.kind, c) \/ c = "text"
      <3>1. \A c \in Counted : Owes(c, Current.kind, obs) <=> c \in {"is_visible", "text"}
        BY <2>1, <2>4 DEF Owes, Counted, StepCapabilities
      <3>2. \A c \in Counted : IssuedBy("trailing", Current.kind, c) <=> c \in {"is_visible", "text"}
        BY <2>1 DEF IssuedBy, Past, PastLink, Counted, StepCapabilities, Interactive, Evidential
      <3>3. \A c \in Counted : IssuedBy(pc, Current.kind, c) <=> c = "is_visible"
        BY <2>1 DEF IssuedBy, Past, PastLink, Counted, StepCapabilities
      <3> QED BY <3>1, <3>2, <3>3
    <2>8. "text" \in StepCapabilities /\ ~IssuedBy(pc, Current.kind, "text")
      BY <2>1 DEF StepCapabilities, IssuedBy, Past
    <2> QED BY <2>1, <2>5, <2>6, <2>7, <2>8, SettlesAccepted
  <1> QED BY <1>2, <1>3

\* What has been photographed is told with all of its evidence.
LEMMA Photographed ==
  ASSUME TypeOK, NEW obs \in Observation, NEW taken, NEW clicked,
         taken.box \in Nat \ {0}, taken.shot = taken.box + 1
  PROVE  LET seen == Captured(obs, taken, clicked, 3) IN
         /\ Shots(seen) /\ seen.artifact = "focused" /\ seen.box # 0 /\ seen.click = clicked
         /\ seen.expected = obs.expected /\ seen.observed = obs.observed
         /\ seen.before = obs.before /\ seen.href = obs.href /\ seen.visible = obs.visible
         /\ seen.enabled = obs.enabled /\ seen.matched = obs.matched /\ seen.action = obs.action
  <1> DEFINE seen == Captured(obs, taken, clicked, 3)
  <1>1. /\ seen.box = taken.box /\ seen.shot = taken.shot /\ seen.click = clicked
        /\ seen.artifact = "focused"
        /\ \A f \in {"expected", "observed", "before", "href", "visible", "enabled", "matched",
                     "action"} : seen[f] = obs[f]
    BY CapturedFields
  <1> HIDE DEF seen
  <1>2. Shots(seen) /\ seen.box # 0
    BY <1>1 DEF Shots
  <1> QED BY <1>1, <1>2 DEF seen

\* The picture of a link or a target is taken right after its box.
LEMMA PictureTaken ==
  ASSUME TypeOK, ShotAfterBox, pc = "shot"
  PROVE  Taken.box \in Nat \ {0} /\ Taken.shot = Taken.box + 1
  <1>1. capture.box \in DOMAIN records /\ capture.box = Len(records)
    BY DEF ShotAfterBox, Issued
  <1>2. DOMAIN records = 1 .. Len(records) /\ Len(records) \in Nat /\ capture \in Capture
    BY CountsFinite, StepState
  <1> QED BY <1>1, <1>2 DEF Taken, Capture

\* The focused evidence of a step.
LEMMA EvidenceAccepted ==
  ASSUME Story, AcceptedInv, JourneyStep, BoundingBox \/ CaptureEvidence
  PROVE  AcceptedInv'
  <1>1. /\ TypeOK /\ pc \in StepPoints /\ observation \in Observation
        /\ ObservedAt(pc, Current, observation) /\ CurrentInv
    BY AtPoint
  <1>2. pc \in {"box", "shot"} => hasNavigated /\ Current.kind \in Evidential
    BY <1>1 DEF AcceptedInv, ObservedSoFar, CurrentInv, KindOfPoint
  <1>3. CASE BoundingBox
    <2>1. pc = "box" /\ Succeeds("bounding_box") /\ Advance("shot", observation)
      BY <1>3 DEF BoundingBox
    <2>2. ObservedAt("shot", Current, observation)
      BY <1>1, <2>1 DEF ObservedAt
    <2>3. /\ \A c \in Counted : IssuedBy("shot", Current.kind, c) <=>
                                 IssuedBy(pc, Current.kind, c) \/ c = "bounding_box"
          /\ ~IssuedBy(pc, Current.kind, "bounding_box")
      BY <2>1 DEF IssuedBy, Past, PastLink, Counted, StepCapabilities
    <2>4. "bounding_box" \in StepCapabilities /\ "shot" \in StepPoints \ {"trailing"}
      BY DEF StepCapabilities, StepPoints
    <2> QED BY <1>2, <2>1, <2>2, <2>3, <2>4, AdvancesAccepted
  <1>4. CASE CaptureEvidence
    <2>1. /\ pc = "shot" /\ Current.kind = "capture" /\ Succeeds("screenshot")
          /\ Settle(Captured(observation, Taken, 0, 3), "passed")
      BY <1>4 DEF CaptureEvidence
    <2> DEFINE obs == Captured(observation, Taken, 0, 3)
    <2>2. /\ observation.visible = "yes" /\ observation.enabled = "none"
          /\ observation.observed \in Exact
      BY <1>1, <1>2, <2>1 DEF ObservedAt, CurrentInv, PageKnown
    <2>3. /\ Shots(obs) /\ obs.artifact = "focused" /\ obs.box # 0 /\ obs.click = 0
          /\ obs.observed \in Exact /\ obs.visible = "yes" /\ obs.enabled = "none"
      BY <1>1, <2>1, <2>2, PictureTaken, Photographed DEF CurrentInv
    <2>4. Settle(obs, "passed")
      BY <2>1
    <2> HIDE DEF obs
    <2>5. Acceptable("passed", obs, Current) /\ ObservedAt("trailing", Current, obs)
      BY <2>1, <2>3 DEF Acceptable, ValidObservation, ObservedAt
    <2>6. \A c \in Counted :
            /\ Owes(c, Current.kind, obs) <=> IssuedBy("trailing", Current.kind, c)
            /\ IssuedBy("trailing", Current.kind, c) <=>
                 IssuedBy(pc, Current.kind, c) \/ c = "screenshot"
      BY <2>1, <2>3
      DEF Owes, IssuedBy, Past, PastLink, Counted, StepCapabilities, Interactive, Evidential
    <2>7. "screenshot" \in StepCapabilities /\ ~IssuedBy(pc, Current.kind, "screenshot")
      BY <2>1 DEF StepCapabilities, IssuedBy, Past
    <2> QED BY <2>1, <2>4, <2>5, <2>6, <2>7, SettlesAccepted
  <1> QED BY <1>3, <1>4

\* What the run reads of a link before its picture.
LEMMA LinkReadAccepted ==
  ASSUME Story, AcceptedInv, JourneyStep, LinkPreflight \/ LinkVisible \/ LinkEnabled \/ LinkHref
  PROVE  AcceptedInv'
  <1>1. /\ TypeOK /\ pc \in StepPoints /\ observation \in Observation
        /\ ObservedAt(pc, Current, observation) /\ CurrentInv
    BY AtPoint
  <1>2. CASE LinkPreflight
    <2>1. pc = "act" /\ Current.kind = "follow_link"
      BY <1>2 DEF LinkPreflight, Acting
    <2>2. PICK url \in Pages : ReadsInside(url) /\ Advance("link_visible", Seen(observation, url))
      BY <1>2 DEF LinkPreflight
    <2>3. Succeeds("current_url") /\ safe_url(url) \in Exact
      BY <2>2, InsideIsExact DEF ReadsInside
    <2> DEFINE obs == Seen(observation, url)
    <2>4. /\ \A f \in Unread : obs[f] = observation[f]
          /\ obs.before \in Exact
      BY <1>1, <2>1, <2>3, SeenFields DEF Seen, Observation
    <2>5. Advance("link_visible", obs)
      BY <2>2
    <2> HIDE DEF obs
    <2>6. /\ obs.expected = observation.expected /\ obs.action = observation.action
          /\ obs.visible = observation.visible /\ obs.enabled = observation.enabled
          /\ obs.matched = observation.matched /\ obs.box = observation.box
      BY <2>4 DEF Unread
    <2>7. ObservedAt("link_visible", Current, obs)
      BY <1>1, <2>1, <2>4, <2>6 DEF ObservedAt
    <2>8. /\ \A c \in Counted : ~IssuedBy("link_visible", Current.kind, c)
          /\ \A c \in Counted : ~IssuedBy(pc, Current.kind, c)
      BY <2>1 DEF IssuedBy, Past, PastLink, Counted, StepCapabilities
    <2>9. "current_url" \in StepCapabilities \ Counted /\ "link_visible" \in StepPoints \ {"trailing"}
      BY DEF StepCapabilities, StepPoints, Counted
    <2> QED BY <2>1, <2>3, <2>5, <2>7, <2>8, <2>9, AdvancesAccepted
  <1>3. ASSUME pc \in {"link_visible", "link_enabled", "link_href"}
        PROVE  /\ Current.kind = "follow_link" /\ hasNavigated /\ LinkUnderway
               /\ observation.observed \in Exact /\ observation.expected = Bare[Current.url]
               /\ observation.action = "not_attempted" /\ observation.matched = "none"
               /\ observation.box = 0 /\ observation.click = 0 /\ observation.artifact = "none"
               /\ pc # "link_visible" => observation.visible = "yes"
               /\ pc # "link_href" => observation.enabled = "none"
               /\ pc = "link_href" => observation.enabled = "yes"
    BY <1>1, <1>3, LinkKnown DEF ObservedAt, LinkUnderway
  <1>4. /\ {"is_visible", "is_enabled", "get_attribute"} \subseteq StepCapabilities
        /\ {"link_enabled", "link_href", "box"} \subseteq StepPoints \ {"trailing"}
    BY DEF StepCapabilities, StepPoints
  <1>5. CASE LinkVisible
    <2>1. pc = "link_visible" /\ Succeeds("is_visible")
      BY <1>5 DEF LinkVisible, AnsweredInside
    <2>2. \A c \in Counted : ~IssuedBy(pc, Current.kind, c)
      BY <2>1 DEF IssuedBy, Past, PastLink, Counted, StepCapabilities
    <2>3. CASE Advance("link_enabled", [observation EXCEPT !.visible = "yes"])
      <3>1. ObservedAt("link_enabled", Current, [observation EXCEPT !.visible = "yes"])
        BY <1>1, <1>3, <2>1 DEF ObservedAt, Observation
      <3>2. \A c \in Counted : IssuedBy("link_enabled", Current.kind, c) <=> c = "is_visible"
        BY DEF IssuedBy, Past, PastLink, Counted, StepCapabilities
      <3> QED BY <1>4, <2>1, <2>2, <2>3, <3>1, <3>2, AdvancesAccepted
    <2>4. CASE StepResult(Unmatched([observation EXCEPT !.visible = "no"]), "failed")
      <3> DEFINE obs == Unmatched([observation EXCEPT !.visible = "no"])
      <3>1. /\ obs.visible = "no" /\ obs.matched = "no" /\ obs.enabled = "none"
            /\ obs.action = "not_attempted" /\ obs.observed \in Exact
            /\ obs.expected = Bare[Current.url] /\ obs.box = 0 /\ obs.click = 0
            /\ obs.artifact = "none"
        BY <1>1, <1>3, <2>1 DEF Unmatched, Observation
      <3>2. StepResult(obs, "failed")
        BY <2>4
      <3> HIDE DEF obs
      <3>3. Acceptable("failed", obs, Current)
        BY <1>3, <2>1, <3>1 DEF Acceptable, ValidObservation, ValidFollowLink
      <3>4. \A c \in Counted : Owes(c, Current.kind, obs) <=> c = "is_visible"
        BY <1>3, <2>1, <3>1 DEF Owes, Counted, StepCapabilities
      <3> QED BY <1>3, <1>4, <2>1, <2>2, <3>2, <3>3, <3>4, EndsAccepted
    <2> QED BY <1>5, <2>3, <2>4 DEF LinkVisible
  <1>6. CASE LinkEnabled
    <2>1. pc = "link_enabled" /\ Succeeds("is_enabled")
      BY <1>6 DEF LinkEnabled, AnsweredInside
    <2>2. \A c \in Counted : IssuedBy(pc, Current.kind, c) <=> c = "is_visible"
      BY <2>1 DEF IssuedBy, Past, PastLink, Counted, StepCapabilities
    <2>3. CASE Advance("link_href", [observation EXCEPT !.enabled = "yes"])
      <3>1. ObservedAt("link_href", Current, [observation EXCEPT !.enabled = "yes"])
        BY <1>1, <1>3, <2>1 DEF ObservedAt, Observation
      <3>2. \A c \in Counted :
              IssuedBy("link_href", Current.kind, c) <=> c \in {"is_visible", "is_enabled"}
        BY DEF IssuedBy, Past, PastLink, Counted, StepCapabilities
      <3> QED BY <1>4, <2>1, <2>2, <2>3, <3>1, <3>2, AdvancesAccepted
    <2>4. CASE StepResult(Unmatched([observation EXCEPT !.enabled = "no"]), "failed")
      <3> DEFINE obs == Unmatched([observation EXCEPT !.enabled = "no"])
      <3>1. /\ obs.visible = "yes" /\ obs.matched = "no" /\ obs.enabled = "no"
            /\ obs.action = "not_attempted" /\ obs.observed \in Exact
            /\ obs.expected = Bare[Current.url] /\ obs.box = 0 /\ obs.click = 0
            /\ obs.artifact = "none"
        BY <1>1, <1>3, <2>1 DEF Unmatched, Observation
      <3>2. StepResult(obs, "failed")
        BY <2>4
      <3> HIDE DEF obs
      <3>3. Acceptable("failed", obs, Current)
        BY <1>3, <2>1, <3>1 DEF Acceptable, ValidObservation, ValidFollowLink
      <3>4. \A c \in Counted : Owes(c, Current.kind, obs) <=> c \in {"is_visible", "is_enabled"}
        BY <1>3, <2>1, <3>1 DEF Owes, Counted, StepCapabilities
      <3> QED BY <1>3, <1>4, <2>1, <2>2, <3>2, <3>3, <3>4, EndsAccepted
    <2> QED BY <1>6, <2>3, <2>4 DEF LinkEnabled
  <1>7. CASE LinkHref
    <2>1. pc = "link_href" /\ Succeeds("get_attribute")
      BY <1>7 DEF LinkHref, AnsweredInside
    <2>2. \A c \in Counted :
            IssuedBy(pc, Current.kind, c) <=> c \in {"is_visible", "is_enabled"}
      BY <2>1 DEF IssuedBy, Past, PastLink, Counted, StepCapabilities
    <2>3. CASE StepResult(Unmatched(observation), "failed")
      <3> DEFINE obs == Unmatched(observation)
      <3>1. /\ obs.visible = "yes" /\ obs.matched = "no" /\ obs.enabled = "yes"
            /\ obs.action = "not_attempted" /\ obs.observed \in Exact
            /\ obs.expected = Bare[Current.url] /\ obs.box = 0 /\ obs.click = 0
            /\ obs.artifact = "none"
        BY <1>1, <1>3, <2>1 DEF Unmatched, Observation
      <3>2. StepResult(obs, "failed")
        BY <2>3
      <3> HIDE DEF obs
      <3>3. Acceptable("failed", obs, Current)
        BY <1>3, <2>1, <3>1 DEF Acceptable, ValidObservation, ValidFollowLink
      <3>4. \A c \in Counted : Owes(c, Current.kind, obs) <=>
                                 c \in {"is_visible", "is_enabled", "get_attribute"}
        BY <1>3, <2>1, <3>1 DEF Owes, Counted, StepCapabilities
      <3> QED BY <1>3, <1>4, <2>1, <2>2, <3>2, <3>3, <3>4, EndsAccepted
    <2>4. ASSUME NEW href \in Pages, Advance("box", [observation EXCEPT !.href = safe_url(href)])
          PROVE  AcceptedInv'
      <3>1. ObservedAt("box", Current, [observation EXCEPT !.href = safe_url(href)])
        BY <1>1, <1>3, <2>1 DEF ObservedAt, Observation
      <3>2. \A c \in Counted : IssuedBy("box", Current.kind, c) <=>
                                 c \in {"is_visible", "is_enabled", "get_attribute"}
        BY <1>3, <2>1 DEF IssuedBy, Past, PastLink, Counted, StepCapabilities
      <3> QED BY <1>3, <1>4, <2>1, <2>2, <2>4, <3>1, <3>2, AdvancesAccepted
    <2> QED BY <1>7, <2>3, <2>4 DEF LinkHref
  <1> QED BY <1>2, <1>5, <1>6, <1>7

\* The commands a link step has issued at each of its points.
LEMMA LinkCommands ==
  ASSUME Current.kind = "follow_link", NEW c \in Counted
  PROVE  /\ IssuedBy("shot", Current.kind, c) <=>
              c \in {"is_visible", "is_enabled", "get_attribute", "bounding_box"}
         /\ IssuedBy("click", Current.kind, c) <=>
              c \in {"is_visible", "is_enabled", "get_attribute", "bounding_box", "screenshot"}
         /\ \A point \in {"landed", "trailing"} :
              IssuedBy(point, Current.kind, c) <=>
                c \in {"is_visible", "is_enabled", "get_attribute", "bounding_box", "screenshot",
                       "click"}
  BY DEF IssuedBy, Past, PastLink, Counted, StepCapabilities, Interactive, Evidential

\* The picture of a link, and where it leads.
LEMMA LinkPictureAccepted ==
  ASSUME Story, AcceptedInv, JourneyStep, LinkRefused \/ LinkReady
  PROVE  AcceptedInv'
  <1>1. /\ TypeOK /\ pc \in StepPoints /\ observation \in Observation
        /\ ObservedAt(pc, Current, observation) /\ CurrentInv
        /\ pc = "shot" /\ Current.kind = "follow_link" /\ Succeeds("screenshot")
    BY AtPoint DEF LinkRefused, LinkReady
  <1>2. "screenshot" \in StepCapabilities \cap Counted /\ "click" \in StepPoints \ {"trailing"}
    BY DEF StepCapabilities, StepPoints, Counted
  <1>3. ~IssuedBy(pc, Current.kind, "screenshot")
    BY <1>1, <1>2, LinkCommands
  <1>4. /\ observation.visible = "yes" /\ observation.enabled = "yes"
        /\ observation.action = "not_attempted" /\ observation.expected = Bare[Current.url]
        /\ observation.observed \in Exact /\ hasNavigated
    BY <1>1 DEF ObservedAt, CurrentInv, LinkRead, OnLink, PageKnown
  <1>5. CASE LinkReady
    <2>1. Advance("click", observation)
      BY <1>5 DEF LinkReady
    <2>2. ObservedAt("click", Current, observation)
      BY <1>1 DEF ObservedAt
    <2>3. \A c \in Counted : IssuedBy("click", Current.kind, c) <=>
                               IssuedBy(pc, Current.kind, c) \/ c = "screenshot"
      BY <1>1, LinkCommands
    <2> QED BY <1>1, <1>2, <1>3, <2>1, <2>2, <2>3, AdvancesAccepted
  <1>6. CASE LinkRefused
    <2> DEFINE seen == Captured(observation, Taken, 0, 3)
               obs == Unmatched(seen)
    <2>1. StepResult(seen, "blocked") \/ StepResult(obs, "failed")
      BY <1>6 DEF LinkRefused
    <2>2. CASE StepResult(seen, "blocked")
      <3>1. EndsBadly
        <4> HIDE DEF seen
        <4> QED BY <2>2, BlockedEndsBadly
      <3> QED BY <1>1, <3>1, BadlyAccepted DEF AcceptedInv
    <2>3. CASE StepResult(obs, "failed")
      <3>1. /\ Shots(seen) /\ seen.artifact = "focused" /\ seen.box # 0 /\ seen.click = 0
            /\ seen.expected = Bare[Current.url] /\ seen.observed \in Exact
            /\ seen.visible = "yes" /\ seen.enabled = "yes" /\ seen.action = "not_attempted"
        BY <1>1, <1>4, PictureTaken, Photographed DEF CurrentInv
      <3>2. seen \in Observation
        <4>1. Taken \in Capture
          BY <1>1, RecordsLength, StepState DEF Taken, Capture
        <4> QED BY <1>1, <4>1, CapturedType
      <3> HIDE DEF seen
      <3>3. /\ Shots(obs) /\ obs.artifact = "focused" /\ obs.box # 0 /\ obs.click = 0
            /\ obs.expected = Bare[Current.url] /\ obs.observed \in Exact
            /\ obs.visible = "yes" /\ obs.enabled = "yes" /\ obs.action = "not_attempted"
            /\ obs.matched = "no"
        BY <3>1, <3>2 DEF Unmatched, Observation, Shots
      <3> HIDE DEF obs
      <3>4. Acceptable("failed", obs, Current)
        BY <1>1, <3>3 DEF Acceptable, ValidObservation, ValidFollowLink
      <3>5. \A c \in Counted : Owes(c, Current.kind, obs) <=>
              c \in {"is_visible", "is_enabled", "get_attribute", "bounding_box", "screenshot"}
        BY <1>1, <3>3 DEF Owes, Counted, StepCapabilities
      <3>6. \A c \in Counted : Owes(c, Current.kind, obs) <=>
                                 IssuedBy(pc, Current.kind, c) \/ c = "screenshot"
        BY <1>1, <3>5, LinkCommands
      <3>7. LinkUnderway
        BY <1>1 DEF LinkUnderway
      <3> QED BY <1>1, <1>2, <1>3, <2>3, <3>4, <3>6, <3>7, EndsAccepted
    <2> QED BY <2>1, <2>2, <2>3
  <1> QED BY <1>5, <1>6

\* The click of a link, and the page it landed on.
LEMMA ClickAccepted ==
  ASSUME Story, AcceptedInv, JourneyStep, Click \/ Landed
  PROVE  AcceptedInv'
  <1>1. /\ TypeOK /\ pc \in StepPoints /\ observation \in Observation /\ capture \in Capture
        /\ ObservedAt(pc, Current, observation) /\ CurrentInv
        /\ pc \in {"click", "landed"} /\ Current.kind = "follow_link"
        /\ Current.kind \in {"navigate", "check_url", "follow_link"} =>
             safe_url(Current.url) = Bare[Current.url]
    BY AtPoint DEF Click, Landed, CurrentInv, KindOfPoint, LinkOnly
  <1>2. /\ observation.expected = Bare[Current.url] /\ observation.before \in Exact
        /\ observation.visible = "yes" /\ observation.enabled = "yes"
        /\ observation.href = Bare[Current.url]
        /\ observation.matched = "none"
    BY <1>1 DEF ObservedAt, CurrentInv, LinkRead, OnLink, LinkOnly
  <1>3. CASE Click
    <2>1. pc = "click" /\ Succeeds("click")
      BY <1>3 DEF Click
    <2>2. PICK n \in 0 .. 3 :
            \/ n = 3 /\ Advance("landed", Acknowledge(Len(records'), 3))
            \/ StepError(Unknown(Len(records'), n), "error", "action_effect_unknown")
      BY <1>3 DEF Click
    <2>3. CASE StepError(Unknown(Len(records'), n), "error", "action_effect_unknown")
      <3>1. EndsBadly
        BY <2>3, ErrorEndsBadly
      <3> QED BY <1>1, <3>1, BadlyAccepted DEF AcceptedInv
    <2>4. CASE Advance("landed", Acknowledge(Len(records'), 3))
      <3>1. Len(records') \in Nat \ {0}
        BY <1>1, <2>1, OneMore DEF Capabilities, StepCapabilities
      <3>2. capture.box \in Nat \ {0} /\ capture.shot = capture.box + 1
        <4>1. capture.box \in DOMAIN records
          BY <1>1, <2>1 DEF CurrentInv, ShotAfterBox, Issued
        <4>2. DOMAIN records = 1 .. Len(records)
          BY <1>1, CountsFinite
        <4> QED BY <1>1, <2>1, <4>1, <4>2 DEF CurrentInv, ShotAfterBox, Capture
      <3> DEFINE clicked == Len(records')
                 seen == Captured(observation, capture, clicked, 3)
                 obs == Acknowledge(clicked, 3)
      <3>3. /\ Shots(seen) /\ seen.click = clicked /\ seen.expected = Bare[Current.url]
            /\ seen.before \in Exact /\ seen.matched = "none"
        <4> HIDE DEF clicked
        <4> QED BY <1>1, <1>2, <3>2, Photographed
      <3>4. seen \in Observation /\ obs = [seen EXCEPT !.action = "driver_acknowledged"]
        BY <1>1, <3>1, CapturedType DEF Acknowledge
      <3> HIDE DEF seen
      <3>5. /\ Shots(obs) /\ obs.click # 0 /\ obs.expected = Bare[Current.url]
            /\ obs.before \in Exact /\ obs.matched = "none"
        BY <3>1, <3>3, <3>4 DEF Observation, Shots
      <3> HIDE DEF obs
      <3>6. ObservedAt("landed", Current, obs)
        BY <1>1, <3>5 DEF ObservedAt
      <3>7. /\ "click" \in StepCapabilities \cap Counted
            /\ "landed" \in StepPoints \ {"trailing"}
        BY DEF StepCapabilities, StepPoints, Counted
      <3>8. /\ \A c \in Counted : IssuedBy("landed", Current.kind, c) <=>
                                    IssuedBy(pc, Current.kind, c) \/ c = "click"
            /\ ~IssuedBy(pc, Current.kind, "click")
        BY <1>1, <2>1, <3>7, LinkCommands
      <3> QED BY <2>1, <2>4, <3>6, <3>7, <3>8, AdvancesAccepted DEF obs
    <2> QED BY <2>2, <2>3, <2>4
  <1>4. CASE Landed
    <2>1. /\ pc = "landed" /\ Shots(observation) /\ observation.click # 0
          /\ observation.artifact = "focused" /\ observation.action = "driver_acknowledged"
      BY <1>1, <1>4 DEF Landed, ObservedAt, CurrentInv, StepTold
    <2>2. PICK url \in Pages, res \in {"passed", "failed"} :
            /\ ReadsInside(url)
            /\ \/ /\ res = "passed"
                  /\ Settle([Seen(observation, url) EXCEPT !.matched = "yes",
                                                           !.action = "effect_verified"], res)
               \/ res = "failed" /\ Settle(Unmatched(Seen(observation, url)), res)
      BY <1>4 DEF Landed
    <2>3. Succeeds("current_url") /\ safe_url(url) \in Exact
      BY <2>2, InsideIsExact DEF ReadsInside
    <2> DEFINE seen == Seen(observation, url)
               obs == IF res = "passed"
                        THEN [seen EXCEPT !.matched = "yes", !.action = "effect_verified"]
                        ELSE Unmatched(seen)
    <2>4. /\ \A f \in Unread : seen[f] = observation[f]
          /\ seen.observed \in Exact /\ seen.before = observation.before /\ seen \in Observation
      BY <1>1, <2>1, <2>3, SeenFields, SeenType DEF Seen, Observation
    <2>5. Settle(obs, res)
      BY <2>2
    <2> HIDE DEF seen
    <2>6. /\ seen.expected = Bare[Current.url] /\ seen.href = Bare[Current.url]
          /\ seen.visible = "yes" /\ seen.enabled = "yes" /\ Shots(seen) /\ seen.click # 0
          /\ seen.artifact = "focused" /\ seen.action = "driver_acknowledged"
          /\ seen.before \in Exact
      BY <1>2, <2>1, <2>4 DEF Unread, Shots
    <2>7. /\ obs.expected = Bare[Current.url] /\ obs.href = Bare[Current.url]
          /\ obs.visible = "yes" /\ obs.enabled = "yes" /\ Shots(obs) /\ obs.click # 0
          /\ obs.artifact = "focused" /\ obs.observed \in Exact /\ obs.before \in Exact
          /\ res = "passed" => obs.matched = "yes" /\ obs.action = "effect_verified"
          /\ res = "failed" => obs.matched = "no" /\ obs.action = "driver_acknowledged"
      BY <2>4, <2>6 DEF Unmatched, Observation, Shots
    <2> HIDE DEF obs
    <2>8. obs.before # NoPage
      BY <2>7, PagesAssumption
    <2>9. Acceptable(res, obs, Current) /\ ObservedAt("trailing", Current, obs)
      <3>1. ValidFollowLink(res, obs)
        BY <2>7, <2>8 DEF ValidFollowLink
      <3> QED BY <1>1, <2>7, <3>1 DEF Acceptable, ValidObservation, ObservedAt, Shots
    <2>10. \A c \in Counted :
             /\ Owes(c, Current.kind, obs) <=> IssuedBy("trailing", Current.kind, c)
             /\ IssuedBy("trailing", Current.kind, c) <=> IssuedBy(pc, Current.kind, c)
      <3>1. \A c \in Counted : Owes(c, Current.kind, obs) <=>
              c \in {"is_visible", "is_enabled", "get_attribute", "bounding_box", "screenshot",
                     "click"}
        BY <1>1, <2>7 DEF Owes, Counted, StepCapabilities, Shots
      <3> QED BY <1>1, <2>1, <3>1, LinkCommands
    <2>11. "current_url" \in StepCapabilities \ Counted
      BY DEF StepCapabilities, Counted
    <2> QED BY <2>1, <2>3, <2>5, <2>9, <2>10, <2>11, SettlesAccepted
  <1> QED BY <1>3, <1>4

\* Every command of a step keeps what its renderer will accept.
LEMMA JourneyStepAccepted ==
  ASSUME Story, AcceptedInv, JourneyStep
  PROVE  AcceptedInv'
  <1>1. CASE UrlOutside \/ NavigationBlocked
    <2>1. EndsBadly
      BY <1>1, BlockedEndsBadly DEF UrlOutside, NavigationBlocked
    <2> QED BY <2>1, AtPoint, BadlyAccepted DEF AcceptedInv
  <1>2. CASE StrayInspection \/ StepCommandFails \/ EvidenceFails \/ ClickNeedsConfirmation
             \/ ClickFails \/ LandingUnknown
    <2>1. EndsBadly
      BY <1>2, ErrorEndsBadly DEF StrayInspection, StepCommandFails, EvidenceFails,
                                  ClickNeedsConfirmation, ClickFails, LandingUnknown
    <2> QED BY <2>1, AtPoint, BadlyAccepted DEF AcceptedInv
  <1>3. CASE EntryInside \/ TrailingInside \/ HiddenInside
    BY <1>3, EntryAccepted, TrailingAccepted, HiddenAccepted
  <1>4. CASE Navigate \/ Arrive \/ CheckUrl \/ LookForTarget \/ CheckText
    BY <1>4, NavigateAccepted, CheckUrlAccepted, TargetAccepted
  <1>5. CASE BoundingBox \/ CaptureEvidence
    BY <1>5, EvidenceAccepted
  <1>6. CASE LinkPreflight \/ LinkVisible \/ LinkEnabled \/ LinkHref
    BY <1>6, LinkReadAccepted
  <1>7. CASE LinkRefused \/ LinkReady \/ Click \/ Landed
    BY <1>7, LinkPictureAccepted, ClickAccepted
  <1> QED BY <1>1, <1>2, <1>3, <1>4, <1>5, <1>6, <1>7 DEF JourneyStep
-----------------------------------------------------------------------------
(* Before the steps, and after them *)

\* Of a run that has not begun its steps, and is not over, little is asked.
LEMMA SetupAccepted ==
  ASSUME pc' \in {"preflight"} \cup SetupPoints, SetupIssued',
         journey' = journey, journey.schema # 4 => authentication' = "none"
  PROVE  AcceptedInv'
  <1>1. pc' \notin StepPoints \cup Ended /\ ~Live'
    BY DEF SetupPoints, StepPoints, Ended, ClosingPoints, Live
  <1>2. ClosingIssued' /\ CommandsCounted' /\ UrlsRead' /\ RecordsAcceptable'
    BY <1>1 DEF ClosingIssued, CommandsCounted, UrlsRead, RecordsAcceptable
  <1>3. ObservedSoFar' /\ RecordReady'
    BY <1>1 DEF ObservedSoFar, RecordReady, StepPoints, SetupPoints
  <1>4. VerdictMeant' /\ SignInTold'
    BY <1>1 DEF VerdictMeant, SignInTold
  <1> QED BY <1>2, <1>3, <1>4 DEF AcceptedInv

\* Nor is it of one that never will.
LEMMA AbandonedAccepted ==
  ASSUME pc' \in Ended, outcome' \in {"blocked", "error"},
         journey' = journey, journey.schema # 4 => authentication' = "none"
  PROVE  AcceptedInv'
  <1>1. pc' \notin StepPoints \cup SetupPoints /\ ~Clean' /\ ~Live'
    BY DEF SetupPoints, StepPoints, Ended, ClosingPoints, Live, Clean
  <1>2. ClosingIssued' /\ CommandsCounted' /\ UrlsRead' /\ RecordsAcceptable' /\ SetupIssued'
    BY <1>1 DEF ClosingIssued, CommandsCounted, UrlsRead, RecordsAcceptable, SetupIssued, SetupPoints
  <1>3. ObservedSoFar' /\ RecordReady'
    BY <1>1 DEF ObservedSoFar, RecordReady, StepPoints
  <1>4. VerdictMeant' /\ SignInTold'
    BY <1>1 DEF VerdictMeant, SignInTold
  <1> QED BY <1>2, <1>3, <1>4 DEF AcceptedInv

\* Without a sign-in the setup leaves its status alone.
LEMMA SetupNoSignIn ==
  ASSUME Story, SignInTold, SetupStep
  PROVE  journey' = journey /\ (journey.schema # 4 => authentication' = "none")
  <1>1. journey' = journey
    BY SetupLeaves DEF Story
  <1>2. ASSUME journey.schema # 4
        PROVE  authentication' = "none"
    <2>1. authentication = "none" /\ pc \notin {"stage", "load"}
      BY <1>2 DEF SignInTold, Story, Outline, SessionInv, StagedForLoad
    <2>2. CASE RunDirectoryUnavailable \/ Refuse \/ DriverUnavailable \/ Launch
      <3>1. CASE Refuse
        <4>1. PICK k \in DOMAIN GateOrder :
                /\ RefusedBy(k, journey, opts)
                /\ authentication' = RefusalStatus(GateOrder[k], journey)
          BY <3>1 DEF Refuse
        <4>2. GateOrder[k] \notin {"authentication_provider_unsupported",
                                   "authentication_state_missing", "authentication_state_invalid"}
          BY <1>2, <4>1 DEF RefusedBy, Refuses, RefusesAuthentication
        <4> QED BY <1>2, <4>1, <4>2 DEF RefusalStatus
      <3> QED BY <1>2, <2>1, <2>2, <3>1 DEF RunDirectoryUnavailable, DriverUnavailable, Launch
    <2>3. CASE Prepare \/ SetupCommandFails \/ StartTrace
      BY <2>1, <2>3 DEF Prepare, SetupCommandFails, StartTrace
    <2>4. CASE StageState \/ StageFails \/ LoadState \/ LoadOrRemovalFails
      BY <2>1, <2>4 DEF StageState, StageFails, LoadState, LoadOrRemovalFails
    <2> QED BY <2>2, <2>3, <2>4 DEF SetupStep
  <1> QED BY <1>1, <1>2

\* The setup issues each of its commands once, in order.
LEMMA SetupStepAccepted ==
  ASSUME Story, AcceptedInv, SetupStep
  PROVE  AcceptedInv'
  <1>1. /\ TypeOK /\ steps = <<>> /\ SignInTold /\ SetupIssued
        /\ journey' = journey /\ (journey.schema # 4 => authentication' = "none")
    BY SetupLeaves, SetupNoSignIn DEF Story, Outline, Inductive, AcceptedInv
  <1>2. Len(records) \in Nat /\ DOMAIN records = 1 .. Len(records) /\ Offset' = Offset
        /\ Offset = (IF journey.schema = 4 THEN 1 ELSE 0)
    BY <1>1, CountsFinite DEF Offset
  <1>3. CASE RunDirectoryUnavailable \/ Refuse \/ DriverUnavailable
    <2>1. PICK p \in {"blocked", "error"}, next \in {"write", "done"} :
            \E c : EndEarly(p, c, next)
      BY <1>3 DEF RunDirectoryUnavailable, Refuse, DriverUnavailable, RefusalOutcome
    <2> QED BY <1>1, <2>1, AbandonedAccepted DEF EndEarly, Ended
  <1>4. CASE SetupCommandFails \/ StageFails \/ LoadOrRemovalFails
    <2>1. pc' = "close" /\ outcome' = "error"
      BY <1>4 DEF SetupCommandFails, StageFails, LoadOrRemovalFails, AbandonSetup, Conclude
    <2> QED BY <1>1, <2>1, AbandonedAccepted DEF Ended, ClosingPoints
  <1>5. CASE Launch
    <2>1. pc' = "prepare" /\ records = <<>> /\ records' = records
      BY <1>5 DEF Launch, Story, Outline, SessionInv, Unopened
    <2>2. SetupIssued'
      BY <2>1 DEF SetupIssued, Issued, Live, StepPoints, Ended, ClosingPoints, SetupPoints
    <2> QED BY <1>1, <2>1, <2>2, SetupAccepted DEF SetupPoints
  <1>6. CASE Prepare
    <2>1. /\ pc = "prepare" /\ Succeeds("set_viewport")
          /\ pc' = IF journey.schema = 4 THEN "stage" ELSE "trace_start"
      BY <1>6 DEF Prepare, ContinueSetup
    <2>2. /\ Issued("set_viewport")' = Issued("set_viewport") \cup {Len(records')}
          /\ \A c : c # "set_viewport" => Issued(c)' = Issued(c)
          /\ Len(records') = Len(records) + 1
      BY <1>1, <2>1, OneMore DEF Capabilities
    <2>3. Len(records) = 0 /\ \A c : Issued(c) = {}
      <3>1. Len(records) = 0
        BY <1>1, <2>1 DEF SetupIssued, SetupPoints
      <3> QED BY <1>2, <3>1 DEF Issued
    <2>4. /\ Issued("set_viewport")' = {1} /\ Len(records') = 1
          /\ \A c : c # "set_viewport" => Issued(c)' = {}
      BY <2>2, <2>3
    <2>5. pc' \in SetupPoints /\ pc' \notin StepPoints \cup Ended
      BY <2>1 DEF SetupPoints, StepPoints, Ended, ClosingPoints
    <2>6. SetupIssued'
      BY <1>1, <1>2, <2>1, <2>4, <2>5 DEF SetupIssued, Live, StepCapabilities, ClosingPoints
    <2> QED BY <1>1, <2>5, <2>6, SetupAccepted
  <1>7. CASE StageState
    <2>1. pc = "stage" /\ pc' = "load" /\ records' = records
      BY <1>7 DEF StageState, ContinueSetup
    <2>2. SetupIssued'
      BY <1>1, <2>1 DEF SetupIssued, Issued, Live, StepPoints, Ended, ClosingPoints, SetupPoints
    <2> QED BY <1>1, <2>1, <2>2, SetupAccepted DEF SetupPoints
  <1>8. CASE LoadState
    <2>1. pc = "load" /\ Succeeds("authentication_load") /\ pc' = "trace_start"
          /\ journey.schema = 4
      BY <1>8 DEF LoadState, ContinueSetup, Story, Outline, SessionInv, StagedForLoad
    <2>2. /\ Issued("authentication_load")' = Issued("authentication_load") \cup {Len(records')}
          /\ \A c : c # "authentication_load" => Issued(c)' = Issued(c)
          /\ Len(records') = Len(records) + 1
      BY <1>1, <2>1, OneMore DEF Capabilities
    <2>3. /\ Len(records) = 1 /\ Issued("set_viewport") = {1}
          /\ \A c \in StepCapabilities \cup ClosingPoints \cup {"trace_start"} : Issued(c) = {}
      BY <1>1, <2>1 DEF SetupIssued, SetupPoints
    <2>4. Issued("authentication_load") = {}
      <3>1. records[1].capability = "set_viewport"
        BY <2>3 DEF Issued
      <3> QED BY <1>2, <2>3, <3>1 DEF Issued
    <2>5. /\ Issued("set_viewport")' = {1} /\ Issued("authentication_load")' = {2}
          /\ Len(records') = 2
          /\ \A c \in StepCapabilities \cup ClosingPoints \cup {"trace_start"} : Issued(c)' = {}
      BY <2>2, <2>3, <2>4 DEF StepCapabilities, ClosingPoints
    <2>6. pc' \in SetupPoints /\ pc' \notin StepPoints \cup Ended
      BY <2>1 DEF SetupPoints, StepPoints, Ended, ClosingPoints
    <2>7. SetupIssued'
      BY <1>1, <1>2, <2>1, <2>5, <2>6 DEF SetupIssued, Live
    <2> QED BY <1>1, <2>6, <2>7, SetupAccepted
  <1>9. CASE StartTrace
    <2>1. /\ pc = "trace_start" /\ Succeeds("trace_start") /\ StartStep(1, FALSE)
          /\ pc' = "act" /\ UNCHANGED <<steps, authentication>>
      BY <1>9 DEF StartTrace, StartStep, evidence
    <2>2. /\ Issued("trace_start")' = Issued("trace_start") \cup {Len(records')}
          /\ \A c : c # "trace_start" => Issued(c)' = Issued(c)
          /\ Len(records') = Len(records) + 1
      BY <1>1, <2>1, OneMore DEF Capabilities
    <2>3. /\ Len(records) = 1 + Offset /\ Issued("set_viewport") = {1}
          /\ \A c \in StepCapabilities \cup ClosingPoints \cup {"trace_start"} : Issued(c) = {}
          /\ Issued("authentication_load") = IF journey.schema = 4 THEN {2} ELSE {}
      BY <1>1, <2>1 DEF SetupIssued, SetupPoints
    <2>4. /\ Len(records') = 2 + Offset /\ Issued("trace_start")' = {2 + Offset}
          /\ Issued("set_viewport")' = {1}
          /\ Issued("authentication_load")' = IF journey.schema = 4 THEN {2} ELSE {}
          /\ \A c \in StepCapabilities \cup ClosingPoints : Issued(c)' = {}
      <3>1. Len(records') = 2 + Offset
        BY <1>2, <2>2, <2>3
      <3> QED BY <2>2, <2>3, <3>1 DEF StepCapabilities, ClosingPoints
    <2>5. pc' \notin SetupPoints \cup Ended
      BY <2>1 DEF SetupPoints, Ended, ClosingPoints
    <2>6. SetupIssued'
      BY <1>1, <1>2, <2>1, <2>4, <2>5 DEF SetupIssued
    <2>7. ClosingIssued'
      <3>1. ClosingDone' = 0
        BY <2>1 DEF ClosingDone
      <3>2. \A k \in 1 .. 4 : Issued(ClosingOrder[k])' = {} /\ ~(k <= 0)
        <4> TAKE k \in 1 .. 4
        <4>1. ClosingOrder[k] \in ClosingPoints
          BY DEF ClosingOrder, ClosingPoints
        <4> QED BY <2>4, <4>1
      <3> QED BY <3>1, <3>2 DEF ClosingIssued
    <2>8. CommandsCounted'
      <3> SUFFICES ASSUME NEW c \in Counted
                   PROVE  Cardinality(Issued(c)') = Cardinality(Owing(c)') + (IF IssuedNow(c)' THEN 1 ELSE 0)
        BY DEF CommandsCounted
      <3>1. Issued(c)' = {} /\ Owing(c)' = {}
        BY <1>1, <2>1, <2>4 DEF Counted, Owing
      <3>2. ~IssuedNow(c)'
        BY <2>1 DEF IssuedNow, IssuedBy, Past, PastLink, Counted, StepCapabilities
      <3> QED BY <3>1, <3>2, FS_EmptySet
    <2>9. UrlsRead'
      <3>1. Issued("current_url")' = {}
        BY <2>4 DEF StepCapabilities
      <3>2. ~LinkUnderway' /\ Len(steps') = 0
        BY <1>1, <2>1 DEF LinkUnderway
      <3> QED BY <3>1, <3>2, FS_EmptySet DEF UrlsRead
    <2>10. ObservedSoFar' /\ RecordReady'
      <3>1. ValidJourney(journey)
        BY <1>1, <2>1, AdmittedValid
        DEF Story, Outline, Inductive, Admission, SetupPoints
      <3>2. 1 \in DOMAIN journey.steps
        BY <1>1, <3>1, InputsAssumption DEF ValidJourney, TypeOK, ControlOK, Document
      <3> QED BY <1>1, <2>1, <3>1, <3>2, FreshObserved
    <2>11. RecordsAcceptable' /\ VerdictMeant'
      BY <1>1, <2>1, <2>5 DEF RecordsAcceptable, VerdictMeant
    <2>12. SignInTold'
      <3>1. authentication # "verified"
        BY <2>1 DEF Story, StoryInv, Unverified, SetupPoints
      <3> QED BY <1>1, <2>1, <3>1 DEF SignInTold
    <2> QED BY <2>6, <2>7, <2>8, <2>9, <2>10, <2>11, <2>12 DEF AcceptedInv
  <1> QED BY <1>3, <1>4, <1>5, <1>6, <1>7, <1>8, <1>9 DEF SetupStep

\* Each command of the closing is issued once, in order, unless the report becomes an error.
LEMMA ClosingStepAccepted ==
  ASSUME Story, AcceptedInv, ClosingStep
  PROVE  AcceptedInv'
  <1>1. /\ TypeOK /\ pc' \in Ended /\ pc \in Ended
        /\ UNCHANGED <<journey, opts, steps, authentication, cause, execution>>
    BY ClosingOutline, ClosingLeaves DEF Story, Outline, Inductive, Ended, ClosingPoints
  <1>2. outcome' = "error" \/ (UNCHANGED <<outcome, reason>>)
    BY ClosingOutline
  <1>3. journey.schema # 4 => authentication' = "none"
    BY <1>1 DEF AcceptedInv, SignInTold
  <1>4. CASE ~Clean'
    <2>1. outcome' \in {"blocked", "error"}
      <3>1. outcome' \in Outcomes
        BY <1>1, <1>2 DEF TypeOK, VerdictOK, Outcomes
      <3> QED BY <1>4, <3>1 DEF Clean, Outcomes
    <2> QED BY <1>1, <1>3, <2>1, AbandonedAccepted
  <1>5. CASE Clean'
    <2>1. /\ UNCHANGED <<outcome, reason>> /\ Clean /\ Live /\ Live'
          /\ pc \notin StepPoints \cup SetupPoints /\ pc' \notin StepPoints \cup SetupPoints
      BY <1>1, <1>2, <1>5 DEF Clean, Live, Ended, ClosingPoints, StepPoints, SetupPoints
    <2>2. VerdictMeant' /\ SignInTold' /\ RecordsAcceptable'
      BY <1>1, <2>1 DEF AcceptedInv, VerdictMeant, SignInTold, RecordsAcceptable
    <2>3. ObservedSoFar' /\ RecordReady'
      BY <2>1 DEF ObservedSoFar, RecordReady, StepPoints
    <2>4. \/ pc = "write" /\ pc' = "done" /\ records' = records
          \/ /\ pc \in ClosingPoints /\ Succeeds(pc)
             /\ \/ pc = "console" /\ pc' = "page_errors"
                \/ pc = "page_errors" /\ pc' = "trace_stop"
                \/ pc = "trace_stop" /\ pc' = "close"
                \/ pc = "close" /\ pc' = "write"
      <3>1. CASE Console \/ PageErrors \/ StopTrace \/ CloseSession
        BY <3>1 DEF Console, PageErrors, StopTrace, CloseSession, Closing, ClosingPoints
      <3>2. CASE WriteReport
        BY <3>2 DEF WriteReport, Closing
      <3>3. CASE DiagnosticsFail \/ StopTraceFails \/ CloseFails \/ WriteReportFails
        BY <1>5, <3>3 DEF DiagnosticsFail, StopTraceFails, CloseFails, WriteReportFails, Override,
                          Clean
      <3> QED BY <3>1, <3>2, <3>3 DEF ClosingStep
    <2>5. /\ SetupIssued /\ ClosingIssued /\ CommandsCounted /\ UrlsRead
          /\ Offset' = Offset /\ Len(records) \in Nat
      BY <1>1, CountsFinite DEF AcceptedInv, Offset
    <2>6. \A c : Owing(c)' = Owing(c) /\ ~IssuedNow(c)' /\ ~IssuedNow(c)
      BY <1>1, <2>1 DEF Owing, IssuedNow
    <2>7. ~LinkUnderway /\ ~LinkUnderway' /\ Len(steps') = Len(steps)
      BY <1>1, <2>1 DEF LinkUnderway
    <2>8. CASE pc = "write" /\ pc' = "done" /\ records' = records
      <3>1. \A c : Issued(c)' = Issued(c)
        BY <2>8 DEF Issued
      <3>2. SetupIssued'
        BY <1>1, <2>1, <2>5, <2>8, <3>1 DEF SetupIssued, SetupPoints
      <3>3. CommandsCounted' /\ UrlsRead'
        BY <2>1, <2>5, <2>6, <2>7, <3>1 DEF CommandsCounted, UrlsRead
      <3>4. ClosingDone' = 4 /\ ClosingDone = 4
        BY <2>8 DEF ClosingDone
      <3>5. ClosingIssued'
        BY <2>1, <2>5, <2>8, <3>1, <3>4 DEF ClosingIssued
      <3> QED BY <2>2, <2>3, <3>2, <3>3, <3>5 DEF AcceptedInv
    <2>9. ASSUME NEW point \in ClosingPoints, pc = point, Succeeds(point),
                 \/ pc = "console" /\ pc' = "page_errors"
                 \/ pc = "page_errors" /\ pc' = "trace_stop"
                 \/ pc = "trace_stop" /\ pc' = "close"
                 \/ pc = "close" /\ pc' = "write"
          PROVE  AcceptedInv'
      <3>1. /\ Issued(point)' = Issued(point) \cup {Len(records')}
            /\ \A c : c # point => Issued(c)' = Issued(c)
            /\ Len(records') = Len(records) + 1
        BY <1>1, <2>9, OneMore DEF Capabilities, ClosingPoints
      <3>2. point \notin StepCapabilities \cup {"set_viewport", "authentication_load", "trace_start"}
        BY <2>9 DEF ClosingPoints, StepCapabilities
      <3>3. SetupIssued'
        <4>1. Issued("set_viewport")' = {1} /\ Issued("trace_start")' = {2 + Offset}
              /\ Issued("authentication_load")' = (IF journey.schema = 4 THEN {2} ELSE {})
              /\ Len(records') >= 2 + Offset
          <5>1. Offset \in Nat
            BY DEF Offset
          <5> QED BY <2>1, <2>5, <3>1, <3>2, <5>1 DEF SetupIssued
        <4> QED BY <1>1, <2>1, <2>5, <4>1 DEF SetupIssued, SetupPoints
      <3>4. CommandsCounted'
        <4> SUFFICES ASSUME NEW c \in Counted
                     PROVE  Cardinality(Issued(c)') = Cardinality(Owing(c)') + (IF IssuedNow(c)' THEN 1 ELSE 0)
          BY DEF CommandsCounted
        <4>1. Issued(c)' = Issued(c)
          BY <3>1, <3>2 DEF Counted
        <4> QED BY <2>1, <2>5, <2>6, <4>1 DEF CommandsCounted
      <3>5. UrlsRead'
        <4>1. Issued("current_url")' = Issued("current_url")
          BY <3>1, <3>2 DEF StepCapabilities
        <4> QED BY <2>1, <2>5, <2>7, <4>1 DEF UrlsRead
      <3>6. /\ ClosingDone \in 0 .. 3 /\ ClosingDone' = ClosingDone + 1
            /\ point = ClosingOrder[ClosingDone + 1]
        BY <2>9 DEF ClosingDone, ClosingOrder
      <3>7. ClosingIssued'
        <4> SUFFICES ASSUME NEW k \in 1 .. 4
                     PROVE  Issued(ClosingOrder[k])' =
                              IF k <= ClosingDone' THEN {Len(records') - ClosingDone' + k} ELSE {}
          BY DEF ClosingIssued
        <4>1. Issued(ClosingOrder[k]) =
                IF k <= ClosingDone THEN {Len(records) - ClosingDone + k} ELSE {}
          BY <2>1, <2>5 DEF ClosingIssued
        <4>2. CASE k = ClosingDone + 1
          BY <2>5, <3>1, <3>6, <4>1, <4>2
        <4>3. CASE k # ClosingDone + 1
          <5>1. ClosingOrder[k] # point
            BY <3>6, <4>3 DEF ClosingOrder
          <5>2. Issued(ClosingOrder[k])' = Issued(ClosingOrder[k])
            BY <3>1, <5>1
          <5>3. (k <= ClosingDone') <=> (k <= ClosingDone)
            BY <3>6, <4>3
          <5>4. Len(records') - ClosingDone' + k = Len(records) - ClosingDone + k
            BY <2>5, <3>1, <3>6
          <5> QED BY <4>1, <5>2, <5>3, <5>4
        <4> QED BY <4>2, <4>3
      <3> QED BY <2>2, <2>3, <3>3, <3>4, <3>5, <3>7 DEF AcceptedInv
    <2> QED BY <2>4, <2>8, <2>9
  <1> QED BY <1>4, <1>5

\* The deadline changes none of it.
LEMMA OtherStepAccepted ==
  ASSUME AcceptedInv, DeadlinePasses \/ UNCHANGED vars
  PROVE  AcceptedInv'
  <1>1. UNCHANGED <<journey, opts, pc, index, result, hasNavigated, observation, records, outcome,
                    execution, reason, cause, authentication, steps>>
    BY DEF DeadlinePasses, vars, inputs, verdict, evidence, stepVars
  <1>2. /\ Current' = Current /\ Live' = Live /\ Offset' = Offset /\ ClosingDone' = ClosingDone
        /\ \A c : Issued(c)' = Issued(c) /\ Owing(c)' = Owing(c)
        /\ Clean' = Clean
    BY <1>1 DEF Current, Live, Offset, ClosingDone, Issued, Owing, Clean
  <1>3. \A c : IssuedNow(c)' = IssuedNow(c)
    BY <1>1, <1>2 DEF IssuedNow
  <1>4. SetupIssued' /\ ClosingIssued' /\ CommandsCounted'
    BY <1>1, <1>2, <1>3 DEF AcceptedInv, SetupIssued, ClosingIssued, CommandsCounted
  <1>5. UrlsRead' /\ ObservedSoFar' /\ RecordReady'
    BY <1>1, <1>2, <1>3 DEF AcceptedInv, UrlsRead, LinkUnderway, ObservedSoFar, RecordReady
  <1>6. RecordsAcceptable' /\ VerdictMeant' /\ SignInTold'
    BY <1>1, <1>2 DEF AcceptedInv, RecordsAcceptable, VerdictMeant, SignInTold
  <1> QED BY <1>4, <1>5, <1>6 DEF AcceptedInv

\* Nothing is asked of a run that has not begun.
LEMMA InitAccepted == Init => AcceptedInv
  <1> SUFFICES ASSUME Init
               PROVE  AcceptedInv
    OBVIOUS
  <1>1. pc \notin SetupPoints \cup StepPoints \cup Ended /\ ~Live /\ pc = "preflight"
        /\ authentication = "none"
    BY DEF Init, SetupPoints, StepPoints, Ended, ClosingPoints, Live
  <1> QED BY <1>1 DEF AcceptedInv, SetupIssued, ClosingIssued, CommandsCounted, UrlsRead,
                      ObservedSoFar, RecordReady, RecordsAcceptable, VerdictMeant, SignInTold,
                      StepPoints

\* A step of a run keeps all of it.
LEMMA AcceptedStep == Story /\ AcceptedInv /\ [Next]_vars => AcceptedInv'
  <1> SUFFICES ASSUME Story, AcceptedInv, [Next]_vars
               PROVE  AcceptedInv'
    OBVIOUS
  <1>1. CASE JourneyStep
    BY <1>1, JourneyStepAccepted
  <1> QED BY <1>1, SetupStepAccepted, ClosingStepAccepted, OtherStepAccepted DEF Next, RunStep

\* Between any two commands the report so far is one a renderer would accept.
THEOREM ReportInvariant == Spec => [](Story /\ EarnedInv /\ AcceptedInv)
  BY EarnedInvariant, InitAccepted, AcceptedStep, PTL DEF Spec
-----------------------------------------------------------------------------
(* Where a step that passed or failed ended *)

\* A command that succeeded is the last of the records.
LEMMA SucceededLast ==
  ASSUME TypeOK, NEW capability \in Capabilities, Succeeds(capability)
  PROVE  records' # records /\ Appended = capability
  <1>1. records \in Seq(CommandRecord) /\ Len(records) \in Nat
    BY DEF TypeOK, SessionOK
  <1>2. [capability |-> capability, ok |-> TRUE] \in CommandRecord
    BY DEF CommandRecord
  <1>3. records' = Append(records, [capability |-> capability, ok |-> TRUE])
    BY DEF Succeeds, Record
  <1>4. records' # records
    <2>1. Len(records') = Len(records) + 1
      BY <1>1, <1>2, <1>3
    <2> QED BY <1>1, <2>1
  <1>5. Recorded(capability)
    BY CommandRecorded
  <1> QED BY <1>4, <1>5, IssuedGrows

\* The step that is recorded is the one that has just returned.
LEMMA ResultRecorded ==
  ASSUME TypeOK, StepsInOrder, pc \in StepPoints, NEW obs, NEW res, StepResult(obs, res)
  PROVE  /\ LastStep.obs = obs
         /\ LastStep.status \in {res, "blocked"}
         /\ LastStep.status \in {"passed", "failed"} => LastStep.status = res
  <1> DEFINE status == IF res = "failed" /\ Verifying THEN "blocked" ELSE res
  <1>1. \E p, c, stop : EndStep(obs, status, p, c, stop)
    BY DEF StepResult
  <1>2. status \in {res, "blocked"} /\ (status \in {"passed", "failed"} => status = res)
    OBVIOUS
  <1> HIDE DEF status
  <1>3. LastStep = [status |-> status, obs |-> obs]
    BY <1>1, EndStepRecords DEF LastStep
  <1> QED BY <1>2, <1>3

\* A step that returns an error neither passes nor fails.
LEMMA ErrorRecorded ==
  ASSUME TypeOK, StepsInOrder, pc \in StepPoints,
         NEW obs, NEW p \in {"blocked", "error"}, NEW c, StepError(obs, p, c)
  PROVE  LastStep.status \notin {"passed", "failed"}
  <1>1. EndStep(obs, p, p, c, TRUE)
    BY DEF StepError
  <1>2. LastStep = [status |-> p, obs |-> obs]
    BY <1>1, EndStepRecords DEF LastStep
  <1> QED BY <1>2

\* The step has returned: it has passed or failed, and its last command is Appended.
StepCompleted == steps' # steps /\ LastStep.status \in {"passed", "failed"}

\* The look at the page that its last command was.
EndedInside ==
  /\ records' # records
  /\ LastStep.obs.observed \in Exact
  /\ \/ Appended = "current_url"
     \/ /\ LastStep.status = "failed" /\ LastStep.obs.action = "not_attempted"
        /\ LastStep.obs.before \in Exact
        /\ Appended \in PageInspections \cup {"screenshot"}

\* Only a step whose last URL was read, or whose link was ruled out, passes or fails.
LEMMA WhatCompletes ==
  ASSUME TypeOK, StepsInOrder, JourneyStep, StepCompleted
  PROVE  TrailingInside \/ HiddenInside \/ LinkVisible \/ LinkEnabled \/ LinkHref \/ LinkRefused
  <1>1. pc \in StepPoints
    BY StepCommand
  <1>2. ASSUME NEW next, NEW obs, Advance(next, obs)
        PROVE  FALSE
    BY <1>2 DEF Advance, StepCompleted
  <1>3. ASSUME NEW obs, NEW p \in {"blocked", "error"}, NEW c, StepError(obs, p, c)
        PROVE  FALSE
    BY <1>1, <1>3, ErrorRecorded DEF StepCompleted
  <1>4. ASSUME NEW obs, StepResult(obs, "blocked")
        PROVE  FALSE
    BY <1>1, <1>4, ResultRecorded DEF StepCompleted
  <1>5. ~EntryInside /\ ~Navigate /\ ~LookForTarget /\ ~BoundingBox /\ ~LinkPreflight /\ ~LinkReady
    BY <1>2 DEF EntryInside, Navigate, LookForTarget, BoundingBox, LinkPreflight, LinkReady
  <1>6. ~Arrive /\ ~CheckUrl /\ ~CheckText /\ ~CaptureEvidence /\ ~Landed
    <2>1. ASSUME NEW obs, NEW res, Settle(obs, res)
          PROVE  FALSE
      BY <1>2, <2>1 DEF Settle
    <2> QED BY <2>1 DEF Arrive, CheckUrl, CheckText, CaptureEvidence, Landed
  <1>7. ~UrlOutside /\ ~NavigationBlocked
    BY <1>4 DEF UrlOutside, NavigationBlocked
  <1>8. /\ ~StrayInspection /\ ~StepCommandFails /\ ~EvidenceFails /\ ~ClickNeedsConfirmation
        /\ ~ClickFails /\ ~LandingUnknown
    BY <1>3 DEF StrayInspection, StepCommandFails, EvidenceFails, ClickNeedsConfirmation, ClickFails,
                LandingUnknown
  <1>9. ~Click
    BY <1>2, <1>3 DEF Click
  <1> QED BY <1>5, <1>6, <1>7, <1>8, <1>9 DEF JourneyStep

\* A step that passes or fails has looked at the page last, whichever way it returned.
LEMMA CompletesInside ==
  ASSUME Story, AcceptedInv, JourneyStep, StepCompleted
  PROVE  EndedInside
  <1>1. /\ TypeOK /\ StepsInOrder /\ pc \in StepPoints /\ observation \in Observation
        /\ ObservedAt(pc, Current, observation) /\ CurrentInv
    BY AtPoint DEF Story, Outline, Inductive
  <1>2. CASE TrailingInside \/ HiddenInside
    <2>1. /\ pc \in {"trailing", "hidden"}
          /\ \E url \in Pages : ReadsInside(url)
               /\ \E res : StepResult(Seen(observation, url), res)
      BY <1>2 DEF TrailingInside, HiddenInside
    <2>2. PICK url \in Pages : ReadsInside(url) /\ \E res : StepResult(Seen(observation, url), res)
      BY <2>1
    <2>3. records' # records /\ Appended = "current_url"
      BY <1>1, <2>2, SucceededLast DEF ReadsInside, Capabilities, StepCapabilities
    <2>4. Seen(observation, url).observed \in Exact
      BY <1>1, <2>1, <2>2, SeenFields, InsideIsExact DEF ReadsInside
    <2>5. LastStep.obs = Seen(observation, url)
      BY <1>1, <2>2, ResultRecorded
    <2> QED BY <2>3, <2>4, <2>5 DEF EndedInside
  <1>3. CASE LinkVisible \/ LinkEnabled \/ LinkHref
    <2>1. /\ pc \in {"link_visible", "link_enabled", "link_href"}
          /\ \E capability \in {"is_visible", "is_enabled", "get_attribute"} : Succeeds(capability)
      BY <1>3 DEF LinkVisible, LinkEnabled, LinkHref, AnsweredInside
    <2>2. records' # records /\ Appended \in PageInspections
      BY <1>1, <2>1, SucceededLast DEF PageInspections, Capabilities, StepCapabilities
    <2>3. /\ observation.observed \in Exact /\ observation.before \in Exact
          /\ observation.action = "not_attempted"
      BY <1>1, <2>1, LinkKnown DEF ObservedAt
    <2>4. \E obs : /\ StepResult(obs, "failed")
                   /\ obs.observed = observation.observed /\ obs.before = observation.before
                   /\ obs.action = observation.action
      <3>1. ASSUME NEW next, NEW obs, Advance(next, obs)
            PROVE  FALSE
        BY <3>1 DEF Advance, StepCompleted
      <3>2. \E obs \in {Unmatched([observation EXCEPT !.visible = "no"]),
                        Unmatched([observation EXCEPT !.enabled = "no"]), Unmatched(observation)} :
              StepResult(obs, "failed")
        BY <1>3, <3>1 DEF LinkVisible, LinkEnabled, LinkHref
      <3>3. \A obs \in {Unmatched([observation EXCEPT !.visible = "no"]),
                        Unmatched([observation EXCEPT !.enabled = "no"]), Unmatched(observation)} :
              /\ obs.observed = observation.observed /\ obs.before = observation.before
              /\ obs.action = observation.action
        BY <1>1 DEF Unmatched, Observation
      <3> QED BY <3>2, <3>3
    <2>5. /\ LastStep.status = "failed" /\ LastStep.obs.observed \in Exact
          /\ LastStep.obs.before \in Exact /\ LastStep.obs.action = "not_attempted"
      BY <1>1, <2>3, <2>4, ResultRecorded DEF StepCompleted
    <2> QED BY <2>2, <2>5 DEF EndedInside
  <1>4. CASE LinkRefused
    <2> DEFINE seen == Captured(observation, Taken, 0, 3)
    <2>1. /\ pc = "shot" /\ Current.kind = "follow_link" /\ Succeeds("screenshot")
          /\ StepResult(seen, "blocked") \/ StepResult(Unmatched(seen), "failed")
      BY <1>4 DEF LinkRefused
    <2>2. records' # records /\ Appended = "screenshot"
      BY <1>1, <2>1, SucceededLast DEF Capabilities, StepCapabilities
    <2>3. /\ observation.observed \in Exact /\ observation.before \in Exact
          /\ observation.action = "not_attempted"
      BY <1>1, <2>1 DEF ObservedAt, CurrentInv, PageKnown, OnLink
    <2>4. /\ seen.observed = observation.observed /\ seen.before = observation.before
          /\ seen.action = observation.action
      BY <1>1, CapturedFields
    <2>5. seen \in Observation
      <3>1. Taken \in Capture
        BY <1>1, RecordsLength, StepState DEF Taken, Capture
      <3> QED BY <1>1, <3>1, CapturedType
    <2> HIDE DEF seen
    <2>6. /\ Unmatched(seen).observed = seen.observed /\ Unmatched(seen).before = seen.before
          /\ Unmatched(seen).action = seen.action
      BY <2>5 DEF Unmatched, Observation
    <2>7. LastStep.status = "failed" /\ LastStep.obs = Unmatched(seen)
      <3>1. ~StepResult(seen, "blocked")
        BY <1>1, ResultRecorded DEF StepCompleted
      <3> QED BY <1>1, <2>1, <3>1, ResultRecorded DEF StepCompleted
    <2> QED BY <2>2, <2>3, <2>4, <2>6, <2>7 DEF EndedInside
  <1> QED BY <1>1, <1>2, <1>3, <1>4, WhatCompletes

\* In every run a step that passes or fails ends with a look at the page that finds it inside
\* the authorized origin; only a link that is not followed ends at the answer, or the picture,
\* that ruled it out.
THEOREM StepsCompleteInside == Spec => CompletedInside
  <1> DEFINE Inside == StepCompleted => EndedInside
  <1>1. ASSUME Story, AcceptedInv, [Next]_vars
        PROVE  [Inside]_vars
    <2>1. CASE JourneyStep
      BY <1>1, <2>1, CompletesInside
    <2>2. CASE SetupStep
      <3>1. steps' = steps
        BY <2>2 DEF SetupStep, RunDirectoryUnavailable, Refuse, DriverUnavailable, Launch, Prepare,
                    SetupCommandFails, StageState, StageFails, LoadState, LoadOrRemovalFails,
                    StartTrace, EndEarly, ContinueSetup, AbandonSetup, evidence
      <3> QED BY <3>1 DEF StepCompleted
    <2>3. CASE ClosingStep
      BY <2>3, ClosingOutline DEF StepCompleted
    <2>4. CASE DeadlinePasses \/ UNCHANGED vars
      BY <2>4 DEF DeadlinePasses, vars, evidence, StepCompleted
    <2> QED BY <1>1, <2>1, <2>2, <2>3, <2>4 DEF Next, RunStep
  <1>2. [][Inside]_vars <=> CompletedInside
    BY DEF CompletedInside, StepCompleted, EndedInside
  <1>3. Spec => [][Next]_vars
    BY PTL DEF Spec
  <1> QED BY <1>1, <1>2, <1>3, ReportInvariant, PTL
-----------------------------------------------------------------------------
(* The report of a run that passed or failed, check by check *)

\* The run is over, has passed or failed, and its journey can be rendered.
Finished ==
  /\ pc = "done" /\ Clean /\ RenderableJourney(journey)
  /\ Story /\ EarnedInv /\ AcceptedInv

\* What is known of such a run.
LEMMA FinishedFacts ==
  ASSUME Finished
  PROVE  /\ TypeOK /\ Admitted(journey, opts) /\ ValidJourney(journey)
         /\ outcome = execution /\ outcome \in {"passed", "failed"}
         /\ reason = cause
         /\ cause = IF outcome = "passed" THEN "journey_passed" ELSE "checkpoint_failed"
         /\ cleanup = "passed" /\ diagnostics /\ TraceArtifact \in artifacts /\ AllOk /\ Live
         /\ steps # <<>> /\ DOMAIN steps = 1 .. Len(steps) /\ Len(steps) \in Nat
         /\ DOMAIN journey.steps = 1 .. Len(journey.steps) /\ Len(journey.steps) \in Nat
         /\ \A i \in DOMAIN steps : i \in DOMAIN journey.steps /\ steps[i] \in StepRecord
  <1>1. TypeOK /\ pc \in Ended /\ Clean /\ RecordsTold
    BY DEF Finished, Story, Outline, Inductive, StoryInv, Ended
  <1>2. Admitted(journey, opts) /\ reason = cause /\ steps # <<>>
        /\ cause = IF execution = "passed" THEN "journey_passed" ELSE "checkpoint_failed"
    BY <1>1 DEF Finished, AcceptedInv, VerdictMeant
  <1>3. ValidJourney(journey)
    BY <1>1, <1>2, AdmittedValid
  <1>4. outcome = execution /\ outcome \in {"passed", "failed"} /\ AllOk
    BY <1>1 DEF Finished, EarnedInv, OutcomeKept, CommandsOk, Clean
  <1>5. cleanup = "passed" /\ diagnostics /\ TraceArtifact \in artifacts
    BY <1>1 DEF Finished, EarnedInv, ClosedInOrder
  <1>6. steps \in Seq(StepRecord) /\ journey \in Document
    BY <1>1, InputsAssumption DEF TypeOK, ControlOK, ReportOK
  <1>7. journey.steps \in Seq(Step)
    BY <1>6 DEF Document
  <1>8. /\ DOMAIN steps = 1 .. Len(steps) /\ Len(steps) \in Nat
        /\ \A i \in DOMAIN steps : steps[i] \in StepRecord
        /\ DOMAIN journey.steps = 1 .. Len(journey.steps) /\ Len(journey.steps) \in Nat
    BY <1>6, <1>7
  <1> QED BY <1>1, <1>2, <1>3, <1>4, <1>5, <1>8 DEF RecordsTold, Live

\* A run that failed has a step that failed, and it is no navigation.
LEMMA SomeStepFailed ==
  ASSUME Finished, outcome = "failed"
  PROVE  \E i \in DOMAIN steps : steps[i].status = "failed" /\ journey.steps[i].kind # "navigate"
  <1>1. /\ VerdictExplained /\ RecordsTold
        /\ steps # <<>> /\ execution = "failed" /\ DOMAIN steps = 1 .. Len(steps) /\ Len(steps) \in Nat
    BY FinishedFacts DEF Finished, Story, Outline, VerdictInv, StoryInv
  <1>2. Len(steps) \in DOMAIN steps
    BY <1>1, FinishedFacts DEF TypeOK, ReportOK
  <1>3. "failed" \in {steps[i].status : i \in 1 .. Len(steps) - 1} \cup {steps[Len(steps)].status}
    BY <1>1 DEF VerdictExplained, Finished
  <1>4. PICK i \in DOMAIN steps : steps[i].status = "failed"
    BY <1>1, <1>2, <1>3
  <1>5. journey.steps[i].kind # "navigate"
    BY <1>1, <1>4 DEF RecordsTold, RecordTold
  <1> QED BY <1>4, <1>5

\* A run with a sign-in has verified it, in the step that does.
LEMMA SignInVerified ==
  ASSUME Finished, journey.schema = 4
  PROVE  /\ authentication = "verified"
         /\ journey.auth.verify \in DOMAIN steps /\ steps[journey.auth.verify].status = "passed"
  <1>1. /\ authentication = "verified" <=> journey.auth.verify \in DOMAIN steps
        /\ journey.auth.verify \in DOMAIN steps => steps[journey.auth.verify].status = "passed"
    BY FinishedFacts DEF Finished, AcceptedInv, SignInTold
  <1>2. CASE outcome = "passed"
    BY <1>1, <1>2, FinishedFacts DEF Finished, EarnedInv, AllPassed, Ended
  <1>3. CASE outcome = "failed"
    <2>1. PICK i \in DOMAIN steps :
            steps[i].status = "failed" /\ journey.steps[i].kind # "navigate"
      BY <1>3, SomeStepFailed
    <2>2. /\ journey.auth.verify \in DOMAIN journey.steps
          /\ \A k \in 1 .. journey.auth.verify - 1 :
               journey.steps[k].kind \notin Checkpoints \cup Evidential
      BY FinishedFacts DEF ValidJourney, ValidAuthenticationSteps, IndexesOf
    <2>3. journey.steps[i].kind \in Checkpoints \cup Evidential
      <3>1. journey.steps[i] \in Step
        BY FinishedFacts, InputsAssumption DEF TypeOK, ControlOK, Document
      <3> QED BY <2>1, <3>1 DEF Step, StepKinds, Checkpoints, Evidential
    <2>4. i \notin 1 .. journey.auth.verify - 1
      BY <2>2, <2>3
    <2>5. journey.auth.verify \in DOMAIN steps
      BY <2>2, <2>4, FinishedFacts
    <2> QED BY <1>1, <2>5
  <1> QED BY <1>2, <1>3, FinishedFacts

\* What the report says of its outcome, of its authorization and of its sign-in is accepted.
LEMMA HeadAccepted ==
  ASSUME Finished
  PROVE  /\ ValidOutcomes(OnDisk) /\ SameSource(OnDisk, journey)
         /\ ValidAuthorization(OnDisk, journey) /\ ValidAuthenticationReport(OnDisk, journey)
  <1>1. ValidOutcomes(OnDisk) /\ SameSource(OnDisk, journey)
    BY FinishedFacts DEF OnDisk, ValidOutcomes, SameSource
  <1>2. ValidAuthorization(OnDisk, journey)
    BY FinishedFacts, AdmittedGrants DEF OnDisk, ValidAuthorization, Granted, Links
  <1>3. ASSUME journey.schema # 4
        PROVE  ValidAuthenticationReport(OnDisk, journey)
    BY <1>3 DEF Finished, AcceptedInv, SignInTold, OnDisk, ValidAuthenticationReport
  <1>4. ASSUME journey.schema = 4
        PROVE  ValidAuthenticationReport(OnDisk, journey)
    <2>1. ReasonStatus(reason) = "none"
      BY FinishedFacts DEF ReasonStatus
    <2>2. {k \in DOMAIN records : records[k].capability = "authentication_load"} = {2}
      BY <1>4, FinishedFacts DEF Finished, AcceptedInv, SetupIssued, Issued
    <2>3. records[2].ok
      BY <2>2, FinishedFacts DEF AllOk
    <2>4. ValidLoad(OnDisk, TRUE)
      BY <1>4, <2>2, <2>3, SignInVerified DEF OnDisk, ValidLoad
    <2> QED BY <1>4, <2>1, <2>4, SignInVerified DEF OnDisk, ValidAuthenticationReport
  <1> QED BY <1>1, <1>2, <1>3, <1>4

\* What the report says of its steps is accepted.
LEMMA BodyAccepted ==
  ASSUME Finished
  PROVE  CompleteSteps(OnDisk, journey) /\ ValidSteps(OnDisk, journey)
  <1>1. CompleteSteps(OnDisk, journey)
    BY FinishedFacts DEF OnDisk, CompleteSteps, Completed, Finished, AcceptedInv, VerdictMeant, Ended
  <1>2. Len(steps) <= Len(journey.steps)
    BY FinishedFacts DEF Finished, AcceptedInv, VerdictMeant, Ended
  <1>3. ASSUME NEW i \in DOMAIN steps
        PROVE  ValidObservation(steps[i], journey.steps[i])
    <2>1. Acceptable(steps[i].status, steps[i].obs, journey.steps[i])
      BY FinishedFacts DEF Finished, AcceptedInv, RecordsAcceptable
    <2>2. steps[i] = [status |-> steps[i].status, obs |-> steps[i].obs]
      BY FinishedFacts DEF StepRecord
    <2> QED BY <2>1, <2>2 DEF Acceptable
  <1>4. outcome = "passed" => \A i \in DOMAIN steps : steps[i].status = "passed"
    BY FinishedFacts DEF Finished, EarnedInv, AllPassed, Ended
  <1>5. execution = "failed" =>
          (\E i \in DOMAIN steps : steps[i].status = "failed") /\ cause = "checkpoint_failed"
    BY FinishedFacts, SomeStepFailed
  <1>6. ValidSteps(OnDisk, journey)
    BY <1>2, <1>3, <1>4, <1>5 DEF OnDisk, ValidSteps
  <1> QED BY <1>1, <1>6

\* The command at the only position of its kind, and the count of its kind.
LEMMA OnlyOne ==
  ASSUME NEW c, NEW k, Issued(c) = {k}
  PROVE  k \in DOMAIN records /\ records[k].capability = c /\ Count(OnDisk, c) = 1
  BY FS_Singleton DEF Issued, Count, OnDisk

\* The setup comes first in the report and the closing last, each command once.
LEMMA LifecycleAccepted ==
  ASSUME Finished
  PROVE  LET n == Len(records) IN
         /\ n \in Nat /\ DOMAIN records = 1 .. n /\ n >= 6 + Offset
         /\ records[1].capability = "set_viewport"
         /\ journey.schema = 4 => records[2].capability = "authentication_load"
         /\ records[2 + Offset].capability = "trace_start"
         /\ records[n - 3].capability = "console" /\ records[n - 2].capability = "page_errors"
         /\ records[n - 1].capability = "trace_stop" /\ records[n].capability = "close"
         /\ \A c \in {"set_viewport", "trace_start", "console", "page_errors", "trace_stop", "close"} :
              Count(OnDisk, c) = 1
         /\ Count(OnDisk, "authentication_load") = Offset
  <1> DEFINE n == Len(records)
  <1>1. n \in Nat /\ DOMAIN records = 1 .. n
    BY FinishedFacts, CountsFinite
  <1>2. /\ Issued("set_viewport") = {1} /\ Issued("trace_start") = {2 + Offset}
        /\ Issued("authentication_load") = IF journey.schema = 4 THEN {2} ELSE {}
    BY FinishedFacts DEF Finished, AcceptedInv, SetupIssued, SetupPoints
  <1>3. /\ Issued("console") = {n - 3} /\ Issued("page_errors") = {n - 2}
        /\ Issued("trace_stop") = {n - 1} /\ Issued("close") = {n}
    <2>1. ClosingDone = 4
      BY DEF Finished, ClosingDone
    <2>2. \A k \in 1 .. 4 : Issued(ClosingOrder[k]) = {n - 4 + k}
      BY <2>1, FinishedFacts DEF Finished, AcceptedInv, ClosingIssued
    <2> QED BY <1>1, <2>2 DEF ClosingOrder
  <1>4. /\ records[1].capability = "set_viewport"
        /\ records[2 + Offset].capability = "trace_start" /\ 2 + Offset \in 1 .. n
        /\ records[n - 3].capability = "console" /\ records[n - 2].capability = "page_errors"
        /\ records[n - 1].capability = "trace_stop" /\ records[n].capability = "close"
        /\ n - 3 \in 1 .. n
    <2>1. 1 \in DOMAIN records /\ records[1].capability = "set_viewport"
      BY <1>2, OnlyOne
    <2>2. 2 + Offset \in DOMAIN records /\ records[2 + Offset].capability = "trace_start"
      BY <1>2, OnlyOne
    <2>3. n - 3 \in DOMAIN records /\ records[n - 3].capability = "console"
      BY <1>3, OnlyOne
    <2>4. records[n - 2].capability = "page_errors"
      BY <1>3, OnlyOne
    <2>5. records[n - 1].capability = "trace_stop"
      BY <1>3, OnlyOne
    <2>6. records[n].capability = "close"
      BY <1>3, OnlyOne
    <2> QED BY <1>1, <2>1, <2>2, <2>3, <2>4, <2>5, <2>6
  <1>5. n >= 6 + Offset
    <2>1. Offset \in Nat
      BY DEF Offset
    <2>2. 2 + Offset # n - 3 /\ 2 + Offset # n - 2 /\ 2 + Offset # n - 1 /\ 2 + Offset # n
      BY <1>4
    <2>3. 2 + Offset <= n
      BY <1>1, <1>4, <2>1
    <2> HIDE DEF n
    <2> QED BY <1>1, <2>1, <2>2, <2>3
  <1>6. \A c \in {"set_viewport", "trace_start", "console", "page_errors", "trace_stop", "close"} :
          Count(OnDisk, c) = 1
    BY <1>2, <1>3, OnlyOne
  <1>7. CASE journey.schema = 4
    BY <1>1, <1>2, <1>4, <1>5, <1>6, <1>7, OnlyOne DEF Offset
  <1>8. CASE journey.schema # 4
    <2>1. Count(OnDisk, "authentication_load") = 0
      BY <1>2, <1>8, FS_EmptySet DEF Count, OnDisk, Issued
    <2> QED BY <1>1, <1>4, <1>5, <1>6, <1>8, <2>1 DEF Offset
  <1> QED BY <1>7, <1>8

\* There is one command in the report for each thing its steps have observed.
LEMMA CountsAccepted ==
  ASSUME Finished
  PROVE  /\ \A c \in Counted :
              Count(OnDisk, c) = Cardinality({i \in DOMAIN steps :
                                                Owes(c, journey.steps[i].kind, steps[i].obs)})
         /\ Count(OnDisk, "current_url") >= Len(steps)
  <1>1. \A c : Count(OnDisk, c) = Cardinality(Issued(c))
    BY DEF Count, OnDisk, Issued
  <1>2. \A c : ~IssuedNow(c)
    BY DEF Finished, IssuedNow, StepPoints
  <1>3. ASSUME NEW c \in Counted
        PROVE  Count(OnDisk, c) = Cardinality(Owing(c))
    BY <1>1, <1>2, FinishedFacts, CountsFinite DEF Finished, AcceptedInv, CommandsCounted
  <1>4. Count(OnDisk, "current_url") >= Len(steps)
    BY <1>1, FinishedFacts DEF Finished, AcceptedInv, UrlsRead, LinkUnderway, StepPoints
  <1> QED BY <1>3, <1>4 DEF Owing

\* What a step says of its picture and of its click is where it says.
LEMMA ShotsAccepted ==
  ASSUME Finished, NEW i \in DOMAIN steps, steps[i].obs.box # 0
  PROVE  LET obs == steps[i].obs IN
         /\ obs.box \in Issued("bounding_box") /\ obs.shot \in Issued("screenshot")
         /\ obs.click # 0 => obs.click \in Issued("click") /\ obs.click = obs.shot + 1
         /\ obs.artifact = "focused"
  <1> DEFINE obs == steps[i].obs
  <1>1. Shots(obs) /\ obs.artifact = "focused"
    BY FinishedFacts DEF Finished, AcceptedInv, RecordsAcceptable, Acceptable
  <1>2. EvidenceTold(i, obs)
    BY DEF Finished, Story, StoryInv, RecordsTold, RecordTold, Truthful
  <1>3. obs.box \in Nat /\ obs.shot # 0
    BY <1>1, FinishedFacts DEF StepRecord, Observation, Shots
  <1> QED BY <1>1, <1>2, <1>3 DEF EvidenceTold

\* What the report says of its commands is accepted.
LEMMA DriverAccepted ==
  ASSUME Finished
  PROVE  ValidCompletedDriver(OnDisk, journey)
  <1>1. DOMAIN records = 1 .. Len(records) /\ \A k \in 1 .. Len(records) : records[k].ok
    BY FinishedFacts, LifecycleAccepted DEF AllOk
  <1>2. /\ Count(OnDisk, "navigate") =
             Cardinality({i \in DOMAIN steps : journey.steps[i].kind = "navigate"})
        /\ Count(OnDisk, "is_visible") =
             Cardinality({i \in DOMAIN steps : steps[i].obs.visible # "none"})
        /\ Count(OnDisk, "is_enabled") =
             Cardinality({i \in DOMAIN steps : steps[i].obs.enabled # "none"})
        /\ Count(OnDisk, "get_attribute") =
             Cardinality({i \in DOMAIN steps : journey.steps[i].kind = "follow_link"
                                                 /\ steps[i].obs.enabled = "yes"})
        /\ Count(OnDisk, "text") =
             Cardinality({i \in DOMAIN steps : journey.steps[i].kind = "check_text"
                                                 /\ steps[i].obs.visible = "yes"})
        /\ Count(OnDisk, "click") = Cardinality({i \in DOMAIN steps : steps[i].obs.click # 0})
        /\ Count(OnDisk, "bounding_box") = Cardinality({i \in DOMAIN steps : steps[i].obs.box # 0})
        /\ Count(OnDisk, "screenshot") = Cardinality({i \in DOMAIN steps : steps[i].obs.box # 0})
    <2>1. \A c \in {"navigate", "is_visible", "is_enabled", "get_attribute", "text", "click",
                    "bounding_box", "screenshot"} : c \in Counted
      BY DEF Counted, StepCapabilities
    <2> DEFINE Owed(c) == {i \in DOMAIN steps : Owes(c, journey.steps[i].kind, steps[i].obs)}
    <2>2. /\ Owed("navigate") = {i \in DOMAIN steps : journey.steps[i].kind = "navigate"}
          /\ Owed("is_visible") = {i \in DOMAIN steps : steps[i].obs.visible # "none"}
          /\ Owed("is_enabled") = {i \in DOMAIN steps : steps[i].obs.enabled # "none"}
          /\ Owed("get_attribute") = {i \in DOMAIN steps : journey.steps[i].kind = "follow_link"
                                                             /\ steps[i].obs.enabled = "yes"}
          /\ Owed("text") = {i \in DOMAIN steps : journey.steps[i].kind = "check_text"
                                                    /\ steps[i].obs.visible = "yes"}
      BY DEF Owes
    <2>3. /\ Owed("click") = {i \in DOMAIN steps : steps[i].obs.click # 0}
          /\ Owed("bounding_box") = {i \in DOMAIN steps : steps[i].obs.box # 0}
          /\ Owed("screenshot") = {i \in DOMAIN steps : steps[i].obs.box # 0}
      BY DEF Owes
    <2>4. \A c \in Counted : Count(OnDisk, c) = Cardinality(Owed(c))
      BY CountsAccepted
    <2> HIDE DEF Owed
    <2> QED BY <2>1, <2>2, <2>3, <2>4
  <1>3. ASSUME NEW i \in DOMAIN steps, steps[i].obs.box # 0
        PROVE  LET obs == steps[i].obs IN
               /\ {obs.box, obs.shot} \subseteq 1 .. Len(records)
               /\ records[obs.box].capability = "bounding_box"
               /\ records[obs.shot].capability = "screenshot"
               /\ obs.click # 0 => /\ obs.click \in 1 .. Len(records)
                                   /\ records[obs.click].capability = "click"
                                   /\ obs.click = obs.shot + 1
    BY <1>1, <1>3, ShotsAccepted DEF Issued
  <1> QED BY <1>1, <1>2, <1>3, LifecycleAccepted, CountsAccepted
          DEF ValidCompletedDriver, OnDisk, Offset

\* The artifacts the report names are there.
LEMMA ArtifactsAccepted ==
  ASSUME Finished
  PROVE  ArtifactsPresent(OnDisk, journey) /\ TracePresent(OnDisk)
  <1>1. ASSUME NEW i \in DOMAIN steps, steps[i].obs.box # 0 \/ steps[i].obs.artifact # "none"
        PROVE  /\ steps[i].obs.artifact = "focused"
               /\ \A kind \in {"raw_screenshot", "focused_screenshot", "focus_metadata"} :
                    [kind |-> kind, step |-> i] \in artifacts
    <2>1. steps[i].obs.artifact = "focused"
      BY <1>1, FinishedFacts DEF Finished, AcceptedInv, RecordsAcceptable, Acceptable
    <2>2. \A k \in DOMAIN ArtifactKinds : [kind |-> ArtifactKinds[k], step |-> i] \in artifacts
      BY <2>1 DEF Finished, Story, StoryInv, RecordsTold, RecordTold, Truthful, EvidenceTold
    <2>3. /\ 1 \in DOMAIN ArtifactKinds /\ ArtifactKinds[1] = "raw_screenshot"
          /\ 2 \in DOMAIN ArtifactKinds /\ ArtifactKinds[2] = "focused_screenshot"
          /\ 3 \in DOMAIN ArtifactKinds /\ ArtifactKinds[3] = "focus_metadata"
      BY DEF ArtifactKinds
    <2>4. ASSUME NEW kind \in {"raw_screenshot", "focused_screenshot", "focus_metadata"}
          PROVE  [kind |-> kind, step |-> i] \in artifacts
      <3>1. PICK k \in DOMAIN ArtifactKinds : kind = ArtifactKinds[k]
        BY <2>3, <2>4
      <3> QED BY <2>2, <3>1
    <2> QED BY <2>1, <2>4
  <1>2. ArtifactsPresent(OnDisk, journey)
    BY <1>1 DEF ArtifactsPresent, OnDisk, Focused
  <1> QED BY <1>2, FinishedFacts DEF TracePresent, OnDisk

\* The renderer accepts the report.
LEMMA FinishedAccepted ==
  ASSUME Finished
  PROVE  Accepted(OnDisk, journey, TRUE)
  BY HeadAccepted, BodyAccepted, DriverAccepted, ArtifactsAccepted, FinishedFacts
  DEF Accepted, Finished

\* A passed run whose guide steps all show evidence becomes a guide.
LEMMA FinishedGuides ==
  ASSUME Finished, outcome = "passed", Guided(journey) # {}, Guided(journey) \subseteq Evidence(journey)
  PROVE  Decision(OnDisk, journey).status = "guide_ready"
  <1>1. ~Unclean(OnDisk)
    BY FinishedFacts DEF Unclean, OnDisk
  <1>2. DOMAIN steps = DOMAIN journey.steps /\ \A i \in DOMAIN steps : steps[i].status = "passed"
    BY FinishedFacts DEF Finished, EarnedInv, AllPassed, Ended
  <1>3. ASSUME NEW i \in Guided(journey)
        PROVE  Publishable(OnDisk, journey, i)
    <2>1. i \in Evidence(journey) /\ i \in DOMAIN steps /\ steps[i].status = "passed"
      BY <1>2 DEF Guided
    <2>2. RecordTold(i)
      BY <2>1 DEF Finished, Story, StoryInv, RecordsTold
    <2> QED BY <2>1, <2>2 DEF Publishable, OnDisk, RecordTold
  <1>4. GuideDecision(OnDisk, journey).status = "guide_ready"
    BY <1>3 DEF GuideDecision
  <1>5. OnDisk.outcome = "passed"
    BY DEF OnDisk
  <1> QED BY <1>1, <1>4, <1>5 DEF Decision

\* A run that failed at checkpoints and links becomes findings.
LEMMA FinishedFinds ==
  ASSUME Finished, outcome = "failed",
         \A i \in DOMAIN steps : journey.steps[i].kind = "capture" => steps[i].status = "passed"
  PROVE  Decision(OnDisk, journey).status = "findings_ready"
  <1>1. ~Unclean(OnDisk)
    BY FinishedFacts DEF Unclean, OnDisk
  <1>2. ASSUME NEW i \in DOMAIN steps, steps[i].status # "passed"
        PROVE  steps[i].status = "failed" /\ journey.steps[i].kind \in Checkpoints \cup Interactive
    <2>1. steps[i].status = "failed"
      BY <1>2, FinishedFacts DEF Finished, AcceptedInv, RecordsAcceptable, Acceptable
    <2>2. journey.steps[i].kind # "navigate"
      BY <2>1 DEF Finished, Story, StoryInv, RecordsTold, RecordTold
    <2>3. journey.steps[i] \in Step
      BY FinishedFacts, InputsAssumption DEF TypeOK, ControlOK, Document
    <2> QED BY <1>2, <2>1, <2>2, <2>3 DEF Step, StepKinds, Checkpoints, Interactive
  <1>3. FindingsDecision(OnDisk, journey).status = "findings_ready"
    BY <1>2 DEF FindingsDecision, OnDisk
  <1>4. OnDisk.outcome = "failed"
    BY DEF OnDisk
  <1> QED BY <1>1, <1>3, <1>4 DEF Decision

\* What the runner writes for a run that passed or failed, the renderer accepts, and makes a
\* guide or findings of, in every run of every journey on every site.
THEOREM HonestReportsAreAccepted == Spec => []HonestReportAccepted
  <1>1. Story /\ EarnedInv /\ AcceptedInv => HonestReportAccepted
    <2> SUFFICES ASSUME Story, EarnedInv, AcceptedInv,
                        pc = "done", outcome \in {"passed", "failed"}, RenderableJourney(journey)
                 PROVE  /\ Accepted(OnDisk, journey, TRUE)
                        /\ outcome = "passed" /\ Guided(journey) # {}
                             /\ Guided(journey) \subseteq Evidence(journey) =>
                             Decision(OnDisk, journey).status = "guide_ready"
                        /\ outcome = "failed"
                           /\ (\A i \in DOMAIN steps :
                                 journey.steps[i].kind = "capture" => steps[i].status = "passed") =>
                             Decision(OnDisk, journey).status = "findings_ready"
      BY DEF HonestReportAccepted
    <2>1. Finished
      BY DEF Finished, Clean
    <2> QED BY <2>1, FinishedAccepted, FinishedGuides, FinishedFinds
  <1> QED BY <1>1, ReportInvariant, PTL
=============================================================================
