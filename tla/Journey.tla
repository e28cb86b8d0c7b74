------------------------------- MODULE Journey -------------------------------
(***************************************************************************)
(* The journey document as the rest of Crawlson sees it once its prose has *)
(* been dropped: the authorized origin, the ordered steps, the declared    *)
(* authentication contract and the evidence switches.  A page stands for   *)
(* an absolute URL; a step is named by its index, so that identifiers are  *)
(* unique by construction.                                                 *)
(***************************************************************************)
EXTENDS Integers, Sequences, FiniteSets

CONSTANTS
  Pages,     \* every URL the browser can show
  Origin,    \* the URLs inside the journey's exact target origin
  Exact,     \* those of them that carry no credentials, query or fragment
  NoPage,    \* the absence of a URL
  Blank,     \* the page of a session that has not navigated yet
  MaxSteps   \* the bound on a journey's steps

ASSUME PagesAssumption ==
  /\ Exact \subseteq Origin
  /\ Origin \subseteq Pages
  /\ Blank \in Pages \ Origin
  /\ NoPage \notin Pages
  /\ MaxSteps \in Nat \ {0}

StepKinds == {"navigate", "check_url", "check_text", "capture", "follow_link"}

Checkpoints == {"check_url", "check_text"}

Interactive == {"follow_link"}

Evidential == {"capture", "follow_link"}

NoAuthentication == [declared |-> FALSE, provider |-> "none", verify |-> 0]

(***************************************************************************)
(* The document, before validation.  The provider is the supported one,    *)
(* agent-browser-state-file, or some other.  verify is the index of the    *)
(* declared verification step, 0 when none is declared, and an index       *)
(* beyond the steps when it names no step.                                 *)
(***************************************************************************)
Step == [kind     : StepKinds,
         url      : Pages \cup {NoPage},
         guide    : BOOLEAN,
         evidence : SUBSET Nat]

Authentication == [declared : BOOLEAN,
                   provider : {"none", "supported", "other"},
                   verify   : Nat]

Document == [schema    : Nat,
             auth      : Authentication,
             steps     : Seq(Step),
             required  : SUBSET {"trace", "diagnostics"}]

IndexesOf(j, kinds) == {i \in DOMAIN j.steps : j.steps[i].kind \in kinds}

\* A step path resolves inside the origin; from schema 2 on without a query.
ValidPath(j, url) == url \in IF j.schema >= 2 THEN Exact ELSE Origin

ValidStep(j, i) ==
  LET step == j.steps[i] IN
  /\ step.kind \in {"navigate", "check_url", "follow_link"} => ValidPath(j, step.url)
  /\ step.kind \in Interactive => j.schema >= 3 /\ step.guide
  /\ step.evidence # {} => j.schema >= 2 /\ step.kind = "capture"
  /\ step.evidence \subseteq {k \in IndexesOf(j, Checkpoints) : k < i}

ValidAuthenticationFields(j) ==
  /\ j.schema = 4 <=> j.auth.verify # 0
  /\ j.schema = 4 => j.auth.declared

(***************************************************************************)
(* The verification step is a check_text, the first checkpoint, after a    *)
(* navigation, and nothing the guide shows or clicks comes before it.      *)
(***************************************************************************)
ValidAuthenticationSteps(j) ==
  j.schema = 4 =>
    /\ j.auth.verify \in IndexesOf(j, {"check_text"})
    /\ \A i \in 1 .. j.auth.verify : ~j.steps[i].guide
    /\ \A i \in 1 .. j.auth.verify - 1 : j.steps[i].kind \notin Checkpoints \cup Evidential
    /\ \E i \in 1 .. j.auth.verify - 1 : j.steps[i].kind = "navigate"

ValidJourney(j) ==
  /\ j.schema \in 1 .. 4
  /\ Len(j.steps) \in 1 .. MaxSteps
  /\ j.required = {"trace", "diagnostics"}
  /\ ValidAuthenticationFields(j)
  /\ \A i \in DOMAIN j.steps : ValidStep(j, i)
  /\ IndexesOf(j, Checkpoints) # {}
  /\ IndexesOf(j, Evidential) # {}
  /\ ValidAuthenticationSteps(j)
=============================================================================
