----------------------------- MODULE RunPromise ------------------------------
(***************************************************************************)
(* What one run promises, whatever the browser does: it judges before it   *)
(* drives, clicks each licensed link at most once and in order, passes     *)
(* only with every licensed link clicked, and once it has judged the       *)
(* execution nothing improves the result.                                  *)
(***************************************************************************)
EXTENDS Naturals

VARIABLES
  phase,     \* judging, driving, judged or settled
  licensed,  \* the link steps this run may click
  clicked,   \* those it has clicked
  verdict,   \* what the execution came to
  final      \* what the run reports

pvars == <<phase, licensed, clicked, verdict, final>>

PTypeOK ==
  /\ phase \in {"judging", "driving", "judged", "settled"}
  /\ licensed \subseteq Nat
  /\ clicked \subseteq licensed
  /\ verdict \in {"passed", "failed", "blocked", "error"}
  /\ final \in {verdict, "error"}

PInit ==
  /\ phase = "judging"
  /\ licensed \subseteq Nat
  /\ clicked = {}
  /\ verdict = "error" /\ final = "error"

\* The run is refused, or cannot begin.
Decline ==
  /\ phase = "judging"
  /\ phase' \in {"judged", "settled"}
  /\ verdict' \in {"blocked", "error"} /\ final' = verdict'
  /\ UNCHANGED <<licensed, clicked>>

Begin ==
  /\ phase = "judging"
  /\ phase' = "driving"
  /\ UNCHANGED <<licensed, clicked, verdict, final>>

Follow(i) ==
  /\ i \in licensed
  /\ \A k \in clicked : k < i
  /\ clicked' = clicked \cup {i}
  /\ UNCHANGED licensed

Click ==
  /\ phase = "driving"
  /\ \E i \in licensed : Follow(i)
  /\ UNCHANGED <<phase, verdict, final>>

Judge(v) ==
  /\ phase = "driving"
  /\ phase' = "judged"
  /\ verdict' = v /\ final' = v

Conclude ==
  /\ \E v \in {"passed", "failed", "blocked", "error"} :
       Judge(v) /\ (v = "passed" => clicked = licensed)
  /\ UNCHANGED <<licensed, clicked>>

\* The effect of a click is not known: the run ends with it.
LoseTrack == Judge("error") /\ \E i \in licensed : Follow(i)

Withdraw ==
  /\ phase = "judged"
  /\ phase' \in {"judged", "settled"}
  /\ final' = "error"
  /\ UNCHANGED <<licensed, clicked, verdict>>

Settle ==
  /\ phase = "judged"
  /\ phase' = "settled"
  /\ UNCHANGED <<licensed, clicked, verdict, final>>

PNext == Decline \/ Begin \/ Click \/ Conclude \/ LoseTrack \/ Withdraw \/ Settle

PSpec == PInit /\ [][PNext]_pvars /\ WF_pvars(PNext)
=============================================================================
