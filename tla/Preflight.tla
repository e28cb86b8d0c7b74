------------------------------ MODULE Preflight ------------------------------
(***************************************************************************)
(* What a run decides before any browser command: the ordered, fail-closed *)
(* preconditions of runner::run.  A gate carries the reason code it blocks *)
(* the run with; the first gate that refuses decides the report.           *)
(***************************************************************************)
EXTENDS Journey

\* What loading the sign-in state file given with --auth-state comes to.
StateFile == {"none", "invalid", "valid"}

(***************************************************************************)
(* The command line.  grants.named holds the steps the well-formed grants  *)
(* name; a grant for another journey, revision or step counts as a step    *)
(* the journey does not have.                                              *)
(***************************************************************************)
Options == [origin : {"missing", "invalid", "other", "match"},
            grants : [wellFormed : BOOLEAN, distinct : BOOLEAN, named : SUBSET Nat],
            state  : StateFile]

Required(j) == IndexesOf(j, Interactive)

\* The grants a report records: none when any of them is malformed, or none is needed.
Granted(j, o) == IF o.grants.wellFormed /\ Required(j) # {} THEN o.grants.named ELSE {}

GateOrder == <<"journey_invalid",
               "target_authorization_missing",
               "target_not_authorized",
               "target_authorization_invalid",
               "authentication_unavailable",
               "action_authorization_invalid",
               "action_authorization_unexpected",
               "action_authorization_mismatch",
               "authentication_provider_unsupported",
               "authentication_state_missing",
               "authentication_state_invalid",
               "authentication_unexpected">>

GateCodes == {GateOrder[k] : k \in DOMAIN GateOrder}

\* Mutant: some of the required grants are enough.
RefusesActionsPartly(code, j, o) ==
  CASE code = "action_authorization_invalid" -> ~o.grants.wellFormed
    [] code = "action_authorization_unexpected" -> Required(j) = {} /\ o.grants.named # {}
    [] code = "action_authorization_mismatch" ->
         Required(j) # {} /\ o.grants.named \cap Required(j) = {}

RefusesActions(code, j, o) ==
  LET g == o.grants IN
  CASE code = "action_authorization_invalid" ->
         ~g.wellFormed \/ (Required(j) # {} /\ ~g.distinct)
    [] code = "action_authorization_unexpected" ->
         Required(j) = {} /\ g.named # {}
    [] code = "action_authorization_mismatch" ->
         Required(j) # {} /\ g.named # Required(j)

RefusesAuthentication(code, j, o) ==
  CASE code = "authentication_unavailable" -> j.schema < 4 /\ j.auth.declared
    [] code = "authentication_provider_unsupported" ->
         j.schema = 4 /\ j.auth.provider # "supported"
    [] code = "authentication_state_missing" -> j.schema = 4 /\ o.state = "none"
    [] code = "authentication_state_invalid" -> j.schema = 4 /\ o.state = "invalid"
    [] code = "authentication_unexpected" -> j.schema < 4 /\ o.state # "none"

Refuses(code, j, o) ==
  CASE code = "journey_invalid" -> ~ValidJourney(j)
    [] code = "target_authorization_missing" -> o.origin = "missing"
    [] code = "target_not_authorized" -> o.origin = "other"
    [] code = "target_authorization_invalid" -> o.origin = "invalid"
    [] code \in {"action_authorization_invalid", "action_authorization_unexpected",
                 "action_authorization_mismatch"} -> RefusesActions(code, j, o)
    [] OTHER -> RefusesAuthentication(code, j, o)

RefusedBy(k, j, o) ==
  /\ k \in DOMAIN GateOrder
  /\ Refuses(GateOrder[k], j, o)
  /\ \A m \in 1 .. k - 1 : ~Refuses(GateOrder[m], j, o)

Admitted(j, o) == \A k \in DOMAIN GateOrder : ~Refuses(GateOrder[k], j, o)

RefusalOutcome(code) == IF code = "journey_invalid" THEN "error" ELSE "blocked"

\* The authentication status of a report refused with this code.
RefusalStatus(code, j) ==
  CASE code = "journey_invalid" \/ j.schema # 4 -> "none"
    [] code = "authentication_provider_unsupported" -> "unsupported"
    [] code = "authentication_state_missing" -> "missing"
    [] code = "authentication_state_invalid" -> "invalid"
    [] OTHER -> "blocked"
=============================================================================
