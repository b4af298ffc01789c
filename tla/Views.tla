------------------------------- MODULE Views -------------------------------
(* What the API shows of a run (apps/api/service.py): its rows are computed   *)
(* from the run's record, apart from the terminal evaluation they must match. *)
EXTENDS Remedies

DisplayStatus ==
    CASE verdict # <<>> /\ stage = "DELIVERY_READY" -> "DELIVERY READY"
      [] stage = "AWAITING_HUMAN_DECISION" -> "DECISION REQUIRED"
      [] stage = "BLOCKED" -> "BLOCKED"
      [] verdict = <<>> /\ stage = "DELIVERY_READY" -> "UNVERIFIED"
      [] OTHER -> "INSPECTING"

(* Fault: any predicate of the requirement will do. *)
FaultFinalPassed(id) ==
    \E i \in DOMAIN predicates : predicates[i].outcome = "PASS"

(* The first predicate of the latest cycle, where compute takes the last. *)
FinalPassed(id) ==
    LET of == {i \in DOMAIN predicates : predicates[i].requirement = id}
    IN  of # {} /\ predicates[Min(of)].outcome = "PASS"

(* Fault: a decision is pending for each finding that is open. *)
FaultHasPendingDecision(id) == request # <<>> /\ id \in OpenIds(findings)

HasPendingDecision(id) == request = <<id>> /\ id \in OpenIds(findings)

RequirementStatus(i) ==
    LET id == requirements[i].id
    IN  CASE stage = "AWAITING_HUMAN_DECISION" /\ HasPendingDecision(id)
                -> "DECISION REQUIRED"
          [] FinalPassed(id) /\ id \in resolved    -> "FIXED"
          [] FinalPassed(id) /\ id \notin resolved -> "PASS"
          [] OTHER -> "FAIL"

UnresolvedBlockers == {i \in DOMAIN requirements : ~FinalPassed(requirements[i].id)}

(* The tool and tier a decision view names: those of the option the request   *)
(* is bound to, while its finding offers it.                                  *)
DecisionView ==
    LET of      == {i \in DOMAIN findings : findings[i].requirement = request[1]}
        options == findings[Min(of)].options
    IN  IF of = {} \/ options = <<>> THEN <<>>
        ELSE <<options[1][1], Tier(options[1][1])>>

(* The counters of the list of deliveries this run adds to. *)
CountedAs ==
    {n \in {"active", "ready", "blocked"} :
        CASE n = "active"  -> stage \notin {"DELIVERY_READY", "BLOCKED"}
          [] n = "ready"   -> stage = "DELIVERY_READY" /\ verdict # <<>>
          [] n = "blocked" -> stage = "BLOCKED"}

-----------------------------------------------------------------------------
(* Properties. *)

(* What blocks a run and is not counted: a requirement that may or may not    *)
(* apply and shares the identity of one that is checked. Its row shows what   *)
(* the other was found to be.                                                 *)
Shadowed ==
    {i \in Unresolved :
        \E j \in DOMAIN requirements :
            requirements[j].id = requirements[i].id /\ Demanded(requirements[j])}

(* The rows show what was judged: of a run displayed as ready each blocking   *)
(* requirement is shown green, of one displayed as blocked some requirement   *)
(* is counted as a blocker if any check was planned, unless what blocks it is *)
(* shadowed by a twin, and no green row fails on the package as it is; the    *)
(* list counts each run once (_display_status, _unresolved_blockers and       *)
(* _requirement_status against compute and _inspect).                         *)
ShownAsJudged ==
    /\ DisplayStatus = "DELIVERY READY" =>
          \A i \in Blocking : RequirementStatus(i) \in {"PASS", "FIXED"}
    /\ DisplayStatus = "BLOCKED" /\ order # <<>> => UnresolvedBlockers \cup Shadowed # {}
    /\ Cardinality(CountedAs) = 1
    /\ stage \in {"DELIVERY_READY", "BLOCKED"} =>
          \A i \in DOMAIN requirements :
              RequirementStatus(i) \in {"PASS", "FIXED"} =>
                  /\ requirements[i].id \in Range(OrderedIds)
                  /\ Predicate(ByRequirement(requirements[i].id)).outcome = "PASS"

(* A human who is asked sees what for: some row asks for the decision, every  *)
(* such row fails, shares the identity asked about, and the view names a      *)
(* remedy that needs an approval (_has_pending_decision, _decision_view).     *)
DecisionShown ==
    DisplayStatus = "DECISION REQUIRED" =>
        /\ \E i \in DOMAIN requirements : RequirementStatus(i) = "DECISION REQUIRED"
        /\ \A i, j \in DOMAIN requirements :
              RequirementStatus(i) = "DECISION REQUIRED" /\ RequirementStatus(j) = "DECISION REQUIRED"
                  => requirements[i].id = requirements[j].id
        /\ \A i \in DOMAIN requirements :
              RequirementStatus(i) = "DECISION REQUIRED" => ~FinalPassed(requirements[i].id)
        /\ DecisionView # <<>> /\ DecisionView[2] = 2
=============================================================================
