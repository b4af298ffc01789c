------------------------------ MODULE Planning ------------------------------
(* QC planning: the checks the runtime requires of a set of requirements, and *)
(* what it accepts of the order and the extra checks a semantic model         *)
(* proposes for them.                                                         *)
(*                                                                            *)
(* Assets are named by their position in the package, checks by what they are *)
(* derived from, extra checks by their item id.                               *)
EXTENDS Catalog, Ordering, SequencesExt, FiniteSetsExt

ScopedAssets(package, role) == {a \in DOMAIN package : package[a].role = role}

(* Fault: a tool that reads the package is bound to no asset of it. *)
FaultBoundAssets(requirement, package) ==
    IF "asset_id" \in InputFields(ProducedBy(requirement.key))
    THEN ScopedAssets(package, requirement.role) ELSE {0}

(* A tool that reads one asset is bound to every asset of the role, a tool    *)
(* that reads the package to the first of them or else to the first of all.   *)
BoundAssets(requirement, package) ==
    LET scoped == ScopedAssets(package, requirement.role)
    IN  IF "asset_id" \in InputFields(ProducedBy(requirement.key)) THEN scoped
        ELSE IF scoped # {} THEN {Min(scoped)}
        ELSE DOMAIN package \cap {1}

RequiredCheck(requirement, a) ==
    [ id |-> <<requirement.id, a, ProducedBy(requirement.key)>>,
      requirement |-> requirement.id,
      asset |-> a,
      tool  |-> ProducedBy(requirement.key),
      args  |-> IF "stream" \in InputFields(ProducedBy(requirement.key))
                THEN << <<"stream", requirement.stream>> >> ELSE <<>> ]

Demanded(requirement) ==
    /\ requirement.status = "EXECUTABLE"
    /\ requirement.applicability = "APPLICABLE"

(* Deriving the checks fails when an executable requirement has no binding to *)
(* a Tier-0 tool, or its tool needs a stream nobody named.                    *)
DerivationFails(requirements, package) ==
    \E i \in DOMAIN requirements :
        /\ Demanded(requirements[i])
        /\ \/ requirements[i].key = None
           \/ /\ "stream" \in InputFields(ProducedBy(requirements[i].key))
              /\ requirements[i].stream = None
              /\ BoundAssets(requirements[i], package) # {}

(* Requirement by requirement, and for each asset by asset. *)
DeriveRequiredChecks(requirements, package) ==
    LET demanded == {i \in DOMAIN requirements : Demanded(requirements[i])}
        bindings == UNION {{i} \X BoundAssets(requirements[i], package) : i \in demanded}
        before   == {p \in bindings \X bindings :
                        \/ p[1][1] < p[2][1]
                        \/ p[1][1] = p[2][1] /\ p[1][2] < p[2][2]}
        nth      == InOrder(bindings, before)
    IN  [n \in DOMAIN nth |-> RequiredCheck(requirements[nth[n][1]], nth[n][2])]

-----------------------------------------------------------------------------
(* A proposal is [order, extras, grouped]: ids in order, extra checks         *)
(* [item, tool, asset, motive, args], and the checks its groups name.         *)

(* What a tool, an asset and the arguments that tell calls apart identify. *)
Fingerprint(tool, a, args) ==
    <<tool, a, SelectSeq(args, LAMBDA arg : arg[1] \notin {"asset_id", "run_id"})>>

(* The runtime fills in the ids it owns; another id, another field, a missing *)
(* one or a value no input accepts is refused; one field may be left out.     *)
ArgumentsValid(tool, a, args) ==
    LET named    == {args[i][1] : i \in DOMAIN args}
        fields   == InputFields(tool)
        optional == IF tool = "inspect_captions" THEN {"program_duration_s"} ELSE {}
    IN  /\ Cardinality(named) = Len(args)
        /\ named \subseteq fields \cup optional \cup {"run_id", "asset_id"}
        /\ fields \ {"run_id", "asset_id"} \subseteq named
        /\ named \cap {"run_id", "asset_id"} \subseteq fields
        /\ \A i \in DOMAIN args :
              CASE args[i][1] = "asset_id" -> args[i][2] = a
                [] args[i][1] = "run_id"   -> args[i][2] = "run"
                [] args[i][1] \in optional -> args[i][2] >= 0
                [] OTHER                   -> AcceptedInput(args[i][2])

ExtraValid(extra, checks, package) ==
    /\ extra.tool \in InspectionTools
    /\ extra.asset \in DOMAIN package
    /\ extra.motive \in {checks[i].requirement : i \in DOMAIN checks}
    /\ ArgumentsValid(extra.tool, extra.asset, extra.args)

Distinct(s) == Cardinality(Range(s)) = Len(s)

Required(checks) == [i \in DOMAIN checks |-> checks[i].id]

(* Fault: the names are compared, not how often each appears. *)
FaultPlanAccepted(proposal, checks, package) ==
    LET items == [i \in DOMAIN proposal.extras |-> <<proposal.extras[i].item>>]
    IN  /\ Range(proposal.order) = Range(Required(checks) \o items)
        /\ Len(proposal.extras) <= Len(checks)
        /\ \A i \in DOMAIN proposal.extras :
              ExtraValid(proposal.extras[i], checks, package)

(* Everything required and every extra appears exactly once, nothing else     *)
(* does, and no two of them are the same operation.                           *)
PlanAccepted(proposal, checks, package) ==
    LET required == Required(checks)
        items    == [i \in DOMAIN proposal.extras |-> <<proposal.extras[i].item>>]
        calls    == [i \in DOMAIN checks |->
                        Fingerprint(checks[i].tool, checks[i].asset, checks[i].args)]
        added    == [i \in DOMAIN proposal.extras |->
                        Fingerprint(proposal.extras[i].tool, proposal.extras[i].asset,
                                    proposal.extras[i].args)]
    IN  /\ Distinct(required \o items)
        /\ Len(proposal.order) = Len(required) + Len(items)
        /\ Range(proposal.order) = Range(required \o items)
        /\ Len(proposal.extras) <= Len(checks)
        /\ Distinct(proposal.grouped)
        /\ Range(proposal.grouped) \subseteq Range(required)
        /\ \A i \in DOMAIN proposal.extras :
              ExtraValid(proposal.extras[i], checks, package)
        /\ Distinct(added)
        /\ Range(added) \cap Range(calls) = {}

ToolOrder == <<"scan_package", "probe_media", "measure_loudness",
               "inspect_captions", "verify_manifest">>

ToolRank(tool) == CHOOSE i \in DOMAIN ToolOrder : ToolOrder[i] = tool

(* The order the runtime falls back on: by tool, then by asset. Checks of one *)
(* tool and asset keep the order they were derived in, where the code uses    *)
(* that of their hashed ids: nothing depends on it.                           *)
FallbackOrder(checks) ==
    LET before == {p \in (DOMAIN checks) \X (DOMAIN checks) :
                      LET left  == checks[p[1]]
                          right == checks[p[2]]
                      IN  \/ ToolRank(left.tool) < ToolRank(right.tool)
                          \/ /\ left.tool = right.tool
                             /\ \/ left.asset < right.asset
                                \/ left.asset = right.asset /\ p[1] < p[2]}
        order  == InOrder(DOMAIN checks, before)
    IN  [n \in DOMAIN order |-> checks[order[n]].id]

(* What inspection takes from a plan: the requirements in the planned order;  *)
(* extra checks are not among them.                                           *)
CheckOrder(order, checks) ==
    LET planned == Kept(order, {n \in DOMAIN order : order[n] \in Range(Required(checks))})
    IN  [i \in DOMAIN planned |-> planned[i][1]]
=============================================================================
