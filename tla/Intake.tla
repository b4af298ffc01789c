------------------------------- MODULE Intake -------------------------------
(* A run from its prose to its first findings (HeadlessOrchestrator.start):   *)
(* interpretation by an untrusted model, admission, planning by an untrusted  *)
(* model, inspection of the package, findings with their remedies, and the    *)
(* verdict when no remedy is left to try. Remedies continues the run.         *)
EXTENDS Admission, Planning, MediaInspection

CONSTANTS Document,        \* the source document, a sequence of pieces
          Packages,        \* the packages that may be delivered
          Batches,         \* the batches of candidates the model may answer
          Titles,          \* titles of the documents at hand
          Extras(_, _),    \* the extra checks it may propose: checks, package
          MaxAttempts      \* answers asked of the model for each question

ASSUME IntakeAssumption ==
    /\ MaxAttempts \in 1 .. 2
    /\ \A p \in Packages :
          /\ p \in Seq(Range(p)) /\ Len(p) > 0
          /\ \A a \in DOMAIN p : /\ {"role", "probe", "loudness"} \subseteq DOMAIN p[a]
                                 /\ p[a].role \in AssetRoles
    /\ \A b \in Batches : /\ b \in Seq(Range(b))
                         /\ \A i \in DOMAIN b : b[i].cited \in Seq(Range(b[i].cited))
    /\ Document \in Seq(Range(Document))

VARIABLES stage,           \* RunStatus
          raised,          \* start() has raised: nothing moves the run any more
          attempts,        \* answers refused to the question now asked
          package, batch, requirements, checks,
          order,           \* RuntimeRun.check_order
          predicates, findings, verdict

vars == <<stage, raised, attempts, package, batch, requirements, checks, order,
          predicates, findings, verdict>>

Segments == SegmentSourceDocument(Document)

Init ==
    /\ stage = "INTERPRETING" /\ raised = FALSE /\ attempts = 0
    /\ package \in Packages
    /\ batch = <<>> /\ requirements = <<>> /\ checks = <<>> /\ order = <<>>
    /\ predicates = <<>> /\ findings = <<>> /\ verdict = <<>>

-----------------------------------------------------------------------------
(* S1: interpretation. One candidate without provenance refuses its batch.    *)

BatchAdmitted(candidates) ==
    \A i \in DOMAIN candidates :
        SpanAdmitted(Segments, candidates[i].cited, candidates[i].quote)

InterpretationRefused ==
    /\ stage = "INTERPRETING" /\ ~raised
    /\ \/ TRUE                                    \* the provider fails
       \/ \E b \in Batches : ~BatchAdmitted(b)
    /\ attempts' = attempts + 1
    /\ raised' = (attempts' = MaxAttempts)
    /\ UNCHANGED <<stage, package, batch, requirements, checks, order, predicates,
                   findings, verdict>>

InterpretationAdmitted ==
    /\ stage = "INTERPRETING" /\ ~raised
    /\ \E b \in Batches :
          LET admitted == MarkContradictions(
                  [i \in DOMAIN b |-> Admit(b[i], Document, Segments, Titles)])
          IN  /\ BatchAdmitted(b)
              /\ batch' = b
              /\ requirements' = admitted
              /\ raised' = DerivationFails(admitted, package)
              /\ IF raised'
                 THEN UNCHANGED <<stage, attempts, checks>>
                 ELSE /\ stage' = "REQUIREMENTS_ADMITTED" /\ attempts' = 0
                      /\ checks' = DeriveRequiredChecks(admitted, package)
    /\ UNCHANGED <<package, order, predicates, findings, verdict>>

-----------------------------------------------------------------------------
(* S2: planning. The model orders and adds; what is required is not its to    *)
(* decide, and after the last refusal the runtime plans by itself.            *)

(* What the model may answer: the required checks in any order; or with extra *)
(* checks of its own, in groups, or with one left out, repeated or unknown.   *)
Proposals ==
    LET required == Required(checks)
        extras   == Extras(checks, package)
        chosen   == {<<>>} \cup {<<e>> : e \in extras} \cup {<<e, e>> : e \in extras}
        all(x)   == required \o [i \in DOMAIN x |-> <<x[i].item>>]
        broken(o) == IF o = <<>> THEN { << <<"unknown">> >> }
                     ELSE {Tail(o), Append(o, o[1]), [o EXCEPT ![1] = <<"unknown">>]}
        groups   == { << <<"unknown">> >> } \cup {<<i, i>> : i \in Range(required)}
    IN  {[order |-> o, extras |-> <<>>, grouped |-> required]
            : o \in SetToSeqs(Range(required))}
        \cup {[order |-> all(x), extras |-> x, grouped |-> <<>>] : x \in chosen}
        \cup {[order |-> o, extras |-> <<>>, grouped |-> <<>>] : o \in broken(required)}
        \cup {[order |-> required, extras |-> <<>>, grouped |-> g] : g \in groups}

PlanAdopted(ids) ==
    /\ stage' = "QC_PLANNED" /\ attempts' = 0
    /\ order' = CheckOrder(ids, checks)
    /\ UNCHANGED <<raised, package, batch, requirements, checks, predicates,
                   findings, verdict>>

PlanProposed ==
    /\ stage = "REQUIREMENTS_ADMITTED" /\ ~raised /\ attempts < MaxAttempts
    /\ \E p \in Proposals : PlanAccepted(p, checks, package) /\ PlanAdopted(p.order)

PlanRefused ==
    /\ stage = "REQUIREMENTS_ADMITTED" /\ ~raised /\ attempts < MaxAttempts
    /\ attempts' = attempts + 1
    /\ UNCHANGED <<stage, raised, package, batch, requirements, checks, order,
                   predicates, findings, verdict>>

PlanFallback ==
    /\ stage = "REQUIREMENTS_ADMITTED" /\ ~raised /\ attempts = MaxAttempts
    /\ PlanAdopted(FallbackOrder(checks))

-----------------------------------------------------------------------------
(* Inspection of cycle 0.                                                     *)

(* Requirements are looked up by id: the last of those that share one. *)
ByRequirement(id) ==
    requirements[Max({i \in DOMAIN requirements : requirements[i].id = id})]

(* A plan without checks is no plan: every requirement is inspected. *)
OrderedIds ==
    IF order # <<>> THEN order
    ELSE [i \in DOMAIN requirements |-> requirements[i].id]

InspectedIds ==
    Kept(OrderedIds,
         {n \in DOMAIN OrderedIds : ByRequirement(OrderedIds[n]).constraint # <<>>})

(* The asset a requirement is measured on: the first of its role, or else the *)
(* first of the package.                                                      *)
Target(requirement) ==
    LET scoped == ScopedAssets(package, requirement.role)
    IN  IF scoped = {} THEN 1 ELSE Min(scoped)

Result(requirement) ==
    ExecuteInspection(ProducedBy(requirement.key), package, Target(requirement),
                      requirement.stream)

FactFor(requirement) ==
    LET matching == {f \in Result(requirement).facts :
                        /\ f.key = requirement.key
                        /\ f.asset \in {0, Target(requirement)}}
    IN  IF matching = {} THEN Fact(requirement.key, Target(requirement), <<>>)
        ELSE CHOOSE f \in matching : TRUE

Predicate(requirement) ==
    [ requirement |-> requirement.id, asset |-> Target(requirement),
      measured |-> FactFor(requirement).status,
      outcome |-> EvaluatePredicate(FactFor(requirement), requirement.constraint[1]) ]

(* The remedies of a failed requirement: tool, and the argument the           *)
(* constraint gives it.                                                       *)
RemedyOf(requirement) ==
    LET c    == requirement.constraint[1]
        auto == requirement.disposition = "AUTO_REMEDIATE"
    IN  CASE c.key = "package.filename[role]" /\ c.operator = "EQUALS" /\ auto
                -> << <<"rename_delivery_copy", c.values[1][2]>> >>
          [] c.key = "package.manifest_present" /\ auto
                -> << <<"write_checksum_manifest", "sha256sums">> >>
          [] c.key = "captions.format" /\ c.operator \in {"EQUALS", "ONE_OF"} /\ auto
                -> << <<"convert_caption_format", c.values[1][2]>> >>
          [] /\ c.key = "audio.integrated_loudness" /\ c.operator = "RANGE"
             /\ requirement.disposition = "HUMAN_APPROVAL_REQUIRED"
                -> << <<"create_normalized_audio_derivative",
                        IF c.values[1][2] < c.values[2][2] THEN "tolerant" ELSE "">> >>
          [] OTHER -> <<>>

(* A finding offers its remedy unless it is withheld: it has failed twice. *)
OptionsOf(requirement, withheld) ==
    IF requirement.id \in withheld THEN <<>> ELSE RemedyOf(requirement)

Finding(requirement, withheld) ==
    [ requirement |-> requirement.id, asset |-> Target(requirement),
      options |-> OptionsOf(requirement, withheld) ]

(* The input of an inspection, a value the fact contract refuses, or the      *)
(* input of a remedy raises out of the inspection; a range without width is a *)
(* remedy without tolerance, written "" above.                                *)
InspectionRaises(requirement, withheld) ==
    \/ /\ "stream" \in InputFields(ProducedBy(requirement.key))
       /\ ~AcceptedInput(requirement.stream)
    \/ Result(requirement).raises
    \/ /\ Predicate(requirement).outcome # "PASS"
       /\ \E o \in Range(OptionsOf(requirement, withheld)) : ~AcceptedInput(o[2])

(* The run is saved as INSPECTING before the first tool runs, and the facts   *)
(* after the last. The findings of earlier cycles are resolved.               *)
Inspection(withheld) ==
    /\ raised' = \E i \in DOMAIN InspectedIds :
                     InspectionRaises(ByRequirement(InspectedIds[i]), withheld)
    /\ IF raised'
       THEN stage' = "INSPECTING" /\ UNCHANGED <<predicates, findings>>
       ELSE LET taken  == [i \in DOMAIN InspectedIds |->
                               Predicate(ByRequirement(InspectedIds[i]))]
                failed == Kept(taken, {i \in DOMAIN taken : taken[i].outcome # "PASS"})
            IN  /\ stage' = "FINDINGS_READY"
                /\ predicates' = taken
                /\ findings' = [i \in DOMAIN failed |->
                                   Finding(ByRequirement(failed[i].requirement), withheld)]
    /\ UNCHANGED <<attempts, package, batch, requirements, checks, order, verdict>>

Inspect == stage = "QC_PLANNED" /\ ~raised /\ Inspection({})

-----------------------------------------------------------------------------
(* The verdict, when no finding has a remedy to try. *)

Blocking == {i \in DOMAIN requirements : requirements[i].severity = "BLOCKING"}

Latest(id) ==
    LET of == {i \in DOMAIN predicates : predicates[i].requirement = id}
    IN  IF of = {} THEN "NOT_EVALUATED" ELSE predicates[Max(of)].outcome

Unresolved == {i \in Blocking : \/ requirements[i].status # "EXECUTABLE"
                                \/ requirements[i].applicability = "UNRESOLVED"}

NotPassed == {i \in Blocking \ Unresolved : Latest(requirements[i].id) # "PASS"}

(* An open finding of a blocking requirement has a remedy left. *)
ActionRemains ==
    \E i \in DOMAIN findings :
        /\ findings[i].options # <<>>
        /\ findings[i].requirement \in {requirements[n].id : n \in NotPassed}

Judged ==
    /\ stage' = IF Unresolved \cup NotPassed = {} THEN "DELIVERY_READY" ELSE "BLOCKED"
    /\ verdict' = <<[unresolved |-> Cardinality(Unresolved),
                     notPassed |-> Cardinality(NotPassed)]>>

Conclude ==
    /\ stage = "FINDINGS_READY" /\ ~ActionRemains
    /\ Judged
    /\ UNCHANGED <<raised, attempts, package, batch, requirements, checks, order,
                   predicates, findings>>

Next == \/ InterpretationRefused \/ InterpretationAdmitted
        \/ PlanProposed \/ PlanRefused \/ PlanFallback
        \/ Inspect \/ Conclude

Spec == Init /\ [][Next]_vars

-----------------------------------------------------------------------------
(* Properties. *)

Stages == {"INTERPRETING", "REQUIREMENTS_ADMITTED", "QC_PLANNED", "INSPECTING",
           "FINDINGS_READY", "AWAITING_HUMAN_DECISION", "REMEDIATING",
           "DELIVERY_READY", "BLOCKED"}

(* Types: the stages of start(), requirements in step with their candidates,  *)
(* checks and findings about assets of the package.                           *)
TypeOK ==
    /\ stage \in Stages /\ raised \in BOOLEAN /\ attempts \in 0 .. MaxAttempts
    /\ \A a \in DOMAIN package : package[a].role \in AssetRoles
    /\ batch \in Batches \cup {<<>>}
    /\ DOMAIN requirements = DOMAIN batch
    /\ \A i \in DOMAIN checks : checks[i].asset \in DOMAIN package
    /\ \A i \in DOMAIN predicates :
          predicates[i].outcome \in {"PASS", "FAIL", "NOT_EVALUATED"}
    /\ Len(findings) <= Len(predicates) /\ Len(verdict) <= 1

CitedWords(i) ==
    UNION {WordsOf(Document, Segments[n].start, Segments[n].end)
           : n \in Range(batch[i].cited)}

(* The source owns severity: whatever the model proposed, a requirement is    *)
(* weaker than blocking only if no sentence it cites says must, and something *)
(* from the first cited sentence to the last, headings in between included,   *)
(* says how binding it is (build_source_span, modal_severity).                *)
SourceOwnsSeverity ==
    \A i \in DOMAIN requirements :
        requirements[i].severity # "BLOCKING" =>
            /\ ModalGroups["BLOCKING"] \cap CitedWords(i) = {}
            /\ \E s \in DOMAIN ModalGroups : ModalGroups[s] \cap requirements[i].span.words # {}

(* The model can only tighten: nothing is executable that it did not call     *)
(* executable, no remedy is looser than the catalogue's, and a constraint is  *)
(* never kept by a requirement that is not executable (admit, _disposition).  *)
ModelOnlyTightens ==
    \A i \in DOMAIN requirements :
        LET r == requirements[i] IN
        /\ r.status = "EXECUTABLE" => batch[i].status = "EXECUTABLE"
        /\ r.constraint # <<>> <=> r.status = "EXECUTABLE"
        /\ r.key # None => Strictness[r.disposition] >= Strictness[RemediationDefault(r.key)]
        /\ r.key = None => r.disposition = "FORBIDDEN"

(* Of two demands for different values of one thing (EQUALS, the one conflict *)
(* the code looks for), neither stays executable: the run never chooses       *)
(* between them, and is not ready while one of them is binding                *)
(* (mark_contradictions, compute).                                            *)
NoOpenConflict ==
    \A i, j \in DOMAIN batch :
        /\ i < j
        /\ Contradicts(Admit(batch[i], Document, Segments, Titles),
                       Admit(batch[j], Document, Segments, Titles))
        => \A k \in {i, j} :
              /\ requirements[k].status = "CONTRADICTORY"
              /\ requirements[k].constraint = <<>>
              /\ stage = "DELIVERY_READY" => requirements[k].severity # "BLOCKING"

(* What admission lets through, planning can bind: deriving the checks of     *)
(* admitted requirements never raises, so a run stops while interpreting only *)
(* when the model's attempts are used up (admit and derive_required_checks).  *)
AdmittedIsPlannable == raised /\ stage = "INTERPRETING" => attempts = MaxAttempts

(* Coverage is the runtime's: whatever the model proposed, each required      *)
(* check is in the plan as often as it is required and in no other place, so  *)
(* what is planned bears the identity of a requirement that is executable and *)
(* applies. It need not be the one that is looked up by it: two that differ   *)
(* in their conditions alone share it (validate_plan,                         *)
(* deterministic_fallback_plan).                                              *)
PlanCovers ==
    stage \notin {"INTERPRETING", "REQUIREMENTS_ADMITTED"} =>
        /\ Len(order) = Len(checks)
        /\ \A id \in {requirements[i].id : i \in DOMAIN requirements} :
              Cardinality({n \in DOMAIN order : order[n] = id})
                = Cardinality({n \in DOMAIN checks : checks[n].requirement = id})
        /\ \A n \in DOMAIN order :
              \E i \in DOMAIN requirements :
                  requirements[i].id = order[n] /\ Demanded(requirements[i])

(* An executable constraint decides: a fact that was measured is never left   *)
(* unevaluated, whatever units, types and operators the draft was written     *)
(* with (normalize_constraint and evaluate_predicate agree).                  *)
MeasuredIsDecided ==
    \A i \in DOMAIN predicates :
        predicates[i].measured = "OK" => predicates[i].outcome # "NOT_EVALUATED"
=============================================================================
