------------------------------ MODULE Remedies ------------------------------
(* A run after its first findings (HeadlessOrchestrator.advance and           *)
(* resolve_decision): diagnosis by an untrusted model, remedies that make new *)
(* assets out of old ones, the decision of a human, inspection of the package *)
(* they leave behind, and the verdict. The writes inside a step, crashes and  *)
(* recovery are Orchestrator's; here a step is whole and its data real.       *)
EXTENDS Intake, Diagnosis, Authority

CONSTANTS MaxCycles,             \* MAX_CYCLES
          ConvertedName(_, _)    \* the name of captions converted: name, format

ASSUME RemediesAssumption == MaxCycles \in Nat

VARIABLES cycle,
          failures,              \* failed actions by requirement id
          request,               \* the pending decision: <<finding id>>, or <<>>
          resolved               \* requirement ids with a finding that is RESOLVED

remedyVars == <<cycle, failures, request, resolved>>
runVars == <<vars, remedyVars>>

RunInit == Init /\ cycle = 0 /\ failures = <<>> /\ request = <<>> /\ resolved = {}

-----------------------------------------------------------------------------
(* Options as the authority sees them. *)

FindingOf(id) ==
    findings[Max({i \in DOMAIN findings : findings[i].requirement = id})]

Option(finding) ==
    LET tool == finding.options[1][1]
    IN  [ id |-> OptionId(finding, finding.options[1]), finding |-> finding.requirement,
          tool |-> tool, tier |-> Tier(tool),
          asset |-> IF tool = "write_checksum_manifest" THEN 0 ELSE finding.asset,
          argument |-> <<finding.options[1][2]>> ]

Payload(option) ==
    [ tool |-> option.tool, asset |-> option.asset, option |-> option.id,
      run |-> IF option.tool = "write_checksum_manifest" THEN "run" ELSE None,
      argument |-> option.argument,
      authorization |-> IF option.tier = 2 THEN "placeholder" ELSE None ]

AuthorityContext(status) ==
    [ run |-> "run", status |-> status,
      protection |-> [a \in DOMAIN package |->
                         IF Last(package[a].content) = "normalized"
                         THEN "DERIVATIVE" ELSE "WORKING"],
      open |-> OpenIds(findings),
      options |-> {Option(f) : f \in {g \in Range(findings) : g.options # <<>>}},
      pending |-> request ]

Hooked(option) ==
    EvaluateAgentCall(option.tool, Payload(option), {option},
                      AuthorityContext("FINDINGS_READY"))

Begun(option) ==
    Begins("REMEDIATING", Payload(option), option, AuthorityContext("FINDINGS_READY"))

-----------------------------------------------------------------------------
(* The assets a remedy makes. A workbench is [all, gone]: the package with    *)
(* what was made since, and which of it a successor has replaced.             *)

CaptionTargets == {"webvtt", "srt"}

Workbench == [all |-> package, gone |-> {}]

Present(w) == DOMAIN w.all \ w.gone

(* The current assets: those without a successor, in the order they came. *)
CurrentAssets(w) == Kept(w.all, Present(w))

Manifests(w) == {a \in Present(w) : w.all[a].role = "MANIFEST"}

ManifestText(w) ==
    LET listed == SelectSeq(CurrentAssets(w), LAMBDA x : x.role # "MANIFEST")
    IN  [i \in DOMAIN listed |-> <<listed[i].name, listed[i].content>>]

Midpoint(constraint) == (constraint.values[1][2] + constraint.values[2][2]) \div 2

NormalizedAudio == [ channels |-> << <<"int", 2000>> >>, layout |-> << <<"word", "stereo">> >>,
                     rate |-> << <<"int", 48000000>> >> ]

Successor(w, option) ==
    LET source == w.all[option.asset]
        format == option.argument[1]
        number == 1 + Max({w.all[a].made : a \in DOMAIN w.all})
        made   ==
            CASE option.tool = "rename_delivery_copy" ->
                    [source EXCEPT !.name = format]
              [] option.tool = "convert_caption_format" ->
                    [source EXCEPT !.role = "CAPTIONS", !.name = ConvertedName(@, format),
                                   !.content = Append(@, format),
                                   !.captions[1].format = format]
              [] option.tool = "write_checksum_manifest" ->
                    [w.all[1] EXCEPT !.role = "MANIFEST", !.name = "SHA256SUMS",
                                     !.content = <<"SHA256SUMS">>, !.exists = TRUE,
                                     !.probe = <<>>, !.loudness = <<>>, !.captions = <<>>,
                                     !.entries = <<ManifestText(w)>>]
              [] option.tool = "create_normalized_audio_derivative" ->
                    [source EXCEPT !.role = "PROGRAM_MASTER",
                                   !.content = Append(@, "normalized"),
                                   !.probe[1].audio = <<NormalizedAudio>>,
                                   !.loudness[1] = <<"float", Midpoint(
                                        ByRequirement(option.finding).constraint[1])>>]
    IN  [made EXCEPT !.made = number]

(* A new manifest replaces the first there is, others replace their source:   *)
(* the asset it was at inspection, whatever became of that since.             *)
Replaced(w, option) ==
    IF option.tool = "write_checksum_manifest"
    THEN IF Manifests(w) = {} THEN {} ELSE {Min(Manifests(w))}
    ELSE {option.asset}

CuesMissing(asset) == asset.captions = <<>> \/ asset.captions[1].cues = <<>>

(* What has no file cannot be copied, what cannot be parsed not converted,    *)
(* and what has no picture, sound or level not rendered or verified.          *)
MustFail(option) ==
    IF option.tool = "write_checksum_manifest" THEN FALSE
    ELSE LET source == package[option.asset]
         IN  \/ ~source.exists
             \/ /\ option.tool = "convert_caption_format"
                /\ CuesMissing(source)
             \/ /\ option.tool = "create_normalized_audio_derivative"
                /\ \/ source.probe = <<>> \/ source.probe[1].video = <<>>
                   \/ source.probe[1].audio = <<>> \/ source.loudness = <<>>
                   \/ source.loudness[1][1] # "float"

Execute(w, option) ==
    [ all  |-> Append(w.all, Successor(w, option)),
      gone |-> w.gone \cup Replaced(w, option) ]

(* A manifest the runtime made is written again when a later action changed   *)
(* what it lists, if the run has a requirement about checksums.               *)
RefreshDue(w) ==
    LET generated == {a \in Manifests(w) : w.all[a].made > 0}
    IN  /\ generated # {}
        /\ \E a \in Present(w) \ Manifests(w) :
              w.all[a].made > w.all[Min(generated)].made
        /\ \E i \in DOMAIN requirements : requirements[i].key = "package.checksums_match"

RefreshOption == [ id |-> <<"refresh">>, finding |-> <<"refresh">>,
                   tool |-> "write_checksum_manifest", tier |-> 1, asset |-> 0,
                   argument |-> <<"sha256sums">> ]

(* The write may fail, and is then not counted against the requirement. *)
Refreshed(w) == IF RefreshDue(w) THEN {w, Execute(w, RefreshOption)} ELSE {w}

Failed(ids) ==
    [id \in DOMAIN failures \cup ids |->
        (IF id \in DOMAIN failures THEN failures[id] ELSE 0)
        + (IF id \in ids THEN 1 ELSE 0)]

Exhausted == {id \in DOMAIN failures : failures[id] >= 2}

-----------------------------------------------------------------------------
(* Diagnosis and what follows from it. *)

Priority == [ rename_delivery_copy |-> 0, convert_caption_format |-> 1,
              write_checksum_manifest |-> 2 ]

(* The options of a batch by priority; those of one tool in any order, where  *)
(* the code uses that of their hashed ids.                                    *)
Batched(options) ==
    {s \in SetToSeqs(options) :
        \A i, j \in DOMAIN s : i < j => Priority[s[i].tool] <= Priority[s[j].tool]}

(* No action begins that the executor refuses, and none is carried out whose  *)
(* output has no description: either raises, with the run REMEDIATING.        *)
Stuck(option) ==
    \/ ~Begun(option)
    \/ option.tool = "convert_caption_format" /\ option.argument[1] \notin CaptionTargets

(* The workbench after the first actions of a batch, one after the other. *)
After(chosen, count, failing) ==
    LET works[n \in 0 .. count] ==
            IF n = 0 THEN Workbench
            ELSE IF chosen[n] \in failing THEN works[n - 1]
            ELSE Execute(works[n - 1], chosen[n])
    IN  works[count]

ApplyTierOne(options) ==
    \E chosen \in Batched(options), failing \in SUBSET options :
        LET stuck == {i \in DOMAIN chosen : Stuck(chosen[i])}
            last  == IF stuck = {} THEN Len(chosen) ELSE Min(stuck) - 1
            work  == After(chosen, last, failing)
        IN  /\ \A o \in options : Hooked(o) = "ALLOW"
            /\ \A o \in options : MustFail(o) => o \in failing
            /\ failing \subseteq {chosen[i] : i \in 1 .. last}
            /\ failures' = Failed({o.finding : o \in failing})
            /\ raised' = (stuck # {})
            /\ IF raised'
               THEN /\ stage' = "REMEDIATING" /\ package' = CurrentAssets(work)
                    /\ UNCHANGED cycle
               ELSE /\ stage' = "INSPECTING" /\ cycle' = cycle + 1
                    /\ \E done \in Refreshed(work) : package' = CurrentAssets(done)
            /\ UNCHANGED <<attempts, batch, requirements, checks, order, predicates,
                           findings, verdict, request, resolved>>

Escalate(option) ==
    /\ Hooked(option) = "INTERRUPT"
    /\ stage' = "AWAITING_HUMAN_DECISION"
    /\ request' = <<option.finding>>
    /\ UNCHANGED <<raised, attempts, package, batch, requirements, checks, order,
                   predicates, findings, verdict, cycle, failures, resolved>>

(* No remedy is taken up any more: the verdict blocks. *)
GiveUp ==
    /\ findings' = [i \in DOMAIN findings |-> [findings[i] EXCEPT !.options = <<>>]]
    /\ Judged
    /\ UNCHANGED <<raised, attempts, package, batch, requirements, checks, order,
                   predicates, remedyVars>>

(* What a model may reply: for each finding no action, or one of the options  *)
(* on show for any disposition; with one finding left out, named twice or     *)
(* unknown; an option of a finding that is closed; or no diagnosis at all.    *)
Replies ==
    LET shown   == UNION {{o.id : o \in OfferedTo(findings, id)} : id \in OpenIds(findings)}
        item(id, d, o) == [finding |-> id, disposition |-> d, option |-> o]
        items(id) == [ finding: {id}, disposition: {"APPLIED", "ESCALATE", "NO_ACTION"},
                       option: {<<>>, << <<"closed">>, "">>} \cup shown ]
        sensible(id) == {item(id, "NO_ACTION", <<>>)}
                        \cup {item(id, IF o.tier = 1 THEN "APPLIED" ELSE "ESCALATE", o.id)
                                 : o \in OfferedTo(findings, id)}
        ids     == SetToSeq(OpenIds(findings))
        answers == {s \in [DOMAIN ids -> UNION {sensible(id) : id \in Range(ids)}] :
                       \A i \in DOMAIN ids : s[i].finding = ids[i]}
        one     == CHOOSE s \in answers : TRUE
        broken  == {Tail(one), Append(one, one[1]),
                    Append(one, item(<<"closed">>, "NO_ACTION", <<>>))}
                   \cup {[one EXCEPT ![1] = x] : x \in items(ids[1])}
    IN  {[kind |-> "diagnosis", items |-> s] : s \in answers \cup broken}
        \cup {[kind |-> k, items |-> <<>>] : k \in {"error", "malformed", "failure"}}

Diagnosing ==
    stage = "FINDINGS_READY" /\ ~raised /\ ActionRemains /\ cycle < MaxCycles

(* The options an accepted answer names for a disposition. *)
Chosen(items, disposition) ==
    {Option(FindingOf(items[i].finding)) :
        i \in {n \in DOMAIN items : items[n].disposition = disposition}}

(* An answer that is not accepted raises, and the next call asks again. *)
Answers ==
    {items \in {Generate(reply, Prompt(findings)) : reply \in Replies} :
        DiagnosisAccepted(items, findings)}

(* Reversible remedies come first, all at once; then one question; else none. *)
Diagnose ==
    /\ Diagnosing
    /\ \E chosen \in {<<Chosen(items, "APPLIED"), Chosen(items, "ESCALATE")>>
                         : items \in Answers} :
          \/ chosen[1] # {} /\ ApplyTierOne(chosen[1])
          \/ chosen[1] = {} /\ \E option \in chosen[2] : Escalate(option)
          \/ chosen[1] \cup chosen[2] = {} /\ GiveUp

BlockExhausted ==
    /\ stage = "FINDINGS_READY" /\ ~raised /\ ActionRemains /\ cycle >= MaxCycles
    /\ GiveUp

-----------------------------------------------------------------------------
(* The decision of a human. *)

Deny ==
    /\ stage = "AWAITING_HUMAN_DECISION"
    /\ stage' = "BLOCKED" /\ request' = <<>>
    /\ findings' = [i \in DOMAIN findings |->
                       IF findings[i].requirement = request[1]
                       THEN [findings[i] EXCEPT !.options = <<>>] ELSE findings[i]]
    /\ UNCHANGED <<raised, attempts, package, batch, requirements, checks, order,
                   predicates, verdict, cycle, failures, resolved>>

Approve ==
    LET option == Option(FindingOf(request[1]))
        made   == Execute(Workbench, option)
    IN  /\ stage = "AWAITING_HUMAN_DECISION"
        /\ Begun(option)
        /\ stage' = "INSPECTING" /\ cycle' = cycle + 1 /\ request' = <<>>
        /\ \/ /\ ~MustFail(option)
              /\ \E done \in Refreshed(made) : package' = CurrentAssets(done)
              /\ UNCHANGED failures
           \/ /\ failures' = Failed({option.finding})
              /\ UNCHANGED package
        /\ UNCHANGED <<raised, attempts, batch, requirements, checks, order, predicates,
                       findings, verdict, resolved>>

Reinspecting == stage = "INSPECTING" /\ ~raised

(* Fault: only what failed is measured again. *)
FaultReinspect ==
    LET again(id) == id \in OpenIds(findings)
        taken == [i \in DOMAIN predicates |->
                     IF again(predicates[i].requirement)
                     THEN Predicate(ByRequirement(predicates[i].requirement))
                     ELSE predicates[i]]
        failed == Kept(taken, {i \in DOMAIN taken : taken[i].outcome # "PASS"})
    IN  /\ Reinspecting /\ stage' = "FINDINGS_READY" /\ predicates' = taken
        /\ findings' = [i \in DOMAIN failed |->
                           Finding(ByRequirement(failed[i].requirement), Exhausted)]
        /\ UNCHANGED <<raised, attempts, package, batch, requirements, checks, order,
                       verdict, remedyVars>>

(* The findings of the cycle before are resolved, whatever the new one finds. *)
Reinspect ==
    /\ Reinspecting /\ Inspection(Exhausted)
    /\ resolved' = IF raised' THEN resolved ELSE resolved \cup OpenIds(findings)
    /\ UNCHANGED <<cycle, failures, request>>

(* Nothing moves a run that has its verdict or whose call has raised. *)
Finished ==
    /\ raised \/ stage \in {"DELIVERY_READY", "BLOCKED"}
    /\ UNCHANGED runVars

RunNext ==
    \/ /\ \/ InterpretationRefused \/ InterpretationAdmitted
          \/ PlanProposed \/ PlanRefused \/ PlanFallback
          \/ Inspect \/ Conclude
       /\ UNCHANGED remedyVars
    \/ Diagnose \/ BlockExhausted
    \/ Deny \/ Approve \/ Reinspect \/ Finished

RunSpec == RunInit /\ [][RunNext]_runVars

-----------------------------------------------------------------------------
(* Properties. *)

(* The verdict is true of the package that is delivered: the run is ready     *)
(* exactly when each blocking requirement, measured anew on the assets there  *)
(* are after the last remedy, applies and passes; requirements that share an  *)
(* identity are measured as one (_inspect, compute).                          *)
VerdictIsTrue ==
    verdict # <<>> =>
        (stage = "DELIVERY_READY" <=>
            \A i \in Blocking :
                /\ Demanded(requirements[i])
                /\ requirements[i].id \in Range(OrderedIds)
                /\ Predicate(ByRequirement(requirements[i].id)).outcome = "PASS")

(* The adapter and the runtime agree: what the AgentCore adapter takes for    *)
(* bound is what diagnose_findings accepts, whatever the agent answers        *)
(* (_is_bound and diagnose_findings, written apart).                          *)
AdapterAgrees ==
    Diagnosing =>
        \A reply \in Replies :
            ~DiagnosisRejected(reply, Prompt(findings))
                <=> DiagnosisAccepted(reply.items, findings)

(* Calls an agent may make: each option that is open, with another tool,      *)
(* asset, argument or run, and inspections.                                   *)
AgentCalls ==
    LET options == AuthorityContext(stage).options
        around(o) == {[Payload(o) EXCEPT !.asset = a] : a \in 0 .. Len(package) + 1}
                     \cup {[Payload(o) EXCEPT !.run = r] : r \in {"run", "another"}}
                     \cup {[Payload(o) EXCEPT !.argument = <<"unasked">>]}
                     \cup {[Payload(o) EXCEPT !.tool = t] : t \in Tools}
                     \cup {[Payload(o) EXCEPT !.authorization = "forged"]}
    IN  UNION {around(o) : o \in options}

(* The two gates agree: a call the hook allows a model is one the executor    *)
(* begins, and one it interrupts begins with an authorization; so a run never *)
(* moves to REMEDIATING for an action that then cannot begin (evaluate and    *)
(* begin, written apart).                                                     *)
TwoGatesAgree ==
    stage = "FINDINGS_READY" =>
        \A call \in AgentCalls :
            LET context == AuthorityContext(stage)
                answer  == BeforeToolCall(call.tool, call, context)
            IN  answer \in {"ALLOW", "INTERRUPT"} /\ Tier(call.tool) > 0 =>
                   /\ \E o \in BoundOption(call, context) :
                         Begins("REMEDIATING", call, o, context)
                   /\ answer = "INTERRUPT" <=> Tier(call.tool) = 2

-----------------------------------------------------------------------------
(* What a comment says and the code does not keep. *)

(* A model never strands a run: whatever it replies, the adapter hands the    *)
(* runtime an answer it accepts (AgentCoreSemanticModel.generate). Of two     *)
(* findings with one identity this is true of answers that name it once, and  *)
(* not of the fallback, the double's, which names it twice.                   *)
NeverStranded ==
    Diagnosing =>
        \A reply \in Replies :
            DiagnosisAccepted(Generate(reply, Prompt(findings)), findings)
=============================================================================
