---------------------------- MODULE Orchestrator ----------------------------
(***************************************************************************)
(* HeadlessOrchestrator (aircheck/runtime/orchestrator.py) and the         *)
(* RemediationExecutor it drives (remediation.py), for one run and one     *)
(* process at a time: start, advance and resolve_decision as the sequence  *)
(* of durable writes they make.  Between any two writes the process may be *)
(* killed, or an exception may abandon the call; only files survive, and   *)
(* what happens next depends on the call a user makes next.                *)
(*                                                                         *)
(* The store's multi-file operations, commit_transition and                *)
(* begin_authorized_action, are one step here: DurableStore shows that     *)
(* they implement an atomic store for a lone process.                      *)
(*                                                                         *)
(* What media inspection finds is open, except for the package's manifest, *)
(* whose contents are modelled.  A requirement stands for its own target   *)
(* asset, so a finding is a requirement and the cycle that opened it, and  *)
(* an option is identified with its finding.                               *)
(***************************************************************************)
EXTENDS Integers, Sequences, FiniteSets

CONSTANTS
    Req,          \* executable, applicable requirements with a verification tool
    Tool,         \* [Req -> tool its failure is remedied with, or "none"]
    Blocking,     \* the requirements of BLOCKING severity
    Unsupported,  \* those that demand captions in a format no tool writes
    Checksums,    \* the package.checksums_match requirement, or None
    SpecResolved, \* no blocking requirement was left unresolved by admission
    MaxCycles,    \* MAX_CYCLES
    MaxCrashes,   \* bound on abandoned calls
    None

Rename == "rename_delivery_copy"
Convert == "convert_caption_format"
Manifest == "write_checksum_manifest"
Normalize == "create_normalized_audio_derivative"

ASSUME OrchestratorAssumption ==
    /\ Tool \in [Req -> {Rename, Convert, Manifest, Normalize, "none"}]
    /\ Blocking \subseteq Req
    /\ Unsupported \subseteq {q \in Req : Tool[q] = Convert}
    /\ Checksums \in Req \cup {None} /\ None \notin Req
    /\ Checksums # None => Tool[Checksums] = "none"
    /\ \A q \in Req : q # "refresh"
    /\ SpecResolved \in BOOLEAN
    /\ MaxCycles \in Nat /\ MaxCrashes \in Nat

VARIABLES
    \* durable
    snap,       \* snapshot.json
    run,        \* runtime.json, the RuntimeRun record
    ledger,     \* the action events of events.json
    decision,   \* decisions/*.json: [status of each request file]
    auth,       \* authorizations/*.json, in order of issue
    output,     \* per action: its file in the workspace and what it lists
    evidence,   \* evidence/*.json: what the files say, None before any
    originals,  \* the ORIGINAL assets still have their recorded hashes
    \* the call in progress
    call,
    \* history
    crashes,    \* number of abandoned calls
    abandoned,  \* the last request's call was abandoned, and none made since
    locked,     \* the lock files kills have left behind
    inspected   \* the assets the last inspection looked at

vars == <<snap, run, ledger, decision, auth, output, evidence, originals,
          call, crashes, abandoned, locked, inspected>>

-----------------------------------------------------------------------------
Cycle == 0..MaxCycles
Finding == (Req \cup {"refresh"}) \X Cycle
Decision == 1..(MaxCycles + MaxCrashes)

(* The requirement a finding is about, and the tool of its option. *)
ReqOf(f) == IF f[1] = "refresh" THEN Checksums ELSE f[1]
ToolOf(f) == IF f[1] = "refresh" THEN Manifest ELSE Tool[f[1]]
TierOf(f) == IF ToolOf(f) = Normalize THEN 2 ELSE 1
Priority(f) ==
    CASE ToolOf(f) = Rename -> 0 [] ToolOf(f) = Convert -> 1
      [] ToolOf(f) = Manifest -> 2 [] OTHER -> 99

Option == {f \in Finding : f[1] # "refresh" /\ Tool[f[1]] # "none"}

(* Python's None is no number, no word, no finding and no verdict. *)
ASSUME NoneAssumption ==
    /\ None \notin Nat /\ None \notin Finding
    /\ None \notin {"DELIVERY_READY", "BLOCKED", "tier1", "tier2", "refresh", "recover", "integrity"}
    /\ None \notin [run : {"run"}, cycle : 0..(MaxCycles + 1),
                    outcome : {"DELIVERY_READY", "BLOCKED"}]

Lifecycle == INSTANCE RunLifecycle WITH
    Run <- {"run"}, Decision <- Decision, Option <- Option,
    Tier <- [f \in Option |-> TierOf(f)],
    snapshot <- [r \in {"run"} |-> snap]

Terminal == Lifecycle!Terminal

(* Lock files, named for what they guard: who finds one that nobody removes *)
(* times out.                                                              *)
LedgerLock == <<"ledger", 0>>
RequestLock(d) == <<"request", d>>
CapabilityLock(x) == <<"authorization", x>>
Free(lock) == lock \notin locked

(* The ledger: an action is numbered by its start. *)
Starts == {i \in DOMAIN ledger : ledger[i].type = "ACTION_STARTED"}
Started(a) == CHOOSE e \in {ledger[i] : i \in Starts} : e.act = a
Ends(type) == {ledger[i].act : i \in {j \in DOMAIN ledger : ledger[j].type = type}}
Completed == Ends("ACTION_COMPLETED")
Failed == Ends("ACTION_FAILED")
Actions == DOMAIN output
Unfinished == Actions \ (Completed \cup Failed)
CompletedAt(a) ==
    CHOOSE i \in DOMAIN ledger :
        ledger[i].type = "ACTION_COMPLETED" /\ ledger[i].act = a

IsManifest(a) == ToolOf(Started(a).finding) = Manifest

(* run.assets, by the action that created each; current_assets keeps the   *)
(* last manifest, each being the predecessor of the next.                  *)
Package == {a \in run.assets : ~IsManifest(a)}
Manifests == {a \in run.assets : IsManifest(a)}
CurrentManifest == CHOOSE a \in Manifests : \A b \in Manifests : b =< a

Intact(a) == output[a].file = "good"

(* Seeded fault: only findings that are still open count as attempts. *)
FaultFailureCount(q) ==
    Cardinality({a \in Failed :
        LET f == Started(a).finding IN run.findings[f] = "OPEN" /\ ReqOf(f) = q})

(* _failure_count: the failed actions whose option is still in the record. *)
FailureCount(q) ==
    Cardinality({a \in Failed :
        LET f == Started(a).finding IN f \in run.offers /\ ReqOf(f) = q})

(* _reconcile_remediation_counts *)
LedgerCounts ==
    [autonomous |-> Cardinality({a \in Completed : Started(a).auth = None}),
     authorized |-> Cardinality({a \in Completed : Started(a).auth # None})]
(* Seeded fault: counts are kept as they were. *)
FaultReconciled == run

Reconciled == [run EXCEPT !.counts = LedgerCounts]

(* terminal.compute: None while a decision is pending or an open finding   *)
(* of a blocking requirement that has not passed still has an option.      *)
Open(f) == run.findings[f] = "OPEN"
Pending == \E d \in Decision : run.requests[d] = "PENDING"
(* Seeded fault: a run without open findings is ready. *)
FaultVerdict ==
    IF \/ Pending
       \/ \E f \in run.offers : Open(f) /\ ReqOf(f) \in Blocking \ run.passed
    THEN None
    ELSE IF SpecResolved /\ originals /\ \A f \in Finding : ~Open(f)
         THEN "DELIVERY_READY" ELSE "BLOCKED"

Verdict ==
    IF \/ Pending
       \/ \E f \in run.offers :
             Open(f) /\ ReqOf(f) \in Blocking \ run.passed
    THEN None
    ELSE IF SpecResolved /\ Blocking \subseteq run.passed /\ originals
         THEN "DELIVERY_READY" ELSE "BLOCKED"

TerminalVerdict == [run |-> "run", cycle |-> snap.cycle, outcome |-> Verdict]

(* The open findings become UNRESOLVED and lose their options. *)
GivenUp(fs) ==
    [run EXCEPT !.findings = [f \in Finding |-> IF f \in fs THEN "UNRESOLVED" ELSE @[f]],
                !.offers = @ \ fs]

-----------------------------------------------------------------------------
(* The call in progress: where it is, what the current action belongs to   *)
(* ("tier1", "tier2", "refresh" or "recover"), the options still to be     *)
(* executed, the current action and the capability in hand.                *)
Idle == [at |-> "idle", phase |-> None, todo |-> {}, act |-> 0, cap |-> 0]

At(label) == call.at = label
Goto(label) == call' = [call EXCEPT !.at = label]
Return == call' = Idle

Init ==
    /\ snap = Lifecycle!NewSnapshot
    /\ run = [findings |-> [f \in Finding |-> "NONE"], offers |-> {}, passed |-> {},
              requests |-> [d \in Decision |-> "NONE"], assets |-> {},
              counts |-> [autonomous |-> 0, authorized |-> 0], evidence |-> None]
    /\ ledger = <<>> /\ auth = <<>> /\ output = <<>>
    /\ decision = [d \in Decision |-> "NONE"]
    /\ evidence = None /\ originals = TRUE
    /\ call = [Idle EXCEPT !.at = "prepare"]
    /\ crashes = 0 /\ abandoned = FALSE /\ locked = {} /\ inspected = {}

-----------------------------------------------------------------------------
(* start: ingest, interpret, admit and plan, one transition after another. *)

Successor ==
    [CREATED |-> "INGESTING", INGESTING |-> "INGESTED", INGESTED |-> "INTERPRETING",
     INTERPRETING |-> "REQUIREMENTS_ADMITTED", REQUIREMENTS_ADMITTED |-> "QC_PLANNED",
     QC_PLANNED |-> "INSPECTING"]

Prepare ==
    /\ At("prepare") /\ Free(LedgerLock)
    /\ snap' = Lifecycle!Proceeded(snap, Successor[snap.status])
    /\ Goto(IF snap'.status = "INSPECTING" THEN "inspect" ELSE "prepare")
    /\ UNCHANGED <<run, ledger, decision, auth, output, evidence, originals, crashes, abandoned, locked, inspected>>

(* _inspect: every check runs; the manifest's outcomes follow from the     *)
(* files, and captions no tool can replace are found as they were before.  *)
(* Last cycle's open findings are RESOLVED and keep their options, each    *)
(* check that does not pass opens a finding, with an option unless two     *)
(* attempts on the requirement have failed.                                *)
ManifestPresent == Manifests # {} /\ Intact(CurrentManifest)
ChecksumsMatch ==
    /\ ManifestPresent
    /\ output[CurrentManifest].covers = Package
    /\ \A a \in Package : Intact(a)

Inspect ==
    /\ At("inspect")
    /\ \E passed \in SUBSET Req :
        LET failing == {<<q, snap.cycle>> : q \in Req \ passed}
            offered == {f \in failing : ToolOf(f) # "none" /\ FailureCount(ReqOf(f)) < 2}
        IN
        /\ snap.cycle > 0 => passed \cap Unsupported = run.passed \cap Unsupported
        /\ \A q \in Req : Tool[q] = Manifest => (q \in passed <=> ManifestPresent)
        /\ Checksums # None => (Checksums \in passed <=> ChecksumsMatch)
        /\ run' = [run EXCEPT
              !.findings = [f \in Finding |->
                    IF f \in failing THEN "OPEN"
                    ELSE IF @[f] = "OPEN" THEN "RESOLVED" ELSE @[f]],
              !.offers = @ \cup offered,
              !.passed = passed]
    /\ inspected' = run.assets
    /\ Goto("ready")
    /\ UNCHANGED <<snap, ledger, decision, auth, output, evidence, originals, crashes, abandoned, locked>>

FindingsReady ==
    /\ At("ready") /\ Free(LedgerLock)
    /\ snap' = Lifecycle!Proceeded(snap, "FINDINGS_READY")
    /\ Goto("offer")
    /\ UNCHANGED <<run, ledger, decision, auth, output, evidence, originals, crashes, abandoned, locked, inspected>>

OfferOptions ==
    /\ At("offer")
    /\ snap' = [snap EXCEPT !.options = {f \in run.offers : Open(f)}]
    /\ Return
    /\ UNCHANGED <<run, ledger, decision, auth, output, evidence, originals, crashes, abandoned, locked, inspected>>

-----------------------------------------------------------------------------
(* advance *)

EvidenceComplete == run.evidence # None /\ run.evidence = evidence

(* Seeded fault: an ended run is returned without restoring its evidence. *)
FaultAdvanceTerminal ==
    /\ At("idle")
    /\ snap.status \in Terminal
    /\ run' = Reconciled
    /\ Return
    /\ abandoned' = FALSE
    /\ UNCHANGED <<snap, ledger, decision, auth, output, evidence, originals, crashes, locked, inspected>>

AdvanceTerminal ==
    /\ At("idle")
    /\ snap.status \in Terminal
    /\ run' = Reconciled
    /\ call' = [Idle EXCEPT !.at = IF EvidenceComplete THEN "idle" ELSE "evidence"]
    /\ abandoned' = FALSE
    /\ UNCHANGED <<snap, ledger, decision, auth, output, evidence, originals, crashes, locked, inspected>>

AdvanceRemediating ==
    /\ At("idle")
    /\ snap.status = "REMEDIATING"
    /\ call' = [Idle EXCEPT !.at = "recover", !.phase = "recover"]
    /\ UNCHANGED <<snap, run, ledger, decision, auth, output, evidence, originals, crashes, abandoned, locked, inspected>>

AdvanceReady ==
    /\ At("idle")
    /\ snap.status = "FINDINGS_READY"
    /\ run' = Reconciled
    /\ Goto("decide")
    /\ UNCHANGED <<snap, ledger, decision, auth, output, evidence, originals, crashes, abandoned, locked, inspected>>

(* A verdict ends the run. *)
Conclude ==
    /\ At("decide") /\ Free(LedgerLock)
    /\ Verdict # None
    /\ snap' = Lifecycle!Concluded(snap, Verdict, TerminalVerdict)
    /\ Goto("evidence")
    /\ UNCHANGED <<run, ledger, decision, auth, output, evidence, originals, crashes, abandoned, locked, inspected>>

(* No verdict: at the cycle limit every open finding is given up. *)
Exhaust ==
    /\ At("decide")
    /\ Verdict = None
    /\ snap.cycle >= MaxCycles
    /\ run' = GivenUp({f \in Finding : Open(f)})
    /\ Goto("exhausted")
    /\ UNCHANGED <<snap, ledger, decision, auth, output, evidence, originals, crashes, abandoned, locked, inspected>>

(* Seeded fault: one more remediation cycle is begun at the limit. *)
FaultDiagnosing == At("decide") /\ Verdict = None /\ snap.cycle =< MaxCycles

(* The options S3 is shown: Tier-1 ones while any is open, else Tier-2.  A *)
(* valid diagnosis applies or escalates some of them.                      *)
Diagnosing == At("decide") /\ Verdict = None /\ snap.cycle < MaxCycles
Exposed ==
    LET open == {f \in run.offers : Open(f)}
        tier1 == {f \in open : TierOf(f) = 1}
    IN IF tier1 # {} THEN tier1 ELSE open

SelectionOf(f) == [run |-> "run", option |-> f]

First(S) == {f \in S : \A g \in S : Priority(f) =< Priority(g)}

(* Seeded fault: the selection is not compared with the offered options. *)
FaultApplyTierOne ==
    /\ Diagnosing /\ Free(LedgerLock)
    /\ \E chosen \in (SUBSET {f \in Exposed : TierOf(f) = 1}) \ {{}} :
        /\ snap' = Lifecycle!Proceeded(snap, "REMEDIATING")
        /\ call' = [Idle EXCEPT !.at = "execute", !.phase = "tier1", !.todo = chosen]
    /\ UNCHANGED <<run, ledger, decision, auth, output, evidence, originals, crashes, abandoned, locked, inspected>>

ApplyTierOne ==
    /\ Diagnosing /\ Free(LedgerLock)
    /\ \E chosen \in (SUBSET {f \in Exposed : TierOf(f) = 1}) \ {{}} :
        \E first \in First(chosen) :
            /\ Lifecycle!SelectionAccepted("run", snap, SelectionOf(first))
            /\ snap' = Lifecycle!Proceeded(snap, "REMEDIATING")
            /\ call' = [Idle EXCEPT !.at = "execute", !.phase = "tier1", !.todo = chosen]
    /\ UNCHANGED <<run, ledger, decision, auth, output, evidence, originals, crashes, abandoned, locked, inspected>>

(* Nothing is applied or escalated: the open findings are given up. *)
NoAction ==
    /\ Diagnosing
    /\ run' = GivenUp({f \in Finding : Open(f)})
    /\ Goto("unactionable")
    /\ UNCHANGED <<snap, ledger, decision, auth, output, evidence, originals, crashes, abandoned, locked, inspected>>

ConcludeGivenUp ==
    /\ \/ At("exhausted") /\ Verdict = "BLOCKED"
       \/ At("unactionable") /\ Verdict # None
    /\ Free(LedgerLock)
    /\ snap' = Lifecycle!Concluded(snap, Verdict, TerminalVerdict)
    /\ Goto("evidence")
    /\ UNCHANGED <<run, ledger, decision, auth, output, evidence, originals, crashes, abandoned, locked, inspected>>

(* A Tier-2 option is escalated: the request is written to its own file,   *)
(* then into the run, and only then does the run wait for a human.         *)
NextDecision == 1 + Cardinality({d \in Decision : decision[d] # "NONE"})

Escalate ==
    /\ Diagnosing
    /\ ~Pending
    /\ \E f \in {g \in Exposed : TierOf(g) = 2} :
        /\ decision' = [decision EXCEPT ![NextDecision] = "PENDING"]
        /\ call' = [Idle EXCEPT !.at = "record_request", !.todo = {f}]
    /\ UNCHANGED <<snap, run, ledger, auth, output, evidence, originals, crashes, abandoned, locked, inspected>>

RecordRequest ==
    /\ At("record_request")
    /\ run' = [run EXCEPT !.requests[NextDecision - 1] = "PENDING"]
    /\ Goto("pause")
    /\ UNCHANGED <<snap, ledger, decision, auth, output, evidence, originals, crashes, abandoned, locked, inspected>>

Pause ==
    /\ At("pause") /\ Free(LedgerLock)
    /\ \E f \in call.todo :
        LET pending == [run |-> "run", decision |-> NextDecision - 1, option |-> f] IN
        /\ Lifecycle!PendingAccepted("run", pending)
        /\ snap' = Lifecycle!Paused(snap, pending)
    /\ Return
    /\ UNCHANGED <<run, ledger, decision, auth, output, evidence, originals, crashes, abandoned, locked, inspected>>

(* _render_evidence: the files, then their hashes in the run.              *)
WriteEvidence ==
    /\ At("evidence")
    /\ evidence' = [status |-> snap.status, verdict |-> snap.verdict,
                    completed |-> Completed, assets |-> run.assets,
                    intact |-> originals]
    /\ Goto("record_evidence")
    /\ UNCHANGED <<snap, run, ledger, decision, auth, output, originals, crashes, abandoned, locked, inspected>>

RecordEvidence ==
    /\ At("record_evidence")
    /\ run' = [run EXCEPT !.evidence = evidence]
    /\ Return
    /\ UNCHANGED <<snap, ledger, decision, auth, output, evidence, originals, crashes, abandoned, locked, inspected>>

-----------------------------------------------------------------------------
(* resolve_decision, on a pending request whose file is still PENDING. *)

Resolvable ==
    /\ At("idle")
    /\ snap.status = "AWAITING_HUMAN_DECISION"
    /\ decision[snap.decision] = "PENDING"

(* A denial: the file, the run, the transition, the withdrawn options. *)
Deny ==
    /\ Resolvable
    /\ Free(RequestLock(snap.decision))
    /\ decision' = [decision EXCEPT ![snap.decision] = "DENIED"]
    /\ Goto("record_denial")
    /\ abandoned' = FALSE
    /\ UNCHANGED <<snap, run, ledger, auth, output, evidence, originals, crashes, locked, inspected>>

(* Seeded fault: the evidence of a denial is rendered before the run ends. *)
FaultRecordDenial ==
    /\ At("record_denial")
    /\ run' = [GivenUp({snap.pending}) EXCEPT !.requests[snap.decision] = "DENIED"]
    /\ Goto("evidence")
    /\ UNCHANGED <<snap, ledger, decision, auth, output, evidence, originals, crashes, abandoned, locked, inspected>>

RecordDenial ==
    /\ At("record_denial")
    /\ run' = [GivenUp({snap.pending}) EXCEPT !.requests[snap.decision] = "DENIED"]
    /\ Goto("block")
    /\ UNCHANGED <<snap, ledger, decision, auth, output, evidence, originals, crashes, abandoned, locked, inspected>>

Block ==
    /\ At("block") /\ Free(LedgerLock)
    /\ snap' = Lifecycle!Resumed(snap, "BLOCKED")
    /\ Goto("withdraw")
    /\ UNCHANGED <<run, ledger, decision, auth, output, evidence, originals, crashes, abandoned, locked, inspected>>

WithdrawOptions ==
    /\ At("withdraw")
    /\ snap' = [snap EXCEPT !.options = {}]
    /\ Goto("evidence")
    /\ UNCHANGED <<run, ledger, decision, auth, output, evidence, originals, crashes, abandoned, locked, inspected>>

(* An approval: a new authorization, the file, the run, the transition on  *)
(* the authorization, and the one action it pays for.  (An approval that   *)
(* times out may be repeated for ever: no more are made than decisions.)   *)
Approve ==
    /\ Resolvable
    /\ Len(auth) + 1 \in Decision
    /\ auth' = Append(auth, [status |-> "ISSUED", decision |-> snap.decision,
                             option |-> snap.pending, by |-> 0])
    /\ call' = [Idle EXCEPT !.at = "approve", !.phase = "tier2",
                            !.todo = {snap.pending}, !.cap = Len(auth) + 1]
    /\ abandoned' = FALSE
    /\ UNCHANGED <<snap, run, ledger, decision, output, evidence, originals, crashes, locked, inspected>>

ApproveRequest ==
    /\ At("approve")
    /\ Free(RequestLock(snap.decision))
    /\ decision' = [decision EXCEPT ![snap.decision] = "APPROVED"]
    /\ Goto("record_approval")
    /\ UNCHANGED <<snap, run, ledger, auth, output, evidence, originals, crashes, abandoned, locked, inspected>>

RecordApproval ==
    /\ At("record_approval")
    /\ run' = [run EXCEPT !.requests[snap.decision] = "APPROVED"]
    /\ Goto("resume")
    /\ UNCHANGED <<snap, ledger, decision, auth, output, evidence, originals, crashes, abandoned, locked, inspected>>

Resume ==
    LET x == auth[call.cap] IN
    /\ At("resume") /\ Free(LedgerLock)
    /\ Lifecycle!AuthorizationAccepted("run", snap,
          [run |-> "run", decision |-> x.decision, option |-> x.option, status |-> "ISSUED"])
    /\ snap' = Lifecycle!Resumed(snap, "REMEDIATING")
    /\ Goto("execute")
    /\ UNCHANGED <<run, ledger, decision, auth, output, evidence, originals, crashes, abandoned, locked, inspected>>

-----------------------------------------------------------------------------
(* RemediationExecutor.execute: start, temporary output, promotion,        *)
(* successor asset, completion.                                            *)

Begin(f, cap) ==
    /\ ledger' = Append(ledger,
          [type |-> "ACTION_STARTED", act |-> Len(output) + 1, finding |-> f,
           auth |-> IF TierOf(f) = 2 THEN cap ELSE None])
    /\ output' = Append(output, [file |-> "none", covers |-> {}])

Execute ==
    /\ At("execute") /\ Free(LedgerLock)
    /\ \E f \in First(call.todo) :
        /\ TierOf(f) = 2 => auth[call.cap].status = "ISSUED"
        /\ Begin(f, call.cap)
        /\ auth' = IF TierOf(f) = 1 THEN auth
                   ELSE [auth EXCEPT ![call.cap].status = "CONSUMED",
                                     ![call.cap].by = Len(output) + 1]
        /\ call' = [call EXCEPT !.at = "write", !.todo = @ \ {f}, !.act = Len(output) + 1]
    /\ UNCHANGED <<snap, run, decision, evidence, originals, crashes, abandoned, locked, inspected>>

Executed ==
    /\ At("execute")
    /\ call.todo = {}
    /\ Goto(IF call.phase = "tier2" /\ call.act \in Failed THEN "finish" ELSE "refresh")
    /\ UNCHANGED <<snap, run, ledger, decision, auth, output, evidence, originals, crashes, abandoned, locked, inspected>>

(* _descriptor knows no output for a caption format no tool writes. *)
Describable(a) == Started(a).finding[1] \notin Unsupported

(* The temporary output is written and verified. *)
Write ==
    /\ At("write") /\ Describable(call.act)
    /\ output' = [output EXCEPT ![call.act] =
          [file |-> "temp", covers |-> IF IsManifest(call.act) THEN Package ELSE {}]]
    /\ Goto("promote")
    /\ UNCHANGED <<snap, run, ledger, decision, auth, evidence, originals, crashes, abandoned, locked, inspected>>

Promote ==
    /\ At("promote")
    /\ output' = [output EXCEPT ![call.act].file = "good"]
    /\ Goto("persist")
    /\ UNCHANGED <<snap, run, ledger, decision, auth, evidence, originals, crashes, abandoned, locked, inspected>>

(* Seeded fault: the successor gets the next action's identifier. *)
FaultPersist ==
    /\ At("persist")
    /\ run' = [run EXCEPT !.assets = @ \cup {call.act + 1}]
    /\ Goto("complete")
    /\ UNCHANGED <<snap, ledger, decision, auth, output, evidence, originals, crashes, abandoned, locked, inspected>>

Persist ==
    /\ At("persist")
    /\ run' = [run EXCEPT !.assets = @ \cup {call.act}]
    /\ Goto("complete")
    /\ UNCHANGED <<snap, ledger, decision, auth, output, evidence, originals, crashes, abandoned, locked, inspected>>

(* Where an action's end leads: the next option or unfinished action, or   *)
(* the bookkeeping of the refresh.                                         *)
Continuation ==
    CASE call.phase = "refresh" -> "refreshed"
      [] call.phase = "recover" -> "recover"
      [] call.phase = "integrity" -> "fail_run"
      [] OTHER -> "execute"

Complete ==
    /\ At("complete") /\ Free(LedgerLock)
    /\ ledger' = Append(ledger, [type |-> "ACTION_COMPLETED", act |-> call.act])
    /\ Goto(Continuation)
    /\ UNCHANGED <<snap, run, decision, auth, output, evidence, originals, crashes, abandoned, locked, inspected>>

(* Seeded fault: promoted output of a failed action is left in place. *)
FaultAbort ==
    /\ call.at \in {"write", "promote", "persist"}
    /\ Describable(call.act)
    /\ call.phase # "recover"
    /\ Goto("fail")
    /\ UNCHANGED <<snap, run, ledger, decision, auth, output, evidence, originals, crashes, abandoned, locked, inspected>>

(* An exception before the successor is persisted: temporary output is     *)
(* removed, promoted output quarantined, and the action fails.             *)
Abort ==
    /\ call.at \in {"write", "promote", "persist"}
    /\ Describable(call.act)
    /\ call.phase # "recover"
    /\ output' = [output EXCEPT ![call.act].file =
          IF At("persist") THEN "quarantined" ELSE "none"]
    /\ Goto("fail")
    /\ UNCHANGED <<snap, run, ledger, decision, auth, evidence, originals, crashes, abandoned, locked, inspected>>

(* Seeded fault: the capability of a failed action is not voided. *)
FaultVoid ==
    /\ At("fail")
    /\ Goto("failed")
    /\ UNCHANGED <<snap, run, ledger, decision, auth, output, evidence, originals, crashes, abandoned, locked, inspected>>

(* _fail_action: the authorization is voided, then the failure recorded. *)
Void ==
    LET x == Started(call.act).auth IN
    /\ At("fail")
    /\ x # None => Free(CapabilityLock(x))
    /\ auth' = IF x = None THEN auth ELSE [auth EXCEPT ![x].status = "VOID"]
    /\ Goto("failed")
    /\ UNCHANGED <<snap, run, ledger, decision, output, evidence, originals, crashes, abandoned, locked, inspected>>

Fail ==
    /\ At("failed") /\ Free(LedgerLock)
    /\ ledger' = Append(ledger, [type |-> "ACTION_FAILED", act |-> call.act])
    /\ Goto(Continuation)
    /\ UNCHANGED <<snap, run, decision, auth, output, evidence, originals, crashes, abandoned, locked, inspected>>

-----------------------------------------------------------------------------
(* RemediationExecutor.recover: close each unfinished action.              *)

(* The persisted successor still matches the output descriptor, which is   *)
(* computed from the current record: a manifest's predecessor is the       *)
(* current manifest, by now the successor itself.                          *)
Recovered(a) == Intact(a) /\ ~IsManifest(a)

Recover ==
    /\ At("recover")
    /\ \E a \in Unfinished :
        /\ \A b \in Unfinished : a =< b
        /\ Describable(a)
        /\ \/ /\ a \in run.assets /\ Recovered(a)
              /\ call' = [call EXCEPT !.at = "complete", !.act = a]
              /\ UNCHANGED output
           \/ /\ a \in run.assets /\ ~Recovered(a)
              /\ call' = [call EXCEPT !.at = "fail", !.act = a, !.phase = "integrity"]
              /\ output' = [output EXCEPT ![a].file = "quarantined"]
           \/ /\ a \notin run.assets /\ Intact(a)
              /\ call' = [call EXCEPT !.at = "persist", !.act = a]
              /\ UNCHANGED output
           \/ /\ a \notin run.assets /\ ~Intact(a)
              /\ call' = [call EXCEPT !.at = "fail", !.act = a]
              /\ output' = [output EXCEPT ![a].file =
                    IF @ = "damaged" THEN "quarantined" ELSE "none"]
    /\ UNCHANGED <<snap, run, ledger, decision, auth, evidence, originals, crashes, abandoned, locked, inspected>>

(* Seeded fault: recovery goes on with an unfinished action. *)
FaultRecoveryDone ==
    /\ At("recover")
    /\ Goto("refresh")
    /\ UNCHANGED <<snap, run, ledger, decision, auth, output, evidence, originals, crashes, abandoned, locked, inspected>>

RecoveryDone ==
    /\ At("recover")
    /\ Unfinished = {}
    /\ Goto("refresh")
    /\ UNCHANGED <<snap, run, ledger, decision, auth, output, evidence, originals, crashes, abandoned, locked, inspected>>

(* RecoveryIntegrityError *)
FailRun ==
    /\ At("fail_run") /\ Free(LedgerLock)
    /\ snap' = Lifecycle!Proceeded(snap, "FAILED")
    /\ Goto("evidence")
    /\ UNCHANGED <<run, ledger, decision, auth, output, evidence, originals, crashes, abandoned, locked, inspected>>

-----------------------------------------------------------------------------
(* Seeded fault: a normalized derivative does not make the manifest stale. *)
FaultStale ==
    /\ Checksums # None
    /\ Manifests # {} /\ Intact(CurrentManifest)
    /\ CurrentManifest \in Completed
    /\ \E a \in Completed :
          /\ ToolOf(Started(a).finding) \in {Rename, Convert}
          /\ CompletedAt(a) > CompletedAt(CurrentManifest)

(* _refresh_generated_manifest: an intact runtime manifest that a later    *)
(* completed action has made stale is written again.                       *)
Stale ==
    /\ Checksums # None
    /\ Manifests # {} /\ Intact(CurrentManifest)
    /\ CurrentManifest \in Completed
    /\ \E a \in Completed :
          /\ ~IsManifest(a)
          /\ CompletedAt(a) > CompletedAt(CurrentManifest)

RefreshFinding == <<"refresh", snap.cycle>>

(* The lookup by finding id finds the first record: a second one with the  *)
(* same id, after a refresh that failed in this cycle, changes nothing.    *)
RefreshManifest ==
    /\ At("refresh")
    /\ IF Stale
       THEN /\ run' = IF run.findings[RefreshFinding] = "UNRESOLVED" THEN run
                      ELSE [run EXCEPT !.findings[RefreshFinding] = "OPEN",
                                       !.offers = @ \cup {RefreshFinding}]
            /\ Goto("authorize_refresh")
       ELSE /\ Goto("finish")
            /\ UNCHANGED run
    /\ UNCHANGED <<snap, ledger, decision, auth, output, evidence, originals, crashes, abandoned, locked, inspected>>

(* The authority engine demands an OPEN finding. *)
BeginRefresh ==
    /\ At("authorize_refresh") /\ Free(LedgerLock)
    /\ Open(RefreshFinding)
    /\ Begin(RefreshFinding, 0)
    /\ call' = [call EXCEPT !.at = "write", !.phase = "refresh", !.act = Len(output) + 1]
    /\ UNCHANGED <<snap, run, decision, auth, evidence, originals, crashes, abandoned, locked, inspected>>

Refreshed ==
    /\ At("refreshed")
    /\ run' = [run EXCEPT
          !.findings[RefreshFinding] = IF call.act \in Failed THEN "UNRESOLVED" ELSE "RESOLVED",
          !.offers = @ \ {RefreshFinding}]
    /\ Goto("finish")
    /\ UNCHANGED <<snap, ledger, decision, auth, output, evidence, originals, crashes, abandoned, locked, inspected>>

Finish ==
    /\ At("finish")
    /\ run' = Reconciled
    /\ Goto("reinspect")
    /\ UNCHANGED <<snap, ledger, decision, auth, output, evidence, originals, crashes, abandoned, locked, inspected>>

(* Seeded fault: the call returns before the new cycle is inspected. *)
FaultReinspect ==
    LET completed == [run |-> "run", next_cycle |-> snap.cycle + 1] IN
    /\ At("reinspect") /\ Free(LedgerLock)
    /\ Lifecycle!CompletionAccepted("run", snap, completed)
    /\ snap' = Lifecycle!Reinspected(snap, completed)
    /\ Return
    /\ UNCHANGED <<run, ledger, decision, auth, output, evidence, originals, crashes, abandoned, locked, inspected>>

Reinspect ==
    LET completed == [run |-> "run", next_cycle |-> snap.cycle + 1] IN
    /\ At("reinspect") /\ Free(LedgerLock)
    /\ Lifecycle!CompletionAccepted("run", snap, completed)
    /\ snap' = Lifecycle!Reinspected(snap, completed)
    /\ Goto("inspect")
    /\ UNCHANGED <<run, ledger, decision, auth, output, evidence, originals, crashes, abandoned, locked, inspected>>

-----------------------------------------------------------------------------
(* Where the next write appends to the ledger, under its lock.             *)
Appending ==
    \/ call.at \in {"prepare", "ready", "exhausted", "unactionable", "pause", "block", "resume",
                    "complete", "failed", "fail_run", "authorize_refresh", "reinspect"}
    \/ At("decide") /\ Verdict # None
    \/ At("execute") /\ call.todo # {}

(* An exception leaves the call, and with it the request: an invalid       *)
(* diagnosis, a selection the snapshot does not offer, an escalation while *)
(* a request is pending; a verdict that stays non-terminal; an action      *)
(* whose output cannot be described, when it is executed and again when it *)
(* is recovered; a refresh the authority engine refuses (PermissionError); *)
(* a lock file that was left behind (TimeoutError).                        *)
Raises ==
    /\ \/ Diagnosing
       \/ At("exhausted") /\ Verdict # "BLOCKED"
       \/ At("unactionable") /\ Verdict = None
       \/ At("write") /\ ~Describable(call.act)
       \/ At("recover") /\ \E a \in Unfinished :
              ~Describable(a) /\ \A b \in Unfinished : a =< b
       \/ At("authorize_refresh") /\ ~Open(RefreshFinding)
       \/ Appending /\ ~Free(LedgerLock)
       \/ At("approve") /\ ~Free(RequestLock(snap.decision))
       \/ At("fail") /\ ~Free(CapabilityLock(Started(call.act).auth))
    /\ Return
    /\ abandoned' = TRUE
    /\ UNCHANGED <<snap, run, ledger, decision, auth, output, evidence, originals, crashes, locked, inspected>>

(* The lock files a kill may leave for others to wait for: the ledger's,   *)
(* that of a request still to be answered, and that of the capability      *)
(* being consumed or voided.                                               *)
Held ==
    {LedgerLock}
    \cup {RequestLock(d) : d \in {e \in Decision : e = snap.decision /\ decision[e] = "PENDING"}}
    \cup {CapabilityLock(x) : x \in {y \in DOMAIN auth :
              call.at \in {"write", "fail", "failed"} /\ Started(call.act).auth = y}}

(* The process is killed, or another exception abandons the call.  A kill  *)
(* may leave the promoted output of an unfinished action damaged, and the  *)
(* lock file of the file it was changing, before the change or after it.   *)
Crash ==
    /\ crashes < MaxCrashes
    /\ crashes' = crashes + 1
    /\ abandoned' = TRUE
    /\ \E left \in SUBSET Held :
          Cardinality(left) =< 1 /\ locked' = locked \cup left
    /\ \E damaged \in SUBSET {a \in Unfinished : Intact(a) /\ ~At("idle")} :
          output' = [a \in Actions |->
              IF a \in damaged THEN [output[a] EXCEPT !.file = "damaged"] ELSE output[a]]
    /\ Return
    /\ UNCHANGED <<snap, run, ledger, decision, auth, evidence, originals, inspected>>

(* Someone outside the program replaces an original. *)
Tamper ==
    /\ originals
    /\ originals' = FALSE
    /\ UNCHANGED <<snap, run, ledger, decision, auth, output, evidence, call, crashes, abandoned, locked, inspected>>

Advance == AdvanceTerminal \/ AdvanceRemediating \/ AdvanceReady

Select == ApplyTierOne \/ Escalate \/ NoAction

(* The writes a call makes once it has chosen its way. *)
Work ==
    \/ Prepare \/ Inspect \/ FindingsReady \/ OfferOptions
    \/ Conclude \/ Exhaust \/ ConcludeGivenUp
    \/ RecordRequest \/ Pause \/ WriteEvidence \/ RecordEvidence
    \/ RecordDenial \/ Block \/ WithdrawOptions
    \/ ApproveRequest \/ RecordApproval \/ Resume
    \/ Execute \/ Executed \/ Write \/ Promote \/ Persist \/ Complete
    \/ Abort \/ Void \/ Fail
    \/ Recover \/ RecoveryDone \/ FailRun
    \/ RefreshManifest \/ BeginRefresh \/ Refreshed \/ Finish \/ Reinspect

Next ==
    \/ Advance \/ Select \/ Raises \/ Work
    \/ Deny \/ Approve
    \/ Crash \/ Tamper

(* A call that was begun runs on until it returns or raises.  create_run   *)
(* and submit_decision call advance in a loop, until the run has ended or  *)
(* waits for a human: but not again when a call was abandoned, as no route *)
(* resumes a run.  (That others, a test or an evaluation, may call advance *)
(* at any time is part of Next.)  Humans need not answer.                  *)
Serves == ~abandoned /\ snap.status \notin Terminal /\ Advance

Fairness == WF_vars(Select \/ Raises \/ Work) /\ WF_vars(Serves)

Spec == Init /\ [][Next]_vars /\ Fairness

-----------------------------------------------------------------------------
(* Properties *)

FindingStatus == {"NONE", "OPEN", "RESOLVED", "UNRESOLVED"}
RequestStatus == {"NONE", "PENDING", "APPROVED", "DENIED"}

(* The durable state and the call have their types. *)
TypeOK ==
    /\ snap \in [status : Lifecycle!Status, cycle : Cycle, options : SUBSET Option,
                 decision : Decision \cup {None}, pending : Option \cup {None},
                 verdict : Lifecycle!TerminalVerdict \cup {None}]
    /\ run.findings \in [Finding -> FindingStatus] /\ run.offers \subseteq Finding
    /\ run.passed \subseteq Req /\ run.assets \subseteq Actions
    /\ run.requests \in [Decision -> RequestStatus]
    /\ decision \in [Decision -> RequestStatus]
    /\ \A a \in Actions :
          /\ output[a].file \in {"none", "temp", "good", "damaged", "quarantined"}
          /\ output[a].covers \subseteq Actions
    /\ call.todo \subseteq Finding /\ call.act \in Actions \cup {0}
    /\ call.cap \in DOMAIN auth \cup {0}
    /\ crashes \in 0..MaxCrashes

(* What is declared ready is what was inspected: every blocking check      *)
(* passed on exactly the assets the package consists of, the manifest      *)
(* lists them, nothing is half done and nobody is still being asked.       *)
DeliveryVerified ==
    snap.status = "DELIVERY_READY" =>
        /\ SpecResolved /\ Blocking \subseteq run.passed
        /\ inspected = run.assets
        /\ Unfinished = {} /\ ~Pending
        /\ Checksums \in Blocking => ChecksumsMatch

(* Actions are closed before the run moves on: at most one is unfinished,  *)
(* and only while the run is REMEDIATING.                                  *)
NoDanglingAction ==
    /\ Cardinality(Unfinished) =< 1
    /\ snap.status # "REMEDIATING" => Unfinished = {}

(* Evidence never precedes reality: an action ends once; a completed one   *)
(* has its output promoted, intact and recorded as an asset; a failed one  *)
(* has left no output in place.                                            *)
EndsMatchOutputs ==
    /\ \A i, j \in DOMAIN ledger \ Starts : ledger[i].act = ledger[j].act => i = j
    /\ \A a \in Completed : Intact(a) /\ a \in run.assets
    /\ \A a \in Failed : output[a].file \in {"none", "quarantined"}

(* A Tier-2 action runs on a capability a human granted for exactly its    *)
(* option, spent on it alone; its failure voids the capability, and the    *)
(* capability of a completed action stays consumed.  However often a call  *)
(* is repeated, one decision pays for one action.                          *)
PaidOnce ==
    \A i \in Starts : ledger[i].auth # None =>
        LET e == ledger[i] x == auth[e.auth] IN
        /\ x.by = e.act /\ x.option = e.finding
        /\ decision[x.decision] = "APPROVED"
        /\ \A j \in Starts \ {i} : ledger[j].auth # None =>
              auth[ledger[j].auth].decision # x.decision
        /\ e.act \in Failed => x.status = "VOID"
        /\ e.act \in Completed => x.status = "CONSUMED"

(* An option is executed at most once, however often the run is recovered, *)
(* and a requirement whose remediation failed twice is not tried again.    *)
AttemptsBounded ==
    /\ \A i, j \in Starts :
          ledger[i].finding = ledger[j].finding /\ ledger[i].finding[1] # "refresh" => i = j
    /\ \A q \in Req :
          Cardinality({a \in Failed : Started(a).finding[1] = q}) =< 2

(* The remediation counts of a verdict are those of the ledger. *)
CountsFromLedger == snap.verdict # None => run.counts = LedgerCounts

(* A package mutation never outruns the runtime's manifest: when findings  *)
(* become ready, an intact manifest lists every completed mutation, unless *)
(* writing it again has failed.                                            *)
ManifestFollows ==
    /\ At("ready") /\ Checksums # None /\ ManifestPresent
    /\ \A c \in Cycle : run.findings[<<"refresh", c>>] # "UNRESOLVED"
    => Package \cap Completed \subseteq output[CurrentManifest].covers

(* Recorded evidence is the final state: nothing it reports changes later. *)
EvidenceFinal ==
    run.evidence # None =>
        /\ run.evidence.status = snap.status /\ snap.status \in Terminal
        /\ run.evidence.verdict = snap.verdict
        /\ run.evidence.completed = Completed
        /\ run.evidence.assets = run.assets

(* The transitions a call asks for after it has changed files are accepted *)
(* by the state machine, and exhaustion always blocks.                     *)
NeverRefusedLate ==
    /\ At("reinspect") => snap.cycle < MaxCycles
    /\ At("resume") => snap.pending # None /\ auth[call.cap].decision = snap.decision
    /\ At("exhausted") => Verdict = "BLOCKED"
    /\ call.at \in {"execute", "write"} /\ call.phase = "tier2" /\ call.todo # {} =>
          auth[call.cap].status = "ISSUED"

(* The runtime only takes the steps of the run state machine: this is      *)
(* Lifecycle!Spec, but for the steps that leave the snapshot as it is.     *)
ImplementsLifecycle ==
    Lifecycle!Init /\ [][snap' # snap => Lifecycle!Next]_vars

(* A run that has ended gets its evidence, whichever way it ended, unless  *)
(* the call that ended it is abandoned; then the next call that looks at   *)
(* the ended run completes the evidence, if it is not abandoned in turn.   *)
EvidenceArrives == snap.status \in Terminal ~> EvidenceComplete \/ abandoned

(* A request that is not abandoned brings the run to an end or to a        *)
(* question a human can answer: whatever the diagnosis selects, whichever  *)
(* actions fail, and whatever abandoned requests before it have left.      *)
Settled ==
    \/ snap.status \in Terminal
    \/ snap.status = "AWAITING_HUMAN_DECISION" /\ decision[snap.decision] = "PENDING"
Settles == []<>(Settled \/ abandoned)

-----------------------------------------------------------------------------
(* What the documents say and the code does not keep. *)

(* An output that was promoted intact and persisted as an asset is never   *)
(* quarantined: recovery commits it.                                       *)
RecoveryCommits ==
    [][ \A a \in run.assets :
          output[a].file = "good" => output'[a].file # "quarantined" ]_vars

(* A run never stays in the middle of an inspection: a crash fails it. *)
InspectionEnds == snap.status = "INSPECTING" ~> snap.status # "INSPECTING"
=============================================================================
