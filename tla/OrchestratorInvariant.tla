------------------------ MODULE OrchestratorInvariant ------------------------
(***************************************************************************)
(* The inductive invariant of Orchestrator: what holds between any two     *)
(* durable writes, wherever the process is killed.  The properties are     *)
(* about the ends of calls; that they hold there depends on what the files *)
(* say at every place in between.                                          *)
(*                                                                         *)
(* The layers, each proved from the ones before it: types; control, where  *)
(* a call may be; actions, one at a time, with their files; requests and   *)
(* the capabilities they lead to; findings and attempts; what a verdict    *)
(* and its evidence rest on; and the manifest.                             *)
(***************************************************************************)
EXTENDS Orchestrator

-----------------------------------------------------------------------------
(* The labels of a call and the phases of a remediation, as the actions    *)
(* assign them.                                                            *)
Label ==
    {"idle", "prepare", "inspect", "ready", "offer", "decide", "exhausted", "unactionable",
     "record_request", "pause", "evidence", "record_evidence", "record_denial", "block",
     "withdraw", "approve", "record_approval", "resume", "execute", "write", "promote",
     "persist", "complete", "fail", "failed", "recover", "fail_run", "refresh",
     "authorize_refresh", "refreshed", "finish", "reinspect"}

Phase == {None, "tier1", "tier2", "refresh", "recover", "integrity"}

Status == Lifecycle!Status

(* The durable records.                                                    *)
Snapshot ==
    [status : Status, cycle : Cycle, options : SUBSET Option,
     decision : Decision \cup {None}, pending : Option \cup {None},
     verdict : Lifecycle!TerminalVerdict \cup {None}]

Evidence ==
    [status : Status, verdict : Lifecycle!TerminalVerdict \cup {None},
     completed : SUBSET Nat, assets : SUBSET Nat, intact : BOOLEAN]

RunRecord ==
    [findings : [Finding -> FindingStatus], offers : SUBSET Finding, passed : SUBSET Req,
     requests : [Decision -> RequestStatus], assets : SUBSET Nat,
     counts : [autonomous : Nat, authorized : Nat], evidence : Evidence \cup {None}]

(* The ledger holds starts and ends of actions; a start names its finding  *)
(* and, for a Tier-2 action, the authorization it consumed.                *)
StartEvent ==
    [type : {"ACTION_STARTED"}, act : Nat, finding : Finding, auth : Nat \cup {None}]
EndEvent == [type : {"ACTION_COMPLETED", "ACTION_FAILED"}, act : Nat]

Capability ==
    [status : {"ISSUED", "CONSUMED", "VOID"}, decision : Decision, option : Option, by : Nat]

File == {"none", "temp", "good", "damaged", "quarantined"}

OutputRecord == [file : File, covers : SUBSET Nat]

CallRecord == [at : Label, phase : Phase, todo : SUBSET Finding, act : Nat, cap : Nat]

(* Every variable has its type.                                            *)
Typed ==
    /\ snap \in Snapshot
    /\ run \in RunRecord
    /\ ledger \in Seq(StartEvent \cup EndEvent)
    /\ auth \in Seq(Capability)
    /\ output \in Seq(OutputRecord)
    /\ decision \in [Decision -> RequestStatus]
    /\ evidence \in Evidence \cup {None}
    /\ originals \in BOOLEAN
    /\ call \in CallRecord
    /\ crashes \in 0..MaxCrashes
    /\ abandoned \in BOOLEAN
    /\ locked \in SUBSET ({"ledger", "request", "authorization"} \X Nat)
    /\ inspected \in SUBSET Nat

-----------------------------------------------------------------------------
(* Where the call is: inside one action of the executor, anywhere in a     *)
(* remediation, choosing, or settling a human's answer.                    *)
Doing == {"write", "promote", "persist", "complete", "fail", "failed"}
Remedying == Doing \cup {"execute", "recover", "fail_run", "refresh", "authorize_refresh",
                         "refreshed", "finish", "reinspect"}
Judging == {"offer", "decide", "exhausted", "unactionable", "record_request", "pause"}
Answering == {"record_denial", "block", "approve", "record_approval", "resume"}
Approving == {"approve", "record_approval", "resume"}

(* A call is at a place only in the statuses the runtime reaches it in:    *)
(* what it was begun for still holds when it gets there.                   *)
Placed ==
    /\ At("prepare") => snap.status \in DOMAIN Successor
    /\ call.at \in {"inspect", "ready"} => snap.status = "INSPECTING"
    /\ call.at \in Judging => snap.status = "FINDINGS_READY"
    /\ call.at \in Answering => snap.status = "AWAITING_HUMAN_DECISION"
    /\ call.at \in Remedying => snap.status = "REMEDIATING"
    /\ At("withdraw") => snap.status = "BLOCKED"
    /\ call.at \in {"evidence", "record_evidence"} => snap.status \in Terminal

(* What the current action belongs to.                                     *)
Phased ==
    /\ call.at \in Doing => call.phase # None
    /\ call.phase = "integrity" /\ call.at \in Doing => call.at \in {"fail", "failed"}
    /\ At("execute") => call.phase \in {"tier1", "tier2"}
    /\ At("recover") => call.phase = "recover"
    /\ call.at \in Approving => call.phase = "tier2" /\ call.todo = {snap.pending}

(* The snapshot: a decision is pending exactly while the run waits, only   *)
(* an ended run has a verdict, and a remediation that is begun or asked    *)
(* for may still be followed by another inspection.                        *)
Coherent ==
    /\ snap.status = "AWAITING_HUMAN_DECISION" <=> snap.decision # None
    /\ snap.status = "AWAITING_HUMAN_DECISION" <=> snap.pending # None
    /\ snap.verdict # None => snap.status \in Terminal
    /\ \/ snap.status \in {"REMEDIATING", "AWAITING_HUMAN_DECISION"}
       \/ call.at \in {"record_request", "pause"}
       => snap.cycle < MaxCycles

-----------------------------------------------------------------------------
(* Every action has one start and at most one end; assets, listings and    *)
(* the call name actions only.                                             *)
Logged ==
    /\ \A i \in DOMAIN ledger : ledger[i].act \in Actions
    /\ \A a \in Actions : \E i \in Starts : ledger[i].act = a
    /\ \A i, j \in Starts : ledger[i].act = ledger[j].act => i = j
    /\ \A i, j \in DOMAIN ledger \ Starts : ledger[i].act = ledger[j].act => i = j
    /\ run.assets \subseteq Actions
    /\ \A a \in Actions : output[a].covers \subseteq Actions
    /\ call.act \in Actions \cup {0}

(* At most the last action is unfinished, only while the run remediates,   *)
(* and it is the one the call is executing.                                *)
OneAtATime ==
    /\ \A a \in Unfinished : a = Len(output)
    /\ snap.status # "REMEDIATING" => Unfinished = {}
    /\ call.at \in Doing => call.act \in Unfinished
    /\ call.at \in Remedying \ (Doing \cup {"recover"}) => Unfinished = {}

(* Before the first inspection nothing was executed.                       *)
Unbegun == snap.status \in Lifecycle!Preparing => Actions = {}

(* Files agree with the ledger: the output of a completed action is intact *)
(* and an asset, a failed one has left none, and the file of the current   *)
(* action is what the place of the call says.                              *)
Filed ==
    /\ \A a \in Completed : Intact(a) /\ a \in run.assets
    /\ \A a \in Failed : output[a].file \in {"none", "quarantined"}
    /\ At("write") => output[call.act].file = "none"
    /\ At("promote") => output[call.act].file = "temp"
    /\ call.at \in {"write", "promote", "persist"} => call.act \notin run.assets
    /\ call.at \in {"persist", "complete"} => output[call.act].file = "good"
    /\ At("complete") => call.act \in run.assets
    /\ call.at \in {"fail", "failed"} => output[call.act].file \in {"none", "quarantined"}

-----------------------------------------------------------------------------
(* Every request file but the newest was answered in a cycle of its own or *)
(* left behind by a crash, and a run that still has one it does not wait   *)
(* for makes no other: the bound that keeps the next request number in     *)
(* Decision.                                                               *)
Budget ==
    snap.cycle + crashes +
        IF \/ snap.status \in {"REMEDIATING", "AWAITING_HUMAN_DECISION"} \cup Terminal
           \/ call.at \in {"record_request", "pause"}
           \/ Pending
        THEN 1 ELSE 0

(* Request files are written in order, and the file of the decision the    *)
(* call is about has the status its place says.                            *)
Asked ==
    /\ NextDecision \in Nat /\ NextDecision >= 1
    /\ NextDecision - 1 =< Budget
    /\ \A d \in Decision : decision[d] # "NONE" <=> d < NextDecision
    /\ call.at \in {"record_request", "pause"} =>
          NextDecision - 1 \in Decision /\ decision[NextDecision - 1] = "PENDING"
    /\ snap.status = "AWAITING_HUMAN_DECISION" => decision[snap.decision] # "NONE"
    /\ At("approve") => decision[snap.decision] = "PENDING"
    /\ call.at \in {"record_approval", "resume"} => decision[snap.decision] = "APPROVED"
    /\ call.at \in {"record_denial", "block"} => decision[snap.decision] = "DENIED"

Escalating == call.at \in {"record_request", "pause"}

(* A request is PENDING in the run only while its decision is awaited, or  *)
(* where a call was abandoned between the request and the pause; then      *)
(* every open offer is Tier-2, so that the next verdict is still open.     *)
Requested ==
    /\ \A d \in Decision : run.requests[d] = "PENDING" =>
          \/ /\ snap.status = "AWAITING_HUMAN_DECISION" /\ d = snap.decision
             /\ call.at \notin {"resume", "block"}
          \/ /\ snap.status = "FINDINGS_READY" /\ snap.cycle < MaxCycles
             /\ \A f \in run.offers : Open(f) => TierOf(f) = 2
             /\ ~At("record_request") /\ ~At("exhausted")
             /\ At("pause") => d = NextDecision - 1
    /\ At("pause") => Pending
    /\ Escalating => \A f \in run.offers : Open(f) => TierOf(f) = 2
    /\ Escalating => \E f \in run.offers \cap Option :
          call.todo = {f} /\ TierOf(f) = 2 /\ f[2] = snap.cycle
    /\ snap.status = "AWAITING_HUMAN_DECISION" =>
          TierOf(snap.pending) = 2 /\ snap.pending[2] = snap.cycle

(* The capability in the call's hand: issued for the pending option until  *)
(* the run resumes, and for an approved decision that has paid for no      *)
(* action when a Tier-2 option is executed.                                *)
InHand ==
    /\ call.at \in Approving =>
          /\ call.cap \in DOMAIN auth
          /\ auth[call.cap] = [status |-> "ISSUED", decision |-> snap.decision,
                               option |-> snap.pending, by |-> 0]
    /\ At("execute") /\ call.phase = "tier2" /\ call.todo # {} =>
          /\ call.cap \in DOMAIN auth
          /\ auth[call.cap].status = "ISSUED"
          /\ call.todo = {auth[call.cap].option}
          /\ decision[auth[call.cap].decision] = "APPROVED"
          /\ \A i \in Starts : ledger[i].auth # None =>
                auth[ledger[i].auth].decision # auth[call.cap].decision
    /\ call.at \in Doing /\ call.phase = "tier2" => call.todo = {}
    /\ call.at \in Doing \cup {"execute"} /\ call.phase = "tier1" =>
          \A f \in call.todo : TierOf(f) = 1
    /\ At("execute") /\ call.phase = "tier2" => \A f \in call.todo : TierOf(f) = 2
    /\ call.cap \in DOMAIN auth \cup {0}

(* An authorized action names a capability that names it back; no two      *)
(* actions were paid by one decision; its status follows the action's end, *)
(* also between voiding a capability and recording the failure.            *)
Paid ==
    /\ \A k \in DOMAIN auth : auth[k].status = "ISSUED" => auth[k].by = 0
    /\ \A i \in Starts : ledger[i].auth # None =>
          LET e == ledger[i] x == auth[e.auth] IN
          /\ e.auth \in DOMAIN auth
          /\ x.by = e.act /\ x.option = e.finding
          /\ decision[x.decision] = "APPROVED"
          /\ x.decision # snap.decision
          /\ \A j \in Starts \ {i} : ledger[j].auth # None =>
                auth[ledger[j].auth].decision # x.decision
          /\ e.act \in Failed => x.status = "VOID"
          /\ e.act \in Completed => x.status = "CONSUMED"
          /\ e.act \in Unfinished =>
                \/ x.status = "CONSUMED" /\ ~At("failed")
                \/ x.status = "VOID" /\ ~At("write") /\ output[e.act].file \in {"none", "quarantined"}

-----------------------------------------------------------------------------
(* Offers are findings of this cycle or earlier ones; open findings are of *)
(* the current cycle; a selected option is offered and was never started.  *)
Offered ==
    /\ run.offers \subseteq Option \cup {f \in Finding : f[1] = "refresh"}
    /\ \A f \in run.offers : f[2] =< snap.cycle
    /\ \/ At("ready") \/ snap.status \in {"FINDINGS_READY", "AWAITING_HUMAN_DECISION"}
       => \A f \in Finding : Open(f) => f[1] # "refresh" /\ f[2] = snap.cycle
    /\ snap.status = "AWAITING_HUMAN_DECISION" /\ decision[snap.decision] # "DENIED" =>
          snap.pending \in run.offers
    /\ call.at \in Doing \cup {"execute"} /\ call.phase \in {"tier1", "tier2"} =>
          /\ \A f \in call.todo : f \in run.offers \cap Option /\ f[2] = snap.cycle
          /\ \A i \in Starts : ledger[i].finding \notin call.todo

(* Starts are of offered findings, of earlier cycles outside a             *)
(* remediation, and no two are of the same option.                         *)
Tried ==
    /\ \A i \in Starts : ledger[i].finding[1] # "refresh" => ledger[i].finding \in run.offers
    /\ \A i \in Starts :
          /\ ledger[i].finding[2] =< snap.cycle
          /\ snap.status \notin {"REMEDIATING"} \cup Terminal => ledger[i].finding[2] < snap.cycle
          /\ ledger[i].act \in Unfinished => ledger[i].finding[2] = snap.cycle
    /\ \A i, j \in Starts :
          ledger[i].finding = ledger[j].finding /\ ledger[i].finding[1] # "refresh" => i = j

(* The failed actions on a requirement, and those of earlier cycles.       *)
FailedOn(q) == {a \in Failed : Started(a).finding[1] = q}
FailedBefore(q) == {a \in FailedOn(q) : Started(a).finding[2] < snap.cycle}

(* A requirement offered in this cycle has failed at most once in earlier  *)
(* ones, and none has failed three times.                                  *)
TwoAttempts ==
    /\ \A f \in run.offers : f[1] # "refresh" /\ f[2] = snap.cycle =>
          \A a, b \in FailedBefore(f[1]) : a = b
    /\ \A q \in Req : \A a, b, c \in FailedOn(q) : a = b \/ a = c \/ b = c

-----------------------------------------------------------------------------
(* What follows from the last inspection: the checks that passed are about *)
(* the package as it still is. A ready run has passed them all; at the     *)
(* cycle limit some blocking check has not passed.                         *)
Judged == snap.status \in {"FINDINGS_READY", "AWAITING_HUMAN_DECISION", "DELIVERY_READY"}

Inspected ==
    /\ At("ready") \/ Judged =>
          /\ inspected = run.assets
          /\ Checksums # None => (Checksums \in run.passed <=> ChecksumsMatch)
    /\ snap.status = "DELIVERY_READY" => SpecResolved /\ Blocking \subseteq run.passed
    /\ At("exhausted") => /\ ~(Blocking \subseteq run.passed)
                          /\ \A f \in Finding : ~Open(f)
                          /\ snap.cycle >= MaxCycles

(* Counts are those of the ledger where a verdict is computed.             *)
Counted ==
    snap.verdict # None \/ call.at \in {"decide", "exhausted", "unactionable"} =>
        run.counts = LedgerCounts

(* Evidence, in the files and in the run, is of the ended run.             *)
Final(e) ==
    e # None =>
        /\ e.status = snap.status /\ snap.status \in Terminal
        /\ e.verdict = snap.verdict
        /\ e.completed = Completed
        /\ e.assets = run.assets

Reported == Final(run.evidence) /\ Final(evidence)

-----------------------------------------------------------------------------
(* A refresh of the manifest has failed for good.                          *)
Unrefreshed == \E c \in Cycle : run.findings[<<"refresh", c>>] = "UNRESOLVED"

(* The last manifest has the highest number; a completed manifest lists    *)
(* every completed mutation before it, an unfinished one all so far.       *)
Covered ==
    /\ Manifests # {} => \E m \in Manifests : \A b \in Manifests : b =< m
    /\ \A m \in Completed, a \in Completed :
          IsManifest(m) /\ ~IsManifest(a) /\ CompletedAt(a) < CompletedAt(m)
             => a \in output[m].covers
    /\ \A m \in Unfinished : IsManifest(m) /\ output[m].file \in {"temp", "good", "damaged"} =>
          Package \cap Completed \subseteq output[m].covers

(* The manifest is current or was given up, except where an action has     *)
(* just completed and the refresh is still to come.                        *)
Fresh == Stale => Unrefreshed

Refreshing ==
    /\ snap.status \in {"INSPECTING", "FINDINGS_READY", "AWAITING_HUMAN_DECISION"} => Fresh
    /\ call.at \in {"finish", "reinspect"} => Fresh
    /\ At("execute") /\ call.phase = "tier2" /\ (call.todo # {} \/ call.act \in Failed) => Fresh
    /\ call.at \in Doing \ {"complete"} /\ call.phase = "tier2" => Fresh /\ ~IsManifest(call.act)
    /\ call.at \in Doing /\ call.phase = "refresh" => Started(call.act).finding = RefreshFinding
    /\ At("refreshed") => /\ call.act \in Completed \cup Failed
                          /\ Started(call.act).finding = RefreshFinding
                          /\ call.act \in Completed => ~Stale

(* The inductive invariant.                                                *)
IInv ==
    /\ Typed /\ Placed /\ Phased /\ Coherent /\ Logged /\ OneAtATime /\ Unbegun /\ Filed
    /\ Asked /\ Requested /\ InHand /\ Paid
    /\ Offered /\ Tried /\ TwoAttempts
    /\ Inspected /\ Counted /\ Reported /\ Covered /\ Refreshing
=============================================================================
