---------------------- MODULE OrchestratorActionProofs ----------------------
(***************************************************************************)
(* The invariant of Orchestrator is inductive: types, control, actions and *)
(* their files, requests and payments.  OrchestratorProofs has the other   *)
(* layers and the theorems.                                                *)
(*                                                                         *)
(* Each layer has one lemma ...Step: every step from a state of the whole  *)
(* invariant keeps the layer, given the layers before it after the step.   *)
(***************************************************************************)
EXTENDS OrchestratorInvariant, TLAPS, FiniteSetTheorems, SequenceTheorems

-----------------------------------------------------------------------------
(* None is no request, option, verdict or number.                          *)
LEMMA NoneFacts ==
    /\ None \notin Decision
    /\ None \notin Option
    /\ None \notin {"DELIVERY_READY", "BLOCKED"}
    /\ None \notin Nat
  BY OrchestratorAssumption, NoneAssumption DEF Decision, Option

(* Options are findings; a finding's tier is 1 or 2, and that of a refresh *)
(* is 1.                                                                   *)
LEMMA FindingFacts ==
    /\ Option \subseteq Finding
    /\ \A f \in Finding : TierOf(f) \in {1, 2}
    /\ \A f \in Finding : f[1] = "refresh" => TierOf(f) = 1 /\ f \notin Option
  BY OrchestratorAssumption DEF Option, Finding, TierOf, ToolOf, Manifest, Normalize

(* terminal.compute is open, ready or blocked.                             *)
LEMMA VerdictKinds ==
    /\ Verdict \in {None, "DELIVERY_READY", "BLOCKED"}
    /\ Verdict # None => Verdict \in {"DELIVERY_READY", "BLOCKED"}
  BY DEF Verdict

(* A sequence whose elements are replaced is a sequence of the same        *)
(* length.                                                                 *)
LEMMA Rewritten ==
    ASSUME NEW S, NEW s \in Seq(S), NEW t \in [DOMAIN s -> S]
    PROVE  t \in Seq(S) /\ Len(t) = Len(s) /\ DOMAIN t = DOMAIN s
  <1>1. DOMAIN s = 1..Len(s) /\ Len(s) \in Nat
    OBVIOUS
  <1> QED
    BY <1>1, SeqDef

(* The ledger's events by kind; ended actions are actions, and finitely    *)
(* many.                                                                   *)
LEMMA EventFacts ==
    ASSUME Typed, Logged
    PROVE  /\ \A i \in DOMAIN ledger : ledger[i].act \in Nat
           /\ \A i \in Starts : ledger[i] \in StartEvent
           /\ \A i \in DOMAIN ledger \ Starts : ledger[i] \in EndEvent
           /\ Completed \subseteq Actions /\ Failed \subseteq Actions /\ Actions \subseteq Nat
           /\ IsFiniteSet(DOMAIN ledger) /\ IsFiniteSet(Actions)
           /\ IsFiniteSet(Completed) /\ IsFiniteSet(Failed)
  <1>1. DOMAIN ledger = 1..Len(ledger) /\ Len(ledger) \in Nat /\ Actions = 1..Len(output) /\ Len(output) \in Nat
    BY DEF Typed, Actions
  <1>2. \A i \in DOMAIN ledger : ledger[i] \in StartEvent \cup EndEvent
    BY DEF Typed
  <1>3. IsFiniteSet(DOMAIN ledger) /\ IsFiniteSet(Actions)
    BY <1>1, FS_Interval
  <1>4. Completed \subseteq Actions /\ Failed \subseteq Actions
    BY DEF Logged, Completed, Failed, Ends
  <1>5. IsFiniteSet(Completed) /\ IsFiniteSet(Failed)
    BY <1>3, <1>4, FS_Subset
  <1>6. ASSUME NEW i \in DOMAIN ledger
        PROVE  /\ ledger[i].act \in Nat
               /\ i \in Starts => ledger[i] \in StartEvent
               /\ i \notin Starts => ledger[i] \in EndEvent
    BY <1>2 DEF StartEvent, EndEvent, Starts
  <1> QED
    BY <1>1, <1>3, <1>4, <1>5, <1>6 DEF Starts

(* The counts of the ledger are numbers.                                   *)
LEMMA CountsTyped == Typed /\ Logged => LedgerCounts \in [autonomous : Nat, authorized : Nat]
  <1> SUFFICES ASSUME Typed, Logged
               PROVE  LedgerCounts \in [autonomous : Nat, authorized : Nat]
    OBVIOUS
  <1>1. ASSUME NEW S \in SUBSET Completed
        PROVE  Cardinality(S) \in Nat
    BY <1>1, EventFacts, FS_Subset, FS_CardinalityType
  <1> QED
    BY <1>1 DEF LedgerCounts

(* A call that has returned is a call.                                     *)
LEMMA IdleTyped == Idle \in CallRecord
  BY DEF CallRecord, Idle, Label, Phase

(* A call that moves on is a call.                                         *)
LEMMA GotoTyped == \A c \in CallRecord, l \in Label : [c EXCEPT !.at = l] \in CallRecord
  BY DEF CallRecord

(* Rewriting one output keeps the type of the outputs.                     *)
LEMMA OutputUpdated ==
    ASSUME NEW s \in Seq(OutputRecord), NEW i, NEW e \in OutputRecord, NEW file \in File
    PROVE  /\ [s EXCEPT ![i] = e] \in Seq(OutputRecord)
           /\ [s EXCEPT ![i].file = file] \in Seq(OutputRecord)
  <1>1. DOMAIN s = 1..Len(s) /\ Len(s) \in Nat /\ \A j \in DOMAIN s : s[j] \in OutputRecord
    OBVIOUS
  <1>2. \A r \in OutputRecord : [r EXCEPT !.file = file] \in OutputRecord
    BY DEF OutputRecord
  <1>3. [s EXCEPT ![i] = e] \in [DOMAIN s -> OutputRecord]
    BY <1>1
  <1>4. [s EXCEPT ![i].file = file] \in [DOMAIN s -> OutputRecord]
    BY <1>1, <1>2
  <1> QED
    BY <1>3, <1>4, Rewritten

(* An action starts without a file.                                        *)
LEMMA NewOutput == [file |-> "none", covers |-> {}] \in OutputRecord
  BY DEF OutputRecord, File

(* Rewriting one capability keeps the type of the capabilities.            *)
LEMMA CapabilityUpdated ==
    ASSUME NEW s \in Seq(Capability), NEW i, NEW status \in {"ISSUED", "CONSUMED", "VOID"}, NEW by \in Nat
    PROVE  /\ [s EXCEPT ![i].status = status] \in Seq(Capability)
           /\ [s EXCEPT ![i].status = status, ![i].by = by] \in Seq(Capability)
  <1>1. DOMAIN s = 1..Len(s) /\ Len(s) \in Nat /\ \A j \in DOMAIN s : s[j] \in Capability
    OBVIOUS
  <1>2. \A x \in Capability : [x EXCEPT !.status = status] \in Capability
    BY DEF Capability
  <1>3. \A x \in Capability : [x EXCEPT !.by = by] \in Capability
    BY DEF Capability
  <1>4. [s EXCEPT ![i].status = status] \in [DOMAIN s -> Capability]
    BY <1>1, <1>2
  <1>5. [s EXCEPT ![i].status = status, ![i].by = by] \in [DOMAIN s -> Capability]
    BY <1>1, <1>2, <1>3
  <1> QED
    BY <1>4, <1>5, Rewritten

-----------------------------------------------------------------------------
(* Every durable write, crash and answer keeps the types.                  *)
LEMMA TypedStep == IInv /\ [Next]_vars => Typed'
  <1> SUFFICES ASSUME IInv, [Next]_vars
               PROVE  Typed'
    OBVIOUS
  <1>0. Typed /\ Placed /\ Phased /\ Coherent /\ Logged /\ Asked /\ Requested /\ InHand
    BY DEF IInv
  <1>a. Reconciled \in RunRecord
    BY <1>0, CountsTyped DEF Typed, Reconciled, RunRecord
  <1>b. snap.cycle \in Cycle /\ RefreshFinding \in Finding
    BY <1>0 DEF Typed, Snapshot, RefreshFinding, Finding
  <1>1. ASSUME Prepare
        PROVE  Typed'
    <2>1. Successor[snap.status] \in Status
      BY <1>0, <1>1 DEF Placed, Prepare, At, Successor, Status, Lifecycle!Status, Lifecycle!Preparing
    <2>2. snap' \in Snapshot
      BY <1>0, <1>1, <2>1 DEF Typed, Prepare, Snapshot, Lifecycle!Proceeded
    <2> QED
      BY <1>0, <1>1, <2>2 DEF Typed, Prepare, Goto, Label, CallRecord
  <1>2. ASSUME Inspect
        PROVE  Typed'
    <2>1. run' \in RunRecord
      <3>1. PICK passed \in SUBSET Req :
            LET failing == {<<q, snap.cycle>> : q \in Req \ passed}
                offered == {f \in failing : ToolOf(f) # "none" /\ FailureCount(ReqOf(f)) < 2}
            IN  run' = [run EXCEPT
              !.findings = [f \in Finding |->
                    IF f \in failing THEN "OPEN"
                    ELSE IF @[f] = "OPEN" THEN "RESOLVED" ELSE @[f]],
              !.offers = @ \cup offered,
              !.passed = passed]
        BY <1>2 DEF Inspect
      <3>2. {<<q, snap.cycle>> : q \in Req \ passed} \subseteq Finding
        BY <1>b DEF Finding
      <3> QED
        BY <1>0, <3>1, <3>2 DEF Typed, RunRecord, FindingStatus
    <2>2. inspected' \in SUBSET Nat
      BY <1>0, <1>2 DEF Typed, Inspect, RunRecord
    <2> QED
      BY <1>0, <1>2, <2>1, <2>2, IdleTyped, GotoTyped DEF Typed, Inspect, Goto, Label
  <1>3. ASSUME FindingsReady
        PROVE  Typed'
    BY <1>0, <1>3 DEF Typed, FindingsReady, Goto, Snapshot, Status, Lifecycle!Status,
       Lifecycle!Proceeded, Label, CallRecord
  <1>3a. ASSUME OfferOptions
        PROVE  Typed'
    <2>1. snap.status = "FINDINGS_READY" /\ run.offers \subseteq Finding
      BY <1>0, <1>3a DEF Placed, Judging, OfferOptions, At, Typed, RunRecord
    <2>2. \A f \in run.offers : Open(f) => f \in Option
      BY <2>1 DEF IInv, Offered
    <2>3. snap' \in Snapshot
      BY <1>0, <1>3a, <2>2 DEF OfferOptions, Typed, Snapshot
    <2> QED
      BY <1>0, <1>3a, <2>3, IdleTyped, GotoTyped DEF Typed, OfferOptions, Return
  <1>4. ASSUME Advance
        PROVE  Typed'
    <2>1. call' \in CallRecord
      <3>1. \A l \in Label :
              [Idle EXCEPT !.at = l] \in CallRecord /\ [Idle EXCEPT !.at = l, !.phase = "recover"] \in CallRecord
        <4>1. "recover" \in Phase
          BY DEF Phase
        <4> QED
          BY <4>1, IdleTyped DEF CallRecord
      <3> QED
        BY <1>0, <1>4, <3>1, GotoTyped, ZenonT(40)
           DEF Typed, Advance, AdvanceTerminal, AdvanceRemediating, AdvanceReady,
           Goto, Label
    <2> QED
      BY <1>0, <1>a, <1>4, <2>1 DEF Typed, Advance, AdvanceTerminal, AdvanceRemediating, AdvanceReady
  <1>5. ASSUME Conclude \/ ConcludeGivenUp
        PROVE  Typed'
    <2>1. Verdict # None
      BY <1>5, NoneFacts DEF Conclude, ConcludeGivenUp
    <2>2. TerminalVerdict \in Lifecycle!TerminalVerdict
      BY <2>1, <1>b, VerdictKinds, OrchestratorAssumption DEF TerminalVerdict, Lifecycle!TerminalVerdict,
         Lifecycle!PayloadCycle, Lifecycle!Outcome, Cycle
    <2>3. snap' \in Snapshot
      BY <1>0, <1>5, <2>1, <2>2, VerdictKinds DEF Conclude, ConcludeGivenUp, Typed, Snapshot, Status,
         Lifecycle!Status, Lifecycle!Terminal, Lifecycle!Concluded
    <2> QED
      BY <1>0, <1>5, <2>3 DEF Conclude, ConcludeGivenUp, Typed, Goto, Label, CallRecord
  <1>6. ASSUME Exhaust
        PROVE  Typed'
    BY <1>0, <1>6 DEF Exhaust, GivenUp, Typed, RunRecord, FindingStatus, Goto, Label, CallRecord
  <1>7. ASSUME ApplyTierOne
        PROVE  Typed'
    <2>1. Exposed \subseteq Finding
      BY <1>0 DEF Exposed, Typed, RunRecord
    <2>2. PICK chosen \in SUBSET Exposed :
            call' = [Idle EXCEPT !.at = "execute", !.phase = "tier1", !.todo = chosen]
      BY <1>7 DEF ApplyTierOne
    <2>3. call' \in CallRecord
      BY <2>1, <2>2 DEF CallRecord, Label, Phase, Idle
    <2>4. snap' \in Snapshot
      BY <1>0, <1>7 DEF ApplyTierOne, Typed, Snapshot, Status, Lifecycle!Status, Lifecycle!Proceeded
    <2> QED
      BY <1>0, <1>7, <2>3, <2>4 DEF ApplyTierOne, Typed
  <1>8. ASSUME Escalate
        PROVE  Typed'
    <2>1. Exposed \subseteq Finding
      BY <1>0 DEF Exposed, Typed, RunRecord
    <2>2. call' \in CallRecord
      <3>1. "record_request" \in Label /\ None \in Phase
        BY DEF Label, Phase
      <3> QED
        <4>1. PICK f \in Exposed : call' = [Idle EXCEPT !.at = "record_request", !.todo = {f}]
          BY <1>8 DEF Escalate
        <4> QED
          BY <2>1, <3>1, <4>1 DEF CallRecord, Idle
    <2> QED
      BY <1>0, <1>8, <2>2 DEF Escalate, Typed, RequestStatus
  <1>9. ASSUME NoAction
        PROVE  Typed'
    BY <1>0, <1>9 DEF NoAction, GivenUp, Typed, RunRecord, FindingStatus, Goto, Label, CallRecord
  <1>10. ASSUME Raises
        PROVE  Typed'
    BY <1>0, <1>10 DEF Raises, Return, Typed, Idle, Label, Phase, CallRecord
  <1>11. ASSUME RecordRequest
        PROVE  Typed'
    BY <1>0, <1>11 DEF RecordRequest, Typed, RunRecord, RequestStatus, Goto, Label, CallRecord
  <1>12. ASSUME Pause
        PROVE  Typed'
    <2>1. NextDecision - 1 \in Decision /\ \A f \in call.todo : f \in Option
      BY <1>0, <1>12 DEF Asked, Requested, Escalating, Pause, At
    <2>2. snap' \in Snapshot
      BY <1>0, <1>12, <2>1 DEF Pause, Typed, Snapshot, Status, Lifecycle!Status, Lifecycle!Paused
    <2> QED
      BY <1>0, <1>12, <2>2 DEF Pause, Typed, Return, Idle, Label, Phase, CallRecord
  <1>13. ASSUME WriteEvidence
        PROVE  Typed'
    <2>1. /\ Completed \in SUBSET Nat /\ run.assets \in SUBSET Nat /\ originals \in BOOLEAN
          /\ snap.status \in Status /\ snap.verdict \in Lifecycle!TerminalVerdict \cup {None}
      BY <1>0, EventFacts DEF Typed, Snapshot, RunRecord
    <2>2. evidence' \in Evidence
      BY <1>13, <2>1 DEF WriteEvidence, Evidence
    <2> QED
      BY <1>0, <1>13, <2>2, GotoTyped DEF WriteEvidence, Typed, Goto, Label
  <1>14. ASSUME RecordEvidence
        PROVE  Typed'
    BY <1>0, <1>14 DEF RecordEvidence, Typed, RunRecord, Return, Idle, Label, Phase, CallRecord
  <1>15. ASSUME Deny
        PROVE  Typed'
    BY <1>0, <1>15 DEF Deny, Typed, RequestStatus, Goto, Label, CallRecord
  <1>16. ASSUME RecordDenial
        PROVE  Typed'
    BY <1>0, <1>16 DEF RecordDenial, GivenUp, Typed, RunRecord, FindingStatus, RequestStatus, Goto, Label,
       CallRecord
  <1>17. ASSUME Block \/ Resume
        PROVE  Typed'
    <2>1. snap' \in Snapshot
      BY <1>0, <1>17 DEF Block, Resume, Lifecycle!Resumed, Snapshot, Status, Lifecycle!Status,
         Lifecycle!Terminal, Typed
    <2>2. call' \in CallRecord
      <3>1. call' \in {[call EXCEPT !.at = "withdraw"], [call EXCEPT !.at = "execute"]}
        BY <1>17 DEF Block, Resume, Goto
      <3> QED
        BY <1>0, <3>1 DEF Typed, CallRecord, Label
    <2> QED
      BY <1>0, <1>17, <2>1, <2>2 DEF Block, Resume, Typed
  <1>18. ASSUME WithdrawOptions
        PROVE  Typed'
    BY <1>0, <1>18 DEF WithdrawOptions, Snapshot, Typed, Goto, Label, CallRecord
  <1>19. ASSUME Approve
        PROVE  Typed'
    <2>1. snap.decision \in Decision /\ snap.pending \in Option
      BY <1>0, <1>19 DEF Approve, Resolvable, Coherent, Typed, Snapshot
    <2>2. auth' \in Seq(Capability)
      BY <1>0, <1>19, <2>1 DEF Approve, Typed, Capability
    <2>3. call' \in CallRecord
      <3>1. "approve" \in Label /\ "tier2" \in Phase /\ {snap.pending} \subseteq Finding /\ Len(auth) + 1 \in Nat
        BY <1>0, <2>1, FindingFacts DEF Label, Phase, Typed
      <3> QED
        BY <1>19, <3>1 DEF Approve, Idle, CallRecord
    <2> QED
      BY <1>0, <1>19, <2>2, <2>3 DEF Approve, Typed
  <1>20. ASSUME ApproveRequest
        PROVE  Typed'
    BY <1>0, <1>20 DEF ApproveRequest, Typed, RequestStatus, Goto, Label, CallRecord
  <1>21. ASSUME RecordApproval
        PROVE  Typed'
    BY <1>0, <1>21 DEF RecordApproval, Typed, RunRecord, RequestStatus, Goto, Label, CallRecord
  <1>22. ASSUME Execute
        PROVE  Typed'
    <2>1. PICK f \in call.todo :
             /\ Begin(f, call.cap)
             /\ auth' = IF TierOf(f) = 1 THEN auth
                   ELSE [auth EXCEPT ![call.cap].status = "CONSUMED",
                                     ![call.cap].by = Len(output) + 1]
             /\ call' = [call EXCEPT !.at = "write", !.todo = @ \ {f}, !.act = Len(output) + 1]
      BY <1>22 DEF Execute, First
    <2>2. f \in Finding /\ Len(output) + 1 \in Nat
      BY <1>0, <2>1 DEF Typed, CallRecord
    <2>3. ledger' \in Seq(StartEvent \cup EndEvent) /\ output' \in Seq(OutputRecord)
      <3>1. call.cap \in Nat
        BY <1>0 DEF Typed, CallRecord
      <3>2. PICK e \in StartEvent : ledger' = Append(ledger, e)
        BY <2>1, <2>2, <3>1 DEF Begin, StartEvent
      <3> QED
        BY <1>0, <2>1, <3>2, NewOutput DEF Typed, Begin
    <2>4. auth' \in Seq(Capability)
      BY <1>0, <2>1, <2>2, CapabilityUpdated DEF Typed
    <2> QED
      BY <1>0, <1>22, <2>1, <2>2, <2>3, <2>4 DEF Execute, Typed, Label, CallRecord
  <1>23. ASSUME Executed
        PROVE  Typed'
    BY <1>0, <1>23, ZenonT(40) DEF Executed, Typed, Goto, Label, CallRecord
  <1>24. ASSUME Write \/ Promote \/ Abort
        PROVE  Typed'
    <2>1. Package \subseteq Nat
      BY <1>0 DEF Typed, Package, RunRecord
    <2>2. PICK e \in OutputRecord, file \in File :
            output' = [output EXCEPT ![call.act] = e] \/ output' = [output EXCEPT ![call.act].file = file]
      <3>1. CASE Write
        <4>1. \A c \in SUBSET Nat : [file |-> "temp", covers |-> c] \in OutputRecord
          BY DEF OutputRecord, File
        <4>2. (IF IsManifest(call.act) THEN Package ELSE {}) \in SUBSET Nat
          BY <2>1
        <4>3. "temp" \in File
          BY DEF File
        <4> QED
          BY <3>1, <4>1, <4>2, <4>3 DEF Write
      <3>2. CASE Promote \/ Abort
        <4>1. [file |-> "none", covers |-> {}] \in OutputRecord
          BY DEF OutputRecord, File
        <4> QED
          BY <3>2, <4>1 DEF Promote, Abort, File
      <3> QED
        BY <1>24, <3>1, <3>2
    <2>4. output' \in Seq(OutputRecord)
      <3>1. /\ [output EXCEPT ![call.act] = e] \in Seq(OutputRecord)
            /\ [output EXCEPT ![call.act].file = file] \in Seq(OutputRecord)
        BY <1>0, OutputUpdated DEF Typed
      <3> QED
        BY <2>2, <3>1
    <2> QED
      BY <1>0, <1>24, <2>4 DEF Write, Promote, Abort, Typed, Goto, Label, CallRecord
  <1>25. ASSUME Persist
        PROVE  Typed'
    BY <1>0, <1>25 DEF Persist, Typed, RunRecord, Goto, Label, CallRecord
  <1>26. ASSUME Complete \/ Fail
        PROVE  Typed'
    <2>1. PICK e \in EndEvent : ledger' = Append(ledger, e)
      BY <1>0, <1>26 DEF Complete, Fail, Typed, EndEvent, CallRecord
    <2>2. ledger' \in Seq(StartEvent \cup EndEvent)
      BY <1>0, <2>1 DEF Typed
    <2> QED
      BY <1>0, <1>26, <2>2 DEF Complete, Fail, Continuation, Typed, Goto, Label, CallRecord
  <1>27. ASSUME Void
        PROVE  Typed'
    <2>3. auth' \in Seq(Capability)
      BY <1>0, <1>27, CapabilityUpdated DEF Void, Typed
    <2> QED
      BY <1>0, <1>27, <2>3 DEF Void, Typed, Goto, Label, CallRecord
  <1>28. ASSUME Recover
        PROVE  Typed'
    <2>1. \A a \in Unfinished : a \in Nat
      BY <1>0 DEF Unfinished, Actions, Typed
    <2>3. PICK a \in Unfinished, file \in File :
            /\ output' = output \/ output' = [output EXCEPT ![a].file = file]
            /\ \/ \E l \in Label : call' = [call EXCEPT !.at = l, !.act = a]
               \/ \E l \in Label, p \in Phase : call' = [call EXCEPT !.at = l, !.act = a, !.phase = p]
      BY <1>28 DEF Recover, Label, Phase, File
    <2>5. output' \in Seq(OutputRecord)
      <3>1. [output EXCEPT ![a].file = file] \in Seq(OutputRecord)
        BY <1>0, NewOutput, OutputUpdated DEF Typed
      <3> QED
        BY <1>0, <2>3, <3>1 DEF Typed
    <2>6. call' \in CallRecord
      BY <1>0, <2>1, <2>3 DEF Typed, CallRecord
    <2> QED
      BY <1>0, <1>28, <2>5, <2>6 DEF Recover, Typed
  <1>29. ASSUME RecoveryDone \/ FailRun
        PROVE  Typed'
    BY <1>0, <1>29, ZenonT(40) DEF RecoveryDone, FailRun, Snapshot, Status, Lifecycle!Status, Lifecycle!Terminal,
       Lifecycle!Proceeded, Typed, Goto, Label, CallRecord
  <1>30. ASSUME RefreshManifest \/ Refreshed
        PROVE  Typed'
    <2>1. run' \in RunRecord
      <3>1. \A s \in FindingStatus :
              [run EXCEPT !.findings[RefreshFinding] = s, !.offers = @ \cup {RefreshFinding}] \in RunRecord
        BY <1>0, <1>b DEF Typed, RunRecord
      <3>2. \A s \in FindingStatus :
              [run EXCEPT !.findings[RefreshFinding] = s, !.offers = @ \ {RefreshFinding}] \in RunRecord
        BY <1>0, <1>b DEF Typed, RunRecord
      <3> QED
        BY <1>0, <1>30, <3>1, <3>2 DEF RefreshManifest, Refreshed, Typed, FindingStatus
    <2>2. call' \in CallRecord
      BY <1>0, <1>30, IdleTyped, GotoTyped DEF RefreshManifest, Refreshed, Typed, Goto, Label
    <2> QED
      BY <1>0, <1>30, <2>1, <2>2 DEF RefreshManifest, Refreshed, Typed
  <1>31. ASSUME BeginRefresh
        PROVE  Typed'
    <2>1. CASE Open(RefreshFinding)
      <3>1. Begin(RefreshFinding, 0) /\ Len(output) + 1 \in Nat
        BY <1>0, <1>31, <2>1 DEF BeginRefresh, Typed
      <3>2. PICK e \in StartEvent : ledger' = Append(ledger, e)
        BY <1>b, <3>1 DEF Begin, StartEvent
      <3>3. ledger' \in Seq(StartEvent \cup EndEvent) /\ output' \in Seq(OutputRecord)
        BY <1>0, <3>1, <3>2, NewOutput DEF Typed, Begin
      <3>4. call' \in CallRecord
        BY <1>0, <1>31, <2>1, <3>1, ZenonT(40) DEF BeginRefresh, Typed, Label, Phase, CallRecord
      <3> QED
        BY <1>0, <1>31, <3>3, <3>4 DEF BeginRefresh, Typed
    <2>2. CASE ~Open(RefreshFinding)
      BY <1>0, <1>31, <2>2, IdleTyped, GotoTyped DEF BeginRefresh, Typed, Return
    <2> QED
      BY <2>1, <2>2
  <1>32. ASSUME Finish
        PROVE  Typed'
    BY <1>0, <1>a, <1>32 DEF Finish, Typed, Goto, Label, CallRecord
  <1>33. ASSUME Reinspect
        PROVE  Typed'
    <2>1. snap.cycle + 1 \in Cycle
      BY <1>b, <1>33, OrchestratorAssumption DEF Reinspect, Cycle, Lifecycle!CompletionAccepted
    <2>2. snap' \in Snapshot
      BY <1>0, <1>33, <2>1 DEF Reinspect, Typed, Snapshot, Status, Lifecycle!Status, Lifecycle!Reinspected
    <2> QED
      BY <1>0, <1>33, <2>2, IdleTyped, GotoTyped DEF Reinspect, Typed, Goto, Label
  <1>34. ASSUME Crash
        PROVE  Typed'
    <2>0. \A a \in DOMAIN output : output[a] \in OutputRecord
      BY <1>0 DEF Typed
    <2>a. output' \in [DOMAIN output -> OutputRecord]
      BY <1>34, <2>0 DEF Crash, Actions, OutputRecord, File
    <2>1. output' \in Seq(OutputRecord)
      BY <1>0, <2>a, Rewritten DEF Typed
    <2>2. crashes' \in 0..MaxCrashes
      BY <1>0, <1>34, OrchestratorAssumption DEF Crash, Typed
    <2>3. locked' \in SUBSET ({"ledger", "request", "authorization"} \X Nat)
      <3>1. DOMAIN auth \subseteq Nat /\ Decision \subseteq Nat
        BY <1>0, OrchestratorAssumption DEF Typed, Decision
      <3>2. Held \subseteq {"ledger", "request", "authorization"} \X Nat
        <4> SUFFICES ASSUME NEW l \in Held
                     PROVE  l \in {"ledger", "request", "authorization"} \X Nat
          OBVIOUS
        <4>1. CASE l = LedgerLock
          BY <4>1 DEF LedgerLock
        <4>2. ASSUME NEW d \in Decision, l = RequestLock(d)
              PROVE  l \in {"ledger", "request", "authorization"} \X Nat
          BY <3>1, <4>2 DEF RequestLock
        <4>3. ASSUME NEW x \in DOMAIN auth, l = CapabilityLock(x)
              PROVE  l \in {"ledger", "request", "authorization"} \X Nat
          BY <3>1, <4>3 DEF CapabilityLock
        <4>4. \/ l = LedgerLock
              \/ \E d \in Decision : l = RequestLock(d)
              \/ \E x \in DOMAIN auth : l = CapabilityLock(x)
          BY DEF Held
        <4> QED
          BY <4>1, <4>2, <4>3, <4>4
      <3> QED
        BY <1>0, <1>34, <3>2 DEF Crash, Typed
    <2> QED
      BY <1>0, <1>34, <2>1, <2>2, <2>3, IdleTyped DEF Crash, Typed, Return
  <1>35. ASSUME Tamper \/ UNCHANGED vars
        PROVE  Typed'
    BY <1>0, <1>35 DEF Tamper, Typed, vars
  <1> QED
    BY <1>1, <1>2, <1>3, <1>3a, <1>4, <1>5, <1>6, <1>7, <1>8, <1>9, <1>10, <1>11, <1>12, <1>13, <1>14, <1>15,
       <1>16, <1>17, <1>18, <1>19, <1>20, <1>21, <1>22, <1>23, <1>24, <1>25, <1>26, <1>27, <1>28, <1>29,
       <1>30, <1>31, <1>32, <1>33, <1>34, <1>35 DEF Next, Select, Work

-----------------------------------------------------------------------------
(* Started finds the one start event of an action.                         *)
LEMMA StartedIs ==
    ASSUME Typed, Logged
    PROVE  /\ \A i \in Starts : Started(ledger[i].act) = ledger[i]
           /\ \A a \in Actions : \E i \in Starts : ledger[i].act = a /\ Started(a) = ledger[i]
           /\ \A a \in Actions : Started(a) \in StartEvent /\ Started(a).act = a
  <1>1. ASSUME NEW i \in Starts
        PROVE  Started(ledger[i].act) = ledger[i]
    <2>1. ledger[i] \in {ledger[j] : j \in Starts}
      OBVIOUS
    <2>2. \A e \in {ledger[j] : j \in Starts} : e.act = ledger[i].act => e = ledger[i]
      BY DEF Logged
    <2> QED
      BY <2>1, <2>2 DEF Started
  <1>2. ASSUME NEW a \in Actions
        PROVE  \E i \in Starts : ledger[i].act = a /\ Started(a) = ledger[i]
    BY <1>1 DEF Logged
  <1> QED
    BY <1>1, <1>2, EventFacts

(* What is read off the ledger alone stays while the ledger does.          *)
LEMMA Still ==
    ASSUME UNCHANGED ledger
    PROVE  /\ Starts' = Starts /\ Completed' = Completed /\ Failed' = Failed
           /\ \A a : Started(a)' = Started(a) /\ IsManifest(a)' = IsManifest(a) /\ CompletedAt(a)' = CompletedAt(a)
  BY DEF Starts, Completed, Failed, Ends, Started, IsManifest, CompletedAt

(* What is read off the ledger and the files stays while both do.          *)
LEMMA StillOutput ==
    ASSUME UNCHANGED <<ledger, output>>
    PROVE  /\ Actions' = Actions /\ Unfinished' = Unfinished
           /\ \A a : Intact(a)' = Intact(a)
  BY Still DEF Actions, Unfinished, Intact

(* What begin_authorized_action appends: one start, one action without a   *)
(* file, unfinished.                                                       *)
LEMMA Begun ==
    ASSUME Typed, Logged, NEW f \in Finding, NEW cap \in Nat, Begin(f, cap)
    PROVE  LET n == Len(output) + 1
               i == Len(ledger) + 1
               e == [type |-> "ACTION_STARTED", act |-> n, finding |-> f,
                     auth |-> IF TierOf(f) = 2 THEN cap ELSE None]
           IN
           /\ n \in Nat /\ n \notin Actions /\ Actions' = Actions \cup {n}
           /\ i \notin DOMAIN ledger /\ DOMAIN ledger' = DOMAIN ledger \cup {i}
           /\ \A j \in DOMAIN ledger : ledger'[j] = ledger[j]
           /\ ledger'[i] = e
           /\ i \notin Starts /\ Starts' = Starts \cup {i}
           /\ Completed' = Completed /\ Failed' = Failed
           /\ Unfinished' = Unfinished \cup {n}
           /\ n \notin Completed \cup Failed
           /\ output'[n] = [file |-> "none", covers |-> {}]
           /\ \A a \in Actions : output'[a] = output[a]
           /\ Len(output') = n
  <1> DEFINE n == Len(output) + 1
             i == Len(ledger) + 1
             e == [type |-> "ACTION_STARTED", act |-> n, finding |-> f,
                     auth |-> IF TierOf(f) = 2 THEN cap ELSE None]
             o == [file |-> "none", covers |-> {}]
  <1>1. n \in Nat /\ i \in Nat /\ DOMAIN ledger = 1..Len(ledger) /\ DOMAIN output = 1..Len(output)
        /\ Len(ledger) \in Nat /\ Len(output) \in Nat
    BY DEF Typed
  <1>2. e \in StartEvent
    BY <1>1, NoneFacts DEF StartEvent
  <1>3. ledger' = Append(ledger, e) /\ output' = Append(output, o)
    BY DEF Begin
  <1> HIDE DEF e, o
  <1>4. /\ DOMAIN ledger' = DOMAIN ledger \cup {i} /\ i \notin DOMAIN ledger
        /\ \A j \in DOMAIN ledger : ledger'[j] = ledger[j]
        /\ ledger'[i] = e
    BY <1>1, <1>2, <1>3 DEF Typed
  <1>5. /\ DOMAIN output' = DOMAIN output \cup {n} /\ n \notin DOMAIN output
        /\ \A j \in DOMAIN output : output'[j] = output[j]
        /\ output'[n] = o
        /\ Len(output') = n
    BY <1>1, <1>3, NewOutput DEF Typed, o
  <1>6. e.type = "ACTION_STARTED"
    BY DEF e
  <1>7. Starts' = Starts \cup {i} /\ i \notin Starts
    BY <1>4, <1>6 DEF Starts
  <1>8. ASSUME NEW type, type # "ACTION_STARTED"
        PROVE  Ends(type)' = Ends(type)
    BY <1>4, <1>6, <1>8 DEF Ends
  <1>9. Completed' = Completed /\ Failed' = Failed
    BY <1>8 DEF Completed, Failed
  <1>10. n \notin Completed \cup Failed
    BY <1>5, EventFacts DEF Actions
  <1> QED
    BY <1>1, <1>4, <1>5, <1>7, <1>9, <1>10 DEF Actions, Unfinished, e, o

(* The new start names the new action; the starts of earlier actions stay. *)
LEMMA BegunStarted ==
    ASSUME Typed, Logged, NEW f \in Finding, NEW cap \in Nat, Begin(f, cap),
           NEW CONSTANT n, n = Len(output) + 1
    PROVE  /\ \A a \in Actions : Started(a)' = Started(a) /\ IsManifest(a)' = IsManifest(a)
           /\ Started(n)' = [type |-> "ACTION_STARTED", act |-> n, finding |-> f,
                             auth |-> IF TierOf(f) = 2 THEN cap ELSE None]
           /\ \A a \in Actions : Intact(a)' = Intact(a)
  <1> DEFINE i == Len(ledger) + 1
             e == [type |-> "ACTION_STARTED", act |-> n, finding |-> f,
                   auth |-> IF TierOf(f) = 2 THEN cap ELSE None]
             S == {ledger[j] : j \in Starts}
  <1>1. /\ n \notin Actions /\ Starts' = Starts \cup {i} /\ i \notin Starts
        /\ \A j \in Starts : ledger'[j] = ledger[j]
        /\ ledger'[i] = e /\ \A a \in Actions : output'[a] = output[a]
    BY Begun DEF Starts
  <1>2. \A x \in S : x.act \in Actions
    BY DEF Logged, Starts
  <1>3. e.act = n
    OBVIOUS
  <1> HIDE DEF e, i
  <1>4. {ledger'[j] : j \in Starts'} = S \cup {e}
    BY <1>1
  <1>5. ASSUME NEW a \in Actions
        PROVE  Started(a)' = Started(a)
    <2>1. PICK x \in S : x.act = a /\ Started(a) = x
      BY StartedIs
    <2>2. \A y \in S : y.act = a => y = x
      BY <2>1 DEF Logged
    <2> QED
      BY <1>1, <1>3, <1>4, <2>1, <2>2 DEF Started
  <1>6. Started(n)' = e
    BY <1>1, <1>2, <1>3, <1>4 DEF Started
  <1> QED
    BY <1>1, <1>5, <1>6 DEF IsManifest, Intact, e

(* What a completion or a failure appends: one end, of one action.         *)
LEMMA Ended ==
    ASSUME Typed, Logged, NEW a \in Unfinished, NEW type \in {"ACTION_COMPLETED", "ACTION_FAILED"},
           ledger' = Append(ledger, [type |-> type, act |-> a])
    PROVE  LET i == Len(ledger) + 1
           IN
           /\ i \in Nat /\ i \notin DOMAIN ledger /\ DOMAIN ledger' = DOMAIN ledger \cup {i}
           /\ \A j \in DOMAIN ledger : ledger'[j] = ledger[j]
           /\ ledger'[i] = [type |-> type, act |-> a]
           /\ i \notin Starts /\ Starts' = Starts
           /\ Completed' = Completed \cup (IF type = "ACTION_COMPLETED" THEN {a} ELSE {})
           /\ Failed' = Failed \cup (IF type = "ACTION_FAILED" THEN {a} ELSE {})
           /\ \A b : Started(b)' = Started(b) /\ IsManifest(b)' = IsManifest(b)
  <1> DEFINE i == Len(ledger) + 1
             e == [type |-> type, act |-> a]
  <1>1. i \in Nat /\ DOMAIN ledger = 1..Len(ledger) /\ Len(ledger) \in Nat /\ a \in Nat
    BY DEF Typed, Unfinished, Actions
  <1>2. e \in EndEvent
    BY <1>1 DEF EndEvent
  <1> HIDE DEF e
  <1>4. /\ DOMAIN ledger' = DOMAIN ledger \cup {i} /\ i \notin DOMAIN ledger
        /\ \A j \in DOMAIN ledger : ledger'[j] = ledger[j]
        /\ ledger'[i] = e
    BY <1>1, <1>2 DEF Typed, e
  <1>6. e.type = type /\ e.act = a
    BY DEF e
  <1>7. Starts' = Starts /\ i \notin Starts
    BY <1>4, <1>6 DEF Starts
  <1>8. /\ Ends(type)' = Ends(type) \cup {a}
        /\ \A t : t # type => Ends(t)' = Ends(t)
    BY <1>4, <1>6 DEF Ends
  <1>9. {ledger'[j] : j \in Starts'} = {ledger[j] : j \in Starts}
    BY <1>4, <1>7 DEF Starts
  <1>10. \A b : Started(b)' = Started(b)
    BY <1>9 DEF Started
  <1> QED
    BY <1>1, <1>4, <1>7, <1>8, <1>10 DEF Completed, Failed, IsManifest, e

-----------------------------------------------------------------------------
(* Where a call is after Goto or Return.                                   *)
LEMMA Jump ==
    ASSUME call \in CallRecord
    PROVE  /\ \A l : Goto(l) => /\ call'.at = l /\ call'.phase = call.phase /\ call'.todo = call.todo
                                /\ call'.act = call.act /\ call'.cap = call.cap
           /\ Return => /\ call'.at = "idle" /\ call'.phase = None /\ call'.todo = {}
                        /\ call'.act = 0 /\ call'.cap = 0
  BY DEF CallRecord, Goto, Return, Idle

(* Where a call is after it is begun anew, or moves on with another        *)
(* action.                                                                 *)
LEMMA JumpTo ==
    ASSUME call \in CallRecord, NEW l
    PROVE  /\ call' = [Idle EXCEPT !.at = l] =>
                /\ call'.at = l /\ call'.phase = None /\ call'.todo = {} /\ call'.act = 0 /\ call'.cap = 0
           /\ \A p : call' = [Idle EXCEPT !.at = l, !.phase = p] =>
                /\ call'.at = l /\ call'.phase = p /\ call'.todo = {} /\ call'.act = 0 /\ call'.cap = 0
           /\ \A t : call' = [Idle EXCEPT !.at = l, !.todo = t] =>
                /\ call'.at = l /\ call'.phase = None /\ call'.todo = t /\ call'.act = 0 /\ call'.cap = 0
           /\ \A t, p : call' = [Idle EXCEPT !.at = l, !.phase = p, !.todo = t] =>
                /\ call'.at = l /\ call'.phase = p /\ call'.todo = t /\ call'.act = 0 /\ call'.cap = 0
           /\ \A a : call' = [call EXCEPT !.at = l, !.act = a] =>
                /\ call'.at = l /\ call'.phase = call.phase /\ call'.todo = call.todo
                /\ call'.act = a /\ call'.cap = call.cap
           /\ \A t, a : call' = [call EXCEPT !.at = l, !.todo = t, !.act = a] =>
                /\ call'.at = l /\ call'.phase = call.phase /\ call'.todo = t
                /\ call'.act = a /\ call'.cap = call.cap
           /\ \A p, a : call' = [call EXCEPT !.at = l, !.act = a, !.phase = p] =>
                /\ call'.at = l /\ call'.phase = p /\ call'.todo = call.todo
                /\ call'.act = a /\ call'.cap = call.cap
  BY DEF CallRecord, Idle

(* What each accepted transition leaves of the snapshot.                   *)
LEMMA Move ==
    ASSUME snap \in Snapshot
    PROVE  /\ \A s : snap' = Lifecycle!Proceeded(snap, s) =>
                /\ snap'.status = s /\ snap'.cycle = snap.cycle /\ snap'.options = snap.options
                /\ snap'.decision = snap.decision /\ snap'.pending = snap.pending /\ snap'.verdict = snap.verdict
           /\ \A s, v : snap' = Lifecycle!Concluded(snap, s, v) =>
                /\ snap'.status = s /\ snap'.cycle = snap.cycle /\ snap'.options = snap.options
                /\ snap'.decision = snap.decision /\ snap'.pending = snap.pending /\ snap'.verdict = v
           /\ \A s : snap' = Lifecycle!Resumed(snap, s) =>
                /\ snap'.status = s /\ snap'.cycle = snap.cycle /\ snap'.options = snap.options
                /\ snap'.decision = None /\ snap'.pending = None /\ snap'.verdict = snap.verdict
           /\ \A p : snap' = Lifecycle!Paused(snap, p) =>
                /\ snap'.status = "AWAITING_HUMAN_DECISION" /\ snap'.cycle = snap.cycle /\ snap'.options = snap.options
                /\ snap'.decision = p.decision /\ snap'.pending = p.option /\ snap'.verdict = snap.verdict
           /\ \A p : snap' = Lifecycle!Reinspected(snap, p) =>
                /\ snap'.status = "INSPECTING" /\ snap'.cycle = p.next_cycle /\ snap'.options = snap.options
                /\ snap'.decision = snap.decision /\ snap'.pending = snap.pending /\ snap'.verdict = snap.verdict
           /\ \A o : snap' = [snap EXCEPT !.options = o] =>
                /\ snap'.status = snap.status /\ snap'.cycle = snap.cycle /\ snap'.options = o
                /\ snap'.decision = snap.decision /\ snap'.pending = snap.pending /\ snap'.verdict = snap.verdict
  BY DEF Snapshot, Lifecycle!Proceeded, Lifecycle!Concluded, Lifecycle!Resumed, Lifecycle!Paused,
     Lifecycle!Reinspected

(* Every step leaves the call at a place its status allows: no handler     *)
(* reaches a write it would be refused.                                    *)
LEMMA ControlStep == IInv /\ [Next]_vars => Placed' /\ Phased' /\ Coherent'
  <1> SUFFICES ASSUME IInv, [Next]_vars
               PROVE  Placed' /\ Phased' /\ Coherent'
    OBVIOUS
  <1>0. Placed /\ Phased /\ Coherent /\ snap \in Snapshot /\ call \in CallRecord /\ Asked /\ Requested
    BY DEF IInv, Typed
  <1> USE NoneFacts DEF At, Terminal, Lifecycle!Terminal, Doing, Remedying, Judging, Answering, Approving
  <1>1. ASSUME Prepare
        PROVE  Placed' /\ Phased' /\ Coherent'
    <2>1. Successor[snap.status] \in {"INGESTING", "INGESTED", "INTERPRETING", "REQUIREMENTS_ADMITTED",
                                      "QC_PLANNED", "INSPECTING"}
          /\ snap.status \in {"CREATED", "INGESTING", "INGESTED", "INTERPRETING", "REQUIREMENTS_ADMITTED",
                                      "QC_PLANNED"}
      BY <1>0, <1>1 DEF Prepare, Placed, Successor
    <2>2. snap'.status = Successor[snap.status] /\ snap'.cycle = snap.cycle
          /\ snap'.decision = snap.decision /\ snap'.pending = snap.pending /\ snap'.verdict = snap.verdict
      BY <1>0, <1>1, Move DEF Prepare
    <2>3. call'.at = (IF snap'.status = "INSPECTING" THEN "inspect" ELSE "prepare") /\ call'.phase = call.phase
      BY <1>0, <1>1, Jump DEF Prepare
    <2>4. DOMAIN Successor = {"CREATED", "INGESTING", "INGESTED", "INTERPRETING", "REQUIREMENTS_ADMITTED",
                                      "QC_PLANNED"}
      BY DEF Successor
    <2> QED
      BY <1>0, <2>1, <2>2, <2>3, <2>4 DEF Placed, Phased, Coherent
  <1>2. ASSUME Inspect
        PROVE  Placed' /\ Phased' /\ Coherent'
    BY <1>0, <1>2, Jump DEF Inspect, Placed, Phased, Coherent
  <1>3. ASSUME FindingsReady \/ OfferOptions
        PROVE  Placed' /\ Phased' /\ Coherent'
    BY <1>0, <1>3, Jump, Move DEF FindingsReady, OfferOptions, Placed, Phased, Coherent
  <1>4. ASSUME Advance
        PROVE  Placed' /\ Phased' /\ Coherent'
    <2>1. CASE AdvanceTerminal
      <3>1. snap' = snap /\ snap.status \in Terminal /\ call'.at \in {"idle", "evidence"}
        BY <1>0, <2>1 DEF AdvanceTerminal, Idle
      <3> QED
        BY <1>0, <3>1 DEF Placed, Phased, Coherent
    <2>2. CASE AdvanceRemediating
      BY <1>0, <2>2 DEF Idle, AdvanceRemediating, Placed, Phased, Coherent
    <2>3. CASE AdvanceReady
      BY <1>0, <2>3, Jump DEF AdvanceReady, Placed, Phased, Coherent
    <2> QED
      BY <1>4, <2>1, <2>2, <2>3 DEF Advance
  <1>5. ASSUME Conclude \/ ConcludeGivenUp
        PROVE  Placed' /\ Phased' /\ Coherent'
    BY <1>0, <1>5, VerdictKinds, Jump, Move DEF Conclude, ConcludeGivenUp, Placed, Phased, Coherent
  <1>6. ASSUME Exhaust \/ NoAction
        PROVE  Placed' /\ Phased' /\ Coherent'
    BY <1>0, <1>6, Jump, Move DEF Exhaust, NoAction, Diagnosing, Placed, Phased, Coherent
  <1>7. ASSUME ApplyTierOne
        PROVE  Placed' /\ Phased' /\ Coherent'
    BY <1>0, <1>7, Jump, Move DEF ApplyTierOne, Diagnosing, Idle, Placed, Phased, Coherent
  <1>8. ASSUME Escalate
        PROVE  Placed' /\ Phased' /\ Coherent'
    BY <1>0, <1>8 DEF Escalate, Diagnosing, Idle, Placed, Phased, Coherent
  <1>9. ASSUME Raises
        PROVE  Placed' /\ Phased' /\ Coherent'
    BY <1>0, <1>9, Jump DEF Raises, Diagnosing, Placed, Phased, Coherent
  <1>10. ASSUME RecordRequest
        PROVE  Placed' /\ Phased' /\ Coherent'
    BY <1>0, <1>10, Jump DEF RecordRequest, Placed, Phased, Coherent
  <1>11. ASSUME Pause
        PROVE  Placed' /\ Phased' /\ Coherent'
    <2>1. NextDecision - 1 # None /\ \A f \in call.todo : f # None
      BY <1>0, <1>11 DEF Asked, Requested, Escalating, Pause
    <2>2. snap'.status = "AWAITING_HUMAN_DECISION" /\ snap'.decision # None /\ snap'.pending # None
          /\ snap'.cycle = snap.cycle /\ snap'.verdict = snap.verdict
      BY <1>0, <1>11, <2>1, Move DEF Pause
    <2> QED
      BY <1>0, <1>11, <2>2, Jump DEF Pause, Placed, Phased, Coherent
  <1>12. ASSUME WriteEvidence \/ RecordEvidence
        PROVE  Placed' /\ Phased' /\ Coherent'
    BY <1>0, <1>12, Jump DEF WriteEvidence, RecordEvidence, Placed, Phased, Coherent
  <1>13. ASSUME Deny \/ RecordDenial \/ ApproveRequest \/ RecordApproval
        PROVE  Placed' /\ Phased' /\ Coherent'
    BY <1>0, <1>13, Jump DEF Deny, RecordDenial, ApproveRequest, RecordApproval, Resolvable, Placed, Phased,
       Coherent
  <1>14. ASSUME Block \/ WithdrawOptions
        PROVE  Placed' /\ Phased' /\ Coherent'
    BY <1>0, <1>14, Jump, Move DEF Block, WithdrawOptions, Placed, Phased, Coherent
  <1>15. ASSUME Approve
        PROVE  Placed' /\ Phased' /\ Coherent'
    BY <1>0, <1>15 DEF Approve, Resolvable, Idle, Placed, Phased, Coherent
  <1>16. ASSUME Resume
        PROVE  Placed' /\ Phased' /\ Coherent'
    BY <1>0, <1>16, Jump, Move DEF Resume, Placed, Phased, Coherent
  <1>17. ASSUME Execute
        PROVE  Placed' /\ Phased' /\ Coherent'
    <2>1. /\ At("execute") /\ UNCHANGED snap
          /\ \E t : call' = [call EXCEPT !.at = "write", !.todo = t, !.act = Len(output) + 1]
      BY <1>17 DEF Execute
    <2>2. call'.at = "write" /\ call'.phase = call.phase
      BY <1>0, <2>1 DEF CallRecord
    <2> QED
      BY <1>0, <2>1, <2>2, NoneAssumption DEF Placed, Phased, Coherent
  <1>18. ASSUME Executed \/ Complete \/ Fail
        PROVE  Placed' /\ Phased' /\ Coherent'
    BY <1>0, <1>18, Jump DEF Executed, Complete, Fail, Continuation, CallRecord, Phase, Placed, Phased,
       Coherent
  <1>19. ASSUME Write \/ Promote \/ Persist \/ Abort \/ Void
        PROVE  Placed' /\ Phased' /\ Coherent'
    BY <1>0, <1>19, Jump DEF Write, Promote, Persist, Abort, Void, Placed, Phased, Coherent
  <1>20. ASSUME Recover
        PROVE  Placed' /\ Phased' /\ Coherent'
    <2>1. /\ At("recover") /\ UNCHANGED snap
          /\ \/ call'.at \in {"complete", "persist", "fail"} /\ call'.phase = call.phase
             \/ call'.at = "fail" /\ call'.phase = "integrity"
      BY <1>0, <1>20 DEF Recover, CallRecord
    <2> QED
      BY <1>0, <2>1, NoneAssumption DEF Placed, Phased, Coherent
  <1>21. ASSUME RecoveryDone \/ FailRun
        PROVE  Placed' /\ Phased' /\ Coherent'
    BY <1>0, <1>21, Jump, Move DEF RecoveryDone, FailRun, Placed, Phased, Coherent
  <1>22. ASSUME RefreshManifest \/ Refreshed \/ Finish
        PROVE  Placed' /\ Phased' /\ Coherent'
    BY <1>0, <1>22, Jump DEF RefreshManifest, Refreshed, Finish, Placed, Phased, Coherent
  <1>23. ASSUME BeginRefresh
        PROVE  Placed' /\ Phased' /\ Coherent'
    <2>1. /\ UNCHANGED snap /\ At("authorize_refresh")
          /\ \/ call'.at = "write" /\ call'.phase = "refresh"
             \/ call'.at = "idle"
      BY <1>0, <1>23, Jump DEF BeginRefresh, CallRecord
    <2> QED
      BY <1>0, <2>1, NoneAssumption DEF Placed, Phased, Coherent
  <1>24. ASSUME Reinspect
        PROVE  Placed' /\ Phased' /\ Coherent'
    BY <1>0, <1>24, Jump, Move DEF Reinspect, Placed, Phased, Coherent
  <1>25. ASSUME Crash
        PROVE  Placed' /\ Phased' /\ Coherent'
    BY <1>0, <1>25, Jump DEF Crash, Placed, Phased, Coherent
  <1>26. ASSUME Tamper \/ UNCHANGED vars
        PROVE  Placed' /\ Phased' /\ Coherent'
    BY <1>0, <1>26 DEF Tamper, vars, Placed, Phased, Coherent
  <1> QED
    BY <1>1, <1>2, <1>3, <1>4, <1>5, <1>6, <1>7, <1>8, <1>9, <1>10, <1>11, <1>12, <1>13, <1>14, <1>15,
       <1>16, <1>17, <1>18, <1>19, <1>20, <1>21, <1>22, <1>23, <1>24, <1>25, <1>26 DEF Next, Select, Advance, Work

-----------------------------------------------------------------------------
(* What reconciling the counts and giving findings up leave of the run     *)
(* record.                                                                 *)
LEMMA RecordEffects ==
    ASSUME run \in RunRecord
    PROVE  /\ LET r == Reconciled IN
              /\ r.findings = run.findings /\ r.offers = run.offers /\ r.passed = run.passed
              /\ r.requests = run.requests /\ r.assets = run.assets /\ r.evidence = run.evidence
              /\ r.counts = LedgerCounts
           /\ \A fs : LET r == GivenUp(fs) IN
              /\ r.findings = [f \in Finding |-> IF f \in fs THEN "UNRESOLVED" ELSE run.findings[f]]
              /\ r.offers = run.offers \ fs /\ r.passed = run.passed
              /\ r.requests = run.requests /\ r.assets = run.assets /\ r.evidence = run.evidence
              /\ r.counts = run.counts
  BY DEF RunRecord, Reconciled, GivenUp

(* Which steps write which part of runtime.json.                           *)
LEMMA RunEffects ==
    ASSUME Typed, [Next]_vars
    PROVE  /\ run'.assets = run.assets \/ Persist
           /\ run'.requests = run.requests \/ RecordRequest \/ RecordDenial \/ RecordApproval
           /\ \/ run'.findings = run.findings /\ run'.offers = run.offers
              \/ Inspect \/ Exhaust \/ NoAction \/ RecordDenial \/ RefreshManifest \/ Refreshed
           /\ run'.passed = run.passed \/ Inspect
           /\ run'.counts = run.counts \/ AdvanceTerminal \/ AdvanceReady \/ Finish
           /\ run'.evidence = run.evidence \/ RecordEvidence
  <1> DEFINE Goal ==
           /\ run'.assets = run.assets \/ Persist
           /\ run'.requests = run.requests \/ RecordRequest \/ RecordDenial \/ RecordApproval
           /\ \/ run'.findings = run.findings /\ run'.offers = run.offers
              \/ Inspect \/ Exhaust \/ NoAction \/ RecordDenial \/ RefreshManifest \/ Refreshed
           /\ run'.passed = run.passed \/ Inspect
           /\ run'.counts = run.counts \/ AdvanceTerminal \/ AdvanceReady \/ Finish
           /\ run'.evidence = run.evidence \/ RecordEvidence
  <1>1. run \in RunRecord
    BY DEF Typed
  <1>2. ASSUME AdvanceTerminal \/ AdvanceReady \/ Finish
        PROVE  Goal
    BY <1>1, <1>2, RecordEffects DEF AdvanceTerminal, AdvanceReady, Finish
  <1>3. ASSUME Exhaust \/ NoAction
        PROVE  Goal
    BY <1>1, <1>3 DEF Exhaust, NoAction, GivenUp, RunRecord
  <1>4. ASSUME Inspect \/ RefreshManifest \/ Refreshed
        PROVE  Goal
    BY <1>1, <1>4 DEF Inspect, RefreshManifest, Refreshed, RunRecord
  <1>5. ASSUME RecordRequest \/ RecordEvidence \/ RecordApproval \/ Persist
        PROVE  Goal
    BY <1>1, <1>5 DEF RecordRequest, RecordEvidence, RecordApproval, Persist, RunRecord
  <1>6. ASSUME RecordDenial
        PROVE  Goal
    BY <1>1, <1>6 DEF RecordDenial, GivenUp, RunRecord
  <1>7. ASSUME ~AdvanceTerminal, ~AdvanceReady, ~Finish, ~Exhaust, ~NoAction, ~Inspect, ~RefreshManifest, ~Persist,
               ~Refreshed, ~RecordRequest, ~RecordEvidence, ~RecordApproval, ~RecordDenial
        PROVE  UNCHANGED run
    BY <1>7 DEF Next, Advance, AdvanceRemediating, Select, ApplyTierOne, Escalate, Raises, Work,
       Prepare,
       FindingsReady, OfferOptions, Conclude, ConcludeGivenUp, Pause, WriteEvidence, Block, WithdrawOptions,
       ApproveRequest, Resume, Execute, Executed, Write, Promote, Complete, Abort, Void, Fail, Recover,
       RecoveryDone, FailRun, BeginRefresh, Reinspect, Deny, Approve, Crash, Tamper, vars
  <1> QED
    BY <1>2, <1>3, <1>4, <1>5, <1>6, <1>7

(* Moving one action's file changes nothing else.                          *)
LEMMA Refiled ==
    ASSUME Typed, NEW a \in Actions, NEW file, output' = [output EXCEPT ![a].file = file]
    PROVE  /\ Actions' = Actions
           /\ output'[a].file = file /\ output'[a].covers = output[a].covers
           /\ \A b \in Actions \ {a} : output'[b] = output[b]
           /\ \A b \in Actions : output'[b].covers = output[b].covers
           /\ UNCHANGED ledger => Unfinished' = Unfinished
  <1>1. output[a] \in OutputRecord
    BY DEF Typed, Actions
  <1>2. /\ Actions' = Actions
        /\ output'[a].file = file /\ output'[a].covers = output[a].covers
        /\ \A b \in Actions \ {a} : output'[b] = output[b]
    BY <1>1 DEF Typed, OutputRecord, Actions
  <1> QED
    BY <1>2, Still DEF Unfinished

(* Outputs with the same actions are equally many.                         *)
LEMMA LenKept ==
    ASSUME Typed, Typed', Actions' = Actions
    PROVE  Len(output') = Len(output)
  <1>1. Len(output) \in Nat /\ Len(output') \in Nat /\ 1..Len(output') = 1..Len(output)
    BY DEF Typed, Actions
  <1>2. \A m, n \in Nat : 1..m = 1..n => m = n
    <2>1. ASSUME NEW m \in Nat, NEW n \in Nat, 1..m = 1..n, m < n
          PROVE  FALSE
      <3>1. n \in 1..n /\ n \notin 1..m
        BY <2>1
      <3> QED
        BY <2>1, <3>1
    <2>2. ASSUME NEW m \in Nat, NEW n \in Nat, 1..m = 1..n
          PROVE  m = n
      BY <2>1, <2>2
    <2> QED
      BY <2>2
  <1> QED
    BY <1>1, <1>2

(* A step that touches neither ledger, files nor assets keeps the layer of *)
(* the actions.                                                            *)
LEMMA QuietActions ==
    ASSUME Typed, Logged, OneAtATime, Filed, UNCHANGED <<ledger, output>>, run'.assets = run.assets,
           call'.act = call.act \/ call'.act = 0, call'.at \notin Doing,
           snap'.status # "REMEDIATING" \/ call'.at \in Remedying \ {"recover"} => Unfinished = {}
    PROVE  Logged' /\ OneAtATime' /\ Filed'
  <1>1. /\ Starts' = Starts /\ Completed' = Completed /\ Failed' = Failed
        /\ Actions' = Actions /\ Unfinished' = Unfinished /\ \A a : Intact(a)' = Intact(a)
    BY Still, StillOutput
  <1>2. Logged'
    BY <1>1 DEF Logged
  <1>3. OneAtATime'
    BY <1>1, Still DEF OneAtATime
  <1>4. Filed'
    BY <1>1 DEF Filed, At, Doing
  <1> QED
    BY <1>2, <1>3, <1>4

(* Every step of the executor, its failures and its recovery keep one      *)
(* action at a time, its file where the call says.                         *)
LEMMA ActionsStep == IInv /\ [Next]_vars => Logged' /\ OneAtATime' /\ Filed'
  <1> SUFFICES ASSUME IInv, [Next]_vars
               PROVE  Logged' /\ OneAtATime' /\ Filed'
    OBVIOUS
  <1>0. /\ Typed /\ Placed /\ Phased /\ Coherent /\ Logged /\ OneAtATime /\ Filed
        /\ snap \in Snapshot /\ call \in CallRecord /\ Typed'
    BY TypedStep DEF IInv, Typed
  <1>a. \/ Persist
        \/ run'.assets = run.assets
    BY <1>0, RunEffects
  <1> DEFINE Quiet ==
        /\ UNCHANGED <<ledger, output>>
        /\ call'.act = call.act \/ call'.act = 0
        /\ call'.at \notin Doing
        /\ snap'.status # "REMEDIATING" \/ call'.at \in Remedying \ {"recover"} => Unfinished = {}
  <1>q. ASSUME Quiet, run'.assets = run.assets
        PROVE  Logged' /\ OneAtATime' /\ Filed'
    BY <1>0, <1>q, QuietActions
  <1>1. ASSUME Prepare
        PROVE  Quiet
    <2>1. snap.status # "REMEDIATING" /\ UNCHANGED <<ledger, output>>
      BY <1>0, <1>1 DEF Prepare, Placed, At, Successor
    <2>2. call'.act = call.act /\ call'.at \in {"inspect", "prepare"}
      BY <1>0, <1>1, Jump DEF Prepare
    <2> QED
      BY <1>0, <2>1, <2>2 DEF OneAtATime, Doing, Remedying
  <1>2. ASSUME Inspect
        PROVE  Quiet
    BY <1>0, <1>2, Jump DEF Inspect, Placed, OneAtATime,
       At, Doing, Remedying, Judging, Answering, Terminal, Lifecycle!Terminal
  <1>3. ASSUME FindingsReady \/ OfferOptions
        PROVE  Quiet
    BY <1>0, <1>3, Jump, Move DEF FindingsReady, OfferOptions, Placed, OneAtATime,
       At, Doing, Remedying, Judging, Answering, Terminal, Lifecycle!Terminal
  <1>4. ASSUME AdvanceRemediating
        PROVE  Quiet
    BY <1>0, <1>4 DEF AdvanceRemediating, Idle, Placed, OneAtATime,
       At, Doing, Remedying, Judging, Answering, Terminal, Lifecycle!Terminal
  <1>5. ASSUME AdvanceTerminal
        PROVE  Quiet
    BY <1>0, <1>5 DEF AdvanceTerminal, Idle, Placed, OneAtATime,
       At, Doing, Remedying, Judging, Answering, Terminal, Lifecycle!Terminal
  <1>6. ASSUME AdvanceReady
        PROVE  Quiet
    BY <1>0, <1>6, Jump DEF AdvanceReady, Placed, OneAtATime,
       At, Doing, Remedying, Judging, Answering, Terminal, Lifecycle!Terminal
  <1>7. ASSUME Conclude \/ ConcludeGivenUp
        PROVE  Quiet
    BY <1>0, <1>7, VerdictKinds, NoneFacts, Jump, Move DEF Conclude, ConcludeGivenUp, Placed, OneAtATime,
       At, Doing, Remedying, Judging, Answering, Terminal, Lifecycle!Terminal
  <1>8. ASSUME Exhaust \/ NoAction
        PROVE  Quiet
    BY <1>0, <1>8, Jump DEF Exhaust, NoAction, Diagnosing, Placed, OneAtATime,
       At, Doing, Remedying, Judging, Answering, Terminal, Lifecycle!Terminal
  <1>9. ASSUME Raises
        PROVE  Quiet
    BY <1>0, <1>9, Jump DEF Raises, Diagnosing, Placed, OneAtATime,
       At, Doing, Remedying, Judging, Answering, Terminal, Lifecycle!Terminal
  <1>10. ASSUME ApplyTierOne
        PROVE  Quiet
    BY <1>0, <1>10, Move DEF ApplyTierOne, Diagnosing, Idle, Placed, OneAtATime,
       At, Doing, Remedying, Judging, Answering, Terminal, Lifecycle!Terminal
  <1>11. ASSUME Escalate
        PROVE  Quiet
    BY <1>0, <1>11 DEF Escalate, Diagnosing, Idle, Placed, OneAtATime,
       At, Doing, Remedying, Judging, Answering, Terminal, Lifecycle!Terminal
  <1>12. ASSUME RecordRequest \/ RecordEvidence \/ WriteEvidence
        PROVE  Quiet
    BY <1>0, <1>12, Jump DEF RecordRequest, RecordEvidence, WriteEvidence, Placed, OneAtATime,
       At, Doing, Remedying, Judging, Answering, Terminal, Lifecycle!Terminal
  <1>13. ASSUME Pause
        PROVE  Quiet
    BY <1>0, <1>13, Jump, Move DEF Pause, Placed, OneAtATime,
       At, Doing, Remedying, Judging, Answering, Terminal, Lifecycle!Terminal
  <1>14. ASSUME Deny \/ RecordDenial
        PROVE  Quiet
    BY <1>0, <1>14, Jump DEF Deny, RecordDenial, Resolvable, Placed, OneAtATime,
       At, Doing, Remedying, Judging, Answering, Terminal, Lifecycle!Terminal
  <1>15. ASSUME Block \/ WithdrawOptions \/ Resume
        PROVE  Quiet
    BY <1>0, <1>15, Jump, Move DEF Block, WithdrawOptions, Resume, Placed, OneAtATime,
       At, Doing, Remedying, Judging, Answering, Terminal, Lifecycle!Terminal
  <1>16. ASSUME Approve
        PROVE  Quiet
    BY <1>0, <1>16 DEF Approve, Resolvable, Idle, Placed, OneAtATime,
       At, Doing, Remedying, Judging, Answering, Terminal, Lifecycle!Terminal
  <1>17. ASSUME ApproveRequest \/ RecordApproval
        PROVE  Quiet
    BY <1>0, <1>17, Jump DEF ApproveRequest, RecordApproval, Placed, OneAtATime,
       At, Doing, Remedying, Judging, Answering, Terminal, Lifecycle!Terminal
  <1>18. ASSUME Executed
        PROVE  Quiet
    BY <1>0, <1>18, Jump DEF Executed, Placed, OneAtATime,
       At, Doing, Remedying, Judging, Answering, Terminal, Lifecycle!Terminal
  <1>19. ASSUME RecoveryDone
        PROVE  Quiet
    BY <1>0, <1>19, Jump DEF RecoveryDone, Placed, OneAtATime,
       At, Doing, Remedying, Judging, Answering, Terminal, Lifecycle!Terminal
  <1>20. ASSUME FailRun
        PROVE  Quiet
    BY <1>0, <1>20, Jump, Move DEF FailRun, Placed, OneAtATime,
       At, Doing, Remedying, Judging, Answering, Terminal, Lifecycle!Terminal
  <1>21. ASSUME RefreshManifest
        PROVE  Quiet
    BY <1>0, <1>21, Jump DEF RefreshManifest, Placed, OneAtATime,
       At, Doing, Remedying, Judging, Answering, Terminal, Lifecycle!Terminal
  <1>22. ASSUME Refreshed \/ Finish
        PROVE  Quiet
    BY <1>0, <1>22, Jump DEF Refreshed, Finish, Placed, OneAtATime,
       At, Doing, Remedying, Judging, Answering, Terminal, Lifecycle!Terminal
  <1>23. ASSUME Reinspect
        PROVE  Quiet
    BY <1>0, <1>23, Jump, Move DEF Reinspect, Placed, OneAtATime,
       At, Doing, Remedying, Judging, Answering, Terminal, Lifecycle!Terminal
  <1>24. ASSUME Tamper \/ UNCHANGED vars
        PROVE  Logged' /\ OneAtATime' /\ Filed'
    BY <1>0, <1>24, Still, StillOutput DEF Tamper, vars, Logged, OneAtATime, Filed, At
  <1>30. ASSUME Write \/ Promote \/ Abort
        PROVE  Logged' /\ OneAtATime' /\ Filed'
    <2>1. /\ call'.act = call.act /\ call.at \in {"write", "promote", "persist"}
          /\ call'.at \in {"promote", "persist", "fail"}
          /\ UNCHANGED <<snap, run, ledger>> /\ call'.phase = call.phase
      BY <1>0, <1>30, Jump DEF Write, Promote, Abort, At
    <2>2. /\ Starts' = Starts /\ Completed' = Completed /\ Failed' = Failed
          /\ call.act \in Unfinished /\ call.act \notin run.assets /\ call.act \in Actions
          /\ run.assets \subseteq Actions
      BY <1>0, <2>1, Still DEF OneAtATime, Filed, Doing, Unfinished, Logged
    <2>3. /\ Actions' = Actions /\ Unfinished' = Unfinished
          /\ \A a \in Actions \ {call.act} : output'[a] = output[a]
          /\ output'[call.act].file =
                IF call'.at = "promote" THEN "temp"
                 ELSE IF call'.at = "persist" THEN "good"
                 ELSE IF At("persist") THEN "quarantined" ELSE "none"
          /\ output'[call.act].covers \subseteq Actions
      <3>1. CASE Write
        BY <1>0, <2>2, <3>1, Still, Jump DEF Write, Typed, Actions, Unfinished, Package
      <3>2. CASE Promote
        <4>1. output' = [output EXCEPT ![call.act].file = "good"]
          BY <3>2 DEF Promote
        <4>2. /\ Actions' = Actions /\ output'[call.act].file = "good"
              /\ output'[call.act].covers = output[call.act].covers
              /\ \A b \in Actions \ {call.act} : output'[b] = output[b]
              /\ UNCHANGED ledger => Unfinished' = Unfinished
          BY <1>0, <2>2, <4>1, Refiled
        <4>3. call'.at = "persist"
          BY <1>0, <3>2, Jump DEF Promote
        <4> QED
          BY <1>0, <2>1, <2>2, <4>2, <4>3 DEF Logged
      <3>3. CASE Abort
        <4>0. PICK file : /\ file = IF At("persist") THEN "quarantined" ELSE "none"
                          /\ output' = [output EXCEPT ![call.act].file = file]
          BY <3>3 DEF Abort
        <4>1. output' = [output EXCEPT ![call.act].file = file]
          BY <4>0
        <4>2. /\ Actions' = Actions /\ output'[call.act].file = file
              /\ output'[call.act].covers = output[call.act].covers
              /\ \A b \in Actions \ {call.act} : output'[b] = output[b]
              /\ UNCHANGED ledger => Unfinished' = Unfinished
          BY <1>0, <2>2, <4>1, Refiled
        <4>3. call'.at = "fail"
          BY <1>0, <3>3, Jump DEF Abort
        <4> QED
          BY <1>0, <2>1, <2>2, <4>0, <4>2, <4>3 DEF Logged
      <3> QED
        BY <1>30, <3>1, <3>2, <3>3
    <2>4. Logged'
      BY <1>0, <2>1, <2>2, <2>3 DEF Logged
    <2>5. OneAtATime'
      BY <1>0, <2>1, <2>2, <2>3, LenKept DEF OneAtATime, Doing, Remedying, Placed
    <2>6. Filed'
      <3>1. \A a \in Completed \cup Failed : a # call.act /\ a \in Actions
        BY <1>0, <2>2, EventFacts DEF Unfinished
      <3> QED
        BY <1>0, <2>1, <2>2, <2>3, <3>1 DEF Filed, At, Intact
    <2> QED
      BY <2>4, <2>5, <2>6
  <1>31. ASSUME Persist
        PROVE  Logged' /\ OneAtATime' /\ Filed'
    <2>1. /\ call'.act = call.act /\ At("persist") /\ call'.at = "complete" /\ UNCHANGED <<snap, ledger, output>>
          /\ run'.assets = run.assets \cup {call.act}
      BY <1>0, <1>31, Jump DEF Persist, Typed, RunRecord
    <2>2. /\ Starts' = Starts /\ Completed' = Completed /\ Failed' = Failed /\ Unfinished' = Unfinished
          /\ Actions' = Actions /\ call.act \in Unfinished /\ call.act \in Actions
          /\ \A a : Intact(a)' = Intact(a)
      BY <1>0, <2>1, Still, StillOutput DEF OneAtATime, At, Doing, Unfinished
    <2>4. Logged'
      BY <1>0, <2>1, <2>2 DEF Logged
    <2>5. OneAtATime'
      BY <1>0, <2>1, <2>2 DEF OneAtATime, At, Doing, Remedying, Placed
    <2>6. Filed'
      BY <1>0, <2>1, <2>2 DEF Filed, At
    <2> QED
      BY <2>4, <2>5, <2>6
  <1>32. ASSUME Void
        PROVE  Logged' /\ OneAtATime' /\ Filed'
    <2>1. /\ call'.act = call.act /\ At("fail") /\ call'.at = "failed" /\ UNCHANGED <<snap, run, ledger, output>>
      BY <1>0, <1>32, Jump DEF Void
    <2>2. /\ Starts' = Starts /\ Completed' = Completed /\ Failed' = Failed /\ Unfinished' = Unfinished
          /\ Actions' = Actions /\ \A a : Intact(a)' = Intact(a)
      BY <2>1, Still, StillOutput
    <2> QED
      BY <1>0, <2>1, <2>2 DEF Logged, OneAtATime, Filed, At, Doing, Remedying
  <1>33. ASSUME Crash
        PROVE  Logged' /\ OneAtATime' /\ Filed'
    <2>1. PICK damaged \in SUBSET {a \in Unfinished : Intact(a)} :
            output' = [a \in Actions |-> IF a \in damaged THEN [output[a] EXCEPT !.file = "damaged"] ELSE output[a]]
      BY <1>33 DEF Crash
    <2>2. /\ call'.act = 0 /\ call'.at = "idle" /\ UNCHANGED <<snap, run, ledger>>
      BY <1>0, <1>33, Jump DEF Crash
    <2>3. /\ Starts' = Starts /\ Completed' = Completed /\ Failed' = Failed /\ Unfinished' = Unfinished
          /\ Actions' = Actions
      BY <2>1, <2>2, Still DEF Actions, Unfinished
    <2>4. /\ \A a \in Actions : output'[a].covers = output[a].covers
          /\ \A a \in Completed \cup Failed : output'[a] = output[a]
      <3>1. \A a \in Actions : output[a] \in OutputRecord
        BY <1>0 DEF Typed, Actions
      <3>2. \A a \in Completed \cup Failed : a \in Actions /\ a \notin damaged
        BY <1>0, EventFacts DEF Unfinished
      <3> QED
        BY <2>1, <3>1, <3>2 DEF OutputRecord
    <2>5. Len(output') = Len(output)
      BY <1>0, <2>3, LenKept
    <2> QED
      BY <1>0, <2>2, <2>3, <2>4, <2>5 DEF Logged, OneAtATime, Filed, At, Intact, Doing, Remedying
  <1>34. ASSUME Recover
        PROVE  Logged' /\ OneAtATime' /\ Filed'
    <2>1. PICK a \in Unfinished :
            /\ call'.act = a
            /\ \/ /\ call'.at = "complete" /\ a \in run.assets /\ Intact(a) /\ UNCHANGED output
               \/ /\ call'.at = "persist" /\ a \notin run.assets /\ Intact(a) /\ UNCHANGED output
               \/ /\ call'.at = "fail"
                  /\ \E file \in {"none", "quarantined"} : output' = [output EXCEPT ![a].file = file]
      <3>1. PICK a \in Unfinished :
            \/ /\ a \in run.assets /\ Recovered(a)
               /\ call' = [call EXCEPT !.at = "complete", !.act = a] /\ UNCHANGED output
            \/ /\ a \in run.assets
               /\ call' = [call EXCEPT !.at = "fail", !.act = a, !.phase = "integrity"]
               /\ output' = [output EXCEPT ![a].file = "quarantined"]
            \/ /\ a \notin run.assets /\ Intact(a)
               /\ call' = [call EXCEPT !.at = "persist", !.act = a] /\ UNCHANGED output
            \/ /\ call' = [call EXCEPT !.at = "fail", !.act = a]
               /\ output' = [output EXCEPT ![a].file = IF @ = "damaged" THEN "quarantined" ELSE "none"]
        BY <1>34 DEF Recover
      <3>2. \/ call'.at = "complete" /\ a \in run.assets /\ Intact(a) /\ UNCHANGED output
            \/ call'.at = "persist" /\ a \notin run.assets /\ Intact(a) /\ UNCHANGED output
            \/ /\ call'.at = "fail"
               /\ \E file \in {"none", "quarantined"} : output' = [output EXCEPT ![a].file = file]
        BY <1>0, <3>1 DEF Recovered, CallRecord
      <3>3. call'.act = a
        BY <1>0, <3>1 DEF CallRecord
      <3> QED
        BY <3>2, <3>3
    <2>2. /\ UNCHANGED <<snap, run, ledger>> /\ At("recover") /\ snap.status = "REMEDIATING"
      BY <1>0, <1>34 DEF Recover, Placed, At, Remedying
    <2>3. /\ Starts' = Starts /\ Completed' = Completed /\ Failed' = Failed /\ a \in Actions
          /\ \A b \in Completed \cup Failed : b # a /\ b \in Actions
      BY <1>0, <2>2, Still, EventFacts DEF Unfinished
    <2>4. /\ Actions' = Actions /\ Unfinished' = Unfinished
          /\ \A b \in Actions \ {a} : output'[b] = output[b]
          /\ \A b \in Actions : output'[b].covers = output[b].covers
          /\ output'[a].file = IF call'.at = "fail" THEN output'[a].file ELSE "good"
          /\ call'.at = "fail" => output'[a].file \in {"none", "quarantined"}
      BY <1>0, <2>1, <2>2, <2>3, Refiled, StillOutput DEF Intact
    <2>5. Logged'
      BY <1>0, <2>1, <2>2, <2>3, <2>4 DEF Logged
    <2>6. OneAtATime'
      BY <1>0, <2>1, <2>2, <2>4, LenKept DEF OneAtATime, Doing, Remedying
    <2>7. Filed'
      BY <1>0, <2>1, <2>2, <2>3, <2>4 DEF Filed, At, Intact
    <2> QED
      BY <2>5, <2>6, <2>7
  <1>35. ASSUME Complete \/ Fail
        PROVE  Logged' /\ OneAtATime' /\ Filed'
    <2>1. PICK type \in {"ACTION_COMPLETED", "ACTION_FAILED"} :
            /\ ledger' = Append(ledger, [type |-> type, act |-> call.act])
            /\ type = "ACTION_COMPLETED" => At("complete")
            /\ type = "ACTION_FAILED" => At("failed")
      BY <1>35 DEF Complete, Fail
    <2>2. /\ call'.act = call.act /\ call'.at \in {"refreshed", "recover", "fail_run", "execute"}
          /\ UNCHANGED <<snap, run, output>> /\ call.act \in Unfinished /\ snap.status = "REMEDIATING"
      BY <1>0, <1>35, Jump DEF Complete, Fail, Continuation, OneAtATime, At, Doing, Placed, Remedying
    <2> DEFINE i == Len(ledger) + 1
    <2>3. /\ i \notin DOMAIN ledger /\ DOMAIN ledger' = DOMAIN ledger \cup {i}
          /\ \A j \in DOMAIN ledger : ledger'[j] = ledger[j]
          /\ ledger'[i] = [type |-> type, act |-> call.act]
          /\ i \notin Starts /\ Starts' = Starts
          /\ Completed' = Completed \cup (IF type = "ACTION_COMPLETED" THEN {call.act} ELSE {})
          /\ Failed' = Failed \cup (IF type = "ACTION_FAILED" THEN {call.act} ELSE {})
      BY <1>0, <2>1, <2>2, Ended
    <2> HIDE DEF i
    <2>4. Actions' = Actions /\ Unfinished' = {} /\ call.act \in Actions
      BY <1>0, <2>2, <2>3 DEF Actions, Unfinished, OneAtATime
    <2>5. \A j \in DOMAIN ledger \ Starts : ledger[j].act # call.act
      <3>1. \A j \in DOMAIN ledger \ Starts : ledger[j].act \in Completed \cup Failed
        BY <1>0, EventFacts DEF EndEvent, Completed, Failed, Ends
      <3> QED
        BY <2>2, <3>1 DEF Unfinished
    <2>6. Logged'
      BY <1>0, <2>2, <2>3, <2>4, <2>5 DEF Logged, Starts
    <2>7. OneAtATime'
      BY <1>0, <2>2, <2>4 DEF OneAtATime, Doing, Remedying
    <2>8. Filed'
      BY <1>0, <2>1, <2>2, <2>3 DEF Filed, At, Intact
    <2> QED
      BY <2>6, <2>7, <2>8
  <1>36. ASSUME NEW f \in Finding, NEW cap \in Nat, Begin(f, cap), Unfinished = {}, UNCHANGED <<snap, run>>,
               call'.at = "write", call'.act = Len(output) + 1, snap.status = "REMEDIATING"
        PROVE  Logged' /\ OneAtATime' /\ Filed'
    <2>1. PICK n, i, e :
           /\ n = Len(output) + 1 /\ e.act = n
           /\ n \in Nat /\ n \notin Actions /\ Actions' = Actions \cup {n}
           /\ i \notin DOMAIN ledger /\ DOMAIN ledger' = DOMAIN ledger \cup {i}
           /\ \A j \in DOMAIN ledger : ledger'[j] = ledger[j]
           /\ ledger'[i] = e
           /\ i \notin Starts /\ Starts' = Starts \cup {i}
           /\ Completed' = Completed /\ Failed' = Failed
           /\ Unfinished' = Unfinished \cup {n}
           /\ n \notin Completed \cup Failed
           /\ output'[n].file = "none" /\ output'[n].covers = {}
           /\ \A a \in Actions : output'[a] = output[a]
      <3> DEFINE e == [type |-> "ACTION_STARTED", act |-> Len(output) + 1, finding |-> f,
                       auth |-> IF TierOf(f) = 2 THEN cap ELSE None]
      <3>1. e.act = Len(output) + 1
        OBVIOUS
      <3> HIDE DEF e
      <3>2. ledger'[Len(ledger) + 1] = e
        BY <1>0, <1>36, Begun DEF e
      <3> DEFINE n == Len(output) + 1
                 i == Len(ledger) + 1
      <3>3. /\ n \in Nat /\ n \notin Actions /\ Actions' = Actions \cup {n}
            /\ i \notin DOMAIN ledger /\ DOMAIN ledger' = DOMAIN ledger \cup {i}
            /\ \A j \in DOMAIN ledger : ledger'[j] = ledger[j]
            /\ i \notin Starts /\ Starts' = Starts \cup {i}
            /\ Completed' = Completed /\ Failed' = Failed
            /\ Unfinished' = Unfinished \cup {n}
            /\ n \notin Completed \cup Failed
            /\ \A a \in Actions : output'[a] = output[a]
        BY <1>0, <1>36, Begun
      <3>4. output'[n].file = "none" /\ output'[n].covers = {}
        <4>1. output'[n] = [file |-> "none", covers |-> {}]
          BY <1>0, <1>36, Begun
        <4> QED
          BY <4>1
      <3> HIDE DEF n, i
      <3> QED
        BY <3>1, <3>2, <3>3, <3>4 DEF n, i
    <2>3. \A j \in DOMAIN ledger : ledger[j].act \in Actions
      BY <1>0 DEF Logged
    <2>4. call'.act = n
      BY <1>36, <2>1
    <2>5. /\ \A j \in DOMAIN ledger' : ledger'[j].act \in Actions'
          /\ \A a \in Actions' : \E j \in Starts' : ledger'[j].act = a
      BY <1>0, <2>1, <2>3 DEF Logged, Starts
    <2>6. \A j, k \in Starts' : ledger'[j].act = ledger'[k].act => j = k
      BY <1>0, <2>1, <2>3 DEF Logged, Starts
    <2>7. \A j, k \in DOMAIN ledger' \ Starts' : ledger'[j].act = ledger'[k].act => j = k
      BY <1>0, <2>1 DEF Logged
    <2>8. run'.assets \subseteq Actions' /\ \A a \in Actions' : output'[a].covers \subseteq Actions'
      BY <1>0, <1>36, <2>1 DEF Logged
    <2>9. Logged'
      BY <2>1, <2>4, <2>5, <2>6, <2>7, <2>8 DEF Logged
    <2>10. OneAtATime'
      <3>1. Len(output') = Len(output) + 1
        BY <1>0, <1>36, Begun
      <3> QED
        BY <1>36, <2>1, <2>4, <3>1 DEF OneAtATime, Doing, Remedying
    <2>11. Filed'
      <3>1. \A a \in Completed \cup Failed : a \in Actions
        BY <1>0, EventFacts
      <3> QED
        BY <1>0, <1>36, <2>1, <2>4, <3>1 DEF Filed, At, Intact, Logged
    <2> QED
      BY <2>9, <2>10, <2>11
  <1>37. ASSUME Execute
        PROVE  Logged' /\ OneAtATime' /\ Filed'
    <2>1. PICK f \in call.todo :
            /\ Begin(f, call.cap) /\ UNCHANGED <<snap, run>>
            /\ call' = [call EXCEPT !.at = "write", !.todo = @ \ {f}, !.act = Len(output) + 1]
      BY <1>37 DEF Execute, First
    <2>2. call'.at = "write" /\ call'.act = Len(output) + 1
      BY <1>0, <2>1 DEF CallRecord
    <2>3. f \in Finding /\ call.cap \in Nat
      BY <1>0, <2>1 DEF CallRecord
    <2>4. snap.status = "REMEDIATING" /\ Unfinished = {}
      BY <1>0, <1>37 DEF Execute, At, Placed, OneAtATime, Remedying, Doing
    <2> QED
      BY <1>36, <2>1, <2>2, <2>3, <2>4
  <1>38. ASSUME BeginRefresh
        PROVE  Logged' /\ OneAtATime' /\ Filed'
    <2>1. snap.status = "REMEDIATING" /\ Unfinished = {}
      BY <1>0, <1>38 DEF BeginRefresh, At, Placed, OneAtATime, Remedying, Doing
    <2>2. CASE Open(RefreshFinding)
      <3>1. Begin(RefreshFinding, 0) /\ UNCHANGED <<snap, run>>
        BY <1>38, <2>2 DEF BeginRefresh
      <3>2. call'.at = "write" /\ call'.act = Len(output) + 1
        BY <1>0, <1>38, <2>2 DEF BeginRefresh, CallRecord
      <3>3. RefreshFinding \in Finding /\ 0 \in Nat
        BY <1>0 DEF Snapshot, RefreshFinding, Finding
      <3> QED
        BY <1>36, <2>1, <3>1, <3>2, <3>3
    <2>3. CASE ~Open(RefreshFinding)
      <3>1. Quiet
        BY <1>0, <1>38, <2>1, <2>3, Jump DEF BeginRefresh, Doing
      <3>2. run'.assets = run.assets
        BY <1>38 DEF BeginRefresh
      <3> QED
        BY <1>q, <3>1, <3>2
    <2> QED
      BY <2>2, <2>3
  <1> HIDE DEF Quiet
  <1> QED
    BY <1>a, <1>q, <1>1, <1>2, <1>3, <1>4, <1>5, <1>6, <1>7, <1>8, <1>9, <1>10, <1>11, <1>12, <1>13, <1>14,
       <1>15, <1>16, <1>17, <1>18, <1>19, <1>20, <1>21, <1>22, <1>23, <1>24, <1>30, <1>31, <1>32, <1>33,
       <1>34, <1>35, <1>37, <1>38 DEF Next, Advance, Select, Work

(* Nothing is executed before the first inspection.                        *)
LEMMA UnbegunStep == IInv /\ [Next]_vars => Unbegun'
  <1> SUFFICES ASSUME IInv, [Next]_vars, snap'.status \in Lifecycle!Preparing
               PROVE  Actions' = {}
    BY DEF Unbegun
  <1>0. /\ Typed /\ Placed /\ Logged /\ Unbegun /\ snap \in Snapshot /\ call \in CallRecord
    BY DEF IInv, Typed
  <1>1. ASSUME UNCHANGED snap
        PROVE  snap.status \in Lifecycle!Preparing
    BY <1>1
  <1>2. \/ UNCHANGED snap \/ Prepare
    <2> USE Move DEF Lifecycle!Preparing
    <2>1. ASSUME FindingsReady \/ ApplyTierOne \/ FailRun
          PROVE  snap'.status \notin Lifecycle!Preparing
      <3>1. PICK s \in {"FINDINGS_READY", "REMEDIATING", "FAILED"} : snap' = Lifecycle!Proceeded(snap, s)
        BY <2>1 DEF FindingsReady, ApplyTierOne, FailRun
      <3>2. snap'.status = s
        BY <1>0, <3>1
      <3> QED
        BY <3>2
    <2>2. ASSUME Conclude \/ ConcludeGivenUp
          PROVE  snap'.status \notin Lifecycle!Preparing
      BY <1>0, <2>2, VerdictKinds, NoneFacts DEF Conclude, ConcludeGivenUp
    <2>3. ASSUME Pause \/ Block \/ Resume \/ Reinspect
          PROVE  snap'.status \notin Lifecycle!Preparing
      <3>1. CASE Pause
        <4>1. snap'.status = "AWAITING_HUMAN_DECISION"
          BY <1>0, <3>1 DEF Pause
        <4> QED
          BY <4>1
      <3>2. CASE Block \/ Resume
        <4>1. snap'.status \in {"BLOCKED", "REMEDIATING"}
          BY <1>0, <3>2 DEF Block, Resume
        <4> QED
          BY <4>1
      <3>3. CASE Reinspect
        <4>1. snap'.status = "INSPECTING"
          BY <1>0, <3>3 DEF Reinspect
        <4> QED
          BY <4>1
      <3> QED
        BY <2>3, <3>1, <3>2, <3>3
    <2>4. ASSUME OfferOptions \/ WithdrawOptions
          PROVE  snap'.status \notin Lifecycle!Preparing
      BY <1>0, <2>4 DEF OfferOptions, WithdrawOptions, Placed, At, Judging
    <2> QED
      BY <2>1, <2>2, <2>3, <2>4 DEF Next, Advance, AdvanceTerminal, AdvanceRemediating, AdvanceReady, Select,
         Escalate, NoAction, Raises, Work, Inspect, Exhaust, RecordRequest, WriteEvidence,
         RecordEvidence,
         RecordDenial, ApproveRequest, RecordApproval, Execute, Executed, Write, Promote, Persist, Complete,
         Abort,
         Void, Fail, Recover, RecoveryDone, RefreshManifest, BeginRefresh, Refreshed, Finish, Deny, Approve,
         Crash, Tamper, vars
  <1>3. snap.status \in Lifecycle!Preparing
    <2>1. CASE Prepare
      BY <1>0, <2>1 DEF Prepare, Placed, At, Successor, Lifecycle!Preparing
    <2> QED
      BY <1>1, <1>2, <2>1
  <1>4. Actions = {}
    BY <1>0, <1>3 DEF Unbegun
  <1>5. call.at \notin Remedying
    BY <1>0, <1>3 DEF Placed, Lifecycle!Preparing
  <1>6. UNCHANGED output \/ Crash
    BY <1>5 DEF Next, Advance, AdvanceTerminal, AdvanceRemediating, AdvanceReady, Select, ApplyTierOne,
       Escalate, NoAction, Raises, Work, Prepare, Inspect, FindingsReady, OfferOptions, Conclude,
       Exhaust,
       ConcludeGivenUp, RecordRequest, Pause, WriteEvidence, RecordEvidence, RecordDenial, Block,
       WithdrawOptions,
       ApproveRequest, RecordApproval, Resume, Execute, Executed, Write, Promote, Persist, Complete, Abort,
       Void, Fail, Recover, RecoveryDone, FailRun, RefreshManifest, BeginRefresh, Refreshed, Finish,
       Reinspect,
       Deny, Approve, Tamper, vars, At, Remedying, Doing
  <1> QED
    BY <1>4, <1>6 DEF Actions, Crash

-----------------------------------------------------------------------------
(* The next request number counts the request files there are.             *)
LEMMA NextKept ==
    ASSUME \A d \in Decision : decision'[d] = "NONE" <=> decision[d] = "NONE"
    PROVE  NextDecision' = NextDecision
  <1>1. {d \in Decision : decision'[d] # "NONE"} = {d \in Decision : decision[d] # "NONE"}
    OBVIOUS
  <1> QED
    BY <1>1 DEF NextDecision

(* There are finitely many request numbers.                                *)
LEMMA DecisionFinite == IsFiniteSet(Decision) /\ Decision \subseteq Nat
  BY OrchestratorAssumption, FS_Interval DEF Decision

(* A new request file takes the next number.                               *)
LEMMA NextAsked ==
    ASSUME Typed, NextDecision \in Decision, decision[NextDecision] = "NONE",
           decision' = [decision EXCEPT ![NextDecision] = "PENDING"]
    PROVE  NextDecision' = NextDecision + 1
  <1> DEFINE S == {d \in Decision : decision[d] # "NONE"}
  <1>1. IsFiniteSet(S) /\ NextDecision \notin S
    BY DecisionFinite, FS_Subset
  <1>2. {d \in Decision : decision'[d] # "NONE"} = S \cup {NextDecision}
    BY DEF Typed
  <1>3. Cardinality(S \cup {NextDecision}) = Cardinality(S) + 1 /\ Cardinality(S) \in Nat
    BY <1>1, FS_AddElement, FS_CardinalityType
  <1> QED
    BY <1>2, <1>3 DEF NextDecision

(* The budget is a number.                                                 *)
LEMMA BudgetTyped == (Typed => Budget \in Nat) /\ (Typed' => Budget' \in Nat)
  BY OrchestratorAssumption, SMTT(20) DEF Typed, Snapshot, Cycle, Budget

(* A step that writes no request file and goes to no place about one keeps *)
(* Asked.                                                                  *)
LEMMA AskedKept ==
    ASSUME Asked, Placed', UNCHANGED decision, Budget' >= Budget, Budget \in Nat, Budget' \in Nat,
           Escalating' => Escalating,
           snap'.status = "AWAITING_HUMAN_DECISION" =>
              snap.status = "AWAITING_HUMAN_DECISION" /\ snap'.decision = snap.decision,
           At("approve")' => At("approve"),
           (call.at \in {"record_approval", "resume"})' => call.at \in {"record_approval", "resume"},
           (call.at \in {"record_denial", "block"})' => call.at \in {"record_denial", "block"}
    PROVE  Asked'
  <1>1. NextDecision' = NextDecision
    BY NextKept
  <1>2. /\ NextDecision' \in Nat /\ NextDecision' >= 1 /\ NextDecision' - 1 =< Budget'
        /\ \A d \in Decision : decision'[d] # "NONE" <=> d < NextDecision'
    BY <1>1 DEF Asked
  <1>3. Escalating' => NextDecision' - 1 \in Decision /\ decision'[NextDecision' - 1] = "PENDING"
    BY <1>1 DEF Asked, Escalating
  <1>4. /\ call'.at \in Answering => snap'.status = "AWAITING_HUMAN_DECISION"
        /\ snap'.status = "AWAITING_HUMAN_DECISION" => decision'[snap'.decision] # "NONE"
    BY DEF Placed, Asked
  <1>5. /\ At("approve")' => decision'[snap'.decision] = "PENDING"
        /\ call'.at \in {"record_approval", "resume"} => decision'[snap'.decision] = "APPROVED"
        /\ call'.at \in {"record_denial", "block"} => decision'[snap'.decision] = "DENIED"
    BY <1>4 DEF Asked, Answering, At
  <1> QED
    BY <1>2, <1>3, <1>4, <1>5 DEF Asked, Escalating

(* Each request takes a number of its own, and there is always one left: a *)
(* cycle or a crash pays for it.                                           *)
LEMMA AskedStep == IInv /\ [Next]_vars => Asked'
  <1> SUFFICES ASSUME IInv, [Next]_vars
               PROVE  Asked'
    OBVIOUS
  <1>0. /\ Typed /\ Typed' /\ Placed /\ Placed' /\ Coherent /\ Asked
        /\ snap \in Snapshot /\ call \in CallRecord
    BY TypedStep, ControlStep DEF IInv, Typed
  <1>b. Budget \in Nat /\ Budget' \in Nat /\ snap.cycle \in Nat /\ crashes \in Nat
    BY <1>0, BudgetTyped, OrchestratorAssumption DEF Typed, Snapshot, Cycle
  <1>p. Pending => Pending' \/ (snap.status = "AWAITING_HUMAN_DECISION" /\ UNCHANGED snap)
    <2>1. CASE run'.requests = run.requests
      BY <2>1 DEF Pending
    <2>2. CASE RecordRequest
      BY <1>0, <2>2 DEF RecordRequest, Pending, RunRecord, Typed
    <2>3. CASE RecordDenial \/ RecordApproval
      BY <1>0, <2>3 DEF RecordDenial, RecordApproval, Placed, Answering, At
    <2> QED
      BY <1>0, <2>1, <2>2, <2>3, RunEffects
  <1> DEFINE Same ==
        /\ UNCHANGED decision /\ Budget' >= Budget
        /\ Escalating' => Escalating
        /\ snap'.status = "AWAITING_HUMAN_DECISION" =>
              snap.status = "AWAITING_HUMAN_DECISION" /\ snap'.decision = snap.decision
        /\ At("approve")' => At("approve")
        /\ (call.at \in {"record_approval", "resume"})' => call.at \in {"record_approval", "resume"}
        /\ (call.at \in {"record_denial", "block"})' => call.at \in {"record_denial", "block"}
  <1> DEFINE Elsewhere ==
        call'.at \notin {"record_request", "pause", "approve", "record_approval", "resume", "record_denial",
                         "block"}
  <1> DEFINE Decided == {"REMEDIATING", "AWAITING_HUMAN_DECISION"} \cup Terminal
  <1>s. ASSUME Same
        PROVE  Asked'
    BY <1>0, <1>b, <1>s, AskedKept
  <1>c. ASSUME UNCHANGED <<snap, decision, crashes>>, ~Escalating,
               Elsewhere
        PROVE  Asked'
    <2>1. Budget' >= Budget
      BY <1>0, <1>b, <1>c, <1>p DEF Budget, Escalating
    <2>2. Same
      BY <1>b, <1>c, <2>1 DEF At, Escalating
    <2> QED
      BY <1>s, <2>2
  <1>d. ASSUME UNCHANGED <<decision, crashes>>, ~Escalating, snap'.cycle = snap.cycle,
               snap.status \in Decided => snap'.status \in Decided,
               snap'.status # "AWAITING_HUMAN_DECISION",
               Elsewhere
        PROVE  Asked'
    <2>1. Budget' >= Budget
      BY <1>0, <1>b, <1>d, <1>p DEF Budget, Escalating
    <2>2. Same
      BY <1>b, <1>d, <2>1 DEF At, Escalating
    <2> QED
      BY <1>s, <2>2
  <1> HIDE DEF Same
  <1>1. ASSUME Inspect
        PROVE  Asked'
    <2>1. UNCHANGED <<snap, decision, crashes>> /\ ~Escalating
      BY <1>0, <1>1 DEF Inspect, Escalating, At
    <2>2. Elsewhere
      BY <1>0, <1>1, Jump DEF Inspect
    <2> QED
      BY <1>c, <2>1, <2>2
  <1>2. ASSUME AdvanceTerminal
        PROVE  Asked'
    <2>1. UNCHANGED <<snap, decision, crashes>> /\ ~Escalating
      BY <1>0, <1>2 DEF AdvanceTerminal, Idle, Escalating, At
    <2>2. Elsewhere
      BY <1>0, <1>2 DEF AdvanceTerminal, Idle
    <2> QED
      BY <1>c, <2>1, <2>2
  <1>3. ASSUME AdvanceRemediating \/ AdvanceReady
        PROVE  Asked'
    <2>1. UNCHANGED <<snap, decision, crashes>> /\ ~Escalating
      BY <1>0, <1>3 DEF AdvanceRemediating, AdvanceReady, Goto, Idle, CallRecord, Escalating, At
    <2>2. Elsewhere
      BY <1>0, <1>3 DEF AdvanceRemediating, AdvanceReady, Goto, Idle, CallRecord
    <2> QED
      BY <1>c, <2>1, <2>2
  <1>4. ASSUME Exhaust \/ NoAction
        PROVE  Asked'
    <2>1. UNCHANGED <<snap, decision, crashes>> /\ ~Escalating
      BY <1>0, <1>4 DEF Exhaust, NoAction, Diagnosing, Escalating, At
    <2>2. Elsewhere
      BY <1>0, <1>4, Jump DEF Exhaust, NoAction, Diagnosing
    <2> QED
      BY <1>c, <2>1, <2>2
  <1>5. ASSUME Raises
        PROVE  Asked'
    <2>1. UNCHANGED <<snap, decision, crashes, run>> /\ call'.at = "idle"
      BY <1>0, <1>5, Jump DEF Raises
    <2>2. Budget' >= Budget
      <3>1. call.at # "record_request"
        BY <1>5 DEF Raises, Diagnosing, Appending, At
      <3>2. At("pause") => Pending
        BY DEF IInv, Requested
      <3> QED
        BY <1>b, <1>p, <2>1, <3>1, <3>2 DEF Budget, At
    <2>3. Same
      BY <1>b, <2>1, <2>2 DEF Same, At, Escalating
    <2> QED
      BY <1>s, <2>3
  <1>6. ASSUME WriteEvidence \/ RecordEvidence
        PROVE  Asked'
    <2>1. UNCHANGED <<snap, decision, crashes>> /\ ~Escalating
      BY <1>0, <1>6 DEF WriteEvidence, RecordEvidence, Escalating, At
    <2>2. Elsewhere
      BY <1>0, <1>6, Jump DEF WriteEvidence, RecordEvidence
    <2> QED
      BY <1>c, <2>1, <2>2
  <1>7. ASSUME Execute
        PROVE  Asked'
    <2>1. UNCHANGED <<snap, decision, crashes>> /\ ~Escalating
      BY <1>0, <1>7 DEF Execute, CallRecord, Escalating, At
    <2>2. Elsewhere
      BY <1>0, <1>7 DEF Execute, CallRecord
    <2> QED
      BY <1>c, <2>1, <2>2
  <1>8. ASSUME Executed \/ Write \/ Promote \/ Persist
        PROVE  Asked'
    <2>1. UNCHANGED <<snap, decision, crashes>> /\ ~Escalating
      BY <1>0, <1>8 DEF Executed, Write, Promote, Persist, Escalating, At
    <2>2. Elsewhere
      BY <1>0, <1>8, Jump DEF Executed, Write, Promote, Persist
    <2> QED
      BY <1>c, <2>1, <2>2
  <1>9. ASSUME Complete \/ Fail
        PROVE  Asked'
    <2>1. UNCHANGED <<snap, decision, crashes>> /\ ~Escalating
      BY <1>0, <1>9 DEF Complete, Fail, Continuation, Escalating, At
    <2>2. Elsewhere
      BY <1>0, <1>9, Jump DEF Complete, Fail, Continuation
    <2> QED
      BY <1>c, <2>1, <2>2
  <1>10. ASSUME Abort \/ Void
        PROVE  Asked'
    <2>1. UNCHANGED <<snap, decision, crashes>> /\ ~Escalating
      BY <1>0, <1>10 DEF Abort, Void, Escalating, At
    <2>2. Elsewhere
      BY <1>0, <1>10, Jump DEF Abort, Void
    <2> QED
      BY <1>c, <2>1, <2>2
  <1>11. ASSUME Recover
        PROVE  Asked'
    <2>1. UNCHANGED <<snap, decision, crashes>> /\ ~Escalating
      BY <1>0, <1>11 DEF Recover, CallRecord, Escalating, At
    <2>2. Elsewhere
      BY <1>0, <1>11 DEF Recover, CallRecord
    <2> QED
      BY <1>c, <2>1, <2>2
  <1>12. ASSUME RecoveryDone \/ RefreshManifest \/ Refreshed \/ Finish
        PROVE  Asked'
    <2>1. UNCHANGED <<snap, decision, crashes>> /\ ~Escalating
      BY <1>0, <1>12 DEF RecoveryDone, RefreshManifest, Refreshed, Finish, Escalating, At
    <2>2. Elsewhere
      BY <1>0, <1>12, Jump DEF RecoveryDone, RefreshManifest, Refreshed, Finish
    <2> QED
      BY <1>c, <2>1, <2>2
  <1>13. ASSUME BeginRefresh
        PROVE  Asked'
    <2>1. UNCHANGED <<snap, decision, crashes>> /\ ~Escalating
      BY <1>0, <1>13, Jump DEF BeginRefresh, CallRecord, Escalating, At
    <2>2. Elsewhere
      BY <1>0, <1>13, Jump DEF BeginRefresh, CallRecord
    <2> QED
      BY <1>c, <2>1, <2>2
  <1>14. ASSUME Prepare
        PROVE  Asked'
    <2>1. UNCHANGED <<decision, crashes>> /\ ~Escalating
      BY <1>0, <1>14 DEF Prepare, Successor, Escalating, At
    <2>2. Elsewhere
      BY <1>0, <1>14, Jump DEF Prepare, Successor, Idle
    <2>3. /\ snap'.cycle = snap.cycle /\ snap'.status # "AWAITING_HUMAN_DECISION"
          /\ \/ snap'.status \in {"REMEDIATING"} \cup Terminal
             \/ snap.status \notin {"REMEDIATING", "AWAITING_HUMAN_DECISION"} \cup Terminal
      BY <1>0, <1>14, Move, SMTT(40) DEF Prepare, Successor, Placed, At, Judging, Terminal, Lifecycle!Terminal
    <2> QED
      BY <1>d, <2>1, <2>2, <2>3
  <1>15. ASSUME FindingsReady \/ OfferOptions
        PROVE  Asked'
    <2>1. UNCHANGED <<decision, crashes>> /\ ~Escalating
      BY <1>0, <1>15 DEF FindingsReady, OfferOptions, Escalating, At
    <2>2. Elsewhere
      BY <1>0, <1>15, Jump DEF FindingsReady, OfferOptions, Idle
    <2>3. /\ snap'.cycle = snap.cycle /\ snap'.status # "AWAITING_HUMAN_DECISION"
          /\ \/ snap'.status \in {"REMEDIATING"} \cup Terminal
             \/ snap.status \notin {"REMEDIATING", "AWAITING_HUMAN_DECISION"} \cup Terminal
      BY <1>0, <1>15, Move DEF FindingsReady, OfferOptions, Placed, At, Judging, Terminal, Lifecycle!Terminal
    <2> QED
      BY <1>d, <2>1, <2>2, <2>3
  <1>16. ASSUME Conclude \/ ConcludeGivenUp
        PROVE  Asked'
    <2>1. UNCHANGED <<decision, crashes>> /\ ~Escalating
      BY <1>0, <1>16 DEF Conclude, ConcludeGivenUp, Escalating, At
    <2>2. Elsewhere
      BY <1>0, <1>16, Jump DEF Conclude, ConcludeGivenUp, Idle
    <2>3. /\ snap'.cycle = snap.cycle /\ snap'.status # "AWAITING_HUMAN_DECISION"
          /\ \/ snap'.status \in {"REMEDIATING"} \cup Terminal
             \/ snap.status \notin {"REMEDIATING", "AWAITING_HUMAN_DECISION"} \cup Terminal
      BY <1>0, <1>16, Move, VerdictKinds, NoneFacts DEF Conclude, ConcludeGivenUp, Placed, At, Judging,
         Terminal, Lifecycle!Terminal
    <2> QED
      BY <1>d, <2>1, <2>2, <2>3
  <1>17. ASSUME ApplyTierOne
        PROVE  Asked'
    <2>1. UNCHANGED <<decision, crashes>> /\ ~Escalating
      BY <1>0, <1>17 DEF ApplyTierOne, Diagnosing, Escalating, At
    <2>2. Elsewhere
      BY <1>0, <1>17, Jump DEF ApplyTierOne, Idle
    <2>3. /\ snap'.cycle = snap.cycle /\ snap'.status # "AWAITING_HUMAN_DECISION"
          /\ \/ snap'.status \in {"REMEDIATING"} \cup Terminal
             \/ snap.status \notin {"REMEDIATING", "AWAITING_HUMAN_DECISION"} \cup Terminal
      BY <1>0, <1>17, Move DEF ApplyTierOne, Placed, At, Judging, Terminal, Lifecycle!Terminal
    <2> QED
      BY <1>d, <2>1, <2>2, <2>3
  <1>18. ASSUME Block \/ Resume
        PROVE  Asked'
    <2>1. UNCHANGED <<decision, crashes>> /\ ~Escalating
      BY <1>0, <1>18 DEF Block, Resume, Escalating, At
    <2>2. Elsewhere
      BY <1>0, <1>18, Jump DEF Block, Resume, Idle
    <2>3. /\ snap'.cycle = snap.cycle /\ snap'.status # "AWAITING_HUMAN_DECISION"
          /\ \/ snap'.status \in {"REMEDIATING"} \cup Terminal
             \/ snap.status \notin {"REMEDIATING", "AWAITING_HUMAN_DECISION"} \cup Terminal
      BY <1>0, <1>18, Move DEF Block, Resume, Placed, At, Judging, Terminal, Lifecycle!Terminal
    <2> QED
      BY <1>d, <2>1, <2>2, <2>3
  <1>19. ASSUME WithdrawOptions
        PROVE  Asked'
    <2>1. UNCHANGED <<decision, crashes>> /\ ~Escalating
      BY <1>0, <1>19 DEF WithdrawOptions, Escalating, At
    <2>2. Elsewhere
      BY <1>0, <1>19, Jump DEF WithdrawOptions, Idle
    <2>3. /\ snap'.cycle = snap.cycle /\ snap'.status # "AWAITING_HUMAN_DECISION"
          /\ \/ snap'.status \in {"REMEDIATING"} \cup Terminal
             \/ snap.status \notin {"REMEDIATING", "AWAITING_HUMAN_DECISION"} \cup Terminal
      BY <1>0, <1>19, Move DEF WithdrawOptions, Placed, At, Judging, Terminal, Lifecycle!Terminal
    <2> QED
      BY <1>d, <2>1, <2>2, <2>3
  <1>20. ASSUME FailRun
        PROVE  Asked'
    <2>1. UNCHANGED <<decision, crashes>> /\ ~Escalating
      BY <1>0, <1>20 DEF FailRun, Escalating, At
    <2>2. Elsewhere
      BY <1>0, <1>20, Jump DEF FailRun, Idle
    <2>3. /\ snap'.cycle = snap.cycle /\ snap'.status # "AWAITING_HUMAN_DECISION"
          /\ \/ snap'.status \in {"REMEDIATING"} \cup Terminal
             \/ snap.status \notin {"REMEDIATING", "AWAITING_HUMAN_DECISION"} \cup Terminal
      BY <1>0, <1>20, Move DEF FailRun, Placed, At, Judging, Terminal, Lifecycle!Terminal
    <2> QED
      BY <1>d, <2>1, <2>2, <2>3
  <1>21. ASSUME RecordRequest \/ RecordDenial \/ RecordApproval
        PROVE  Asked'
    <2>1. /\ UNCHANGED <<snap, decision, crashes>>
          /\ \/ At("record_request") /\ call'.at = "pause"
             \/ At("record_denial") /\ call'.at = "block"
             \/ At("record_approval") /\ call'.at = "resume"
      BY <1>0, <1>21, Jump DEF RecordRequest, RecordDenial, RecordApproval
    <2>2. Budget' >= Budget
      BY <1>b, <1>p, <2>1 DEF Budget, At
    <2>3. Same
      BY <1>b, <2>1, <2>2 DEF Same, At, Escalating
    <2> QED
      BY <1>s, <2>3
  <1>22. ASSUME Reinspect
        PROVE  Asked'
    <2>1. /\ UNCHANGED <<decision, crashes>> /\ At("reinspect") /\ call'.at = "inspect"
          /\ snap'.status = "INSPECTING" /\ snap'.cycle = snap.cycle + 1
      BY <1>0, <1>22, Jump, Move DEF Reinspect
    <2>2. Budget' >= Budget
      BY <1>b, <2>1 DEF Budget
    <2>3. Same
      BY <1>b, <2>1, <2>2 DEF Same, At, Escalating
    <2> QED
      BY <1>s, <2>3
  <1>23. ASSUME Crash
        PROVE  Asked'
    <2>1. /\ UNCHANGED <<decision, snap>> /\ crashes' = crashes + 1 /\ call'.at = "idle"
      BY <1>0, <1>23, Jump DEF Crash
    <2>2. Budget' >= Budget
      BY <1>b, <2>1 DEF Budget
    <2>3. Same
      BY <1>b, <2>1, <2>2 DEF Same, At, Escalating
    <2> QED
      BY <1>s, <2>3
  <1>24. ASSUME Tamper \/ UNCHANGED vars
        PROVE  Asked'
    <2>1. UNCHANGED <<snap, decision, crashes, call, run>>
      BY <1>24 DEF Tamper, vars
    <2>2. Budget' >= Budget
      BY <1>b, <1>p, <2>1 DEF Budget
    <2>3. Same
      BY <1>b, <2>1, <2>2 DEF Same, At, Escalating
    <2> QED
      BY <1>s, <2>3
  <1>25. ASSUME Escalate
        PROVE  Asked'
    <2>1. /\ UNCHANGED <<snap, crashes>> /\ call'.at = "record_request" /\ snap.status = "FINDINGS_READY"
          /\ call.at = "decide" /\ snap.cycle < MaxCycles
          /\ decision' = [decision EXCEPT ![NextDecision] = "PENDING"] /\ ~Pending
      BY <1>0, <1>25 DEF Escalate, Diagnosing, At, Placed, Judging, Idle
    <2>2. Budget = snap.cycle + crashes /\ Budget' = Budget + 1
      BY <1>b, <2>1 DEF Budget, Terminal, Lifecycle!Terminal
    <2>3. NextDecision \in Decision /\ decision[NextDecision] = "NONE"
      BY <1>0, <1>b, <2>1, <2>2, OrchestratorAssumption DEF Asked, Decision, Typed
    <2>4. NextDecision' = NextDecision + 1
      BY <1>0, <2>1, <2>3, NextAsked
    <2>5. \A d \in Decision : decision'[d] = IF d = NextDecision THEN "PENDING" ELSE decision[d]
      BY <1>0, <2>1, <2>3 DEF Typed
    <2>6. \A d \in Decision : decision'[d] # "NONE" <=> d < NextDecision'
      BY <1>0, <2>3, <2>4, <2>5, DecisionFinite DEF Asked
    <2> QED
      BY <1>0, <1>b, <2>1, <2>2, <2>3, <2>4, <2>5, <2>6 DEF Asked, At
  <1>26. ASSUME Pause
        PROVE  Asked'
    <2>1. /\ UNCHANGED <<decision, crashes>> /\ call.at = "pause" /\ call'.at = "idle"
          /\ snap'.status = "AWAITING_HUMAN_DECISION" /\ snap'.cycle = snap.cycle
          /\ snap'.decision = NextDecision - 1
      <3>1. PICK p : snap' = Lifecycle!Paused(snap, p) /\ p.decision = NextDecision - 1
        BY <1>26 DEF Pause
      <3> QED
        BY <1>0, <1>26, <3>1, Move, Jump DEF Pause, At
    <2>2. Budget' = Budget
      BY <1>b, <2>1 DEF Budget
    <2>3. NextDecision' = NextDecision
      BY <2>1, NextKept
    <2> QED
      BY <1>0, <2>1, <2>2, <2>3 DEF Asked, At
  <1>27. ASSUME Deny \/ Approve \/ ApproveRequest
        PROVE  Asked'
    <2>1. /\ UNCHANGED <<snap, crashes>> /\ snap.status = "AWAITING_HUMAN_DECISION"
          /\ decision[snap.decision] = "PENDING" /\ snap.decision \in Decision
          /\ \/ call'.at = "record_denial" /\ decision' = [decision EXCEPT ![snap.decision] = "DENIED"]
             \/ call'.at = "record_approval" /\ decision' = [decision EXCEPT ![snap.decision] = "APPROVED"]
             \/ call'.at = "approve" /\ UNCHANGED decision
      <3>1. CASE Deny
        BY <1>0, <3>1, Jump DEF Deny, Resolvable, Coherent, Snapshot
      <3>2. CASE Approve
        BY <1>0, <3>2 DEF Approve, Resolvable, Coherent, Snapshot, Idle
      <3>3. CASE ApproveRequest
        BY <1>0, <3>3, Jump DEF ApproveRequest, Coherent, Snapshot, Placed, Answering, Asked, At
      <3> QED
        BY <1>27, <3>1, <3>2, <3>3
    <2>2. Budget' = Budget
      BY <1>b, <2>1 DEF Budget
    <2>3. /\ \A d \in Decision : decision'[d] = "NONE" <=> decision[d] = "NONE"
          /\ call'.at = "record_denial" => decision'[snap.decision] = "DENIED"
          /\ call'.at = "record_approval" => decision'[snap.decision] = "APPROVED"
          /\ call'.at = "approve" => decision'[snap.decision] = "PENDING"
      BY <1>0, <2>1 DEF Typed
    <2>4. NextDecision' = NextDecision
      BY <2>3, NextKept
    <2> QED
      BY <1>0, <2>1, <2>2, <2>3, <2>4 DEF Asked, At
  <1> QED
    BY <1>1, <1>2, <1>3, <1>4, <1>5, <1>6, <1>7, <1>8, <1>9, <1>10, <1>11, <1>12, <1>13, <1>14,
       <1>15, <1>16, <1>17, <1>18, <1>19, <1>20, <1>21, <1>22, <1>23, <1>24, <1>25, <1>26, <1>27
    DEF Next, Advance, Select, Work

-----------------------------------------------------------------------------
(* Requested holds where nothing is pending.                               *)
LEMMA Unrequested ==
    ASSUME \A d \in Decision : run'.requests[d] # "PENDING",
           ~Escalating', snap'.status # "AWAITING_HUMAN_DECISION"
    PROVE  Requested'
  BY DEF Requested, Escalating, At

(* Requested is kept while findings are ready and no request is written.   *)
LEMMA StillRequested ==
    ASSUME Requested, snap.status = "FINDINGS_READY", snap'.status = "FINDINGS_READY", snap'.cycle = snap.cycle,
           run'.requests = run.requests,
           \A f \in run'.offers : run'.findings[f] = "OPEN" => f \in run.offers /\ Open(f),
           call'.at \notin {"record_request", "pause", "exhausted"}
    PROVE  Requested'
  BY DEF Requested, Escalating, Open, At

(* A request that is pending without being awaited was left by an          *)
(* abandoned call, and its options are still open.                         *)
LEMMA RequestedStep == IInv /\ [Next]_vars => Requested'
  <1> SUFFICES ASSUME IInv, [Next]_vars
               PROVE  Requested'
    OBVIOUS
  <1>0. /\ Typed /\ Typed' /\ Placed /\ Placed' /\ Coherent /\ Asked /\ Requested /\ Offered
        /\ snap \in Snapshot /\ call \in CallRecord /\ run \in RunRecord
    BY TypedStep, ControlStep DEF IInv, Typed
  <1>e. /\ run'.requests = run.requests \/ RecordRequest \/ RecordDenial \/ RecordApproval
        /\ \/ run'.findings = run.findings /\ run'.offers = run.offers
           \/ Inspect \/ Exhaust \/ NoAction \/ RecordDenial \/ RefreshManifest \/ Refreshed
    BY <1>0, RunEffects
  <1>n. ASSUME snap.status \notin {"AWAITING_HUMAN_DECISION", "FINDINGS_READY"}, run'.requests = run.requests,
               ~Escalating', snap'.status # "AWAITING_HUMAN_DECISION"
        PROVE  Requested'
    BY <1>0, <1>n, Unrequested DEF Requested
  <1>1. ASSUME Prepare
        PROVE  Requested'
    <2>1. snap.status \notin {"AWAITING_HUMAN_DECISION", "FINDINGS_READY"}
      BY <1>0, <1>1 DEF Prepare, Placed, At, Successor, Doing, Remedying, Terminal, Lifecycle!Terminal
    <2>2. ~Escalating' /\ snap'.status # "AWAITING_HUMAN_DECISION"
      <3>1. call'.at \in {"inspect", "prepare"}
        BY <1>0, <1>1, Jump DEF Prepare
      <3>2. snap'.status = Successor[snap.status] /\ snap.status \in DOMAIN Successor
        BY <1>0, <1>1, Move DEF Prepare, Placed, At
      <3> QED
        BY <3>1, <3>2 DEF Escalating, Successor
    <2>3. run'.requests = run.requests
      BY <1>0, <1>e, <1>1 DEF Prepare, RecordRequest, RecordApproval, RecordDenial, At
    <2> QED
      BY <1>n, <2>1, <2>2, <2>3
  <1>2. ASSUME Inspect
        PROVE  Requested'
    <2>1. snap.status \notin {"AWAITING_HUMAN_DECISION", "FINDINGS_READY"}
      BY <1>0, <1>2 DEF Inspect, Placed, At, Successor, Doing, Remedying, Terminal, Lifecycle!Terminal
    <2>2. ~Escalating' /\ snap'.status # "AWAITING_HUMAN_DECISION"
      BY <1>0, <1>2, <2>1, Jump DEF Inspect, Escalating, Successor
    <2>3. run'.requests = run.requests
      BY <1>0, <1>e, <1>2 DEF Inspect, RecordRequest, RecordApproval, RecordDenial, At
    <2> QED
      BY <1>n, <2>1, <2>2, <2>3
  <1>3. ASSUME FindingsReady \/ WithdrawOptions
        PROVE  Requested'
    <2>1. snap.status \notin {"AWAITING_HUMAN_DECISION", "FINDINGS_READY"}
      BY <1>0, <1>3 DEF FindingsReady, WithdrawOptions, Placed, At, Successor, Doing, Remedying, Terminal,
         Lifecycle!Terminal
    <2>2. ~Escalating' /\ snap'.status # "AWAITING_HUMAN_DECISION"
      BY <1>0, <1>3, <2>1, Jump, Move DEF FindingsReady, WithdrawOptions, Escalating, Successor
    <2>3. run'.requests = run.requests
      BY <1>0, <1>e, <1>3 DEF FindingsReady, WithdrawOptions, RecordRequest, RecordApproval, RecordDenial, At
    <2> QED
      BY <1>n, <2>1, <2>2, <2>3
  <1>4. ASSUME AdvanceTerminal
        PROVE  Requested'
    <2>1. snap.status \notin {"AWAITING_HUMAN_DECISION", "FINDINGS_READY"}
      BY <1>0, <1>4 DEF AdvanceTerminal, Idle, Placed, At, Successor, Doing, Remedying, Terminal,
         Lifecycle!Terminal
    <2>2. ~Escalating' /\ snap'.status # "AWAITING_HUMAN_DECISION"
      BY <1>0, <1>4, <2>1 DEF AdvanceTerminal, Idle, Escalating, Successor
    <2>3. run'.requests = run.requests
      BY <1>0, <1>e, <1>4 DEF AdvanceTerminal, Idle, RecordRequest, RecordApproval, RecordDenial, At
    <2> QED
      BY <1>n, <2>1, <2>2, <2>3
  <1>5. ASSUME AdvanceRemediating
        PROVE  Requested'
    <2>1. snap.status \notin {"AWAITING_HUMAN_DECISION", "FINDINGS_READY"}
      BY <1>0, <1>5 DEF AdvanceRemediating, Idle, Placed, At, Successor, Doing, Remedying, Terminal,
         Lifecycle!Terminal
    <2>2. ~Escalating' /\ snap'.status # "AWAITING_HUMAN_DECISION"
      BY <1>0, <1>5, <2>1 DEF AdvanceRemediating, Idle, Escalating, Successor
    <2>3. run'.requests = run.requests
      BY <1>0, <1>e, <1>5 DEF AdvanceRemediating, Idle, RecordRequest, RecordApproval, RecordDenial, At
    <2> QED
      BY <1>n, <2>1, <2>2, <2>3
  <1>6. ASSUME WriteEvidence \/ RecordEvidence
        PROVE  Requested'
    <2>1. snap.status \notin {"AWAITING_HUMAN_DECISION", "FINDINGS_READY"}
      BY <1>0, <1>6 DEF WriteEvidence, RecordEvidence, Placed, At, Successor, Doing, Remedying, Terminal,
         Lifecycle!Terminal
    <2>2. ~Escalating' /\ snap'.status # "AWAITING_HUMAN_DECISION"
      BY <1>0, <1>6, <2>1, Jump DEF WriteEvidence, RecordEvidence, Escalating, Successor
    <2>3. run'.requests = run.requests
      BY <1>0, <1>e, <1>6 DEF WriteEvidence, RecordEvidence, RecordRequest, RecordApproval, RecordDenial, At
    <2> QED
      BY <1>n, <2>1, <2>2, <2>3
  <1>7. ASSUME Execute
        PROVE  Requested'
    <2>1. snap.status \notin {"AWAITING_HUMAN_DECISION", "FINDINGS_READY"}
      BY <1>0, <1>7 DEF Execute, CallRecord, Placed, At, Successor, Doing, Remedying, Terminal,
         Lifecycle!Terminal
    <2>2. ~Escalating' /\ snap'.status # "AWAITING_HUMAN_DECISION"
      BY <1>0, <1>7, <2>1 DEF Execute, CallRecord, Escalating, Successor
    <2>3. run'.requests = run.requests
      BY <1>0, <1>e, <1>7 DEF Execute, CallRecord, RecordRequest, RecordApproval, RecordDenial, At
    <2> QED
      BY <1>n, <2>1, <2>2, <2>3
  <1>8. ASSUME Executed \/ Write \/ Promote \/ Persist
        PROVE  Requested'
    <2>1. snap.status \notin {"AWAITING_HUMAN_DECISION", "FINDINGS_READY"}
      BY <1>0, <1>8 DEF Executed, Write, Promote, Persist, Placed, At, Successor, Doing, Remedying, Terminal,
         Lifecycle!Terminal
    <2>2. ~Escalating' /\ snap'.status # "AWAITING_HUMAN_DECISION"
      BY <1>0, <1>8, <2>1, Jump DEF Executed, Write, Promote, Persist, Escalating, Successor
    <2>3. run'.requests = run.requests
      BY <1>0, <1>e, <1>8 DEF Executed, Write, Promote, Persist, RecordRequest, RecordApproval, RecordDenial,
         At
    <2> QED
      BY <1>n, <2>1, <2>2, <2>3
  <1>9. ASSUME Complete \/ Fail
        PROVE  Requested'
    <2>1. snap.status \notin {"AWAITING_HUMAN_DECISION", "FINDINGS_READY"}
      BY <1>0, <1>9 DEF Complete, Fail, Continuation, Placed, At, Successor, Doing, Remedying, Terminal,
         Lifecycle!Terminal
    <2>2. ~Escalating' /\ snap'.status # "AWAITING_HUMAN_DECISION"
      BY <1>0, <1>9, <2>1, Jump DEF Complete, Fail, Continuation, Escalating, Successor
    <2>3. run'.requests = run.requests
      BY <1>0, <1>e, <1>9 DEF Complete, Fail, Continuation, RecordRequest, RecordApproval, RecordDenial, At
    <2> QED
      BY <1>n, <2>1, <2>2, <2>3
  <1>10. ASSUME Abort \/ Void
        PROVE  Requested'
    <2>1. snap.status \notin {"AWAITING_HUMAN_DECISION", "FINDINGS_READY"}
      BY <1>0, <1>10 DEF Abort, Void, Placed, At, Successor, Doing, Remedying, Terminal, Lifecycle!Terminal
    <2>2. ~Escalating' /\ snap'.status # "AWAITING_HUMAN_DECISION"
      BY <1>0, <1>10, <2>1, Jump DEF Abort, Void, Escalating, Successor
    <2>3. run'.requests = run.requests
      BY <1>0, <1>e, <1>10 DEF Abort, Void, RecordRequest, RecordApproval, RecordDenial, At
    <2> QED
      BY <1>n, <2>1, <2>2, <2>3
  <1>11. ASSUME Recover
        PROVE  Requested'
    <2>1. snap.status \notin {"AWAITING_HUMAN_DECISION", "FINDINGS_READY"}
      BY <1>0, <1>11 DEF Recover, CallRecord, Placed, At, Successor, Doing, Remedying, Terminal,
         Lifecycle!Terminal
    <2>2. ~Escalating' /\ snap'.status # "AWAITING_HUMAN_DECISION"
      BY <1>0, <1>11, <2>1 DEF Recover, CallRecord, Escalating, Successor
    <2>3. run'.requests = run.requests
      BY <1>0, <1>e, <1>11 DEF Recover, CallRecord, RecordRequest, RecordApproval, RecordDenial, At
    <2> QED
      BY <1>n, <2>1, <2>2, <2>3
  <1>12. ASSUME RecoveryDone \/ RefreshManifest \/ Refreshed \/ Finish
        PROVE  Requested'
    <2>1. snap.status \notin {"AWAITING_HUMAN_DECISION", "FINDINGS_READY"}
      BY <1>0, <1>12 DEF RecoveryDone, RefreshManifest, Refreshed, Finish, Placed, At, Successor, Doing,
         Remedying, Terminal, Lifecycle!Terminal
    <2>2. ~Escalating' /\ snap'.status # "AWAITING_HUMAN_DECISION"
      BY <1>0, <1>12, <2>1, Jump DEF RecoveryDone, RefreshManifest, Refreshed, Finish, Escalating, Successor
    <2>3. run'.requests = run.requests
      BY <1>0, <1>e, <1>12 DEF RecoveryDone, RefreshManifest, Refreshed, Finish, RecordRequest,
         RecordApproval, RecordDenial, At
    <2> QED
      BY <1>n, <2>1, <2>2, <2>3
  <1>13. ASSUME BeginRefresh
        PROVE  Requested'
    <2>1. snap.status \notin {"AWAITING_HUMAN_DECISION", "FINDINGS_READY"}
      BY <1>0, <1>13 DEF BeginRefresh, CallRecord, Placed, At, Successor, Doing, Remedying, Terminal,
         Lifecycle!Terminal
    <2>2. ~Escalating' /\ snap'.status # "AWAITING_HUMAN_DECISION"
      BY <1>0, <1>13, <2>1, Jump DEF BeginRefresh, CallRecord, Escalating, Successor
    <2>3. run'.requests = run.requests
      BY <1>0, <1>e, <1>13 DEF BeginRefresh, CallRecord, RecordRequest, RecordApproval, RecordDenial, At
    <2> QED
      BY <1>n, <2>1, <2>2, <2>3
  <1>14. ASSUME FailRun \/ Reinspect
        PROVE  Requested'
    <2>1. snap.status \notin {"AWAITING_HUMAN_DECISION", "FINDINGS_READY"}
      BY <1>0, <1>14 DEF FailRun, Reinspect, Placed, At, Successor, Doing, Remedying, Terminal,
         Lifecycle!Terminal
    <2>2. ~Escalating' /\ snap'.status # "AWAITING_HUMAN_DECISION"
      BY <1>0, <1>14, <2>1, Jump, Move DEF FailRun, Reinspect, Escalating, Successor
    <2>3. run'.requests = run.requests
      BY <1>0, <1>e, <1>14 DEF FailRun, Reinspect, RecordRequest, RecordApproval, RecordDenial, At
    <2> QED
      BY <1>n, <2>1, <2>2, <2>3
  <1>15. ASSUME OfferOptions \/ AdvanceReady
        PROVE  Requested'
    <2>1. /\ snap.status = "FINDINGS_READY" /\ snap'.status = "FINDINGS_READY" /\ snap'.cycle = snap.cycle
          /\ call'.at \in {"idle", "decide"}
      BY <1>0, <1>15, Jump, Move DEF OfferOptions, AdvanceReady, Placed, At, Judging
    <2>2. run'.requests = run.requests /\ run'.findings = run.findings /\ run'.offers = run.offers
      BY <1>0, <1>15, RecordEffects DEF OfferOptions, AdvanceReady
    <2> QED
      BY <1>0, <2>1, <2>2, StillRequested DEF Open
  <1>16. ASSUME NoAction
        PROVE  Requested'
    <2>1. /\ snap.status = "FINDINGS_READY" /\ snap'.status = "FINDINGS_READY" /\ snap'.cycle = snap.cycle
          /\ call'.at = "unactionable"
      BY <1>0, <1>16, Jump DEF NoAction, Diagnosing, Placed, At, Judging
    <2>2. /\ run'.requests = run.requests
          /\ \A f \in run'.offers : f \in run.offers /\ ~Open(f) /\ run'.findings[f] = run.findings[f]
      BY <1>0, <1>16 DEF NoAction, GivenUp, RunRecord, Open
    <2> QED
      BY <1>0, <2>1, <2>2, StillRequested DEF Open
  <1>17. ASSUME Conclude \/ ConcludeGivenUp
        PROVE  Requested'
    <2>1. ~Pending /\ UNCHANGED run
      BY <1>17, VerdictKinds, NoneFacts DEF Conclude, ConcludeGivenUp, Verdict
    <2>2. ~Escalating' /\ snap'.status # "AWAITING_HUMAN_DECISION"
      BY <1>0, <1>17, VerdictKinds, NoneFacts, Jump, Move DEF Conclude, ConcludeGivenUp, Escalating
    <2> QED
      BY <2>1, <2>2, Unrequested DEF Pending
  <1>18. ASSUME Exhaust
        PROVE  Requested'
    <2>1. /\ snap.status = "FINDINGS_READY" /\ UNCHANGED snap /\ call'.at = "exhausted" /\ snap.cycle >= MaxCycles
      BY <1>0, <1>18, Jump DEF Exhaust, Placed, At, Judging
    <2>2. run'.requests = run.requests
      BY <1>0, <1>e, <1>18 DEF Exhaust, RecordRequest, RecordApproval, RecordDenial, At
    <2>3. \A d \in Decision : run.requests[d] # "PENDING"
      BY <1>0, <2>1, OrchestratorAssumption DEF Requested, Snapshot, Cycle
    <2> QED
      BY <2>1, <2>2, <2>3, Unrequested DEF Escalating
  <1>19. ASSUME ApplyTierOne
        PROVE  Requested'
    <2>1. /\ snap.status = "FINDINGS_READY" /\ snap'.status = "REMEDIATING" /\ UNCHANGED run
          /\ call'.at = "execute"
      BY <1>0, <1>19, Move DEF ApplyTierOne, Diagnosing, Placed, At, Judging, Idle
    <2>2. \E f \in run.offers : Open(f) /\ TierOf(f) = 1
      BY <1>19 DEF ApplyTierOne, Exposed, First
    <2>3. \A d \in Decision : run.requests[d] # "PENDING"
      BY <1>0, <2>1, <2>2 DEF Requested
    <2> QED
      BY <2>1, <2>3, Unrequested DEF Escalating
  <1>20. ASSUME Escalate
        PROVE  Requested'
    <2>1. /\ snap.status = "FINDINGS_READY" /\ UNCHANGED <<snap, run>> /\ ~Pending
      BY <1>0, <1>20 DEF Escalate, Diagnosing, Placed, At, Judging
    <2>2. PICK f \in Exposed : TierOf(f) = 2 /\ call' = [Idle EXCEPT !.at = "record_request", !.todo = {f}]
      BY <1>20 DEF Escalate
    <2>3. call'.at = "record_request" /\ call'.todo = {f}
      BY <1>0, <2>2, JumpTo
    <2>4. \A g \in run.offers : Open(g) => TierOf(g) = 2
      <3>1. \A g \in run.offers : TierOf(g) \in {1, 2}
        BY <1>0, FindingFacts DEF RunRecord
      <3>2. ASSUME NEW g \in run.offers, Open(g), TierOf(g) = 1
            PROVE  FALSE
        BY <2>2, <3>2 DEF Exposed
      <3> QED
        BY <3>1, <3>2
    <2>5. f \in run.offers /\ Open(f) /\ f \in Finding
      BY <1>0, <2>2 DEF Exposed, RunRecord
    <2>6. f \in Option /\ f[2] = snap.cycle
      BY <1>0, <2>1, <2>5 DEF Offered
    <2> QED
      BY <2>1, <2>2, <2>3, <2>4, <2>5, <2>6 DEF Requested, Escalating, Pending, Open, At
  <1>21. ASSUME RecordRequest
        PROVE  Requested'
    <2>1. /\ snap.status = "FINDINGS_READY" /\ UNCHANGED <<snap, decision>> /\ At("record_request")
          /\ call'.at = "pause" /\ call'.todo = call.todo /\ snap.cycle < MaxCycles
      BY <1>0, <1>21, Jump DEF RecordRequest, Placed, At, Judging, Coherent
    <2>2. /\ run'.offers = run.offers /\ run'.findings = run.findings
          /\ \A d \in Decision : run'.requests[d] = "PENDING" => d = NextDecision - 1
      BY <1>0, <1>21, <2>1 DEF RecordRequest, RunRecord, Requested
    <2>3. NextDecision' = NextDecision
      BY <2>1, NextKept
    <2>4. Pending'
      <3>1. NextDecision - 1 \in Decision
        BY <1>0, <2>1 DEF Asked, At
      <3> QED
        BY <1>0, <1>21, <3>1 DEF RecordRequest, RunRecord, Pending
    <2> QED
      BY <1>0, <2>1, <2>2, <2>3, <2>4 DEF Requested, Escalating, Open, At
  <1>22. ASSUME Pause
        PROVE  Requested'
    <2>1. PICK f \in call.todo :
            snap' = Lifecycle!Paused(snap, [run |-> "run", decision |-> NextDecision - 1, option |-> f])
      BY <1>22 DEF Pause
    <2>2. /\ snap'.status = "AWAITING_HUMAN_DECISION" /\ snap'.cycle = snap.cycle
          /\ snap'.decision = NextDecision - 1 /\ snap'.pending = f
      BY <1>0, <2>1, Move
    <2>3. At("pause") /\ call'.at = "idle" /\ UNCHANGED <<run, decision>> /\ snap.status = "FINDINGS_READY"
      BY <1>0, <1>22, Jump DEF Pause, Placed, At, Judging
    <2>4. TierOf(f) = 2 /\ f[2] = snap.cycle
      BY <1>0, <2>1, <2>3 DEF Requested, Escalating, At
    <2>5. \A d \in Decision : run.requests[d] = "PENDING" => d = NextDecision - 1
      BY <1>0, <2>3 DEF Requested
    <2> QED
      BY <2>2, <2>3, <2>4, <2>5 DEF Requested, Escalating, At
  <1>23. ASSUME Deny \/ Approve \/ ApproveRequest
        PROVE  Requested'
    <2>1. /\ UNCHANGED <<snap, run>> /\ snap.status = "AWAITING_HUMAN_DECISION"
          /\ call'.at \in {"record_denial", "record_approval", "approve"}
          /\ call.at \notin {"resume", "block"}
      BY <1>0, <1>23, Jump DEF Deny, Approve, ApproveRequest, Resolvable, Placed, Answering, At, Idle
    <2> QED
      BY <1>0, <2>1 DEF Requested, Escalating, At
  <1>24. ASSUME RecordDenial \/ RecordApproval
        PROVE  Requested'
    <2>1. /\ UNCHANGED snap /\ snap.status = "AWAITING_HUMAN_DECISION"
          /\ call'.at \in {"block", "resume"} /\ snap.decision \in Decision
          /\ call.at \notin {"resume", "block"}
      BY <1>0, <1>24, Jump DEF RecordDenial, RecordApproval, Placed, Answering, At, Coherent, Snapshot
    <2>2. \A d \in Decision : run'.requests[d] # "PENDING"
      <3>1. \A d \in Decision : run.requests[d] = "PENDING" => d = snap.decision
        BY <1>0, <2>1 DEF Requested
      <3>2. CASE RecordDenial
        BY <1>0, <2>1, <3>1, <3>2 DEF RecordDenial, GivenUp, RunRecord
      <3>3. CASE RecordApproval
        BY <1>0, <2>1, <3>1, <3>3 DEF RecordApproval, RunRecord
      <3> QED
        BY <1>24, <3>2, <3>3
    <2> QED
      BY <1>0, <2>1, <2>2 DEF Requested, Escalating, At
  <1>25. ASSUME Block \/ Resume
        PROVE  Requested'
    <2>1. /\ snap.status = "AWAITING_HUMAN_DECISION" /\ call.at \in {"resume", "block"} /\ UNCHANGED run
          /\ snap'.status \in {"BLOCKED", "REMEDIATING"} /\ call'.at \in {"withdraw", "execute"}
      BY <1>0, <1>25, Jump, Move DEF Block, Resume, Placed, Answering, At
    <2>2. \A d \in Decision : run.requests[d] # "PENDING"
      BY <1>0, <2>1 DEF Requested
    <2> QED
      BY <2>1, <2>2, Unrequested DEF Escalating
  <1>26. ASSUME Crash \/ Raises
        PROVE  Requested'
    <2>1. UNCHANGED <<snap, run>> /\ call'.at = "idle"
      BY <1>0, <1>26, Jump DEF Crash, Raises
    <2> QED
      BY <1>0, <2>1 DEF Requested, Escalating, Open, At
  <1>27. ASSUME Tamper \/ UNCHANGED vars
        PROVE  Requested'
    <2>1. UNCHANGED <<snap, run, call, decision>>
      BY <1>27 DEF Tamper, vars
    <2>2. NextDecision' = NextDecision
      BY <2>1, NextKept
    <2> QED
      BY <1>0, <2>1, <2>2 DEF Requested, Escalating, Open, Pending, At
  <1> QED
    BY <1>1, <1>2, <1>3, <1>4, <1>5, <1>6, <1>7, <1>8, <1>9, <1>10, <1>11, <1>12, <1>13, <1>14,
       <1>15, <1>16, <1>17, <1>18, <1>19, <1>20, <1>21, <1>22, <1>23, <1>24, <1>25, <1>26, <1>27
    DEF Next, Advance, Select, Work

-----------------------------------------------------------------------------
(* Where the output of an action that is to fail may be.                   *)
InDoubt == {"none", "quarantined"}

(* Capabilities name request numbers.                                      *)
LEMMA CapabilityFacts ==
    ASSUME Typed
    PROVE  /\ \A k \in DOMAIN auth : auth[k] \in Capability /\ auth[k].decision \in Decision
           /\ DOMAIN auth = 1..Len(auth) /\ Len(auth) \in Nat
  <1>1. DOMAIN auth = 1..Len(auth) /\ Len(auth) \in Nat
    BY DEF Typed
  <1>2. \A k \in DOMAIN auth : auth[k] \in Capability
    BY DEF Typed
  <1>3. \A x \in Capability : x.decision \in Decision
    BY DEF Capability
  <1> QED
    BY <1>1, <1>2, <1>3

(* Paid is kept by a step that changes neither ledger nor capabilities.    *)
LEMMA PaidKept ==
    ASSUME Typed, Paid, UNCHANGED <<ledger, auth>>,
           \A d \in Decision : decision[d] = "APPROVED" => decision'[d] = "APPROVED",
           snap'.decision = snap.decision \/ snap'.decision = None \/ decision[snap'.decision] # "APPROVED",
           Unfinished' = Unfinished,
           \A a \in Unfinished : output[a].file \in InDoubt /\ ~At("write") => output'[a].file \in InDoubt,
           At("failed")' => At("failed"),
           At("write")' => At("write")
    PROVE  Paid'
  <1>1. Starts' = Starts /\ Completed' = Completed /\ Failed' = Failed
    BY Still
  <1>2. \A k \in DOMAIN auth' : auth'[k].status = "ISSUED" => auth'[k].by = 0
    BY DEF Paid
  <1>3. ASSUME NEW i \in Starts, ledger[i].auth # None
        PROVE  LET e == ledger[i] x == auth[e.auth] IN
          /\ e.auth \in DOMAIN auth
          /\ x.by = e.act /\ x.option = e.finding
          /\ decision'[x.decision] = "APPROVED"
          /\ x.decision # snap'.decision
          /\ \A j \in Starts \ {i} : ledger[j].auth # None =>
                auth[ledger[j].auth].decision # x.decision
          /\ e.act \in Failed => x.status = "VOID"
          /\ e.act \in Completed => x.status = "CONSUMED"
          /\ e.act \in Unfinished =>
                \/ x.status = "CONSUMED" /\ ~At("failed")'
                \/ x.status = "VOID" /\ ~At("write")' /\ output'[e.act].file \in {"none", "quarantined"}
    <2>1. auth[ledger[i].auth].decision \in Decision
      BY <1>3, CapabilityFacts DEF Paid
    <2> QED
      BY <1>3, <2>1, NoneFacts DEF Paid, InDoubt
  <1> QED
    BY <1>1, <1>2, <1>3 DEF Paid

(* A call that needs no capability holds none wrongly.                     *)
LEMMA InHandIdle ==
    ASSUME InHand, DOMAIN auth' = DOMAIN auth, call'.cap = call.cap \/ call'.cap = 0,
           call'.at \notin Doing \cup {"execute"} \cup Approving
    PROVE  InHand'
  BY DEF InHand, Approving, At

(* Approval, execution, failure and recovery keep every payment: one       *)
(* decision, one capability, one action.                                   *)
LEMMA PaidStep == IInv /\ [Next]_vars => InHand' /\ Paid'
  <1> SUFFICES ASSUME IInv, [Next]_vars
               PROVE  InHand' /\ Paid'
    OBVIOUS
  <1>0. /\ Typed /\ Typed' /\ Placed /\ Placed' /\ Phased /\ Phased' /\ Coherent /\ Coherent' /\ Logged /\ Logged'
        /\ OneAtATime /\ Filed /\ Asked /\ Asked' /\ Requested /\ InHand /\ Paid
        /\ snap \in Snapshot /\ call \in CallRecord
    BY TypedStep, ControlStep, ActionsStep, AskedStep DEF IInv, Typed
  <1> DEFINE Spared ==
        /\ UNCHANGED <<ledger, auth>>
        /\ \A d \in Decision : decision[d] = "APPROVED" => decision'[d] = "APPROVED"
        /\ snap'.decision = snap.decision \/ snap'.decision = None \/ decision[snap'.decision] # "APPROVED"
        /\ Unfinished' = Unfinished
        /\ \A a \in Unfinished : output[a].file \in InDoubt /\ ~At("write") => output'[a].file \in InDoubt
        /\ At("failed")' => At("failed")
        /\ At("write")' => At("write")
  <1>p. ASSUME Spared
        PROVE  Paid'
    BY <1>0, <1>p, PaidKept
  <1>q. ASSUME UNCHANGED <<ledger, auth, decision, output>>,
               snap'.decision = snap.decision \/ snap'.decision = None,
               call'.at \notin Doing \cup {"execute"} \cup Approving,
               call'.cap = call.cap \/ call'.cap = 0
        PROVE  InHand' /\ Paid'
    <2>1. Spared
      BY <1>q, StillOutput DEF At, Doing
    <2> QED
      BY <1>0, <1>p, <1>q, <2>1, InHandIdle
  <1> HIDE DEF Spared
  <1>1. ASSUME Prepare
        PROVE  InHand' /\ Paid'
    <2>1. UNCHANGED <<ledger, auth, decision, output>>
      BY <1>1 DEF Prepare
    <2>2. snap'.decision = snap.decision \/ snap'.decision = None
      BY <1>0, <1>1, Move DEF Prepare
    <2>3. call'.at \notin Doing \cup {"execute"} \cup Approving /\ (call'.cap = call.cap \/ call'.cap = 0)
      BY <1>0, <1>1, Jump DEF Prepare, Doing, Approving, Idle, CallRecord
    <2> QED
      BY <1>q, <2>1, <2>2, <2>3
  <1>2. ASSUME Inspect \/ FindingsReady
        PROVE  InHand' /\ Paid'
    <2>1. UNCHANGED <<ledger, auth, decision, output>>
      BY <1>2 DEF Inspect, FindingsReady
    <2>2. snap'.decision = snap.decision \/ snap'.decision = None
      BY <1>0, <1>2, Move DEF Inspect, FindingsReady
    <2>3. /\ call'.at \in {"ready", "offer"} /\ call'.cap = call.cap
      <3>1. CASE Inspect
        BY <1>0, <3>1, Jump DEF Inspect
      <3>2. CASE FindingsReady
        BY <1>0, <3>2, Jump DEF FindingsReady
      <3> QED
        BY <1>2, <3>1, <3>2
    <2> QED
      BY <1>q, <2>1, <2>2, <2>3 DEF Doing, Approving
  <1>3. ASSUME OfferOptions
        PROVE  InHand' /\ Paid'
    <2>1. UNCHANGED <<ledger, auth, decision, output>>
      BY <1>3 DEF OfferOptions
    <2>2. snap'.decision = snap.decision \/ snap'.decision = None
      BY <1>0, <1>3, Move DEF OfferOptions
    <2>3. call'.at \notin Doing \cup {"execute"} \cup Approving /\ (call'.cap = call.cap \/ call'.cap = 0)
      BY <1>0, <1>3, Jump DEF OfferOptions, Doing, Approving, Idle, CallRecord
    <2> QED
      BY <1>q, <2>1, <2>2, <2>3
  <1>4. ASSUME AdvanceTerminal
        PROVE  InHand' /\ Paid'
    <2>1. UNCHANGED <<ledger, auth, decision, output>>
      BY <1>4 DEF AdvanceTerminal
    <2>2. snap'.decision = snap.decision \/ snap'.decision = None
      BY <1>0, <1>4, Move DEF AdvanceTerminal
    <2>3. call'.at \notin Doing \cup {"execute"} \cup Approving /\ (call'.cap = call.cap \/ call'.cap = 0)
      BY <1>0, <1>4 DEF AdvanceTerminal, Doing, Approving, Idle, CallRecord
    <2> QED
      BY <1>q, <2>1, <2>2, <2>3
  <1>5. ASSUME AdvanceRemediating
        PROVE  InHand' /\ Paid'
    <2>1. UNCHANGED <<ledger, auth, decision, output>>
      BY <1>5 DEF AdvanceRemediating
    <2>2. snap'.decision = snap.decision \/ snap'.decision = None
      BY <1>0, <1>5, Move DEF AdvanceRemediating
    <2>3. call'.at \notin Doing \cup {"execute"} \cup Approving /\ (call'.cap = call.cap \/ call'.cap = 0)
      BY <1>0, <1>5 DEF AdvanceRemediating, Doing, Approving, Idle, CallRecord
    <2> QED
      BY <1>q, <2>1, <2>2, <2>3
  <1>6. ASSUME AdvanceReady
        PROVE  InHand' /\ Paid'
    <2>1. UNCHANGED <<ledger, auth, decision, output>>
      BY <1>6 DEF AdvanceReady
    <2>2. snap'.decision = snap.decision \/ snap'.decision = None
      BY <1>0, <1>6, Move DEF AdvanceReady
    <2>3. call'.at \notin Doing \cup {"execute"} \cup Approving /\ (call'.cap = call.cap \/ call'.cap = 0)
      BY <1>0, <1>6, Jump DEF AdvanceReady, Doing, Approving, Idle, CallRecord
    <2> QED
      BY <1>q, <2>1, <2>2, <2>3
  <1>7. ASSUME Conclude
        PROVE  InHand' /\ Paid'
    <2>1. UNCHANGED <<ledger, auth, decision, output>>
      BY <1>7 DEF Conclude
    <2>2. snap'.decision = snap.decision \/ snap'.decision = None
      BY <1>0, <1>7, Move DEF Conclude
    <2>3. call'.at \notin Doing \cup {"execute"} \cup Approving /\ (call'.cap = call.cap \/ call'.cap = 0)
      BY <1>0, <1>7, Jump DEF Conclude, Doing, Approving, Idle, CallRecord
    <2> QED
      BY <1>q, <2>1, <2>2, <2>3
  <1>8. ASSUME ConcludeGivenUp
        PROVE  InHand' /\ Paid'
    <2>1. UNCHANGED <<ledger, auth, decision, output>>
      BY <1>8 DEF ConcludeGivenUp
    <2>2. snap'.decision = snap.decision \/ snap'.decision = None
      BY <1>0, <1>8, Move DEF ConcludeGivenUp
    <2>3. call'.at \notin Doing \cup {"execute"} \cup Approving /\ (call'.cap = call.cap \/ call'.cap = 0)
      BY <1>0, <1>8, Jump DEF ConcludeGivenUp, Doing, Approving, Idle, CallRecord
    <2> QED
      BY <1>q, <2>1, <2>2, <2>3
  <1>9. ASSUME Exhaust \/ NoAction \/ Raises
        PROVE  InHand' /\ Paid'
    <2>1. UNCHANGED <<ledger, auth, decision, output>>
      BY <1>9 DEF Exhaust, NoAction, Raises
    <2>2. snap'.decision = snap.decision \/ snap'.decision = None
      BY <1>0, <1>9, Move DEF Exhaust, NoAction, Raises
    <2>3. call'.at \notin Doing \cup {"execute"} \cup Approving /\ (call'.cap = call.cap \/ call'.cap = 0)
      BY <1>0, <1>9, Jump DEF Exhaust, NoAction, Raises, Doing, Approving, Idle, CallRecord
    <2> QED
      BY <1>q, <2>1, <2>2, <2>3
  <1>10. ASSUME RecordRequest \/ RecordDenial \/ WriteEvidence \/ RecordEvidence
        PROVE  InHand' /\ Paid'
    <2>1. UNCHANGED <<ledger, auth, decision, output>>
      BY <1>10 DEF RecordRequest, RecordDenial, WriteEvidence, RecordEvidence
    <2>2. snap'.decision = snap.decision \/ snap'.decision = None
      BY <1>0, <1>10, Move DEF RecordRequest, RecordDenial, WriteEvidence, RecordEvidence
    <2>3. call'.at \notin Doing \cup {"execute"} \cup Approving /\ (call'.cap = call.cap \/ call'.cap = 0)
      BY <1>0, <1>10, Jump DEF RecordRequest, RecordDenial, WriteEvidence, RecordEvidence, Doing, Approving,
         Idle, CallRecord
    <2> QED
      BY <1>q, <2>1, <2>2, <2>3
  <1>11. ASSUME Block \/ WithdrawOptions
        PROVE  InHand' /\ Paid'
    <2>1. UNCHANGED <<ledger, auth, decision, output>>
      BY <1>11 DEF Block, WithdrawOptions
    <2>2. snap'.decision = snap.decision \/ snap'.decision = None
      BY <1>0, <1>11, Move DEF Block, WithdrawOptions
    <2>3. call'.at \notin Doing \cup {"execute"} \cup Approving /\ (call'.cap = call.cap \/ call'.cap = 0)
      BY <1>0, <1>11, Jump DEF Block, WithdrawOptions, Doing, Approving, Idle, CallRecord
    <2> QED
      BY <1>q, <2>1, <2>2, <2>3
  <1>12. ASSUME Executed \/ RecoveryDone
        PROVE  InHand' /\ Paid'
    <2>1. UNCHANGED <<ledger, auth, decision, output>>
      BY <1>12 DEF Executed, RecoveryDone
    <2>2. snap'.decision = snap.decision \/ snap'.decision = None
      BY <1>0, <1>12, Move DEF Executed, RecoveryDone
    <2>3. call'.at \notin Doing \cup {"execute"} \cup Approving /\ (call'.cap = call.cap \/ call'.cap = 0)
      BY <1>0, <1>12, Jump DEF Executed, RecoveryDone, Doing, Approving, Idle, CallRecord
    <2> QED
      BY <1>q, <2>1, <2>2, <2>3
  <1>13. ASSUME FailRun
        PROVE  InHand' /\ Paid'
    <2>1. UNCHANGED <<ledger, auth, decision, output>>
      BY <1>13 DEF FailRun
    <2>2. snap'.decision = snap.decision \/ snap'.decision = None
      BY <1>0, <1>13, Move DEF FailRun
    <2>3. call'.at \notin Doing \cup {"execute"} \cup Approving /\ (call'.cap = call.cap \/ call'.cap = 0)
      BY <1>0, <1>13, Jump DEF FailRun, Doing, Approving, Idle, CallRecord
    <2> QED
      BY <1>q, <2>1, <2>2, <2>3
  <1>14. ASSUME RefreshManifest \/ Refreshed \/ Finish
        PROVE  InHand' /\ Paid'
    <2>1. UNCHANGED <<ledger, auth, decision, output>>
      BY <1>14 DEF RefreshManifest, Refreshed, Finish
    <2>2. snap'.decision = snap.decision \/ snap'.decision = None
      BY <1>0, <1>14, Move DEF RefreshManifest, Refreshed, Finish
    <2>3. call'.at \notin Doing \cup {"execute"} \cup Approving /\ (call'.cap = call.cap \/ call'.cap = 0)
      BY <1>0, <1>14, Jump DEF RefreshManifest, Refreshed, Finish, Doing, Approving, Idle, CallRecord
    <2> QED
      BY <1>q, <2>1, <2>2, <2>3
  <1>15. ASSUME Reinspect
        PROVE  InHand' /\ Paid'
    <2>1. UNCHANGED <<ledger, auth, decision, output>>
      BY <1>15 DEF Reinspect
    <2>2. snap'.decision = snap.decision \/ snap'.decision = None
      BY <1>0, <1>15, Move DEF Reinspect
    <2>3. call'.at \notin Doing \cup {"execute"} \cup Approving /\ (call'.cap = call.cap \/ call'.cap = 0)
      BY <1>0, <1>15, Jump DEF Reinspect, Doing, Approving, Idle, CallRecord
    <2> QED
      BY <1>q, <2>1, <2>2, <2>3
  <1>20. ASSUME Escalate \/ Deny
        PROVE  InHand' /\ Paid'
    <2>1. /\ UNCHANGED <<ledger, auth, output, snap>>
          /\ call'.at \in {"record_request", "record_denial"} /\ (call'.cap = call.cap \/ call'.cap = 0)
      BY <1>0, <1>20, Jump DEF Escalate, Deny, Idle
    <2>2. \A d \in Decision : decision[d] = "APPROVED" => decision'[d] = "APPROVED"
      <3>1. CASE Escalate
        BY <1>0, <3>1 DEF Escalate, Asked, Typed
      <3>2. CASE Deny
        BY <1>0, <3>2 DEF Deny, Resolvable, Typed
      <3> QED
        BY <1>20, <3>1, <3>2
    <2>3. Spared
      BY <2>1, <2>2, StillOutput DEF Spared, At
    <2> QED
      BY <1>0, <1>p, <2>1, <2>3, InHandIdle DEF Doing, Approving
  <1>21. ASSUME Pause
        PROVE  InHand' /\ Paid'
    <2>1. /\ UNCHANGED <<ledger, auth, output, decision>> /\ At("pause")
          /\ call'.at = "idle" /\ call'.cap = 0
      BY <1>0, <1>21, Jump DEF Pause
    <2>2. snap'.decision = NextDecision - 1
      <3>1. PICK p : snap' = Lifecycle!Paused(snap, p) /\ p.decision = NextDecision - 1
        BY <1>21 DEF Pause
      <3> QED
        BY <1>0, <3>1, Move
    <2>3. decision[snap'.decision] # "APPROVED"
      BY <1>0, <2>1, <2>2 DEF Asked, At
    <2>4. Spared
      BY <2>1, <2>3, StillOutput DEF Spared, At
    <2> QED
      BY <1>0, <1>p, <2>1, <2>4, InHandIdle DEF Doing, Approving
  <1>22. ASSUME Tamper \/ UNCHANGED vars
        PROVE  InHand' /\ Paid'
    <2>1. UNCHANGED <<snap, ledger, auth, output, decision, call>>
      BY <1>22 DEF Tamper, vars
    <2>2. Spared
      BY <2>1, StillOutput DEF Spared, At
    <2>3. Starts' = Starts
      BY <2>1, Still
    <2> QED
      BY <1>0, <1>p, <2>1, <2>2, <2>3 DEF InHand, At
  <1>23. ASSUME Crash
        PROVE  InHand' /\ Paid'
    <2>1. /\ UNCHANGED <<snap, ledger, auth, decision>>
          /\ call'.at = "idle" /\ call'.cap = 0
      BY <1>0, <1>23, Jump DEF Crash
    <2>2. PICK damaged \in SUBSET {a \in Unfinished : Intact(a)} :
            output' = [a \in Actions |-> IF a \in damaged THEN [output[a] EXCEPT !.file = "damaged"] ELSE output[a]]
      BY <1>23 DEF Crash
    <2>3. Unfinished' = Unfinished /\ \A a \in Unfinished : output[a].file \in InDoubt => output'[a] = output[a]
      BY <2>1, <2>2, Still DEF Actions, Unfinished, Intact, InDoubt
    <2>4. Spared
      BY <2>1, <2>3 DEF Spared, At
    <2> QED
      BY <1>0, <1>p, <2>1, <2>4, InHandIdle DEF Doing, Approving
  <1>24. ASSUME Approve
        PROVE  InHand' /\ Paid'
    <2> DEFINE x == [status |-> "ISSUED", decision |-> snap.decision, option |-> snap.pending, by |-> 0]
    <2>1. /\ UNCHANGED <<snap, ledger, decision, output>> /\ auth' = Append(auth, x)
          /\ call'.at = "approve" /\ call'.cap = Len(auth) + 1
      BY <1>0, <1>24 DEF Approve, Idle
    <2>2. snap.decision \in Decision /\ snap.pending \in Option
      BY <1>0, <1>24 DEF Approve, Resolvable, Coherent, Snapshot
    <2>3. x \in Capability /\ x.status = "ISSUED" /\ x.by = 0
      BY <2>2 DEF Capability
    <2> HIDE DEF x
    <2>4. /\ DOMAIN auth' = DOMAIN auth \cup {Len(auth) + 1} /\ auth'[Len(auth) + 1] = x
          /\ \A k \in DOMAIN auth : auth'[k] = auth[k]
      BY <1>0, <2>1, <2>3 DEF Typed
    <2>5. InHand'
      BY <2>1, <2>4 DEF InHand, At, Doing, Approving, x
    <2>6. Starts' = Starts /\ Completed' = Completed /\ Failed' = Failed /\ Unfinished' = Unfinished
      BY <2>1, Still, StillOutput
    <2>7. \A i \in Starts : ledger[i].auth # None => ledger[i].auth \in DOMAIN auth
      BY <1>0 DEF Paid
    <2>8. ~At("failed")' /\ ~At("write")' /\ ~At("failed") /\ ~At("write")
      BY <1>24, <2>1 DEF Approve, Resolvable, At
    <2>9. Paid'
      BY <1>0, <2>1, <2>3, <2>4, <2>6, <2>7, <2>8 DEF Paid
    <2> QED
      BY <2>5, <2>9
  <1>25. ASSUME ApproveRequest \/ RecordApproval
        PROVE  InHand' /\ Paid'
    <2>1. /\ UNCHANGED <<snap, ledger, auth, output>> /\ call.at \in Approving
          /\ call'.at \in {"record_approval", "resume"} /\ call'.cap = call.cap
      BY <1>0, <1>25, Jump DEF ApproveRequest, RecordApproval, At, Approving
    <2>2. \A d \in Decision : decision[d] = "APPROVED" => decision'[d] = "APPROVED"
      BY <1>0, <1>25 DEF ApproveRequest, RecordApproval, Typed
    <2>3. Spared
      BY <2>1, <2>2, StillOutput DEF Spared, At
    <2>4. InHand'
      BY <1>0, <2>1 DEF InHand, At, Doing, Approving
    <2> QED
      BY <1>p, <2>3, <2>4
  <1>26. ASSUME Resume
        PROVE  InHand' /\ Paid'
    <2>1. /\ UNCHANGED <<ledger, auth, decision, output>> /\ At("resume")
          /\ call'.at = "execute" /\ call'.cap = call.cap /\ call'.todo = call.todo
          /\ snap'.decision = None
      BY <1>0, <1>26, Jump, Move DEF Resume
    <2>2. Spared
      BY <2>1, StillOutput DEF Spared, At
    <2>3. /\ call.todo = {snap.pending} /\ call.cap \in DOMAIN auth
          /\ auth[call.cap] = [status |-> "ISSUED", decision |-> snap.decision,
                               option |-> snap.pending, by |-> 0]
          /\ decision[snap.decision] = "APPROVED" /\ TierOf(snap.pending) = 2
      BY <1>0, <2>1 DEF Phased, InHand, Asked, Requested, Placed, At, Approving, Answering
    <2>4. \A i \in Starts : ledger[i].auth # None => auth[ledger[i].auth].decision # snap.decision
      BY <1>0 DEF Paid
    <2>5. Starts' = Starts
      BY <2>1, Still
    <2>6. /\ auth[call.cap].status = "ISSUED" /\ auth[call.cap].option = snap.pending
          /\ auth[call.cap].decision = snap.decision
      BY <2>3
    <2>7. call'.phase = "tier2" /\ call'.todo = {auth[call.cap].option}
      BY <1>0, <2>1, <2>3, <2>6, <1>26, Jump DEF Phased, At, Approving, Resume
    <2>8. InHand'
      BY <2>1, <2>3, <2>4, <2>5, <2>6, <2>7 DEF InHand, At, Doing, Approving
    <2> QED
      BY <1>p, <2>2, <2>8
  <1>27. ASSUME ApplyTierOne
        PROVE  InHand' /\ Paid'
    <2>1. /\ UNCHANGED <<ledger, auth, decision, output>> /\ snap'.decision = snap.decision
      BY <1>0, <1>27, Move DEF ApplyTierOne
    <2>2. PICK chosen \in SUBSET {f \in Exposed : TierOf(f) = 1} :
            call' = [Idle EXCEPT !.at = "execute", !.phase = "tier1", !.todo = chosen]
      BY <1>27 DEF ApplyTierOne
    <2>3. call'.at = "execute" /\ call'.phase = "tier1" /\ call'.todo = chosen /\ call'.cap = 0
      BY <2>2 DEF Idle
    <2>4. Spared
      BY <2>1, <2>3, StillOutput DEF Spared, At
    <2>5. InHand'
      BY <1>0, <2>1, <2>3 DEF InHand, At, Doing, Approving
    <2> QED
      BY <1>p, <2>4, <2>5
  <1>28. ASSUME Write \/ Promote \/ Persist \/ Abort
        PROVE  InHand' /\ Paid'
    <2>1. /\ UNCHANGED <<snap, ledger, auth, decision>> /\ call.at \in {"write", "promote", "persist"}
          /\ call'.at \in {"promote", "persist", "complete", "fail"} /\ call'.cap = call.cap
          /\ call'.phase = call.phase /\ call'.todo = call.todo
      BY <1>0, <1>28, Jump DEF Write, Promote, Persist, Abort, At
    <2>2. Unfinished' = Unfinished /\ \A a \in Unfinished : a = call.act
      <3>1. DOMAIN output' = DOMAIN output
        BY <1>28 DEF Write, Promote, Persist, Abort
      <3> QED
        BY <1>0, <2>1, <3>1, Still DEF Unfinished, Actions, OneAtATime, Doing
    <2>3. \A a \in Unfinished : output[a].file \in InDoubt /\ ~At("write") => output'[a].file \in InDoubt
      BY <1>0, <1>28, <2>1, <2>2 DEF Promote, Persist, Abort, Filed, InDoubt, At
    <2>4. Spared
      BY <2>1, <2>2, <2>3 DEF Spared, At
    <2>5. InHand'
      BY <1>0, <2>1 DEF InHand, At, Doing, Approving
    <2> QED
      BY <1>p, <2>4, <2>5
  <1>29. ASSUME Recover
        PROVE  InHand' /\ Paid'
    <2>1. /\ UNCHANGED <<snap, ledger, auth, decision>> /\ At("recover")
          /\ call'.at \in {"complete", "persist", "fail"} /\ call'.cap = call.cap
          /\ call'.phase \in {"recover", "integrity"}
      BY <1>0, <1>29 DEF Recover, CallRecord, Phased, At
    <2>2. Unfinished' = Unfinished
      <3>1. DOMAIN output' = DOMAIN output
        BY <1>29 DEF Recover
      <3> QED
        BY <1>0, <2>1, <3>1, Still DEF Unfinished, Actions
    <2>3. \A a \in Unfinished : output[a].file \in InDoubt => output'[a].file \in InDoubt
      <3>1. \A a \in Unfinished : output[a] \in OutputRecord /\ a \in DOMAIN output
        BY <1>0 DEF Typed, Unfinished, Actions
      <3>2. \/ UNCHANGED output
            \/ \E a \in Unfinished, file \in InDoubt : output' = [output EXCEPT ![a].file = file]
        BY <1>29 DEF Recover, InDoubt
      <3> QED
        BY <3>1, <3>2 DEF OutputRecord
    <2>4. Spared
      BY <2>1, <2>2, <2>3 DEF Spared, At
    <2>5. InHand'
      BY <1>0, <2>1 DEF InHand, At, Doing, Approving
    <2> QED
      BY <1>p, <2>4, <2>5
  <1>30. ASSUME Execute
        PROVE  InHand' /\ Paid'
    <2>1. PICK f \in First(call.todo) :
            /\ TierOf(f) = 2 => auth[call.cap].status = "ISSUED"
            /\ Begin(f, call.cap)
            /\ auth' = IF TierOf(f) = 1 THEN auth
                       ELSE [auth EXCEPT ![call.cap].status = "CONSUMED",
                                         ![call.cap].by = Len(output) + 1]
            /\ call' = [call EXCEPT !.at = "write", !.todo = @ \ {f}, !.act = Len(output) + 1]
      BY <1>30 DEF Execute
    <2>2. /\ f \in call.todo /\ f \in Finding /\ call.cap \in Nat /\ At("execute")
          /\ UNCHANGED <<snap, decision>>
      BY <1>0, <1>30, <2>1 DEF First, CallRecord, Execute
    <2>3. /\ call'.at = "write" /\ call'.phase = call.phase /\ call'.todo = call.todo \ {f}
          /\ call'.cap = call.cap
      BY <1>0, <2>1 DEF CallRecord
    <2>4. PICK n, i : /\ n = Len(output) + 1 /\ i = Len(ledger) + 1
      OBVIOUS
    <2>5. /\ n \notin Actions /\ n \in Nat /\ i \notin Starts /\ Starts' = Starts \cup {i}
          /\ \A j \in Starts : ledger'[j] = ledger[j] /\ ledger[j].act # n
          /\ ledger'[i].act = n /\ ledger'[i].finding = f
          /\ ledger'[i].auth = IF TierOf(f) = 2 THEN call.cap ELSE None
          /\ Completed' = Completed /\ Failed' = Failed /\ Unfinished' = {n}
          /\ n \notin Completed \cup Failed
      <3>1. Unfinished = {}
        BY <1>0, <2>2 DEF OneAtATime, Remedying, Doing, At
      <3>2. \A j \in Starts : ledger[j].act \in Actions
        BY <1>0 DEF Logged, Starts
      <3>3. /\ n \notin Actions /\ n \in Nat /\ i \notin Starts /\ Starts' = Starts \cup {i}
            /\ \A j \in DOMAIN ledger : ledger'[j] = ledger[j]
            /\ ledger'[i] = [type |-> "ACTION_STARTED", act |-> n, finding |-> f,
                             auth |-> IF TierOf(f) = 2 THEN call.cap ELSE None]
            /\ Completed' = Completed /\ Failed' = Failed /\ Unfinished' = Unfinished \cup {n}
            /\ n \notin Completed \cup Failed
        BY <1>0, <2>1, <2>2, <2>4, Begun
      <3> QED
        BY <3>1, <3>2, <3>3 DEF Starts
    <2>6. ~At("failed")' /\ ~At("write")
      BY <2>2, <2>3 DEF At
    <2>7. \A j \in Starts : ledger[j].auth # None =>
             /\ ledger[j].auth \in DOMAIN auth
             /\ ledger[j].act \in Actions
             /\ ledger[j].act \notin Unfinished'
      BY <1>0, <2>5 DEF Paid, Logged, Starts
    <2>8. CASE TierOf(f) = 1
      <3>1. UNCHANGED auth /\ ledger'[i].auth = None
        BY <2>1, <2>5, <2>8
      <3>2. Paid'
        BY <1>0, <2>2, <2>5, <2>7, <3>1 DEF Paid
      <3>3. InHand'
        BY <1>0, <2>2, <2>3, <2>8, <3>1 DEF InHand, At, Doing, Approving
      <3> QED
        BY <3>2, <3>3
    <2>9. CASE TierOf(f) = 2
      <3>1. call.phase = "tier2"
        BY <1>0, <2>2, <2>9 DEF InHand, Phased, At
      <3>2. /\ call.cap \in DOMAIN auth /\ auth[call.cap].status = "ISSUED" /\ auth[call.cap].option = f
            /\ call.todo = {f} /\ decision[auth[call.cap].decision] = "APPROVED"
            /\ \A j \in Starts : ledger[j].auth # None =>
                   auth[ledger[j].auth].decision # auth[call.cap].decision
        BY <1>0, <2>2, <3>1 DEF InHand
      <3>3. auth[call.cap] \in Capability /\ auth \in Seq(Capability)
        BY <1>0, <3>2, CapabilityFacts DEF Typed
      <3>4. auth' = [auth EXCEPT ![call.cap].status = "CONSUMED", ![call.cap].by = n]
        BY <2>1, <2>4, <2>9
      <3>5. /\ DOMAIN auth' = DOMAIN auth
            /\ \A k \in DOMAIN auth \ {call.cap} : auth'[k] = auth[k]
            /\ auth'[call.cap].status = "CONSUMED" /\ auth'[call.cap].by = n
            /\ auth'[call.cap].option = f /\ auth'[call.cap].decision = auth[call.cap].decision
        BY <3>2, <3>3, <3>4 DEF Capability
      <3>6. auth[call.cap].decision # snap'.decision
        <4>1. snap.decision = None
          BY <1>0, <2>2 DEF Placed, Remedying, Coherent, At
        <4> QED
          BY <2>2, <3>3, <4>1, NoneFacts DEF Capability
      <3>7. ledger'[i].auth = call.cap
        BY <2>5, <2>9
      <3>8. \A j \in Starts : ledger[j].auth # None =>
               ledger[j].auth # call.cap /\ auth'[ledger[j].auth] = auth[ledger[j].auth]
        BY <2>7, <3>2, <3>5
      <3>9. \A k \in DOMAIN auth' : auth'[k].status = "ISSUED" => auth'[k].by = 0
        BY <1>0, <3>5 DEF Paid
      <3>10. ASSUME NEW j \in Starts, ledger[j].auth # None
             PROVE  LET e == ledger[j] x == auth[e.auth] IN
                    /\ x.by = e.act /\ x.option = e.finding
                    /\ decision[x.decision] = "APPROVED"
                    /\ x.decision # snap.decision
                    /\ \A k \in Starts \ {j} : ledger[k].auth # None =>
                          auth[ledger[k].auth].decision # x.decision
                    /\ e.act \in Failed => x.status = "VOID"
                    /\ e.act \in Completed => x.status = "CONSUMED"
        BY <1>0, <3>10 DEF Paid
      <3>11. ASSUME NEW j \in Starts, ledger'[j].auth # None
             PROVE  LET e == ledger'[j] x == auth'[e.auth] IN
                    /\ e.auth \in DOMAIN auth'
                    /\ x.by = e.act /\ x.option = e.finding
                    /\ decision'[x.decision] = "APPROVED"
                    /\ x.decision # snap'.decision
                    /\ \A k \in Starts' \ {j} : ledger'[k].auth # None =>
                          auth'[ledger'[k].auth].decision # x.decision
                    /\ e.act \in Failed' => x.status = "VOID"
                    /\ e.act \in Completed' => x.status = "CONSUMED"
                    /\ e.act \notin Unfinished'
        BY <2>2, <2>5, <2>7, <3>2, <3>5, <3>7, <3>8, <3>10, <3>11
      <3>12. LET e == ledger'[i] x == auth'[e.auth] IN
             /\ e.auth \in DOMAIN auth'
             /\ x.by = e.act /\ x.option = e.finding
             /\ decision'[x.decision] = "APPROVED"
             /\ x.decision # snap'.decision
             /\ \A k \in Starts' \ {i} : ledger'[k].auth # None =>
                   auth'[ledger'[k].auth].decision # x.decision
             /\ e.act \notin Failed' /\ e.act \notin Completed'
             /\ x.status = "CONSUMED"
        BY <2>2, <2>5, <3>2, <3>5, <3>6, <3>7, <3>8
      <3>13. Paid'
        BY <2>5, <2>6, <3>9, <3>11, <3>12 DEF Paid
      <3>14. InHand'
        BY <2>3, <3>1, <3>2, <3>5 DEF InHand, At, Doing, Approving
      <3> QED
        BY <3>13, <3>14
    <2> QED
      BY <2>2, <2>8, <2>9, FindingFacts
  <1>31. ASSUME BeginRefresh
        PROVE  InHand' /\ Paid'
    <2>1. CASE Open(RefreshFinding)
      <3>1. PICK f : f = RefreshFinding
        OBVIOUS
      <3>2. f \in Finding /\ f[1] = "refresh" /\ TierOf(f) = 1
        BY <1>0, <3>1, FindingFacts DEF RefreshFinding, Snapshot, Finding
      <3>3. /\ Begin(f, 0) /\ UNCHANGED <<snap, decision, auth>>
            /\ call'.at = "write" /\ call'.phase = "refresh" /\ call'.cap = call.cap
            /\ At("authorize_refresh")
        BY <1>0, <1>31, <2>1, <3>1 DEF BeginRefresh, CallRecord
      <3>4. PICK n, i : /\ n = Len(output) + 1 /\ i = Len(ledger) + 1
        OBVIOUS
      <3>5. /\ Starts' = Starts \cup {i}
            /\ \A j \in Starts : ledger'[j] = ledger[j] /\ ledger[j].act \in Actions /\ ledger[j].act # n
            /\ ledger'[i].auth = None
            /\ Completed' = Completed /\ Failed' = Failed /\ Unfinished' = {n}
        <4>1. Unfinished = {}
          BY <1>0, <3>3 DEF OneAtATime, Remedying, Doing, At
        <4>2. \A j \in Starts : ledger[j].act \in Actions
          BY <1>0 DEF Logged, Starts
        <4>3. /\ n \notin Actions /\ Starts' = Starts \cup {i}
              /\ \A j \in DOMAIN ledger : ledger'[j] = ledger[j]
              /\ ledger'[i] = [type |-> "ACTION_STARTED", act |-> n, finding |-> f,
                               auth |-> IF TierOf(f) = 2 THEN 0 ELSE None]
              /\ Completed' = Completed /\ Failed' = Failed /\ Unfinished' = Unfinished \cup {n}
          BY <1>0, <3>2, <3>3, <3>4, Begun
        <4> QED
          BY <3>2, <4>1, <4>2, <4>3 DEF Starts
      <3>6. Paid'
        BY <1>0, <3>3, <3>5 DEF Paid
      <3>7. InHand'
        BY <1>0, <3>3 DEF InHand, At, Doing, Approving
      <3> QED
        BY <3>6, <3>7
    <2>2. CASE ~Open(RefreshFinding)
      <3>1. UNCHANGED <<snap, ledger, auth, decision, output>> /\ Return
        BY <1>31, <2>2 DEF BeginRefresh
      <3>2. call'.at = "idle" /\ call'.cap = 0
        BY <1>0, <3>1, Jump
      <3> QED
        BY <1>q, <3>1, <3>2 DEF Doing, Approving
    <2> QED
      BY <2>1, <2>2
  <1>32. ASSUME Void
        PROVE  InHand' /\ Paid'
    <2>1. /\ UNCHANGED <<snap, ledger, decision, output>> /\ At("fail")
          /\ call'.at = "failed" /\ call'.phase = call.phase /\ call'.todo = call.todo
          /\ call'.cap = call.cap
      BY <1>0, <1>32, Jump DEF Void
    <2>2. /\ call.act \in Unfinished /\ \A a \in Unfinished : a = call.act
          /\ output[call.act].file \in InDoubt
      BY <1>0, <2>1 DEF OneAtATime, Filed, Doing, At, InDoubt
    <2>3. PICK s \in Starts : ledger[s].act = call.act /\ Started(call.act) = ledger[s]
      BY <1>0, <2>2, StartedIs DEF Unfinished
    <2>4. \A j \in Starts : ledger[j].act = call.act => j = s
      BY <1>0, <2>3 DEF Logged
    <2>5. /\ Starts' = Starts /\ Completed' = Completed /\ Failed' = Failed /\ Unfinished' = Unfinished
          /\ ~At("write")' /\ ~At("write")
      BY <2>1, Still, StillOutput DEF At
    <2>6. CASE ledger[s].auth = None
      <3>1. UNCHANGED auth
        BY <1>32, <2>3, <2>6 DEF Void
      <3>2. \A j \in Starts : ledger[j].auth # None => ledger[j].act \notin Unfinished
        BY <2>2, <2>4, <2>6
      <3>3. Paid'
        BY <1>0, <2>1, <2>5, <3>1, <3>2 DEF Paid
      <3>4. InHand'
        BY <1>0, <2>1, <3>1 DEF InHand, At, Doing, Approving
      <3> QED
        BY <3>3, <3>4
    <2>7. CASE ledger[s].auth # None
      <3>1. PICK x : x = ledger[s].auth
        OBVIOUS
      <3>2. auth' = [auth EXCEPT ![x].status = "VOID"]
        BY <1>32, <2>3, <2>7, <3>1 DEF Void
      <3>3. x \in DOMAIN auth /\ \A j \in Starts \ {s} : ledger[j].auth # None => ledger[j].auth # x
        BY <1>0, <2>7, <3>1 DEF Paid
      <3>4. auth[x] \in Capability
        BY <1>0, <3>3, CapabilityFacts
      <3>5. /\ DOMAIN auth' = DOMAIN auth
            /\ \A k \in DOMAIN auth \ {x} : auth'[k] = auth[k]
            /\ auth'[x].status = "VOID" /\ auth'[x].by = auth[x].by
            /\ auth'[x].option = auth[x].option /\ auth'[x].decision = auth[x].decision
        BY <1>0, <3>2, <3>3, <3>4 DEF Typed, Capability
      <3>6. \A k \in DOMAIN auth' : auth'[k].status = "ISSUED" => auth'[k].by = 0
        BY <1>0, <3>5 DEF Paid
      <3>7. \A j \in Starts : ledger[j].auth # None =>
               /\ ledger[j].auth \in DOMAIN auth
               /\ auth'[ledger[j].auth].by = auth[ledger[j].auth].by
               /\ auth'[ledger[j].auth].option = auth[ledger[j].auth].option
               /\ auth'[ledger[j].auth].decision = auth[ledger[j].auth].decision
               /\ j # s => auth'[ledger[j].auth] = auth[ledger[j].auth] /\ ledger[j].act \notin Unfinished
        BY <1>0, <2>2, <2>4, <3>3, <3>5 DEF Paid
      <3>8. ledger[s].act \notin Failed /\ ledger[s].act \notin Completed
        BY <2>2, <2>3 DEF Unfinished
      <3>9. ASSUME NEW j \in Starts, ledger[j].auth # None
            PROVE  LET e == ledger[j] y == auth'[e.auth] IN
                   /\ y.by = e.act /\ y.option = e.finding
                   /\ decision[y.decision] = "APPROVED"
                   /\ y.decision # snap.decision
                   /\ \A k \in Starts \ {j} : ledger[k].auth # None =>
                         auth'[ledger[k].auth].decision # y.decision
        BY <1>0, <3>7, <3>9 DEF Paid
      <3>10. ASSUME NEW j \in Starts, ledger[j].auth # None
             PROVE  LET e == ledger[j] y == auth'[e.auth] IN
                   /\ e.act \in Failed => y.status = "VOID"
                   /\ e.act \in Completed => y.status = "CONSUMED"
                   /\ e.act \in Unfinished => y.status = "VOID" /\ output[e.act].file \in {"none", "quarantined"}
        <4>1. CASE j = s
          BY <2>2, <2>3, <3>1, <3>5, <3>8, <4>1 DEF InDoubt
        <4>2. CASE j # s
          BY <1>0, <3>7, <3>10, <4>2 DEF Paid
        <4> QED
          BY <4>1, <4>2
      <3>11. Paid'
        BY <2>1, <2>5, <3>5, <3>6, <3>7, <3>9, <3>10 DEF Paid
      <3>12. InHand'
        BY <1>0, <2>1, <3>5 DEF InHand, At, Doing, Approving
      <3> QED
        BY <3>11, <3>12
    <2> QED
      BY <2>6, <2>7
  <1>33. ASSUME Complete \/ Fail
        PROVE  InHand' /\ Paid'
    <2>1. /\ UNCHANGED <<snap, auth, decision, output>> /\ call.at \in Doing
          /\ call'.at = Continuation /\ call'.phase = call.phase /\ call'.todo = call.todo
          /\ call'.cap = call.cap
      <3>1. CASE Complete
        BY <1>0, <3>1, Jump DEF Complete, At, Doing
      <3>2. CASE Fail
        BY <1>0, <3>2, Jump DEF Fail, At, Doing
      <3> QED
        BY <1>33, <3>1, <3>2
    <2>2. call'.at \in {"refreshed", "recover", "fail_run", "execute"}
      BY <2>1 DEF Continuation
    <2>3. InHand'
      BY <1>0, <2>1, <2>2 DEF InHand, At, Doing, Approving
    <2>4. /\ call.act \in Unfinished /\ \A a \in Unfinished : a = call.act
      BY <1>0, <2>1 DEF OneAtATime
    <2>5. PICK type \in {"ACTION_COMPLETED", "ACTION_FAILED"} :
            /\ ledger' = Append(ledger, [type |-> type, act |-> call.act])
            /\ type = "ACTION_COMPLETED" => At("complete")
            /\ type = "ACTION_FAILED" => At("failed")
      BY <1>33 DEF Complete, Fail
    <2>6. /\ Starts' = Starts /\ \A j \in Starts : ledger'[j] = ledger[j]
          /\ Completed' = Completed \cup (IF type = "ACTION_COMPLETED" THEN {call.act} ELSE {})
          /\ Failed' = Failed \cup (IF type = "ACTION_FAILED" THEN {call.act} ELSE {})
      BY <1>0, <2>4, <2>5, Ended DEF Starts
    <2>7. Unfinished' = {}
      BY <2>1, <2>4, <2>6 DEF Unfinished, Actions
    <2>8. At("complete") => output[call.act].file \notin {"none", "quarantined"}
      BY <1>0 DEF Filed, At
    <2>9. ASSUME NEW j \in Starts, ledger[j].auth # None
          PROVE  /\ ledger[j].act \in Failed' => auth[ledger[j].auth].status = "VOID"
                 /\ ledger[j].act \in Completed' => auth[ledger[j].auth].status = "CONSUMED"
      <3>1. CASE ledger[j].act = call.act
        <4>1. ledger[j].act \in Unfinished /\ ledger[j].act \notin Failed /\ ledger[j].act \notin Completed
          BY <2>4, <3>1 DEF Unfinished
        <4>2. \/ auth[ledger[j].auth].status = "CONSUMED" /\ ~At("failed")
              \/ auth[ledger[j].auth].status = "VOID" /\ output[ledger[j].act].file \in {"none", "quarantined"}
          BY <1>0, <2>9, <4>1 DEF Paid
        <4> QED
          BY <2>5, <2>6, <2>8, <3>1, <4>1, <4>2
      <3>2. CASE ledger[j].act # call.act
        BY <1>0, <2>6, <2>9, <3>2 DEF Paid
      <3> QED
        BY <3>1, <3>2
    <2>10. ASSUME NEW j \in Starts, ledger[j].auth # None
           PROVE  LET e == ledger[j] y == auth[e.auth] IN
                   /\ e.auth \in DOMAIN auth
                   /\ y.by = e.act /\ y.option = e.finding
                   /\ decision[y.decision] = "APPROVED"
                   /\ y.decision # snap.decision
                   /\ \A k \in Starts \ {j} : ledger[k].auth # None =>
                         auth[ledger[k].auth].decision # y.decision
      BY <1>0, <2>10 DEF Paid
    <2>11. \A k \in DOMAIN auth : auth[k].status = "ISSUED" => auth[k].by = 0
      BY <1>0 DEF Paid
    <2>12. Paid'
      BY <2>1, <2>6, <2>7, <2>9, <2>10, <2>11 DEF Paid
    <2> QED
      BY <2>3, <2>12
  <1> QED
    BY <1>1, <1>2, <1>3, <1>4, <1>5, <1>6, <1>7, <1>8, <1>9, <1>10, <1>11, <1>12, <1>13, <1>14, <1>15,
       <1>20, <1>21, <1>22, <1>23, <1>24, <1>25, <1>26, <1>27, <1>28, <1>29, <1>30, <1>31, <1>32, <1>33
       DEF Next, Advance, Select, Work
=============================================================================
