------------------------- MODULE OrchestratorProofs -------------------------
(***************************************************************************)
(* The safety of one run, for any requirements, tools, cycle limit and     *)
(* number of crashes: the other layers of the invariant (findings and      *)
(* attempts, delivery, the manifest), the invariant itself, the safety     *)
(* properties of Orchestrator, that it implements the run state machine of *)
(* RunLifecycle and so has what is proved of that machine, and that each   *)
(* of its calls ends.                                                      *)
(*                                                                         *)
(* The layers here are proved by what a step writes and not action by      *)
(* action: the lemmas ...Effects say which steps write a file and how.     *)
(***************************************************************************)
EXTENDS OrchestratorActionProofs

-----------------------------------------------------------------------------
(* What Pause writes into the snapshot.                                    *)
LEMMA PauseEffects ==
    ASSUME Typed, Pause
    PROVE  /\ snap'.status = "AWAITING_HUMAN_DECISION" /\ snap'.decision = NextDecision - 1
           /\ snap'.pending \in call.todo /\ snap'.cycle = snap.cycle /\ snap'.verdict = snap.verdict
           /\ snap'.options = snap.options
  <1>1. PICK f \in call.todo :
           snap' = Lifecycle!Paused(snap, [run |-> "run", decision |-> NextDecision - 1, option |-> f])
    BY DEF Pause
  <1>2. PICK p : p = [run |-> "run", decision |-> NextDecision - 1, option |-> f]
    OBVIOUS
  <1>3. snap' = Lifecycle!Paused(snap, p) /\ p.decision = NextDecision - 1 /\ p.option = f
    BY <1>1, <1>2
  <1>4. snap \in Snapshot
    BY DEF Typed
  <1> QED
    BY <1>3, <1>4, Move

(* What Reinspect writes into the snapshot.                                *)
LEMMA ReinspectEffects ==
    ASSUME Typed, Reinspect
    PROVE  /\ snap'.status = "INSPECTING" /\ snap'.cycle = snap.cycle + 1
           /\ snap'.decision = snap.decision /\ snap'.pending = snap.pending
           /\ snap'.verdict = snap.verdict /\ snap'.options = snap.options
  <1>1. PICK p : p = [run |-> "run", next_cycle |-> snap.cycle + 1]
    OBVIOUS
  <1>2. snap' = Lifecycle!Reinspected(snap, p) /\ p.next_cycle = snap.cycle + 1
    BY <1>1 DEF Reinspect
  <1>3. snap \in Snapshot
    BY DEF Typed
  <1> QED
    BY <1>2, <1>3, Move

(* Which steps write the snapshot, and what.                               *)
LEMMA SnapEffects ==
    ASSUME Typed, [Next]_vars
    PROVE  \/ UNCHANGED snap
           \/ /\ OfferOptions \/ WithdrawOptions
              /\ snap'.status = snap.status /\ snap'.cycle = snap.cycle /\ snap'.decision = snap.decision
              /\ snap'.pending = snap.pending /\ snap'.verdict = snap.verdict
           \/ /\ Prepare \/ FindingsReady \/ ApplyTierOne \/ FailRun
              /\ snap'.cycle = snap.cycle /\ snap'.decision = snap.decision
              /\ snap'.pending = snap.pending /\ snap'.verdict = snap.verdict
              /\ Prepare => snap'.status = Successor[snap.status]
              /\ FindingsReady => snap'.status = "FINDINGS_READY"
              /\ ApplyTierOne => snap'.status = "REMEDIATING"
              /\ FailRun => snap'.status = "FAILED"
           \/ /\ Conclude \/ ConcludeGivenUp
              /\ snap'.status \in {"DELIVERY_READY", "BLOCKED"} /\ snap'.status = Verdict
              /\ snap'.verdict = TerminalVerdict
              /\ snap'.cycle = snap.cycle /\ snap'.decision = snap.decision
              /\ snap'.pending = snap.pending
           \/ /\ Pause
              /\ snap'.status = "AWAITING_HUMAN_DECISION" /\ snap'.decision = NextDecision - 1
              /\ snap'.pending \in call.todo /\ snap'.cycle = snap.cycle /\ snap'.verdict = snap.verdict
           \/ /\ Block \/ Resume
              /\ Block => snap'.status = "BLOCKED"
              /\ Resume => snap'.status = "REMEDIATING"
              /\ snap'.decision = None /\ snap'.pending = None
              /\ snap'.cycle = snap.cycle /\ snap'.verdict = snap.verdict
           \/ /\ Reinspect
              /\ snap'.status = "INSPECTING" /\ snap'.cycle = snap.cycle + 1
              /\ snap'.decision = snap.decision /\ snap'.pending = snap.pending
              /\ snap'.verdict = snap.verdict
  <1>1. snap \in Snapshot
    BY DEF Typed
  <1>2. CASE OfferOptions \/ WithdrawOptions
    BY <1>1, <1>2, Move DEF OfferOptions, WithdrawOptions
  <1>3. CASE Prepare
    <2>1. snap'.status = Successor[snap.status] /\ At("prepare")
      BY <1>1, <1>3, Move DEF Prepare
    <2>2. ~FindingsReady /\ ~ApplyTierOne /\ ~FailRun
      BY <2>1 DEF FindingsReady, ApplyTierOne, Diagnosing, FailRun, At
    <2> QED
      BY <1>1, <1>3, <2>1, <2>2, Move DEF Prepare
  <1>4. CASE FindingsReady
    <2>1. ~Prepare /\ ~ApplyTierOne /\ ~FailRun
      BY <1>4 DEF Prepare, FindingsReady, ApplyTierOne, Diagnosing, FailRun, At
    <2> QED
      BY <1>1, <1>4, <2>1, Move DEF FindingsReady
  <1>5. CASE ApplyTierOne
    <2>1. ~Prepare /\ ~FindingsReady /\ ~FailRun
      BY <1>5 DEF Prepare, FindingsReady, ApplyTierOne, Diagnosing, FailRun, At
    <2> QED
      BY <1>1, <1>5, <2>1, Move DEF ApplyTierOne
  <1>6. CASE FailRun
    <2>1. ~Prepare /\ ~FindingsReady /\ ~ApplyTierOne
      BY <1>6 DEF Prepare, FindingsReady, ApplyTierOne, Diagnosing, FailRun, At
    <2> QED
      BY <1>1, <1>6, <2>1, Move DEF FailRun
  <1>7. CASE Conclude \/ ConcludeGivenUp
    <2>1. Verdict # None
      BY <1>7, NoneFacts DEF Conclude, ConcludeGivenUp
    <2>2. snap' = Lifecycle!Concluded(snap, Verdict, TerminalVerdict)
      BY <1>7 DEF Conclude, ConcludeGivenUp
    <2> QED
      BY <1>1, <1>7, <2>1, <2>2, VerdictKinds, Move
  <1>8. CASE Pause
    BY <1>8, PauseEffects
  <1>9. CASE Block
    <2>1. ~Resume
      BY <1>9 DEF Block, Resume, At
    <2> QED
      BY <1>1, <1>9, <2>1, Move DEF Block
  <1>10. CASE Resume
    <2>1. ~Block
      BY <1>10 DEF Block, Resume, At
    <2> QED
      BY <1>1, <1>10, <2>1, Move DEF Resume
  <1>11. CASE Reinspect
    BY <1>11, ReinspectEffects
  <1>12. ASSUME ~OfferOptions, ~WithdrawOptions, ~Prepare, ~FindingsReady, ~ApplyTierOne, ~FailRun, ~Conclude,
                ~ConcludeGivenUp, ~Pause, ~Block, ~Resume, ~Reinspect
         PROVE  UNCHANGED snap
    BY <1>12 DEF Next, Advance, AdvanceTerminal, AdvanceRemediating, AdvanceReady, Select, Escalate, NoAction,
       Raises, Work, Inspect, Exhaust, RecordRequest, WriteEvidence, RecordEvidence, RecordDenial,
       ApproveRequest, RecordApproval, Execute, Executed, Write, Promote, Persist, Complete, Abort, Void,
       Fail,
       Recover, RecoveryDone, RefreshManifest, BeginRefresh, Refreshed, Finish, Deny, Approve, Crash, Tamper,
       vars
  <1> QED
    BY <1>2, <1>3, <1>4, <1>5, <1>6, <1>7, <1>8, <1>9, <1>10, <1>11, <1>12

(* Which steps write the ledger.                                           *)
LEMMA LedgerEffects ==
    ASSUME [Next]_vars
    PROVE  \/ UNCHANGED ledger
           \/ Execute
           \/ BeginRefresh /\ Begin(RefreshFinding, 0) /\ At("authorize_refresh")
           \/ Complete \/ Fail
  <1>1. CASE BeginRefresh
    BY <1>1 DEF BeginRefresh
  <1>2. ASSUME ~Execute, ~BeginRefresh, ~Complete, ~Fail
        PROVE  UNCHANGED ledger
    BY <1>2 DEF Next, Advance, AdvanceTerminal, AdvanceRemediating, AdvanceReady, Select, ApplyTierOne,
       Escalate,
       NoAction, Raises, Work, Prepare, Inspect, FindingsReady, OfferOptions, Conclude, Exhaust,
       ConcludeGivenUp, RecordRequest, Pause, WriteEvidence, RecordEvidence, RecordDenial, Block,
       WithdrawOptions,
       ApproveRequest, RecordApproval, Resume, Executed, Write, Promote, Persist, Abort, Void,
       Recover, RecoveryDone, FailRun, RefreshManifest, Refreshed, Finish, Reinspect, Deny, Approve, Crash,
       Tamper, vars
  <1> QED
    BY <1>1, <1>2

(* Which steps write files.                                                *)
LEMMA OutputEffects ==
    ASSUME [Next]_vars
    PROVE  \/ UNCHANGED output
           \/ Execute
           \/ BeginRefresh /\ Begin(RefreshFinding, 0) /\ At("authorize_refresh")
           \/ Write \/ Promote \/ Abort \/ Recover \/ Crash
  <1>1. CASE BeginRefresh
    BY <1>1 DEF BeginRefresh
  <1>2. ASSUME ~Execute, ~BeginRefresh, ~Write, ~Promote, ~Abort, ~Recover, ~Crash
        PROVE  UNCHANGED output
    BY <1>2 DEF Next, Advance, AdvanceTerminal, AdvanceRemediating, AdvanceReady, Select, ApplyTierOne,
       Escalate,
       NoAction, Raises, Work, Prepare, Inspect, FindingsReady, OfferOptions, Conclude, Exhaust,
       ConcludeGivenUp, RecordRequest, Pause, WriteEvidence, RecordEvidence, RecordDenial, Block,
       WithdrawOptions,
       ApproveRequest, RecordApproval, Resume, Executed, Persist, Complete, Void, Fail,
       RecoveryDone, FailRun, RefreshManifest, Refreshed, Finish, Reinspect, Deny, Approve, Tamper, vars
  <1> QED
    BY <1>1, <1>2

(* Which steps write request files.                                        *)
LEMMA DecisionEffects ==
    ASSUME [Next]_vars
    PROVE  UNCHANGED decision \/ Escalate \/ Deny \/ ApproveRequest
  BY DEF Next, Advance, AdvanceTerminal, AdvanceRemediating, AdvanceReady, Select, ApplyTierOne,
       NoAction, Raises, Work, Prepare, Inspect, FindingsReady, OfferOptions, Conclude, Exhaust,
       ConcludeGivenUp, RecordRequest, Pause, WriteEvidence, RecordEvidence, RecordDenial, Block,
       WithdrawOptions,
       RecordApproval, Resume, Execute, Executed, Write, Promote, Persist, Complete, Abort, Void, Fail,
       Recover, RecoveryDone, FailRun, RefreshManifest, BeginRefresh, Refreshed, Finish, Reinspect, Approve,
       Crash,
       Tamper, vars

(* The start event of a new action.                                        *)
LEMMA BegunEvent ==
    ASSUME Typed, Logged, NEW f \in Finding, NEW cap \in Nat, Begin(f, cap)
    PROVE  \E i : /\ i \notin Starts /\ i \notin DOMAIN ledger /\ Starts' = Starts \cup {i}
                  /\ \A j \in DOMAIN ledger : ledger'[j] = ledger[j]
                  /\ \A j \in Starts : ledger'[j] = ledger[j]
                  /\ ledger'[i].act = Len(output) + 1 /\ ledger'[i].finding = f
                  /\ ledger'[i].auth = IF TierOf(f) = 2 THEN cap ELSE None
  <1>1. PICK i, n : i = Len(ledger) + 1 /\ n = Len(output) + 1
    OBVIOUS
  <1>2. /\ i \notin Starts /\ i \notin DOMAIN ledger /\ Starts' = Starts \cup {i}
        /\ \A j \in DOMAIN ledger : ledger'[j] = ledger[j]
        /\ ledger'[i] = [type |-> "ACTION_STARTED", act |-> n, finding |-> f,
                         auth |-> IF TierOf(f) = 2 THEN cap ELSE None]
    BY <1>1, Begun
  <1>3. \A j \in Starts : ledger'[j] = ledger[j]
    BY <1>2 DEF Starts
  <1> QED
    BY <1>1, <1>2, <1>3

-----------------------------------------------------------------------------
(* The call moves on to l with all it holds.                               *)
Moved(l) ==
    /\ call'.at = l /\ call'.phase = call.phase /\ call'.todo = call.todo
    /\ call'.act = call.act /\ call'.cap = call.cap

(* Which step brings the call where.                                       *)
LEMMA Arrivals ==
    ASSUME Typed, [Next]_vars
    PROVE  \/ UNCHANGED call
           \/ call'.at = "idle" /\ call'.phase = None /\ call'.todo = {} /\ call'.act = 0 /\ call'.cap = 0
           \/ Prepare /\ (Moved("inspect") \/ Moved("prepare"))
           \/ Inspect /\ Moved("ready")
           \/ FindingsReady /\ Moved("offer")
           \/ AdvanceTerminal /\ call'.at = "evidence" /\ call'.act = 0
           \/ AdvanceRemediating /\ call'.at = "recover" /\ call'.act = 0
           \/ AdvanceReady /\ Moved("decide")
           \/ (Conclude \/ ConcludeGivenUp \/ WithdrawOptions \/ FailRun) /\ Moved("evidence")
           \/ Exhaust /\ Moved("exhausted")
           \/ NoAction /\ Moved("unactionable")
           \/ ApplyTierOne /\ call'.at = "execute" /\ call'.phase = "tier1" /\ call'.act = 0
           \/ Escalate /\ call'.at = "record_request"
           \/ RecordRequest /\ Moved("pause")
           \/ WriteEvidence /\ Moved("record_evidence")
           \/ Deny /\ Moved("record_denial")
           \/ RecordDenial /\ Moved("block")
           \/ Block /\ Moved("withdraw")
           \/ Approve /\ call'.at = "approve" /\ call'.phase = "tier2" /\ call'.act = 0
           \/ ApproveRequest /\ Moved("record_approval")
           \/ RecordApproval /\ Moved("resume")
           \/ Resume /\ Moved("execute")
           \/ /\ Execute /\ call'.at = "write" /\ call'.phase = call.phase
              /\ call'.act = Len(output) + 1 /\ call'.cap = call.cap
           \/ Executed /\ (Moved("refresh") \/ Moved("finish"))
           \/ Write /\ Moved("promote")
           \/ Promote /\ Moved("persist")
           \/ Persist /\ Moved("complete")
           \/ Abort /\ Moved("fail")
           \/ Void /\ Moved("failed")
           \/ (Complete \/ Fail) /\ Moved(Continuation)
           \/ /\ Recover /\ call'.at \in {"complete", "persist", "fail"}
              /\ call'.phase \in {call.phase, "integrity"} /\ call'.act \in Unfinished
           \/ RecoveryDone /\ Moved("refresh")
           \/ RefreshManifest /\ (Moved("authorize_refresh") \/ Moved("finish"))
           \/ /\ BeginRefresh /\ call'.at = "write" /\ call'.phase = "refresh"
              /\ call'.act = Len(output) + 1
           \/ Refreshed /\ Moved("finish")
           \/ Finish /\ Moved("reinspect")
           \/ Reinspect /\ Moved("inspect")
  <1> DEFINE Called ==
           call'.at = "idle" /\ call'.phase = None /\ call'.todo = {} /\ call'.act = 0 /\ call'.cap = 0
  <1>1. call \in CallRecord
    BY DEF Typed
  <1>2. /\ \A l : Goto(l) => Moved(l)
        /\ Return => Called
    BY <1>1, Jump DEF Moved
  <1>3. AdvanceTerminal => Called \/ (call'.at = "evidence" /\ call'.act = 0)
    <2>1. ASSUME AdvanceTerminal, EvidenceComplete
          PROVE  Called
      BY <2>1 DEF AdvanceTerminal, Idle
    <2>2. ASSUME AdvanceTerminal, ~EvidenceComplete
          PROVE  call'.at = "evidence" /\ call'.act = 0
      BY <2>2 DEF AdvanceTerminal, Idle
    <2> QED
      BY <2>1, <2>2
  <1>4. /\ AdvanceRemediating => call'.at = "recover" /\ call'.act = 0
        /\ Escalate => call'.at = "record_request"
        /\ Approve => call'.at = "approve" /\ call'.phase = "tier2" /\ call'.act = 0
        /\ ApplyTierOne => call'.at = "execute" /\ call'.phase = "tier1" /\ call'.act = 0
    BY DEF AdvanceRemediating, Escalate, Approve, ApplyTierOne, Idle
  <1>5. /\ Execute => /\ call'.at = "write" /\ call'.phase = call.phase
                      /\ call'.act = Len(output) + 1 /\ call'.cap = call.cap
        /\ Recover => /\ call'.at \in {"complete", "persist", "fail"}
                      /\ call'.phase \in {call.phase, "integrity"} /\ call'.act \in Unfinished
        /\ BeginRefresh => \/ Called
                           \/ /\ call'.at = "write" /\ call'.phase = "refresh"
                              /\ call'.act = Len(output) + 1
    BY <1>1, <1>2 DEF Execute, Recover, BeginRefresh, CallRecord
  <1>6. /\ Prepare => Moved("inspect") \/ Moved("prepare")
        /\ Inspect => Moved("ready")
        /\ FindingsReady => Moved("offer")
        /\ OfferOptions => Called
        /\ AdvanceReady => Moved("decide")
        /\ Conclude \/ ConcludeGivenUp \/ WithdrawOptions \/ FailRun => Moved("evidence")
        /\ Exhaust => Moved("exhausted")
        /\ NoAction => Moved("unactionable")
        /\ RecordRequest => Moved("pause")
        /\ Pause => Called
        /\ WriteEvidence => Moved("record_evidence")
        /\ RecordEvidence => Called
        /\ Deny => Moved("record_denial")
        /\ RecordDenial => Moved("block")
        /\ Block => Moved("withdraw")
        /\ ApproveRequest => Moved("record_approval")
        /\ RecordApproval => Moved("resume")
        /\ Resume => Moved("execute")
        /\ Raises => Called
        /\ Crash => Called
    BY <1>2 DEF Prepare, Inspect, FindingsReady, OfferOptions, AdvanceReady, Conclude, ConcludeGivenUp,
       WithdrawOptions, FailRun, Exhaust, NoAction, RecordRequest, Pause, WriteEvidence, RecordEvidence, Deny,
       RecordDenial, Block, ApproveRequest, RecordApproval, Resume, Raises, Crash
  <1>7. /\ Executed => Moved("refresh") \/ Moved("finish")
        /\ Write => Moved("promote")
        /\ Promote => Moved("persist")
        /\ Persist => Moved("complete")
        /\ Abort => Moved("fail")
        /\ Void => Moved("failed")
        /\ Complete \/ Fail => Moved(Continuation)
        /\ RecoveryDone => Moved("refresh")
        /\ RefreshManifest => Moved("authorize_refresh") \/ Moved("finish")
        /\ Refreshed => Moved("finish")
        /\ Finish => Moved("reinspect")
        /\ Reinspect => Moved("inspect")
    BY <1>2 DEF Executed, Write, Promote, Persist, Abort, Void, Complete, Fail, RecoveryDone, RefreshManifest,
       Refreshed, Finish, Reinspect
  <1>8. Tamper \/ UNCHANGED vars => UNCHANGED call
    BY DEF Tamper, vars
  <1> QED
    BY <1>3, <1>4, <1>5, <1>6, <1>7, <1>8 DEF Next, Advance, Select, Work

-----------------------------------------------------------------------------
(* Execute starts one selected option.                                     *)
LEMMA ExecuteEffects ==
    ASSUME Typed, Logged, Execute
    PROVE  /\ At("execute") /\ call.cap \in Nat /\ UNCHANGED <<snap, run, decision, evidence, inspected>>
           /\ \E f \in Finding :
                 /\ f \in call.todo /\ Begin(f, call.cap) /\ call'.todo = call.todo \ {f}
                 /\ \E i : /\ i \notin Starts /\ i \notin DOMAIN ledger /\ Starts' = Starts \cup {i}
                           /\ \A j \in DOMAIN ledger : ledger'[j] = ledger[j]
                           /\ \A j \in Starts : ledger'[j] = ledger[j]
                           /\ ledger'[i].act = Len(output) + 1 /\ ledger'[i].finding = f
                           /\ ledger'[i].auth = IF TierOf(f) = 2 THEN call.cap ELSE None
  <1>1. call \in CallRecord
    BY DEF Typed
  <1>2. PICK f : f \in call.todo /\ Begin(f, call.cap) /\ call'.todo = call.todo \ {f}
    <2>1. PICK f \in First(call.todo) : /\ Begin(f, call.cap)
             /\ call' = [call EXCEPT !.at = "write", !.todo = @ \ {f}, !.act = Len(output) + 1]
      BY DEF Execute
    <2>2. call'.todo = call.todo \ {f}
      BY <1>1, <2>1 DEF CallRecord
    <2> QED
      BY <2>1, <2>2 DEF First
  <1>3. f \in Finding /\ call.cap \in Nat
    BY <1>1, <1>2 DEF CallRecord
  <1>4. PICK c : c = call.cap
    OBVIOUS
  <1>5. Begin(f, c) /\ c \in Nat
    BY <1>2, <1>3, <1>4
  <1>6. \E i : /\ i \notin Starts /\ i \notin DOMAIN ledger /\ Starts' = Starts \cup {i}
               /\ \A j \in DOMAIN ledger : ledger'[j] = ledger[j]
               /\ \A j \in Starts : ledger'[j] = ledger[j]
               /\ ledger'[i].act = Len(output) + 1 /\ ledger'[i].finding = f
               /\ ledger'[i].auth = IF TierOf(f) = 2 THEN c ELSE None
    BY <1>3, <1>5, BegunEvent
  <1>7. At("execute") /\ UNCHANGED <<snap, run, decision, evidence, inspected>>
    BY DEF Execute
  <1> QED
    BY <1>2, <1>3, <1>4, <1>6, <1>7

(* BeginRefresh starts the refresh of this cycle.                          *)
LEMMA BeginRefreshEffects ==
    ASSUME Typed, Logged, BeginRefresh, Begin(RefreshFinding, 0)
    PROVE  /\ At("authorize_refresh") /\ UNCHANGED <<snap, run, decision, evidence, inspected>>
           /\ RefreshFinding \in Finding /\ RefreshFinding[1] = "refresh" /\ RefreshFinding[2] = snap.cycle
           /\ \E i : /\ i \notin Starts /\ i \notin DOMAIN ledger /\ Starts' = Starts \cup {i}
                     /\ \A j \in DOMAIN ledger : ledger'[j] = ledger[j]
                     /\ \A j \in Starts : ledger'[j] = ledger[j]
                     /\ ledger'[i].act = Len(output) + 1 /\ ledger'[i].finding = RefreshFinding
  <1>1. PICK f : f = RefreshFinding
    OBVIOUS
  <1>2. f \in Finding /\ f[1] = "refresh" /\ f[2] = snap.cycle
    BY <1>1 DEF RefreshFinding, Typed, Snapshot, Finding
  <1>3. Begin(f, 0)
    BY <1>1
  <1>4. \E i : /\ i \notin Starts /\ i \notin DOMAIN ledger /\ Starts' = Starts \cup {i}
               /\ \A j \in DOMAIN ledger : ledger'[j] = ledger[j]
               /\ \A j \in Starts : ledger'[j] = ledger[j]
               /\ ledger'[i].act = Len(output) + 1 /\ ledger'[i].finding = f
               /\ ledger'[i].auth = IF TierOf(f) = 2 THEN 0 ELSE None
    BY <1>2, <1>3, BegunEvent
  <1>5. At("authorize_refresh") /\ UNCHANGED <<snap, run, decision, evidence, inspected>>
    BY DEF BeginRefresh
  <1> QED
    BY <1>1, <1>2, <1>4, <1>5

(* Complete and Fail end the action of the call, after which none is       *)
(* unfinished.                                                             *)
LEMMA EndEffects ==
    ASSUME Typed, Logged, OneAtATime, Complete \/ Fail
    PROVE  /\ UNCHANGED <<snap, run, decision, auth, output, evidence, inspected>>
           /\ call.at \in Doing /\ call.act \in Unfinished /\ \A a \in Unfinished : a = call.act
           /\ Starts' = Starts /\ \A j \in DOMAIN ledger : ledger'[j] = ledger[j]
           /\ Actions' = Actions /\ Unfinished' = {} /\ \A a : Intact(a)' = Intact(a)
           /\ \A b : Started(b)' = Started(b) /\ IsManifest(b)' = IsManifest(b)
           /\ \E i : /\ i = Len(ledger) + 1 /\ i \in Nat /\ i \notin DOMAIN ledger
                     /\ DOMAIN ledger' = DOMAIN ledger \cup {i} /\ ledger'[i].act = call.act
                     /\ Complete => /\ At("complete") /\ ledger'[i].type = "ACTION_COMPLETED"
                                    /\ Completed' = Completed \cup {call.act} /\ Failed' = Failed
                     /\ Fail => /\ At("failed") /\ ledger'[i].type = "ACTION_FAILED"
                                /\ Failed' = Failed \cup {call.act} /\ Completed' = Completed
  <1>1. /\ UNCHANGED <<snap, run, decision, auth, output, evidence, inspected>>
        /\ call.at \in {"complete", "failed"}
        /\ Complete => At("complete") /\ ledger' = Append(ledger, [type |-> "ACTION_COMPLETED", act |-> call.act])
        /\ Fail => At("failed") /\ ledger' = Append(ledger, [type |-> "ACTION_FAILED", act |-> call.act])
    BY DEF Complete, Fail, At
  <1>2. call.at \in Doing /\ call.act \in Unfinished
    BY <1>1 DEF OneAtATime, Doing
  <1>3. \A a \in Unfinished : a = call.act
    BY <1>2 DEF OneAtATime
  <1>4. PICK type \in {"ACTION_COMPLETED", "ACTION_FAILED"} :
          /\ ledger' = Append(ledger, [type |-> type, act |-> call.act])
          /\ Complete => type = "ACTION_COMPLETED"
          /\ Fail => type = "ACTION_FAILED"
    BY <1>1 DEF At
  <1>5. PICK i : i = Len(ledger) + 1
    OBVIOUS
  <1>6. /\ i \in Nat /\ i \notin DOMAIN ledger /\ DOMAIN ledger' = DOMAIN ledger \cup {i}
        /\ \A j \in DOMAIN ledger : ledger'[j] = ledger[j]
        /\ ledger'[i] = [type |-> type, act |-> call.act]
        /\ Starts' = Starts
        /\ Completed' = Completed \cup (IF type = "ACTION_COMPLETED" THEN {call.act} ELSE {})
        /\ Failed' = Failed \cup (IF type = "ACTION_FAILED" THEN {call.act} ELSE {})
        /\ \A b : Started(b)' = Started(b) /\ IsManifest(b)' = IsManifest(b)
    BY <1>2, <1>4, <1>5, Ended
  <1>7. Actions' = Actions /\ \A a : Intact(a)' = Intact(a)
    BY <1>1 DEF Actions, Intact
  <1>8. Unfinished' = {}
    BY <1>3, <1>6, <1>7 DEF Unfinished
  <1>9. /\ Complete => Completed' = Completed \cup {call.act} /\ Failed' = Failed
        /\ Fail => Failed' = Failed \cup {call.act} /\ Completed' = Completed
    BY <1>4, <1>6
  <1>10. ledger'[i].act = call.act /\ ledger'[i].type = type
    BY <1>6
  <1> QED
    BY <1>1, <1>2, <1>3, <1>4, <1>5, <1>6, <1>7, <1>8, <1>9, <1>10

-----------------------------------------------------------------------------
(* What an inspection leaves of findings and offers.                       *)
LEMMA InspectEffects ==
    ASSUME Typed, Inspect
    PROVE  /\ At("inspect") /\ inspected' = run.assets
           /\ run.offers \subseteq run'.offers
           /\ \A f \in run'.offers \ run.offers :
                 f \in Option /\ f[2] = snap.cycle /\ FailureCount(f[1]) < 2
           /\ \A f \in Finding : Open(f)' => f[1] # "refresh" /\ f[2] = snap.cycle
           /\ \A f \in Finding : f[1] = "refresh" =>
                 (run'.findings[f] = "UNRESOLVED" <=> run.findings[f] = "UNRESOLVED")
           /\ Checksums # None => (Checksums \in run'.passed <=> ChecksumsMatch)
  <1> DEFINE failing(passed) == {<<q, snap.cycle>> : q \in Req \ passed}
             offered(passed) == {f \in failing(passed) : ToolOf(f) # "none" /\ FailureCount(ReqOf(f)) < 2}
  <1>1. PICK passed \in SUBSET Req :
          /\ Checksums # None => (Checksums \in passed <=> ChecksumsMatch)
          /\ run' = [run EXCEPT
              !.findings = [f \in Finding |->
                    IF f \in failing(passed) THEN "OPEN"
                    ELSE IF @[f] = "OPEN" THEN "RESOLVED" ELSE @[f]],
              !.offers = @ \cup offered(passed),
              !.passed = passed]
    BY DEF Inspect
  <1>2. PICK fs, os : fs = failing(passed) /\ os = offered(passed)
    OBVIOUS
  <1>3. /\ run'.findings = [f \in Finding |->
                IF f \in fs THEN "OPEN" ELSE IF run.findings[f] = "OPEN" THEN "RESOLVED" ELSE run.findings[f]]
        /\ run'.offers = run.offers \cup os
        /\ run'.passed = passed
    BY <1>1, <1>2 DEF Typed, RunRecord
  <1>4. snap.cycle \in Cycle /\ \A q \in Req : q # "refresh"
    BY OrchestratorAssumption DEF Typed, Snapshot
  <1>5. \A f \in fs : f \in Finding /\ f[1] \in Req /\ f[1] # "refresh" /\ f[2] = snap.cycle
    BY <1>2, <1>4 DEF Finding
  <1>6. \A f \in os : f \in fs /\ ToolOf(f) # "none" /\ FailureCount(ReqOf(f)) < 2
    BY <1>2
  <1>7. \A f \in os : f \in Option /\ f[2] = snap.cycle /\ FailureCount(f[1]) < 2
    BY <1>5, <1>6 DEF Option, ToolOf, ReqOf
  <1>8. \A f \in Finding : (run'.findings[f] = "OPEN" => f \in fs)
                           /\ (f \notin fs => (run'.findings[f] = "UNRESOLVED" <=> run.findings[f] = "UNRESOLVED"))
    BY <1>3
  <1>9. At("inspect") /\ inspected' = run.assets
    BY DEF Inspect
  <1> QED
    BY <1>1, <1>3, <1>5, <1>7, <1>8, <1>9 DEF Open

(* Which steps write findings and offers, and what.                        *)
LEMMA FindingEffects ==
    ASSUME Typed, [Next]_vars
    PROVE  \/ run'.findings = run.findings /\ run'.offers = run.offers
           \/ Inspect
           \/ /\ Exhaust \/ NoAction
              /\ \A f \in Finding : run'.findings[f] = IF Open(f) THEN "UNRESOLVED" ELSE run.findings[f]
              /\ run'.offers = {f \in run.offers : ~Open(f)}
           \/ /\ RecordDenial
              /\ \A f \in Finding : f # snap.pending => run'.findings[f] = run.findings[f]
              /\ snap.pending \in Finding => run'.findings[snap.pending] = "UNRESOLVED"
              /\ run'.offers = run.offers \ {snap.pending}
           \/ /\ RefreshManifest /\ Stale
              /\ run'.findings = [run.findings EXCEPT ![RefreshFinding] = "OPEN"]
              /\ run'.offers = run.offers \cup {RefreshFinding}
              /\ run.findings[RefreshFinding] # "UNRESOLVED"
           \/ /\ Refreshed
              /\ run'.findings = [run.findings EXCEPT ![RefreshFinding] =
                                      IF call.act \in Failed THEN "UNRESOLVED" ELSE "RESOLVED"]
              /\ run'.offers = run.offers \ {RefreshFinding}
  <1>1. run \in RunRecord /\ run.offers \subseteq Finding
    BY DEF Typed, RunRecord
  <1>2. CASE Exhaust \/ NoAction
    <2>1. run' = GivenUp({f \in Finding : Open(f)})
      BY <1>2 DEF Exhaust, NoAction
    <2>2. PICK fs : fs = {f \in Finding : Open(f)}
      OBVIOUS
    <2>3. run'.findings = [f \in Finding |-> IF f \in fs THEN "UNRESOLVED" ELSE run.findings[f]]
          /\ run'.offers = run.offers \ fs
      BY <1>1, <2>1, <2>2, RecordEffects
    <2>4. run'.offers = {f \in run.offers : ~Open(f)}
      BY <1>1, <2>2, <2>3
    <2> QED
      BY <1>2, <2>2, <2>3, <2>4
  <1>3. CASE RecordDenial
    <2>1. run' = [GivenUp({snap.pending}) EXCEPT !.requests[snap.decision] = "DENIED"]
      BY <1>3 DEF RecordDenial
    <2>2. PICK r : r = GivenUp({snap.pending})
      OBVIOUS
    <2>3. r.findings = [f \in Finding |-> IF f \in {snap.pending} THEN "UNRESOLVED" ELSE run.findings[f]]
          /\ r.offers = run.offers \ {snap.pending}
      BY <1>1, <2>2, RecordEffects
    <2>4. run'.findings = r.findings /\ run'.offers = r.offers
      BY <1>1, <2>1, <2>2 DEF GivenUp, RunRecord
    <2> QED
      BY <1>3, <2>3, <2>4
  <1>4. CASE RefreshManifest
    BY <1>1, <1>4 DEF RefreshManifest, RunRecord
  <1>5. CASE Refreshed
    BY <1>1, <1>5 DEF Refreshed, RunRecord
  <1> QED
    BY <1>2, <1>3, <1>4, <1>5, RunEffects

-----------------------------------------------------------------------------
(* The classes of statuses are disjoint.                                   *)
LEMMA StatusesApart ==
    /\ "REMEDIATING" \notin Lifecycle!Preparing \cup Terminal
    /\ {"INSPECTING", "FINDINGS_READY", "AWAITING_HUMAN_DECISION"} \cap (Lifecycle!Preparing \cup Terminal) = {}
    /\ Lifecycle!Preparing \cap Terminal = {}
    /\ DOMAIN Successor = Lifecycle!Preparing
    /\ \A s \in DOMAIN Successor : Successor[s] \in Lifecycle!Preparing \cup {"INSPECTING"}
    /\ \A s \in DOMAIN Successor :
          Successor[s] \notin {"CREATED", "FINDINGS_READY", "AWAITING_HUMAN_DECISION", "REMEDIATING"} \cup Terminal
  BY DEF Terminal, Lifecycle!Terminal, Lifecycle!Preparing, Successor

(* What is offered is open and of this cycle, and what is selected was     *)
(* never started.                                                          *)
LEMMA OfferedStep == IInv /\ [Next]_vars => Offered'
  <1> SUFFICES ASSUME IInv, [Next]_vars
               PROVE  Offered'
    OBVIOUS
  <1>0. /\ Typed /\ Typed' /\ Placed /\ Placed' /\ Phased /\ Coherent /\ Coherent' /\ Logged
        /\ OneAtATime /\ Asked /\ Requested /\ Offered /\ Tried
        /\ snap \in Snapshot /\ snap' \in Snapshot /\ call \in CallRecord /\ run \in RunRecord
        /\ run.offers \subseteq Finding
    BY TypedStep, ControlStep DEF IInv, Typed, RunRecord
  <1>1. snap'.cycle = snap.cycle \/ (Reinspect /\ snap'.cycle = snap.cycle + 1 /\ snap'.status = "INSPECTING")
    BY <1>0, SnapEffects
  <1>2. snap.cycle \in Nat /\ \A f \in Finding : f[2] \in Nat
    BY <1>0, OrchestratorAssumption DEF Snapshot, Cycle, Finding
  <1>3. RefreshFinding \in Finding /\ RefreshFinding[1] = "refresh" /\ RefreshFinding[2] = snap.cycle
    BY <1>0 DEF RefreshFinding, Snapshot, Finding
  <1>4. \A f \in run'.offers \ run.offers :
           \/ f \in Option /\ f[2] = snap.cycle
           \/ f = RefreshFinding
    BY <1>0, FindingEffects, InspectEffects
  <1>5. \A f \in run'.offers \ run.offers : snap'.cycle = snap.cycle
    <2>1. Reinspect => UNCHANGED run
      BY DEF Reinspect
    <2> QED
      BY <1>1, <2>1
  <1>6. run'.offers \subseteq Option \cup {f \in Finding : f[1] = "refresh"}
    BY <1>0, <1>3, <1>4 DEF Offered
  <1>7. \A f \in run'.offers : f[2] =< snap'.cycle
    BY <1>0, <1>1, <1>2, <1>3, <1>4, <1>5, FindingFacts DEF Offered
  <1>8. ASSUME \/ At("ready")' \/ snap'.status \in {"FINDINGS_READY", "AWAITING_HUMAN_DECISION"},
               NEW f \in Finding, Open(f)'
        PROVE  f[1] # "refresh" /\ f[2] = snap'.cycle
    <2>1. CASE Inspect
      <3>1. UNCHANGED snap
        BY <2>1 DEF Inspect
      <3> QED
        BY <1>0, <1>8, <2>1, <3>1, InspectEffects
    <2>2. CASE ~Inspect
      <3>1. snap'.status \notin {"REMEDIATING"}
        BY <1>0, <1>8 DEF Placed, At
      <3>2. ~RefreshManifest /\ ~Refreshed /\ ~Reinspect
        <4>1. RefreshManifest \/ Refreshed => snap'.status = "REMEDIATING"
          BY <1>0 DEF RefreshManifest, Refreshed, Placed, At, Remedying
        <4>2. Reinspect => snap'.status = "INSPECTING" /\ call'.at = "inspect"
          BY <1>0, ReinspectEffects, Jump DEF Reinspect
        <4> QED
          BY <1>8, <3>1, <4>1, <4>2 DEF At
      <3>3. Open(f)
        BY <1>0, <1>8, <2>2, <3>2, FindingEffects, InspectEffects DEF Open
      <3>4. snap'.cycle = snap.cycle
        BY <1>1, <3>2
      <3>5. At("ready") \/ snap.status \in {"FINDINGS_READY", "AWAITING_HUMAN_DECISION"}
        <4>1. CASE At("ready")'
          <5>1. At("ready")
            BY <1>0, <2>2, <4>1, Arrivals DEF Moved, At, Continuation
          <5> QED
            BY <5>1
        <4>2. CASE snap'.status \in {"FINDINGS_READY", "AWAITING_HUMAN_DECISION"}
          <5>1. Prepare => snap.status \in DOMAIN Successor
            BY <1>0 DEF Prepare, Placed
          <5>2. \/ snap.status = snap'.status \/ FindingsReady \/ Pause
            BY <1>0, <4>2, <5>1, SnapEffects, StatusesApart
          <5>3. FindingsReady => At("ready")
            BY DEF FindingsReady
          <5>4. Pause => snap.status = "FINDINGS_READY"
            BY <1>0 DEF Pause, Placed, At, Judging
          <5> QED
            BY <4>2, <5>2, <5>3, <5>4
        <4> QED
          BY <1>8, <4>1, <4>2
      <3> QED
        BY <1>0, <3>3, <3>4, <3>5 DEF Offered
    <2> QED
      BY <2>1, <2>2
  <1>9. ASSUME snap'.status = "AWAITING_HUMAN_DECISION", decision'[snap'.decision] # "DENIED"
        PROVE  snap'.pending \in run'.offers
    <2>1. CASE Pause
      <3>1. snap'.pending \in call.todo /\ UNCHANGED run
        BY <1>0, <2>1, PauseEffects DEF Pause
      <3>2. call.todo \subseteq run.offers
        BY <1>0, <2>1 DEF Requested, Escalating, Pause, At
      <3> QED
        BY <3>1, <3>2
    <2>2. CASE ~Pause
      <3>1. snap'.status = snap.status /\ snap'.decision = snap.decision /\ snap'.pending = snap.pending
        <4>1. Prepare => snap.status \in DOMAIN Successor
          BY <1>0 DEF Prepare, Placed
        <4> QED
          BY <1>0, <1>9, <2>2, <4>1, SnapEffects, StatusesApart
      <3>2. decision[snap.decision] # "DENIED"
        <4>1. snap.decision \in Decision /\ decision[snap.decision] # "NONE"
          BY <1>0, <1>9, <3>1 DEF Coherent, Snapshot, Asked
        <4>2. decision'[snap.decision] # "DENIED" /\ decision \in [Decision -> RequestStatus]
          BY <1>0, <1>9, <3>1 DEF Typed
        <4>3. Escalate => decision' = [decision EXCEPT ![NextDecision] = "PENDING"] /\ snap.status = "FINDINGS_READY"
          BY <1>0 DEF Escalate, Diagnosing, Placed, At, Judging
        <4>4. Deny => decision' = [decision EXCEPT ![snap.decision] = "DENIED"]
          BY DEF Deny
        <4>5. ApproveRequest => decision' = [decision EXCEPT ![snap.decision] = "APPROVED"] /\ At("approve")
          BY DEF ApproveRequest
        <4>6. At("approve") => decision[snap.decision] = "PENDING"
          BY <1>0 DEF Asked
        <4> QED
          BY <1>9, <3>1, <4>1, <4>2, <4>3, <4>4, <4>5, <4>6, DecisionEffects
      <3>3. snap.pending \in run.offers
        BY <1>0, <1>9, <3>1, <3>2 DEF Offered
      <3>4. ~RecordDenial /\ ~Exhaust /\ ~NoAction /\ ~Refreshed
        <4>1. RecordDenial => decision[snap.decision] = "DENIED"
          BY <1>0 DEF RecordDenial, Asked, At
        <4>2. Exhaust \/ NoAction \/ Refreshed => snap.status # "AWAITING_HUMAN_DECISION"
          BY <1>0 DEF Exhaust, NoAction, Diagnosing, Refreshed, Placed, At, Judging, Remedying
        <4> QED
          BY <1>9, <3>1, <3>2, <4>1, <4>2
      <3> QED
        BY <1>0, <3>1, <3>3, <3>4, FindingEffects, InspectEffects
    <2> QED
      BY <2>1, <2>2
  <1>10. ASSUME call'.at \in Doing \cup {"execute"}, call'.phase \in {"tier1", "tier2"}
         PROVE  /\ \A f \in call'.todo : f \in run'.offers \cap Option /\ f[2] = snap'.cycle
                /\ \A i \in Starts' : ledger'[i].finding \notin call'.todo
    <2>1. CASE ApplyTierOne
      <3>1. PICK chosen \in SUBSET {f \in Exposed : TierOf(f) = 1} :
              call' = [Idle EXCEPT !.at = "execute", !.phase = "tier1", !.todo = chosen]
        BY <2>1 DEF ApplyTierOne
      <3>2. call'.todo = chosen
        BY <3>1 DEF Idle
      <3>3. \A f \in chosen : f \in run.offers /\ Open(f)
        BY DEF Exposed
      <3>4. snap.status = "FINDINGS_READY" /\ snap'.cycle = snap.cycle /\ UNCHANGED <<run, ledger>>
        BY <1>0, <2>1, Move DEF ApplyTierOne, Diagnosing, Placed, At, Judging
      <3>5. \A f \in chosen : f \in Option /\ f[2] = snap.cycle
        BY <1>0, <3>3, <3>4 DEF Offered
      <3>6. \A i \in Starts : ledger[i].finding[2] # snap.cycle
        <4>1. \A i \in Starts : ledger[i].finding[2] < snap.cycle
          BY <1>0, <3>4 DEF Tried, Terminal, Lifecycle!Terminal
        <4>2. \A i \in Starts : ledger[i].finding \in Finding
          BY <1>0, EventFacts DEF StartEvent
        <4> QED
          BY <1>2, <4>1, <4>2
      <3>7. Starts' = Starts
        BY <3>4, Still
      <3> QED
        BY <3>2, <3>3, <3>4, <3>5, <3>6, <3>7
    <2>2. CASE Resume
      <3>1. /\ UNCHANGED <<run, ledger, decision>> /\ call'.todo = call.todo /\ At("resume")
            /\ snap'.cycle = snap.cycle
        BY <1>0, <2>2, Jump, Move DEF Resume
      <3>2. /\ call.todo = {snap.pending} /\ snap.status = "AWAITING_HUMAN_DECISION"
            /\ decision[snap.decision] = "APPROVED"
        BY <1>0, <3>1 DEF Placed, Phased, Asked, At, Answering, Approving
      <3>3. snap.pending \in run.offers /\ snap.pending \in Option /\ snap.pending[2] = snap.cycle
        BY <1>0, <3>2 DEF Offered, Requested, Coherent, Snapshot
      <3>4. \A i \in Starts : ledger[i].finding # snap.pending
        <4>1. \A i \in Starts : ledger[i].finding[2] < snap.cycle
          BY <1>0, <3>2 DEF Tried, Terminal, Lifecycle!Terminal
        <4> QED
          BY <1>2, <3>3, <4>1
      <3>5. Starts' = Starts
        BY <3>1, Still
      <3> QED
        BY <3>1, <3>2, <3>3, <3>4, <3>5
    <2>3. CASE Execute
      <3>1. /\ At("execute") /\ UNCHANGED <<snap, run>>
            /\ call'.phase = call.phase
        BY <1>0, <2>3, ExecuteEffects DEF Execute, CallRecord
      <3>2. PICK f, i :
              /\ f \in Finding /\ f \in call.todo /\ call'.todo = call.todo \ {f}
              /\ Starts' = Starts \cup {i} /\ ledger'[i].finding = f
              /\ \A j \in Starts : ledger'[j] = ledger[j]
        BY <1>0, <2>3, ExecuteEffects
      <3> QED
        BY <1>0, <1>10, <3>1, <3>2 DEF Offered, At
    <2>4. CASE ~ApplyTierOne /\ ~Resume /\ ~Execute
      <3>1. /\ call.at \in Doing \cup {"execute"} /\ call'.phase = call.phase /\ call'.todo = call.todo
            /\ ~BeginRefresh /\ ~Recover
        <4>1. ~BeginRefresh
          BY <1>0, <1>10, Arrivals, Jump DEF BeginRefresh, CallRecord, Doing
        <4>2. ~Recover
          BY <1>0, <1>10 DEF Recover, CallRecord, Phased, At
        <4> QED
          BY <1>0, <1>10, <2>4, <4>1, <4>2, Arrivals
             DEF Moved, At, Doing, Continuation, Write, Promote, Persist, Abort, Void, Complete, Fail
      <3>2. snap.status = "REMEDIATING"
        BY <1>0, <3>1 DEF Placed, Remedying
      <3>3. snap'.cycle = snap.cycle
        BY <1>1, <3>1 DEF Reinspect, At, Doing
      <3>4. run'.offers = run.offers
        BY <1>0, <3>1, FindingEffects DEF Inspect, Exhaust, NoAction, Diagnosing, RecordDenial,
           RefreshManifest,
           Refreshed, At, Doing
      <3>5. Starts' = Starts /\ \A i \in Starts : ledger'[i] = ledger[i]
        <4>1. CASE UNCHANGED ledger
          BY <4>1, Still
        <4>2. CASE Complete \/ Fail
          BY <1>0, <4>2, EndEffects DEF Starts
        <4> QED
          BY <2>4, <3>1, <4>1, <4>2, LedgerEffects
      <3> QED
        BY <1>0, <1>10, <3>1, <3>3, <3>4, <3>5 DEF Offered
    <2> QED
      BY <2>1, <2>2, <2>3, <2>4
  <1> QED
    BY <1>6, <1>7, <1>8, <1>9, <1>10 DEF Offered

-----------------------------------------------------------------------------
(* Starts and ends are never taken back.                                   *)
LEMMA StartedKept ==
    ASSUME IInv, [Next]_vars
    PROVE  /\ \A a \in Actions : Started(a)' = Started(a) /\ IsManifest(a)' = IsManifest(a)
           /\ Starts \subseteq Starts' /\ \A i \in Starts : ledger'[i] = ledger[i]
           /\ Failed' = Failed \/ Fail
           /\ Completed' = Completed \/ Complete
           /\ Starts' = Starts \/ Execute \/ (BeginRefresh /\ Begin(RefreshFinding, 0))
  <1>0. Typed /\ Logged /\ OneAtATime
    BY DEF IInv
  <1>1. CASE UNCHANGED ledger
    BY <1>1, Still
  <1>2. CASE Execute
    <2>1. PICK f \in Finding, c \in Nat : Begin(f, c)
      BY <1>0, <1>2, ExecuteEffects
    <2>2. PICK n : n = Len(output) + 1
      OBVIOUS
    <2> QED
      BY <1>0, <1>2, <2>1, <2>2, Begun, BegunStarted, ExecuteEffects
  <1>3. CASE BeginRefresh /\ Begin(RefreshFinding, 0)
    <2>1. PICK f \in Finding, c \in Nat : Begin(f, c)
      BY <1>0, <1>3, BeginRefreshEffects
    <2>2. PICK n : n = Len(output) + 1
      OBVIOUS
    <2> QED
      BY <1>0, <1>3, <2>1, <2>2, Begun, BegunStarted, BeginRefreshEffects
  <1>4. CASE Complete
    BY <1>0, <1>4, EndEffects DEF Starts
  <1>5. CASE Fail
    BY <1>0, <1>5, EndEffects DEF Starts
  <1> QED
    BY <1>1, <1>2, <1>3, <1>4, <1>5, LedgerEffects

(* No option is started twice: a started one is of an earlier cycle once   *)
(* the run inspects again.                                                 *)
LEMMA TriedStep == IInv /\ [Next]_vars => Tried'
  <1> SUFFICES ASSUME IInv, [Next]_vars
               PROVE  Tried'
    OBVIOUS
  <1>0. /\ Typed /\ Typed' /\ Placed /\ Phased /\ Coherent /\ Logged /\ Logged'
        /\ OneAtATime /\ Asked /\ Requested /\ Offered /\ Tried
        /\ snap \in Snapshot /\ run \in RunRecord
    BY TypedStep, ActionsStep DEF IInv, Typed
  <1>1. \/ UNCHANGED <<Starts>> /\ \A i \in Starts : ledger'[i] = ledger[i]
        \/ /\ snap.status = "REMEDIATING" /\ UNCHANGED <<snap, run>>
           /\ \E i, f : /\ Starts' = Starts \cup {i} /\ ledger'[i].finding = f
                        /\ \A j \in Starts : ledger'[j] = ledger[j]
                        /\ f[2] = snap.cycle
                        /\ f[1] # "refresh" => f \in run.offers /\ \A j \in Starts : ledger[j].finding # f
    <2>1. CASE Execute
      <3>1. At("execute") /\ call.phase \in {"tier1", "tier2"} /\ snap.status = "REMEDIATING"
        BY <1>0, <2>1, ExecuteEffects DEF Phased, Placed, Remedying, At
      <3>2. /\ \A f \in call.todo : f \in run.offers \cap Option /\ f[2] = snap.cycle
            /\ \A i \in Starts : ledger[i].finding \notin call.todo
        BY <1>0, <3>1 DEF Offered, At
      <3>3. PICK f, i :
              /\ f \in Finding /\ f \in call.todo
              /\ Starts' = Starts \cup {i} /\ ledger'[i].finding = f
              /\ \A j \in Starts : ledger'[j] = ledger[j]
        BY <1>0, <2>1, ExecuteEffects
      <3>4. UNCHANGED <<snap, run>>
        BY <1>0, <2>1, ExecuteEffects
      <3> QED
        BY <3>1, <3>2, <3>3, <3>4
    <2>2. CASE BeginRefresh /\ Begin(RefreshFinding, 0)
      <3>1. At("authorize_refresh") /\ snap.status = "REMEDIATING" /\ UNCHANGED <<snap, run>>
        BY <1>0, <2>2, BeginRefreshEffects DEF Placed, Remedying, At
      <3>2. PICK i : /\ Starts' = Starts \cup {i} /\ ledger'[i].finding = RefreshFinding
                     /\ \A j \in Starts : ledger'[j] = ledger[j]
        BY <1>0, <2>2, BeginRefreshEffects
      <3>3. RefreshFinding[1] = "refresh" /\ RefreshFinding[2] = snap.cycle
        BY DEF RefreshFinding
      <3> QED
        BY <3>1, <3>2, <3>3
    <2> QED
      BY <2>1, <2>2, StartedKept
  <1>2. \A i \in Starts : ledger[i].finding \in Finding /\ ledger[i].finding[2] \in Nat
    BY <1>0, EventFacts, OrchestratorAssumption DEF StartEvent, Finding, Cycle
  <1>3. snap.cycle \in Nat
    BY <1>0, OrchestratorAssumption DEF Snapshot, Cycle
  <1>4. \/ snap'.cycle = snap.cycle
        \/ Reinspect /\ snap'.cycle = snap.cycle + 1 /\ UNCHANGED <<ledger, output>> /\ Unfinished = {}
    <2>1. Reinspect => UNCHANGED <<ledger, output>> /\ Unfinished = {}
      BY <1>0 DEF Reinspect, OneAtATime, Remedying, Doing, At
    <2> QED
      BY <1>0, <2>1, SnapEffects
  <1>5. snap'.status \notin {"REMEDIATING"} \cup Terminal => 
           snap.status \notin {"REMEDIATING"} \cup Terminal \/ snap'.cycle = snap.cycle + 1
    <2>1. Prepare => snap.status \in DOMAIN Successor
      BY <1>0 DEF Prepare, Placed
    <2>2. FindingsReady \/ Pause => snap.status \in {"INSPECTING", "FINDINGS_READY"}
      BY <1>0 DEF FindingsReady, Pause, Placed, At, Judging
    <2>3. {"DELIVERY_READY", "BLOCKED", "FAILED"} = Terminal
      BY DEF Terminal, Lifecycle!Terminal
    <2> QED
      BY <1>0, <2>1, <2>2, <2>3, SnapEffects, StatusesApart
  <1>6. ASSUME NEW i \in Starts
        PROVE  /\ ledger[i].finding[1] # "refresh" => ledger[i].finding \in run'.offers
               /\ ledger[i].finding[2] =< snap'.cycle
               /\ snap'.status \notin {"REMEDIATING"} \cup Terminal => ledger[i].finding[2] < snap'.cycle
    <2>1. ASSUME ledger[i].finding[1] # "refresh"
          PROVE  ledger[i].finding \in run'.offers
      <3>1. ledger[i].finding \in run.offers
        BY <1>0, <2>1 DEF Tried
      <3>2. CASE Exhaust \/ NoAction
        <4>1. snap.status = "FINDINGS_READY"
          BY <1>0, <3>2 DEF Exhaust, NoAction, Diagnosing, Placed, At, Judging
        <4>2. ledger[i].finding[2] < snap.cycle
          BY <1>0, <4>1 DEF Tried, Terminal, Lifecycle!Terminal
        <4>3. ~Open(ledger[i].finding)
          BY <1>0, <1>2, <1>3, <4>1, <4>2 DEF Offered
        <4> QED
          BY <1>0, <3>1, <3>2, <4>3, FindingEffects DEF Inspect, RecordDenial, RefreshManifest, Refreshed,
             Exhaust, NoAction, Diagnosing, At
      <3>3. CASE RecordDenial
        <4>1. snap.status = "AWAITING_HUMAN_DECISION"
          BY <1>0, <3>3 DEF RecordDenial, Placed, At, Answering
        <4>2. ledger[i].finding[2] < snap.cycle
          BY <1>0, <4>1 DEF Tried, Terminal, Lifecycle!Terminal
        <4>3. snap.pending[2] = snap.cycle
          BY <1>0, <4>1 DEF Requested
        <4>4. ledger[i].finding # snap.pending
          BY <1>2, <1>3, <4>2, <4>3
        <4> QED
          BY <1>0, <3>1, <3>3, <4>4, FindingEffects DEF Inspect, RecordDenial, RefreshManifest, Refreshed,
             Exhaust, NoAction, Diagnosing, At
      <3>4. CASE ~Exhaust /\ ~NoAction /\ ~RecordDenial
        <4>1. RefreshFinding[1] = "refresh"
          BY DEF RefreshFinding
        <4> QED
          BY <1>0, <2>1, <3>1, <3>4, <4>1, FindingEffects, InspectEffects
      <3> QED
        BY <3>2, <3>3, <3>4
    <2>2. ledger[i].finding[2] =< snap.cycle
          /\ (snap.status \notin {"REMEDIATING"} \cup Terminal => ledger[i].finding[2] < snap.cycle)
      BY <1>0 DEF Tried
    <2> QED
      BY <1>2, <1>3, <1>4, <1>5, <2>1, <2>2
  <1>7. ASSUME NEW i \in Starts, ledger[i].act \in Unfinished'
        PROVE  ledger[i].finding[2] = snap'.cycle
    <2>1. ledger[i].act \in Actions
      BY <1>0 DEF Logged, Starts
    <2>2. ledger[i].act \in Unfinished
      <3>1. Failed \subseteq Failed' /\ Completed \subseteq Completed'
        BY <1>0, StartedKept, EndEffects
      <3> QED
        BY <1>7, <2>1, <3>1 DEF Unfinished
    <2> QED
      BY <1>0, <1>4, <2>2 DEF Tried
  <1>8. CASE Starts' = Starts /\ \A i \in Starts : ledger'[i] = ledger[i]
    BY <1>0, <1>6, <1>7, <1>8 DEF Tried
  <1>9. CASE /\ snap.status = "REMEDIATING" /\ UNCHANGED <<snap, run>>
             /\ \E i, f : /\ Starts' = Starts \cup {i} /\ ledger'[i].finding = f
                          /\ \A j \in Starts : ledger'[j] = ledger[j]
                          /\ f[2] = snap.cycle
                          /\ f[1] # "refresh" => f \in run.offers /\ \A j \in Starts : ledger[j].finding # f
    <2>1. PICK i, f : /\ Starts' = Starts \cup {i} /\ ledger'[i].finding = f
                      /\ \A j \in Starts : ledger'[j] = ledger[j]
                      /\ f[2] = snap.cycle
                      /\ f[1] # "refresh" => f \in run.offers /\ \A j \in Starts : ledger[j].finding # f
      BY <1>9
    <2>2. \A j \in Starts' : ledger'[j].finding[1] # "refresh" => ledger'[j].finding \in run'.offers
      BY <1>6, <1>9, <2>1
    <2>3. \A j \in Starts' :
             /\ ledger'[j].finding[2] =< snap'.cycle
             /\ snap'.status \notin {"REMEDIATING"} \cup Terminal => ledger'[j].finding[2] < snap'.cycle
             /\ ledger'[j].act \in Unfinished' => ledger'[j].finding[2] = snap'.cycle
      BY <1>3, <1>6, <1>7, <1>9, <2>1
    <2>4. \A j, k \in Starts' :
             ledger'[j].finding = ledger'[k].finding /\ ledger'[j].finding[1] # "refresh" => j = k
      BY <1>0, <2>1 DEF Tried
    <2> QED
      BY <2>2, <2>3, <2>4 DEF Tried
  <1> QED
    BY <1>1, <1>8, <1>9

-----------------------------------------------------------------------------
(* A set of fewer than two elements has at most one.                       *)
LEMMA AtMostOne ==
    ASSUME NEW S, IsFiniteSet(S), Cardinality(S) < 2, NEW a \in S, NEW b \in S
    PROVE  a = b
  <1> SUFFICES ASSUME a # b
               PROVE  FALSE
    OBVIOUS
  <1>0. IsFiniteSet(S \ {a}) /\ Cardinality(S \ {a}) = Cardinality(S) - 1
    BY FS_RemoveElement
  <1>1. /\ IsFiniteSet(S \ {a}) /\ Cardinality(S) = Cardinality(S \ {a}) + 1
        /\ Cardinality(S \ {a}) \in Nat
    BY <1>0, FS_CardinalityType
  <1>2. S \ {a} # {}
    OBVIOUS
  <1>3. Cardinality(S \ {a}) # 0
    BY <1>1, <1>2, FS_EmptySet
  <1> QED
    BY <1>1, <1>3

(* A set without three different elements has at most two.                 *)
LEMMA AtMostTwo ==
    ASSUME NEW S, IsFiniteSet(S), \A a, b, c \in S : a = b \/ a = c \/ b = c
    PROVE  Cardinality(S) =< 2
  <1>1. CASE S = {}
    BY <1>1, FS_EmptySet
  <1>2. ASSUME NEW a \in S
        PROVE  Cardinality(S) =< 2
    <2>0. IsFiniteSet(S \ {a}) /\ Cardinality(S \ {a}) = Cardinality(S) - 1
      BY FS_RemoveElement
    <2>1. IsFiniteSet(S \ {a}) /\ Cardinality(S) = Cardinality(S \ {a}) + 1
      BY <2>0, FS_CardinalityType
    <2>2. CASE S \ {a} = {}
      BY <2>1, <2>2, FS_EmptySet
    <2>3. ASSUME NEW b \in S \ {a}
          PROVE  Cardinality(S) =< 2
      <3>0. PICK T : T = S \ {a}
        OBVIOUS
      <3>1. Cardinality(T \ {b}) = Cardinality(T) - 1 /\ Cardinality(T) \in Nat
        BY <2>1, <2>3, <3>0, FS_RemoveElement, FS_CardinalityType
      <3>2. T \ {b} = {}
        BY <3>0
      <3> QED
        <4>1. Cardinality(T \ {b}) = 0
          BY <3>2, FS_EmptySet
        <4>2. Cardinality(T) = 1
          BY <3>1, <4>1
        <4> QED
          BY <2>1, <3>0, <4>2
    <2> QED
      BY <2>2, <2>3
  <1> QED
    BY <1>1, <1>2

(* The findings of started actions.                                        *)
LEMMA AttemptFacts ==
    ASSUME Typed, Logged, Tried
    PROVE  /\ \A a \in Actions : /\ Started(a).finding \in Finding /\ Started(a).finding[2] =< snap.cycle
                                 /\ Started(a).finding[1] # "refresh" => Started(a).finding \in run.offers
                                 /\ a \in Unfinished => Started(a).finding[2] = snap.cycle
           /\ \A a, b \in Actions :
                 Started(a).finding = Started(b).finding /\ Started(a).finding[1] # "refresh" => a = b
           /\ \A q : FailedOn(q) \subseteq Failed /\ Failed \subseteq Actions
           /\ snap.cycle \in Nat /\ \A f \in Finding : f[2] \in Nat
  <1>1. \A a \in Actions : \E i \in Starts : ledger[i].act = a /\ Started(a) = ledger[i]
    BY StartedIs
  <1>2. \A i \in Starts : ledger[i] \in StartEvent
    BY EventFacts
  <1>3. \A i \in Starts : ledger[i].finding \in Finding
    BY <1>2 DEF StartEvent
  <1>4. snap.cycle \in Nat /\ \A f \in Finding : f[2] \in Nat
    BY OrchestratorAssumption DEF Typed, Snapshot, Cycle, Finding
  <1>5. \A q : FailedOn(q) \subseteq Failed /\ Failed \subseteq Actions
    BY EventFacts DEF FailedOn
  <1>6. \A a \in Actions : /\ Started(a).finding \in Finding /\ Started(a).finding[2] =< snap.cycle
                           /\ Started(a).finding[1] # "refresh" => Started(a).finding \in run.offers
                           /\ a \in Unfinished => Started(a).finding[2] = snap.cycle
    BY <1>1, <1>3 DEF Tried
  <1>7. ASSUME NEW a \in Actions, NEW b \in Actions,
               Started(a).finding = Started(b).finding, Started(a).finding[1] # "refresh"
        PROVE  a = b
    BY <1>1, <1>7 DEF Tried
  <1> QED
    BY <1>4, <1>5, <1>6, <1>7

(* A requirement that failed twice is not offered again, so it never fails *)
(* a third time.                                                           *)
LEMMA TwoAttemptsStep == IInv /\ [Next]_vars => TwoAttempts'
  <1> SUFFICES ASSUME IInv, [Next]_vars
               PROVE  TwoAttempts'
    OBVIOUS
  <1>0. /\ Typed /\ Typed' /\ Placed /\ Logged /\ Logged' /\ OneAtATime /\ Offered /\ Offered'
        /\ Tried /\ TwoAttempts /\ snap \in Snapshot /\ run.offers \subseteq Finding
    BY TypedStep, ActionsStep, OfferedStep DEF IInv, Typed, RunRecord
  <1>1. ASSUME Failed' = Failed, NEW q
        PROVE  FailedOn(q)' = FailedOn(q) /\ (snap'.cycle = snap.cycle => FailedBefore(q)' = FailedBefore(q))
    BY <1>0, <1>1, StartedKept, EventFacts DEF FailedOn, FailedBefore
  <1>2. CASE Failed' = Failed
    <2>1. \A q \in Req : \A a, b, c \in FailedOn(q)' : a = b \/ a = c \/ b = c
      BY <1>0, <1>1, <1>2 DEF TwoAttempts
    <2>2. ASSUME NEW f \in run'.offers, f[1] # "refresh", f[2] = snap'.cycle
          PROVE  \A a, b \in FailedBefore(f[1])' : a = b
      <3>1. CASE Reinspect
        <4>1. snap'.cycle = snap.cycle + 1 /\ UNCHANGED run
          BY <1>0, <3>1, ReinspectEffects DEF Reinspect
        <4>2. f[2] =< snap.cycle /\ snap.cycle \in Nat /\ f[2] \in Nat
          BY <1>0, <4>1, AttemptFacts DEF Offered
        <4> QED
          BY <2>2, <4>1, <4>2
      <3>2. CASE ~Reinspect
        <4>1. snap'.cycle = snap.cycle
          BY <1>0, <3>2, SnapEffects
        <4>2. FailedBefore(f[1])' = FailedBefore(f[1])
          BY <1>1, <1>2, <4>1
        <4>3. CASE f \in run.offers
          BY <1>0, <2>2, <4>1, <4>2, <4>3 DEF TwoAttempts
        <4>4. CASE f \notin run.offers
          <5>1. Inspect
            BY <1>0, <2>2, <4>4, FindingEffects DEF RefreshFinding
          <5>2. f \in Option /\ FailureCount(f[1]) < 2
            BY <1>0, <4>4, <5>1, InspectEffects
          <5>3. PICK S : S = {a \in Failed :
                       LET g == Started(a).finding IN g \in run.offers /\ ReqOf(g) = f[1]}
            OBVIOUS
          <5>4. IsFiniteSet(S) /\ Cardinality(S) < 2
            <6>1. S \subseteq Failed /\ IsFiniteSet(Failed)
              BY <1>0, <5>3, EventFacts
            <6> QED
              BY <5>2, <5>3, <6>1, FS_Subset DEF FailureCount
          <5>5. FailedBefore(f[1]) \subseteq S
            <6>1. ASSUME NEW a \in FailedBefore(f[1])
                  PROVE  a \in S
              <7>1. a \in Failed /\ a \in Actions /\ Started(a).finding[1] = f[1]
                BY <1>0, AttemptFacts DEF FailedBefore, FailedOn
              <7>2. Started(a).finding \in run.offers
                BY <1>0, <2>2, <7>1, AttemptFacts
              <7>3. ReqOf(Started(a).finding) = f[1]
                BY <2>2, <7>1 DEF ReqOf
              <7> QED
                BY <5>3, <7>1, <7>2, <7>3
            <6> QED
              BY <6>1
          <5>6. \A a, b \in S : a = b
            BY <5>4, AtMostOne
          <5> QED
            BY <4>2, <5>5, <5>6
        <4> QED
          BY <4>3, <4>4
      <3> QED
        BY <3>1, <3>2
    <2> QED
      BY <2>1, <2>2 DEF TwoAttempts
  <1>3. CASE Fail
    <2>1. PICK act : act = call.act
      OBVIOUS
    <2>2. /\ UNCHANGED <<snap, run>> /\ act \in Unfinished
          /\ Failed' = Failed \cup {act} /\ \A b : Started(b)' = Started(b)
      BY <1>0, <1>3, <2>1, EndEffects
    <2>3. PICK f : f = Started(act).finding
      OBVIOUS
    <2>4. /\ act \in Actions /\ act \notin Failed /\ f[2] = snap.cycle /\ f \in Finding
          /\ f[1] # "refresh" => f \in run.offers
      BY <1>0, <2>2, <2>3, AttemptFacts DEF Unfinished
    <2>5. ASSUME NEW q
          PROVE  FailedBefore(q)' = FailedBefore(q)
      <3>1. ~(f[2] < snap.cycle)
        BY <1>0, <2>4, AttemptFacts
      <3> QED
        BY <2>2, <2>3, <3>1 DEF FailedBefore, FailedOn
    <2>6. \A g \in run'.offers : g[1] # "refresh" /\ g[2] = snap'.cycle =>
             \A a, b \in FailedBefore(g[1])' : a = b
      BY <1>0, <2>2, <2>5 DEF TwoAttempts
    <2>7. ASSUME NEW q \in Req
          PROVE  \A a, b, c \in FailedOn(q)' : a = b \/ a = c \/ b = c
      <3>1. CASE f[1] # q
        <4>1. FailedOn(q)' = FailedOn(q)
          BY <2>2, <2>3, <3>1 DEF FailedOn
        <4> QED
          BY <1>0, <4>1 DEF TwoAttempts
      <3>2. CASE f[1] = q
        <4>1. q # "refresh"
          BY OrchestratorAssumption
        <4>2. \A a, b \in FailedBefore(q) : a = b
          BY <1>0, <2>4, <3>2, <4>1 DEF TwoAttempts
        <4>3. FailedOn(q) \subseteq FailedBefore(q)
          <5>1. ASSUME NEW a \in FailedOn(q)
                PROVE  Started(a).finding[2] < snap.cycle
            <6>1. a \in Actions /\ a \in Failed /\ Started(a).finding \in Finding /\ Started(a).finding[1] = q
                  /\ Started(a).finding[2] =< snap.cycle
              BY <1>0, AttemptFacts DEF FailedOn
            <6>2. Started(a).finding # f
              BY <1>0, <2>3, <2>4, <4>1, <6>1, AttemptFacts
            <6>3. Started(a).finding[2] # f[2]
              BY <2>4, <3>2, <6>1, <6>2 DEF Finding
            <6> QED
              BY <1>0, <2>4, <6>1, <6>3, AttemptFacts
          <5> QED
            BY <5>1 DEF FailedBefore
        <4>4. FailedOn(q)' \subseteq FailedOn(q) \cup {act}
          BY <2>2 DEF FailedOn
        <4> QED
          BY <4>2, <4>3, <4>4
      <3> QED
        BY <3>1, <3>2
    <2> QED
      BY <2>6, <2>7 DEF TwoAttempts
  <1> QED
    BY <1>2, <1>3, StartedKept

-----------------------------------------------------------------------------
(* Outside a remediation neither ledger, files nor assets change.          *)
LEMMA Frozen ==
    ASSUME IInv, [Next]_vars, snap.status # "REMEDIATING"
    PROVE  UNCHANGED <<ledger, output>> /\ run'.assets = run.assets
  <1>0. Typed /\ Placed /\ OneAtATime
    BY DEF IInv
  <1>1. call.at \notin Remedying
    BY <1>0 DEF Placed
  <1>2. UNCHANGED ledger
    BY <1>1, LedgerEffects DEF Execute, Complete, Fail, At, Remedying, Doing
  <1>3. run'.assets = run.assets
    BY <1>0, <1>1, RunEffects DEF Persist, At, Remedying, Doing
  <1>4. Crash => UNCHANGED output
    <2>1. SUFFICES ASSUME Crash
                   PROVE  UNCHANGED output
      OBVIOUS
    <2>2. Unfinished = {}
      BY <1>0 DEF OneAtATime
    <2>3. output' = [a \in Actions |-> output[a]]
      BY <2>1, <2>2 DEF Crash
    <2>4. output = [a \in Actions |-> output[a]]
      BY <1>0 DEF Typed, Actions
    <2> QED
      BY <2>3, <2>4
  <1>5. UNCHANGED output
    BY <1>1, <1>4, OutputEffects DEF Execute, Write, Promote, Abort, Recover, At, Remedying, Doing
  <1> QED
    BY <1>2, <1>3, <1>5

(* An ended run stays as it ended.                                         *)
LEMMA EndedStays ==
    ASSUME IInv, [Next]_vars, snap.status \in Terminal
    PROVE  snap'.status = snap.status /\ snap'.verdict = snap.verdict /\ snap'.cycle = snap.cycle
  <1>0. Typed /\ Placed
    BY DEF IInv
  <1>1. snap.status \notin {"INSPECTING", "FINDINGS_READY", "AWAITING_HUMAN_DECISION", "REMEDIATING"}
        /\ snap.status \notin DOMAIN Successor
    BY StatusesApart
  <1>2. /\ call.at \notin Judging /\ call.at \notin Answering /\ call.at \notin Remedying
        /\ call.at \notin {"prepare", "inspect", "ready"}
    BY <1>0, <1>1 DEF Placed, At
  <1>3. /\ ~Prepare /\ ~FindingsReady /\ ~ApplyTierOne /\ ~FailRun /\ ~Conclude
        /\ ~ConcludeGivenUp /\ ~Pause /\ ~Block /\ ~Resume /\ ~Reinspect
    BY <1>2 DEF Prepare, FindingsReady, ApplyTierOne, FailRun, Conclude, ConcludeGivenUp, Pause, Block,
       Resume,
       Reinspect, Diagnosing, At, Judging, Answering, Remedying
  <1> QED
    BY <1>0, <1>3, SnapEffects

(* The counts follow the ledger alone.                                     *)
LEMMA CountsKept ==
    ASSUME UNCHANGED ledger
    PROVE  LedgerCounts' = LedgerCounts
  <1>1. PICK S : S = {a \in Completed : Started(a).auth = None}
    OBVIOUS
  <1>2. PICK T : T = {a \in Completed : Started(a).auth # None}
    OBVIOUS
  <1>3. Completed' = Completed /\ \A a : Started(a)' = Started(a)
    BY Still
  <1>4. {a \in Completed : Started(a).auth = None}' = S /\ {a \in Completed : Started(a).auth # None}' = T
    BY <1>1, <1>2, <1>3
  <1> QED
    BY <1>1, <1>2, <1>4 DEF LedgerCounts

(* What the manifest's checks look at stays while ledger, files and assets *)
(* do.                                                                     *)
LEMMA MatchKept ==
    ASSUME UNCHANGED <<ledger, output>>, run'.assets = run.assets
    PROVE  /\ ChecksumsMatch' = ChecksumsMatch /\ ManifestPresent' = ManifestPresent
           /\ Package' = Package /\ Manifests' = Manifests /\ CurrentManifest' = CurrentManifest
  <1>1. Package' = Package /\ Manifests' = Manifests
    BY Still DEF Package, Manifests
  <1>2. CurrentManifest' = CurrentManifest
    BY <1>1 DEF CurrentManifest
  <1> QED
    BY <1>1, <1>2, StillOutput DEF ChecksumsMatch, ManifestPresent

(* From an inspection to the verdict the package is what was inspected.    *)
LEMMA InspectedStep == IInv /\ [Next]_vars => Inspected'
  <1> SUFFICES ASSUME IInv, [Next]_vars
               PROVE  Inspected'
    OBVIOUS
  <1>0. /\ Typed /\ Typed' /\ Placed /\ Placed' /\ Coherent /\ Requested /\ Offered /\ Inspected
        /\ snap \in Snapshot /\ run \in RunRecord
    BY TypedStep, ControlStep DEF IInv, Typed
  <1> DEFINE Sound == /\ inspected = run.assets
                      /\ Checksums # None => (Checksums \in run.passed <=> ChecksumsMatch)
  <1>1. ASSUME At("ready")' \/ Judged'
        PROVE  Sound'
    <2>1. CASE Inspect
      <3>1. UNCHANGED <<ledger, output>> /\ run'.assets = run.assets
        BY <1>0, <2>1, RunEffects DEF Inspect, Persist, At
      <3> QED
        BY <1>0, <2>1, <3>1, InspectEffects, MatchKept
    <2>2. CASE ~Inspect
      <3>1. At("ready") \/ Judged
        <4>1. At("ready")' => At("ready")
          BY <1>0, <2>2, Arrivals DEF Moved, At, Continuation
        <4>2. Judged' => At("ready") \/ Judged
          <5>1. Prepare => snap.status \in DOMAIN Successor
            BY <1>0 DEF Prepare, Placed
          <5>2. FindingsReady => At("ready")
            BY DEF FindingsReady
          <5>3. Conclude \/ ConcludeGivenUp \/ Pause => snap.status = "FINDINGS_READY"
            BY <1>0 DEF Conclude, ConcludeGivenUp, Pause, Placed, At, Judging
          <5>4. "DELIVERY_READY" \in Terminal
            BY DEF Terminal, Lifecycle!Terminal
          <5> QED
            BY <1>0, <5>1, <5>2, <5>3, <5>4, SnapEffects, StatusesApart DEF Judged
        <4> QED
          BY <1>1, <4>1, <4>2
      <3>2. snap.status # "REMEDIATING"
        BY <1>0, <3>1 DEF Judged, Placed, At
      <3>3. UNCHANGED <<ledger, output>> /\ run'.assets = run.assets
        BY <3>2, Frozen
      <3>4. run'.passed = run.passed /\ inspected' = inspected
        <4>1. run'.passed = run.passed
          BY <1>0, <2>2, RunEffects
        <4>2. UNCHANGED inspected
          BY <2>2 DEF Next, Advance, AdvanceTerminal, AdvanceRemediating, AdvanceReady, Select, ApplyTierOne,
             Escalate, NoAction, Raises, Work, Prepare, FindingsReady, OfferOptions, Conclude, Exhaust,
             ConcludeGivenUp, RecordRequest, Pause, WriteEvidence, RecordEvidence, RecordDenial, Block,
             WithdrawOptions, ApproveRequest, RecordApproval, Resume, Execute, Executed, Write, Promote,
             Persist,
             Complete, Abort, Void, Fail, Recover, RecoveryDone, FailRun, RefreshManifest, BeginRefresh,
             Refreshed,
             Finish, Reinspect, Deny, Approve, Crash, Tamper, vars
        <4> QED
          BY <4>1, <4>2
      <3> QED
        BY <1>0, <3>1, <3>3, <3>4, MatchKept DEF Inspected
    <2> QED
      BY <2>1, <2>2
  <1>2. ASSUME snap'.status = "DELIVERY_READY"
        PROVE  SpecResolved /\ Blocking \subseteq run'.passed
    <2>1. CASE snap.status = "DELIVERY_READY"
      <3>1. ~Inspect
        BY <1>0, <2>1 DEF Inspect, Placed, At
      <3> QED
        BY <1>0, <2>1, <3>1, RunEffects DEF Inspected
    <2>2. CASE snap.status # "DELIVERY_READY"
      <3>1. Prepare => snap.status \in DOMAIN Successor
        BY <1>0 DEF Prepare, Placed
      <3>2. "DELIVERY_READY" \in Terminal
        BY DEF Terminal, Lifecycle!Terminal
      <3>3. (Conclude \/ ConcludeGivenUp) /\ Verdict = "DELIVERY_READY"
        BY <1>0, <1>2, <2>2, <3>1, <3>2, SnapEffects, StatusesApart
      <3>4. UNCHANGED run
        BY <3>3 DEF Conclude, ConcludeGivenUp
      <3> QED
        BY <3>3, <3>4, NoneFacts DEF Verdict
    <2> QED
      BY <2>1, <2>2
  <1>3. ASSUME At("exhausted")'
        PROVE  /\ ~(Blocking \subseteq run'.passed)
               /\ \A f \in Finding : ~Open(f)'
               /\ snap'.cycle >= MaxCycles
    <2>1. CASE Exhaust
      <3>1. /\ At("decide") /\ Verdict = None /\ snap.cycle >= MaxCycles /\ UNCHANGED snap
            /\ run' = GivenUp({f \in Finding : Open(f)})
        BY <2>1 DEF Exhaust
      <3>2. run'.passed = run.passed
        BY <1>0, <3>1, RecordEffects
      <3>3. snap.status = "FINDINGS_READY" /\ snap.cycle \in Nat /\ MaxCycles \in Nat
        BY <1>0, <3>1, OrchestratorAssumption DEF Placed, Judging, Snapshot, Cycle, At
      <3>4. ~Pending
        BY <1>0, <3>1, <3>3 DEF Requested, Pending
      <3>5. \E f \in run.offers : ReqOf(f) \in Blocking \ run.passed
        BY <3>1, <3>4, NoneFacts DEF Verdict
      <3>6. \A f \in Finding : ~Open(f)'
        <4>1. PICK fs : fs = {f \in Finding : Open(f)}
          OBVIOUS
        <4>2. run'.findings = [f \in Finding |-> IF f \in fs THEN "UNRESOLVED" ELSE run.findings[f]]
          BY <1>0, <3>1, <4>1, RecordEffects
        <4> QED
          BY <4>1, <4>2 DEF Open
      <3> QED
        BY <3>1, <3>2, <3>5, <3>6
    <2>2. CASE ~Exhaust
      <3>1. At("exhausted")
        BY <1>0, <1>3, <2>2, Arrivals DEF Moved, At, Continuation
      <3>2. run'.passed = run.passed /\ run'.findings = run.findings
        BY <1>0, <3>1, RunEffects DEF Inspect, Exhaust, NoAction, RecordDenial, RefreshManifest, Refreshed,
           Diagnosing, At
      <3>3. snap'.cycle = snap.cycle
        BY <1>0, <3>1, SnapEffects DEF Reinspect, At
      <3> QED
        BY <1>0, <3>1, <3>2, <3>3 DEF Inspected, Open
    <2> QED
      BY <2>1, <2>2
  <1> QED
    BY <1>1, <1>2, <1>3 DEF Inspected

(* The counts are reconciled before every verdict.                         *)
LEMMA CountedStep == IInv /\ [Next]_vars => Counted'
  <1> SUFFICES ASSUME IInv, [Next]_vars, snap'.verdict # None \/ call'.at \in {"decide", "exhausted", "unactionable"}
               PROVE  run'.counts = LedgerCounts'
    BY DEF Counted
  <1>0. Typed /\ Placed /\ Coherent /\ Counted /\ run \in RunRecord
    BY DEF IInv, Typed
  <1>1. CASE AdvanceTerminal \/ AdvanceReady \/ Finish
    <2>1. run' = Reconciled /\ UNCHANGED ledger
      BY <1>1 DEF AdvanceTerminal, AdvanceReady, Finish
    <2> QED
      BY <1>0, <2>1, RecordEffects, CountsKept
  <1>2. CASE ~(AdvanceTerminal \/ AdvanceReady \/ Finish)
    <2>1. snap.verdict # None \/ call.at \in {"decide", "exhausted", "unactionable"}
      <3>1. Conclude \/ ConcludeGivenUp \/ Exhaust \/ NoAction => call.at \in {"decide", "exhausted", "unactionable"}
        BY DEF Conclude, ConcludeGivenUp, Exhaust, NoAction, Diagnosing, At
      <3>2. snap'.verdict # snap.verdict => Conclude \/ ConcludeGivenUp
        BY <1>0, SnapEffects
      <3>3. call'.at \in {"decide", "exhausted", "unactionable"} =>
               call'.at = call.at \/ Exhaust \/ NoAction
        BY <1>0, <1>2, Arrivals DEF Moved, Continuation
      <3> QED
        BY <3>1, <3>2, <3>3
    <2>2. snap.status # "REMEDIATING"
      BY <1>0, <2>1, StatusesApart DEF Coherent, Placed, Judging
    <2>3. UNCHANGED ledger
      BY <2>2, Frozen
    <2> QED
      BY <1>0, <1>2, <2>1, <2>3, RunEffects, CountsKept DEF Counted
  <1> QED
    BY <1>1, <1>2

(* Evidence is written after the run has ended, and what it reports stays. *)
LEMMA ReportedStep == IInv /\ [Next]_vars => Reported'
  <1> SUFFICES ASSUME IInv, [Next]_vars
               PROVE  Reported'
    OBVIOUS
  <1>0. Typed /\ Placed /\ Reported
    BY DEF IInv
  <1>1. WriteEvidence \/ RecordEvidence => snap.status \in Terminal
    BY <1>0 DEF WriteEvidence, RecordEvidence, Placed, At
  <1>2. ASSUME NEW e, e # None => snap.status \in Terminal, Final(e)
        PROVE  Final(e)'
    <2>1. CASE e = None
      BY <2>1 DEF Final
    <2>2. CASE e # None
      <3>1. snap.status \in Terminal
        BY <1>2, <2>2
      <3>2. UNCHANGED ledger /\ run'.assets = run.assets
        BY <3>1, Frozen, StatusesApart
      <3>3. snap'.status = snap.status /\ snap'.verdict = snap.verdict
        BY <3>1, EndedStays
      <3>4. Completed' = Completed
        BY <3>2, Still
      <3> QED
        BY <1>2, <3>2, <3>3, <3>4 DEF Final
    <2> QED
      BY <2>1, <2>2
  <1>3. \A e : Final(e) => (e # None => snap.status \in Terminal)
    BY DEF Final
  <1>4. CASE WriteEvidence
    <2>1. /\ evidence' = [status |-> snap.status, verdict |-> snap.verdict, completed |-> Completed,
                          assets |-> run.assets, intact |-> originals]
          /\ UNCHANGED <<snap, run, ledger>>
      BY <1>4 DEF WriteEvidence
    <2>2. snap.status \in Terminal /\ Completed' = Completed
      BY <1>1, <1>4, <2>1, Still
    <2>3. Final(evidence)'
      BY <2>1, <2>2 DEF Final
    <2> QED
      BY <1>0, <2>1, <2>2, <2>3 DEF Final, Reported
  <1>5. CASE RecordEvidence
    <2>1. PICK e : e = evidence
      OBVIOUS
    <2>2. run'.evidence = e /\ evidence' = e
      BY <1>0, <1>5, <2>1 DEF RecordEvidence, Typed, RunRecord
    <2>3. Final(e)
      BY <1>0, <2>1 DEF Reported
    <2>4. Final(e)'
      BY <1>2, <1>3, <2>3
    <2> QED
      BY <2>2, <2>4 DEF Reported, Final
  <1>6. CASE ~WriteEvidence /\ ~RecordEvidence
    <2>1. PICK e : e = evidence
      OBVIOUS
    <2>2. PICK r : r = run.evidence
      OBVIOUS
    <2>3. evidence' = e
      BY <1>6, <2>1 DEF Next, Advance, AdvanceTerminal, AdvanceRemediating, AdvanceReady, Select,
         ApplyTierOne,
             Escalate, NoAction, Raises, Work, Prepare, Inspect, FindingsReady, OfferOptions,
             Conclude, Exhaust,
             ConcludeGivenUp, RecordRequest, Pause, RecordDenial, Block,
             WithdrawOptions, ApproveRequest, RecordApproval, Resume, Execute, Executed, Write, Promote,
             Persist,
             Complete, Abort, Void, Fail, Recover, RecoveryDone, FailRun, RefreshManifest, BeginRefresh,
             Refreshed,
             Finish, Reinspect, Deny, Approve, Crash, Tamper, vars
    <2>4. run'.evidence = r
      BY <1>0, <1>6, <2>2, RunEffects
    <2>5. Final(e) /\ Final(r)
      BY <1>0, <2>1, <2>2 DEF Reported
    <2>6. Final(e)' /\ Final(r)'
      BY <1>2, <1>3, <2>5
    <2> QED
      BY <2>3, <2>4, <2>6 DEF Reported, Final
  <1> QED
    BY <1>4, <1>5, <1>6

-----------------------------------------------------------------------------
(* CompletedAt finds the one completion event of an action.                *)
LEMMA CompletedIs ==
    /\ Typed /\ Logged => \A i \in DOMAIN ledger :
            ledger[i].type = "ACTION_COMPLETED" => CompletedAt(ledger[i].act) = i
    /\ (Typed /\ Logged)' => \A i \in DOMAIN ledger' :
            ledger'[i].type = "ACTION_COMPLETED" => CompletedAt(ledger[i].act)' = i
  <1>1. ASSUME Logged, NEW i \in DOMAIN ledger, ledger[i].type = "ACTION_COMPLETED"
        PROVE  CompletedAt(ledger[i].act) = i
    <2>1. \A j \in DOMAIN ledger :
             ledger[j].type = "ACTION_COMPLETED" /\ ledger[j].act = ledger[i].act => j = i
      BY <1>1 DEF Logged, Starts
    <2> QED
      BY <1>1, <2>1 DEF CompletedAt
  <1>2. ASSUME Logged', NEW i \in DOMAIN ledger', ledger'[i].type = "ACTION_COMPLETED"
        PROVE  CompletedAt(ledger[i].act)' = i
    <2>1. \A j \in DOMAIN ledger' :
             ledger'[j].type = "ACTION_COMPLETED" /\ ledger'[j].act = ledger'[i].act => j = i
      BY <1>2 DEF Logged, Starts
    <2> QED
      BY <1>2, <2>1 DEF CompletedAt
  <1> QED
    BY <1>1, <1>2

(* Completions keep their place; a new one comes last.                     *)
LEMMA CompletedKept ==
    ASSUME IInv, [Next]_vars
    PROVE  /\ \A a \in Completed : /\ CompletedAt(a)' = CompletedAt(a)
                                   /\ CompletedAt(a) \in Nat /\ CompletedAt(a) =< Len(ledger)
           /\ Complete => \A a : a = call.act => CompletedAt(a)' = Len(ledger) + 1
  <1>0. Typed /\ Logged /\ OneAtATime /\ Typed' /\ Logged'
    BY TypedStep, ActionsStep DEF IInv
  <1>1. DOMAIN ledger \subseteq DOMAIN ledger' /\ \A i \in DOMAIN ledger : ledger'[i] = ledger[i]
    <2>1. CASE UNCHANGED ledger
      BY <2>1
    <2>2. CASE Execute \/ (BeginRefresh /\ Begin(RefreshFinding, 0))
      <3>1. PICK f \in Finding, c \in Nat : Begin(f, c)
        BY <1>0, <2>2, ExecuteEffects, BeginRefreshEffects
      <3> QED
        BY <1>0, <3>1, Begun
    <2>3. CASE Complete \/ Fail
      BY <1>0, <2>3, EndEffects
    <2> QED
      BY <2>1, <2>2, <2>3, LedgerEffects
  <1>2. ASSUME NEW a \in Completed
        PROVE  CompletedAt(a)' = CompletedAt(a) /\ CompletedAt(a) \in Nat /\ CompletedAt(a) =< Len(ledger)
    <2>1. PICK i \in DOMAIN ledger : ledger[i].type = "ACTION_COMPLETED" /\ ledger[i].act = a
      BY DEF Completed, Ends
    <2>2. CompletedAt(a) = i
      BY <1>0, <2>1, CompletedIs
    <2>3. i \in DOMAIN ledger' /\ ledger'[i].type = "ACTION_COMPLETED" /\ ledger'[i].act = a
      BY <1>1, <2>1
    <2>4. CompletedAt(a)' = i
      BY <1>0, <2>3, CompletedIs
    <2>5. i \in Nat /\ i =< Len(ledger)
      BY <1>0 DEF Typed
    <2> QED
      BY <2>2, <2>4, <2>5
  <1>3. ASSUME Complete, NEW a, a = call.act
        PROVE  CompletedAt(a)' = Len(ledger) + 1
    <2>1. PICK i : /\ i = Len(ledger) + 1 /\ DOMAIN ledger' = DOMAIN ledger \cup {i}
                   /\ ledger'[i].act = call.act /\ ledger'[i].type = "ACTION_COMPLETED"
      BY <1>0, <1>3, EndEffects
    <2> QED
      BY <1>0, <1>3, <2>1, CompletedIs
  <1> QED
    BY <1>2, <1>3

(* The current manifest is the last.                                       *)
LEMMA CurrentIs ==
    /\ Covered /\ Manifests # {} =>
          /\ CurrentManifest \in Manifests /\ \A b \in Manifests : b =< CurrentManifest
    /\ Covered' /\ Manifests' # {} =>
          /\ CurrentManifest' \in Manifests' /\ \A b \in Manifests' : b =< CurrentManifest'
  BY DEF Covered, CurrentManifest

-----------------------------------------------------------------------------
(* Files of ended actions stay; only Write lists anything.                 *)
LEMMA OutputKept ==
    ASSUME IInv, [Next]_vars
    PROVE  /\ Actions \subseteq Actions'
           /\ \A a \in Actions \ Unfinished : output'[a] = output[a]
           /\ ~Write => \A a \in Unfinished :
                 /\ output'[a].covers = output[a].covers
                 /\ output'[a].file \in {"temp", "good", "damaged"} =>
                       output[a].file \in {"temp", "good", "damaged"}
           /\ \A a \in Actions' \ Actions : output'[a].file = "none"
  <1>0. Typed /\ Logged /\ OneAtATime /\ Filed
    BY DEF IInv
  <1>1. CASE UNCHANGED output
    BY <1>1 DEF Actions, Unfinished
  <1>2. CASE Execute \/ (BeginRefresh /\ Begin(RefreshFinding, 0))
    <2>1. PICK f \in Finding, c \in Nat : Begin(f, c)
      BY <1>0, <1>2, ExecuteEffects, BeginRefreshEffects
    <2>2. PICK n : n = Len(output) + 1
      OBVIOUS
    <2>3. /\ Actions' = Actions \cup {n} /\ \A a \in Actions : output'[a] = output[a]
          /\ output'[n] = [file |-> "none", covers |-> {}]
      BY <1>0, <2>1, <2>2, Begun
    <2> QED
      BY <2>3 DEF Unfinished
  <1>3. CASE Write
    <2>1. At("write") /\ \E r : output' = [output EXCEPT ![call.act] = r]
      BY <1>3 DEF Write
    <2>2. call.act \in Unfinished
      BY <1>0, <2>1 DEF OneAtATime, Doing, At
    <2> QED
      BY <1>3, <2>1, <2>2 DEF Actions
  <1>4. CASE (Promote \/ Abort \/ Recover) /\ output' # output
    <2>0. \E b \in Unfinished : \E file :
             /\ output' = [output EXCEPT ![b].file = file]
             /\ file \in {"none", "quarantined"} \/ output[b].file \in {"temp", "good", "damaged"}
      <3>1. CASE Promote
        <4>1. At("promote") /\ output' = [output EXCEPT ![call.act].file = "good"]
          BY <3>1 DEF Promote
        <4> QED
          BY <1>0, <4>1 DEF OneAtATime, Filed, Doing, At
      <3>2. CASE Abort
        <4>1. call.at \in {"write", "promote", "persist"}
              /\ output' = [output EXCEPT ![call.act].file = IF At("persist") THEN "quarantined" ELSE "none"]
          BY <3>2 DEF Abort
        <4> QED
          BY <1>0, <4>1 DEF OneAtATime, Doing, At
      <3>3. CASE Recover
        <4>1. PICK b \in Unfinished :
                \/ UNCHANGED output
                \/ output' = [output EXCEPT ![b].file = "quarantined"]
                \/ output' = [output EXCEPT ![b].file = IF @ = "damaged" THEN "quarantined" ELSE "none"]
          BY <3>3 DEF Recover
        <4>2. PICK file : file = IF output[b].file = "damaged" THEN "quarantined" ELSE "none"
          OBVIOUS
        <4>3. output' = output \/ output' = [output EXCEPT ![b].file = "quarantined"]
              \/ output' = [output EXCEPT ![b].file = file]
          BY <1>0, <4>1, <4>2 DEF Typed, Unfinished, Actions, OutputRecord
        <4> QED
          BY <1>4, <4>2, <4>3
      <3> QED
        BY <1>4, <3>1, <3>2, <3>3
    <2>1. PICK b \in Unfinished : \E file :
             /\ output' = [output EXCEPT ![b].file = file]
             /\ file \in {"none", "quarantined"} \/ output[b].file \in {"temp", "good", "damaged"}
      BY <2>0
    <2>p. PICK file :
             /\ output' = [output EXCEPT ![b].file = file]
             /\ file \in {"none", "quarantined"} \/ output[b].file \in {"temp", "good", "damaged"}
      BY <2>1
    <2>2. b \in Actions
      BY DEF Unfinished
    <2>3. /\ Actions' = Actions /\ output'[b].file = file /\ \A a \in Actions \ {b} : output'[a] = output[a]
          /\ \A a \in Actions : output'[a].covers = output[a].covers
      BY <1>0, <2>p, <2>2, Refiled
    <2> QED
      BY <2>p, <2>3 DEF Unfinished
  <1>5. CASE Crash
    <2>1. PICK damaged \in SUBSET {a \in Unfinished : Intact(a)} :
             output' = [a \in Actions |-> IF a \in damaged THEN [output[a] EXCEPT !.file = "damaged"] ELSE output[a]]
      BY <1>5 DEF Crash
    <2>2. Actions' = Actions
      BY <2>1 DEF Actions
    <2>3. \A a \in Actions \ Unfinished : output'[a] = output[a]
      BY <2>1
    <2>4. ASSUME NEW a \in Unfinished
          PROVE  /\ output'[a].covers = output[a].covers
                 /\ output'[a].file \in {"temp", "good", "damaged"} =>
                       output[a].file \in {"temp", "good", "damaged"}
      <3>1. a \in Actions /\ output[a] \in OutputRecord
        BY <1>0, <2>4 DEF Typed, Unfinished, Actions
      <3>2. CASE a \in damaged
        <4>1. output'[a] = [output[a] EXCEPT !.file = "damaged"] /\ output[a].file = "good"
          BY <2>1, <3>1, <3>2 DEF Intact
        <4> QED
          BY <3>1, <4>1 DEF OutputRecord
      <3>3. CASE a \notin damaged
        BY <2>1, <3>1, <3>3
      <3> QED
        BY <3>2, <3>3
    <2> QED
      BY <2>2, <2>3, <2>4
  <1> QED
    BY <1>1, <1>2, <1>3, <1>4, <1>5, OutputEffects

(* Persist, and nothing else, adds to the package.                         *)
LEMMA PackageStep ==
    ASSUME IInv, [Next]_vars
    PROVE  \/ Package' = Package /\ Manifests' = Manifests
           \/ /\ Persist /\ call.act \in Unfinished /\ call.act = Len(output) /\ UNCHANGED <<ledger, output>>
              /\ \/ IsManifest(call.act) /\ Package' = Package /\ Manifests' = Manifests \cup {call.act}
                 \/ ~IsManifest(call.act) /\ Package' = Package \cup {call.act} /\ Manifests' = Manifests
  <1>0. Typed /\ Logged /\ OneAtATime
    BY DEF IInv
  <1>1. \A a \in Actions : IsManifest(a)' = IsManifest(a)
    BY StartedKept
  <1>2. run.assets \subseteq Actions
    BY <1>0 DEF Logged
  <1>3. CASE run'.assets = run.assets /\ ~Persist
    BY <1>1, <1>2, <1>3 DEF Package, Manifests
  <1>4. CASE Persist
    <2>1. At("persist") /\ run'.assets = run.assets \cup {call.act} /\ UNCHANGED <<ledger, output>>
      BY <1>0, <1>4 DEF Persist, Typed, RunRecord
    <2>2. PICK c : c = call.act
      OBVIOUS
    <2>3. c \in Unfinished /\ c = Len(output)
      BY <1>0, <2>1, <2>2 DEF OneAtATime, Doing, At
    <2>4. c \in Actions /\ run'.assets = run.assets \cup {c}
      BY <2>1, <2>2, <2>3 DEF Unfinished
    <2>5. /\ Package' = {a \in run.assets \cup {c} : ~IsManifest(a)}
          /\ Manifests' = {a \in run.assets \cup {c} : IsManifest(a)}
      BY <1>1, <1>2, <2>4 DEF Package, Manifests
    <2>6. \/ IsManifest(c) /\ Package' = Package /\ Manifests' = Manifests \cup {c}
          \/ ~IsManifest(c) /\ Package' = Package \cup {c} /\ Manifests' = Manifests
      BY <2>5 DEF Package, Manifests
    <2> QED
      BY <1>4, <2>1, <2>2, <2>3, <2>6
  <1> QED
    BY <1>0, <1>3, <1>4, RunEffects

(* A manifest lists what was completed when it was written, and nothing    *)
(* else completes before it does.                                          *)
LEMMA CoveredStep == IInv /\ [Next]_vars => Covered'
  <1> SUFFICES ASSUME IInv, [Next]_vars
               PROVE  Covered'
    OBVIOUS
  <1>0. /\ Typed /\ Logged /\ OneAtATime /\ Filed /\ Covered
        /\ Completed \subseteq Actions /\ Failed \subseteq Actions
        /\ Unfinished = Actions \ (Completed \cup Failed)
        /\ \A a \in Actions : a \in Nat /\ a =< Len(output)
        /\ run.assets \subseteq Actions
    BY EventFacts DEF IInv, Typed, Actions, Unfinished, Logged
  <1>1. ASSUME Manifests' # {}
        PROVE  \E m \in Manifests' : \A b \in Manifests' : b =< m
    <2>1. CASE Manifests' = Manifests
      BY <1>0, <1>1, <2>1 DEF Covered
    <2>2. CASE Manifests' = Manifests \cup {Len(output)}
      <3>1. \A b \in Manifests : b =< Len(output)
        BY <1>0 DEF Manifests
      <3>2. Len(output) \in Nat
        BY <1>0 DEF Typed
      <3> QED
        BY <2>2, <3>1, <3>2
    <2> QED
      BY <2>1, <2>2, PackageStep
  <1>2. ASSUME NEW m \in Completed', NEW a \in Completed',
               IsManifest(m)', ~IsManifest(a)', CompletedAt(a)' < CompletedAt(m)'
        PROVE  a \in output'[m].covers
    <2>1. \A x \in Completed : /\ x \in Actions \ Unfinished
                               /\ IsManifest(x)' = IsManifest(x) /\ output'[x] = output[x]
                               /\ CompletedAt(x)' = CompletedAt(x)
                               /\ CompletedAt(x) \in Nat /\ CompletedAt(x) =< Len(ledger)
      BY <1>0, StartedKept, CompletedKept, OutputKept
    <2>2. CASE m \in Completed /\ a \in Completed
      BY <1>0, <1>2, <2>1, <2>2 DEF Covered
    <2>3. CASE Complete
      <3>1. /\ Completed' = Completed \cup {call.act} /\ UNCHANGED <<run, output>>
            /\ call.act \in Unfinished /\ At("complete")
            /\ \A b : IsManifest(b)' = IsManifest(b)
        BY <1>0, <2>3, EndEffects
      <3>2. PICK c : c = call.act
        OBVIOUS
      <3>3. CompletedAt(c)' = Len(ledger) + 1 /\ Len(ledger) \in Nat
        BY <1>0, <2>3, <3>2, CompletedKept DEF Typed
      <3>4. CASE m = c
        <4>1. a \in Completed /\ a \in Package
          BY <1>0, <1>2, <3>1, <3>2, <3>4 DEF Filed, Package
        <4>2. output[c].file = "good" /\ c \in Unfinished /\ IsManifest(c)
          BY <1>0, <1>2, <3>1, <3>2, <3>4 DEF Filed, At
        <4> QED
          BY <1>0, <3>1, <3>4, <4>1, <4>2 DEF Covered
      <3>5. CASE m \in Completed /\ a = c
        BY <1>2, <2>1, <3>3, <3>5
      <3> QED
        BY <2>2, <3>1, <3>2, <3>4, <3>5
    <2> QED
      BY <2>2, <2>3, StartedKept
  <1>3. ASSUME NEW m \in Unfinished', IsManifest(m)', output'[m].file \in {"temp", "good", "damaged"}
        PROVE  Package' \cap Completed' \subseteq output'[m].covers
    <2>1. ~Complete /\ ~Fail
      BY <1>0, <1>3, EndEffects
    <2>2. Completed' = Completed /\ Failed' = Failed
      BY <2>1, StartedKept
    <2>3. m \in Unfinished
      BY <1>0, <1>3, <2>2, OutputKept DEF Unfinished
    <2>4. Package' \cap Completed' \subseteq Package \cap Completed
      BY <1>0, <2>2, PackageStep
    <2>5. IsManifest(m) /\ m = Len(output)
      BY <1>0, <1>3, <2>3, StartedKept DEF OneAtATime
    <2>6. CASE Write
      <3>1. /\ At("write")
            /\ output' = [output EXCEPT ![call.act] =
                  [file |-> "temp", covers |-> IF IsManifest(call.act) THEN Package ELSE {}]]
        BY <2>6 DEF Write
      <3>2. call.act = m
        BY <1>0, <2>5, <3>1 DEF OneAtATime, Doing, At
      <3>3. output'[m] = [file |-> "temp", covers |-> Package]
        BY <1>0, <2>3, <2>5, <3>1, <3>2 DEF Actions
      <3> QED
        BY <2>4, <3>3
    <2>7. CASE ~Write
      BY <1>0, <1>3, <2>3, <2>4, <2>5, <2>7, OutputKept DEF Covered
    <2> QED
      BY <2>6, <2>7
  <1> QED
    BY <1>1, <1>2, <1>3 DEF Covered

-----------------------------------------------------------------------------
(* Only the completion of another action makes a manifest stale; its own   *)
(* never does.                                                             *)
LEMMA StaleStep ==
    ASSUME IInv, [Next]_vars, Stale'
    PROVE  (Stale /\ ~Complete) \/ (Complete /\ ~IsManifest(call.act))
  <1>0. /\ Typed /\ Logged /\ OneAtATime /\ Filed /\ Covered /\ Covered'
        /\ \A a \in Actions : a \in Nat /\ a =< Len(output)
        /\ run.assets \subseteq Actions /\ Completed \subseteq Actions
    BY CoveredStep, EventFacts DEF IInv, Typed, Actions, Logged
  <1>1. PICK m : m = CurrentManifest'
    OBVIOUS
  <1>2. PICK a \in Completed' : ~IsManifest(a)' /\ CompletedAt(a)' > CompletedAt(m)'
    BY <1>1 DEF Stale
  <1>3. /\ Checksums # None /\ Manifests' # {} /\ m \in Completed'
        /\ m \in Manifests' /\ \A b \in Manifests' : b =< m
    BY <1>0, <1>1, CurrentIs DEF Stale
  <1>4. Manifests' = Manifests
    <2>1. SUFFICES ASSUME Persist, call.act \in Unfinished, call.act = Len(output), UNCHANGED ledger,
                          Manifests' = Manifests \cup {call.act}
                   PROVE  FALSE
      BY PackageStep
    <2>2. m = Len(output)
      BY <1>0, <1>3, <2>1 DEF Manifests, Unfinished
    <2>3. m \notin Completed'
      BY <2>1, <2>2, Still DEF Unfinished
    <2> QED
      BY <1>3, <2>3
  <1>5. m = CurrentManifest
    <2>1. CurrentManifest \in Manifests /\ \A b \in Manifests : b =< CurrentManifest
      BY <1>0, <1>3, <1>4, CurrentIs
    <2>2. m \in Nat /\ CurrentManifest \in Nat /\ m =< CurrentManifest /\ CurrentManifest =< m
      BY <1>0, <1>3, <1>4, <2>1 DEF Manifests
    <2> QED
      BY <2>2
  <1>6. CASE ~Complete
    <2>1. Completed' = Completed
      BY <1>6, StartedKept
    <2>2. /\ m \in Completed /\ Intact(m) /\ a \in Completed /\ ~IsManifest(a)
          /\ CompletedAt(a) > CompletedAt(m)
      BY <1>0, <1>2, <1>3, <2>1, StartedKept, CompletedKept DEF Filed
    <2> QED
      BY <1>3, <1>4, <1>5, <1>6, <2>2 DEF Stale
  <1>7. CASE Complete /\ IsManifest(call.act)
    <2>1. PICK c : c = call.act
      OBVIOUS
    <2>2. Completed' = Completed \cup {c} /\ c \in Unfinished /\ At("complete")
      BY <1>0, <1>7, <2>1, EndEffects
    <2>6. CompletedAt(c)' = Len(ledger) + 1 /\ Len(ledger) \in Nat
      BY <1>0, <1>7, <2>1, CompletedKept DEF Typed
    <2>3. c \in Manifests /\ c = Len(output)
      BY <1>0, <1>7, <2>1, <2>2 DEF Filed, Manifests, OneAtATime, At
    <2>4. m = c
      <3>1. c \in Nat /\ m \in Nat /\ c =< m /\ m =< c
        BY <1>0, <1>3, <1>4, <2>3 DEF Manifests
      <3> QED
        BY <3>1
    <2>5. a # c => CompletedAt(a)' \in Nat /\ CompletedAt(a)' =< Len(ledger)
      BY <2>2, CompletedKept
    <2> QED
      BY <1>2, <2>6, <2>4, <2>5
  <1> QED
    BY <1>6, <1>7

(* A refresh that failed stays UNRESOLVED, but for the end of another one  *)
(* in the same cycle.                                                      *)
LEMMA UnrefreshedStep ==
    ASSUME IInv, [Next]_vars, Unrefreshed
    PROVE  Unrefreshed' \/ Refreshed
  <1>0. Typed /\ snap \in Snapshot /\ run \in RunRecord
    BY DEF IInv, Typed
  <1>1. PICK c \in Cycle : run.findings[<<"refresh", c>>] = "UNRESOLVED"
    BY DEF Unrefreshed
  <1>2. PICK f : f = <<"refresh", c>>
    OBVIOUS
  <1>3. f \in Finding /\ f[1] = "refresh" /\ run.findings[f] = "UNRESOLVED"
    BY <1>1, <1>2 DEF Finding
  <1>4. Inspect => run'.findings[f] = "UNRESOLVED"
    BY <1>0, <1>3, InspectEffects
  <1>5. RefreshManifest /\ run'.findings = [run.findings EXCEPT ![RefreshFinding] = "OPEN"]
        /\ run.findings[RefreshFinding] # "UNRESOLVED" => run'.findings[f] = "UNRESOLVED"
    BY <1>0, <1>3 DEF RunRecord
  <1>6. run'.findings[f] = "UNRESOLVED" \/ Refreshed
    BY <1>0, <1>3, <1>4, <1>5, FindingEffects DEF Open
  <1> QED
    BY <1>1, <1>2, <1>6 DEF Unrefreshed

(* The manifest stays current or given up, except when another action      *)
(* completes.                                                              *)
LEMMA FreshStep ==
    ASSUME IInv, [Next]_vars
    PROVE  /\ Refreshed => Fresh'
           /\ Fresh => Fresh' \/ (Complete /\ ~IsManifest(call.act))
  <1>0. /\ Typed /\ Logged /\ Placed /\ OneAtATime /\ Refreshing
        /\ snap \in Snapshot /\ run \in RunRecord
    BY DEF IInv, Typed
  <1>1. ASSUME Refreshed
        PROVE  Fresh'
    <2>1. At("refreshed") /\ call.act \in Completed \cup Failed
      BY <1>0, <1>1 DEF Refreshed, Refreshing
    <2>2. CASE call.act \in Failed
      <3>1. PICK c : c = snap.cycle
        OBVIOUS
      <3>2. c \in Cycle /\ RefreshFinding = <<"refresh", c>> /\ <<"refresh", c>> \in Finding
        BY <1>0, <3>1 DEF Snapshot, RefreshFinding, Finding
      <3>3. run'.findings = [run.findings EXCEPT ![<<"refresh", c>>] = "UNRESOLVED"]
        BY <1>0, <1>1, <2>2, <3>2 DEF Refreshed, RunRecord
      <3>4. run'.findings[<<"refresh", c>>] = "UNRESOLVED"
        BY <1>0, <3>2, <3>3 DEF RunRecord
      <3> QED
        BY <3>2, <3>4 DEF Fresh, Unrefreshed
    <2>3. CASE call.act \in Completed
      <3>1. ~Stale
        BY <1>0, <2>1, <2>3 DEF Refreshing
      <3>2. ~Complete
        BY <2>1 DEF Complete, At
      <3> QED
        BY <3>1, <3>2, StaleStep DEF Fresh
    <2> QED
      BY <2>1, <2>2, <2>3
  <1>2. ASSUME Fresh, ~Refreshed, ~(Complete /\ ~IsManifest(call.act))
        PROVE  Fresh'
    BY <1>2, StaleStep, UnrefreshedStep DEF Fresh
  <1> QED
    BY <1>1, <1>2

(* After every completed action the manifest is refreshed before the run   *)
(* inspects, also when the call was abandoned in between and recovered.    *)
LEMMA RefreshingStep == IInv /\ [Next]_vars => Refreshing'
  <1> SUFFICES ASSUME IInv, [Next]_vars
               PROVE  Refreshing'
    OBVIOUS
  <1>0. /\ Typed /\ Placed /\ Phased /\ Logged /\ OneAtATime /\ Unbegun /\ Filed /\ InHand /\ Refreshing
        /\ snap \in Snapshot /\ run \in RunRecord /\ call \in CallRecord
    BY DEF IInv, Typed
  <1>1. ASSUME Fresh, ~At("complete")
        PROVE  Fresh'
    BY <1>1, FreshStep DEF Complete
  <1>2. ASSUME snap'.status \in {"INSPECTING", "FINDINGS_READY", "AWAITING_HUMAN_DECISION"}
        PROVE  Fresh'
    <2>1. CASE snap.status \in {"INSPECTING", "FINDINGS_READY", "AWAITING_HUMAN_DECISION"}
      <3>1. Fresh
        BY <1>0, <2>1 DEF Refreshing
      <3>2. ~At("complete")
        BY <1>0, <2>1 DEF Placed, At, Remedying, Doing
      <3> QED
        BY <1>1, <3>1, <3>2
    <2>2. CASE Prepare
      <3>1. snap.status \in Lifecycle!Preparing
        BY <1>0, <2>2, StatusesApart DEF Prepare, Placed
      <3>2. Completed = {} /\ ~At("complete")
        BY <1>0, <2>2, <3>1, EventFacts DEF Unbegun, Prepare, At
      <3>3. Fresh
        BY <3>2 DEF Fresh, Stale
      <3> QED
        BY <1>1, <3>2, <3>3
    <2>3. CASE Reinspect
      <3>1. At("reinspect")
        BY <2>3 DEF Reinspect
      <3> QED
        BY <1>0, <1>1, <3>1 DEF Refreshing, At
    <2>4. CASE FindingsReady \/ Pause
      <3>1. call.at \in Judging \cup {"ready"}
        BY <2>4 DEF FindingsReady, Pause, At, Judging
      <3> QED
        BY <1>0, <2>1, <3>1 DEF Placed
    <2> QED
      BY <1>0, <1>2, <2>1, <2>2, <2>3, <2>4, SnapEffects, StatusesApart
  <1>3. ASSUME call'.at \in {"finish", "reinspect"}
        PROVE  Fresh'
    <2>1. CASE Executed
      <3>1. At("execute") /\ call.phase = "tier2" /\ call.act \in Failed
        BY <1>0, <1>3, <2>1 DEF Executed, Goto, CallRecord
      <3> QED
        BY <1>0, <1>1, <3>1 DEF Refreshing, At
    <2>2. CASE RefreshManifest
      <3>1. ~Stale /\ At("refresh")
        BY <1>0, <1>3, <2>2 DEF RefreshManifest, Goto, CallRecord
      <3> QED
        BY <1>1, <3>1 DEF Fresh, At
    <2>3. CASE Refreshed
      BY <2>3, FreshStep
    <2>4. CASE call.at \in {"finish", "reinspect"}
      BY <1>0, <1>1, <2>4 DEF Refreshing, At
    <2> QED
      BY <1>0, <1>3, <2>1, <2>2, <2>3, <2>4, Arrivals DEF Moved, Continuation, Finish, At
  <1>4. ASSUME UNCHANGED call
        PROVE  /\ ~Complete /\ ~Fail /\ Completed' = Completed /\ Failed' = Failed
               /\ At("complete") \/ (Fresh => Fresh')
    <2>1. ~Complete /\ ~Fail
      BY <1>0, <1>4 DEF Complete, Fail, Goto, At, CallRecord, Continuation
    <2> QED
      BY <1>1, <2>1, StartedKept
  <1>5. ASSUME At("execute")', call'.phase = "tier2", call'.todo # {} \/ (call.act \in Failed)'
        PROVE  Fresh'
    <2>1. CASE UNCHANGED call
      <3>1. At("execute") /\ call.phase = "tier2" /\ (call.todo # {} \/ call.act \in Failed)
        BY <1>4, <1>5, <2>1 DEF At
      <3> QED
        BY <1>0, <1>1, <3>1 DEF Refreshing, At
    <2>2. CASE Resume
      <3>1. At("resume") /\ snap.status = "AWAITING_HUMAN_DECISION"
        BY <1>0, <2>2 DEF Resume, Placed, At, Answering
      <3> QED
        BY <1>0, <1>1, <3>1 DEF Refreshing, At
    <2>3. CASE Complete /\ Moved(Continuation)
      <3>1. call.at \in Doing /\ call.phase = "tier2" /\ call.act \in Unfinished
        BY <1>0, <1>5, <2>3, EndEffects DEF Moved
      <3>2. call'.todo = {} /\ call'.act = call.act
        BY <1>0, <2>3, <3>1 DEF InHand, Moved
      <3>3. Failed' = Failed /\ call.act \notin Failed
        BY <1>0, <2>3, <3>1, EndEffects DEF Unfinished
      <3> QED
        BY <1>5, <3>2, <3>3
    <2>4. CASE Fail /\ Moved(Continuation)
      <3>1. At("failed") /\ call.phase = "tier2"
        BY <1>5, <2>4 DEF Moved, Fail
      <3>2. Fresh
        BY <1>0, <3>1 DEF Refreshing, At, Doing
      <3> QED
        BY <1>1, <3>1, <3>2 DEF At
    <2> QED
      BY <1>0, <1>5, <2>1, <2>2, <2>3, <2>4, Arrivals DEF Moved, At
  <1>6. ASSUME call'.at \in Doing \ {"complete"}, call'.phase = "tier2"
        PROVE  Fresh' /\ IsManifest(call.act)' = FALSE
    <2>1. CASE Execute
      <3>1. At("execute") /\ call.phase = "tier2" /\ call'.act = Len(output) + 1
        BY <1>0, <1>6, <2>1 DEF Execute, CallRecord
      <3>2. PICK f \in Finding, c \in Nat : f \in call.todo /\ Begin(f, c)
        BY <1>0, <2>1, ExecuteEffects
      <3>3. ToolOf(f) # Manifest
        <4>1. TierOf(f) = 2
          BY <1>0, <3>1, <3>2 DEF InHand
        <4> QED
          BY <4>1 DEF TierOf, Manifest, Normalize
      <3>4. PICK n : n = Len(output) + 1
        OBVIOUS
      <3>5. Started(n)' = [type |-> "ACTION_STARTED", act |-> n, finding |-> f,
                           auth |-> IF TierOf(f) = 2 THEN c ELSE None]
        BY <1>0, <3>2, <3>4, BegunStarted
      <3>6. Started(n)'.finding = f
        BY <3>5
      <3>7. ~IsManifest(n)' /\ call'.act = n
        BY <3>1, <3>3, <3>4, <3>6 DEF IsManifest
      <3>8. Fresh
        BY <1>0, <3>1, <3>2 DEF Refreshing
      <3> QED
        BY <1>1, <3>1, <3>7, <3>8 DEF At
    <2>2. CASE call.at \in Doing \ {"complete"} /\ call.phase = "tier2" /\ call'.act = call.act
      <3>1. Fresh /\ ~IsManifest(call.act)
        BY <1>0, <2>2 DEF Refreshing
      <3>2. PICK c : c = call.act
        OBVIOUS
      <3>3. c \in Actions
        BY <1>0, <2>2, <3>2 DEF OneAtATime, Unfinished
      <3>4. IsManifest(c)' = IsManifest(c)
        BY <3>3, StartedKept
      <3> QED
        BY <1>1, <2>2, <3>1, <3>2, <3>4 DEF At
    <2>3. CASE Void
      <3>1. call.at \in Doing \ {"complete"} /\ call.phase = "tier2" /\ call'.act = call.act
        BY <1>0, <1>6, <2>3 DEF Void, Goto, CallRecord, At, Doing
      <3> QED
        BY <2>2, <3>1
    <2>4. CASE Write \/ Promote \/ Persist \/ Abort
      <3>1. call.at \in Doing \ {"complete"} /\ call.phase = "tier2" /\ call'.act = call.act
        BY <1>0, <1>6, <2>4 DEF Write, Promote, Persist, Abort, Goto, CallRecord, At, Doing
      <3> QED
        BY <2>2, <3>1
    <2>5. CASE Recover
      <3>1. call.phase = "recover"
        BY <1>0, <2>5 DEF Phased, Recover
      <3>2. call'.phase \in {"recover", "integrity"}
        BY <1>0, <2>5, <3>1 DEF Recover, CallRecord
      <3> QED
        BY <1>6, <3>2
    <2> QED
      BY <1>0, <1>6, <2>1, <2>2, <2>3, <2>4, Arrivals DEF Moved, Doing, Continuation, Phased, Recover, At
  <1>7. ASSUME call'.at \in Doing, call'.phase = "refresh"
        PROVE  Started(call.act)'.finding = RefreshFinding'
    <2>1. CASE BeginRefresh /\ call'.at = "write" /\ call'.act = Len(output) + 1
      <3>1. Begin(RefreshFinding, 0) /\ UNCHANGED snap
        BY <1>0, <2>1 DEF BeginRefresh, Return, Idle
      <3>2. PICK f : f = RefreshFinding
        OBVIOUS
      <3>3. f \in Finding /\ Begin(f, 0)
        BY <1>0, <2>1, <3>1, <3>2, BeginRefreshEffects
      <3>4. PICK n : n = Len(output) + 1
        OBVIOUS
      <3>5. Started(n)' = [type |-> "ACTION_STARTED", act |-> n, finding |-> f,
                           auth |-> IF TierOf(f) = 2 THEN 0 ELSE None]
        BY <1>0, <3>3, <3>4, BegunStarted
      <3>6. Started(n)'.finding = f
        BY <3>5
      <3>7. RefreshFinding' = f
        BY <3>1, <3>2 DEF RefreshFinding
      <3> QED
        BY <2>1, <3>4, <3>6, <3>7
    <2>2. CASE call.at \in Doing /\ call.phase = "refresh" /\ call'.act = call.act
      <3>1. PICK c : c = call.act
        OBVIOUS
      <3>2. c \in Actions /\ Started(c).finding = RefreshFinding
        BY <1>0, <2>2, <3>1 DEF Refreshing, OneAtATime, Unfinished
      <3>3. Started(c)' = Started(c)
        BY <3>2, StartedKept
      <3>4. snap'.cycle = snap.cycle
        <4>1. ~Reinspect
          BY <2>2 DEF Reinspect, At, Doing
        <4> QED
          BY <1>0, <4>1, SnapEffects
      <3> QED
        BY <2>2, <3>1, <3>2, <3>3, <3>4 DEF RefreshFinding
    <2>3. CASE Void \/ Write \/ Promote \/ Persist \/ Abort
      <3>1. call.at \in Doing /\ call.phase = "refresh" /\ call'.act = call.act
        BY <1>0, <1>7, <2>3 DEF Void, Write, Promote, Persist, Abort, Goto, CallRecord, At, Doing
      <3> QED
        BY <2>2, <3>1
    <2>4. CASE Recover
      <3>1. call.phase = "recover"
        BY <1>0, <2>4 DEF Phased, Recover
      <3>2. call'.phase \in {"recover", "integrity"}
        BY <1>0, <2>4, <3>1 DEF Recover, CallRecord
      <3> QED
        BY <1>7, <3>2
    <2>5. CASE Execute
      <3>1. call.phase \in {"tier1", "tier2"} /\ call'.phase = call.phase
        BY <1>0, <2>5 DEF Execute, Phased, CallRecord
      <3> QED
        BY <1>7, <3>1
    <2> QED
      BY <1>0, <1>7, <2>1, <2>2, <2>3, <2>4, <2>5, Arrivals DEF Moved, Doing, Continuation
  <1>8. ASSUME At("refreshed")'
        PROVE  /\ call'.act \in Completed' \cup Failed'
               /\ Started(call.act)'.finding = RefreshFinding'
               /\ call'.act \in Completed' => ~Stale'
    <2>1. CASE UNCHANGED call
      <3>1. PICK c : c = call.act
        OBVIOUS
      <3>2. /\ At("refreshed") /\ c \in Completed \cup Failed /\ Started(c).finding = RefreshFinding
            /\ c \in Completed => ~Stale
        BY <1>0, <1>8, <2>1, <3>1 DEF Refreshing, At
      <3>3. c \in Actions
        BY <1>0, <3>2, EventFacts
      <3>4. Started(c)' = Started(c)
        BY <3>3, StartedKept
      <3>5. snap'.cycle = snap.cycle
        <4>1. ~Reinspect
          BY <3>2 DEF Reinspect, At
        <4> QED
          BY <1>0, <4>1, SnapEffects
      <3>6. call'.act = c /\ Completed' = Completed /\ Failed' = Failed /\ ~Complete
        BY <1>4, <2>1, <3>1
      <3> QED
        BY <3>2, <3>4, <3>5, <3>6, StaleStep DEF RefreshFinding
    <2>2. CASE (Complete \/ Fail) /\ Moved(Continuation)
      <3>1. PICK c : c = call.act
        OBVIOUS
      <3>2. /\ call.at \in Doing /\ c \in Unfinished /\ UNCHANGED snap
            /\ Started(c)' = Started(c) /\ call'.act = c
        BY <1>0, <2>2, <3>1, EndEffects DEF Moved
      <3>3. call.phase = "refresh"
        BY <1>0, <1>8, <2>2 DEF Continuation, Moved, At
      <3>4. Started(c).finding = RefreshFinding /\ RefreshFinding' = RefreshFinding
        BY <1>0, <3>1, <3>2, <3>3 DEF Refreshing, RefreshFinding
      <3>5. IsManifest(c)
        BY <3>4 DEF IsManifest, RefreshFinding, ToolOf
      <3>6. CASE Complete
        <4>1. ~Stale'
          BY <3>1, <3>5, <3>6, StaleStep
        <4>2. c \in Completed'
          BY <1>0, <3>1, <3>6, EndEffects
        <4> QED
          BY <3>2, <3>4, <4>1, <4>2
      <3>7. CASE Fail
        <4>1. c \in Failed' /\ c \notin Completed'
          BY <1>0, <3>1, <3>2, <3>7, EndEffects DEF Unfinished
        <4> QED
          BY <3>2, <3>4, <4>1
      <3> QED
        BY <2>2, <3>6, <3>7
    <2> QED
      BY <1>0, <1>8, <2>1, <2>2, Arrivals DEF Moved, At
  <1> QED
    BY <1>2, <1>3, <1>5, <1>6, <1>7, <1>8 DEF Refreshing

-----------------------------------------------------------------------------
(* A new run satisfies the invariant.                                      *)
LEMMA InitHolds == Init => IInv
  <1> SUFFICES ASSUME Init
               PROVE  IInv
    OBVIOUS
  <1>1. /\ snap = Lifecycle!NewSnapshot /\ ledger = <<>> /\ auth = <<>> /\ output = <<>>
        /\ run = [findings |-> [f \in Finding |-> "NONE"], offers |-> {}, passed |-> {},
                  requests |-> [d \in Decision |-> "NONE"], assets |-> {},
                  counts |-> [autonomous |-> 0, authorized |-> 0], evidence |-> None]
        /\ decision = [d \in Decision |-> "NONE"] /\ evidence = None /\ originals = TRUE
        /\ crashes = 0 /\ abandoned = FALSE /\ locked = {} /\ inspected = {}
    BY DEF Init
  <1>2. /\ snap.status = "CREATED" /\ snap.cycle = 0 /\ snap.options = {} /\ snap.decision = None
        /\ snap.pending = None /\ snap.verdict = None
    BY <1>1 DEF Lifecycle!NewSnapshot
  <1>3. call.at = "prepare" /\ call.phase = None /\ call.todo = {} /\ call.act = 0 /\ call.cap = 0
    BY DEF Init, Idle
  <1>4. call \in CallRecord
    BY DEF Init, Idle, CallRecord, Label, Phase
  <1>5. /\ run.offers = {} /\ run.assets = {} /\ run.evidence = None
        /\ \A f \in Finding : run.findings[f] = "NONE"
        /\ \A d \in Decision : run.requests[d] = "NONE"
    BY <1>1
  <1>6. /\ DOMAIN ledger = {} /\ DOMAIN auth = {} /\ Actions = {} /\ Len(output) = 0
    BY <1>1 DEF Actions
  <1>7. Starts = {} /\ Completed = {} /\ Failed = {} /\ Unfinished = {}
    BY <1>6 DEF Starts, Completed, Failed, Ends, Unfinished
  <1>8. Typed
    <2>1. snap \in Snapshot
      BY <1>1, OrchestratorAssumption DEF Snapshot, Lifecycle!NewSnapshot, Status, Lifecycle!Status,
         Lifecycle!Preparing, Cycle
    <2>2. run \in RunRecord
      BY <1>1 DEF RunRecord, FindingStatus, RequestStatus
    <2>3. decision \in [Decision -> RequestStatus]
      BY <1>1 DEF RequestStatus
    <2>4. crashes \in 0..MaxCrashes
      BY <1>1, OrchestratorAssumption
    <2>5. ledger \in Seq(StartEvent \cup EndEvent) /\ auth \in Seq(Capability) /\ output \in Seq(OutputRecord)
      BY <1>1
    <2>6. /\ evidence \in Evidence \cup {None} /\ originals \in BOOLEAN /\ abandoned \in BOOLEAN
          /\ locked \in SUBSET ({"ledger", "request", "authorization"} \X Nat) /\ inspected \in SUBSET Nat
      BY <1>1
    <2> QED
      BY <1>4, <2>1, <2>2, <2>3, <2>4, <2>5, <2>6 DEF Typed
  <1>9. Placed /\ Phased /\ Coherent
    BY <1>2, <1>3 DEF Placed, Phased, Coherent, At, Doing, Remedying, Judging, Answering, Approving, Successor
  <1>10. Logged /\ OneAtATime /\ Unbegun /\ Filed
    BY <1>2, <1>3, <1>5, <1>6, <1>7 DEF Logged, OneAtATime, Unbegun, Filed, At, Doing, Remedying
  <1>11. Asked
    <2>1. {d \in Decision : decision[d] # "NONE"} = {}
      BY <1>1
    <2>2. NextDecision = 1
      BY <2>1, FS_EmptySet DEF NextDecision
    <2>3. Budget \in Nat
      BY <1>8, BudgetTyped
    <2>4. \A d \in Decision : decision[d] = "NONE" /\ ~(d < 1)
      BY <1>1 DEF Decision
    <2> QED
      BY <1>2, <1>3, <2>2, <2>3, <2>4 DEF Asked, At
  <1>12. Requested /\ InHand /\ Paid
    BY <1>2, <1>3, <1>5, <1>6, <1>7 DEF Requested, Escalating, InHand, Paid, At, Doing, Approving
  <1>13. Offered /\ Tried /\ TwoAttempts
    BY <1>2, <1>3, <1>5, <1>6, <1>7 DEF Offered, Tried, TwoAttempts, FailedOn, FailedBefore, Open, At, Doing
  <1>14. Inspected /\ Counted /\ Reported
    BY <1>1, <1>2, <1>3, <1>5 DEF Inspected, Judged, Counted, Reported, Final, At
  <1>15. Covered /\ Refreshing
    BY <1>2, <1>3, <1>5, <1>7 DEF Covered, Refreshing, Manifests, At, Doing
  <1> QED
    BY <1>8, <1>9, <1>10, <1>11, <1>12, <1>13, <1>14, <1>15 DEF IInv

(* Every step keeps it: every write, every crash and every answer.         *)
LEMMA StepKeeps == IInv /\ [Next]_vars => IInv'
  BY TypedStep, ControlStep, ActionsStep, UnbegunStep, AskedStep, RequestedStep, PaidStep, OfferedStep,
     TriedStep,
     TwoAttemptsStep, InspectedStep, CountedStep, ReportedStep, CoveredStep, RefreshingStep DEF IInv

(* The invariant holds at every point of every run, for any requirements,  *)
(* tools and limits, and however often the process is killed.              *)
THEOREM Inductive == Spec => []IInv
  BY InitHolds, StepKeeps, PTL DEF Spec

(* The durable records have their types.                                   *)
THEOREM TypesKept == Spec => []TypeOK
  <1>1. IInv => TypeOK
    <2> SUFFICES ASSUME IInv
                 PROVE  TypeOK
      OBVIOUS
    <2>1. Typed /\ Logged /\ InHand
      BY DEF IInv
    <2>2. \A a \in Actions : output[a] \in OutputRecord
      BY <2>1 DEF Typed, Actions
    <2> QED
      BY <2>1, <2>2 DEF TypeOK, Typed, Logged, InHand, Snapshot, Status, RunRecord, OutputRecord, File,
         CallRecord
  <1> QED
    BY <1>1, Inductive, PTL

(* Before the run moves on the executor has ended every action it began    *)
(* (execute, recover): at most one is unfinished, and none outside a       *)
(* remediation.                                                            *)
THEOREM NothingDangles == Spec => []NoDanglingAction
  <1>1. IInv => NoDanglingAction
    <2> SUFFICES ASSUME IInv
                 PROVE  NoDanglingAction
      OBVIOUS
    <2>1. OneAtATime /\ Typed /\ Logged
      BY DEF IInv
    <2>2. IsFiniteSet(Unfinished)
      BY <2>1, EventFacts, FS_Subset DEF Unfinished
    <2>3. \A a, b \in Unfinished : a = b
      BY <2>1 DEF OneAtATime
    <2>4. Cardinality(Unfinished) =< 1
      <3>1. CASE Unfinished = {}
        BY <3>1, FS_EmptySet
      <3>2. ASSUME NEW a \in Unfinished
            PROVE  Cardinality(Unfinished) = 1
        <4>1. Unfinished = {a}
          BY <2>3
        <4> QED
          BY <4>1, FS_Singleton
      <3> QED
        BY <3>1, <3>2
    <2> QED
      BY <2>1, <2>4 DEF NoDanglingAction, OneAtATime
  <1> QED
    BY <1>1, Inductive, PTL

(* Evidence never precedes reality: an action ends once, a completed one   *)
(* has an intact output among the assets, a failed one has left none       *)
(* (execute, recover, _fail_action).                                       *)
THEOREM EndsTruthful == Spec => []EndsMatchOutputs
  <1>1. IInv => EndsMatchOutputs
    BY DEF IInv, Logged, Filed, EndsMatchOutputs
  <1> QED
    BY <1>1, Inductive, PTL

(* However often calls are repeated and recovered, one human decision pays *)
(* for one action, of the option it granted, and a failure voids the       *)
(* capability (begin_authorized_action, void).                             *)
THEOREM OncePaid == Spec => []PaidOnce
  <1>1. IInv => PaidOnce
    BY DEF IInv, Paid, PaidOnce
  <1> QED
    BY <1>1, Inductive, PTL

(* No option is executed twice, and no requirement is tried after two      *)
(* failures (_failure_count), for any number of cycles and crashes.        *)
THEOREM BoundedAttempts == Spec => []AttemptsBounded
  <1>1. IInv => AttemptsBounded
    <2> SUFFICES ASSUME IInv
                 PROVE  AttemptsBounded
      OBVIOUS
    <2>1. Tried /\ TwoAttempts /\ Typed /\ Logged
      BY DEF IInv
    <2>2. ASSUME NEW q \in Req
          PROVE  Cardinality({a \in Failed : Started(a).finding[1] = q}) =< 2
      <3>1. IsFiniteSet(FailedOn(q))
        BY <2>1, EventFacts, FS_Subset DEF FailedOn
      <3>2. Cardinality(FailedOn(q)) =< 2
        BY <2>1, <2>2, <3>1, AtMostTwo DEF TwoAttempts
      <3> QED
        BY <3>2 DEF FailedOn
    <2> QED
      BY <2>1, <2>2 DEF AttemptsBounded, Tried
  <1> QED
    BY <1>1, Inductive, PTL

(* The remediation counts of a verdict are those of the ledger             *)
(* (_reconcile_remediation_counts).                                        *)
THEOREM CountsTruthful == Spec => []CountsFromLedger
  <1>1. IInv => CountsFromLedger
    BY DEF IInv, Counted, CountsFromLedger
  <1> QED
    BY <1>1, Inductive, PTL

(* Recorded evidence is the final state of the run (_render_evidence).     *)
THEOREM FinalEvidence == Spec => []EvidenceFinal
  <1>1. IInv => EvidenceFinal
    BY DEF IInv, Reported, Final, EvidenceFinal
  <1> QED
    BY <1>1, Inductive, PTL

(* A run that is declared ready is what was inspected: every blocking      *)
(* check passed on exactly its assets, the manifest matches, nothing is    *)
(* unfinished and nobody is being asked (terminal.compute, _conclude).     *)
THEOREM VerifiedDelivery == Spec => []DeliveryVerified
  <1>1. IInv => DeliveryVerified
    <2> SUFFICES ASSUME IInv, snap.status = "DELIVERY_READY"
                 PROVE  /\ SpecResolved /\ Blocking \subseteq run.passed
                        /\ inspected = run.assets
                        /\ Unfinished = {} /\ ~Pending
                        /\ Checksums \in Blocking => ChecksumsMatch
      BY DEF DeliveryVerified
    <2>1. Inspected /\ OneAtATime /\ Requested
      BY DEF IInv
    <2>2. ~Pending
      BY <2>1 DEF Requested, Pending
    <2>3. Checksums \in Blocking => Checksums # None
      BY OrchestratorAssumption
    <2> QED
      BY <2>1, <2>2, <2>3 DEF Inspected, Judged, OneAtATime
  <1> QED
    BY <1>1, Inductive, PTL

(* No transition is refused after files were changed for it, and           *)
(* exhaustion always blocks.                                               *)
THEOREM NeverLate == Spec => []NeverRefusedLate
  <1>1. IInv => NeverRefusedLate
    <2> SUFFICES ASSUME IInv
                 PROVE  NeverRefusedLate
      OBVIOUS
    <2>0. Placed /\ Coherent /\ Requested /\ InHand /\ Inspected /\ Typed
      BY DEF IInv
    <2>1. At("reinspect") => snap.cycle < MaxCycles
      BY <2>0 DEF Placed, Coherent, At, Remedying, Judging
    <2>2. At("resume") => snap.pending # None /\ auth[call.cap].decision = snap.decision
      BY <2>0 DEF Placed, Coherent, InHand, At, Answering, Approving
    <2>3. At("exhausted") => Verdict = "BLOCKED"
      <3> SUFFICES ASSUME At("exhausted")
                   PROVE  Verdict = "BLOCKED"
        OBVIOUS
      <3>1. ~(Blocking \subseteq run.passed) /\ (\A f \in Finding : ~Open(f)) /\ snap.cycle >= MaxCycles
        BY <2>0 DEF Inspected
      <3>2. snap.cycle \in Nat /\ MaxCycles \in Nat /\ run.offers \subseteq Finding
        BY <2>0, OrchestratorAssumption DEF Typed, Snapshot, Cycle, RunRecord
      <3>3. ~Pending
        BY <2>0, <3>1, <3>2 DEF Requested, Pending, Placed, At, Judging
      <3> QED
        BY <3>1, <3>2, <3>3 DEF Verdict
    <2>4. call.at \in {"execute", "write"} /\ call.phase = "tier2" /\ call.todo # {} =>
             auth[call.cap].status = "ISSUED"
      BY <2>0 DEF InHand, At, Doing
    <2> QED
      BY <2>1, <2>2, <2>3, <2>4 DEF NeverRefusedLate
  <1> QED
    BY <1>1, Inductive, PTL

(* When findings become ready an intact manifest lists every completed     *)
(* mutation, unless refreshing it has failed                               *)
(* (_refresh_generated_manifest).                                          *)
THEOREM FollowedManifest == Spec => []ManifestFollows
  <1>1. IInv => ManifestFollows
    <2> SUFFICES ASSUME IInv, At("ready"), Checksums # None, ManifestPresent,
                        \A c \in Cycle : run.findings[<<"refresh", c>>] # "UNRESOLVED"
                 PROVE  Package \cap Completed \subseteq output[CurrentManifest].covers
      BY DEF ManifestFollows
    <2>0. /\ Typed /\ Logged /\ Placed /\ OneAtATime /\ Filed /\ Covered /\ Refreshing
      BY DEF IInv
    <2>1. snap.status = "INSPECTING"
      BY <2>0 DEF Placed, At
    <2>2. ~Stale
      BY <2>0, <2>1 DEF Refreshing, Fresh, Unrefreshed
    <2>3. CurrentManifest \in Manifests /\ Manifests # {} /\ Intact(CurrentManifest)
      BY <2>0, CurrentIs DEF ManifestPresent
    <2>4. CurrentManifest \in Completed
      <3>1. Unfinished = {}
        BY <2>0, <2>1 DEF OneAtATime
      <3>2. CurrentManifest \notin Failed
        BY <2>0, <2>3 DEF Filed, Intact
      <3>3. CurrentManifest \in Actions
        BY <2>0, <2>3 DEF Logged, Manifests
      <3> QED
        BY <3>1, <3>2, <3>3 DEF Unfinished
    <2>5. ASSUME NEW a \in Package \cap Completed
          PROVE  a \in output[CurrentManifest].covers
      <3>1. ~IsManifest(a) /\ IsManifest(CurrentManifest)
        BY <2>3 DEF Package, Manifests
      <3>2. ~(CompletedAt(a) > CompletedAt(CurrentManifest))
        BY <2>2, <2>3, <2>4, <3>1 DEF Stale
      <3>3. PICK i \in DOMAIN ledger : ledger[i].type = "ACTION_COMPLETED" /\ ledger[i].act = a
        BY DEF Completed, Ends
      <3>4. PICK j \in DOMAIN ledger : ledger[j].type = "ACTION_COMPLETED" /\ ledger[j].act = CurrentManifest
        BY <2>4 DEF Completed, Ends
      <3>5. CompletedAt(a) = i /\ CompletedAt(CurrentManifest) = j /\ i \in Nat /\ j \in Nat
        BY <2>0, <3>3, <3>4, CompletedIs DEF Typed
      <3>6. i # j
        BY <3>1, <3>3, <3>4
      <3>7. CompletedAt(a) < CompletedAt(CurrentManifest)
        BY <3>2, <3>5, <3>6
      <3> QED
        BY <2>0, <2>4, <3>1, <3>7 DEF Covered
    <2> QED
      BY <2>5
  <1> QED
    BY <1>1, Inductive, PTL

-----------------------------------------------------------------------------
(* The snapshot of the one run, as the state machine sees it.              *)
LEMMA Mapped ==
    ASSUME NEW x, snap' = x
    PROVE  [r \in {"run"} |-> snap'] = [[r \in {"run"} |-> snap] EXCEPT !["run"] = x]
  OBVIOUS

(* A new run is a new run of the state machine.                            *)
LEMMA InitMaps == Init => Lifecycle!Init
  BY DEF Init, Lifecycle!Init

(* Every durable write of the snapshot is a step of the state machine that *)
(* its guard accepts; every other write leaves it alone.                   *)
LEMMA StepMaps == IInv /\ [Next]_vars => [Lifecycle!Next]_(Lifecycle!vars)
  <1> SUFFICES ASSUME IInv, [Next]_vars, snap' # snap
               PROVE  Lifecycle!Next
    BY DEF Lifecycle!vars
  <1> DEFINE s == [r \in {"run"} |-> snap]
             cause == [run |-> "run", actor |-> "SYSTEM"]
  <1>0. /\ Typed /\ Placed /\ Coherent /\ Asked /\ Requested /\ InHand /\ Offered
        /\ snap \in Snapshot /\ MaxCycles \in Nat
    BY OrchestratorAssumption DEF IInv, Typed
  <1>1. cause \in Lifecycle!TransitionCause /\ Lifecycle!CauseAccepted("run", cause)
    BY DEF Lifecycle!TransitionCause, Lifecycle!CauseAccepted, Lifecycle!Actor
  <1>2. s["run"] = snap
    OBVIOUS
  <1>3. ASSUME NEW target, snap' = Lifecycle!Proceeded(snap, target),
               <<snap.status, target>> \in Lifecycle!Unguarded, target \in Lifecycle!Status
        PROVE  Lifecycle!Next
    <2>1. PICK x : x = Lifecycle!Proceeded(snap, target)
      OBVIOUS
    <2>2. [r \in {"run"} |-> snap'] = [s EXCEPT !["run"] = x]
      BY <1>3, <2>1, Mapped
    <2>3. Lifecycle!Proceed("run", target, cause)
      BY <1>1, <1>3, <2>1, <2>2 DEF Lifecycle!Proceed
    <2> QED
      BY <1>1, <1>3, <2>3 DEF Lifecycle!Next
  <1>4. CASE Prepare
    <2>1. snap.status \in DOMAIN Successor /\ snap' = Lifecycle!Proceeded(snap, Successor[snap.status])
      BY <1>0, <1>4 DEF Prepare, Placed
    <2>2. PICK target : target = Successor[snap.status]
      OBVIOUS
    <2>3. <<snap.status, target>> \in Lifecycle!Unguarded /\ target \in Lifecycle!Status
      BY <2>1, <2>2 DEF Successor, Lifecycle!Unguarded, Lifecycle!Edges, Lifecycle!Status, Lifecycle!Preparing
    <2> QED
      BY <1>3, <2>1, <2>2, <2>3
  <1>5. CASE FindingsReady \/ FailRun
    <2>1. \/ snap.status = "INSPECTING" /\ snap' = Lifecycle!Proceeded(snap, "FINDINGS_READY")
          \/ snap.status = "REMEDIATING" /\ snap' = Lifecycle!Proceeded(snap, "FAILED")
      BY <1>0, <1>5 DEF FindingsReady, FailRun, Placed, At, Remedying
    <2>2. /\ <<"INSPECTING", "FINDINGS_READY">> \in Lifecycle!Unguarded
          /\ <<"REMEDIATING", "FAILED">> \in Lifecycle!Unguarded
          /\ {"FINDINGS_READY", "FAILED"} \subseteq Lifecycle!Status
      BY DEF Lifecycle!Unguarded, Lifecycle!Edges, Lifecycle!Status, Lifecycle!Terminal
    <2> QED
      BY <1>3, <2>1, <2>2
  <1>6. CASE OfferOptions
    <2>1. PICK offered : offered = {f \in run.offers : Open(f)}
      OBVIOUS
    <2>2. snap.status = "FINDINGS_READY" /\ snap' = [snap EXCEPT !.options = offered]
      BY <1>0, <1>6, <2>1 DEF OfferOptions, Placed, At, Judging
    <2>3. offered \in SUBSET Option
      BY <1>0, <2>1, <2>2, FindingFacts DEF Offered
    <2>4. PICK x : x = [snap EXCEPT !.options = offered]
      OBVIOUS
    <2>5. [r \in {"run"} |-> snap'] = [s EXCEPT !["run"] = x]
      BY <2>2, <2>4, Mapped
    <2>6. [s EXCEPT !["run"].options = offered] = [s EXCEPT !["run"] = x]
      BY <2>4
    <2>7. Lifecycle!OfferOptions("run", offered)
      BY <2>2, <2>5, <2>6 DEF Lifecycle!OfferOptions
    <2> QED
      BY <1>1, <2>3, <2>7 DEF Lifecycle!Next
  <1>7. CASE WithdrawOptions
    <2>1. snap.status = "BLOCKED" /\ snap' = [snap EXCEPT !.options = {}]
      BY <1>0, <1>7 DEF WithdrawOptions, Placed, At
    <2>2. PICK x : x = [snap EXCEPT !.options = {}]
      OBVIOUS
    <2>3. [r \in {"run"} |-> snap'] = [s EXCEPT !["run"] = x]
      BY <2>1, <2>2, Mapped
    <2>4. [s EXCEPT !["run"].options = {}] = [s EXCEPT !["run"] = x]
      BY <2>2
    <2>5. Lifecycle!WithdrawOptions("run")
      BY <2>1, <2>3, <2>4 DEF Lifecycle!WithdrawOptions
    <2> QED
      BY <1>1, <2>5 DEF Lifecycle!Next
  <1>8. CASE ApplyTierOne
    <2>1. PICK p : /\ \E f : p = [run |-> "run", option |-> f]
                   /\ Lifecycle!SelectionAccepted("run", snap, p)
                   /\ snap' = Lifecycle!Proceeded(snap, "REMEDIATING")
      BY <1>8 DEF ApplyTierOne, SelectionOf
    <2>2. p \in Lifecycle!RemediationSelection
      BY <1>0, <2>1 DEF Lifecycle!SelectionAccepted, Lifecycle!RemediationSelection, Snapshot
    <2>3. snap.status = "FINDINGS_READY"
      BY <1>0, <1>8 DEF ApplyTierOne, Diagnosing, Placed, At, Judging
    <2>4. PICK x : x = Lifecycle!Proceeded(snap, "REMEDIATING")
      OBVIOUS
    <2>5. [r \in {"run"} |-> snap'] = [s EXCEPT !["run"] = x]
      BY <2>1, <2>4, Mapped
    <2>6. Lifecycle!Select("run", p, cause)
      BY <1>1, <2>1, <2>3, <2>4, <2>5 DEF Lifecycle!Select
    <2> QED
      BY <1>1, <2>2, <2>6 DEF Lifecycle!Next
  <1>9. CASE Conclude \/ ConcludeGivenUp
    <2>1. PICK target, p : target = Verdict /\ p = TerminalVerdict
      OBVIOUS
    <2>2. /\ snap.status = "FINDINGS_READY" /\ target \in Lifecycle!Outcome
          /\ snap' = Lifecycle!Concluded(snap, target, p)
      BY <1>0, <1>9, <2>1, NoneFacts, VerdictKinds DEF Conclude, ConcludeGivenUp, Placed, At, Judging,
         Lifecycle!Outcome
    <2>3. p = [run |-> "run", cycle |-> snap.cycle, outcome |-> target]
      BY <2>1 DEF TerminalVerdict
    <2>4. p \in Lifecycle!TerminalVerdict /\ Lifecycle!VerdictAccepted("run", snap, target, p)
      BY <1>0, <2>2, <2>3 DEF Lifecycle!TerminalVerdict, Lifecycle!VerdictAccepted, Lifecycle!PayloadCycle,
         Snapshot, Cycle
    <2>5. PICK x : x = Lifecycle!Concluded(snap, target, p)
      OBVIOUS
    <2>6. [r \in {"run"} |-> snap'] = [s EXCEPT !["run"] = x]
      BY <2>2, <2>5, Mapped
    <2>7. Lifecycle!Conclude("run", target, p, cause)
      BY <1>1, <2>2, <2>4, <2>5, <2>6 DEF Lifecycle!Conclude
    <2> QED
      BY <1>1, <2>2, <2>4, <2>7 DEF Lifecycle!Next
  <1>10. CASE Pause
    <2>1. PICK f, p :
             /\ f \in call.todo
             /\ p = [run |-> "run", decision |-> NextDecision - 1, option |-> f]
             /\ Lifecycle!PendingAccepted("run", p)
             /\ snap' = Lifecycle!Paused(snap, p)
      BY <1>10 DEF Pause
    <2>2. At("pause") /\ snap.status = "FINDINGS_READY"
      BY <1>0, <1>10 DEF Pause, Placed, At, Judging
    <2>3. f \in Option /\ NextDecision - 1 \in Decision
      BY <1>0, <2>1, <2>2 DEF Requested, Escalating, Asked, At
    <2>4. p \in Lifecycle!DecisionPending
      BY <2>1, <2>3 DEF Lifecycle!DecisionPending
    <2>5. PICK x : x = Lifecycle!Paused(snap, p)
      OBVIOUS
    <2>6. [r \in {"run"} |-> snap'] = [s EXCEPT !["run"] = x]
      BY <2>1, <2>5, Mapped
    <2>7. Lifecycle!Pause("run", p, cause)
      BY <1>1, <2>1, <2>2, <2>5, <2>6 DEF Lifecycle!Pause
    <2> QED
      BY <1>1, <2>4, <2>7 DEF Lifecycle!Next
  <1>11. CASE Block
    <2>1. snap.status = "AWAITING_HUMAN_DECISION" /\ snap' = Lifecycle!Resumed(snap, "BLOCKED")
      BY <1>0, <1>11 DEF Block, Placed, At, Answering
    <2>2. snap.decision \in Decision
      BY <1>0, <2>1 DEF Coherent, Snapshot
    <2>3. PICK p : p = [run |-> "run", decision |-> snap.decision, choice |-> "DENIED", remain |-> FALSE]
      OBVIOUS
    <2>4. p \in Lifecycle!DecisionResolution /\ Lifecycle!ResolutionAccepted("run", snap, "BLOCKED", p)
      BY <2>2, <2>3 DEF Lifecycle!DecisionResolution, Lifecycle!ResolutionAccepted
    <2>5. PICK x : x = Lifecycle!Resumed(snap, "BLOCKED")
      OBVIOUS
    <2>6. [r \in {"run"} |-> snap'] = [s EXCEPT !["run"] = x]
      BY <2>1, <2>5, Mapped
    <2>7. Lifecycle!Deny("run", "BLOCKED", p, cause)
      BY <1>1, <2>1, <2>4, <2>5, <2>6 DEF Lifecycle!Deny
    <2> QED
      BY <1>1, <2>4, <2>7 DEF Lifecycle!Next
  <1>12. CASE Resume
    <2>1. PICK p : /\ p = [run |-> "run", decision |-> auth[call.cap].decision, option |-> auth[call.cap].option,
                           status |-> "ISSUED"]
                   /\ Lifecycle!AuthorizationAccepted("run", snap, p)
                   /\ snap' = Lifecycle!Resumed(snap, "REMEDIATING")
      BY <1>12 DEF Resume
    <2>2. call.at \in Approving /\ snap.status = "AWAITING_HUMAN_DECISION"
      BY <1>0, <1>12 DEF Resume, Placed, At, Answering, Approving
    <2>3. auth[call.cap] \in Capability
      BY <1>0, <2>2 DEF InHand, Typed
    <2>4. p \in Lifecycle!AuthorizationBinding
      BY <2>1, <2>3 DEF Capability, Lifecycle!AuthorizationBinding
    <2>5. PICK x : x = Lifecycle!Resumed(snap, "REMEDIATING")
      OBVIOUS
    <2>6. [r \in {"run"} |-> snap'] = [s EXCEPT !["run"] = x]
      BY <2>1, <2>5, Mapped
    <2>7. Lifecycle!Approve("run", p, cause)
      BY <1>1, <2>1, <2>2, <2>5, <2>6 DEF Lifecycle!Approve
    <2> QED
      BY <1>1, <2>4, <2>7 DEF Lifecycle!Next
  <1>13. CASE Reinspect
    <2>1. PICK p : /\ p = [run |-> "run", next_cycle |-> snap.cycle + 1]
                   /\ Lifecycle!CompletionAccepted("run", snap, p)
                   /\ snap' = Lifecycle!Reinspected(snap, p)
      BY <1>13 DEF Reinspect
    <2>2. snap.status = "REMEDIATING"
      BY <1>0, <1>13 DEF Reinspect, Placed, At, Remedying
    <2>3. p \in Lifecycle!RemediationCompleted
      BY <1>0, <2>1 DEF Lifecycle!RemediationCompleted, Lifecycle!PayloadCycle, Snapshot, Cycle
    <2>5. PICK x : x = Lifecycle!Reinspected(snap, p)
      OBVIOUS
    <2>6. [r \in {"run"} |-> snap'] = [s EXCEPT !["run"] = x]
      BY <2>1, <2>5, Mapped
    <2>7. Lifecycle!Reinspect("run", p, cause)
      BY <1>1, <2>1, <2>2, <2>5, <2>6 DEF Lifecycle!Reinspect
    <2> QED
      BY <1>1, <2>3, <2>7 DEF Lifecycle!Next
  <1> QED
    BY <1>0, <1>4, <1>5, <1>6, <1>7, <1>8, <1>9, <1>10, <1>11, <1>12, <1>13, SnapEffects

(* The orchestrator implements the run state machine: every transition it  *)
(* makes, in any order of crashes and answers, is an accepted edge with    *)
(* the evidence that edge demands.                                         *)
THEOREM Refinement == Spec => ImplementsLifecycle /\ Lifecycle!Spec
  <1>1. [Lifecycle!Next]_(Lifecycle!vars) => [snap' # snap => Lifecycle!Next]_vars
    <2> SUFFICES ASSUME UNCHANGED Lifecycle!vars
                 PROVE  snap' = snap
      OBVIOUS
    <2>1. [r \in {"run"} |-> snap'] = [r \in {"run"} |-> snap]
      BY DEF Lifecycle!vars
    <2>2. [r \in {"run"} |-> snap']["run"] = [r \in {"run"} |-> snap]["run"]
      BY <2>1
    <2> QED
      BY <2>2
  <1> QED
    BY <1>1, Inductive, InitMaps, StepMaps, PTL DEF Spec, ImplementsLifecycle, Lifecycle!Spec

-----------------------------------------------------------------------------
(* What is proved of the state machine, about the snapshot of the one run. *)
Proved == INSTANCE RunLifecycleProofs WITH
    Run <- {"run"}, Decision <- Decision, Option <- Option,
    Tier <- [f \in Option |-> TierOf(f)],
    snapshot <- [r \in {"run"} |-> snap]

(* It is the state machine the runtime is written against.                 *)
LEMMA SameMachine == Lifecycle!Spec <=> Proved!Spec
  <1>1. Lifecycle!Next <=> Proved!Next
    BY DEF Lifecycle!Next, Proved!Next,
       Lifecycle!Proceed, Proved!Proceed, Lifecycle!BlockUnexecutable, Proved!BlockUnexecutable,
       Lifecycle!Conclude, Proved!Conclude, Lifecycle!Select, Proved!Select, Lifecycle!Pause,
       Proved!Pause, Lifecycle!Approve, Proved!Approve, Lifecycle!Deny, Proved!Deny,
       Lifecycle!Reinspect, Proved!Reinspect, Lifecycle!OfferOptions, Proved!OfferOptions,
       Lifecycle!WithdrawOptions, Proved!WithdrawOptions, Lifecycle!Status, Proved!Status,
       Lifecycle!Terminal, Proved!Terminal, Lifecycle!Preparing, Proved!Preparing,
       Lifecycle!Unguarded, Proved!Unguarded, Lifecycle!Edges, Proved!Edges, Lifecycle!Outcome,
       Proved!Outcome, Lifecycle!PayloadCycle, Proved!PayloadCycle, Lifecycle!TerminalVerdict,
       Proved!TerminalVerdict, Lifecycle!RemediationSelection, Proved!RemediationSelection,
       Lifecycle!DecisionPending, Proved!DecisionPending, Lifecycle!AuthorizationBinding,
       Proved!AuthorizationBinding, Lifecycle!DecisionResolution, Proved!DecisionResolution,
       Lifecycle!RemediationCompleted, Proved!RemediationCompleted,
       Lifecycle!NoExecutableRequirements, Proved!NoExecutableRequirements, Lifecycle!Actor,
       Proved!Actor, Lifecycle!TransitionCause, Proved!TransitionCause, Lifecycle!CauseAccepted,
       Proved!CauseAccepted, Lifecycle!VerdictAccepted, Proved!VerdictAccepted,
       Lifecycle!SelectionAccepted, Proved!SelectionAccepted, Lifecycle!PendingAccepted,
       Proved!PendingAccepted, Lifecycle!AuthorizationAccepted, Proved!AuthorizationAccepted,
       Lifecycle!ResolutionAccepted, Proved!ResolutionAccepted, Lifecycle!CompletionAccepted,
       Proved!CompletionAccepted, Lifecycle!Proceeded, Proved!Proceeded, Lifecycle!Concluded,
       Proved!Concluded, Lifecycle!Paused, Proved!Paused, Lifecycle!Resumed, Proved!Resumed,
       Lifecycle!Reinspected, Proved!Reinspected
  <1>2. Lifecycle!Init <=> Proved!Init
    BY DEF Lifecycle!Init, Proved!Init, Lifecycle!NewSnapshot, Proved!NewSnapshot
  <1>3. UNCHANGED Lifecycle!vars <=> UNCHANGED Proved!vars
    BY DEF Lifecycle!vars, Proved!vars
  <1> QED
    BY <1>1, <1>2, <1>3, PTL DEF Lifecycle!Spec, Proved!Spec

(* The runtime's decisions, options and tiers are as it assumes them.      *)
LEMMA MachineAssumed == Proved!LifecycleAssumption /\ Proved!NoVerdictAssumption
  <1>1. [f \in Option |-> TierOf(f)] \in [Option -> {1, 2}]
    BY DEF TierOf
  <1>2. None \notin Decision /\ None \notin Option
    BY NoneAssumption, OrchestratorAssumption DEF Decision, Option
  <1>3. None \notin Proved!TerminalVerdict
    BY NoneAssumption DEF Proved!TerminalVerdict, Proved!PayloadCycle, Proved!Outcome
  <1> QED
    BY <1>1, <1>2, <1>3, OrchestratorAssumption
       DEF Proved!LifecycleAssumption, Proved!NoVerdictAssumption

(* What the state machine promises of every snapshot, the runtime keeps    *)
(* of the one it writes, wherever the process is killed: a pending option  *)
(* only during a pause, a verdict of the cycle the run ended in, cycles    *)
(* counted one by one up to MAX_CYCLES, and nothing after the end. It      *)
(* follows from the refinement and the theorems about the state machine.   *)
THEOREM SnapshotKeepsPromises ==
    Spec => /\ [](Lifecycle!PendingCoherent /\ Lifecycle!VerdictEarned /\ Lifecycle!CycleBounded)
            /\ Lifecycle!StepDisciplined
  <1>1. Proved!Spec => [](Proved!PendingCoherent /\ Proved!VerdictEarned /\ Proved!CycleBounded)
    BY MachineAssumed, Proved!LifecycleSafe, PTL
  <1>2. Proved!Spec => Proved!StepDisciplined
    BY MachineAssumed, Proved!StepsDisciplined, PTL
  <1>3. Proved!PendingCoherent /\ Proved!VerdictEarned /\ Proved!CycleBounded
           => Lifecycle!PendingCoherent /\ Lifecycle!VerdictEarned /\ Lifecycle!CycleBounded
    BY DEF Proved!PendingCoherent, Lifecycle!PendingCoherent, Proved!VerdictEarned,
       Lifecycle!VerdictEarned, Proved!CycleBounded, Lifecycle!CycleBounded,
       Proved!Preparing, Lifecycle!Preparing
  <1>4. [Proved!StepBody]_Proved!vars => [Lifecycle!StepBody]_Lifecycle!vars
    BY DEF Proved!StepBody, Lifecycle!StepBody, Proved!Terminal, Lifecycle!Terminal,
       Proved!vars, Lifecycle!vars
  <1> QED
    BY <1>1, <1>2, <1>3, <1>4, SameMachine, Refinement, PTL
       DEF Lifecycle!StepDisciplined, Proved!StepDisciplined

-----------------------------------------------------------------------------
(* The writes still to make for the action in hand, and after it.          *)
InAction ==
    [write |-> 5, promote |-> 4, persist |-> 3, fail |-> 2, failed |-> 1, complete |-> 1]
AfterAction ==
    CASE call.phase = "refresh"   -> 6
      [] call.phase = "recover"   -> 14
      [] call.phase = "integrity" -> 3
      [] OTHER                    -> 14 + 6 * Cardinality(call.todo)

(* The writes a call has left to make at most: those of the way it has     *)
(* chosen, six for each option still to be executed, and the way from      *)
(* there to the next findings.                                             *)
WritesLeft ==
    CASE At("idle") -> 0
      [] At("prepare") ->
            3 + [CREATED |-> 6, INGESTING |-> 5, INGESTED |-> 4, INTERPRETING |-> 3,
                 REQUIREMENTS_ADMITTED |-> 2, QC_PLANNED |-> 1][snap.status]
      [] call.at \in Doing -> InAction[call.at] + AfterAction
      [] At("execute") -> 14 + 6 * Cardinality(call.todo)
      [] call.at \in Approving ->
            14 + 6 * Cardinality(call.todo) +
            [resume |-> 1, record_approval |-> 2, approve |-> 3][call.at]
      [] At("recover") -> IF Unfinished = {} THEN 14 ELSE 20
      [] OTHER ->
            [inspect |-> 3, ready |-> 2, offer |-> 1,
             decide |-> 4, exhausted |-> 3, unactionable |-> 3,
             record_request |-> 2, pause |-> 1, evidence |-> 2, record_evidence |-> 1,
             record_denial |-> 5, block |-> 4, withdraw |-> 3, fail_run |-> 3,
             refresh |-> 13, authorize_refresh |-> 12, refreshed |-> 6, finish |-> 5,
             reinspect |-> 4][call.at]

(* The options of a call are findings, finitely many of them.             *)
LEMMA TodoIsFinite ==
    ASSUME Typed, IsFiniteSet(Req)
    PROVE  IsFiniteSet(call.todo) /\ Cardinality(call.todo) \in Nat
  <1>1. IsFiniteSet(Cycle)
    <2>1. MaxCycles \in Int /\ 0 \in Int
      BY OrchestratorAssumption
    <2> QED
      BY <2>1, FS_Interval DEF Cycle
  <1>2. IsFiniteSet(Req \cup {"refresh"})
    BY FS_AddElement
  <1>3. IsFiniteSet(Finding)
    BY <1>1, <1>2, FS_Product DEF Finding
  <1>4. call.todo \subseteq Finding
    BY DEF Typed, CallRecord
  <1>5. IsFiniteSet(call.todo)
    BY <1>3, <1>4, FS_Subset
  <1> QED
    BY <1>5, FS_CardinalityType

(* A call that is under way has a write to make, and not too many.        *)
LEMMA WritesCounted ==
    ASSUME IInv, IsFiniteSet(Req)
    PROVE  /\ WritesLeft \in 0 .. 20 + 6 * Cardinality(call.todo)
           /\ ~At("idle") => WritesLeft > 0
  <1>1. Cardinality(call.todo) \in Nat /\ call.at \in Label
    BY TodoIsFinite DEF IInv, Typed, CallRecord
  <1> DEFINE n == Cardinality(call.todo)
  <1>2. At("prepare") => snap.status \in DOMAIN Successor
    BY DEF IInv, Placed
  <1> HIDE DEF n
  <1>3. AfterAction \in {3, 6, 14, 14 + 6 * n}
    BY DEF AfterAction, n
  <1>4. CASE call.at \in Doing
    <2>1. InAction[call.at] \in 1 .. 5
      BY <1>4 DEF InAction, Doing
    <2>2. WritesLeft = InAction[call.at] + AfterAction
      BY <1>4 DEF WritesLeft, Doing, Approving, At
    <2> QED
      BY <1>1, <1>3, <1>4, <2>1, <2>2 DEF Doing, At, n
  <1>5. CASE call.at \in Approving \cup {"execute"}
    BY <1>1, <1>5 DEF WritesLeft, Approving, Doing, At, n
  <1>6. CASE call.at \in {"idle", "prepare", "recover"}
    BY <1>1, <1>2, <1>6 DEF WritesLeft, Approving, Doing, At, n, Successor
  <1>7. CASE call.at \notin Doing \cup Approving \cup {"execute", "idle", "prepare", "recover"}
    <2>1. WritesLeft \in 1 .. 13
      BY <1>1, <1>7 DEF WritesLeft, Approving, Doing, At, Label
    <2> QED
      BY <1>1, <1>7, <2>1 DEF At, n
  <1> QED
    BY <1>4, <1>5, <1>6, <1>7

(* Each write is made at a place with more to come than the next one has:  *)
(* an action that fails and one that is recovered come back to where the   *)
(* next option, or the end, is.                                            *)
LEMMA WritesFall ==
    ASSUME IInv, IsFiniteSet(Req), Work \/ Raises \/ (Crash /\ ~At("idle"))
    PROVE  WritesLeft' < WritesLeft
  <1>0. /\ Placed /\ Phased /\ OneAtATime /\ Typed /\ Logged
        /\ call \in CallRecord /\ IsFiniteSet(call.todo) /\ Cardinality(call.todo) \in Nat
    BY TodoIsFinite DEF IInv, Typed
  <1>1. WritesLeft \in Nat /\ (~At("idle") => WritesLeft > 0)
    <2>1. 20 + 6 * Cardinality(call.todo) \in Nat
      BY <1>0
    <2> QED
      BY <2>1, WritesCounted
  (* The call returns. *)
  <1>2. ASSUME ~At("idle"), call'.at = "idle" PROVE WritesLeft' < WritesLeft
    <2>1. WritesLeft' = 0
      BY <1>2 DEF WritesLeft, At, Doing, Approving
    <2> QED
      BY <1>1, <1>2, <2>1
  <1>3. CASE Raises \/ (Crash /\ ~At("idle")) \/ OfferOptions \/ Pause \/ RecordEvidence
    BY <1>2, <1>3 DEF Raises, Diagnosing, Appending, Crash, OfferOptions, Pause, RecordEvidence,
       Return, Idle, At
  <1>4. CASE Prepare
    <2>1. /\ At("prepare") /\ snap.status \in DOMAIN Successor
          /\ snap'.status = Successor[snap.status]
      BY <1>0, <1>4 DEF Prepare, Placed, Lifecycle!Proceeded, Typed, Snapshot, IInv
    <2>2. call'.at = IF snap'.status = "INSPECTING" THEN "inspect" ELSE "prepare"
      BY <1>0, <1>4 DEF Prepare, Goto, CallRecord
    <2> QED
      BY <2>1, <2>2 DEF WritesLeft, Successor, At, Doing, Approving
  <1>5. CASE Inspect
    <2>1. At("inspect") /\ call'.at = "ready"
      BY <1>0, <1>5, Jump, Zenon DEF Inspect
    <2> QED
      BY <2>1 DEF WritesLeft, At, Doing, Approving
  <1>6. CASE \/ FindingsReady \/ Conclude \/ Exhaust \/ ConcludeGivenUp
             \/ RecordRequest \/ WriteEvidence \/ RecordDenial \/ Block \/ WithdrawOptions
             \/ FailRun \/ RefreshManifest \/ Refreshed \/ Finish \/ Reinspect
    <2>1. \/ call.at = "ready" /\ call'.at = "offer"
          \/ call.at = "decide" /\ call'.at \in {"evidence", "exhausted"}
          \/ call.at \in {"exhausted", "unactionable"} /\ call'.at = "evidence"
          \/ call.at = "record_request" /\ call'.at = "pause"
          \/ call.at = "evidence" /\ call'.at = "record_evidence"
          \/ call.at = "record_denial" /\ call'.at = "block"
          \/ call.at = "block" /\ call'.at = "withdraw"
          \/ call.at = "withdraw" /\ call'.at = "evidence"
          \/ call.at = "fail_run" /\ call'.at = "evidence"
          \/ call.at = "refresh" /\ call'.at \in {"authorize_refresh", "finish"}
          \/ call.at = "refreshed" /\ call'.at = "finish"
          \/ call.at = "finish" /\ call'.at = "reinspect"
          \/ call.at = "reinspect" /\ call'.at = "inspect"
      BY <1>0, <1>6, Jump DEF FindingsReady, Conclude, Exhaust, ConcludeGivenUp, RecordRequest,
         WriteEvidence, RecordDenial, Block, WithdrawOptions, FailRun, RefreshManifest, Refreshed,
         Finish, Reinspect, At
    <2> QED
      BY <2>1 DEF WritesLeft, At, Doing, Approving
  <1>7. CASE ApproveRequest \/ RecordApproval \/ Resume
    <2>1. /\ call'.todo = call.todo
          /\ \/ call.at = "approve" /\ call'.at = "record_approval"
             \/ call.at = "record_approval" /\ call'.at = "resume"
             \/ call.at = "resume" /\ call'.at = "execute"
      BY <1>0, <1>7 DEF ApproveRequest, RecordApproval, Resume, Goto, At, CallRecord
    <2>2. Cardinality(call'.todo) = Cardinality(call.todo)
      BY <2>1
    <2> QED
      BY <1>0, <2>1, <2>2 DEF WritesLeft, At, Doing, Approving
  <1>8. CASE Execute
    <2>1. PICK f \in First(call.todo) :
             call' = [call EXCEPT !.at = "write", !.todo = @ \ {f}, !.act = Len(output) + 1]
      BY <1>8 DEF Execute
    <2>2. f \in call.todo /\ At("execute") /\ call.phase \in {"tier1", "tier2"}
      BY <1>0, <1>8 DEF First, Execute, Phased
    <2>3. call'.at = "write" /\ call'.todo = call.todo \ {f} /\ call'.phase = call.phase
      BY <1>0, <2>1 DEF CallRecord
    <2>4. Cardinality(call.todo \ {f}) = Cardinality(call.todo) - 1
      BY <1>0, <2>2, FS_RemoveElement
    <2>5. Cardinality(call'.todo) = Cardinality(call.todo) - 1
      BY <2>3, <2>4
    <2> QED
      BY <1>0, <2>2, <2>3, <2>5 DEF WritesLeft, InAction, AfterAction, At, Doing, Approving
  <1>9. CASE Executed
    <2>1. At("execute") /\ call'.at \in {"finish", "refresh"}
      BY <1>0, <1>9 DEF Executed, Goto, CallRecord
    <2> QED
      BY <1>0, <2>1 DEF WritesLeft, At, Doing, Approving
  <1>10. CASE Write \/ Promote \/ Persist \/ Abort \/ Void
    <2>1. /\ call'.phase = call.phase /\ call'.todo = call.todo
          /\ \/ call.at = "write" /\ call'.at \in {"promote", "fail"}
             \/ call.at = "promote" /\ call'.at \in {"persist", "fail"}
             \/ call.at = "persist" /\ call'.at \in {"complete", "fail"}
             \/ call.at = "fail" /\ call'.at = "failed"
      BY <1>0, <1>10 DEF Write, Promote, Persist, Abort, Void, Goto, At, CallRecord
    <2>2. AfterAction' = AfterAction
      BY <2>1 DEF AfterAction
    <2>3. AfterAction \in Nat
      BY <1>0 DEF AfterAction
    <2>4. InAction[call'.at] < InAction[call.at] /\ InAction[call'.at] \in Nat /\ InAction[call.at] \in Nat
      BY <2>1 DEF InAction
    <2>5. WritesLeft = InAction[call.at] + AfterAction
      BY <2>1 DEF WritesLeft, At, Doing, Approving
    <2>6. WritesLeft' = InAction[call'.at] + AfterAction'
      BY <2>1 DEF WritesLeft, At, Doing, Approving
    <2> QED
      BY <2>2, <2>3, <2>4, <2>5, <2>6
  <1>11. CASE Complete \/ Fail
    <2>1. /\ call.at \in {"complete", "failed"} /\ call'.at = Continuation
          /\ call'.phase = call.phase /\ call'.todo = call.todo
      BY <1>0, <1>11 DEF Complete, Fail, Goto, At, CallRecord
    <2>2. WritesLeft = 1 + AfterAction
      <3>1. InAction[call.at] = 1
        BY <2>1 DEF InAction
      <3>2. WritesLeft = InAction[call.at] + AfterAction
        BY <2>1 DEF WritesLeft, At, Doing, Approving
      <3> QED
        BY <3>1, <3>2
    <2>3. Unfinished' = {}
      <3>1. PICK type \in {"ACTION_COMPLETED", "ACTION_FAILED"} :
               ledger' = Append(ledger, [type |-> type, act |-> call.act])
        BY <1>11 DEF Complete, Fail
      <3>2. call.act \in Unfinished /\ UNCHANGED output
        BY <1>0, <1>11, <2>1 DEF Complete, Fail, OneAtATime, Doing
      <3>3. /\ Completed' = Completed \cup (IF type = "ACTION_COMPLETED" THEN {call.act} ELSE {})
            /\ Failed' = Failed \cup (IF type = "ACTION_FAILED" THEN {call.act} ELSE {})
        BY <1>0, <3>1, <3>2, Ended
      <3> QED
        BY <1>0, <3>2, <3>3 DEF Actions, Unfinished, OneAtATime
    <2>4. WritesLeft' = AfterAction
      <3>1. CASE call.phase = "refresh"
        BY <2>1, <3>1 DEF WritesLeft, AfterAction, Continuation, At, Doing, Approving
      <3>2. CASE call.phase = "recover"
        BY <2>1, <2>3, <3>2 DEF WritesLeft, AfterAction, Continuation, At, Doing, Approving
      <3>3. CASE call.phase = "integrity"
        BY <2>1, <3>3 DEF WritesLeft, AfterAction, Continuation, At, Doing, Approving
      <3>4. CASE call.phase \notin {"refresh", "recover", "integrity"}
        BY <2>1, <3>4 DEF WritesLeft, AfterAction, Continuation, At, Doing, Approving
      <3> QED
        BY <3>1, <3>2, <3>3, <3>4
    <2>5. AfterAction \in Nat
      BY <1>0 DEF AfterAction
    <2> QED
      BY <2>2, <2>4, <2>5
  <1>12. CASE Recover
    <2>1. At("recover") /\ call.phase = "recover" /\ Unfinished # {}
      BY <1>0, <1>12 DEF Recover, Phased
    <2>2. WritesLeft = 20
      BY <2>1 DEF WritesLeft, At, Doing, Approving
    <2>3. \/ call'.at \in {"complete", "persist", "fail"} /\ call'.phase = "recover"
          \/ call'.at = "fail" /\ call'.phase = "integrity"
      BY <1>0, <1>12, <2>1 DEF Recover, CallRecord
    <2>4. WritesLeft' \in 5 .. 17
      BY <2>3 DEF WritesLeft, InAction, AfterAction, At, Doing, Approving
    <2> QED
      BY <2>2, <2>4
  <1>13. CASE RecoveryDone
    <2>1. At("recover") /\ Unfinished = {} /\ call'.at = "refresh"
      BY <1>0, <1>13 DEF RecoveryDone, Goto, CallRecord
    <2> QED
      BY <2>1 DEF WritesLeft, At, Doing, Approving
  <1>14. CASE BeginRefresh
    <2>1. At("authorize_refresh") /\ call'.at = "write" /\ call'.phase = "refresh"
      BY <1>0, <1>14 DEF BeginRefresh, At, CallRecord
    <2> QED
      BY <2>1 DEF WritesLeft, InAction, AfterAction, At, Doing, Approving
  <1> QED
    BY <1>3, <1>4, <1>5, <1>6, <1>7, <1>8, <1>9, <1>10, <1>11, <1>12, <1>13, <1>14 DEF Work

(* A call ends: whatever the files say, whichever actions fail or are      *)
(* found unfinished, each write of it leaves fewer to make, and there are  *)
(* six for each of its options and twenty more at most: neither its loop   *)
(* over the options nor the one over unfinished actions goes round for     *)
(* ever (advance, resolve_decision, recover). Requirements are finitely    *)
(* many: they are the files of a package.                                  *)
THEOREM CallsEnd ==
    ASSUME IsFiniteSet(Req)
    PROVE  Spec => /\ [](WritesLeft \in 0 .. 20 + 6 * Cardinality(call.todo))
                   /\ [][Work \/ Raises \/ (Crash /\ ~At("idle")) => WritesLeft' < WritesLeft]_vars
  <1>1. IInv => WritesLeft \in 0 .. 20 + 6 * Cardinality(call.todo)
    BY WritesCounted
  <1>2. IInv /\ [Next]_vars => [Work \/ Raises \/ (Crash /\ ~At("idle")) => WritesLeft' < WritesLeft]_vars
    BY WritesFall
  <1> QED
    BY <1>1, <1>2, Inductive, PTL DEF Spec
=============================================================================
