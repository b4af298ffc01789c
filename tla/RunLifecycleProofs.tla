------------------------- MODULE RunLifecycleProofs -------------------------
(***************************************************************************)
(* The run state machine is safe for every set of runs, decisions and      *)
(* options and every cycle limit.  The conjunction IInv of the four        *)
(* invariants is inductive, and no smaller part of it is: the type of a    *)
(* verdict needs the cycle bound, and that an approval or a denial leaves  *)
(* no pending option behind needs PendingCoherent before the step.         *)
(*                                                                         *)
(* The proof goes run by run: SnapshotOK is IInv for one snapshot, each    *)
(* accepted transition keeps it, and a step changes one run's snapshot.    *)
(***************************************************************************)
EXTENDS RunLifecycle, TLAPS

IInv == TypeOK /\ PendingCoherent /\ VerdictEarned /\ CycleBounded

(* The part of IInv about one snapshot s of run r. *)
SnapshotOK(r, s) ==
    /\ s \in Snapshot
    /\ (s.status = "AWAITING_HUMAN_DECISION") <=> (s.decision # None)
    /\ s.pending # None =>
          s.status = "AWAITING_HUMAN_DECISION" /\ Tier[s.pending] = 2
    /\ s.verdict # None =>
          /\ s.verdict.run = r
          /\ s.verdict.cycle = s.cycle
          /\ s.verdict.outcome = s.status
    /\ s.status = "DELIVERY_READY" => s.verdict # None
    /\ s.cycle =< MaxCycles
    /\ s.status \in Preparing => s.cycle = 0

USE LifecycleAssumption, NoVerdictAssumption

-----------------------------------------------------------------------------
(* An unguarded edge neither starts nor ends a pause, never reaches         *)
(* DELIVERY_READY, never leaves a terminal status, and does not return to  *)
(* the statuses before the first inspection.                               *)
LEMMA UnguardedTargets ==
    ASSUME NEW from, NEW to, <<from, to>> \in Unguarded
    PROVE  /\ to \in Status \ {"AWAITING_HUMAN_DECISION", "DELIVERY_READY"}
           /\ from \notin {"AWAITING_HUMAN_DECISION"} \cup Terminal
           /\ to \in Preparing => from \in Preparing
    BY DEF Unguarded, Edges, Status, Preparing, Terminal

(* The invariant holds exactly when it holds run by run. *)
LEMMA PerRun ==
    IInv <=> /\ snapshot \in [Run -> Snapshot]
             /\ \A r \in Run : SnapshotOK(r, snapshot[r])
    BY DEF IInv, TypeOK, PendingCoherent, VerdictEarned, CycleBounded, SnapshotOK

(* The same in the state after a step. *)
LEMMA PerRunNext ==
    IInv' <=> /\ snapshot' \in [Run -> Snapshot]
              /\ \A r \in Run : SnapshotOK(r, snapshot'[r])
    BY DEF IInv, TypeOK, PendingCoherent, VerdictEarned, CycleBounded, SnapshotOK

(* A step that replaces one run's snapshot by a good one keeps the invariant. *)
LEMMA OneRunStep ==
    ASSUME IInv, NEW r \in Run, NEW s, SnapshotOK(r, s),
           snapshot' = [snapshot EXCEPT ![r] = s]
    PROVE  IInv'
  <1>1. s \in Snapshot
    BY DEF SnapshotOK
  <1>2. snapshot' \in [Run -> Snapshot]
    BY <1>1, PerRun
  <1>3. \A q \in Run : SnapshotOK(q, snapshot'[q])
    BY PerRun
  <1> QED
    BY <1>2, <1>3, PerRunNext

-----------------------------------------------------------------------------
(* The snapshot a run is created with satisfies the invariant. *)
LEMMA InitInv == Init => IInv
  <1> SUFFICES ASSUME Init PROVE IInv
    OBVIOUS
  <1>1. NewSnapshot \in Snapshot
    BY DEF NewSnapshot, Snapshot, Status, Preparing
  <1>2. \A r \in Run : SnapshotOK(r, NewSnapshot)
    BY <1>1 DEF SnapshotOK, NewSnapshot
  <1> QED
    BY <1>1, <1>2, PerRun DEF Init

(* Every action keeps the invariant. *)
LEMMA NextInv == IInv /\ [Next]_vars => IInv'
  <1> SUFFICES ASSUME IInv, [Next]_vars PROVE IInv'
    OBVIOUS
  <1>0. ASSUME NEW r \in Run
        PROVE  SnapshotOK(r, snapshot[r]) /\ snapshot[r] \in Snapshot
    BY PerRun
  <1>1. ASSUME NEW r \in Run, NEW c \in TransitionCause, NEW target \in Status,
               Proceed(r, target, c)
        PROVE  IInv'
    <2> DEFINE s == Proceeded(snapshot[r], target)
    <2>1. /\ target \in Status \ {"AWAITING_HUMAN_DECISION", "DELIVERY_READY"}
          /\ snapshot[r].status \notin {"AWAITING_HUMAN_DECISION"} \cup Terminal
          /\ target \in Preparing => snapshot[r].status \in Preparing
      BY <1>1, UnguardedTargets DEF Proceed
    <2>2. snapshot[r].verdict = None
      BY <1>0, <2>1 DEF SnapshotOK, Terminal, Snapshot, TerminalVerdict, Outcome
    <2>3. SnapshotOK(r, s)
      BY <1>0, <2>1, <2>2 DEF SnapshotOK, Proceeded, Snapshot
    <2> QED
      BY <1>1, <2>3, OneRunStep DEF Proceed
  <1>2. ASSUME NEW r \in Run, NEW c \in TransitionCause,
               NEW p \in NoExecutableRequirements, BlockUnexecutable(r, p, c)
        PROVE  IInv'
    <2> DEFINE s == Proceeded(snapshot[r], "BLOCKED")
    <2>1. snapshot[r].status = "REQUIREMENTS_ADMITTED"
      BY <1>2 DEF BlockUnexecutable
    <2>2. snapshot[r].verdict = None
      BY <1>0, <2>1 DEF SnapshotOK, Snapshot, TerminalVerdict, Outcome
    <2>3. SnapshotOK(r, s)
      BY <1>0, <2>1, <2>2 DEF SnapshotOK, Proceeded, Snapshot, Status, Terminal, Preparing
    <2> QED
      BY <1>2, <2>3, OneRunStep DEF BlockUnexecutable
  <1>3. ASSUME NEW r \in Run, NEW c \in TransitionCause, NEW target \in Outcome,
               NEW p \in TerminalVerdict, Conclude(r, target, p, c)
        PROVE  IInv'
    <2> DEFINE s == Concluded(snapshot[r], target, p)
    <2>F. /\ s.status = target
          /\ s.cycle = snapshot[r].cycle
          /\ s.options = snapshot[r].options
          /\ s.decision = snapshot[r].decision
          /\ s.pending = snapshot[r].pending
          /\ s.verdict = p
      BY <1>0 DEF Concluded, Snapshot
    <2>T. s \in Snapshot
      BY <1>0, <1>3 DEF Concluded, Snapshot, Status, Terminal, Outcome
    <2>1. SnapshotOK(r, s)
      BY <1>0, <1>3, <2>F, <2>T
         DEF SnapshotOK, Conclude, VerdictAccepted, Preparing, Outcome
    <2> QED
      BY <1>3, <2>1, OneRunStep DEF Conclude
  <1>4. ASSUME NEW r \in Run, NEW c \in TransitionCause,
               NEW p \in RemediationSelection, Select(r, p, c)
        PROVE  IInv'
    <2> DEFINE s == Proceeded(snapshot[r], "REMEDIATING")
    <2>1. snapshot[r].status = "FINDINGS_READY"
      BY <1>4 DEF Select
    <2>2. snapshot[r].verdict = None
      BY <1>0, <2>1 DEF SnapshotOK, Snapshot, TerminalVerdict, Outcome
    <2>3. SnapshotOK(r, s)
      BY <1>0, <2>1, <2>2 DEF SnapshotOK, Proceeded, Snapshot, Status, Preparing
    <2> QED
      BY <1>4, <2>3, OneRunStep DEF Select
  <1>5. ASSUME NEW r \in Run, NEW c \in TransitionCause,
               NEW p \in DecisionPending, Pause(r, p, c)
        PROVE  IInv'
    <2> DEFINE s == Paused(snapshot[r], p)
    <2>P. p.decision \in Decision /\ p.option \in Option \cup {None}
      BY DEF DecisionPending
    <2>1. snapshot[r].status = "FINDINGS_READY"
      BY <1>5 DEF Pause
    <2>2. snapshot[r].verdict = None
      BY <1>0, <2>1 DEF SnapshotOK, Snapshot, TerminalVerdict, Outcome
    <2>F. /\ s.status = "AWAITING_HUMAN_DECISION"
          /\ s.cycle = snapshot[r].cycle
          /\ s.options = snapshot[r].options
          /\ s.decision = p.decision
          /\ s.pending = p.option
          /\ s.verdict = snapshot[r].verdict
      BY <1>0 DEF Paused, Snapshot
    <2>T. s \in Snapshot
      BY <1>0, <1>5, <2>P DEF Paused, Snapshot, Status, Terminal, Outcome
    <2>3. SnapshotOK(r, s)
      BY <1>0, <1>5, <2>P, <2>2, <2>F, <2>T
         DEF SnapshotOK, Pause, PendingAccepted, Preparing
    <2> QED
      BY <1>5, <2>3, OneRunStep DEF Pause
  <1>6. ASSUME NEW r \in Run, NEW c \in TransitionCause,
               NEW p \in AuthorizationBinding, Approve(r, p, c)
        PROVE  IInv'
    <2> DEFINE s == Resumed(snapshot[r], "REMEDIATING")
    <2>1. snapshot[r].status = "AWAITING_HUMAN_DECISION"
      BY <1>6 DEF Approve
    <2>2. snapshot[r].verdict = None
      BY <1>0, <2>1 DEF SnapshotOK, Snapshot, TerminalVerdict, Outcome
    <2>F. /\ s.status = "REMEDIATING"
          /\ s.cycle = snapshot[r].cycle
          /\ s.options = snapshot[r].options
          /\ s.decision = None
          /\ s.pending = None
          /\ s.verdict = snapshot[r].verdict
      BY <1>0 DEF Resumed, Snapshot
    <2>T. s \in Snapshot
      BY <1>0 DEF Resumed, Snapshot, Status, Terminal, Outcome
    <2>3. SnapshotOK(r, s)
      BY <1>0, <2>2, <2>F, <2>T DEF SnapshotOK, Preparing
    <2> QED
      BY <1>6, <2>3, OneRunStep DEF Approve
  <1>7. ASSUME NEW r \in Run, NEW c \in TransitionCause,
               NEW target \in {"FINDINGS_READY", "BLOCKED"},
               NEW p \in DecisionResolution, Deny(r, target, p, c)
        PROVE  IInv'
    <2> DEFINE s == Resumed(snapshot[r], target)
    <2>1. snapshot[r].status = "AWAITING_HUMAN_DECISION"
      BY <1>7 DEF Deny
    <2>2. snapshot[r].verdict = None
      BY <1>0, <2>1 DEF SnapshotOK, Snapshot, TerminalVerdict, Outcome
    <2>F. /\ s.status = target
          /\ s.cycle = snapshot[r].cycle
          /\ s.options = snapshot[r].options
          /\ s.decision = None
          /\ s.pending = None
          /\ s.verdict = snapshot[r].verdict
      BY <1>0 DEF Resumed, Snapshot
    <2>T. s \in Snapshot
      BY <1>0 DEF Resumed, Snapshot, Status, Terminal, Outcome
    <2>3. SnapshotOK(r, s)
      BY <1>0, <2>2, <2>F, <2>T DEF SnapshotOK, Preparing
    <2> QED
      BY <1>7, <2>3, OneRunStep DEF Deny
  <1>8. ASSUME NEW r \in Run, NEW c \in TransitionCause,
               NEW p \in RemediationCompleted, Reinspect(r, p, c)
        PROVE  IInv'
    <2> DEFINE s == Reinspected(snapshot[r], p)
    <2>P. p.next_cycle \in Nat
      BY DEF RemediationCompleted, PayloadCycle
    <2>1. /\ snapshot[r].status = "REMEDIATING"
          /\ p.next_cycle = snapshot[r].cycle + 1
          /\ p.next_cycle =< MaxCycles
      BY <1>8 DEF Reinspect, CompletionAccepted
    <2>2. snapshot[r].verdict = None
      BY <1>0, <2>1 DEF SnapshotOK, Snapshot, TerminalVerdict, Outcome
    <2>F. /\ s.status = "INSPECTING"
          /\ s.cycle = p.next_cycle
          /\ s.options = snapshot[r].options
          /\ s.decision = snapshot[r].decision
          /\ s.pending = snapshot[r].pending
          /\ s.verdict = snapshot[r].verdict
      BY <1>0 DEF Reinspected, Snapshot
    <2>T. s \in Snapshot
      BY <1>0, <2>P DEF Reinspected, Snapshot, Status
    <2>3. SnapshotOK(r, s)
      BY <1>0, <2>1, <2>2, <2>F, <2>T DEF SnapshotOK, Preparing
    <2> QED
      BY <1>8, <2>3, OneRunStep DEF Reinspect
  <1>9. ASSUME NEW r \in Run, NEW offered \in SUBSET Option, OfferOptions(r, offered)
        PROVE  IInv'
    <2> DEFINE s == [snapshot[r] EXCEPT !.options = offered]
    <2>1. SnapshotOK(r, s)
      BY <1>0 DEF SnapshotOK, Snapshot
    <2>2. snapshot' = [snapshot EXCEPT ![r] = s]
      BY <1>9 DEF OfferOptions
    <2> QED
      BY <2>1, <2>2, OneRunStep
  <1>10. ASSUME NEW r \in Run, WithdrawOptions(r)
         PROVE  IInv'
    <2> DEFINE s == [snapshot[r] EXCEPT !.options = {}]
    <2>1. SnapshotOK(r, s)
      BY <1>0 DEF SnapshotOK, Snapshot
    <2>2. snapshot' = [snapshot EXCEPT ![r] = s]
      BY <1>10 DEF WithdrawOptions
    <2> QED
      BY <2>1, <2>2, OneRunStep
  <1>11. CASE UNCHANGED vars
    BY <1>11 DEF vars, IInv, TypeOK, PendingCoherent, VerdictEarned, CycleBounded
  <1> QED
    BY <1>1, <1>2, <1>3, <1>4, <1>5, <1>6, <1>7, <1>8, <1>9, <1>10, <1>11 DEF Next
-----------------------------------------------------------------------------
(* state_machine.transition keeps every snapshot well formed. *)
THEOREM TypeCorrect == Spec => []TypeOK
  <1>1. IInv => TypeOK
    BY DEF IInv
  <1> QED
    BY <1>1, InitInv, NextInv, PTL DEF Spec

(* Whatever payloads callers offer, a run waits for a human exactly while  *)
(* it names a pending Tier-2 decision, a verdict in a snapshot is this     *)
(* run's and this cycle's and agrees with the status, and the remediation  *)
(* cycle stays within MAX_CYCLES.                                          *)
THEOREM LifecycleSafe == Spec => [](PendingCoherent /\ VerdictEarned /\ CycleBounded)
  <1>1. IInv => PendingCoherent /\ VerdictEarned /\ CycleBounded
    BY DEF IInv
  <1> QED
    BY <1>1, InitInv, NextInv, PTL DEF Spec

-----------------------------------------------------------------------------
(* What one step may do to one run's snapshot. *)
Disciplined(s, t) ==
    /\ s.status \in Terminal => t.status = s.status /\ t.verdict = s.verdict
    /\ t.cycle # s.cycle =>
          /\ s.status = "REMEDIATING"
          /\ t.status = "INSPECTING"
          /\ t.cycle = s.cycle + 1

(* A step that gives one run a disciplined successor satisfies the body. *)
LEMMA OneRunDisciplined ==
    ASSUME TypeOK, NEW r \in Run, NEW t,
           snapshot' = [snapshot EXCEPT ![r] = t],
           Disciplined(snapshot[r], t)
    PROVE  StepBody
    BY DEF TypeOK, StepBody, Disciplined

(* Every action gives one run a disciplined successor. *)
LEMMA NextDisciplined == TypeOK /\ Next => StepBody
  <1> SUFFICES ASSUME TypeOK, Next PROVE StepBody
    OBVIOUS
  <1>0. ASSUME NEW r \in Run PROVE snapshot[r] \in Snapshot
    BY DEF TypeOK
  <1>1. ASSUME NEW r \in Run, NEW c \in TransitionCause, NEW target \in Status,
               Proceed(r, target, c)
        PROVE  StepBody
    <2>1. snapshot[r].status \notin Terminal
      BY <1>1, UnguardedTargets DEF Proceed
    <2>2. Disciplined(snapshot[r], Proceeded(snapshot[r], target))
      BY <1>0, <2>1 DEF Disciplined, Proceeded, Snapshot
    <2> QED
      BY <1>1, <2>2, OneRunDisciplined DEF Proceed
  <1>2. ASSUME NEW r \in Run, NEW c \in TransitionCause,
               NEW p \in NoExecutableRequirements, BlockUnexecutable(r, p, c)
        PROVE  StepBody
    <2>1. Disciplined(snapshot[r], Proceeded(snapshot[r], "BLOCKED"))
      BY <1>0, <1>2 DEF BlockUnexecutable, Disciplined, Proceeded, Snapshot, Terminal
    <2> QED
      BY <1>2, <2>1, OneRunDisciplined DEF BlockUnexecutable
  <1>3. ASSUME NEW r \in Run, NEW c \in TransitionCause, NEW target \in Outcome,
               NEW p \in TerminalVerdict, Conclude(r, target, p, c)
        PROVE  StepBody
    <2>1. Disciplined(snapshot[r], Concluded(snapshot[r], target, p))
      BY <1>0, <1>3 DEF Conclude, Disciplined, Concluded, Snapshot, Terminal
    <2> QED
      BY <1>3, <2>1, OneRunDisciplined DEF Conclude
  <1>4. ASSUME NEW r \in Run, NEW c \in TransitionCause,
               NEW p \in RemediationSelection, Select(r, p, c)
        PROVE  StepBody
    <2>1. Disciplined(snapshot[r], Proceeded(snapshot[r], "REMEDIATING"))
      BY <1>0, <1>4 DEF Select, Disciplined, Proceeded, Snapshot, Terminal
    <2> QED
      BY <1>4, <2>1, OneRunDisciplined DEF Select
  <1>5. ASSUME NEW r \in Run, NEW c \in TransitionCause,
               NEW p \in DecisionPending, Pause(r, p, c)
        PROVE  StepBody
    <2>1. Disciplined(snapshot[r], Paused(snapshot[r], p))
      BY <1>0, <1>5 DEF Pause, Disciplined, Paused, Snapshot, Terminal
    <2> QED
      BY <1>5, <2>1, OneRunDisciplined DEF Pause
  <1>6. ASSUME NEW r \in Run, NEW c \in TransitionCause,
               NEW p \in AuthorizationBinding, Approve(r, p, c)
        PROVE  StepBody
    <2>1. Disciplined(snapshot[r], Resumed(snapshot[r], "REMEDIATING"))
      BY <1>0, <1>6 DEF Approve, Disciplined, Resumed, Snapshot, Terminal
    <2> QED
      BY <1>6, <2>1, OneRunDisciplined DEF Approve
  <1>7. ASSUME NEW r \in Run, NEW c \in TransitionCause,
               NEW target \in {"FINDINGS_READY", "BLOCKED"},
               NEW p \in DecisionResolution, Deny(r, target, p, c)
        PROVE  StepBody
    <2>1. Disciplined(snapshot[r], Resumed(snapshot[r], target))
      BY <1>0, <1>7 DEF Deny, Disciplined, Resumed, Snapshot, Terminal
    <2> QED
      BY <1>7, <2>1, OneRunDisciplined DEF Deny
  <1>8. ASSUME NEW r \in Run, NEW c \in TransitionCause,
               NEW p \in RemediationCompleted, Reinspect(r, p, c)
        PROVE  StepBody
    <2>1. Disciplined(snapshot[r], Reinspected(snapshot[r], p))
      BY <1>0, <1>8
         DEF Reinspect, CompletionAccepted, Disciplined, Reinspected, Snapshot, Terminal
    <2> QED
      BY <1>8, <2>1, OneRunDisciplined DEF Reinspect
  <1>9. ASSUME NEW r \in Run, NEW offered \in SUBSET Option,
               snapshot' = [snapshot EXCEPT ![r].options = offered]
        PROVE  StepBody
    <2>1. Disciplined(snapshot[r], [snapshot[r] EXCEPT !.options = offered])
      BY <1>0 DEF Disciplined, Snapshot
    <2> QED
      BY <1>9, <2>1, OneRunDisciplined
  <1> QED
    BY <1>1, <1>2, <1>3, <1>4, <1>5, <1>6, <1>7, <1>8, <1>9
       DEF Next, OfferOptions, WithdrawOptions

(* No step leaves a terminal status or counts a cycle anywhere but between *)
(* a remediation and the next inspection.                                  *)
THEOREM StepsDisciplined == Spec => StepDisciplined
  <1>1. IInv /\ [Next]_vars => [StepBody]_vars
    BY NextDisciplined DEF IInv
  <1> QED
    BY <1>1, InitInv, NextInv, PTL DEF Spec, StepDisciplined
=============================================================================
