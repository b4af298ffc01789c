---------------------------- MODULE RunLifecycle ----------------------------
(***************************************************************************)
(* The run state machine of aircheck/domain/state_machine.py: which edges  *)
(* exist, which typed evidence each guarded edge demands, and what an      *)
(* accepted transition writes into the run's snapshot.                     *)
(*                                                                         *)
(* `transition` is a pure function of a snapshot, a target, a cause and a  *)
(* guard payload; every caller may offer any payload, also one of another  *)
(* run, another cycle or another decision.  The actions below therefore    *)
(* quantify over all payloads and keep the accepted ones; a refused one    *)
(* raises InvalidStateTransition and leaves the snapshot alone.            *)
(*                                                                         *)
(* An Option stands for one exact binding (finding, option id, args hash): *)
(* a binding that differs in any of these is another Option.               *)
(***************************************************************************)
EXTENDS Integers

CONSTANTS
    Run,        \* run identifiers
    Decision,   \* decision-request identifiers
    Option,     \* exact option bindings
    Tier,       \* [Option -> {1, 2}], the authority tier of an option's tool
    MaxCycles,  \* MAX_CYCLES
    None        \* Python's None

ASSUME LifecycleAssumption ==
    /\ Tier \in [Option -> {1, 2}]
    /\ MaxCycles \in Nat
    /\ None \notin Decision
    /\ None \notin Option

VARIABLE snapshot   \* [Run -> Snapshot], the RunStateSnapshot of every run

vars == <<snapshot>>

-----------------------------------------------------------------------------
(* Statuses and edges *)

Terminal == {"DELIVERY_READY", "BLOCKED", "FAILED"}

(* The statuses before the first inspection has produced findings. *)
Preparing == {"CREATED", "INGESTING", "INGESTED", "INTERPRETING",
              "REQUIREMENTS_ADMITTED", "QC_PLANNED"}

Status == Preparing \cup {"INSPECTING", "FINDINGS_READY", "REMEDIATING",
                          "AWAITING_HUMAN_DECISION"} \cup Terminal

(* _TRANSITIONS, as the set of (from, to) pairs. *)
Edges ==
    { <<"CREATED", "INGESTING">>,
      <<"INGESTING", "INGESTED">>, <<"INGESTING", "FAILED">>,
      <<"INGESTED", "INTERPRETING">>,
      <<"INTERPRETING", "REQUIREMENTS_ADMITTED">>, <<"INTERPRETING", "FAILED">>,
      <<"REQUIREMENTS_ADMITTED", "QC_PLANNED">>, <<"REQUIREMENTS_ADMITTED", "BLOCKED">>,
      <<"QC_PLANNED", "INSPECTING">>,
      <<"INSPECTING", "FINDINGS_READY">>, <<"INSPECTING", "FAILED">>,
      <<"FINDINGS_READY", "DELIVERY_READY">>, <<"FINDINGS_READY", "BLOCKED">>,
      <<"FINDINGS_READY", "REMEDIATING">>,
      <<"FINDINGS_READY", "AWAITING_HUMAN_DECISION">>,
      <<"REMEDIATING", "INSPECTING">>, <<"REMEDIATING", "FAILED">>,
      <<"AWAITING_HUMAN_DECISION", "REMEDIATING">>,
      <<"AWAITING_HUMAN_DECISION", "FINDINGS_READY">>,
      <<"AWAITING_HUMAN_DECISION", "BLOCKED">> }

-----------------------------------------------------------------------------
(* Evidence *)

Outcome == {"DELIVERY_READY", "BLOCKED"}

(* The cycle numbers a payload may carry: one more than any run reaches, so *)
(* that a payload past the limit can be offered. *)
PayloadCycle == 0..(MaxCycles + 1)

TerminalVerdict == [run : Run, cycle : PayloadCycle, outcome : Outcome]

ASSUME NoVerdictAssumption == None \notin TerminalVerdict

RemediationSelection == [run : Run, option : Option]

DecisionPending == [run : Run, decision : Decision, option : Option \cup {None}]

AuthorizationBinding ==
    [run : Run, decision : Decision, option : Option,
     status : {"ISSUED", "CONSUMED", "VOID"}]

DecisionResolution ==
    [run : Run, decision : Decision, choice : {"APPROVED", "DENIED"},
     remain : BOOLEAN]

RemediationCompleted == [run : Run, next_cycle : PayloadCycle \ {0}]

NoExecutableRequirements == [run : Run]

(* Who asks: the actor is compared case-insensitively with "agent". *)
Actor == {"SYSTEM", "AGENT", "agent"}
TransitionCause == [run : Run, actor : Actor]
CauseAccepted(r, c) == c.run = r /\ c.actor \notin {"AGENT", "agent"}

Snapshot ==
    [status   : Status,
     cycle    : Nat,
     options  : SUBSET Option,            \* admissible_options
     decision : Decision \cup {None},     \* pending_decision_id
     pending  : Option \cup {None},       \* pending_option
     verdict  : TerminalVerdict \cup {None}]

NewSnapshot ==
    [status |-> "CREATED", cycle |-> 0, options |-> {}, decision |-> None,
     pending |-> None, verdict |-> None]

-----------------------------------------------------------------------------
(* The guards: one operator per guarded edge, over run r's snapshot s and  *)
(* the payload p offered for it.                                           *)

VerdictAccepted(r, s, target, p) ==
    p.run = r /\ p.cycle = s.cycle /\ p.outcome = target

SelectionAccepted(r, s, p) ==
    /\ p.run = r
    /\ Tier[p.option] = 1
    /\ p.option \in s.options

PendingAccepted(r, p) ==
    /\ p.run = r
    /\ p.option # None => Tier[p.option] = 2

AuthorizationAccepted(r, s, p) ==
    /\ p.status = "ISSUED"
    /\ s.pending # None
    /\ p.run = r /\ p.decision = s.decision /\ p.option = s.pending

ResolutionAccepted(r, s, target, p) ==
    /\ p.run = r /\ p.decision = s.decision
    /\ p.choice = "DENIED"
    /\ p.remain = (target = "FINDINGS_READY")

(* Seeded fault: cycles may be skipped. *)
FaultSkippedCycle(r, s, p) ==
    p.run = r /\ p.next_cycle > s.cycle /\ p.next_cycle =< MaxCycles

CompletionAccepted(r, s, p) ==
    /\ p.run = r
    /\ p.next_cycle = s.cycle + 1
    /\ p.next_cycle =< MaxCycles

-----------------------------------------------------------------------------
(* What an accepted transition writes; everything else is model_copy'd.    *)

Proceeded(s, target) == [s EXCEPT !.status = target]

Concluded(s, target, v) == [s EXCEPT !.status = target, !.verdict = v]

Paused(s, p) ==
    [s EXCEPT !.status = "AWAITING_HUMAN_DECISION",
              !.decision = p.decision, !.pending = p.option]

(* Seeded fault: the pending decision is left in the snapshot. *)
FaultResumed(s, target) == [s EXCEPT !.status = target]

Resumed(s, target) ==
    [s EXCEPT !.status = target, !.decision = None, !.pending = None]

Reinspected(s, p) ==
    [s EXCEPT !.status = "INSPECTING", !.cycle = p.next_cycle]

-----------------------------------------------------------------------------
(* Actions: one per class of edge.                                         *)

(* The edges _guard does not look at: any payload is accepted. *)
Unguarded ==
    { e \in Edges :
        /\ e[1] \notin {"FINDINGS_READY", "AWAITING_HUMAN_DECISION"}
        /\ e \notin { <<"REQUIREMENTS_ADMITTED", "BLOCKED">>,
                      <<"REMEDIATING", "INSPECTING">> } }

Proceed(r, target, c) ==
    /\ CauseAccepted(r, c)
    /\ <<snapshot[r].status, target>> \in Unguarded
    /\ snapshot' = [snapshot EXCEPT ![r] = Proceeded(@, target)]

(* REQUIREMENTS_ADMITTED -> BLOCKED on NoExecutableRequirements. *)
BlockUnexecutable(r, p, c) ==
    /\ CauseAccepted(r, c)
    /\ snapshot[r].status = "REQUIREMENTS_ADMITTED"
    /\ p.run = r
    /\ snapshot' = [snapshot EXCEPT ![r] = Proceeded(@, "BLOCKED")]

(* FINDINGS_READY -> DELIVERY_READY or BLOCKED on a TerminalVerdict. *)
Conclude(r, target, p, c) ==
    /\ CauseAccepted(r, c)
    /\ snapshot[r].status = "FINDINGS_READY"
    /\ VerdictAccepted(r, snapshot[r], target, p)
    /\ snapshot' = [snapshot EXCEPT ![r] = Concluded(@, target, p)]

(* FINDINGS_READY -> REMEDIATING on a Tier-1 RemediationSelection. *)
Select(r, p, c) ==
    /\ CauseAccepted(r, c)
    /\ snapshot[r].status = "FINDINGS_READY"
    /\ SelectionAccepted(r, snapshot[r], p)
    /\ snapshot' = [snapshot EXCEPT ![r] = Proceeded(@, "REMEDIATING")]

(* FINDINGS_READY -> AWAITING_HUMAN_DECISION on DecisionPending. *)
Pause(r, p, c) ==
    /\ CauseAccepted(r, c)
    /\ snapshot[r].status = "FINDINGS_READY"
    /\ PendingAccepted(r, p)
    /\ snapshot' = [snapshot EXCEPT ![r] = Paused(@, p)]

(* AWAITING_HUMAN_DECISION -> REMEDIATING on an issued authorization. *)
Approve(r, p, c) ==
    /\ CauseAccepted(r, c)
    /\ snapshot[r].status = "AWAITING_HUMAN_DECISION"
    /\ AuthorizationAccepted(r, snapshot[r], p)
    /\ snapshot' = [snapshot EXCEPT ![r] = Resumed(@, "REMEDIATING")]

(* AWAITING_HUMAN_DECISION -> FINDINGS_READY or BLOCKED on a denial. *)
Deny(r, target, p, c) ==
    /\ CauseAccepted(r, c)
    /\ snapshot[r].status = "AWAITING_HUMAN_DECISION"
    /\ ResolutionAccepted(r, snapshot[r], target, p)
    /\ snapshot' = [snapshot EXCEPT ![r] = Resumed(@, target)]

(* REMEDIATING -> INSPECTING on RemediationCompleted: the next cycle. *)
Reinspect(r, p, c) ==
    /\ CauseAccepted(r, c)
    /\ snapshot[r].status = "REMEDIATING"
    /\ CompletionAccepted(r, snapshot[r], p)
    /\ snapshot' = [snapshot EXCEPT ![r] = Reinspected(@, p)]

(* The runtime replaces admissible_options outside any transition: after   *)
(* an inspection with the options of the open findings, after a denial     *)
(* with none.                                                              *)
OfferOptions(r, offered) ==
    /\ snapshot[r].status = "FINDINGS_READY"
    /\ snapshot' = [snapshot EXCEPT ![r].options = offered]

WithdrawOptions(r) ==
    /\ snapshot[r].status = "BLOCKED"
    /\ snapshot' = [snapshot EXCEPT ![r].options = {}]

Init == snapshot = [r \in Run |-> NewSnapshot]

Next ==
    \E r \in Run, c \in TransitionCause :
        \/ \E target \in Status : Proceed(r, target, c)
        \/ \E p \in NoExecutableRequirements : BlockUnexecutable(r, p, c)
        \/ \E target \in Outcome, p \in TerminalVerdict : Conclude(r, target, p, c)
        \/ \E p \in RemediationSelection : Select(r, p, c)
        \/ \E p \in DecisionPending : Pause(r, p, c)
        \/ \E p \in AuthorizationBinding : Approve(r, p, c)
        \/ \E target \in {"FINDINGS_READY", "BLOCKED"}, p \in DecisionResolution :
              Deny(r, target, p, c)
        \/ \E p \in RemediationCompleted : Reinspect(r, p, c)
        \/ \E offered \in SUBSET Option : OfferOptions(r, offered)
        \/ WithdrawOptions(r)

Spec == Init /\ [][Next]_vars

-----------------------------------------------------------------------------
(* Properties *)

(* Every snapshot is a RunStateSnapshot. *)
TypeOK == snapshot \in [Run -> Snapshot]

(* A run waits for a human exactly while its snapshot names the decision   *)
(* it waits for, and an option is pending only then and is Tier-2: no path *)
(* through approval, denial or remediation leaves a stale pending decision *)
(* behind for a later authorization to match.                              *)
PendingCoherent ==
    \A r \in Run :
        LET s == snapshot[r] IN
        /\ (s.status = "AWAITING_HUMAN_DECISION") <=> (s.decision # None)
        /\ s.pending # None =>
              s.status = "AWAITING_HUMAN_DECISION" /\ Tier[s.pending] = 2

(* A verdict in a snapshot was computed for this run in the cycle the run  *)
(* ended in, and says what the status says; only BLOCKED may lack one      *)
(* (denial and NoExecutableRequirements carry no verdict).                 *)
VerdictEarned ==
    \A r \in Run :
        LET s == snapshot[r] IN
        /\ s.verdict # None =>
              /\ s.verdict.run = r
              /\ s.verdict.cycle = s.cycle
              /\ s.verdict.outcome = s.status
        /\ s.status = "DELIVERY_READY" => s.verdict # None

(* The remediation cycle never passes MAX_CYCLES, and is still 0 while the *)
(* run has not been inspected.                                             *)
CycleBounded ==
    \A r \in Run :
        /\ snapshot[r].cycle =< MaxCycles
        /\ snapshot[r].status \in Preparing => snapshot[r].cycle = 0

(* A step moves one run; no step takes a run out of a terminal status or   *)
(* changes its verdict or cycle afterwards, and the cycle counts up by one *)
(* only when a remediation hands over to the next inspection.              *)
StepBody ==
    \A r \in Run :
        /\ snapshot'[r] # snapshot[r] =>
              \A q \in Run \ {r} : snapshot'[q] = snapshot[q]
        /\ snapshot[r].status \in Terminal =>
              /\ snapshot'[r].status = snapshot[r].status
              /\ snapshot'[r].verdict = snapshot[r].verdict
        /\ snapshot'[r].cycle # snapshot[r].cycle =>
              /\ snapshot[r].status = "REMEDIATING"
              /\ snapshot'[r].status = "INSPECTING"
              /\ snapshot'[r].cycle = snapshot[r].cycle + 1

(* Every step of a behaviour is disciplined in that sense: one run moves,  *)
(* terminal runs keep their verdict, and cycles are counted one by one.    *)
StepDisciplined == [][StepBody]_vars
=============================================================================
