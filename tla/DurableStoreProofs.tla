------------------------- MODULE DurableStoreProofs -------------------------
(***************************************************************************)
(* The durable store's write-ahead logging, for any identifiers and any    *)
(* number of transitions and kills.                                        *)
(*                                                                         *)
(* Three things hold however many processes open the store: the ledger is  *)
(* append-only, nothing is used twice (SingleUse), and what a process does *)
(* with the store ends (OperationsEnd).  The other properties need the     *)
(* store to be opened by one process at a time (Alone), which is how the   *)
(* application runs it; MCDurableStoreReplay shows that two would start an *)
(* action twice.                                                           *)
(***************************************************************************)
EXTENDS DurableStore, TLAPS, FiniteSetTheorems, SequenceTheorems

-----------------------------------------------------------------------------
(* The invariant, any number of processes. *)

Transitions == [type : {"STATE_TRANSITION"}, id : 1..MaxTransitions, to : Status]
Starts == [type : {"ACTION_STARTED"}, id : Action]
Ends == [type : {"ACTION_COMPLETED", "ACTION_FAILED"}, id : Action]
Event == Transitions \cup Starts \cup Ends
Grants == [type : {"AUTHORIZATION"}, id : Auth]

Chained == [seq : Nat, prev : Event \cup {None}]
Commit == [event : Transitions, head : Chained]
Job == [event : Event \cup Grants, head : Chained \cup {None}]

Label ==
    {"down", "ready", "scan_actions", "scan_transitions", "journal", "match", "check", "save",
     "unlink_transition", "lock", "append", "unlock", "issue", "issuing", "issued", "authorize",
     "consume", "consuming", "consumed", "refused", "starts", "chain", "unlink_action", "void",
     "voiding", "voided"}

(* Every file and every process variable has its type. *)
Typed ==
    /\ ledger \in Seq(Event)
    /\ snap \in [status : Status \cup {"CREATED"}, id : Nat]
    /\ tjournal \subseteq Commit /\ ajournal \subseteq Action
    /\ auth \in [Auth -> [status : {"NONE", "ISSUED", "CONSUMED", "VOID"}, by : Action \cup {None}]]
    /\ lock \in Proc \cup {None, Orphan} /\ alock \in [Auth -> Proc \cup {None, Orphan}]
    /\ pc \in [Proc -> Label] /\ opening \in [Proc -> BOOLEAN]
    /\ job \in [Proc -> Job \cup {None}] /\ todo \in [Proc -> SUBSET (Commit \cup Action)]
    /\ owner \in [Action -> Proc \cup {None}]
    /\ issued \in 0..MaxTransitions /\ crashes \in Nat

Appending == {"lock", "append", "unlock"}
Committing(p) ==
    \/ pc[p] \in {"journal", "match", "check", "save", "unlink_transition"}
    \/ pc[p] \in Appending /\ job[p].event.type = "STATE_TRANSITION"
Beginning(p) ==
    \/ pc[p] \in {"authorize", "consume", "consuming", "consumed", "refused", "starts", "unlink_action"}
    \/ pc[p] \in Appending \cup {"chain"} /\ job[p].event.type = "ACTION_STARTED"
Ending(p) ==
    \/ pc[p] \in {"void", "voiding", "voided"}
    \/ pc[p] \in Appending \cup {"chain"} /\ job[p].event.type \in {"ACTION_COMPLETED", "ACTION_FAILED"}

(* A process is at a step that its event has. *)
Employed ==
    \A p \in Proc :
        /\ pc[p] \in Label \ {"down", "ready", "scan_actions", "scan_transitions"} => job[p] \in Job
        /\ Committing(p) => job[p] \in Commit
        /\ pc[p] \in {"authorize", "consume", "consuming", "consumed", "refused", "starts", "unlink_action"}
             => job[p].event \in Starts
        /\ pc[p] \in {"issue", "issuing", "issued"} => job[p].event \in Grants
        /\ pc[p] \in {"void", "voiding", "voided"} =>
             job[p].event \in Ends /\ job[p].event.type = "ACTION_FAILED"
        /\ pc[p] = "chain" => job[p].event \in Starts \cup Ends
        /\ pc[p] \in Appending => job[p].head \in Chained /\ job[p].event \in Event

(* The ledger's lock file is held by the process that appends. *)
Locked == \A p \in Proc : lock = p <=> pc[p] \in {"append", "unlock"}

(* An authorization's lock file is held by the process that changes it.    *)
Holding == {"issuing", "issued", "consuming", "consumed", "voiding", "voided"}
Guarded ==
    \A p \in Proc, x \in Auth : alock[x] = p <=> pc[p] \in Holding /\ Capability(p) = x

(* The transitions under way: a journal, and a process that works on one.  *)
Commits == tjournal \cup {job[p] : p \in {q \in Proc : Committing(q)}}

(* A transition is chained to one place of the ledger and can only be      *)
(* there, however many processes replay its journal.                       *)
Once ==
    /\ \A j \in Commits : j.event.id =< issued
    /\ \A j, k \in Commits : j.event.id = k.event.id => j = k
    /\ \A i \in TransitionIndexes : ledger[i].id =< issued
    /\ \A j \in Commits : \A i \in TransitionIndexes : ledger[i].id = j.event.id => j.head.seq = i
    /\ \A i, k \in TransitionIndexes : ledger[i].id = ledger[k].id => i = k

(* An action that is started, or is about to be, has its authorization. *)
PaidFor(a) == auth[AuthOf[a]].by = a /\ auth[AuthOf[a]].status \in {"CONSUMED", "VOID"}
Starting(p) ==
    pc[p] \in {"consumed", "starts", "chain", "lock", "append"} /\ job[p].event.type = "ACTION_STARTED"
Paid ==
    /\ \A a \in Action : Has("ACTION_STARTED", a) => PaidFor(a)
    /\ \A p \in Proc : Starting(p) => PaidFor(job[p].event.id)

SharedInv == Typed /\ Employed /\ Locked /\ Guarded /\ Once /\ Paid

-----------------------------------------------------------------------------
(* The invariant of a process that has the store for itself. *)

(* At most one process opens the store. *)
Alone == \A p, q \in Proc : p = q

(* The journal of p's work stays until it is done; replay has listed the   *)
(* other ones.                                                             *)
Journaled(p) ==
    /\ Committing(p) /\ pc[p] # "journal" => job[p] \in tjournal
    /\ Beginning(p) => job[p].event.id \in ajournal
    /\ Ending(p) => job[p].event.id \notin ajournal
    /\ opening[p] => pc[p] \notin {"down", "ready", "journal", "issue", "issuing", "issued"} /\ ~Ending(p)
    /\ pc[p] \in {"scan_actions", "scan_transitions"} => opening[p]
    /\ pc[p] = "scan_actions" => todo[p] = ajournal
    /\ pc[p] = "scan_transitions" => todo[p] = tjournal /\ ajournal = {}
    /\ opening[p] /\ Beginning(p) => todo[p] = ajournal \ {job[p].event.id}
    /\ opening[p] /\ Committing(p) => todo[p] = tjournal \ {job[p]} /\ ajournal = {}

(* p appends an event if and only if the ledger does not have it. *)
Undone(p) ==
    /\ pc[p] \in {"lock", "append"} /\ Committing(p) => ~Has("STATE_TRANSITION", job[p].event.id)
    /\ pc[p] \in {"check", "save", "unlink_transition"} \/ (pc[p] = "unlock" /\ Committing(p)) =>
          Has("STATE_TRANSITION", job[p].event.id)
    /\ pc[p] \in {"chain", "lock", "append"} /\ Beginning(p) => ~Has("ACTION_STARTED", job[p].event.id)
    /\ pc[p] \in {"unlock", "unlink_action"} /\ Beginning(p) => Has("ACTION_STARTED", job[p].event.id)
    /\ pc[p] # "unlock" /\ Ending(p) => Unfinished(job[p].event.id)
    /\ pc[p] = "journal" => job[p].head = LedgerHead
    /\ pc[p] \in {"lock", "append"} /\ (Beginning(p) \/ Ending(p)) => job[p].head = LedgerHead

(* The ledger has each start once, and each end once and after its start. *)
Ordered ==
    /\ \A i, k \in DOMAIN ledger : ledger[i] \in Starts /\ ledger[k] = ledger[i] => i = k
    /\ \A i, k \in DOMAIN ledger :
          ledger[i] \in Ends /\ ledger[k] \in Ends /\ ledger[k].id = ledger[i].id => i = k
    /\ \A i \in DOMAIN ledger :
          ledger[i] \in Ends => \E j \in 1..(i - 1) : ledger[j] = Started(ledger[i].id)

(* What is spent is spent on an action that has, or will have, its start. *)
Spent(x) ==
    /\ auth[x].status \in {"NONE", "ISSUED"} => auth[x].by = None
    /\ auth[x].status \in {"CONSUMED", "VOID"} =>
          /\ auth[x].by \in Action /\ AuthOf[auth[x].by] = x
          /\ Has("ACTION_STARTED", auth[x].by) \/ auth[x].by \in ajournal
    /\ auth[x].status = "VOID" => Has("ACTION_STARTED", auth[x].by)

(* What p relies on after it has looked at an authorization. *)
Entitled(p) ==
    /\ pc[p] \in {"issue", "issuing"} => auth[Capability(p)].status = "NONE"
    /\ pc[p] \in {"consume", "consuming"} => auth[Capability(p)].status = "ISSUED"
    /\ pc[p] # "refused"
    /\ Ending(p) /\ pc[p] \notin {"void", "voiding", "unlock"} =>
          auth[AuthOf[job[p].event.id]].status =
            IF job[p].event.type = "ACTION_COMPLETED" THEN "CONSUMED" ELSE "VOID"

(* A journalled transition that is in the ledger is the last one there,    *)
(* and the snapshot is of the last one unless that one has its journal.    *)
Latest ==
    /\ TransitionIndexes # {} => \E i \in TransitionIndexes : \A j \in TransitionIndexes : j =< i
    /\ \A j \in tjournal : Has("STATE_TRANSITION", j.event.id) => ledger[LastTransition] = j.event
    /\ TransitionIndexes = {} => snap.id = 0
    /\ TransitionIndexes # {} =>
          \/ snap.id = ledger[LastTransition].id
          \/ \E j \in tjournal : j.event = ledger[LastTransition]
    /\ \A p \in Proc : pc[p] = "unlink_transition" => snap.id = job[p].event.id

(* Unless a kill left the ledger's lock file behind, one journal is        *)
(* pending at most and none once the store is open; a transition still to  *)
(* be appended is chained to the ledger's head.  Action journals that      *)
(* cannot be replayed are left out: an orphaned lock file blocks them.     *)
Live == {a \in ajournal : ~Blocked(a)}
Pending ==
    lock # Orphan =>
        /\ \A j, k \in tjournal : j = k
        /\ \A a, b \in Live : a = b
        /\ tjournal = {} \/ Live = {}
        /\ \A j \in tjournal : Has("STATE_TRANSITION", j.event.id) \/ j.head = LedgerHead
        /\ \A p \in Proc :
              /\ pc[p] \in {"ready", "journal", "issue", "issuing", "issued"} \/ Ending(p) =>
                    tjournal = {} /\ Live = {}
              /\ Beginning(p) /\ ~opening[p] => tjournal = {} /\ Live \subseteq {job[p].event.id}

AloneInv ==
    /\ \A p \in Proc : Journaled(p) /\ Undone(p) /\ Entitled(p)
    /\ \A x \in Auth : Spent(x)
    /\ Ordered /\ Latest /\ Pending

(* Every action presents its own authorization. *)
OwnAuthorizations == \A a, b \in Action : AuthOf[a] = AuthOf[b] => a = b

(* A journalled action can always consume, or has consumed. *)
Authority ==
    /\ raised \subseteq {"timeout"}
    /\ \A a \in ajournal :
          \/ auth[AuthOf[a]].status = "ISSUED"
          \/ auth[AuthOf[a]] = [status |-> "CONSUMED", by |-> a]

-----------------------------------------------------------------------------
(* The ledger's events by kind.                                            *)
LEMMA EventFacts ==
    /\ \A n \in 1..MaxTransitions, s \in Status : Transition(n, s) \in Transitions
    /\ \A a \in Action : Started(a) \in Starts
    /\ \A a \in Action, type \in {"ACTION_COMPLETED", "ACTION_FAILED"} : End(type, a) \in Ends
    /\ \A e \in Event :
          /\ e.type \in {"STATE_TRANSITION", "ACTION_STARTED", "ACTION_COMPLETED", "ACTION_FAILED"}
          /\ e \in Transitions <=> e.type = "STATE_TRANSITION"
          /\ e \in Starts <=> e.type = "ACTION_STARTED"
          /\ e \in Ends <=> e.type \in {"ACTION_COMPLETED", "ACTION_FAILED"}
          /\ e \in Transitions => e.id \in Nat /\ e.id >= 1 /\ e.to \in Status
          /\ e \in Starts => e.id \in Action /\ e = Started(e.id)
          /\ e \in Ends => e.id \in Action
    /\ \A x \in Auth : Grant(x) \in Grants
    /\ \A e \in Grants : e.type = "AUTHORIZATION" /\ e.id \in Auth /\ e \notin Event
  BY DEF Transition, Started, End, Grant, Event, Transitions, Starts, Ends, Grants

(* The head an event is chained to is the next place of the ledger.        *)
LEMMA HeadTyped == Typed => LedgerHead \in Chained /\ LedgerHead.seq = Len(ledger) + 1
  <1> SUFFICES ASSUME Typed
               PROVE  LedgerHead \in Chained /\ LedgerHead.seq = Len(ledger) + 1
    OBVIOUS
  <1>1. ledger # <<>> => ledger[Len(ledger)] \in Event
    BY DEF Typed
  <1> QED
    BY <1>1 DEF Typed, LedgerHead, Chained

(* The steps around the lock file of an authorization are in this order    *)
(* and leave the other files alone.                                        *)
LEMMA CapabilitySteps ==
    ASSUME Typed, NEW p \in Proc, CapabilityStep(p)
    PROVE  /\ UNCHANGED <<ledger, snap, tjournal, ajournal, lock, job, todo, owner, issued, crashes>>
           /\ pc' = [pc EXCEPT ![p] = pc'[p]] /\ opening' = [opening EXCEPT ![p] = opening'[p]]
           /\ UNCHANGED auth \/ SaveAuthorization(p) \/ Void(p)
           /\ \/ /\ UNCHANGED <<opening, raised>>
                 /\ \/ pc[p] = "issue" /\ pc'[p] = "issuing"
                    \/ pc[p] = "consume" /\ pc'[p] = "consuming"
                    \/ pc[p] = "void" /\ pc'[p] = "voiding"
                    \/ pc[p] = "issuing" /\ pc'[p] = "issued"
                    \/ pc[p] = "voiding" /\ pc'[p] = "voided"
                    \/ pc[p] = "consuming" /\ pc'[p] = "refused"
                    \/ pc[p] = "issued" /\ pc'[p] = "ready"
                    \/ pc[p] = "consumed" /\ pc'[p] = "starts"
                    \/ pc[p] = "voided" /\ pc'[p] = "chain"
              \/ /\ pc[p] \in {"issue", "consume", "void", "issuing"}
                 /\ opening' = [opening EXCEPT ![p] = FALSE] /\ ~opening'[p]
                 /\ pc'[p] = IF opening[p] THEN "down" ELSE "ready"
  <1>1. CASE AcquireCapability(p)
    BY <1>1 DEF AcquireCapability, Goto, Typed
  <1>2. CASE ReleaseCapability(p)
    BY <1>2 DEF ReleaseCapability, Goto, Typed
  <1>3. CASE CapabilityTimeout(p)
    BY <1>3 DEF CapabilityTimeout, Raise, Goto, files, Typed
  <1>4. CASE SaveAuthorization(p) \/ RefuseConsume(p) \/ Void(p)
    BY <1>4 DEF SaveAuthorization, RefuseConsume, Void, Goto, Typed
  <1>5. CASE RefuseAuthorization(p)
    BY <1>5 DEF RefuseAuthorization, Raise, Goto, Typed
  <1> QED
    BY <1>1, <1>2, <1>3, <1>4, <1>5 DEF CapabilityStep

(* The authorization a process changes is one.                             *)
LEMMA CapabilityIs ==
    ASSUME Typed, Employed, NEW p \in Proc
    PROVE  /\ pc[p] \in {"issue", "issuing", "issued"} => Capability(p) \in Auth
           /\ pc[p] \in {"authorize", "consume", "consuming", "consumed", "refused", "starts", "unlink_action"}
                \cup {"void", "voiding", "voided"}
                => /\ job[p].event.id \in Action /\ Capability(p) = AuthOf[job[p].event.id]
                   /\ Capability(p) \in Auth
  BY StoreAssumption, EventFacts DEF Employed, Capability, Event

(* A step of the store is one of the four kinds of step of some process.   *)
LEMMA Steps ==
    ASSUME [Next]_vars
    PROVE  UNCHANGED vars \/ \E p \in Proc : Recovery(p) \/ Continue(p) \/ Call(p) \/ Crash(p)
  BY DEF Next

(* Every write, every step of a call, every recovery and every kill keeps  *)
(* the types.                                                              *)
LEMMA TypedStep == Typed /\ Employed /\ [Next]_vars => Typed'
  <1> SUFFICES ASSUME Typed, Employed, [Next]_vars
               PROVE  Typed'
    OBVIOUS
  <1>1. CASE UNCHANGED vars
    BY <1>1 DEF vars, files, procs, Typed
  <1>2. ASSUME NEW p \in Proc, Recovery(p)
        PROVE  Typed'
    <2>1. CASE Open(p)
      BY <1>2, <2>1 DEF Open, Goto, files, Typed, Label
    <2>2. CASE RecoverAction(p)
      <3>1. PICK a \in todo[p] :
              \/ /\ a \in ajournal
                 /\ job' = [job EXCEPT ![p] = [event |-> Started(a), head |-> None]]
                 /\ todo' = [todo EXCEPT ![p] = @ \ {a}] /\ Goto(p, "authorize")
                 /\ UNCHANGED <<files, opening, owner, issued, crashes, raised>>
              \/ Raise(p, "missing_journal") /\ UNCHANGED files
        BY <2>2 DEF RecoverAction
      <3>2. a \in ajournal => [event |-> Started(a), head |-> None] \in Job
        BY EventFacts DEF Job, Event, Typed
      <3>3. todo' \in [Proc -> SUBSET (Commit \cup Action)]
        BY <1>2, <3>1 DEF Raise, Typed
      <3>4. /\ job' \in [Proc -> Job \cup {None}] /\ pc' \in [Proc -> Label]
            /\ opening' \in [Proc -> BOOLEAN] /\ UNCHANGED <<files, owner, issued, crashes>>
        <4>1. CASE Raise(p, "missing_journal") /\ UNCHANGED files
          BY <1>2, <4>1 DEF Raise, Goto, Typed, Label
        <4>2. CASE ~Raise(p, "missing_journal")
          BY <1>2, <3>1, <3>2, <4>2 DEF Goto, Typed, Label
        <4> QED
          BY <3>1, <4>1, <4>2
      <3> QED
        BY <3>1, <3>3, <3>4 DEF Raise, files, Typed
    <2>3. CASE RecoverTransitions(p)
      BY <1>2, <2>3 DEF RecoverTransitions, Goto, files, Typed, Label
    <2>4. CASE RecoverTransition(p)
      <3>1. PICK j \in todo[p] :
              \/ /\ j \in tjournal /\ job' = [job EXCEPT ![p] = j]
                 /\ todo' = [todo EXCEPT ![p] = @ \ {j}] /\ Goto(p, "match")
                 /\ UNCHANGED <<files, opening, owner, issued, crashes, raised>>
              \/ Raise(p, "missing_journal") /\ UNCHANGED files
        BY <2>4 DEF RecoverTransition
      <3>2. j \in tjournal => j \in Job
        BY DEF Job, Commit, Event, Typed
      <3>3. todo' \in [Proc -> SUBSET (Commit \cup Action)]
        BY <1>2, <3>1 DEF Raise, Typed
      <3>4. /\ job' \in [Proc -> Job \cup {None}] /\ pc' \in [Proc -> Label]
            /\ opening' \in [Proc -> BOOLEAN] /\ UNCHANGED <<files, owner, issued, crashes>>
        <4>1. CASE Raise(p, "missing_journal") /\ UNCHANGED files
          BY <1>2, <4>1 DEF Raise, Goto, Typed, Label
        <4>2. CASE ~Raise(p, "missing_journal")
          BY <1>2, <3>1, <3>2, <4>2 DEF Goto, Typed, Label
        <4> QED
          BY <3>1, <4>1, <4>2
      <3> QED
        BY <3>1, <3>3, <3>4 DEF Raise, files, Typed
    <2>5. CASE Opened(p)
      BY <1>2, <2>5 DEF Opened, Goto, files, Typed, Label
    <2> QED
      BY <1>2, <2>1, <2>2, <2>3, <2>4, <2>5 DEF Recovery
  <1>3. ASSUME NEW p \in Proc, Continue(p)
        PROVE  Typed'
    <2>1. CASE WriteTransitionJournal(p)
      BY <1>3, <2>1 DEF WriteTransitionJournal, Goto, Typed, Label, Employed, Committing
    <2>2. CASE MatchTransition(p) \/ CheckSnapshot(p)
      BY <1>3, <2>2 DEF MatchTransition, CheckSnapshot, Goto, Raise, files, Typed, Label
    <2>3. CASE SaveSnapshot(p)
      <3>1. job[p].event \in Transitions
        BY <1>3, <2>3 DEF SaveSnapshot, Employed, Committing, Commit
      <3>2. [status |-> job[p].event.to, id |-> job[p].event.id] \in [status : Status \cup {"CREATED"}, id : Nat]
        BY <3>1, EventFacts DEF Event
      <3> QED
        BY <1>3, <2>3, <3>2 DEF SaveSnapshot, Goto, Typed, Label
    <2>4. CASE UnlinkTransition(p) \/ UnlinkAction(p)
      BY <1>3, <2>4 DEF UnlinkTransition, UnlinkAction, Return, Goto, Typed, Label
    <2>5. CASE AcquireLock(p) \/ LockTimeout(p) \/ RefuseEvent(p) \/ ReleaseLock(p)
      BY <1>3, <2>5 DEF AcquireLock, LockTimeout, RefuseEvent, ReleaseLock, Raise, Goto, files, Typed, Label
    <2>6. CASE AppendEvent(p)
      <3>1. job[p].event \in Event
        BY <1>3, <2>6 DEF AppendEvent, Employed, Appending
      <3> QED
        BY <1>3, <2>6, <3>1 DEF AppendEvent, Goto, Typed, Label
    <2>7. CASE Authorized(p) \/ Unauthorized(p) \/ FindStart(p)
      BY <1>3, <2>7 DEF Authorized, Unauthorized, FindStart, Raise, Goto, files, Typed, Label
    <2>8. CASE Consume(p)
      <3>1. job[p].event.id \in Action
        BY <1>3, <2>8, EventFacts DEF Consume, Employed, Event
      <3> QED
        BY <1>3, <2>8, <3>1, StoreAssumption DEF Consume, Goto, Typed, Label
    <2>10. CASE CapabilityStep(p)
      <3>1. /\ UNCHANGED <<ledger, snap, tjournal, ajournal, lock, job, todo, owner, issued, crashes>>
            /\ pc' = [pc EXCEPT ![p] = pc'[p]] /\ opening' = [opening EXCEPT ![p] = opening'[p]]
            /\ pc'[p] \in Label /\ opening'[p] \in {FALSE, opening[p]}
            /\ UNCHANGED auth \/ SaveAuthorization(p) \/ Void(p)
        <4>1. pc'[p] \in {"issuing", "consuming", "voiding", "issued", "voided", "refused", "ready", "starts",
                          "chain", "down"}
          BY <1>3, <2>10, CapabilitySteps
        <4>2. opening'[p] \in {FALSE, opening[p]}
          BY <1>3, <2>10, CapabilitySteps DEF Typed
        <4> QED
          BY <1>3, <2>10, <4>1, <4>2, CapabilitySteps DEF Label
      <3>2. auth' \in [Auth -> [status : {"NONE", "ISSUED", "CONSUMED", "VOID"}, by : Action \cup {None}]]
        BY <3>1 DEF SaveAuthorization, Void, Typed
      <3>3. alock' \in [Auth -> Proc \cup {None, Orphan}]
        BY <1>3, <2>10
           DEF CapabilityStep, AcquireCapability, CapabilityTimeout, ReleaseCapability, SaveAuthorization,
               RefuseAuthorization, RefuseConsume, Void, files, Typed
      <3>4. pc' \in [Proc -> Label] /\ opening' \in [Proc -> BOOLEAN]
        BY <1>3, <3>1 DEF Typed
      <3> QED
        BY <3>1, <3>2, <3>3, <3>4 DEF Typed
    <2>9. CASE ChainActionEvent(p)
      <3>1. job[p] \in Job
        BY <1>3, <2>9 DEF ChainActionEvent, Employed, Label
      <3>2. [job[p] EXCEPT !.head = LedgerHead] \in Job
        BY <3>1, HeadTyped DEF Job
      <3> QED
        BY <1>3, <2>9, <3>2 DEF ChainActionEvent, Goto, files, Typed, Label
    <2> QED
      BY <1>3, <2>1, <2>2, <2>3, <2>4, <2>5, <2>6, <2>7, <2>8, <2>9, <2>10 DEF Continue
  <1>4. ASSUME NEW p \in Proc, Call(p)
        PROVE  Typed'
    <2>1. ASSUME NEW s \in Status, ChainTransition(p, s)
          PROVE  Typed'
      <3>1. issued' \in 1..MaxTransitions
        BY <2>1, StoreAssumption DEF ChainTransition, Typed
      <3>2. [event |-> Transition(issued + 1, s), head |-> LedgerHead] \in Job
        BY <2>1, <3>1, HeadTyped, EventFacts DEF ChainTransition, Job, Event
      <3> QED
        BY <1>4, <2>1, <3>1, <3>2 DEF ChainTransition, Goto, files, Typed, Label
    <2>2. ASSUME NEW x \in Auth, Issue(p, x)
          PROVE  Typed'
      <3>1. [event |-> Grant(x), head |-> None] \in Job
        BY EventFacts DEF Job
      <3> QED
        BY <1>4, <2>2, <3>1 DEF Issue, Goto, files, Typed, Label
    <2>3. ASSUME NEW a \in Action, WriteActionJournal(p, a)
          PROVE  Typed'
      <3>1. [event |-> Started(a), head |-> None] \in Job
        BY EventFacts DEF Job, Event
      <3> QED
        BY <1>4, <2>3, <3>1 DEF WriteActionJournal, Goto, Typed, Label
    <2>4. ASSUME NEW a \in Action, CompleteAction(p, a)
          PROVE  Typed'
      <3>1. [event |-> End("ACTION_COMPLETED", a), head |-> None] \in Job
        BY EventFacts DEF Job, Event
      <3> QED
        BY <1>4, <2>4, <3>1 DEF CompleteAction, Goto, files, Typed, Label
    <2>5. ASSUME NEW a \in Action, FailAction(p, a)
          PROVE  Typed'
      <3>1. [event |-> End("ACTION_FAILED", a), head |-> None] \in Job
        BY EventFacts DEF Job, Event
      <3> QED
        BY <1>4, <2>5, <3>1 DEF FailAction, Goto, files, Typed, Label
    <2> QED
      BY <1>4, <2>1, <2>2, <2>3, <2>4, <2>5 DEF Call
  <1>5. ASSUME NEW p \in Proc, Crash(p)
        PROVE  Typed'
    BY <1>5 DEF Crash, Goto, Typed, Label
  <1> QED
    BY <1>1, <1>2, <1>3, <1>4, <1>5, Steps

(* Every step leaves a process where its event belongs: a transition is    *)
(* never at a step of an action, nor the other way round.                  *)
LEMMA EmployedStep == Typed /\ Employed /\ [Next]_vars => Employed'
  <1> SUFFICES ASSUME Typed, Employed, [Next]_vars
               PROVE  Employed'
    OBVIOUS
  <1>1. CASE UNCHANGED vars
    BY <1>1 DEF vars, procs, Employed, Committing
  <1>s. ASSUME NEW p \in Proc, pc' = [pc EXCEPT ![p] = pc'[p]], job' = [job EXCEPT ![p] = job'[p]],
               /\ pc'[p] \in Label \ {"down", "ready", "scan_actions", "scan_transitions"} => job'[p] \in Job
               /\ Committing(p)' => job'[p] \in Commit
               /\ pc'[p] \in {"authorize", "consume", "consuming", "consumed", "refused", "starts", "unlink_action"}
                    => job'[p].event \in Starts
               /\ pc'[p] \in {"issue", "issuing", "issued"} => job'[p].event \in Grants
               /\ pc'[p] \in {"void", "voiding", "voided"} =>
                    job'[p].event \in Ends /\ job'[p].event.type = "ACTION_FAILED"
               /\ pc'[p] = "chain" => job'[p].event \in Starts \cup Ends
               /\ pc'[p] \in Appending => job'[p].head \in Chained /\ job'[p].event \in Event
        PROVE  Employed'
    BY <1>s DEF Typed, Employed, Committing
  <1>2. ASSUME NEW p \in Proc, Recovery(p)
        PROVE  Employed'
    <2>1. CASE Open(p) \/ RecoverTransitions(p) \/ Opened(p)
      <3>1. /\ UNCHANGED job /\ pc' = [pc EXCEPT ![p] = pc'[p]]
            /\ pc'[p] \in {"scan_actions", "scan_transitions", "ready"}
        BY <1>2, <2>1 DEF Open, RecoverTransitions, Opened, Goto, Typed
      <3> QED
        BY <1>2, <3>1, <1>s DEF Typed, Committing, Appending
    <2>2. CASE RecoverAction(p)
      <3>1. PICK a \in todo[p] :
              \/ /\ a \in ajournal /\ Goto(p, "authorize") /\ UNCHANGED opening
                 /\ job' = [job EXCEPT ![p] = [event |-> Started(a), head |-> None]]
              \/ Raise(p, "missing_journal")
        BY <2>2 DEF RecoverAction
      <3>2. PICK j : j = [event |-> Started(a), head |-> None]
        OBVIOUS
      <3>3. a \in ajournal => j.event \in Starts /\ j \in Job
        BY <3>2, EventFacts DEF Job, Event, Typed
      <3>4. \/ a \in ajournal /\ pc' = [pc EXCEPT ![p] = "authorize"] /\ job' = [job EXCEPT ![p] = j]
            \/ /\ pc' = [pc EXCEPT ![p] = pc'[p]] /\ pc'[p] \in {"down", "ready"} /\ UNCHANGED job
        BY <1>2, <3>1, <3>2 DEF Raise, Goto, Typed
      <3>5. CASE UNCHANGED job /\ pc' = [pc EXCEPT ![p] = pc'[p]] /\ pc'[p] \in {"down", "ready"}
        BY <1>2, <3>5, <1>s DEF Typed, Committing, Appending
      <3>6. CASE a \in ajournal /\ pc' = [pc EXCEPT ![p] = "authorize"] /\ job' = [job EXCEPT ![p] = j]
        BY <1>2, <3>3, <3>6, <1>s DEF Typed, Committing, Appending
      <3> QED
        BY <3>4, <3>5, <3>6
    <2>3. CASE RecoverTransition(p)
      <3>1. PICK j \in todo[p] :
              \/ j \in tjournal /\ job' = [job EXCEPT ![p] = j] /\ Goto(p, "match")
              \/ Raise(p, "missing_journal")
        BY <2>3 DEF RecoverTransition
      <3>2. j \in tjournal => j \in Job /\ j \in Commit
        BY DEF Job, Commit, Event, Typed
      <3> QED
        BY <1>2, <3>1, <3>2, <1>s DEF Raise, Goto, Typed, Label, Committing, Appending
    <2> QED
      BY <1>2, <2>1, <2>2, <2>3 DEF Recovery
  <1>3. ASSUME NEW p \in Proc, Continue(p)
        PROVE  Employed'
    <2>1. CASE \/ WriteTransitionJournal(p) \/ MatchTransition(p) \/ CheckSnapshot(p) \/ SaveSnapshot(p)
               \/ UnlinkTransition(p)
      <3>1. /\ UNCHANGED job /\ pc' = [pc EXCEPT ![p] = pc'[p]] /\ Committing(p)
            /\ pc'[p] \in {"match", "check", "lock", "save", "unlink_transition", "scan_transitions", "ready", "down"}
        BY <1>3, <2>1
           DEF WriteTransitionJournal, MatchTransition, CheckSnapshot, SaveSnapshot, UnlinkTransition, Return, Raise,
               Goto, Typed, Committing
      <3>2. /\ job[p] \in Commit /\ job[p] \in Job /\ job[p].head \in Chained /\ job[p].event \in Event
            /\ job[p].event.type = "STATE_TRANSITION"
        BY <1>3, <3>1 DEF Employed, Commit, Job, Event, Transitions
      <3> QED
        BY <1>3, <3>1, <3>2, <1>s DEF Typed, Label, Committing, Appending
    <2>2. CASE AcquireLock(p) \/ AppendEvent(p) \/ LockTimeout(p) \/ RefuseEvent(p)
      BY <1>3, <2>2, <1>s
         DEF AcquireLock, AppendEvent, LockTimeout, RefuseEvent, Raise, Goto, Typed, Label, Committing, Appending,
             Employed
    <2>3. CASE ReleaseLock(p)
      <3>1. job[p] \in Job /\ pc[p] = "unlock"
        BY <1>3, <2>3 DEF ReleaseLock, Employed, Label
      <3>2. job[p].event \in Event
        BY <1>3, <3>1 DEF Employed, Appending
      <3>3. Committing(p) => job[p] \in Commit
        BY <1>3 DEF Employed
      <3>4. UNCHANGED job
        BY <2>3 DEF ReleaseLock
      <3>5. CASE job[p].event.type = "STATE_TRANSITION"
        <4>1. pc' = [pc EXCEPT ![p] = "check"]
          BY <2>3, <3>5 DEF ReleaseLock, Goto
        <4> QED
          BY <1>3, <3>1, <3>3, <3>4, <3>5, <4>1, <1>s DEF Typed, Label, Committing, Appending
      <3>6. CASE job[p].event.type = "ACTION_STARTED"
        <4>1. pc' = [pc EXCEPT ![p] = "unlink_action"]
          BY <2>3, <3>6 DEF ReleaseLock, Goto
        <4> QED
          BY <1>3, <3>1, <3>2, <3>4, <3>6, <4>1, <1>s, EventFacts DEF Typed, Label, Committing, Appending
      <3>7. CASE job[p].event.type \in {"ACTION_COMPLETED", "ACTION_FAILED"}
        <4>1. pc' = [pc EXCEPT ![p] = "ready"]
          BY <2>3, <3>7 DEF ReleaseLock, Goto
        <4> QED
          BY <1>3, <3>4, <4>1, <1>s DEF Typed, Label, Committing, Appending
      <3> QED
        BY <3>2, <3>5, <3>6, <3>7, EventFacts
    <2>4. CASE Authorized(p) \/ Unauthorized(p) \/ Consume(p) \/ FindStart(p) \/ UnlinkAction(p)
      <3>1. /\ UNCHANGED job /\ pc' = [pc EXCEPT ![p] = pc'[p]]
            /\ pc[p] \in {"authorize", "consume", "consuming", "consumed", "refused", "starts", "unlink_action"}
            /\ pc'[p] \in {"consume", "consumed", "starts", "chain", "unlink_action", "scan_actions", "ready", "down"}
        BY <1>3, <2>4
           DEF Authorized, Unauthorized, Consume, FindStart, UnlinkAction, Return, Raise, Goto, Typed
      <3>2. job[p] \in Job /\ job[p].event \in Starts
        BY <1>3, <3>1 DEF Employed, Label
      <3> QED
        BY <1>3, <3>1, <3>2, <1>s DEF Typed, Label, Committing, Appending
    <2>5. CASE ChainActionEvent(p)
      <3>1. job[p] \in Job /\ job[p].event \in Starts \cup Ends
        BY <1>3, <2>5 DEF ChainActionEvent, Employed, Label
      <3>6. job[p].event \in Event
        BY <3>1 DEF Event
      <3>2. PICK j : j = [job[p] EXCEPT !.head = LedgerHead]
        OBVIOUS
      <3>3. j \in Job /\ j.event = job[p].event /\ j.head \in Chained
        BY <3>1, <3>2, HeadTyped DEF Job
      <3>4. job' = [job EXCEPT ![p] = j] /\ pc' = [pc EXCEPT ![p] = "lock"]
        BY <1>3, <2>5, <3>2 DEF ChainActionEvent, Goto, Typed
      <3>5. j.event.type # "STATE_TRANSITION"
        BY <3>1, <3>3, EventFacts DEF Event
      <3> QED
        BY <1>3, <3>3, <3>4, <3>5, <3>6, <1>s DEF Typed, Label, Committing, Appending
    <2>6. CASE CapabilityStep(p)
      <3>1. /\ UNCHANGED job /\ pc' = [pc EXCEPT ![p] = pc'[p]]
            /\ \/ pc[p] \in {"issue", "issuing"} /\ pc'[p] \in {"issuing", "issued"}
               \/ pc[p] \in {"consume", "consuming", "consumed"} /\ pc'[p] \in {"consuming", "refused", "starts"}
               \/ pc[p] \in {"void", "voiding", "voided"} /\ pc'[p] \in {"voiding", "voided", "chain"}
               \/ pc'[p] \in {"ready", "down"}
        BY <1>3, <2>6, CapabilitySteps
      <3>2. pc'[p] \notin {"ready", "down"} => job[p] \in Job
        BY <1>3, <3>1 DEF Employed, Label
      <3>3. ~Committing(p)'
        BY <3>1 DEF Committing, Appending
      <3>4. job'[p] = job[p] /\ job' = [job EXCEPT ![p] = job'[p]]
        BY <3>1 DEF Typed
      <3>5. /\ pc'[p] \in {"consuming", "refused", "starts"} => job[p].event \in Starts
            /\ pc'[p] \in {"issuing", "issued"} => job[p].event \in Grants
            /\ pc'[p] \in {"voiding", "voided", "chain"} =>
                 job[p].event \in Ends /\ job[p].event.type = "ACTION_FAILED"
        BY <1>3, <3>1 DEF Employed
      <3> QED
        BY <1>3, <3>1, <3>2, <3>3, <3>4, <3>5, <1>s DEF Appending, Label
    <2> QED
      BY <1>3, <2>1, <2>2, <2>3, <2>4, <2>5, <2>6 DEF Continue
  <1>4. ASSUME NEW p \in Proc, Call(p)
        PROVE  Employed'
    <2>1. ASSUME NEW s \in Status, ChainTransition(p, s)
          PROVE  Employed'
      <3>1. PICK j : j = [event |-> Transition(issued + 1, s), head |-> LedgerHead]
        OBVIOUS
      <3>2. j \in Commit /\ j \in Job
        <4>1. issued + 1 \in 1..MaxTransitions
          BY <2>1, StoreAssumption DEF ChainTransition, Typed
        <4> QED
          BY <2>1, <3>1, <4>1, HeadTyped, EventFacts DEF Commit, Job, Event
      <3>3. job' = [job EXCEPT ![p] = j] /\ pc' = [pc EXCEPT ![p] = "journal"]
        BY <2>1, <3>1 DEF ChainTransition, Goto
      <3> QED
        BY <1>4, <3>2, <3>3, <1>s DEF Typed, Label, Committing, Appending
    <2>2. ASSUME NEW x \in Auth, Issue(p, x)
          PROVE  Employed'
      <3>1. PICK j : j = [event |-> Grant(x), head |-> None]
        OBVIOUS
      <3>2. j \in Job /\ j.event \in Grants
        BY <3>1, EventFacts DEF Job
      <3>3. job' = [job EXCEPT ![p] = j] /\ pc' = [pc EXCEPT ![p] = "issue"]
        BY <2>2, <3>1 DEF Issue, Goto
      <3> QED
        BY <1>4, <3>2, <3>3, <1>s DEF Typed, Label, Committing, Appending
    <2>3. ASSUME NEW a \in Action, WriteActionJournal(p, a)
          PROVE  Employed'
      <3>1. PICK j : j = [event |-> Started(a), head |-> None]
        OBVIOUS
      <3>2. j \in Job /\ j.event \in Starts
        BY <3>1, EventFacts DEF Job, Event
      <3>3. job' = [job EXCEPT ![p] = j] /\ pc' = [pc EXCEPT ![p] = "authorize"]
        BY <2>3, <3>1 DEF WriteActionJournal, Goto
      <3> QED
        BY <1>4, <3>2, <3>3, <1>s DEF Typed, Label, Committing, Appending
    <2>4. ASSUME NEW a \in Action, CompleteAction(p, a) \/ FailAction(p, a)
          PROVE  Employed'
      <3>1. PICK type \in {"ACTION_COMPLETED", "ACTION_FAILED"} :
              /\ job' = [job EXCEPT ![p] = [event |-> End(type, a), head |-> None]]
              /\ \/ pc' = [pc EXCEPT ![p] = "chain"]
                 \/ pc' = [pc EXCEPT ![p] = "void"] /\ type = "ACTION_FAILED"
        BY <2>4 DEF CompleteAction, FailAction, Goto
      <3>2. PICK j : j = [event |-> End(type, a), head |-> None]
        OBVIOUS
      <3>3. j \in Job /\ j.event \in Ends /\ j.event.type = type
        BY <3>2, EventFacts DEF Job, Event, End
      <3>4. job' = [job EXCEPT ![p] = j]
        BY <3>1, <3>2
      <3>5. /\ pc' = [pc EXCEPT ![p] = pc'[p]]
            /\ pc'[p] = "chain" \/ (pc'[p] = "void" /\ type = "ACTION_FAILED")
        BY <3>1 DEF Typed
      <3> QED
        BY <1>4, <3>3, <3>4, <3>5, <1>s DEF Typed, Committing, Appending
    <2> QED
      BY <1>4, <2>1, <2>2, <2>3, <2>4 DEF Call
  <1>5. ASSUME NEW p \in Proc, Crash(p)
        PROVE  Employed'
    BY <1>5, <1>s DEF Crash, Goto, Typed, Label, Committing, Appending
  <1> QED
    BY <1>1, <1>2, <1>3, <1>4, <1>5, Steps

-----------------------------------------------------------------------------
(* A step is one process's and leaves the variables of the others.         *)
LEMMA Acting ==
    ASSUME Typed, [Next]_vars, ~UNCHANGED vars
    PROVE  \E p \in Proc :
             /\ Recovery(p) \/ Continue(p) \/ Call(p) \/ Crash(p)
             /\ pc' = [pc EXCEPT ![p] = pc'[p]] /\ job' = [job EXCEPT ![p] = job'[p]]
             /\ opening' = [opening EXCEPT ![p] = opening'[p]] /\ todo' = [todo EXCEPT ![p] = todo'[p]]
  <1> PICK p \in Proc : Recovery(p) \/ Continue(p) \/ Call(p) \/ Crash(p)
    BY Steps
  <1>1. CASE Recovery(p)
    <2>1. CASE Open(p) \/ RecoverTransitions(p) \/ Opened(p)
      BY <2>1 DEF Open, RecoverTransitions, Opened, Goto, Typed
    <2>2. CASE RecoverAction(p)
      BY <2>2 DEF RecoverAction, Raise, Goto, Typed
    <2>3. CASE RecoverTransition(p)
      BY <2>3 DEF RecoverTransition, Raise, Goto, Typed
    <2> QED
      BY <1>1, <2>1, <2>2, <2>3 DEF Recovery
  <1>2. CASE Continue(p)
    <2>1. CASE CapabilityStep(p)
      BY <2>1, CapabilitySteps DEF Typed
    <2>2. CASE ~CapabilityStep(p)
      BY <1>2, <2>2
         DEF Continue, WriteTransitionJournal, MatchTransition, CheckSnapshot, SaveSnapshot, UnlinkTransition,
             AcquireLock, LockTimeout, AppendEvent, RefuseEvent, ReleaseLock, Authorized, Unauthorized,
             Consume, FindStart, ChainActionEvent, UnlinkAction, Return, Raise, Goto, Typed
    <2> QED
      BY <2>1, <2>2
  <1>3. CASE Call(p)
    <2>1. ASSUME NEW s \in Status, ChainTransition(p, s)
          PROVE  /\ pc' = [pc EXCEPT ![p] = pc'[p]] /\ job' = [job EXCEPT ![p] = job'[p]]
                 /\ UNCHANGED <<opening, todo>>
      BY <2>1 DEF ChainTransition, Goto, Typed
    <2>2. ASSUME NEW x \in Auth, Issue(p, x)
          PROVE  /\ pc' = [pc EXCEPT ![p] = pc'[p]] /\ job' = [job EXCEPT ![p] = job'[p]]
                 /\ UNCHANGED <<opening, todo>>
      BY <2>2 DEF Issue, Goto, Typed
    <2>3. ASSUME NEW a \in Action, WriteActionJournal(p, a) \/ CompleteAction(p, a) \/ FailAction(p, a)
          PROVE  /\ pc' = [pc EXCEPT ![p] = pc'[p]] /\ job' = [job EXCEPT ![p] = job'[p]]
                 /\ UNCHANGED <<opening, todo>>
      BY <2>3 DEF WriteActionJournal, CompleteAction, FailAction, Goto, Typed
    <2> QED
      BY <1>3, <2>1, <2>2, <2>3 DEF Call, Typed
  <1>4. CASE Crash(p)
    BY <1>4 DEF Crash, Goto, Typed
  <1> QED
    BY <1>1, <1>2, <1>3, <1>4

(* Which steps write the ledger, the authorizations, the journals and the  *)
(* snapshot.                                                               *)
LEMMA Writes ==
    ASSUME Typed, [Next]_vars
    PROVE  /\ UNCHANGED ledger \/ \E p \in Proc : AppendEvent(p)
           /\ UNCHANGED auth \/ \E p \in Proc : Consume(p) \/ SaveAuthorization(p) \/ Void(p)
           /\ UNCHANGED tjournal \/ \E p \in Proc : WriteTransitionJournal(p) \/ UnlinkTransition(p)
           /\ \/ UNCHANGED ajournal
              \/ \E p \in Proc : Unauthorized(p) \/ UnlinkAction(p)
              \/ \E p \in Proc, a \in Action : WriteActionJournal(p, a)
           /\ UNCHANGED issued \/ \E p \in Proc, s \in Status : ChainTransition(p, s)
           /\ UNCHANGED snap \/ \E p \in Proc : SaveSnapshot(p)
  <1>1. CASE UNCHANGED vars
    BY <1>1 DEF vars, files
  <1>2. ASSUME NEW p \in Proc, Recovery(p)
        PROVE  UNCHANGED <<ledger, auth, tjournal, ajournal, issued, snap>>
    BY <1>2 DEF Recovery, Open, RecoverAction, RecoverTransitions, RecoverTransition, Opened, Raise, files
  <1>3. ASSUME NEW p \in Proc, Continue(p)
        PROVE  /\ UNCHANGED issued
               /\ UNCHANGED ledger \/ AppendEvent(p)
               /\ UNCHANGED auth \/ Consume(p) \/ SaveAuthorization(p) \/ Void(p)
               /\ UNCHANGED tjournal \/ WriteTransitionJournal(p) \/ UnlinkTransition(p)
               /\ UNCHANGED ajournal \/ Unauthorized(p) \/ UnlinkAction(p)
               /\ UNCHANGED snap \/ SaveSnapshot(p)
    <2>1. CASE CapabilityStep(p)
      BY <2>1, CapabilitySteps
    <2>2. CASE ~CapabilityStep(p)
      BY <1>3, <2>2
         DEF Continue, WriteTransitionJournal, MatchTransition, CheckSnapshot, SaveSnapshot, UnlinkTransition,
             AcquireLock, LockTimeout, AppendEvent, RefuseEvent, ReleaseLock, Authorized, Unauthorized,
             Consume, FindStart, ChainActionEvent, UnlinkAction, Raise, files
    <2> QED
      BY <2>1, <2>2
  <1>4. ASSUME NEW p \in Proc, Call(p)
        PROVE  /\ UNCHANGED <<ledger, auth, tjournal, snap>>
               /\ UNCHANGED ajournal \/ \E a \in Action : WriteActionJournal(p, a)
               /\ UNCHANGED issued \/ \E s \in Status : ChainTransition(p, s)
    BY <1>4 DEF Call, ChainTransition, Issue, WriteActionJournal, CompleteAction, FailAction, files
  <1>5. ASSUME NEW p \in Proc, Crash(p)
        PROVE  UNCHANGED <<ledger, auth, tjournal, ajournal, issued, snap>>
    BY <1>5 DEF Crash
  <1> QED
    BY <1>1, <1>2, <1>3, <1>4, <1>5, Steps

(* Only the holder of the lock file appends: O_EXCL gives it to one        *)
(* process, which unlinks it after the append.                             *)
LEMMA LockedStep == Typed /\ Locked /\ [Next]_vars => Locked'
  <1> SUFFICES ASSUME Typed, Locked, [Next]_vars
               PROVE  Locked'
    OBVIOUS
  <1>n. None \notin Proc /\ Orphan \notin Proc
    BY StoreAssumption
  <1>1. CASE UNCHANGED vars
    BY <1>1 DEF vars, files, procs, Locked
  <1>s. ASSUME NEW p \in Proc, pc' = [pc EXCEPT ![p] = pc'[p]], UNCHANGED lock,
               pc[p] \in {"append", "unlock"} <=> pc'[p] \in {"append", "unlock"}
        PROVE  Locked'
    BY <1>s DEF Typed, Locked
  <1>2. ASSUME NEW p \in Proc, Recovery(p)
        PROVE  Locked'
    BY <1>2, <1>s DEF Recovery, Open, RecoverAction, RecoverTransitions, RecoverTransition, Opened, Raise,
       files, Goto,
                      Typed
  <1>3. ASSUME NEW p \in Proc, Continue(p)
        PROVE  Locked'
    <2>1. CASE AcquireLock(p)
      BY <1>3, <1>n, <2>1 DEF AcquireLock, Goto, Typed, Locked
    <2>2. CASE RefuseEvent(p)
      BY <1>3, <1>n, <2>2 DEF RefuseEvent, Raise, Goto, Typed, Locked
    <2>3. CASE ReleaseLock(p)
      <3>1. /\ pc' = [pc EXCEPT ![p] = pc'[p]] /\ pc[p] = "unlock" /\ lock' = None
        BY <2>3 DEF ReleaseLock, Goto, Typed
      <3>2. pc'[p] \in {"check", "unlink_action", "ready"}
        BY <1>3, <2>3 DEF ReleaseLock, Goto, Typed
      <3> QED
        BY <1>3, <1>n, <3>1, <3>2 DEF Typed, Locked
    <2>4. CASE CapabilityStep(p)
      <3>1. /\ UNCHANGED lock /\ pc' = [pc EXCEPT ![p] = pc'[p]]
            /\ pc[p] \notin {"append", "unlock"} /\ pc'[p] \notin {"append", "unlock"}
        BY <1>3, <2>4, CapabilitySteps
      <3> QED
        BY <1>3, <3>1, <1>s
    <2>5. CASE ~AcquireLock(p) /\ ~RefuseEvent(p) /\ ~ReleaseLock(p) /\ ~CapabilityStep(p)
      BY <1>3, <2>5, <1>s, ZenonT(40)
         DEF Continue, WriteTransitionJournal, MatchTransition, CheckSnapshot, SaveSnapshot, UnlinkTransition,
             LockTimeout, AppendEvent, Authorized, Unauthorized, Consume, FindStart, ChainActionEvent,
             UnlinkAction,
             Return, Raise, Goto, files, Typed
    <2> QED
      BY <2>1, <2>2, <2>3, <2>4, <2>5
  <1>4. ASSUME NEW p \in Proc, Call(p)
        PROVE  Locked'
    BY <1>4, <1>s DEF Call, ChainTransition, Issue, WriteActionJournal, CompleteAction, FailAction, files,
       Goto, Typed
  <1>5. ASSUME NEW p \in Proc, Crash(p)
        PROVE  Locked'
    BY <1>5, <1>n DEF Crash, Goto, Typed, Locked
  <1> QED
    BY <1>1, <1>2, <1>3, <1>4, <1>5, Steps

(* Nor does anyone but the holder of an authorization's lock file change   *)
(* the authorization.                                                      *)
LEMMA GuardedStep == Typed /\ Employed /\ Guarded /\ [Next]_vars => Guarded'
  <1> SUFFICES ASSUME Typed, Employed, Guarded, [Next]_vars
               PROVE  Guarded'
    OBVIOUS
  <1>n. None \notin Proc /\ Orphan \notin Proc
    BY StoreAssumption
  <1>1. CASE UNCHANGED vars
    BY <1>1 DEF vars, files, procs, Guarded, Capability
  <1>2. CASE ~UNCHANGED vars
    <2>1. PICK p \in Proc : /\ Recovery(p) \/ Continue(p) \/ Call(p) \/ Crash(p)
                            /\ pc' = [pc EXCEPT ![p] = pc'[p]] /\ job' = [job EXCEPT ![p] = job'[p]]
      BY <1>2, Acting
    <2>2. \A q \in Proc : q # p => pc'[q] = pc[q] /\ Capability(q)' = Capability(q)
      BY <2>1 DEF Typed, Capability
    <2>s. ASSUME UNCHANGED alock, pc[p] \notin Holding, pc'[p] \notin Holding
          PROVE  Guarded'
      BY <2>2, <2>s DEF Guarded
    <2>t. ASSUME NEW y \in Auth, y = Capability(p), Capability(p)' = y,
                 \/ alock' = [alock EXCEPT ![y] = p] /\ alock[y] \notin Proc /\ pc[p] \notin Holding /\ pc'[p] \in Holding
                 \/ alock' = [alock EXCEPT ![y] = None] /\ pc[p] \in Holding /\ pc'[p] \notin Holding
                 \/ alock' = alock /\ pc[p] \in Holding /\ pc'[p] \in Holding
          PROVE  Guarded'
      <3>1. \A q \in Proc : q # p => \A x \in Auth : alock'[x] = q <=> pc'[q] \in Holding /\ Capability(q)' = x
        <4>1. ASSUME NEW q \in Proc, q # p, NEW x \in Auth
              PROVE  alock'[x] = q <=> alock[x] = q
          BY <1>n, <4>1, <2>t DEF Typed, Guarded
        <4> QED
          BY <4>1, <2>2 DEF Guarded
      <3>2. \A x \in Auth : alock'[x] = p <=> pc'[p] \in Holding /\ Capability(p)' = x
        BY <1>n, <2>t DEF Typed, Guarded
      <3> QED
        BY <3>1, <3>2 DEF Guarded
    <2>3. CASE Recovery(p)
      <3>1. /\ UNCHANGED alock
            /\ pc[p] \in {"down", "ready", "scan_actions", "scan_transitions"}
            /\ pc'[p] \in {"scan_actions", "authorize", "down", "ready", "scan_transitions", "match"}
        BY <2>3 DEF Recovery, Open, RecoverAction, RecoverTransitions, RecoverTransition, Opened, Raise, Goto, files,
           Typed
      <3> QED
        BY <3>1, <2>s DEF Holding
    <2>4. CASE CapabilityStep(p)
      <3>1. pc' = [pc EXCEPT ![p] = pc'[p]] /\ UNCHANGED job /\ Capability(p)' = Capability(p)
        BY <2>1, <2>4, CapabilitySteps DEF Capability
      <3>2. pc[p] \in {"issue", "issuing", "issued", "consume", "consuming", "consumed", "void", "voiding", "voided"}
        BY <2>4, CapabilitySteps
      <3>3. Capability(p) \in Auth
        BY <3>2, CapabilityIs
      <3>4. CASE CapabilityTimeout(p)
        <4>1. UNCHANGED alock /\ pc[p] \in {"issue", "consume", "void"} /\ pc'[p] \in {"down", "ready"}
          BY <3>4 DEF CapabilityTimeout, Raise, Goto, files, Typed
        <4> QED
          BY <4>1, <2>s DEF Holding
      <3>5. CASE AcquireCapability(p)
        <4>1. pc'[p] \in Holding /\ pc[p] \notin Holding
          BY <3>5 DEF AcquireCapability, Goto, Typed, Holding
        <4>2. alock[Capability(p)] \notin Proc /\ alock' = [alock EXCEPT ![Capability(p)] = p]
          BY <1>n, <3>5 DEF AcquireCapability
        <4> QED
          BY <3>1, <3>3, <4>1, <4>2, <2>t
      <3>6. CASE ReleaseCapability(p) \/ RefuseAuthorization(p) \/ RefuseConsume(p)
        <4>1. /\ alock' = [alock EXCEPT ![Capability(p)] = None] /\ pc[p] \in Holding
              /\ pc'[p] \in {"down", "ready", "starts", "chain", "refused"}
          BY <3>6 DEF ReleaseCapability, RefuseAuthorization, RefuseConsume, Raise, Goto, Typed, Holding
        <4>2. pc'[p] \notin Holding
          BY <4>1 DEF Holding
        <4> QED
          BY <3>1, <3>3, <4>1, <4>2, <2>t
      <3>7. CASE SaveAuthorization(p) \/ Void(p)
        <4>1. UNCHANGED alock /\ pc[p] \in Holding /\ pc'[p] \in Holding
          BY <3>7 DEF SaveAuthorization, Void, Goto, Typed, Holding
        <4> QED
          BY <3>1, <3>3, <4>1, <2>t
      <3> QED
        BY <2>4, <3>4, <3>5, <3>6, <3>7 DEF CapabilityStep
    <2>5. CASE Consume(p)
      <3>1. Capability(p) \in Auth /\ Capability(p)' = Capability(p)
        BY <2>5, CapabilityIs DEF Consume, Capability
      <3>2. UNCHANGED alock /\ pc[p] \in Holding /\ pc'[p] \in Holding
        BY <2>5 DEF Consume, Goto, Typed, Holding
      <3> QED
        BY <3>1, <3>2, <2>t
    <2>6. CASE ReleaseLock(p)
      <3>1. UNCHANGED alock /\ pc[p] = "unlock" /\ pc'[p] \in {"check", "unlink_action", "ready"}
        BY <2>6 DEF ReleaseLock, Goto, Typed
      <3> QED
        BY <3>1, <2>s DEF Holding
    <2>7. CASE Continue(p) /\ ~CapabilityStep(p) /\ ~Consume(p) /\ ~ReleaseLock(p)
      <3>1. /\ UNCHANGED alock
            /\ pc[p] \notin Holding
            /\ pc'[p] \in {"match", "check", "lock", "save", "unlink_transition", "down", "ready", "scan_transitions",
                           "append", "unlock", "consume", "starts", "chain", "unlink_action", "scan_actions"}
        BY <2>7
           DEF Continue, WriteTransitionJournal, MatchTransition, CheckSnapshot, SaveSnapshot, UnlinkTransition,
               AcquireLock, LockTimeout, AppendEvent, RefuseEvent, Authorized, Unauthorized, FindStart,
               ChainActionEvent, UnlinkAction, Return, Raise, Goto, files, Typed, Holding
      <3> QED
        BY <3>1, <2>s DEF Holding
    <2>8. CASE Call(p)
      <3>1. /\ UNCHANGED alock /\ pc[p] = "ready"
            /\ pc'[p] \in {"journal", "issue", "authorize", "chain", "void"}
        BY <2>8 DEF Call, ChainTransition, Issue, WriteActionJournal, CompleteAction, FailAction, Goto, files, Typed
      <3> QED
        BY <3>1, <2>s DEF Holding
    <2>9. CASE Crash(p)
      <3>1. pc'[p] \notin Holding /\ alock' = [x \in Auth |-> IF alock[x] = p THEN Orphan ELSE alock[x]]
        BY <2>9 DEF Crash, Goto, Typed, Holding
      <3> QED
        BY <1>n, <2>2, <3>1 DEF Guarded
    <2> QED
      BY <2>1, <2>3, <2>4, <2>5, <2>6, <2>7, <2>8, <2>9
  <1> QED
    BY <1>1, <1>2

(* A process that works on a transition has it from before the step, from  *)
(* a journal, or is chaining it.                                           *)
LEMMA CommittingKept ==
    ASSUME Typed, Employed, [Next]_vars, NEW p \in Proc, Committing(p)'
    PROVE  \/ Committing(p) /\ job'[p] = job[p] /\ (pc[p] = "journal" => pc'[p] = "journal" \/ job[p] \in tjournal')
           \/ job'[p] \in tjournal
           \/ \E s \in Status : ChainTransition(p, s)
  <1> SUFFICES ASSUME ~UNCHANGED vars
               PROVE  \/ /\ Committing(p) /\ job'[p] = job[p]
                         /\ pc[p] = "journal" => pc'[p] = "journal" \/ job[p] \in tjournal'
                      \/ job'[p] \in tjournal
                      \/ \E s \in Status : ChainTransition(p, s)
    BY DEF vars, procs, Committing
  <1> PICK r \in Proc : /\ Recovery(r) \/ Continue(r) \/ Call(r) \/ Crash(r)
                        /\ pc' = [pc EXCEPT ![r] = pc'[r]] /\ job' = [job EXCEPT ![r] = job'[r]]
    BY Acting
  <1>1. CASE r # p
    BY <1>1 DEF Committing, Typed
  <1>2. CASE r = p /\ Recovery(p)
    BY <1>2 DEF Recovery, Open, RecoverAction, RecoverTransitions, RecoverTransition, Opened, Raise, Goto,
       Typed,
                Committing, Appending
  <1>3. CASE r = p /\ Continue(p)
    <2>1. CASE \/ WriteTransitionJournal(p) \/ MatchTransition(p) \/ CheckSnapshot(p) \/ SaveSnapshot(p)
               \/ UnlinkTransition(p)
      BY <1>3, <2>1
         DEF WriteTransitionJournal, MatchTransition, CheckSnapshot, SaveSnapshot, UnlinkTransition, Return, Raise,
             Goto, Typed, Committing
    <2>2. CASE AcquireLock(p) \/ AppendEvent(p) \/ LockTimeout(p) \/ RefuseEvent(p)
      BY <1>3, <2>2 DEF AcquireLock, AppendEvent, LockTimeout, RefuseEvent, Raise, Goto, Typed, Committing,
         Appending
    <2>3. CASE ReleaseLock(p)
      BY <1>3, <2>3 DEF ReleaseLock, Goto, Typed, Committing, Appending
    <2>4. CASE Authorized(p) \/ Unauthorized(p) \/ Consume(p) \/ FindStart(p) \/ UnlinkAction(p)
      <3>1. pc'[p] \in {"down", "ready", "consume", "consumed", "starts", "unlink_action", "chain", "scan_actions"}
        BY <2>4 DEF Authorized, Unauthorized, Consume, FindStart, UnlinkAction, Return, Raise, Goto, Typed
      <3> QED
        BY <3>1 DEF Committing, Appending
    <2>5. CASE ChainActionEvent(p)
      <3>1. job[p] \in Job /\ job[p].event \in Starts \cup Ends
        BY <2>5 DEF ChainActionEvent, Employed, Label
      <3>2. job'[p].event = job[p].event /\ pc'[p] = "lock"
        BY <2>5, <3>1 DEF ChainActionEvent, Goto, Typed, Job
      <3> QED
        BY <3>1, <3>2, EventFacts DEF Committing, Event
    <2>6. CASE CapabilityStep(p)
      <3>1. pc'[p] \notin {"journal", "match", "check", "save", "unlink_transition"} \cup Appending
        BY <1>3, <2>6, CapabilitySteps DEF Appending
      <3> QED
        BY <3>1 DEF Committing
    <2> QED
      BY <1>3, <2>1, <2>2, <2>3, <2>4, <2>5, <2>6 DEF Continue
  <1>4. CASE r = p /\ Call(p)
    <2>1. ASSUME NEW a \in Action, CompleteAction(p, a) \/ FailAction(p, a) \/ WriteActionJournal(p, a)
          PROVE  pc'[p] \in {"chain", "void", "authorize"}
      BY <2>1 DEF CompleteAction, FailAction, WriteActionJournal, Goto, Typed
    <2>2. ASSUME NEW x \in Auth, Issue(p, x)
          PROVE  pc'[p] = "issue"
      BY <2>2 DEF Issue, Goto, Typed
    <2> QED
      BY <1>4, <2>1, <2>2 DEF Call, Committing, Appending
  <1>5. CASE r = p /\ Crash(p)
    BY <1>5 DEF Crash, Goto, Typed, Committing, Appending
  <1> QED
    BY <1>1, <1>2, <1>3, <1>4, <1>5

-----------------------------------------------------------------------------
(* What an append leaves: earlier events stay in place, and the new one    *)
(* comes last.                                                             *)
LEMMA LedgerGrows ==
    ASSUME Typed, NEW e \in Event, ledger' = Append(ledger, e)
    PROVE  /\ DOMAIN ledger = 1..Len(ledger) /\ Len(ledger) \in Nat
           /\ DOMAIN ledger' = 1..(Len(ledger) + 1) /\ Len(ledger') = Len(ledger) + 1
           /\ \A i \in DOMAIN ledger : ledger'[i] = ledger[i] /\ ledger[i] \in Event
           /\ ledger'[Len(ledger) + 1] = e
           /\ e \in Transitions => TransitionIndexes' = TransitionIndexes \cup {Len(ledger) + 1}
           /\ e \notin Transitions => TransitionIndexes' = TransitionIndexes
           /\ TransitionIndexes \subseteq DOMAIN ledger
           /\ \A type, id : Has(type, id)' <=> Has(type, id) \/ (e.type = type /\ e.id = id)
  <1>1. /\ DOMAIN ledger = 1..Len(ledger) /\ Len(ledger) \in Nat
        /\ DOMAIN ledger' = 1..(Len(ledger) + 1) /\ Len(ledger') = Len(ledger) + 1
        /\ \A i \in DOMAIN ledger : ledger'[i] = ledger[i] /\ ledger[i] \in Event
        /\ ledger'[Len(ledger) + 1] = e
    BY DEF Typed
  <1>2. e \in Transitions <=> e.type = "STATE_TRANSITION"
    BY EventFacts
  <1>3. /\ e \in Transitions => TransitionIndexes' = TransitionIndexes \cup {Len(ledger) + 1}
        /\ e \notin Transitions => TransitionIndexes' = TransitionIndexes
        /\ TransitionIndexes \subseteq DOMAIN ledger
    BY <1>1, <1>2 DEF TransitionIndexes
  <1>4. \A type, id : Has(type, id)' <=> Has(type, id) \/ (e.type = type /\ e.id = id)
    BY <1>1 DEF Has
  <1> QED
    BY <1>1, <1>3, <1>4

(* What append_event has established when it appends: the event fits the   *)
(* head of the ledger, and an end has its start.                           *)
LEMMA AppendIs ==
    ASSUME Typed, Employed, NEW p \in Proc, AppendEvent(p)
    PROVE  /\ job[p] \in Job /\ job[p].event \in Event /\ job[p].head = LedgerHead
           /\ job[p].head.seq = Len(ledger) + 1
           /\ job[p].event \in Ends => Has("ACTION_STARTED", job[p].event.id)
           /\ job[p].event \in Transitions => Committing(p) /\ job[p] \in Commits
           /\ job[p].event \in Starts => Beginning(p) /\ Starting(p)
           /\ job[p].event \in Ends => Ending(p)
           /\ ledger' = Append(ledger, job[p].event)
  BY HeadTyped, EventFacts
     DEF AppendEvent, Appendable, Employed, Label, Job, Committing, Commits, Beginning, Starting, Ending, Appending

(* Transitions under way are journalled commits.                           *)
LEMMA CommitsTyped == Typed /\ Employed => Commits \subseteq Commit
  BY DEF Typed, Employed, Commits

(* A step brings no transition under way but the one it chains, with the   *)
(* next identifier.                                                        *)
LEMMA CommitsKept ==
    ASSUME Typed, Employed, [Next]_vars
    PROVE  \/ Commits' \subseteq Commits /\ UNCHANGED issued
           \/ \E p \in Proc, s \in Status :
                /\ ChainTransition(p, s)
                /\ Commits' \subseteq Commits \cup {[event |-> Transition(issued + 1, s), head |-> LedgerHead]}
  <1>1. ASSUME NEW p \in Proc, Committing(p)'
        PROVE  job'[p] \in Commits \/ \E s \in Status : ChainTransition(p, s)
    BY <1>1, CommittingKept DEF Commits
  <1>2. tjournal' \subseteq Commits
    BY Writes DEF WriteTransitionJournal, UnlinkTransition, Commits, Committing
  <1>3. CASE \E p \in Proc, s \in Status : ChainTransition(p, s)
    <2>1. PICK p \in Proc, s \in Status : ChainTransition(p, s)
      BY <1>3
    <2>2. ASSUME NEW q \in Proc, Committing(q)', q # p
          PROVE  job'[q] \in Commits
      BY <2>1, <2>2 DEF ChainTransition, Goto, Committing, Commits, Typed
    <2>3. job'[p] = [event |-> Transition(issued + 1, s), head |-> LedgerHead]
      BY <2>1 DEF ChainTransition, Typed
    <2> QED
      BY <1>2, <2>1, <2>2, <2>3 DEF Commits
  <1>4. CASE ~\E p \in Proc, s \in Status : ChainTransition(p, s)
    BY <1>1, <1>2, <1>4, Writes DEF Commits
  <1> QED
    BY <1>3, <1>4

(* An event is appended at its own place only, so a transition that        *)
(* several processes replay is in the ledger once.                         *)
LEMMA OnceStep == Typed /\ Employed /\ Once /\ [Next]_vars => Once'
  <1> SUFFICES ASSUME Typed, Employed, Once, [Next]_vars
               PROVE  Once'
    OBVIOUS
  <1>0. /\ Typed' /\ issued \in Nat /\ TransitionIndexes \subseteq DOMAIN ledger
        /\ DOMAIN ledger = 1..Len(ledger) /\ Len(ledger) \in Nat
        /\ \A i \in TransitionIndexes : ledger[i] \in Transitions
    BY TypedStep, EventFacts DEF Typed, TransitionIndexes
  <1>1. ASSUME UNCHANGED ledger, Commits' \subseteq Commits, UNCHANGED issued
        PROVE  Once'
    BY <1>1 DEF Once, TransitionIndexes
  <1>2. ASSUME NEW p \in Proc, NEW s \in Status, ChainTransition(p, s),
               Commits' \subseteq Commits \cup {[event |-> Transition(issued + 1, s), head |-> LedgerHead]}
        PROVE  Once'
    <2>1. PICK j : j = [event |-> Transition(issued + 1, s), head |-> LedgerHead]
      OBVIOUS
    <2>2. /\ j.event.id = issued + 1 /\ issued' = issued + 1 /\ UNCHANGED ledger
          /\ Commits' \subseteq Commits \cup {j}
      BY <1>2, <2>1 DEF ChainTransition, Transition, files
    <2>3. TransitionIndexes' = TransitionIndexes
      BY <2>2 DEF TransitionIndexes
    <2>4. \A k \in Commits : k.event.id \in Nat /\ k.event.id =< issued /\ k.event.id # j.event.id
      BY <1>0, <2>2, CommitsTyped, EventFacts DEF Once, Commit, Event
    <2>5. \A i \in TransitionIndexes : ledger[i].id \in Nat /\ ledger[i].id =< issued /\ ledger[i].id # j.event.id
      BY <1>0, <2>2, EventFacts DEF Once, Event
    <2>6. \A k \in Commits' : k.event.id =< issued'
      BY <1>0, <2>2, <2>4
    <2>7. \A k, l \in Commits' : k.event.id = l.event.id => k = l
      BY <2>2, <2>4 DEF Once
    <2>8. \A i \in TransitionIndexes' : ledger'[i].id =< issued'
      BY <1>0, <2>2, <2>3, <2>5
    <2>9. \A k \in Commits' : \A i \in TransitionIndexes' : ledger'[i].id = k.event.id => k.head.seq = i
      BY <2>2, <2>3, <2>4, <2>5 DEF Once
    <2>10. \A i, k \in TransitionIndexes' : ledger'[i].id = ledger'[k].id => i = k
      BY <2>2, <2>3 DEF Once
    <2> QED
      BY <2>6, <2>7, <2>8, <2>9, <2>10 DEF Once
  <1>3. ASSUME NEW p \in Proc, AppendEvent(p), Commits' \subseteq Commits
        PROVE  Once'
    <2>1. /\ job[p].event \in Event /\ job[p].head.seq = Len(ledger) + 1
          /\ job[p].event \in Transitions => job[p] \in Commits
          /\ ledger' = Append(ledger, job[p].event) /\ UNCHANGED issued
      BY <1>3, AppendIs DEF AppendEvent
    <2>2. PICK n : n = Len(ledger) + 1
      OBVIOUS
    <2>3. /\ \A i \in DOMAIN ledger : ledger'[i] = ledger[i]
          /\ ledger'[n] = job[p].event /\ n \notin DOMAIN ledger
          /\ TransitionIndexes' =
               IF job[p].event \in Transitions THEN TransitionIndexes \cup {n} ELSE TransitionIndexes
      BY <1>0, <2>1, <2>2, LedgerGrows
    <2>4. CASE job[p].event \notin Transitions
      BY <1>0, <1>3, <2>1, <2>3, <2>4 DEF Once
    <2>5. CASE job[p].event \in Transitions
      <3>1. job[p] \in Commits /\ job[p].head.seq = n /\ TransitionIndexes' = TransitionIndexes \cup {n}
        BY <2>1, <2>2, <2>3, <2>5
      <3>2. \A i \in TransitionIndexes : ledger[i].id # job[p].event.id
        BY <1>0, <2>3, <3>1 DEF Once
      <3>3. \A k \in Commits' : k.event.id =< issued'
        BY <1>3, <2>1 DEF Once
      <3>4. \A k, l \in Commits' : k.event.id = l.event.id => k = l
        BY <1>3 DEF Once
      <3>5. \A i \in TransitionIndexes' : ledger'[i].id =< issued'
        BY <1>0, <2>1, <2>3, <3>1 DEF Once
      <3>6. \A k \in Commits' : \A i \in TransitionIndexes' : ledger'[i].id = k.event.id => k.head.seq = i
        BY <1>0, <1>3, <2>3, <3>1 DEF Once
      <3>7. \A i, k \in TransitionIndexes' : ledger'[i].id = ledger'[k].id => i = k
        BY <1>0, <2>3, <3>1, <3>2 DEF Once
      <3> QED
        BY <3>3, <3>4, <3>5, <3>6, <3>7 DEF Once
    <2> QED
      BY <2>4, <2>5
  <1>4. ASSUME NEW p \in Proc, AppendEvent(p), NEW q \in Proc, NEW s \in Status, ChainTransition(q, s)
        PROVE  FALSE
    BY <1>4 DEF AppendEvent, ChainTransition, files, Typed
  <1> QED
    BY <1>1, <1>2, <1>3, <1>4, CommitsKept, Writes

(* What an authorization was spent on stays so: nobody un-consumes it.     *)
LEMMA PaidForKept ==
    ASSUME Typed, Employed, [Next]_vars, NEW a \in Action, PaidFor(a)
    PROVE  PaidFor(a)'
  <1>0. AuthOf[a] \in Auth /\ AuthOf \in [Action -> Auth]
    BY StoreAssumption
  <1>1. ASSUME NEW p \in Proc, Consume(p)
        PROVE  PaidFor(a)'
    BY <1>0, <1>1 DEF Consume, PaidFor, Typed
  <1>2. ASSUME NEW p \in Proc, SaveAuthorization(p)
        PROVE  PaidFor(a)'
    BY <1>0, <1>2 DEF SaveAuthorization, PaidFor, Typed
  <1>3. ASSUME NEW p \in Proc, Void(p)
        PROVE  PaidFor(a)'
    BY <1>0, <1>3 DEF Void, PaidFor, Typed
  <1> QED
    BY <1>1, <1>2, <1>3, Writes DEF PaidFor

(* A process comes to append a start only after it has found its           *)
(* authorization consumed for this action.                                 *)
LEMMA StartingKept ==
    ASSUME Typed, Employed, [Next]_vars, NEW p \in Proc, Starting(p)'
    PROVE  \/ job'[p].event = job[p].event /\ Starting(p)
           \/ job'[p].event = job[p].event /\ job[p].event.id \in Action /\ PaidFor(job[p].event.id)'
  <1> SUFFICES ASSUME ~UNCHANGED vars
               PROVE  \/ job'[p].event = job[p].event /\ Starting(p)
                      \/ /\ job'[p].event = job[p].event /\ job[p].event.id \in Action
                         /\ PaidFor(job[p].event.id)'
    BY DEF vars, procs, Starting
  <1> PICK r \in Proc : /\ Recovery(r) \/ Continue(r) \/ Call(r) \/ Crash(r)
                        /\ pc' = [pc EXCEPT ![r] = pc'[r]] /\ job' = [job EXCEPT ![r] = job'[r]]
    BY Acting
  <1>1. CASE r # p
    BY <1>1 DEF Starting, Typed
  <1>2. CASE r = p /\ Recovery(p)
    BY <1>2 DEF Recovery, Open, RecoverAction, RecoverTransitions, RecoverTransition, Opened, Raise, Goto,
       Typed,
                Starting
  <1>3. CASE r = p /\ Continue(p)
    <2>1. CASE MatchTransition(p)
      <3>1. Committing(p) /\ job'[p] = job[p]
        BY <2>1 DEF MatchTransition, Committing
      <3> QED
        BY <3>1 DEF Employed, Commit, Transitions, Starting
    <2>2. CASE \/ WriteTransitionJournal(p) \/ CheckSnapshot(p) \/ SaveSnapshot(p) \/ UnlinkTransition(p)
               \/ RefuseEvent(p) \/ LockTimeout(p) \/ AppendEvent(p) \/ Unauthorized(p) \/ UnlinkAction(p)
      BY <1>3, <2>2
         DEF WriteTransitionJournal, CheckSnapshot, SaveSnapshot, UnlinkTransition, RefuseEvent, LockTimeout,
             AppendEvent, Unauthorized, UnlinkAction, Return, Raise, Goto, Typed, Starting
    <2>3. CASE ReleaseLock(p)
      BY <1>3, <2>3 DEF ReleaseLock, Goto, Typed, Starting
    <2>4. CASE AcquireLock(p) \/ FindStart(p)
      BY <1>3, <2>4 DEF AcquireLock, FindStart, Raise, Goto, Typed, Starting
    <2>5. CASE ChainActionEvent(p)
      BY <1>3, <2>5 DEF ChainActionEvent, Employed, Label, Job, Typed, Starting
    <2>6. CASE Authorized(p) \/ Consume(p)
      <3>1. job'[p] = job[p] /\ job[p].event \in Starts /\ pc'[p] \in {"consume", "consumed", "starts"}
        BY <1>3, <2>6 DEF Authorized, Consume, Employed, Goto, Typed
      <3>2. job[p].event.id \in Action /\ AuthOf[job[p].event.id] \in Auth
        BY <3>1, StoreAssumption, EventFacts DEF Event
      <3>3. pc'[p] \in {"consumed", "starts"} => PaidFor(job[p].event.id)'
        BY <1>3, <2>6, <3>1, <3>2 DEF Authorized, Consume, PaidFor, Goto, files, Typed
      <3> QED
        BY <3>1, <3>2, <3>3 DEF Starting
    <2>7. CASE CapabilityStep(p)
      <3>1. /\ job'[p] = job[p]
            /\ pc'[p] \in {"consumed", "starts", "chain", "lock", "append"} => pc[p] \in {"consumed", "voided"}
        BY <1>3, <2>7, CapabilitySteps
      <3>2. pc[p] = "voided" => job[p].event.type = "ACTION_FAILED"
        BY DEF Employed
      <3> QED
        BY <3>1, <3>2 DEF Starting
    <2> QED
      BY <1>3, <2>1, <2>2, <2>3, <2>4, <2>5, <2>6, <2>7 DEF Continue
  <1>4. CASE r = p /\ Call(p)
    <2>1. ASSUME NEW s \in Status, ChainTransition(p, s)
          PROVE  ~Starting(p)'
      BY <2>1 DEF ChainTransition, Goto, Typed, Starting
    <2>2. ASSUME NEW x \in Auth, Issue(p, x)
          PROVE  ~Starting(p)'
      BY <2>2 DEF Issue, Goto, Typed, Starting
    <2>3. ASSUME NEW a \in Action, WriteActionJournal(p, a)
          PROVE  ~Starting(p)'
      BY <2>3 DEF WriteActionJournal, Goto, Typed, Starting
    <2>4. ASSUME NEW a \in Action, CompleteAction(p, a) \/ FailAction(p, a)
          PROVE  ~Starting(p)'
      BY <2>4 DEF CompleteAction, FailAction, Goto, End, Typed, Starting
    <2> QED
      BY <1>4, <2>1, <2>2, <2>3, <2>4 DEF Call
  <1>5. CASE r = p /\ Crash(p)
    BY <1>5 DEF Crash, Goto, Typed, Starting
  <1> QED
    BY <1>1, <1>2, <1>3, <1>4, <1>5

(* A start that is in the ledger, or about to be, stays paid for.          *)
LEMMA PaidStep == Typed /\ Employed /\ Paid /\ [Next]_vars => Paid'
  <1> SUFFICES ASSUME Typed, Employed, Paid, [Next]_vars
               PROVE  Paid'
    OBVIOUS
  <1>1. ASSUME NEW a \in Action, Has("ACTION_STARTED", a)'
        PROVE  PaidFor(a)'
    <2>1. Has("ACTION_STARTED", a) => PaidFor(a)
      BY DEF Paid
    <2>2. ASSUME NEW p \in Proc, AppendEvent(p)
          PROVE  PaidFor(a)
      <3>1. /\ job[p].event \in Event /\ ledger' = Append(ledger, job[p].event)
            /\ job[p].event \in Starts => Starting(p)
        BY <2>2, AppendIs
      <3>2. Has("ACTION_STARTED", a) \/ (job[p].event.type = "ACTION_STARTED" /\ job[p].event.id = a)
        BY <1>1, <3>1, LedgerGrows
      <3> QED
        BY <2>1, <3>1, <3>2, EventFacts DEF Paid
    <2>3. UNCHANGED ledger => PaidFor(a)
      BY <1>1, <2>1 DEF Has
    <2> QED
      BY <2>2, <2>3, PaidForKept, Writes
  <1>2. ASSUME NEW p \in Proc, Starting(p)'
        PROVE  PaidFor(job[p].event.id)'
    <2>1. PICK a : a = job'[p].event.id
      OBVIOUS
    <2>2. a \in Action /\ PaidFor(a)'
      <3>1. CASE job'[p].event = job[p].event /\ Starting(p)
        <4>1. PaidFor(job[p].event.id) /\ job[p].event.id \in Action
          <5>1. job[p].event \in Starts \cup Ends \cup Event /\ job[p].event.type = "ACTION_STARTED"
            BY <3>1 DEF Starting, Employed, Appending
          <5> QED
            BY <3>1, <5>1, EventFacts DEF Paid, Event
        <4> QED
          BY <2>1, <3>1, <4>1, PaidForKept
      <3>2. CASE job'[p].event = job[p].event /\ job[p].event.id \in Action /\ PaidFor(job[p].event.id)'
        <4>1. PICK b \in Action : b = job[p].event.id
          BY <3>2
        <4>2. auth'[AuthOf[b]].by = b /\ auth'[AuthOf[b]].status \in {"CONSUMED", "VOID"}
          BY <2>1, <3>2, <4>1 DEF PaidFor
        <4> QED
          BY <2>1, <3>2, <4>1, <4>2 DEF PaidFor
      <3> QED
        BY <1>2, <3>1, <3>2, StartingKept
    <2> QED
      BY <2>1, <2>2 DEF PaidFor
  <1> QED
    BY <1>1, <1>2 DEF Paid

(* Every step keeps the invariant of a shared store.                       *)
LEMMA SharedStep == SharedInv /\ [Next]_vars => SharedInv'
  BY TypedStep, EmployedStep, LockedStep, GuardedStep, OnceStep, PaidStep DEF SharedInv

(* An empty store satisfies it.                                            *)
LEMMA SharedInit == Init => SharedInv
  <1> SUFFICES ASSUME Init
               PROVE  SharedInv
    OBVIOUS
  <1>1. Typed
    BY StoreAssumption DEF Init, Typed, Label
  <1>2. Employed /\ Locked /\ Guarded
    BY StoreAssumption DEF Init, Employed, Committing, Label, Appending, Locked, Guarded, Holding
  <1>3. Commits = {} /\ TransitionIndexes = {}
    BY DEF Init, Commits, Committing, Appending, TransitionIndexes
  <1>4. Paid
    BY DEF Init, Paid, Has, Starting
  <1> QED
    BY <1>1, <1>2, <1>3, <1>4 DEF SharedInv, Once

(* However many processes open the store, and are killed at any step:      *)
(* files and process variables have their types, the lock files are        *)
(* exclusive, a transition is in the ledger once, and a started action has *)
(* consumed its authorization.                                             *)
THEOREM Shared == Spec => []SharedInv
  BY SharedInit, SharedStep, PTL DEF Spec

(* A finite set in which any two elements are equal has at most one.       *)
LEMMA AtMostOne ==
    ASSUME NEW S, IsFiniteSet(S), \A i, k \in S : i = k
    PROVE  Cardinality(S) \in {0, 1} /\ (Cardinality(S) = 0 <=> S = {})
  <1>1. CASE S = {}
    BY <1>1, FS_EmptySet
  <1>2. CASE S # {}
    <2>1. PICK i : i \in S
      BY <1>2
    <2>2. S = {i}
      BY <2>1
    <2> QED
      BY <1>2, <2>2, FS_Singleton
  <1> QED
    BY <1>1, <1>2

(* A count of events that are all the same one is 1 or 0.                  *)
LEMMA CountIs ==
    ASSUME Typed, NEW type, NEW id,
           \A i, k \in DOMAIN ledger : ledger[i].type = type /\ ledger[k].type = type /\ ledger[i].id = id
                                       /\ ledger[k].id = id => i = k
    PROVE  Count(type, id) = IF Has(type, id) THEN 1 ELSE 0
  <1> DEFINE S == {i \in DOMAIN ledger : ledger[i].type = type /\ ledger[i].id = id}
  <1>1. IsFiniteSet(DOMAIN ledger) /\ S \subseteq DOMAIN ledger
    BY FS_Interval DEF Typed
  <1>2. IsFiniteSet(S)
    BY <1>1, FS_Subset
  <1>3. \A i, k \in S : i = k
    OBVIOUS
  <1>4. S = {} <=> ~Has(type, id)
    BY DEF Has
  <1> QED
    BY <1>2, <1>3, <1>4, AtMostOne DEF Count

(* The invariant puts each transition into the ledger at most once.        *)
LEMMA TransitionOnce == SharedInv => \A n : Count("STATE_TRANSITION", n) =< 1
  <1> SUFFICES ASSUME SharedInv, NEW n
               PROVE  Count("STATE_TRANSITION", n) =< 1
    OBVIOUS
  <1>1. \A i, k \in DOMAIN ledger : /\ ledger[i].type = "STATE_TRANSITION" /\ ledger[k].type = "STATE_TRANSITION"
                                    /\ ledger[i].id = n /\ ledger[k].id = n
                                    => i = k
    BY DEF SharedInv, Once, TransitionIndexes
  <1> QED
    BY <1>1, CountIs DEF SharedInv

(* However many processes replay, retry and race, an authorization starts  *)
(* at most one action, and a transition is committed at most once.         *)
THEOREM UsedOnce == Spec => []SingleUse
  <1>1. SharedInv => SingleUse
    <2>1. SharedInv => \A a, b \in Action :
            Has("ACTION_STARTED", a) /\ Has("ACTION_STARTED", b) /\ AuthOf[a] = AuthOf[b] => a = b
      BY DEF SharedInv, Paid, PaidFor
    <2> QED
      BY <2>1, TransitionOnce DEF SingleUse
  <1> QED
    BY <1>1, Shared, PTL

(* The ledger is append-only, whatever processes append to it and whenever *)
(* they are killed.                                                        *)
THEOREM AppendOnly == Spec => LedgerAppendOnly
  <1>1. ASSUME SharedInv, [Next]_vars
        PROVE  [/\ Len(ledger') >= Len(ledger)
                /\ SubSeq(ledger', 1, Len(ledger)) = ledger]_ledger
    <2>1. ASSUME NEW p \in Proc, AppendEvent(p)
          PROVE  Len(ledger') >= Len(ledger) /\ SubSeq(ledger', 1, Len(ledger)) = ledger
      <3>1. job[p].event \in Event /\ ledger' = Append(ledger, job[p].event) /\ ledger \in Seq(Event)
        BY <1>1, <2>1, AppendIs DEF SharedInv, Typed
      <3> QED
        BY <3>1, AppendProperties, SubSeqProperties
    <2> QED
      BY <1>1, <2>1, Writes DEF SharedInv
  <1> QED
    BY <1>1, Shared, PTL DEF Spec, LedgerAppendOnly

-----------------------------------------------------------------------------
(* A process that has the store for itself takes every step.               *)
LEMMA Acts ==
    ASSUME Alone, NEW p \in Proc, [Next]_vars
    PROVE  UNCHANGED vars \/ Recovery(p) \/ Continue(p) \/ Call(p) \/ Crash(p)
  BY Steps DEF Alone

(* What kind of event a process works on at its step.                      *)
LEMMA CallTypes ==
    ASSUME Typed, Employed, NEW p \in Proc
    PROVE  /\ Committing(p) => /\ job[p] \in Commit /\ job[p].event.type = "STATE_TRANSITION"
                               /\ job[p].event \in Transitions
           /\ Beginning(p) => /\ job[p].event.type = "ACTION_STARTED" /\ job[p].event \in Starts
                              /\ job[p].event.id \in Action /\ job[p].event = Started(job[p].event.id)
           /\ Ending(p) => /\ job[p].event \in Ends /\ job[p].event.id \in Action
                           /\ job[p].event.type \in {"ACTION_COMPLETED", "ACTION_FAILED"}
           /\ pc[p] \in {"void", "voiding", "voided"} => job[p].event.type = "ACTION_FAILED"
           /\ pc[p] \in Appending => Committing(p) \/ Beginning(p) \/ Ending(p)
           /\ pc[p] = "chain" => Beginning(p) \/ Ending(p)
           /\ Committing(p) \/ Beginning(p) \/ Ending(p) => job[p] \in Job /\ job[p].event \in Event
  <1>1. pc[p] \in Label \ {"down", "ready", "scan_actions", "scan_transitions"} => job[p] \in Job
    BY DEF Employed
  <1>2. Committing(p) \/ Beginning(p) \/ Ending(p) =>
          pc[p] \in Label \ {"down", "ready", "scan_actions", "scan_transitions"}
    BY DEF Committing, Beginning, Ending, Label, Appending
  <1>3. Committing(p) => job[p] \in Commit /\ job[p].event \in Transitions
    BY DEF Employed, Commit
  <1>7. pc[p] \in Appending \cup {"chain"} => job[p].event \in Event
    BY DEF Employed, Event
  <1>4. Beginning(p) => job[p].event \in Starts
    BY <1>7, EventFacts DEF Beginning, Employed
  <1>5. Ending(p) => job[p].event \in Ends
    BY <1>7, EventFacts DEF Ending, Employed
  <1>6. /\ pc[p] \in Appending => Committing(p) \/ Beginning(p) \/ Ending(p)
        /\ pc[p] = "chain" => Beginning(p) \/ Ending(p)
    BY <1>7, EventFacts DEF Committing, Beginning, Ending, Employed
  <1>8. pc[p] \in {"void", "voiding", "voided"} => job[p].event.type = "ACTION_FAILED"
    BY DEF Employed
  <1>9. Committing(p) \/ Beginning(p) \/ Ending(p) => job[p].event \in Event
    BY <1>3, <1>4, <1>5 DEF Event
  <1> QED
    BY <1>1, <1>2, <1>3, <1>4, <1>5, <1>6, <1>8, <1>9, EventFacts

(* What chaining an action's event leaves alone.                           *)
LEMMA Chains ==
    ASSUME Typed, Employed, NEW p \in Proc, ChainActionEvent(p)
    PROVE  /\ job'[p].event = job[p].event /\ job'[p].head = LedgerHead /\ pc[p] = "chain" /\ pc'[p] = "lock"
           /\ UNCHANGED <<files, opening, todo, owner, issued, crashes, raised>>
           /\ ~Committing(p) /\ ~Committing(p)'
           /\ Beginning(p)' <=> Beginning(p)
           /\ Ending(p)' <=> Ending(p)
  <1>1. job[p] \in Job /\ job[p].event \in Starts \cup Ends /\ pc[p] = "chain"
    BY DEF ChainActionEvent, Employed, Label
  <1>2. job'[p].event = job[p].event /\ job'[p].head = LedgerHead /\ pc'[p] = "lock"
    BY <1>1 DEF ChainActionEvent, Goto, Typed, Job
  <1>3. ~Committing(p) /\ ~Committing(p)'
    BY <1>1, <1>2, EventFacts DEF Committing, Appending, Event
  <1> QED
    BY <1>1, <1>2, <1>3 DEF ChainActionEvent, Beginning, Ending, Appending

(* The journal of an event is written before anything else and unlinked    *)
(* last; replay takes every journal once, actions first.                   *)
LEMMA JournaledStep ==
    ASSUME Alone, Typed, Employed, NEW p \in Proc, Journaled(p), [Next]_vars
    PROVE  Journaled(p)'
  <1> USE DEF Committing, Beginning, Ending, Appending, Journaled
  <1>0. /\ Committing(p) => job[p].event.type = "STATE_TRANSITION"
        /\ Beginning(p) => job[p].event.type = "ACTION_STARTED"
        /\ Ending(p) => job[p].event.type \in {"ACTION_COMPLETED", "ACTION_FAILED"}
        /\ pc[p] \in {"lock", "append", "unlock"} => Committing(p) \/ Beginning(p) \/ Ending(p)
    BY CallTypes
  <1>1. CASE UNCHANGED vars
    BY <1>1 DEF vars, files, procs
  <1>2. CASE Recovery(p)
    <2>1. CASE Open(p) \/ RecoverTransitions(p) \/ Opened(p)
      BY <2>1 DEF Open, RecoverTransitions, Opened, Goto, files, Typed
    <2>2. CASE RecoverAction(p)
      BY <2>2, EventFacts DEF RecoverAction, Raise, Goto, files, Typed, Started
    <2>3. CASE RecoverTransition(p)
      BY <2>3 DEF RecoverTransition, Raise, Goto, files, Typed
    <2> QED
      BY <1>2, <2>1, <2>2, <2>3 DEF Recovery
  <1>3. CASE Continue(p)
    <2>1. CASE WriteTransitionJournal(p)
      BY <2>1 DEF WriteTransitionJournal, Goto, Typed
    <2>2. CASE MatchTransition(p)
      BY <1>0, <2>2 DEF MatchTransition, Goto, files, Typed
    <2>3. CASE CheckSnapshot(p)
      BY <2>3 DEF CheckSnapshot, Raise, Goto, files, Typed
    <2>4. CASE SaveSnapshot(p)
      BY <2>4 DEF SaveSnapshot, Goto, Typed
    <2>5. CASE UnlinkTransition(p)
      BY <2>5 DEF UnlinkTransition, Return, Goto, Typed
    <2>6. CASE AcquireLock(p) \/ AppendEvent(p)
      BY <2>6 DEF AcquireLock, AppendEvent, Goto, Typed
    <2>7. CASE LockTimeout(p) \/ RefuseEvent(p)
      BY <2>7 DEF LockTimeout, RefuseEvent, Raise, Goto, files, Typed
    <2>8. CASE ReleaseLock(p)
      <3>1. pc' = [pc EXCEPT ![p] = IF Committing(p) THEN "check" ELSE IF Beginning(p) THEN "unlink_action" ELSE "ready"]
        BY <1>0, <2>8 DEF ReleaseLock, Goto, Typed
      <3> QED
        BY <1>0, <2>8, <3>1 DEF ReleaseLock, Typed
    <2>9. CASE Authorized(p)
      BY <2>9 DEF Authorized, Goto, files, Typed
    <2>10. CASE Unauthorized(p)
      BY <2>10 DEF Unauthorized, Raise, Goto, Typed
    <2>11. CASE Consume(p)
      BY <2>11 DEF Consume, Goto, Typed
    <2>12. CASE FindStart(p)
      <3>1. job[p].event.type = "ACTION_STARTED"
        BY <1>0, <2>12 DEF FindStart
      <3> QED
        BY <2>12, <3>1 DEF FindStart, Raise, Goto, files, Typed
    <2>13. CASE UnlinkAction(p)
      BY <2>13 DEF UnlinkAction, Return, Goto, Typed
    <2>14. CASE ChainActionEvent(p)
      BY <2>14, Chains DEF files
    <2>15. CASE CapabilityStep(p)
      <3>1. /\ UNCHANGED <<tjournal, ajournal, job, todo>>
            /\ \/ /\ UNCHANGED opening /\ Committing(p)' = FALSE
                  /\ \/ pc[p] \in {"issue", "issuing"} /\ pc'[p] \in {"issuing", "issued"}
                     \/ pc[p] = "issued" /\ pc'[p] = "ready"
                     \/ pc[p] \in {"consume", "consuming", "consumed"} /\ pc'[p] \in {"consuming", "refused", "starts"}
                     \/ pc[p] \in {"void", "voiding", "voided"} /\ pc'[p] \in {"voiding", "voided", "chain"}
               \/ pc'[p] \in {"ready", "down"} /\ ~opening'[p]
        BY <2>15, CapabilitySteps
      <3>2. pc[p] \in {"void", "voiding", "voided"} => job[p].event.type = "ACTION_FAILED"
        BY CallTypes
      <3>3. CASE pc'[p] \in {"ready", "down"}
        BY <3>1, <3>3
      <3>4. CASE pc[p] \in {"issue", "issuing"} /\ pc'[p] \in {"issuing", "issued"}
        BY <3>1, <3>4
      <3>5. CASE pc[p] \in {"consume", "consuming", "consumed"} /\ pc'[p] \in {"consuming", "refused", "starts"}
        BY <3>1, <3>5
      <3>6. CASE pc[p] \in {"void", "voiding", "voided"} /\ pc'[p] \in {"voiding", "voided", "chain"}
        <4>1. job'[p].event.type = "ACTION_FAILED" /\ ~opening'[p]
          BY <3>1, <3>2, <3>6
        <4>2. ~Beginning(p)' /\ ~Committing(p)'
          BY <3>6, <4>1
        <4>3. Ending(p) /\ job'[p].event.id \notin ajournal'
          BY <3>1, <3>6
        <4> QED
          BY <3>6, <4>1, <4>2, <4>3
      <3> QED
        BY <3>1, <3>3, <3>4, <3>5, <3>6
    <2> QED
      BY <1>3, <2>1, <2>2, <2>3, <2>4, <2>5, <2>6, <2>7, <2>8, <2>9, <2>10, <2>11, <2>12, <2>13,
         <2>14, <2>15 DEF Continue
  <1>4. CASE Call(p)
    <2>1. ASSUME NEW s \in Status, ChainTransition(p, s)
          PROVE  Journaled(p)'
      BY <2>1 DEF ChainTransition, Goto, files, Typed
    <2>2. ASSUME NEW x \in Auth, Issue(p, x)
          PROVE  Journaled(p)'
      BY <2>2 DEF Issue, Goto, files, Typed
    <2>3. ASSUME NEW a \in Action, WriteActionJournal(p, a)
          PROVE  Journaled(p)'
      BY <2>3 DEF WriteActionJournal, Goto, Started, Typed
    <2>4. ASSUME NEW a \in Action, CompleteAction(p, a) \/ FailAction(p, a)
          PROVE  Journaled(p)'
      BY <2>4 DEF CompleteAction, FailAction, Closable, Goto, End, files, Typed
    <2> QED
      BY <1>4, <2>1, <2>2, <2>3, <2>4 DEF Call
  <1>5. CASE Crash(p)
    BY <1>5 DEF Crash, Goto, Typed
  <1> QED
    BY <1>1, <1>2, <1>3, <1>4, <1>5, Acts

-----------------------------------------------------------------------------
(* What is read off the ledger stays while the ledger does.                *)
LEMMA SameLedger ==
    ASSUME UNCHANGED ledger
    PROVE  /\ \A type, id : Has(type, id)' <=> Has(type, id)
           /\ \A a : Unfinished(a)' <=> Unfinished(a)
           /\ LedgerHead' = LedgerHead /\ TransitionIndexes' = TransitionIndexes
           /\ LastTransition' = LastTransition
  <1>1. \A type, id : Has(type, id)' <=> Has(type, id)
    BY DEF Has
  <1>2. TransitionIndexes' = TransitionIndexes
    BY DEF TransitionIndexes
  <1> QED
    BY <1>1, <1>2 DEF Unfinished, Ended, LedgerHead, LastTransition

(* A count is zero where there is no such event.                           *)
LEMMA CountZero ==
    ASSUME Typed, NEW type, NEW id
    PROVE  Count(type, id) \in Nat /\ (Count(type, id) = 0 <=> ~Has(type, id))
  <1> DEFINE S == {i \in DOMAIN ledger : ledger[i].type = type /\ ledger[i].id = id}
  <1>1. IsFiniteSet(DOMAIN ledger) /\ S \subseteq DOMAIN ledger
    BY FS_Interval DEF Typed
  <1>2. IsFiniteSet(S)
    BY <1>1, FS_Subset
  <1>3. S = {} <=> ~Has(type, id)
    BY DEF Has
  <1> QED
    BY <1>2, <1>3, FS_EmptySet, FS_CardinalityType DEF Count

(* A process decides whether to append by looking at the ledger; alone, it *)
(* finds the ledger as it looked at it.                                    *)
LEMMA UndoneStep ==
    ASSUME Alone, Typed, Employed, NEW p \in Proc, Undone(p), [Next]_vars
    PROVE  Undone(p)'
  <1> USE DEF Committing, Beginning, Ending, Appending, Undone
  <1>0. /\ Committing(p) => job[p].event.type = "STATE_TRANSITION"
        /\ Beginning(p) => job[p].event.type = "ACTION_STARTED"
        /\ Ending(p) => job[p].event.type \in {"ACTION_COMPLETED", "ACTION_FAILED"}
        /\ pc[p] \in {"void", "voiding", "voided"} => job[p].event.type = "ACTION_FAILED"
        /\ pc[p] \in {"lock", "append", "unlock"} => Committing(p) \/ Beginning(p) \/ Ending(p)
    BY CallTypes
  <1>1. CASE UNCHANGED vars
    BY <1>1, SameLedger DEF vars, files, procs
  <1>2. CASE Recovery(p)
    <2>1. CASE Open(p) \/ RecoverTransitions(p) \/ Opened(p)
      BY <2>1 DEF Open, RecoverTransitions, Opened, Goto, files, Typed
    <2>2. CASE RecoverAction(p)
      BY <2>2 DEF RecoverAction, Raise, Goto, files, Typed
    <2>3. CASE RecoverTransition(p)
      BY <2>3 DEF RecoverTransition, Raise, Goto, files, Typed
    <2> QED
      BY <1>2, <2>1, <2>2, <2>3 DEF Recovery
  <1>3. CASE Continue(p)
    <2>1. CASE WriteTransitionJournal(p)
      BY <2>1 DEF WriteTransitionJournal, Goto, Typed
    <2>2. CASE MatchTransition(p)
      <3>1. job[p].event.type = "STATE_TRANSITION" /\ UNCHANGED <<ledger, job>>
        BY <1>0, <2>2 DEF MatchTransition, files
      <3> QED
        BY <2>2, <3>1, SameLedger DEF MatchTransition, Goto, Typed
    <2>3. CASE CheckSnapshot(p) \/ SaveSnapshot(p)
      <3>1. UNCHANGED <<ledger, job>>
        BY <2>3 DEF CheckSnapshot, SaveSnapshot, Raise, files
      <3> QED
        BY <2>3, <3>1, SameLedger DEF CheckSnapshot, SaveSnapshot, Raise, Goto, Typed
    <2>4. CASE UnlinkTransition(p) \/ UnlinkAction(p)
      BY <2>4 DEF UnlinkTransition, UnlinkAction, Return, Goto, Typed
    <2>5. CASE AcquireLock(p)
      BY <2>5, SameLedger DEF AcquireLock, Goto, Typed
    <2>6. CASE AppendEvent(p)
      <3>1. /\ job[p].event \in Event /\ ledger' = Append(ledger, job[p].event)
            /\ UNCHANGED job /\ pc'[p] = "unlock"
        BY <2>6, AppendIs DEF AppendEvent, Goto, Typed
      <3>2. Has(job[p].event.type, job[p].event.id)'
        <4>1. PICK e : e = job[p].event
          OBVIOUS
        <4>2. Has(e.type, e.id)'
          BY <3>1, <4>1, LedgerGrows
        <4> QED
          BY <3>1, <4>1, <4>2
      <3> QED
        BY <1>0, <3>1, <3>2
    <2>7. CASE LockTimeout(p) \/ RefuseEvent(p) \/ Unauthorized(p)
      BY <2>7 DEF LockTimeout, RefuseEvent, Unauthorized, Raise, Goto, files, Typed
    <2>8. CASE ReleaseLock(p)
      <3>1. pc' = [pc EXCEPT ![p] = IF Committing(p) THEN "check" ELSE IF Beginning(p) THEN "unlink_action" ELSE "ready"]
        BY <1>0, <2>8 DEF ReleaseLock, Goto, Typed
      <3>2. UNCHANGED <<ledger, job>>
        BY <2>8 DEF ReleaseLock
      <3> QED
        BY <1>0, <2>8, <3>1, <3>2, SameLedger DEF ReleaseLock, Typed
    <2>9. CASE Authorized(p) \/ Consume(p)
      BY <2>9, SameLedger DEF Authorized, Consume, Goto, files, Typed
    <2>10. CASE FindStart(p)
      <3>1. job[p].event.type = "ACTION_STARTED" /\ UNCHANGED <<ledger, job>>
        BY <1>0, <2>10 DEF FindStart, Raise, files
      <3>2. PICK n : n = Count("ACTION_STARTED", job[p].event.id)
        OBVIOUS
      <3>3. n \in Nat /\ (n = 0 <=> ~Has("ACTION_STARTED", job[p].event.id))
        BY <3>2, CountZero
      <3>4. pc' \in {[pc EXCEPT ![p] = IF n = 1 THEN "unlink_action" ELSE "chain"],
                     [pc EXCEPT ![p] = "down"], [pc EXCEPT ![p] = "ready"]}
            /\ (n > 1 => pc' # [pc EXCEPT ![p] = IF n = 1 THEN "unlink_action" ELSE "chain"])
        BY <2>10, <3>2 DEF FindStart, Raise, Goto, Typed
      <3> QED
        BY <3>1, <3>3, <3>4, SameLedger DEF Typed
    <2>11. CASE ChainActionEvent(p)
      BY <2>11, Chains, SameLedger DEF files
    <2>12. CASE CapabilityStep(p)
      <3>1. /\ UNCHANGED <<ledger, job>>
            /\ \/ pc[p] \in {"issue", "issuing", "consume", "consuming", "consumed", "issued"}
                  /\ pc'[p] \in {"issuing", "issued", "consuming", "refused", "starts"}
               \/ pc[p] \in {"void", "voiding", "voided"} /\ pc'[p] \in {"voiding", "voided", "chain"}
               \/ pc'[p] \in {"ready", "down"}
        BY <2>12, CapabilitySteps
      <3>2. CASE pc[p] \in {"void", "voiding", "voided"} /\ pc'[p] \in {"voiding", "voided", "chain"}
        BY <1>0, <3>1, <3>2, SameLedger
      <3>3. CASE ~(pc[p] \in {"void", "voiding", "voided"} /\ pc'[p] \in {"voiding", "voided", "chain"})
        BY <3>1, <3>3
      <3> QED
        BY <3>2, <3>3
    <2> QED
      BY <1>3, <2>1, <2>2, <2>3, <2>4, <2>5, <2>6, <2>7, <2>8, <2>9, <2>10, <2>11, <2>12 DEF Continue
  <1>4. CASE Call(p)
    <2>1. ASSUME NEW s \in Status, ChainTransition(p, s)
          PROVE  Undone(p)'
      BY <2>1, SameLedger DEF ChainTransition, Goto, files, Typed
    <2>2. ASSUME NEW x \in Auth, Issue(p, x)
          PROVE  Undone(p)'
      BY <2>2 DEF Issue, Goto, Typed
    <2>3. ASSUME NEW a \in Action, WriteActionJournal(p, a)
          PROVE  Undone(p)'
      BY <2>3 DEF WriteActionJournal, Goto, Started, Typed
    <2>4. ASSUME NEW a \in Action, CompleteAction(p, a) \/ FailAction(p, a)
          PROVE  Undone(p)'
      BY <2>4, SameLedger DEF CompleteAction, FailAction, Closable, Goto, End, files, Typed
    <2> QED
      BY <1>4, <2>1, <2>2, <2>3, <2>4 DEF Call
  <1>5. CASE Crash(p)
    BY <1>5 DEF Crash, Goto, Typed
  <1> QED
    BY <1>1, <1>2, <1>3, <1>4, <1>5, Acts

(* So no start and no end is appended twice, and an end comes after its    *)
(* start.                                                                  *)
LEMMA OrderedStep ==
    ASSUME Alone, Typed, Employed, Ordered, \A p \in Proc : Undone(p), [Next]_vars
    PROVE  Ordered'
  <1>1. CASE UNCHANGED ledger
    BY <1>1 DEF Ordered
  <1>2. ASSUME NEW p \in Proc, AppendEvent(p)
        PROVE  Ordered'
    <2>1. PICK e \in Event : e = job[p].event
      BY <1>2, AppendIs
    <2>2. PICK n : n = Len(ledger) + 1
      OBVIOUS
    <2>3. /\ ledger' = Append(ledger, e)
          /\ e \in Starts => ~Has("ACTION_STARTED", e.id)
          /\ e \in Ends => Unfinished(e.id)
      BY <1>2, <2>1, AppendIs DEF Undone, AppendEvent
    <2>4. /\ DOMAIN ledger = 1..Len(ledger) /\ Len(ledger) \in Nat
          /\ DOMAIN ledger' = 1..n /\ n \in Nat /\ n = Len(ledger) + 1
          /\ \A i \in DOMAIN ledger : ledger'[i] = ledger[i] /\ ledger[i] \in Event
          /\ ledger'[n] = e
      BY <2>2, <2>3, LedgerGrows
    <2>5. \A i \in DOMAIN ledger : ledger[i] \in Starts => ledger[i] # e
      BY <2>3, <2>4, EventFacts DEF Has
    <2>6. \A i \in DOMAIN ledger : ledger[i] \in Ends /\ e \in Ends => ledger[i].id # e.id
      BY <2>3, <2>4, EventFacts DEF Has, Unfinished, Ended
    <2>7. e \in Ends => \E j \in DOMAIN ledger : ledger[j] = Started(e.id)
      BY <2>3, <2>4, EventFacts DEF Has, Unfinished
    <2>8. \A i, k \in DOMAIN ledger' : ledger'[i] \in Starts /\ ledger'[k] = ledger'[i] => i = k
      <3>1. DOMAIN ledger' = DOMAIN ledger \cup {n}
        BY <2>4
      <3> QED
        BY <2>4, <2>5, <3>1 DEF Ordered
    <2>9. \A i, k \in DOMAIN ledger' :
            ledger'[i] \in Ends /\ ledger'[k] \in Ends /\ ledger'[k].id = ledger'[i].id => i = k
      <3>1. DOMAIN ledger' = DOMAIN ledger \cup {n}
        BY <2>4
      <3> QED
        BY <2>4, <2>6, <3>1 DEF Ordered
    <2>10. \A i \in DOMAIN ledger' :
             ledger'[i] \in Ends => \E j \in 1..(i - 1) : ledger'[j] = Started(ledger'[i].id)
      <3>1. ASSUME NEW i \in DOMAIN ledger, ledger[i] \in Ends
            PROVE  \E j \in 1..(i - 1) : ledger'[j] = Started(ledger[i].id)
        <4>1. PICK j \in 1..(i - 1) : ledger[j] = Started(ledger[i].id)
          BY <3>1 DEF Ordered
        <4> QED
          BY <2>4, <4>1
      <3>2. e \in Ends => \E j \in 1..(n - 1) : ledger'[j] = Started(e.id)
        BY <2>4, <2>7
      <3>3. DOMAIN ledger' = DOMAIN ledger \cup {n}
        BY <2>4
      <3> QED
        BY <2>4, <3>1, <3>2, <3>3
    <2> QED
      BY <2>8, <2>9, <2>10 DEF Ordered
  <1> QED
    BY <1>1, <1>2, Writes

(* An event in the ledger stays there.                                     *)
LEMMA HasKept ==
    ASSUME Typed, Employed, [Next]_vars, NEW type, NEW id, Has(type, id)
    PROVE  Has(type, id)'
  <1>1. ASSUME NEW p \in Proc, AppendEvent(p)
        PROVE  Has(type, id)'
    <2>1. PICK e \in Event : ledger' = Append(ledger, e)
      BY <1>1, AppendIs
    <2> QED
      BY <2>1, LedgerGrows
  <1> QED
    BY <1>1, SameLedger, Writes

(* An authorization is consumed under its action's journal, and the        *)
(* journal is unlinked after the start; so what is spent has, or will      *)
(* have, its start, also when the process is killed in between.            *)
LEMMA SpentStep ==
    ASSUME Alone, Typed, Employed, Paid, NEW x \in Auth, Spent(x),
           \A p \in Proc : Journaled(p) /\ Undone(p) /\ Entitled(p), [Next]_vars
    PROVE  Spent(x)'
  <1>0. /\ auth[x].status \in {"NONE", "ISSUED", "CONSUMED", "VOID"} /\ DOMAIN auth = Auth
        /\ auth[x] = [status |-> auth[x].status, by |-> auth[x].by] /\ AuthOf \in [Action -> Auth]
    BY StoreAssumption DEF Typed
  <1>1. ASSUME UNCHANGED auth[x],
               auth[x].by \in ajournal => auth[x].by \in ajournal' \/ Has("ACTION_STARTED", auth[x].by)'
        PROVE  Spent(x)'
    <2>1. PICK a : a = auth[x].by
      OBVIOUS
    <2>2. Has("ACTION_STARTED", a) => Has("ACTION_STARTED", a)'
      BY HasKept
    <2> QED
      BY <1>1, <2>1, <2>2 DEF Spent, Has
  <1>2. ASSUME NEW p \in Proc, Consume(p)
        PROVE  Spent(x)'
    <2>1. PICK a : a = job[p].event.id
      OBVIOUS
    <2>2. a \in ajournal /\ a \in Action /\ UNCHANGED ajournal
      BY <1>2, <2>1, CallTypes DEF Consume, Journaled, Beginning
    <2>3. CASE x # AuthOf[a]
      BY <1>0, <1>1, <1>2, <2>1, <2>2, <2>3 DEF Consume
    <2>4. CASE x = AuthOf[a]
      <3>1. auth'[x] = [status |-> "CONSUMED", by |-> a]
        BY <1>0, <1>2, <2>1, <2>4 DEF Consume
      <3> QED
        BY <2>2, <2>4, <3>1 DEF Spent
    <2> QED
      BY <2>3, <2>4
  <1>3. ASSUME NEW p \in Proc, SaveAuthorization(p)
        PROVE  Spent(x)'
    <2>1. PICK y \in Auth : y = Capability(p)
      BY <1>3, CapabilityIs DEF SaveAuthorization
    <2>2. /\ UNCHANGED ajournal /\ auth[y].status = "NONE"
          /\ auth' = [auth EXCEPT ![y].status = "ISSUED"]
      BY <1>3, <2>1 DEF SaveAuthorization
    <2>3. CASE x # y
      BY <1>0, <1>1, <2>2, <2>3
    <2>4. CASE x = y
      <3>1. auth[x].status = "NONE" /\ auth'[x].status = "ISSUED" /\ auth'[x].by = auth[x].by
        BY <1>0, <2>2, <2>4 DEF Typed
      <3> QED
        BY <3>1 DEF Spent
    <2> QED
      BY <2>3, <2>4
  <1>4. ASSUME NEW p \in Proc, Void(p)
        PROVE  Spent(x)'
    <2>1. PICK a \in Action : a = job[p].event.id /\ Capability(p) = AuthOf[a]
      BY <1>4, CapabilityIs DEF Void
    <2>2. UNCHANGED <<ajournal, ledger>> /\ auth' = [auth EXCEPT ![AuthOf[a]].status = "VOID"]
      BY <1>4, <2>1 DEF Void
    <2>3. CASE x # AuthOf[a]
      BY <1>0, <1>1, <2>2, <2>3
    <2>4. CASE x = AuthOf[a]
      <3>1. Has("ACTION_STARTED", a)
        BY <1>4, <2>1 DEF Void, Undone, Ending, Unfinished
      <3>2. auth[x].by = a
        BY <2>4, <3>1 DEF Paid, PaidFor
      <3>3. auth'[x].status = "VOID" /\ auth'[x].by = a
        BY <1>0, <2>2, <2>4, <3>2 DEF Typed
      <3>4. Has("ACTION_STARTED", a)'
        BY <3>1, HasKept
      <3> QED
        BY <2>4, <3>3, <3>4 DEF Spent, Has
    <2> QED
      BY <2>3, <2>4
  <1>5. ASSUME NEW p \in Proc, Unauthorized(p)
        PROVE  Spent(x)'
    <2>1. PICK a : a = job[p].event.id
      OBVIOUS
    <2>2. /\ UNCHANGED <<auth, ledger>> /\ ajournal \ {a} \subseteq ajournal' /\ pc[p] = "authorize"
          /\ auth[AuthOf[a]].status # "ISSUED" /\ auth[AuthOf[a]] # [status |-> "CONSUMED", by |-> a]
      BY <1>5, <2>1 DEF Unauthorized, Entitled
    <2>3. ASSUME auth[x].by = a, a \in ajournal
          PROVE  Has("ACTION_STARTED", a)
      <3>1. a \in Action /\ a # None
        BY <2>3, StoreAssumption DEF Typed
      <3>2. auth[x].status \in {"CONSUMED", "VOID"}
        BY <1>0, <2>3, <3>1 DEF Spent
      <3>3. auth[x].status # "CONSUMED"
        BY <1>0, <2>2, <2>3, <3>2 DEF Spent
      <3> QED
        BY <2>3, <3>2, <3>3 DEF Spent
    <2>4. Has("ACTION_STARTED", a) => Has("ACTION_STARTED", a)'
      BY HasKept
    <2>5. auth[x].by = a /\ a \in ajournal => Has("ACTION_STARTED", auth[x].by)'
      BY <2>2, <2>3, <2>4 DEF Has
    <2> QED
      BY <1>1, <2>2, <2>5
  <1>6. ASSUME NEW p \in Proc, UnlinkAction(p)
        PROVE  Spent(x)'
    <2>1. PICK a : a = job[p].event.id
      OBVIOUS
    <2>2. UNCHANGED <<auth, ledger>> /\ ajournal' = ajournal \ {a} /\ Has("ACTION_STARTED", a)
      BY <1>6, <2>1 DEF UnlinkAction, Undone, Beginning
    <2>3. auth[x].by = a => Has("ACTION_STARTED", auth[x].by)'
      BY <2>2 DEF Has
    <2> QED
      BY <1>1, <2>2, <2>3
  <1>7. ASSUME NEW p \in Proc, NEW a \in Action, WriteActionJournal(p, a)
        PROVE  Spent(x)'
    BY <1>1, <1>7 DEF WriteActionJournal
  <1>8. CASE UNCHANGED <<auth, ajournal>>
    BY <1>1, <1>8
  <1> QED
    BY <1>2, <1>3, <1>4, <1>5, <1>6, <1>7, <1>8, Writes

(* Nobody changes an authorization between a lone process's look at it and *)
(* its use.                                                                *)
LEMMA EntitledStep ==
    ASSUME Alone, Typed, Employed, Paid, NEW p \in Proc, Entitled(p), [Next]_vars
    PROVE  Entitled(p)'
  <1> USE DEF Ending, Appending, Entitled, Capability
  <1>0. /\ Committing(p) => job[p].event.type = "STATE_TRANSITION"
        /\ Beginning(p) => job[p].event.type = "ACTION_STARTED"
        /\ AuthOf \in [Action -> Auth] /\ DOMAIN auth = Auth
        /\ pc[p] \in {"void", "voiding", "voided"} => job[p].event.type = "ACTION_FAILED"
    BY CallTypes, StoreAssumption DEF Typed
  <1>1. CASE UNCHANGED vars
    BY <1>1 DEF vars, files, procs
  <1>2. CASE Recovery(p)
    BY <1>2 DEF Recovery, Open, RecoverAction, RecoverTransitions, RecoverTransition, Opened, Raise, Goto,
       files, Typed
  <1>3. CASE Continue(p)
    <2>1. CASE \/ WriteTransitionJournal(p) \/ MatchTransition(p) \/ CheckSnapshot(p) \/ SaveSnapshot(p)
               \/ UnlinkTransition(p)
      BY <1>0, <2>1
         DEF WriteTransitionJournal, MatchTransition, CheckSnapshot, SaveSnapshot, UnlinkTransition, Return, Raise,
             Goto, files, Typed, Committing
    <2>2. CASE AcquireLock(p) \/ LockTimeout(p) \/ AppendEvent(p) \/ RefuseEvent(p)
      BY <2>2 DEF AcquireLock, LockTimeout, AppendEvent, RefuseEvent, Raise, Goto, files, Typed
    <2>3. CASE ReleaseLock(p)
      BY <2>3 DEF ReleaseLock, Goto, Typed
    <2>4. CASE Authorized(p) \/ Unauthorized(p) \/ Consume(p) \/ UnlinkAction(p) \/ FindStart(p)
      BY <1>0, <2>4
         DEF Authorized, Unauthorized, Consume, UnlinkAction, FindStart, Return, Raise, Goto, files, Typed, Beginning
    <2>6. CASE CapabilityStep(p)
      <3>1. /\ UNCHANGED job
            /\ UNCHANGED auth \/ SaveAuthorization(p) \/ Void(p)
            /\ \/ pc[p] = "issue" /\ pc'[p] = "issuing"
               \/ pc[p] = "consume" /\ pc'[p] = "consuming"
               \/ pc[p] = "voided" /\ pc'[p] = "chain"
               \/ pc[p] = "voiding" /\ pc'[p] = "voided"
               \/ pc[p] = "consuming" /\ pc'[p] = "refused"
               \/ pc'[p] \in {"issued", "starts", "voiding", "ready", "down"}
        BY <2>6, CapabilitySteps
      <3>2. CASE SaveAuthorization(p)
        BY <3>1, <3>2 DEF SaveAuthorization, Goto, Typed
      <3>3. CASE Void(p)
        <4>1. auth'[Capability(p)].status = "VOID"
          BY <3>3, CapabilityIs DEF Void, Typed
        <4>2. Capability(p) = AuthOf[job[p].event.id] /\ job[p].event.type = "ACTION_FAILED" /\ pc'[p] = "voided"
          BY <1>0, <3>3, CapabilityIs DEF Void, Goto, Typed
        <4> QED
          BY <3>1, <4>1, <4>2
      <3>4. CASE ~SaveAuthorization(p) /\ ~Void(p) /\ pc'[p] # "refused"
        <4>1. pc'[p] # "voided"
          BY <2>6, <3>4 DEF CapabilityStep, AcquireCapability, CapabilityTimeout, ReleaseCapability,
                            RefuseAuthorization, RefuseConsume, Raise, Goto, Typed
        <4>2. CASE pc'[p] = "chain"
          BY <1>0, <3>1, <3>4, <4>2
        <4> QED
          BY <1>0, <3>1, <3>4, <4>1, <4>2
      <3>5. pc'[p] # "refused"
        BY <2>6, <3>1 DEF CapabilityStep, AcquireCapability, CapabilityTimeout, ReleaseCapability, SaveAuthorization,
                          RefuseAuthorization, RefuseConsume, Void, Raise, Goto, Typed
      <3> QED
        BY <3>1, <3>2, <3>3, <3>4, <3>5
    <2>5. CASE ChainActionEvent(p)
      BY <2>5, Chains DEF files
    <2> QED
      BY <1>3, <2>1, <2>2, <2>3, <2>4, <2>5, <2>6 DEF Continue
  <1>4. CASE Call(p)
    <2>1. ASSUME NEW s \in Status, ChainTransition(p, s)
          PROVE  Entitled(p)'
      BY <2>1 DEF ChainTransition, Goto, Typed
    <2>2. ASSUME NEW x \in Auth, Issue(p, x)
          PROVE  Entitled(p)'
      BY <2>2 DEF Issue, Grant, Goto, files, Typed
    <2>3. ASSUME NEW a \in Action, WriteActionJournal(p, a)
          PROVE  Entitled(p)'
      BY <2>3 DEF WriteActionJournal, Goto, Typed
    <2>4. ASSUME NEW a \in Action, CompleteAction(p, a)
          PROVE  Entitled(p)'
      <3>1. auth[AuthOf[a]].status = "CONSUMED" /\ UNCHANGED auth
        BY <2>4 DEF CompleteAction, Closable, Unfinished, Paid, PaidFor, files
      <3> QED
        BY <2>4, <3>1 DEF CompleteAction, Goto, End, Typed
    <2>5. ASSUME NEW a \in Action, FailAction(p, a)
          PROVE  Entitled(p)'
      BY <2>5 DEF FailAction, Goto, End, Typed
    <2> QED
      BY <1>4, <2>1, <2>2, <2>3, <2>4, <2>5 DEF Call
  <1>5. CASE Crash(p)
    BY <1>5 DEF Crash, Goto, Typed
  <1> QED
    BY <1>1, <1>2, <1>3, <1>4, <1>5, Acts

-----------------------------------------------------------------------------
(* The last transition of the ledger is the one that no other comes after. *)
LEMMA LastIs ==
    ASSUME Typed, NEW i \in TransitionIndexes, \A j \in TransitionIndexes : j =< i
    PROVE  LastTransition = i
  <1>1. TransitionIndexes \subseteq Nat
    BY DEF Typed, TransitionIndexes
  <1>2. LastTransition \in TransitionIndexes /\ \A j \in TransitionIndexes : j =< LastTransition
    BY DEF LastTransition
  <1> QED
    BY <1>1, <1>2

(* A transition that is chained to the ledger's head is not in the ledger. *)
LEMMA HeadFacts ==
    ASSUME Typed, Employed, Once, NEW j \in Commits, j.head = LedgerHead
    PROVE  ~Has("STATE_TRANSITION", j.event.id)
  <1>1. j.head.seq = Len(ledger) + 1 /\ DOMAIN ledger = 1..Len(ledger) /\ Len(ledger) \in Nat
    BY HeadTyped DEF Typed
  <1> QED
    BY <1>1 DEF Once, Has, TransitionIndexes

(* The snapshot follows the ledger: it is saved after the append and       *)
(* before the journal is unlinked, and no later transition is appended in  *)
(* between.                                                                *)
LEMMA LatestStep ==
    ASSUME Alone, Typed, Employed, Locked, Once, Latest, Pending, \A p \in Proc : Journaled(p) /\ Undone(p), [Next]_vars
    PROVE  Latest'
  <1>t. Typed' /\ None \notin Proc /\ Orphan \notin Proc /\ TransitionIndexes \subseteq Nat
    BY TypedStep, StoreAssumption DEF Typed, TransitionIndexes
  <1>0. ASSUME NEW p \in Proc, pc'[p] = "unlink_transition"
        PROVE  \/ snap'.id = job'[p].event.id
               \/ UNCHANGED <<pc[p], job[p], snap>>
    <2>1. CASE UNCHANGED vars
      BY <2>1 DEF vars, files, procs
    <2>2. CASE Recovery(p)
      BY <1>0, <2>2 DEF Recovery, Open, RecoverAction, RecoverTransitions, RecoverTransition, Opened, Raise,
         Goto, Typed
    <2>3. CASE Continue(p)
      <3>1. CASE SaveSnapshot(p)
        BY <3>1 DEF SaveSnapshot
      <3>2. CASE ReleaseLock(p)
        BY <1>0, <3>2 DEF ReleaseLock, Goto, Typed
      <3>3. CASE ~SaveSnapshot(p) /\ ~ReleaseLock(p) /\ ~CapabilityStep(p)
        BY <1>0, <2>3, <3>3
           DEF Continue, WriteTransitionJournal, MatchTransition, CheckSnapshot, UnlinkTransition, AcquireLock,
               LockTimeout, AppendEvent, RefuseEvent, Authorized, Unauthorized, Consume, FindStart,
               ChainActionEvent,
               UnlinkAction, Return, Raise, Goto, Typed
      <3>4. CASE CapabilityStep(p)
        BY <1>0, <3>4, CapabilitySteps
      <3> QED
        BY <3>1, <3>2, <3>3, <3>4
    <2>4. CASE Call(p)
      BY <1>0, <2>4
         DEF Call, ChainTransition, Issue, WriteActionJournal, CompleteAction, FailAction, procs, Goto, Typed
    <2>5. CASE Crash(p)
      BY <1>0, <2>5 DEF Crash, Goto, Typed
    <2> QED
      BY <2>1, <2>2, <2>3, <2>4, <2>5, Acts
  <1>1. ASSUME NEW p \in Proc, pc'[p] = "unlink_transition"
        PROVE  snap'.id = job'[p].event.id
    BY <1>0, <1>1 DEF Latest
  <1>2. CASE UNCHANGED <<ledger, tjournal, snap>>
    BY <1>1, <1>2, SameLedger DEF Latest
  <1>3. ASSUME NEW p \in Proc, WriteTransitionJournal(p)
        PROVE  Latest'
    <2>1. UNCHANGED <<ledger, snap>> /\ tjournal' = tjournal \cup {job[p]} /\ Committing(p) /\ pc[p] = "journal"
      BY <1>3 DEF WriteTransitionJournal, Committing
    <2>2. ~Has("STATE_TRANSITION", job[p].event.id)
      BY <2>1, HeadFacts DEF Undone, Commits
    <2> QED
      BY <1>1, <2>1, <2>2, SameLedger DEF Latest
  <1>4. ASSUME NEW p \in Proc, UnlinkTransition(p)
        PROVE  Latest'
    <2>1. /\ UNCHANGED <<ledger, snap>> /\ tjournal' = tjournal \ {job[p]} /\ pc[p] = "unlink_transition"
          /\ snap.id = job[p].event.id
      BY <1>4 DEF UnlinkTransition, Latest
    <2>2. TransitionIndexes # {} =>
            snap.id = ledger[LastTransition].id \/ \E j \in tjournal' : j.event = ledger[LastTransition]
      BY <2>1 DEF Latest
    <2>3. \A j \in tjournal' : Has("STATE_TRANSITION", j.event.id) => ledger[LastTransition] = j.event
      BY <2>1 DEF Latest
    <2> QED
      BY <1>1, <2>1, <2>2, <2>3, SameLedger DEF Latest
  <1>5. ASSUME NEW p \in Proc, SaveSnapshot(p)
        PROVE  Latest'
    <2>1. UNCHANGED <<ledger, tjournal>> /\ snap'.id = job[p].event.id /\ Committing(p) /\ pc[p] = "save"
      BY <1>5 DEF SaveSnapshot, Committing
    <2>2. Has("STATE_TRANSITION", job[p].event.id) /\ job[p] \in tjournal
      BY <2>1 DEF Undone, Journaled
    <2>3. ledger[LastTransition] = job[p].event /\ TransitionIndexes # {}
      BY <2>2 DEF Latest, Has, TransitionIndexes
    <2> QED
      BY <1>1, <2>1, <2>3, SameLedger DEF Latest
  <1>6. ASSUME NEW p \in Proc, AppendEvent(p)
        PROVE  Latest'
    <2>1. PICK e \in Event : e = job[p].event
      BY <1>6, AppendIs
    <2>2. PICK n : n = Len(ledger) + 1
      OBVIOUS
    <2>3. ledger' = Append(ledger, e) /\ UNCHANGED <<tjournal, snap>> /\ pc[p] = "append"
      BY <1>6, <2>1, AppendIs DEF AppendEvent
    <2>4. /\ DOMAIN ledger = 1..Len(ledger) /\ Len(ledger) \in Nat /\ n = Len(ledger) + 1
          /\ \A i \in DOMAIN ledger : ledger'[i] = ledger[i] /\ ledger[i] \in Event
          /\ ledger'[n] = e
          /\ e \in Transitions => TransitionIndexes' = TransitionIndexes \cup {n}
          /\ e \notin Transitions => TransitionIndexes' = TransitionIndexes
          /\ TransitionIndexes \subseteq DOMAIN ledger
          /\ \A type, id : Has(type, id)' <=> Has(type, id) \/ (e.type = type /\ e.id = id)
      BY <2>2, <2>3, LedgerGrows
    <2>5. CASE e \in Transitions
      <3>1. Committing(p) /\ job[p] \in tjournal
        BY <1>6, <2>1, <2>3, <2>5, AppendIs DEF Journaled
      <3>2. lock # Orphan
        BY <1>t, <2>3 DEF Locked
      <3>3. tjournal = {job[p]}
        BY <3>1, <3>2 DEF Pending
      <3>4. n \in TransitionIndexes' /\ \A j \in TransitionIndexes' : j =< n
        BY <2>4, <2>5
      <3>5. LastTransition' = n
        <4>1. LastTransition' \in TransitionIndexes' /\ \A j \in TransitionIndexes' : j =< LastTransition'
          BY <3>4 DEF LastTransition
        <4> QED
          BY <2>4, <2>5, <3>4, <4>1
      <3> QED
        BY <1>1, <2>1, <2>3, <2>4, <3>1, <3>3, <3>4, <3>5 DEF Latest
    <2>6. CASE e \notin Transitions
      <3>1. TransitionIndexes' = TransitionIndexes /\ e.type # "STATE_TRANSITION"
        BY <2>4, <2>6, EventFacts
      <3>2. LastTransition' = LastTransition
        BY <3>1 DEF LastTransition
      <3>3. TransitionIndexes # {} => LastTransition \in TransitionIndexes
        BY LastIs DEF Latest
      <3>4. TransitionIndexes # {} => ledger'[LastTransition] = ledger[LastTransition]
        BY <2>4, <3>3
      <3>5. \A j \in tjournal : Has("STATE_TRANSITION", j.event.id) => TransitionIndexes # {}
        BY DEF Has, TransitionIndexes
      <3>6. \A id : Has("STATE_TRANSITION", id)' <=> Has("STATE_TRANSITION", id)
        BY <2>4, <3>1
      <3>7. \A j \in tjournal' : Has("STATE_TRANSITION", j.event.id)' => ledger'[LastTransition'] = j.event
        <4>1. ASSUME NEW j \in tjournal, Has("STATE_TRANSITION", j.event.id)
              PROVE  ledger'[LastTransition'] = j.event
          BY <3>2, <3>4, <3>5, <4>1 DEF Latest
        <4> QED
          BY <2>3, <3>6, <4>1
      <3> QED
        BY <1>1, <2>3, <3>1, <3>2, <3>4, <3>7 DEF Latest
    <2> QED
      BY <2>5, <2>6
  <1>7. CASE UNCHANGED <<ledger, tjournal>> /\ ~UNCHANGED snap
    BY <1>5, <1>7, Writes
  <1>8. CASE ~UNCHANGED tjournal
    BY <1>3, <1>4, <1>8, Writes
  <1>9. CASE ~UNCHANGED ledger
    BY <1>6, <1>9, Writes
  <1> QED
    BY <1>2, <1>7, <1>8, <1>9

(* A lone process is never refused: the event it appends fits the ledger,  *)
(* the snapshot it saves agrees with it, and no action has two starts.     *)
LEMMA Accepted ==
    ASSUME Typed, Employed, Locked, Ordered, Latest, Pending, NEW p \in Proc, Journaled(p), Undone(p)
    PROVE  /\ pc[p] = "append" => Appendable(job[p])
           /\ pc[p] = "check" => AgreesWithLedger(job[p].event.to)
           /\ \A a \in Action : Count("ACTION_STARTED", a) =< 1
           /\ pc[p] = "scan_actions" => todo[p] \subseteq ajournal
           /\ pc[p] = "scan_transitions" => todo[p] \subseteq tjournal
  <1>1. ASSUME pc[p] = "append"
        PROVE  Appendable(job[p])
    <2>1. Committing(p) \/ Beginning(p) \/ Ending(p)
      BY <1>1, CallTypes DEF Appending
    <2>2. CASE Committing(p)
      <3>1. job[p] \in tjournal /\ ~Has("STATE_TRANSITION", job[p].event.id) /\ lock # Orphan
        BY <1>1, <2>2, StoreAssumption DEF Journaled, Undone, Locked
      <3>2. job[p].head = LedgerHead
        BY <3>1 DEF Pending
      <3> QED
        BY <2>2, <3>2, CallTypes DEF Appendable
    <2>3. CASE Beginning(p)
      BY <1>1, <2>3, CallTypes DEF Appendable, Undone
    <2>4. CASE Ending(p)
      BY <1>1, <2>4 DEF Appendable, Undone, Unfinished
    <2> QED
      BY <2>1, <2>2, <2>3, <2>4
  <1>2. ASSUME pc[p] = "check"
        PROVE  AgreesWithLedger(job[p].event.to)
    BY <1>2 DEF Undone, Journaled, Committing, Latest, AgreesWithLedger
  <1>3. ASSUME NEW a \in Action
        PROVE  Count("ACTION_STARTED", a) =< 1
    <2>1. \A i \in DOMAIN ledger : ledger[i] \in Event
      BY DEF Typed
    <2>2. \A i \in DOMAIN ledger : ledger[i].type = "ACTION_STARTED" /\ ledger[i].id = a => ledger[i] = Started(a)
      BY <2>1, EventFacts
    <2>3. Started(a) \in Starts
      BY EventFacts
    <2>4. \A i, k \in DOMAIN ledger : /\ ledger[i].type = "ACTION_STARTED" /\ ledger[k].type = "ACTION_STARTED"
                                      /\ ledger[i].id = a /\ ledger[k].id = a
                                      => i = k
      BY <2>2, <2>3 DEF Ordered
    <2> QED
      BY <2>4, CountIs
  <1> QED
    BY <1>1, <1>2, <1>3 DEF Journaled

(* A journal stays blocked: nobody removes the lock file a kill left.      *)
LEMMA BlockedStays ==
    ASSUME Typed, Employed, Guarded, [Next]_vars, NEW a \in Action, Blocked(a)
    PROVE  Blocked(a)'
  <1> PICK x \in Auth : x = AuthOf[a]
    BY StoreAssumption
  <1>0. alock[x] = Orphan /\ auth[x].status = "ISSUED" /\ Orphan \notin Proc /\ DOMAIN alock = Auth /\ DOMAIN auth = Auth
    BY StoreAssumption DEF Blocked, Typed
  <1>1. ASSUME NEW p \in Proc, pc[p] \in Holding
        PROVE  Capability(p) # x
    BY <1>0, <1>1 DEF Guarded
  <1>2. auth'[x] = auth[x]
    <2>1. ASSUME NEW p \in Proc, Consume(p)
          PROVE  auth'[x] = auth[x]
      <3>1. Capability(p) = AuthOf[job[p].event.id] /\ Capability(p) # x
        BY <1>1, <2>1, CapabilityIs DEF Consume, Holding
      <3> QED
        BY <2>1, <3>1 DEF Consume
    <2>2. ASSUME NEW p \in Proc, SaveAuthorization(p) \/ Void(p)
          PROVE  auth'[x] = auth[x]
      <3>1. Capability(p) # x
        BY <1>1, <2>2 DEF SaveAuthorization, Void, Holding
      <3> QED
        BY <1>0, <2>2, <3>1 DEF SaveAuthorization, Void
    <2> QED
      BY <2>1, <2>2, Writes
  <1>3. alock'[x] = Orphan
    <2>1. CASE UNCHANGED alock
      BY <1>0, <2>1
    <2>2. ASSUME NEW p \in Proc, Crash(p)
          PROVE  alock'[x] = Orphan
      BY <1>0, <2>2 DEF Crash
    <2>3. ASSUME NEW p \in Proc, AcquireCapability(p)
          PROVE  alock'[x] = Orphan
      BY <1>0, <2>3, StoreAssumption DEF AcquireCapability
    <2>4. ASSUME NEW p \in Proc, ReleaseCapability(p) \/ RefuseAuthorization(p) \/ RefuseConsume(p)
          PROVE  alock'[x] = Orphan
      <3>1. Capability(p) # x
        BY <1>1, <2>4 DEF ReleaseCapability, RefuseAuthorization, RefuseConsume, Holding
      <3> QED
        BY <1>0, <2>4, <3>1 DEF ReleaseCapability, RefuseAuthorization, RefuseConsume
    <2>5. ASSUME NEW p \in Proc, Recovery(p) \/ Call(p)
          PROVE  UNCHANGED alock
      BY <2>5
         DEF Recovery, Open, RecoverAction, RecoverTransitions, RecoverTransition, Opened, Call, ChainTransition, Issue,
             WriteActionJournal, CompleteAction, FailAction, files
    <2>6. ASSUME NEW p \in Proc, Continue(p)
          PROVE  \/ UNCHANGED alock
                 \/ AcquireCapability(p) \/ ReleaseCapability(p) \/ RefuseAuthorization(p) \/ RefuseConsume(p)
      BY <2>6
         DEF Continue, CapabilityStep, WriteTransitionJournal, MatchTransition, CheckSnapshot, SaveSnapshot,
             UnlinkTransition, AcquireLock, LockTimeout, AppendEvent, RefuseEvent, ReleaseLock, Authorized,
             Unauthorized, Consume, FindStart, ChainActionEvent, UnlinkAction, CapabilityTimeout, SaveAuthorization,
             Void, files
    <2>7. CASE UNCHANGED vars
      BY <2>1, <2>7 DEF vars, files
    <2> QED
      BY <2>1, <2>2, <2>3, <2>4, <2>5, <2>6, <2>7, Steps
  <1> QED
    BY <1>0, <1>2, <1>3 DEF Blocked

(* One journal that can be replayed is pending at most, and the store      *)
(* opens only after it is drained.                                         *)
LEMMA PendingStep ==
    ASSUME Alone, SharedInv, Ordered, Latest, Pending, \A p \in Proc : Journaled(p) /\ Undone(p) /\ Entitled(p),
           [Next]_vars
    PROVE  Pending'
  <1>i. Typed /\ Employed /\ Locked /\ Guarded /\ Once /\ Paid
    BY DEF SharedInv
  <1>n. None \notin Proc /\ Orphan \notin Proc \cup {None} /\ lock \in Proc \cup {None, Orphan}
    BY <1>i, StoreAssumption DEF Typed
  <1>v. ajournal' \subseteq ajournal => Live' \subseteq Live
    BY <1>i, BlockedStays DEF Live, Typed
  <1>1. CASE UNCHANGED vars
    BY <1>1, SameLedger DEF vars, files, procs, Pending, Live, Blocked, Ending, Beginning
  <1>2. ASSUME NEW p \in Proc
        PROVE  Pending'
    <2> SUFFICES ASSUME lock' # Orphan, ~UNCHANGED vars
                 PROVE  Pending'
      BY <1>1 DEF Pending
    <2>a. \A q \in Proc : q = p
      BY DEF Alone
    <2> DEFINE Clear == pc[p] \in {"ready", "journal", "issue", "issuing", "issued"} \/ Ending(p)
    <2> USE DEF Ending, Appending
    <2>b. /\ Committing(p) => job[p].event.type = "STATE_TRANSITION" /\ job[p] \in Commits
          /\ Beginning(p) => job[p].event.type = "ACTION_STARTED" /\ job[p].event.id \in Action
          /\ pc[p] \in {"lock", "append", "unlock"} => Committing(p) \/ Beginning(p) \/ Ending(p)
          /\ pc[p] \in {"void", "voiding", "voided"} => job[p].event.type = "ACTION_FAILED"
      BY <1>i, CallTypes DEF Commits
    <2>c. lock # Orphan
      <3>1. CASE Recovery(p)
        BY <3>1
           DEF Recovery, Open, RecoverAction, RecoverTransitions, RecoverTransition, Opened, files
      <3>2. CASE Continue(p) /\ ~CapabilityStep(p)
        BY <1>i, <1>n, <3>2
           DEF Continue, WriteTransitionJournal, MatchTransition, CheckSnapshot, SaveSnapshot, UnlinkTransition,
               AcquireLock, LockTimeout, AppendEvent, RefuseEvent, ReleaseLock, Authorized, Unauthorized,
               Consume,
               FindStart, ChainActionEvent, UnlinkAction, files, Locked
      <3>3. CASE Call(p)
        BY <3>3 DEF Call, ChainTransition, Issue, WriteActionJournal, CompleteAction, FailAction, files
      <3>4. CASE Crash(p)
        BY <1>n, <3>4 DEF Crash
      <3>5. CASE CapabilityStep(p)
        BY <1>i, <3>5, CapabilitySteps
      <3> QED
        BY <3>1, <3>2, <3>3, <3>4, <3>5, Acts
    <2>d. /\ \A j, k \in tjournal : j = k
          /\ \A a, b \in Live : a = b
          /\ tjournal = {} \/ Live = {}
          /\ \A j \in tjournal : Has("STATE_TRANSITION", j.event.id) \/ j.head = LedgerHead
          /\ Clear => tjournal = {} /\ Live = {}
          /\ Beginning(p) /\ ~opening[p] => tjournal = {} /\ Live \subseteq {job[p].event.id}
      BY <2>c DEF Pending
    <2>e. Journaled(p) /\ Undone(p) /\ Entitled(p)
      OBVIOUS
    <2>s. ASSUME UNCHANGED <<ledger, tjournal>>, ajournal' \subseteq ajournal,
                 Clear' => tjournal = {} /\ Live' = {},
                 Beginning(p)' /\ ~opening'[p] => tjournal = {} /\ Live' \subseteq {job'[p].event.id}
          PROVE  Pending'
      <3>1. Live' \subseteq Live
        BY <1>v, <2>s
      <3> QED
        BY <2>a, <2>d, <2>s, <3>1, SameLedger DEF Pending
    <2>k. ASSUME UNCHANGED <<ledger, tjournal, ajournal, job>>, Clear' => Clear, UNCHANGED opening \/ ~Beginning(p)',
                 Beginning(p)' => Beginning(p) \/ opening[p]
          PROVE  Pending'
      <3>1. Live' \subseteq Live
        BY <1>v, <2>k
      <3> HIDE DEF Clear
      <3>2. Clear' => tjournal = {} /\ Live' = {}
        BY <2>d, <2>k, <3>1
      <3>3. Beginning(p)' /\ ~opening'[p] => tjournal = {} /\ Live' \subseteq {job'[p].event.id}
        BY <2>d, <2>k, <3>1
      <3> QED
        BY <2>k, <2>s, <3>2, <3>3
    <2>1. CASE Recovery(p)
      <3>1. \/ pc'[p] \in {"scan_actions", "scan_transitions", "match", "down"}
            \/ pc'[p] = "authorize" /\ opening'[p]
            \/ Opened(p)
        BY <1>i, <2>1, <2>e
           DEF Recovery, Open, RecoverAction, RecoverTransitions, RecoverTransition, Raise, Goto, Typed, Journaled
      <3>2. UNCHANGED <<ledger, tjournal, ajournal>>
        BY <2>1 DEF Recovery, Open, RecoverAction, RecoverTransitions, RecoverTransition, Opened, files
      <3>3. Opened(p) => tjournal = {} /\ ajournal = {} /\ pc'[p] = "ready"
        BY <1>i, <2>e DEF Opened, Journaled, Goto, Typed
      <3>4. ajournal = {} => Live' = {}
        BY <3>2 DEF Live
      <3> QED
        BY <2>s, <3>1, <3>2, <3>3, <3>4 DEF Beginning
    <2>2. CASE WriteTransitionJournal(p)
      <3>1. /\ tjournal = {} /\ Live = {} /\ tjournal' = {job[p]} /\ job[p].head = LedgerHead
            /\ UNCHANGED <<ledger, ajournal>> /\ pc'[p] = "match"
        BY <1>i, <2>2, <2>d, <2>e DEF WriteTransitionJournal, Undone, Goto, Typed
      <3>2. Live' = {}
        BY <1>v, <3>1
      <3>3. ~Clear' /\ ~Beginning(p)'
        BY <3>1 DEF Beginning
      <3> QED
        BY <2>a, <3>1, <3>2, <3>3, SameLedger DEF Pending
    <2>3. CASE MatchTransition(p) \/ SaveSnapshot(p) \/ Authorized(p) \/ Consume(p)
      <3>1. \/ pc'[p] \in {"check", "lock", "unlink_transition"} /\ Committing(p)
            \/ pc'[p] \in {"consume", "consumed", "starts"} /\ Beginning(p)
        BY <1>i, <2>3
           DEF MatchTransition, SaveSnapshot, Authorized, Consume, Goto, Typed, Committing, Beginning
      <3>2. UNCHANGED <<ledger, tjournal, ajournal, job, opening>>
        BY <2>3 DEF MatchTransition, SaveSnapshot, Authorized, Consume, files
      <3> QED
        BY <2>b, <2>k, <3>1, <3>2 DEF Beginning
    <2>4. CASE CheckSnapshot(p)
      <3>1. pc'[p] = "save" /\ UNCHANGED <<ledger, tjournal, ajournal, job, opening>>
        BY <1>i, <2>4, <2>e, Accepted DEF CheckSnapshot, Goto, files, Typed
      <3> QED
        BY <2>k, <3>1 DEF Beginning
    <2>5. CASE UnlinkTransition(p)
      <3>1. /\ job[p] \in tjournal /\ tjournal' = tjournal \ {job[p]} /\ UNCHANGED <<ledger, ajournal>>
            /\ pc'[p] \in {"ready", "scan_transitions"}
        BY <1>i, <2>5, <2>e DEF UnlinkTransition, Return, Goto, Typed, Journaled, Committing
      <3>2. tjournal' = {} /\ Live = {}
        BY <2>d, <3>1
      <3>3. Live' = {}
        BY <1>v, <3>1, <3>2
      <3> QED
        BY <2>a, <3>1, <3>2, <3>3 DEF Pending, Beginning
    <2>6. CASE AcquireLock(p) \/ ReleaseLock(p)
      <3>1. UNCHANGED <<ledger, tjournal, ajournal, job, opening>>
        BY <2>6 DEF AcquireLock, ReleaseLock
      <3>2. (Clear' => Clear) /\ (Beginning(p)' => Beginning(p))
        BY <1>i, <2>6, <2>b DEF AcquireLock, ReleaseLock, Goto, Typed, Committing, Beginning
      <3> QED
        BY <2>k, <3>1, <3>2
    <2>7. CASE LockTimeout(p)
      BY <1>i, <1>n, <2>7, <2>a, <2>c DEF LockTimeout, Locked
    <2>8. CASE RefuseEvent(p)
      BY <1>i, <2>8, <2>e, Accepted DEF RefuseEvent
    <2>9. CASE AppendEvent(p)
      <3>1. PICK e \in Event : e = job[p].event
        BY <1>i, <2>9, AppendIs
      <3>2. /\ ledger' = Append(ledger, e) /\ UNCHANGED <<tjournal, ajournal, job, opening>>
            /\ pc[p] = "append" /\ pc'[p] = "unlock"
        BY <1>i, <2>9, <3>1, AppendIs DEF AppendEvent, Goto, Typed
      <3>3. \A type, id : Has(type, id)' <=> Has(type, id) \/ (e.type = type /\ e.id = id)
        BY <1>i, <3>2, LedgerGrows
      <3>4. \A j \in tjournal : Has("STATE_TRANSITION", j.event.id)'
        <4>1. CASE Committing(p)
          <5>1. tjournal = {job[p]} /\ e.type = "STATE_TRANSITION"
            BY <2>b, <2>d, <2>e, <3>1, <3>2, <4>1 DEF Journaled
          <5> QED
            BY <3>1, <3>3, <5>1
        <4>2. CASE Beginning(p)
          <5>1. PICK a \in Action : a = job[p].event.id
            BY <2>b, <4>2
          <5>2. auth[AuthOf[a]].status # "ISSUED" /\ a \in ajournal
            BY <1>i, <2>b, <2>e, <3>2, <4>2, <5>1 DEF Paid, Starting, PaidFor, Journaled
          <5>3. a \in Live
            BY <5>2 DEF Live, Blocked
          <5>4. tjournal = {}
            BY <2>d, <5>3
          <5> QED
            BY <5>4
        <4>3. CASE Ending(p)
          <5>1. tjournal = {}
            BY <2>d, <4>3
          <5> QED
            BY <5>1
        <4> QED
          BY <2>b, <3>2, <4>1, <4>2, <4>3
      <3>5. (Clear' => Clear) /\ (Beginning(p)' => Beginning(p)) /\ Live' \subseteq Live
        BY <1>v, <3>2 DEF Beginning
      <3> HIDE DEF Clear
      <3>6. /\ Clear' => tjournal' = {} /\ Live' = {}
            /\ Beginning(p)' /\ ~opening'[p] => tjournal' = {} /\ Live' \subseteq {job'[p].event.id}
        BY <2>d, <3>2, <3>5
      <3>7. /\ \A j, k \in tjournal' : j = k
            /\ \A a, b \in Live' : a = b
            /\ tjournal' = {} \/ Live' = {}
            /\ \A j \in tjournal' : Has("STATE_TRANSITION", j.event.id)'
        BY <2>d, <3>2, <3>4, <3>5
      <3> USE DEF Clear
      <3> QED
        BY <2>a, <3>6, <3>7 DEF Pending
    <2>10. CASE Unauthorized(p) \/ UnlinkAction(p)
      <3>1. /\ UNCHANGED <<ledger, tjournal>> /\ Beginning(p)
            /\ ajournal' = ajournal \/ ajournal' = ajournal \ {job[p].event.id}
            /\ \/ pc'[p] \in {"down", "scan_actions"}
               \/ pc'[p] = "ready" /\ ~opening[p] /\ ajournal' = ajournal \ {job[p].event.id}
        BY <1>i, <2>10, <2>e DEF Unauthorized, UnlinkAction, Return, Raise, Goto, Typed, Beginning
      <3>2. CASE pc'[p] \in {"down", "scan_actions"}
        BY <2>s, <3>1, <3>2 DEF Beginning
      <3>3. CASE pc'[p] = "ready" /\ ~opening[p] /\ ajournal' = ajournal \ {job[p].event.id}
        <4>1. tjournal = {} /\ Live \subseteq {job[p].event.id} /\ Live' \subseteq Live
          BY <1>v, <2>d, <3>1, <3>3
        <4>2. job[p].event.id \notin Live'
          BY <3>3 DEF Live
        <4> QED
          BY <2>s, <3>1, <3>3, <4>1, <4>2 DEF Beginning
      <3> QED
        BY <3>1, <3>2, <3>3
    <2>11. CASE FindStart(p)
      <3>1. job[p].event.id \in Action /\ job[p].event.type = "ACTION_STARTED" /\ Beginning(p)
        BY <2>b, <2>11 DEF FindStart, Beginning
      <3>2. pc'[p] \in {"unlink_action", "chain"} /\ UNCHANGED <<ledger, tjournal, ajournal, job, opening>>
        <4>1. PICK n : n = Count("ACTION_STARTED", job[p].event.id)
          OBVIOUS
        <4>2. ~(n > 1)
          BY <1>i, <2>e, <3>1, <4>1, Accepted, CountZero
        <4> QED
          BY <1>i, <2>11, <4>1, <4>2 DEF FindStart, Goto, files, Typed
      <3> QED
        BY <2>k, <3>1, <3>2
    <2>12. CASE ChainActionEvent(p)
      <3>1. /\ UNCHANGED <<files, opening>> /\ job'[p].event = job[p].event /\ pc'[p] = "lock" /\ pc[p] = "chain"
            /\ (Beginning(p)' <=> Beginning(p)) /\ (Ending(p)' <=> Ending(p))
        BY <1>i, <2>12, Chains
      <3>2. (Clear' => Clear) /\ UNCHANGED <<ledger, tjournal, ajournal>> /\ Live' \subseteq Live
        BY <1>v, <3>1 DEF files
      <3> HIDE DEF Clear
      <3>3. /\ Clear' => tjournal = {} /\ Live' = {}
            /\ Beginning(p)' /\ ~opening'[p] => tjournal = {} /\ Live' \subseteq {job'[p].event.id}
        BY <2>d, <3>1, <3>2
      <3> QED
        BY <2>s, <3>2, <3>3
    <2>13. CASE CapabilityStep(p)
      <3>1. /\ UNCHANGED <<ledger, tjournal, ajournal, job>>
            /\ \/ /\ UNCHANGED opening
                  /\ \/ pc[p] \in {"issue", "issuing", "issued"} /\ pc'[p] \in {"issuing", "issued", "ready"}
                     \/ pc[p] \in {"consume", "consuming", "consumed"} /\ pc'[p] \in {"consuming", "refused", "starts"}
                     \/ pc[p] \in {"void", "voiding", "voided"} /\ pc'[p] \in {"voiding", "voided", "chain"}
               \/ pc[p] \in {"issue", "void", "issuing"} /\ pc'[p] \in {"down", "ready"}
               \/ pc[p] = "consume" /\ pc'[p] = IF opening[p] THEN "down" ELSE "ready"
        BY <1>i, <2>13, CapabilitySteps
      <3>2. CASE pc[p] \in {"issue", "issuing", "issued"} /\ pc'[p] \in {"issuing", "issued", "ready"}
        BY <2>k, <3>1, <3>2 DEF Beginning
      <3>3. CASE /\ UNCHANGED opening /\ pc[p] \in {"consume", "consuming", "consumed"}
                 /\ pc'[p] \in {"consuming", "refused", "starts"}
        BY <2>k, <3>1, <3>3 DEF Beginning
      <3>4. CASE pc[p] \in {"void", "voiding", "voided"} /\ pc'[p] \in {"voiding", "voided", "chain"}
        BY <2>b, <2>k, <3>1, <3>4 DEF Beginning
      <3>5. CASE pc[p] \in {"issue", "void", "issuing"} /\ pc'[p] \in {"down", "ready"}
        BY <2>k, <3>1, <3>5 DEF Beginning
      <3>6. CASE pc[p] = "consume" /\ pc'[p] = "down"
        BY <2>k, <3>1, <3>6 DEF Beginning
      <3>7. CASE pc[p] = "consume" /\ pc'[p] = "ready" /\ ~opening[p]
        <4>1. CapabilityTimeout(p)
          BY <1>i, <2>13, <3>7
             DEF CapabilityStep, AcquireCapability, ReleaseCapability, SaveAuthorization, RefuseAuthorization,
                 RefuseConsume, Void, Goto, Typed
        <4>2. Beginning(p) /\ Capability(p) = AuthOf[job[p].event.id] /\ Capability(p) \in Auth
          BY <1>i, <3>7, CapabilityIs DEF Beginning
        <4>3. alock[Capability(p)] = Orphan
          BY <1>i, <2>a, <3>7, <4>1, <4>2 DEF CapabilityTimeout, Guarded, Holding, Typed
        <4>4. Blocked(job[p].event.id)
          BY <2>e, <3>7, <4>2, <4>3 DEF Blocked, Entitled
        <4>5. tjournal = {} /\ Live = {}
          BY <2>d, <3>7, <4>2, <4>4 DEF Live
        <4>6. Live' = {}
          BY <1>v, <3>1, <4>5
        <4> QED
          BY <2>s, <3>1, <3>7, <4>5, <4>6 DEF Beginning
      <3> QED
        BY <3>1, <3>2, <3>3, <3>4, <3>5, <3>6, <3>7
    <2>14. CASE Call(p)
      <3>1. ASSUME NEW s \in Status, ChainTransition(p, s)
            PROVE  Pending'
        <4>1. pc[p] = "ready" /\ pc'[p] = "journal" /\ UNCHANGED <<ledger, tjournal, ajournal>>
          BY <1>i, <3>1 DEF ChainTransition, Goto, Typed, files
        <4> QED
          BY <1>v, <2>d, <2>s, <4>1 DEF Beginning
      <3>2. ASSUME NEW x \in Auth, Issue(p, x)
            PROVE  Pending'
        <4>1. pc[p] = "ready" /\ pc'[p] = "issue" /\ UNCHANGED <<ledger, tjournal, ajournal>>
          BY <1>i, <3>2 DEF Issue, Goto, Typed, files
        <4> QED
          BY <1>v, <2>d, <2>s, <4>1 DEF Beginning
      <3>3. ASSUME NEW a \in Action, WriteActionJournal(p, a)
            PROVE  Pending'
        <4>1. /\ tjournal = {} /\ Live = {} /\ ajournal' = ajournal \cup {a} /\ UNCHANGED <<ledger, tjournal>>
              /\ pc'[p] = "authorize" /\ job'[p].event.id = a
          BY <1>i, <2>d, <3>3 DEF WriteActionJournal, Started, Goto, Typed
        <4>2. Live' \subseteq {a}
          BY <1>i, <4>1, BlockedStays DEF Live, Typed
        <4> QED
          BY <2>a, <4>1, <4>2 DEF Pending
      <3>4. ASSUME NEW a \in Action, CompleteAction(p, a) \/ FailAction(p, a)
            PROVE  Pending'
        <4>1. /\ pc[p] = "ready" /\ pc'[p] \in {"chain", "void"} /\ UNCHANGED <<ledger, tjournal, ajournal>>
              /\ job'[p].event.type \in {"ACTION_COMPLETED", "ACTION_FAILED"}
          BY <1>i, <3>4 DEF CompleteAction, FailAction, End, Goto, Typed, files
        <4> QED
          BY <1>v, <2>d, <2>s, <4>1 DEF Beginning
      <3> QED
        BY <2>14, <3>1, <3>2, <3>3, <3>4 DEF Call
    <2>15. CASE Crash(p)
      <3>1. pc'[p] = "down" /\ UNCHANGED <<ledger, tjournal, ajournal>>
        BY <1>i, <2>15 DEF Crash, Goto, Typed
      <3> QED
        BY <2>s, <3>1 DEF Beginning
    <2> QED
      BY <2>1, <2>2, <2>3, <2>4, <2>5, <2>6, <2>7, <2>8, <2>9, <2>10, <2>11, <2>12, <2>13, <2>14, <2>15,
         Acts DEF Continue
  <1>3. CASE Proc = {}
    BY <1>1, <1>3 DEF Next
  <1> QED
    BY <1>2, <1>3

-----------------------------------------------------------------------------
(* Every step of a lone process keeps its invariant.                       *)
LEMMA AloneStep ==
    ASSUME Alone, SharedInv, AloneInv, [Next]_vars
    PROVE  AloneInv'
  <1>1. ASSUME NEW p \in Proc
        PROVE  (Journaled(p) /\ Undone(p) /\ Entitled(p))'
    BY JournaledStep, UndoneStep, EntitledStep DEF SharedInv, AloneInv
  <1>2. ASSUME NEW x \in Auth
        PROVE  Spent(x)'
    BY SpentStep DEF SharedInv, AloneInv
  <1>3. Ordered' /\ Latest' /\ Pending'
    BY OrderedStep, LatestStep, PendingStep DEF SharedInv, AloneInv
  <1> QED
    BY <1>1, <1>2, <1>3 DEF AloneInv

(* An empty store satisfies it.                                            *)
LEMMA AloneInit == Init => AloneInv
  <1> SUFFICES ASSUME Init
               PROVE  AloneInv
    OBVIOUS
  <1>1. /\ ledger = <<>> /\ tjournal = {} /\ ajournal = {} /\ snap.id = 0 /\ TransitionIndexes = {}
        /\ DOMAIN ledger = {} /\ Live = {}
        /\ \A p \in Proc : pc[p] = "down" /\ ~opening[p]
        /\ \A x \in Auth : auth[x].status = "NONE" /\ auth[x].by = None
    BY DEF Init, TransitionIndexes, Live
  <1> QED
    BY <1>1
       DEF AloneInv, Journaled, Undone, Entitled, Spent, Ordered, Latest, Pending, Committing, Beginning, Ending,
           Appending

(* A process that has the store for itself keeps both invariants, for any  *)
(* number of kills between any two steps.                                  *)
THEOREM Lone ==
    ASSUME Alone
    PROVE  Spec => [](SharedInv /\ AloneInv)
  <1>1. Init => SharedInv /\ AloneInv
    BY SharedInit, AloneInit
  <1>2. SharedInv /\ AloneInv /\ [Next]_vars => (SharedInv /\ AloneInv)'
    BY SharedStep, AloneStep
  <1> QED
    BY <1>1, <1>2, PTL DEF Spec

(* The ledger is sound: each transition once, each start once, at most one *)
(* end to an action and after its start (the replay of a journal never     *)
(* repeats what was appended before the kill).                             *)
THEOREM Sound ==
    ASSUME Alone
    PROVE  Spec => []LedgerSound
  <1>1. SharedInv /\ AloneInv => LedgerSound
    <2> SUFFICES ASSUME SharedInv, AloneInv
                 PROVE  LedgerSound
      OBVIOUS
    <2>0. /\ Typed /\ Ordered /\ DOMAIN ledger = 1..Len(ledger) /\ Len(ledger) \in Nat
          /\ \A i \in DOMAIN ledger : ledger[i] \in Event
      BY DEF SharedInv, AloneInv, Typed
    <2>1. ASSUME NEW a \in Action
          PROVE  Count("ACTION_STARTED", a) =< 1
      <3>1. \A i \in DOMAIN ledger : ledger[i].type = "ACTION_STARTED" /\ ledger[i].id = a => ledger[i] = Started(a)
        BY <2>0, EventFacts
      <3>2. Started(a) \in Starts
        BY EventFacts
      <3>3. \A i, k \in DOMAIN ledger : /\ ledger[i].type = "ACTION_STARTED" /\ ledger[k].type = "ACTION_STARTED"
                                        /\ ledger[i].id = a /\ ledger[k].id = a
                                        => i = k
        BY <2>0, <3>1, <3>2 DEF Ordered
      <3> QED
        BY <2>0, <3>3, CountIs
    <2>2. ASSUME NEW a \in Action
          PROVE  Count("ACTION_COMPLETED", a) + Count("ACTION_FAILED", a) =< 1
      <3>1. \A i \in DOMAIN ledger : ledger[i].type \in {"ACTION_COMPLETED", "ACTION_FAILED"} => ledger[i] \in Ends
        BY <2>0, EventFacts
      <3>2. \A i, k \in DOMAIN ledger : /\ ledger[i].type \in {"ACTION_COMPLETED", "ACTION_FAILED"}
                                        /\ ledger[k].type \in {"ACTION_COMPLETED", "ACTION_FAILED"}
                                        /\ ledger[i].id = a /\ ledger[k].id = a
                                        => i = k
        BY <2>0, <3>1 DEF Ordered
      <3>3. \A type \in {"ACTION_COMPLETED", "ACTION_FAILED"} : Count(type, a) = IF Has(type, a) THEN 1 ELSE 0
        <4>1. ASSUME NEW type \in {"ACTION_COMPLETED", "ACTION_FAILED"}
              PROVE  Count(type, a) = IF Has(type, a) THEN 1 ELSE 0
          <5>1. \A i, k \in DOMAIN ledger : ledger[i].type = type /\ ledger[k].type = type /\ ledger[i].id = a
                                            /\ ledger[k].id = a => i = k
            BY <3>2
          <5> QED
            BY <2>0, <5>1, CountIs
        <4> QED
          BY <4>1
      <3>4. ~(Has("ACTION_COMPLETED", a) /\ Has("ACTION_FAILED", a))
        BY <3>2 DEF Has
      <3> QED
        BY <3>3, <3>4
    <2>3. \A i \in DOMAIN ledger :
            ledger[i].type \in {"ACTION_COMPLETED", "ACTION_FAILED"} =>
              \E j \in 1..(i - 1) : ledger[j] = Started(ledger[i].id)
      BY <2>0, EventFacts DEF Ordered
    <2> QED
      BY <2>1, <2>2, <2>3, TransitionOnce DEF LedgerSound
  <1> QED
    BY <1>1, Lone, PTL

(* A start has its authorization consumed, and a consumed one has its      *)
(* start in the ledger or in a journal that recovery replays.              *)
THEOREM PaidStarts ==
    ASSUME Alone
    PROVE  Spec => []StartIsPaid
  <1>1. SharedInv /\ AloneInv => StartIsPaid
    <2> SUFFICES ASSUME SharedInv, AloneInv, NEW a \in Action
                 PROVE  /\ Has("ACTION_STARTED", a) =>
                              auth[AuthOf[a]].by = a /\ auth[AuthOf[a]].status \in {"CONSUMED", "VOID"}
                        /\ auth[AuthOf[a]].by = a => Has("ACTION_STARTED", a) \/ a \in ajournal
      BY DEF StartIsPaid
    <2>1. /\ AuthOf[a] \in Auth /\ a # None
          /\ auth[AuthOf[a]].status \in {"NONE", "ISSUED", "CONSUMED", "VOID"}
      BY StoreAssumption DEF SharedInv, Typed
    <2> QED
      BY <2>1 DEF SharedInv, AloneInv, Paid, PaidFor, Spent
  <1> QED
    BY <1>1, Lone, PTL

(* While no transition has a journal, the snapshot is the one of the       *)
(* ledger's last transition, so load_snapshot never refuses it.            *)
THEOREM Current ==
    ASSUME Alone
    PROVE  Spec => []SnapshotCurrent
  <1>1. AloneInv => SnapshotCurrent
    BY DEF AloneInv, Latest, SnapshotCurrent
  <1> QED
    BY <1>1, Lone, PTL

(* An authorization that an action was journalled under is still there for *)
(* it.                                                                     *)
LEMMA AuthorityStep ==
    ASSUME Alone, OwnAuthorizations, SharedInv, AloneInv, Authority, [Next]_vars
    PROVE  Authority'
  <1>0. /\ AuthOf \in [Action -> Auth] /\ DOMAIN auth = Auth /\ ajournal \subseteq Action
        /\ \A x \in Auth : /\ auth[x] = [status |-> auth[x].status, by |-> auth[x].by]
                           /\ auth[x].status \in {"NONE", "ISSUED", "CONSUMED", "VOID"}
    BY StoreAssumption DEF SharedInv, Typed
  <1>a. \A p \in Proc : Journaled(p) /\ Undone(p) /\ Entitled(p)
    BY DEF AloneInv
  <1>1. CASE UNCHANGED vars
    BY <1>1 DEF vars, files, Authority
  <1>s. ASSUME UNCHANGED <<auth, raised>>, ajournal' \subseteq ajournal
        PROVE  Authority'
    BY <1>s DEF Authority
  <1>c. ASSUME NEW p \in Proc
        PROVE  /\ pc[p] = "append" => Appendable(job[p])
               /\ pc[p] = "check" => AgreesWithLedger(job[p].event.to)
               /\ \A a \in Action : ~(Count("ACTION_STARTED", a) > 1)
               /\ pc[p] = "scan_actions" => todo[p] \subseteq ajournal
               /\ pc[p] = "scan_transitions" => todo[p] \subseteq tjournal
    <2>1. \A a \in Action : Count("ACTION_STARTED", a) =< 1 /\ Count("ACTION_STARTED", a) \in Nat
      BY Accepted, CountZero DEF SharedInv, AloneInv
    <2>2. \A a \in Action : ~(Count("ACTION_STARTED", a) > 1)
      <3>1. \A n \in Nat : n =< 1 => ~(n > 1)
        OBVIOUS
      <3> QED
        BY <2>1, <3>1
    <2> QED
      BY <2>2, Accepted DEF SharedInv, AloneInv
  <1>2. ASSUME NEW p \in Proc, Recovery(p)
        PROVE  Authority'
    BY <1>2, <1>c, <1>s DEF Recovery, Open, RecoverAction, RecoverTransitions, RecoverTransition, Opened,
       files
  <1>3. ASSUME NEW p \in Proc, Continue(p)
        PROVE  Authority'
    <2>1. CASE LockTimeout(p)
      BY <2>1 DEF LockTimeout, Raise, files, Authority
    <2>2. CASE CheckSnapshot(p) \/ RefuseEvent(p)
      BY <1>c, <1>s, <2>2 DEF CheckSnapshot, RefuseEvent, files
    <2>3. CASE FindStart(p)
      <3>1. job[p].event.id \in Action
        BY <2>3, CallTypes DEF FindStart, Beginning, SharedInv
      <3> QED
        BY <1>c, <1>s, <2>3, <3>1 DEF FindStart, files
    <2>4. CASE Unauthorized(p)
      <3>1. job[p].event.id \in ajournal /\ pc[p] = "authorize"
        BY <1>a, <2>4 DEF Unauthorized, Journaled, Beginning, Entitled
      <3> QED
        BY <1>a, <2>4, <3>1 DEF Unauthorized, Entitled, Authority
    <2>5. CASE Consume(p)
      <3>1. PICK a \in Action : a = job[p].event.id
        BY <2>5, CallTypes DEF Consume, Beginning, SharedInv
      <3>2. auth' = [auth EXCEPT ![AuthOf[a]] = [status |-> "CONSUMED", by |-> a]] /\ UNCHANGED <<ajournal, raised>>
        BY <2>5, <3>1 DEF Consume
      <3> QED
        BY <1>0, <3>2 DEF OwnAuthorizations, Authority
    <2>6. CASE \/ WriteTransitionJournal(p) \/ MatchTransition(p) \/ SaveSnapshot(p) \/ UnlinkTransition(p)
               \/ AcquireLock(p) \/ AppendEvent(p) \/ ReleaseLock(p) \/ Authorized(p) \/ ChainActionEvent(p)
               \/ UnlinkAction(p)
      BY <1>s, <2>6
         DEF WriteTransitionJournal, MatchTransition, SaveSnapshot, UnlinkTransition, AcquireLock, AppendEvent,
             ReleaseLock, Authorized, ChainActionEvent, UnlinkAction, files
    <2>7. CASE AcquireCapability(p) \/ ReleaseCapability(p) \/ RefuseConsume(p)
      BY <1>s, <2>7 DEF AcquireCapability, ReleaseCapability, RefuseConsume
    <2>8. CASE CapabilityTimeout(p)
      BY <2>8 DEF CapabilityTimeout, Raise, files, Authority
    <2>9. CASE RefuseAuthorization(p)
      BY <1>a, <2>9 DEF RefuseAuthorization, Entitled
    <2>10. CASE SaveAuthorization(p)
      <3>1. PICK x \in Auth : x = Capability(p)
        BY <2>10, CapabilityIs DEF SaveAuthorization, SharedInv
      <3>2. auth' = [auth EXCEPT ![x].status = "ISSUED"] /\ UNCHANGED <<ajournal, raised>>
        BY <2>10, <3>1 DEF SaveAuthorization
      <3> QED
        BY <1>0, <3>2 DEF Authority
    <2>11. CASE Void(p)
      <3>1. PICK a \in Action : a = job[p].event.id /\ Capability(p) = AuthOf[a]
        BY <2>11, CapabilityIs DEF Void, SharedInv
      <3>2. auth' = [auth EXCEPT ![AuthOf[a]].status = "VOID"] /\ UNCHANGED <<ajournal, raised>>
        BY <2>11, <3>1 DEF Void
      <3>3. a \notin ajournal
        BY <1>a, <2>11, <3>1 DEF Void, Journaled, Ending
      <3> QED
        BY <1>0, <3>2, <3>3 DEF OwnAuthorizations, Authority
    <2> QED
      BY <1>3, <2>1, <2>2, <2>3, <2>4, <2>5, <2>6, <2>7, <2>8, <2>9, <2>10, <2>11 DEF Continue, CapabilityStep
  <1>4. ASSUME NEW p \in Proc, Call(p)
        PROVE  Authority'
    <2>1. ASSUME NEW s \in Status, ChainTransition(p, s)
          PROVE  Authority'
      BY <1>s, <2>1 DEF ChainTransition, files
    <2>2. ASSUME NEW x \in Auth, Issue(p, x)
          PROVE  Authority'
      BY <1>s, <2>2 DEF Issue, files
    <2>3. ASSUME NEW a \in Action, WriteActionJournal(p, a)
          PROVE  Authority'
      <3>1. /\ UNCHANGED <<auth, raised>> /\ ajournal' = ajournal \cup {a} /\ auth[AuthOf[a]].status # "NONE"
            /\ auth[AuthOf[a]].by # a
        BY <1>0, <2>3 DEF WriteActionJournal, Fresh
      <3>2. auth[AuthOf[a]].status \notin {"CONSUMED", "VOID"}
        BY <1>0, <3>1 DEF AloneInv, Spent, OwnAuthorizations
      <3> QED
        BY <1>0, <3>1, <3>2 DEF Authority
    <2>4. ASSUME NEW a \in Action, CompleteAction(p, a) \/ FailAction(p, a)
          PROVE  Authority'
      BY <1>s, <2>4 DEF CompleteAction, FailAction, files
    <2> QED
      BY <1>4, <2>1, <2>2, <2>3, <2>4 DEF Call
  <1>5. ASSUME NEW p \in Proc, Crash(p)
        PROVE  Authority'
    BY <1>5, <1>s DEF Crash
  <1> QED
    BY <1>1, <1>2, <1>3, <1>4, <1>5, Steps

(* When every action presents an authorization of its own, a lone process  *)
(* is refused nothing: the only error it can meet is a lock file that a    *)
(* killed process left, the ledger's or an authorization's (TimeoutError). *)
THEOREM TimeoutsOnly ==
    ASSUME Alone, OwnAuthorizations
    PROVE  Spec => []OnlyTimeouts
  <1>1. Init => Authority
    BY DEF Init, Authority
  <1>2. SharedInv /\ AloneInv /\ Authority /\ [Next]_vars => Authority'
    BY AuthorityStep
  <1>3. Authority => OnlyTimeouts
    BY DEF Authority, OnlyTimeouts
  <1> QED
    BY <1>1, <1>2, <1>3, Lone, PTL DEF Spec

-----------------------------------------------------------------------------
(* The state of the store as AtomicStore sees it. *)
CurrentView ==
    IF tjournal # {} /\ TransitionIndexes # {} THEN ledger[LastTransition].id ELSE snap.id
AuthView ==
    [x \in Auth |->
       IF auth[x].status = "CONSUMED" /\ ~Has("ACTION_STARTED", auth[x].by)
       THEN [status |-> "ISSUED", by |-> None] ELSE auth[x]]

(* The identifier that AtomicStore sees is that of the ledger's last       *)
(* transition.                                                             *)
LEMMA CurrentIs ==
    /\ Latest => CurrentView = IF TransitionIndexes = {} THEN 0 ELSE ledger[LastTransition].id
    /\ Latest' => CurrentView' = IF TransitionIndexes' = {} THEN 0 ELSE ledger'[LastTransition'].id
  BY DEF Latest, CurrentView

(* It changes with the append of a transition and with no other write.     *)
LEMMA CurrentStep ==
    ASSUME Typed, Latest, Latest'
    PROVE  /\ UNCHANGED ledger => CurrentView' = CurrentView
           /\ \A e \in Event : ledger' = Append(ledger, e) =>
                CurrentView' = IF e \in Transitions THEN e.id ELSE CurrentView
  <1>1. UNCHANGED ledger => CurrentView' = CurrentView
    BY CurrentIs, SameLedger
  <1>2. ASSUME NEW e \in Event, ledger' = Append(ledger, e)
        PROVE  CurrentView' = IF e \in Transitions THEN e.id ELSE CurrentView
    <2>1. PICK n : n = Len(ledger) + 1
      OBVIOUS
    <2>2. /\ DOMAIN ledger = 1..Len(ledger) /\ Len(ledger) \in Nat /\ n = Len(ledger) + 1
          /\ \A i \in DOMAIN ledger : ledger'[i] = ledger[i] /\ ledger[i] \in Event
          /\ ledger'[n] = e
          /\ e \in Transitions => TransitionIndexes' = TransitionIndexes \cup {n}
          /\ e \notin Transitions => TransitionIndexes' = TransitionIndexes
          /\ TransitionIndexes \subseteq DOMAIN ledger
      BY <1>2, <2>1, LedgerGrows
    <2>3. CASE e \in Transitions
      <3>1. n \in TransitionIndexes' /\ \A j \in TransitionIndexes' : j =< n
        BY <2>2, <2>3
      <3>2. LastTransition' \in TransitionIndexes' /\ \A j \in TransitionIndexes' : j =< LastTransition'
        BY <3>1 DEF LastTransition
      <3>3. LastTransition' = n
        BY <2>2, <2>3, <3>1, <3>2
      <3> QED
        BY <2>2, <2>3, <3>1, <3>3, CurrentIs
    <2>4. CASE e \notin Transitions
      <3>1. TransitionIndexes' = TransitionIndexes /\ LastTransition' = LastTransition
        BY <2>2, <2>4 DEF LastTransition
      <3>2. TransitionIndexes # {} => ledger'[LastTransition] = ledger[LastTransition]
        BY <2>2, LastIs DEF Latest
      <3> QED
        BY <2>4, <3>1, <3>2, CurrentIs
    <2> QED
      BY <2>3, <2>4
  <1> QED
    BY <1>1, <1>2

(* An empty store is an empty atomic store.                                *)
LEMMA AtomicInit == Init => Atomic!Init
  <1> SUFFICES ASSUME Init
               PROVE  Atomic!Init
    OBVIOUS
  <1>1. ledger = <<>> /\ tjournal = {} /\ snap.id = 0 /\ auth = [x \in Auth |-> [status |-> "NONE", by |-> None]]
    BY DEF Init
  <1>2. AuthView = auth
    BY <1>1 DEF AuthView
  <1>3. CurrentView = 0
    BY <1>1 DEF CurrentView
  <1> QED
    BY <1>1, <1>2, <1>3 DEF Atomic!Init, AuthView, CurrentView

(* Each append is the atomic operation, each journal, snapshot, unlink and *)
(* recovery step a stutter; so is consuming, whose effect counts with the  *)
(* start.                                                                  *)
LEMMA AtomicStep ==
    ASSUME Alone, SharedInv, AloneInv, [Next]_vars
    PROVE  [Atomic!Next]_(Atomic!vars)
  <1>0. /\ Typed /\ Employed /\ Locked /\ Once /\ Paid /\ Latest /\ Latest' /\ Ordered /\ Pending
        /\ AuthOf \in [Action -> Auth] /\ DOMAIN auth = Auth
        /\ \A x \in Auth : auth[x] = [status |-> auth[x].status, by |-> auth[x].by]
    BY AloneStep, StoreAssumption DEF SharedInv, AloneInv, Typed
  <1>n. None \notin Action
    BY StoreAssumption
  <1>1. CASE UNCHANGED <<ledger, auth>>
    <2>1. AuthView' = AuthView
      BY <1>1, SameLedger DEF AuthView
    <2>2. CurrentView' = CurrentView
      BY <1>0, <1>1, CurrentStep
    <2> QED
      BY <1>1, <2>1, <2>2 DEF Atomic!vars, AuthView, CurrentView
  <1>2. ASSUME NEW p \in Proc, Consume(p)
        PROVE  UNCHANGED Atomic!vars
    <2>1. PICK a \in Action : a = job[p].event.id
      BY <1>0, <1>2, CallTypes DEF Consume, Beginning
    <2>2. /\ auth[AuthOf[a]].status = "ISSUED" /\ UNCHANGED ledger
          /\ auth' = [auth EXCEPT ![AuthOf[a]] = [status |-> "CONSUMED", by |-> a]]
      BY <1>2, <2>1 DEF Consume
    <2>3. ~Has("ACTION_STARTED", a) /\ auth[AuthOf[a]].by = None
      BY <1>0, <2>2 DEF Paid, PaidFor, AloneInv, Spent
    <2>4. \A x \in Auth : AuthView'[x] = AuthView[x]
      <3>1. ASSUME NEW x \in Auth
            PROVE  AuthView'[x] = AuthView[x]
        <4>1. CASE x = AuthOf[a]
          <5>1. auth'[x] = [status |-> "CONSUMED", by |-> a] /\ auth[x] = [status |-> "ISSUED", by |-> None]
            BY <1>0, <2>2, <2>3, <4>1
          <5> QED
            BY <2>2, <2>3, <5>1, SameLedger DEF AuthView
        <4>2. CASE x # AuthOf[a]
          <5>1. auth'[x] = auth[x]
            BY <1>0, <2>2, <4>2
          <5> QED
            BY <2>2, <5>1, SameLedger DEF AuthView
        <4> QED
          BY <4>1, <4>2
      <3> QED
        BY <3>1
    <2>5. AuthView' = AuthView
      BY <2>4 DEF AuthView
    <2>6. CurrentView' = CurrentView
      BY <1>0, <2>2, CurrentStep
    <2> QED
      BY <2>2, <2>5, <2>6 DEF Atomic!vars, AuthView, CurrentView
  <1>3. ASSUME NEW p \in Proc, NEW y \in Auth, y = Capability(p), SaveAuthorization(p)
        PROVE  Atomic!Issue(y)
    <2>1. auth[y].status = "NONE" /\ UNCHANGED ledger /\ auth' = [auth EXCEPT ![y].status = "ISSUED"]
      BY <1>3 DEF SaveAuthorization
    <2>2. CurrentView' = CurrentView
      BY <1>0, <2>1, CurrentStep
    <2>3. AuthView[y].status = "NONE" /\ AuthView' = [AuthView EXCEPT ![y].status = "ISSUED"]
      BY <1>0, <2>1, SameLedger DEF AuthView
    <2> QED
      BY <2>1, <2>2, <2>3 DEF Atomic!Issue, AuthView, CurrentView
  <1>4. ASSUME NEW p \in Proc, NEW a \in Action, a = job[p].event.id, Capability(p) = AuthOf[a], Void(p)
        PROVE  Atomic!Void(AuthOf[a]) \/ UNCHANGED Atomic!vars
    <2>1. /\ UNCHANGED ledger /\ auth' = [auth EXCEPT ![AuthOf[a]].status = "VOID"]
          /\ Has("ACTION_STARTED", a)
      BY <1>4 DEF Void, AloneInv, Undone, Ending, Unfinished
    <2>2. auth[AuthOf[a]].by = a /\ auth[AuthOf[a]].status \in {"CONSUMED", "VOID"}
      BY <1>0, <2>1 DEF Paid, PaidFor
    <2>3. CurrentView' = CurrentView
      BY <1>0, <2>1, CurrentStep
    <2>4. CASE auth[AuthOf[a]].status = "CONSUMED"
      <3>1. AuthView[AuthOf[a]] = auth[AuthOf[a]]
        BY <1>0, <2>1, <2>2 DEF AuthView
      <3>2. AuthView' = [AuthView EXCEPT ![AuthOf[a]].status = "VOID"]
        BY <1>0, <2>1, <2>2, <3>1, SameLedger DEF AuthView
      <3> QED
        BY <2>1, <2>3, <2>4, <3>1, <3>2 DEF Atomic!Void, AuthView, CurrentView
    <2>5. CASE auth[AuthOf[a]].status = "VOID"
      <3>1. auth' = auth
        BY <1>0, <2>1, <2>5 DEF Typed
      <3> QED
        BY <1>1, <1>0, <2>1, <2>3, <3>1, SameLedger DEF Atomic!vars, AuthView, CurrentView
    <2> QED
      BY <2>2, <2>4, <2>5
  <1>5. ASSUME NEW p \in Proc, AppendEvent(p)
        PROVE  Atomic!Next
    <2>1. PICK e \in Event : e = job[p].event
      BY <1>0, <1>5, AppendIs
    <2>2. /\ ledger' = Append(ledger, e) /\ UNCHANGED auth /\ pc[p] = "append"
          /\ e \in Transitions => Committing(p)
          /\ e \in Starts => Beginning(p) /\ Starting(p)
          /\ e \in Ends => Ending(p)
      BY <1>0, <1>5, <2>1, AppendIs DEF AppendEvent
    <2>3. \A type, id : Has(type, id)' <=> Has(type, id) \/ (e.type = type /\ e.id = id)
      BY <1>0, <2>2, LedgerGrows
    <2>4. Undone(p) /\ Entitled(p) /\ \A x \in Auth : Spent(x)
      BY DEF AloneInv
    <2>5. CASE e \in Transitions
      <3>1. e.id \in 1..MaxTransitions /\ e.to \in Status /\ e = [type |-> "STATE_TRANSITION", id |-> e.id, to |-> e.to]
        BY <2>5 DEF Transitions
      <3>2. ~Has("STATE_TRANSITION", e.id)
        BY <2>1, <2>2, <2>4, <2>5 DEF Undone
      <3>3. CurrentView' = e.id
        BY <1>0, <2>2, <2>5, CurrentStep
      <3>4. AuthView' = AuthView
        BY <2>2, <2>3, <3>1 DEF AuthView
      <3>5. Atomic!Commit(e.id, e.to)
        BY <2>2, <3>1, <3>2, <3>3, <3>4 DEF Atomic!Commit, Atomic!Has, Has, AuthView, CurrentView
      <3> QED
        BY <3>1, <3>5 DEF Atomic!Next
    <2>6. CASE e \in Starts
      <3>1. PICK a \in Action : a = e.id /\ e = [type |-> "ACTION_STARTED", id |-> a]
        BY <2>6 DEF Starts
      <3>2. ~Has("ACTION_STARTED", a)
        BY <2>1, <2>2, <2>4, <2>6, <3>1 DEF Undone
      <3>3. auth[AuthOf[a]].by = a /\ auth[AuthOf[a]].status \in {"CONSUMED", "VOID"}
        BY <1>0, <2>1, <2>2, <2>6, <3>1 DEF Paid, PaidFor
      <3>4. auth[AuthOf[a]] = [status |-> "CONSUMED", by |-> a]
        BY <1>0, <2>4, <3>2, <3>3 DEF Spent
      <3>5. AuthView[AuthOf[a]].status = "ISSUED"
        BY <1>0, <3>2, <3>4 DEF AuthView
      <3>6. \A x \in Auth : AuthView'[x] = [AuthView EXCEPT ![AuthOf[a]] = [status |-> "CONSUMED", by |-> a]][x]
        <4>1. ASSUME NEW x \in Auth
              PROVE  AuthView'[x] = [AuthView EXCEPT ![AuthOf[a]] = [status |-> "CONSUMED", by |-> a]][x]
          <5>1. CASE x = AuthOf[a]
            BY <1>0, <2>2, <2>3, <3>1, <3>4, <5>1 DEF AuthView
          <5>2. CASE x # AuthOf[a]
            <6>1. auth[x].status = "CONSUMED" => auth[x].by # a
              BY <2>4, <5>2 DEF Spent
            <6>2. auth[x].status = "CONSUMED" =>
                    (Has("ACTION_STARTED", auth[x].by)' <=> Has("ACTION_STARTED", auth[x].by))
              <7>1. PICK b : b = auth[x].by
                OBVIOUS
              <7>2. auth[x].status = "CONSUMED" => (Has("ACTION_STARTED", b)' <=> Has("ACTION_STARTED", b))
                BY <2>3, <3>1, <6>1, <7>1
              <7> QED
                BY <2>2, <7>1, <7>2 DEF Has
            <6> QED
              BY <2>2, <5>2, <6>2 DEF AuthView, Has
          <5> QED
            BY <5>1, <5>2
        <4> QED
          BY <4>1
      <3>7. AuthView' = [AuthView EXCEPT ![AuthOf[a]] = [status |-> "CONSUMED", by |-> a]]
        BY <3>6 DEF AuthView
      <3>8. CurrentView' = CurrentView
        BY <1>0, <2>2, <3>1, CurrentStep, EventFacts
      <3>9. Atomic!Begin(a)
        BY <2>2, <3>1, <3>2, <3>5, <3>7, <3>8 DEF Atomic!Begin, Atomic!Has, Has, AuthView, CurrentView
      <3> QED
        BY <3>9 DEF Atomic!Next
    <2>7. CASE e \in Ends
      <3>1. PICK a \in Action, type \in {"ACTION_COMPLETED", "ACTION_FAILED"} : e = [type |-> type, id |-> a]
        BY <2>7 DEF Ends
      <3>2. Unfinished(a)
        BY <2>1, <2>2, <2>4, <2>7, <3>1 DEF Undone
      <3>3. auth[AuthOf[a]].by = a
        BY <1>0, <3>2 DEF Unfinished, Paid, PaidFor
      <3>4. auth[AuthOf[a]].status = IF type = "ACTION_COMPLETED" THEN "CONSUMED" ELSE "VOID"
        BY <2>1, <2>2, <2>4, <2>7, <3>1 DEF Entitled
      <3>5. AuthView[AuthOf[a]] = [status |-> IF type = "ACTION_COMPLETED" THEN "CONSUMED" ELSE "VOID", by |-> a]
        BY <1>0, <3>2, <3>3, <3>4 DEF AuthView, Unfinished
      <3>6. AuthView' = AuthView
        BY <2>2, <2>3, <3>1 DEF AuthView
      <3>7. CurrentView' = CurrentView
        BY <1>0, <2>2, <3>1, CurrentStep, EventFacts
      <3>8. Atomic!Unfinished(ledger, a)
        BY <3>2 DEF Atomic!Unfinished, Atomic!Ended, Atomic!Has, Unfinished, Ended, Has
      <3>9. CASE type = "ACTION_COMPLETED"
        <4>1. Atomic!Complete(a)
          BY <2>2, <3>1, <3>5, <3>6, <3>7, <3>8, <3>9 DEF Atomic!Complete, AuthView, CurrentView
        <4> QED
          BY <4>1 DEF Atomic!Next
      <3>10. CASE type = "ACTION_FAILED"
        <4>1. Atomic!Fail(a)
          BY <2>2, <3>1, <3>5, <3>6, <3>7, <3>8, <3>10 DEF Atomic!Fail, AuthView, CurrentView
        <4> QED
          BY <4>1 DEF Atomic!Next
      <3> QED
        BY <3>9, <3>10
    <2> QED
      BY <2>5, <2>6, <2>7 DEF Event
  <1>6. CASE ~UNCHANGED ledger
    BY <1>0, <1>5, <1>6, Writes
  <1>7. CASE UNCHANGED ledger /\ ~UNCHANGED auth
    <2>1. \/ \E p \in Proc : Consume(p)
          \/ \E p \in Proc, y \in Auth : y = Capability(p) /\ SaveAuthorization(p)
          \/ \E p \in Proc, a \in Action : a = job[p].event.id /\ Capability(p) = AuthOf[a] /\ Void(p)
      <3>1. ASSUME NEW p \in Proc, SaveAuthorization(p)
            PROVE  Capability(p) \in Auth
        BY <1>0, <3>1, CapabilityIs DEF SaveAuthorization
      <3>2. ASSUME NEW p \in Proc, Void(p)
            PROVE  job[p].event.id \in Action /\ Capability(p) = AuthOf[job[p].event.id]
        BY <1>0, <3>2, CapabilityIs DEF Void
      <3> QED
        BY <1>0, <1>7, <3>1, <3>2, Writes
    <2>2. (\E x \in Auth : Atomic!Issue(x) \/ Atomic!Void(x)) \/ UNCHANGED Atomic!vars
      BY <1>0, <1>2, <1>3, <1>4, <2>1
    <2> QED
      BY <2>2 DEF Atomic!Next
  <1> QED
    BY <1>1, <1>6, <1>7

(* A lone process's store is atomic: its multi-file commits with kills     *)
(* between any two writes, and the replay on opening, look like single     *)
(* operations.                                                             *)
THEOREM Implements ==
    ASSUME Alone
    PROVE  Spec => ImplementsAtomicStore
  <1>1. SharedInv /\ AloneInv /\ [Next]_vars => [Atomic!Next]_(Atomic!vars)
    BY AtomicStep
  <1> QED
    BY <1>1, AtomicInit, Lone, PTL DEF Spec, ImplementsAtomicStore, Atomic!Spec

-----------------------------------------------------------------------------
(* Steps a process can still take inside a call: to the end of the event   *)
(* in hand ...                                                             *)
InEvent ==
    [l \in Label |->
        CASE l \in {"unlink_transition", "unlink_action", "issued", "refused"} -> 1
          [] l \in {"save", "issuing"} -> 2
          [] l \in {"check", "issue"} -> 3
          [] l = "unlock" -> 4
          [] l = "append" -> 5
          [] l = "lock" -> 6
          [] l \in {"match", "chain"} -> 7
          [] l \in {"journal", "starts", "voided"} -> 8
          [] l \in {"consumed", "voiding"} -> 9
          [] l \in {"consuming", "void"} -> 10
          [] l = "consume" -> 11
          [] l = "authorize" -> 12
          [] OTHER -> 0]

(* ... and, in the constructor, over the journals that are left to replay; *)
(* the transitions are listed once the actions are finished.               *)
ToReplay(p) ==
    LET transitions == 1 + 8 * Cardinality(todo[p])
        actions     == 2 + 8 * MaxTransitions + 13 * Cardinality(todo[p])
    IN  CASE pc[p] = "scan_actions"     -> actions
          [] pc[p] = "scan_transitions" -> transitions
          [] pc[p] \notin {"scan_actions", "scan_transitions"} /\ ~opening[p] -> 0
          [] OTHER -> IF job[p].event.type = "STATE_TRANSITION" THEN transitions ELSE actions

StepsLeft(p) == InEvent[pc[p]] + ToReplay(p)
MostSteps(p) == 14 + 8 * MaxTransitions + 13 * Cardinality(todo[p])

(* What is listed is finite.                                               *)
Listed == IsFiniteSet(ajournal) /\ \A p \in Proc : IsFiniteSet(todo[p])

(* There are no more transition journals than transitions were issued.     *)
LEMMA FewTransitions ==
    ASSUME Typed, Once
    PROVE  IsFiniteSet(tjournal) /\ Cardinality(tjournal) \in 0 .. MaxTransitions
  <1> DEFINE id == [j \in tjournal |-> j.event.id]
  <1>1. \A j \in tjournal : j.event.id \in 1 .. MaxTransitions
    BY DEF Typed, Commit, Transitions
  <1>2. \A j, k \in tjournal : j.event.id = k.event.id => j = k
    BY DEF Once, Commits
  <1>3. id \in Injection(tjournal, 1 .. MaxTransitions)
    BY <1>1, <1>2 DEF Injection, IsInjective
  <1>4. MaxTransitions \in Nat
    BY StoreAssumption
  <1>5. IsFiniteSet(1 .. MaxTransitions) /\ Cardinality(1 .. MaxTransitions) = MaxTransitions
    BY <1>4, FS_Interval
  <1>6. IsFiniteSet(tjournal) /\ Cardinality(tjournal) =< MaxTransitions
    BY <1>3, <1>5, FS_Injection
  <1> QED
    BY <1>4, <1>6, FS_CardinalityType

(* Journals are listed or written one by one.                              *)
LEMMA ListedStep == Typed /\ Once /\ Listed /\ [Next]_vars => Listed'
  <1> SUFFICES ASSUME Typed, Once, Listed, [Next]_vars
               PROVE  Listed'
    OBVIOUS
  <1>1. IsFiniteSet(ajournal')
    <2>1. ASSUME NEW p \in Proc, Unauthorized(p) \/ UnlinkAction(p)
          PROVE  ajournal' \subseteq ajournal
      BY <2>1 DEF Unauthorized, UnlinkAction
    <2>2. ASSUME NEW p \in Proc, NEW a \in Action, WriteActionJournal(p, a)
          PROVE  ajournal' = ajournal \cup {a}
      BY <2>2 DEF WriteActionJournal
    <2> QED
      BY <2>1, <2>2, Writes, FS_Subset, FS_AddElement DEF Listed
  <1>2. CASE UNCHANGED vars
    BY <1>1, <1>2 DEF Listed, vars, procs
  <1>3. CASE ~UNCHANGED vars
    <2>1. PICK p \in Proc : /\ Recovery(p) \/ Continue(p) \/ Call(p) \/ Crash(p)
                            /\ todo' = [todo EXCEPT ![p] = todo'[p]]
      BY <1>3, Acting
    <2>2. todo'[p] = ajournal \/ todo'[p] = tjournal \/ todo'[p] \subseteq todo[p]
      <3>1. CASE Recovery(p)
        BY <3>1 DEF Recovery, Open, RecoverAction, RecoverTransitions, RecoverTransition, Opened, Raise,
           Typed
      <3>2. CASE Continue(p) /\ ~CapabilityStep(p)
        BY <3>2 DEF Continue, WriteTransitionJournal, MatchTransition, CheckSnapshot, SaveSnapshot,
           UnlinkTransition, AcquireLock, LockTimeout, AppendEvent, RefuseEvent, ReleaseLock, Authorized,
           Unauthorized, Consume, FindStart, ChainActionEvent, UnlinkAction, Raise
      <3>3. CASE Call(p)
        BY <3>3 DEF Call, ChainTransition, Issue, WriteActionJournal, CompleteAction, FailAction, procs
      <3>4. CASE Crash(p)
        BY <3>4 DEF Crash, Typed
      <3>5. CASE CapabilityStep(p)
        BY <3>5, CapabilitySteps
      <3> QED
        BY <2>1, <3>1, <3>2, <3>3, <3>4, <3>5
    <2>3. IsFiniteSet(todo'[p])
      BY <2>2, FewTransitions, FS_Subset DEF Listed
    <2> QED
      BY <1>1, <2>1, <2>3 DEF Listed, Typed
  <1> QED
    BY <1>2, <1>3

(* The steps left are counted, and are not too many.                       *)
LEMMA StepsCounted ==
    ASSUME Typed, Listed, NEW p \in Proc
    PROVE  /\ StepsLeft(p) \in 0 .. MostSteps(p)
           /\ InEvent[pc[p]] \in 0 .. 12 /\ Cardinality(todo[p]) \in Nat
  <1>1. pc[p] \in Label /\ Cardinality(todo[p]) \in Nat /\ MaxTransitions \in Nat
    BY StoreAssumption, FS_CardinalityType DEF Typed, Listed
  <1>2. InEvent[pc[p]] \in 0 .. 12
    BY <1>1 DEF InEvent, Label
  <1> DEFINE n == Cardinality(todo[p])
  <1>3. ToReplay(p) \in {0, 1 + 8 * n, 2 + 8 * MaxTransitions + 13 * n}
    BY DEF ToReplay
  <1> QED
    BY <1>1, <1>2, <1>3 DEF StepsLeft, MostSteps

(* Each step of a call leaves fewer: it goes on in the event, or the call  *)
(* returns, with an exception or without, to its caller or to the replay.  *)
LEMMA EventSteps ==
    ASSUME SharedInv, Listed, NEW p \in Proc, Continue(p)
    PROVE  StepsLeft(p)' < StepsLeft(p)
  <1>1. /\ pc[p] \in Label /\ pc \in [Proc -> Label] /\ opening \in [Proc -> BOOLEAN]
        /\ Cardinality(todo[p]) \in Nat /\ MaxTransitions \in Nat /\ Typed /\ Employed
    BY StoreAssumption, StepsCounted DEF Typed, SharedInv
  <1>2. todo' = todo
    <2>1. CASE CapabilityStep(p)
      BY <1>1, <2>1, CapabilitySteps
    <2>2. CASE ~CapabilityStep(p)
      BY <2>2 DEF Continue, WriteTransitionJournal, MatchTransition, CheckSnapshot, SaveSnapshot,
         UnlinkTransition, AcquireLock, LockTimeout, AppendEvent, RefuseEvent, ReleaseLock, Authorized,
         Unauthorized, Consume, FindStart, ChainActionEvent, UnlinkAction, Raise
    <2> QED
      BY <2>1, <2>2
  <1> DEFINE n == Cardinality(todo[p])
             inEvent == Label \ {"down", "ready", "scan_actions", "scan_transitions"}
  (* An exception leaves the constructor or goes to the caller. *)
  <1>3. ASSUME pc[p] \in inEvent, pc'[p] \in {"down", "ready"}, ~opening'[p]
        PROVE  StepsLeft(p)' < StepsLeft(p)
    <2>1. StepsLeft(p)' = 0
      BY <1>3 DEF StepsLeft, InEvent, ToReplay, Label
    <2>2. InEvent[pc[p]] \in 1 .. 12
      BY <1>3 DEF InEvent, Label
    <2>3. ToReplay(p) \in {0, 1 + 8 * n, 2 + 8 * MaxTransitions + 13 * n}
      BY DEF ToReplay
    <2> QED
      BY <1>1, <2>1, <2>2, <2>3 DEF StepsLeft
  (* A step inside an event, of which there are no more to come than before. *)
  <1>4. ASSUME pc[p] \in inEvent, pc'[p] \in Label \ {"scan_actions", "scan_transitions"},
               InEvent[pc'[p]] < InEvent[pc[p]],
               opening'[p] = opening[p], job'[p].event = job[p].event
        PROVE  StepsLeft(p)' < StepsLeft(p)
    <2>1. ToReplay(p)' = ToReplay(p)
      BY <1>2, <1>4 DEF ToReplay
    <2>2. ToReplay(p) \in {0, 1 + 8 * n, 2 + 8 * MaxTransitions + 13 * n}
      BY DEF ToReplay
    <2>3. \A l \in Label : InEvent[l] \in 0 .. 12
      BY DEF InEvent, Label
    <2>4. InEvent[pc[p]] \in 0 .. 12 /\ InEvent[pc'[p]] \in 0 .. 12
      BY <1>1, <1>4, <2>3
    <2> QED
      BY <1>1, <1>4, <2>1, <2>2, <2>4 DEF StepsLeft
  <1>5. CASE LockTimeout(p) \/ RefuseEvent(p) \/ Unauthorized(p)
    <2>1. pc[p] \in inEvent /\ pc'[p] \in {"down", "ready"} /\ ~opening'[p]
      BY <1>1, <1>5 DEF LockTimeout, RefuseEvent, Unauthorized, Raise, Goto, Label
    <2> QED
      BY <1>3, <2>1
  <1>6. CASE UnlinkTransition(p) \/ UnlinkAction(p)
    <2>1. \/ pc[p] = "unlink_transition" /\ job[p].event.type = "STATE_TRANSITION"
          \/ pc[p] = "unlink_action" /\ job[p].event.type = "ACTION_STARTED"
      BY <1>1, <1>6, CallTypes DEF UnlinkTransition, UnlinkAction, Committing, Beginning
    <2>2. /\ opening' = opening
          /\ pc'[p] = IF ~opening[p] THEN "ready"
                      ELSE IF pc[p] = "unlink_transition" THEN "scan_transitions" ELSE "scan_actions"
      BY <1>1, <1>6 DEF UnlinkTransition, UnlinkAction, Return, Goto
    <2>3. CASE ~opening[p]
      BY <1>3, <2>1, <2>2, <2>3 DEF Label
    <2>4. CASE opening[p]
      <3>1. InEvent[pc[p]] = 1 /\ InEvent[pc'[p]] = 0
        BY <2>1, <2>2, <2>4 DEF InEvent, Label
      <3>2. ToReplay(p)' = ToReplay(p)
        BY <1>2, <2>1, <2>2, <2>4 DEF ToReplay
      <3>3. ToReplay(p) \in {0, 1 + 8 * n, 2 + 8 * MaxTransitions + 13 * n}
        BY DEF ToReplay
      <3> QED
        BY <1>1, <3>1, <3>2, <3>3 DEF StepsLeft
    <2> QED
      BY <2>3, <2>4
  <1>7. CASE CheckSnapshot(p) \/ FindStart(p)
    <2>1. \/ pc[p] = "check" /\ pc'[p] = "save" /\ UNCHANGED <<opening, job>>
          \/ pc[p] = "starts" /\ pc'[p] \in {"unlink_action", "chain"} /\ UNCHANGED <<opening, job>>
          \/ pc[p] \in {"check", "starts"} /\ pc'[p] \in {"down", "ready"} /\ ~opening'[p]
      BY <1>1, <1>7 DEF CheckSnapshot, FindStart, Raise, Goto
    <2>2. CASE pc[p] \in {"check", "starts"} /\ pc'[p] \in {"down", "ready"} /\ ~opening'[p]
      BY <1>3, <2>2 DEF Label
    <2>3. CASE ~(pc[p] \in {"check", "starts"} /\ pc'[p] \in {"down", "ready"} /\ ~opening'[p])
      <3>1. InEvent[pc'[p]] < InEvent[pc[p]]
        BY <2>1, <2>3 DEF InEvent, Label
      <3> QED
        BY <1>4, <2>1, <2>3, <3>1 DEF Label
    <2> QED
      BY <2>2, <2>3
  <1>8. CASE ReleaseLock(p)
    <2>1. pc[p] = "unlock" /\ pc'[p] \in {"check", "unlink_action", "ready"} /\ UNCHANGED <<opening, job>>
      BY <1>1, <1>8 DEF ReleaseLock, Goto
    <2>2. InEvent[pc'[p]] < InEvent[pc[p]]
      BY <2>1 DEF InEvent, Label
    <2> QED
      BY <1>4, <2>1, <2>2 DEF Label
  <1>9. CASE ChainActionEvent(p)
    <2>1. /\ pc[p] = "chain" /\ pc'[p] = "lock" /\ opening' = opening /\ job'[p].event = job[p].event
      BY <1>1, <1>9, Chains
    <2>2. InEvent[pc'[p]] < InEvent[pc[p]]
      BY <2>1 DEF InEvent, Label
    <2> QED
      BY <1>4, <2>1, <2>2 DEF Label
  <1>10. CASE \/ WriteTransitionJournal(p) \/ MatchTransition(p) \/ SaveSnapshot(p)
              \/ AcquireLock(p) \/ AppendEvent(p) \/ Authorized(p) \/ Consume(p)
    <2>1. /\ UNCHANGED <<opening, job>>
          /\ \/ pc[p] = "journal" /\ pc'[p] = "match"
             \/ pc[p] = "match" /\ pc'[p] \in {"check", "lock"}
             \/ pc[p] = "save" /\ pc'[p] = "unlink_transition"
             \/ pc[p] = "lock" /\ pc'[p] = "append"
             \/ pc[p] = "append" /\ pc'[p] = "unlock"
             \/ pc[p] = "authorize" /\ pc'[p] \in {"consume", "starts"}
             \/ pc[p] = "consuming" /\ pc'[p] = "consumed"
      BY <1>1, <1>10 DEF WriteTransitionJournal, MatchTransition, SaveSnapshot, AcquireLock, AppendEvent,
         Authorized, Consume, Goto
    <2>2. InEvent[pc'[p]] < InEvent[pc[p]]
      BY <2>1 DEF InEvent, Label
    <2> QED
      BY <1>4, <2>1, <2>2 DEF Label
  <1>11. CASE CapabilityStep(p)
    <2>1. /\ UNCHANGED job
          /\ \/ /\ opening' = opening
                /\ \/ pc[p] = "issue" /\ pc'[p] = "issuing"
                   \/ pc[p] = "consume" /\ pc'[p] = "consuming"
                   \/ pc[p] = "void" /\ pc'[p] = "voiding"
                   \/ pc[p] = "issuing" /\ pc'[p] = "issued"
                   \/ pc[p] = "voiding" /\ pc'[p] = "voided"
                   \/ pc[p] = "consuming" /\ pc'[p] = "refused"
                   \/ pc[p] = "issued" /\ pc'[p] = "ready"
                   \/ pc[p] = "consumed" /\ pc'[p] = "starts"
                   \/ pc[p] = "voided" /\ pc'[p] = "chain"
             \/ /\ pc[p] \in {"issue", "consume", "void", "issuing"}
                /\ pc'[p] \in {"down", "ready"} /\ ~opening'[p]
      BY <1>1, <1>11, CapabilitySteps
    <2>2. CASE /\ pc[p] \in {"issue", "consume", "void", "issuing"}
               /\ pc'[p] \in {"down", "ready"} /\ ~opening'[p]
      BY <1>3, <2>2 DEF Label
    <2>3. CASE ~(/\ pc[p] \in {"issue", "consume", "void", "issuing"}
                 /\ pc'[p] \in {"down", "ready"} /\ ~opening'[p])
      <3>1. InEvent[pc'[p]] < InEvent[pc[p]]
        BY <2>1, <2>3 DEF InEvent, Label
      <3> QED
        BY <1>4, <2>1, <2>3, <3>1 DEF Label
    <2> QED
      BY <2>2, <2>3
  <1> QED
    BY <1>5, <1>6, <1>7, <1>8, <1>9, <1>10, <1>11 DEF Continue

(* A step of the replay: every journal is taken from the list once.        *)
Replaying(p) == RecoverAction(p) \/ RecoverTransitions(p) \/ RecoverTransition(p) \/ Opened(p)

(* ... so replay comes to an end too.                                      *)
LEMMA ReplaySteps ==
    ASSUME SharedInv, Listed, NEW p \in Proc, Replaying(p)
    PROVE  StepsLeft(p)' < StepsLeft(p)
  <1>1. /\ pc \in [Proc -> Label] /\ opening \in [Proc -> BOOLEAN]
        /\ job \in [Proc -> Job \cup {None}] /\ DOMAIN todo = Proc
        /\ Cardinality(todo[p]) \in Nat /\ MaxTransitions \in Nat /\ IsFiniteSet(todo[p])
    BY StoreAssumption, StepsCounted DEF Typed, SharedInv, Listed
  <1> DEFINE n == Cardinality(todo[p])
             actions == 2 + 8 * MaxTransitions
  <1>2. StepsLeft(p) = IF pc[p] = "scan_actions" THEN actions + 13 * n ELSE 1 + 8 * n
    BY <1>1 DEF Replaying, RecoverAction, RecoverTransitions, RecoverTransition, Opened, StepsLeft, InEvent,
       ToReplay, Label
  <1>3. ASSUME pc'[p] \in {"down", "ready"}, ~opening'[p]
        PROVE  StepsLeft(p)' < StepsLeft(p)
    <2>1. StepsLeft(p)' = 0
      BY <1>3 DEF StepsLeft, InEvent, ToReplay, Label
    <2> QED
      BY <1>1, <1>2, <2>1
  <1>4. CASE Opened(p)
    <2>1. pc'[p] = "ready" /\ ~opening'[p]
      BY <1>1, <1>4 DEF Opened, Goto
    <2> QED
      BY <1>3, <2>1
  <1>5. CASE RecoverTransitions(p)
    <2>1. /\ pc[p] = "scan_actions" /\ pc'[p] = "scan_transitions" /\ todo'[p] = tjournal
      BY <1>1, <1>5 DEF RecoverTransitions, Goto
    <2>2. Cardinality(tjournal) \in 0 .. MaxTransitions
      BY FewTransitions DEF SharedInv
    <2>3. StepsLeft(p)' = 1 + 8 * Cardinality(tjournal)
      BY <2>1, <2>2 DEF StepsLeft, InEvent, ToReplay, Label
    <2> QED
      BY <1>1, <1>2, <2>1, <2>2, <2>3
  <1>6. CASE RecoverAction(p) \/ RecoverTransition(p)
    <2>1. PICK j \in todo[p] :
            \/ pc'[p] \in {"down", "ready"} /\ ~opening'[p]
            \/ /\ todo'[p] = todo[p] \ {j} /\ opening' = opening
               /\ \/ /\ pc[p] = "scan_actions" /\ pc'[p] = "authorize"
                     /\ job'[p].event.type = "ACTION_STARTED"
                  \/ /\ pc[p] = "scan_transitions" /\ pc'[p] = "match"
                     /\ job'[p].event.type = "STATE_TRANSITION"
      <3>1. CASE RecoverAction(p)
        BY <1>1, <3>1 DEF RecoverAction, Raise, Goto, Started
      <3>2. CASE RecoverTransition(p)
        <4>1. \A j \in tjournal : j.event.type = "STATE_TRANSITION"
          BY DEF SharedInv, Typed, Commit, Transitions
        <4> QED
          BY <1>1, <3>2, <4>1 DEF RecoverTransition, Raise, Goto
      <3> QED
        BY <1>6, <3>1, <3>2
    <2>2. CASE pc'[p] \in {"down", "ready"} /\ ~opening'[p]
      BY <1>3, <2>2
    <2>3. CASE ~(pc'[p] \in {"down", "ready"} /\ ~opening'[p])
      <3>1. Cardinality(todo'[p]) = n - 1
        BY <1>1, <2>1, <2>3, FS_RemoveElement
      <3>2. n - 1 \in Nat
        BY <1>1, <2>1, <2>3, <3>1, FS_RemoveElement, FS_CardinalityType
      <3>3. CASE pc[p] = "scan_actions"
        <4>1. pc'[p] = "authorize" /\ job'[p].event.type = "ACTION_STARTED"
          BY <2>1, <2>3, <3>3
        <4>2. InEvent[pc'[p]] = 12
          BY <4>1 DEF InEvent, Label
        <4>3. ToReplay(p)' \in {0, actions + 13 * (n - 1)}
          BY <3>1, <4>1 DEF ToReplay
        <4>4. StepsLeft(p)' = InEvent[pc'[p]] + ToReplay(p)'
          BY DEF StepsLeft
        <4> QED
          BY <1>1, <1>2, <3>2, <3>3, <4>2, <4>3, <4>4
      <3>4. CASE pc[p] # "scan_actions"
        <4>1. pc'[p] = "match" /\ job'[p].event.type = "STATE_TRANSITION"
          BY <2>1, <2>3, <3>4
        <4>2. InEvent[pc'[p]] = 7
          BY <4>1 DEF InEvent, Label
        <4>3. ToReplay(p)' \in {0, 1 + 8 * (n - 1)}
          BY <3>1, <4>1 DEF ToReplay
        <4>4. StepsLeft(p)' = InEvent[pc'[p]] + ToReplay(p)'
          BY DEF StepsLeft
        <4> QED
          BY <1>1, <1>2, <3>2, <3>4, <4>2, <4>3, <4>4
      <3> QED
        BY <3>3, <3>4
    <2> QED
      BY <2>2, <2>3
  <1> QED
    BY <1>4, <1>5, <1>6 DEF Replaying

(* Who else runs leaves a process what it had to do.                       *)
LEMMA StepsFall ==
    ASSUME SharedInv, Listed, NEW p \in Proc, [Next]_vars, StepsLeft(p) \in Nat, StepsLeft(p)' \in Nat
    PROVE  /\ Replaying(p) \/ Continue(p) => StepsLeft(p)' < StepsLeft(p)
           /\ StepsLeft(p)' > StepsLeft(p) => Open(p) \/ Call(p)
  <1>1. Replaying(p) \/ Continue(p) => StepsLeft(p)' < StepsLeft(p)
    BY EventSteps, ReplaySteps
  <1>2. ASSUME Crash(p)
        PROVE  StepsLeft(p)' = 0
    <2>1. pc'[p] = "down" /\ ~opening'[p]
      BY <1>2 DEF Crash, Goto, SharedInv, Typed
    <2> QED
      BY <2>1 DEF StepsLeft, InEvent, ToReplay, Label
  <1>3. ASSUME UNCHANGED <<pc[p], job[p], opening[p], todo[p]>>
        PROVE  StepsLeft(p)' = StepsLeft(p)
    <2>1. ToReplay(p)' = ToReplay(p)
      BY <1>3 DEF ToReplay
    <2> QED
      BY <1>3, <2>1 DEF StepsLeft
  <1>4. \/ UNCHANGED <<pc[p], job[p], opening[p], todo[p]>>
        \/ Recovery(p) \/ Continue(p) \/ Call(p) \/ Crash(p)
    <2>1. CASE UNCHANGED vars
      BY <2>1 DEF vars, procs
    <2>2. CASE ~UNCHANGED vars
      BY <2>2, Acting DEF SharedInv, Typed
    <2> QED
      BY <2>1, <2>2
  <1>5. Recovery(p) => Open(p) \/ Replaying(p)
    BY DEF Recovery, Replaying
  <1> QED
    BY <1>1, <1>2, <1>3, <1>4, <1>5

(* What a process does with the store ends, however many others replay,    *)
(* race and are killed: each step of the constructor and of a call leaves  *)
(* it fewer to take, nobody else gives it more, and thirteen for an        *)
(* action, eight for a transition are enough (LocalDurableStore's          *)
(* constructor, commit_transition, begin_authorized_action, append_event,  *)
(* the authorizations' save, consume and void).                            *)
THEOREM OperationsEnd ==
    ASSUME NEW p \in Proc
    PROVE  Spec => /\ [](StepsLeft(p) \in 0 .. MostSteps(p))
                   /\ [][ /\ Replaying(p) \/ Continue(p) => StepsLeft(p)' < StepsLeft(p)
                         /\ StepsLeft(p)' > StepsLeft(p) => Open(p) \/ Call(p) ]_vars
  <1>1. Init => Listed
    BY FS_EmptySet DEF Init, Listed
  <1>2. SharedInv /\ Listed /\ [Next]_vars => Listed'
    BY ListedStep DEF SharedInv
  <1>3. SharedInv /\ Listed => StepsLeft(p) \in 0 .. MostSteps(p)
    BY StepsCounted DEF SharedInv
  <1>4. SharedInv /\ Listed => StepsLeft(p) \in Nat
    <2>1. SharedInv /\ Listed => MostSteps(p) \in Nat
      BY StoreAssumption, StepsCounted DEF MostSteps, SharedInv
    <2> QED
      BY <1>3, <2>1
  <1>5. (SharedInv /\ Listed)' => (StepsLeft(p) \in Nat)'
    BY <1>4, PTL
  <1>6. SharedInv /\ Listed /\ (SharedInv /\ Listed)' /\ [Next]_vars
          => [ /\ Replaying(p) \/ Continue(p) => StepsLeft(p)' < StepsLeft(p)
               /\ StepsLeft(p)' > StepsLeft(p) => Open(p) \/ Call(p) ]_vars
    BY <1>4, <1>5, StepsFall
  <1> QED
    BY <1>1, <1>2, <1>3, <1>6, Shared, PTL DEF Spec
=============================================================================
