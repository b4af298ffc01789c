---------------------------- MODULE DurableStore ----------------------------
(***************************************************************************)
(* aircheck/persistence/store.py, LocalDurableStore, for one run, at the   *)
(* granularity of its files: every read of the ledger, every atomic        *)
(* replace, every lock file and every unlink is a step of its own, and a   *)
(* process may be killed between any two of them.                          *)
(*                                                                         *)
(* commit_transition and begin_authorized_action are write-ahead logged: a *)
(* journal file, then the ledger, then the snapshot (or nothing), then     *)
(* unlink.  The constructor replays every journal it finds, action         *)
(* journals first.  A process re-runs the constructor whenever it builds a *)
(* HeadlessOrchestrator, so replay happens in live processes too.          *)
(*                                                                         *)
(* _atomic_write is one step (temporary file, fsync, os.replace).  What a  *)
(* process reads and writes while it holds a lock file is one step; taking *)
(* the file and unlinking it are steps of their own, and a kill in between *)
(* leaves the file behind: the ledger's, or that of an authorization.      *)
(***************************************************************************)
EXTENDS Naturals, Sequences, FiniteSets

CONSTANTS
    Proc,           \* processes that open the store
    Status,         \* run statuses a transition may lead to
    Action,         \* identifiers of Tier-2 actions, each begun at most once
    Auth,           \* authorization identifiers
    AuthOf,         \* [Action -> Auth], the capability an action presents
    MaxTransitions, \* bound on commit_transition calls
    MaxCrashes,     \* bound on kills
    None,
    Orphan          \* owner of a lock file whose process was killed

ASSUME StoreAssumption ==
    /\ AuthOf \in [Action -> Auth]
    /\ MaxTransitions \in Nat /\ MaxCrashes \in Nat
    /\ None \notin Proc \cup Action \cup Status
    /\ Orphan \notin Proc \cup {None}
    /\ Action \cap Nat = {}

VARIABLES
    \* files
    ledger,         \* events.json
    snap,           \* snapshot.json: [status, id] of the transition it reflects
    tjournal,       \* transactions/transitions/*.json
    ajournal,       \* transactions/actions/*.json
    auth,           \* authorizations/*.json
    lock,           \* events.lock: its owner, None when there is no file
    alock,          \* authorizations/*.lock, likewise
    \* processes
    pc,             \* [Proc -> control point]
    opening,        \* [Proc -> BOOLEAN], inside the constructor
    job,            \* [Proc -> the event its call appends and the head it was chained to]
    todo,           \* [Proc -> the journals its glob listed]
    owner,          \* [Action -> the live process that began it, or None]
    \* history
    issued,         \* number of commit_transition calls so far
    crashes,        \* number of kills so far
    raised          \* kinds of exceptions raised so far

files == <<ledger, snap, tjournal, ajournal, auth, lock, alock>>
procs == <<pc, opening, job, todo, owner>>
vars == <<files, procs, issued, crashes, raised>>

-----------------------------------------------------------------------------
Transition(n, s) == [type |-> "STATE_TRANSITION", id |-> n, to |-> s]
Started(a) == [type |-> "ACTION_STARTED", id |-> a]
End(type, a) == [type |-> type, id |-> a]
Grant(x) == [type |-> "AUTHORIZATION", id |-> x]

Has(type, id) == \E i \in DOMAIN ledger : ledger[i].type = type /\ ledger[i].id = id
Count(type, id) ==
    Cardinality({i \in DOMAIN ledger : ledger[i].type = type /\ ledger[i].id = id})
Ended(a) == Has("ACTION_COMPLETED", a) \/ Has("ACTION_FAILED", a)

(* unfinished_actions: started and without a terminal event. *)
Unfinished(a) == Has("ACTION_STARTED", a) /\ ~Ended(a)

(* The ledger head an event is chained to: len(events) + 1 and the hash of *)
(* the last event, which is taken to identify that event.                  *)
LedgerHead == [seq |-> Len(ledger) + 1,
         prev |-> IF ledger = <<>> THEN None ELSE ledger[Len(ledger)]]

TransitionIndexes == {i \in DOMAIN ledger : ledger[i].type = "STATE_TRANSITION"}
LastTransition ==
    CHOOSE i \in TransitionIndexes : \A j \in TransitionIndexes : j =< i

(* The last transition's to_state agrees with status; vacuous without one. *)
AgreesWithLedger(status) ==
    TransitionIndexes # {} => ledger[LastTransition].to = status

Goto(p, label) == pc' = [pc EXCEPT ![p] = label]

(* Where a finished or failed call returns to: the constructor goes on     *)
(* with the next journal, a live call returns to its caller.               *)
Return(p, label) == Goto(p, IF opening[p] THEN label ELSE "ready")

(* An exception: it escapes the constructor, or reaches the caller. *)
Raise(p, kind) ==
    /\ Goto(p, IF opening[p] THEN "down" ELSE "ready")
    /\ opening' = [opening EXCEPT ![p] = FALSE]
    /\ raised' = raised \cup {kind}
    /\ UNCHANGED <<job, todo, owner, issued, crashes>>

Init ==
    /\ ledger = <<>>
    /\ snap = [status |-> "CREATED", id |-> 0]
    /\ tjournal = {} /\ ajournal = {}
    /\ auth = [x \in Auth |-> [status |-> "NONE", by |-> None]]
    /\ lock = None /\ alock = [x \in Auth |-> None]
    /\ pc = [p \in Proc |-> "down"]
    /\ opening = [p \in Proc |-> FALSE]
    /\ job = [p \in Proc |-> None]
    /\ todo = [p \in Proc |-> {}]
    /\ owner = [a \in Action |-> None]
    /\ issued = 0 /\ crashes = 0 /\ raised = {}

-----------------------------------------------------------------------------
(* The constructor: list the action journals and finish each, then the     *)
(* transition journals.  The listing is taken once; a journal another      *)
(* process has finished meanwhile is gone when it is read.                 *)

Open(p) ==
    /\ pc[p] \in {"down", "ready"}
    /\ Goto(p, "scan_actions")
    /\ opening' = [opening EXCEPT ![p] = TRUE]
    /\ todo' = [todo EXCEPT ![p] = ajournal]
    /\ UNCHANGED <<files, job, owner, issued, crashes, raised>>

RecoverAction(p) ==
    /\ pc[p] = "scan_actions"
    /\ \E a \in todo[p] :
        IF a \in ajournal
        THEN /\ job' = [job EXCEPT ![p] = [event |-> Started(a), head |-> None]]
             /\ todo' = [todo EXCEPT ![p] = @ \ {a}]
             /\ Goto(p, "authorize")
             /\ UNCHANGED <<files, opening, owner, issued, crashes, raised>>
        ELSE Raise(p, "missing_journal") /\ UNCHANGED files

(* Seeded fault: the constructor replays action journals only. *)
FaultRecoverTransitions(p) ==
    /\ pc[p] = "scan_actions"
    /\ todo[p] = {}
    /\ Goto(p, "scan_transitions")
    /\ UNCHANGED <<files, opening, job, todo, owner, issued, crashes, raised>>

RecoverTransitions(p) ==
    /\ pc[p] = "scan_actions"
    /\ todo[p] = {}
    /\ todo' = [todo EXCEPT ![p] = tjournal]
    /\ Goto(p, "scan_transitions")
    /\ UNCHANGED <<files, opening, job, owner, issued, crashes, raised>>

RecoverTransition(p) ==
    /\ pc[p] = "scan_transitions"
    /\ \E j \in todo[p] :
        IF j \in tjournal
        THEN /\ job' = [job EXCEPT ![p] = j]
             /\ todo' = [todo EXCEPT ![p] = @ \ {j}]
             /\ Goto(p, "match")
             /\ UNCHANGED <<files, opening, owner, issued, crashes, raised>>
        ELSE Raise(p, "missing_journal") /\ UNCHANGED files

Opened(p) ==
    /\ pc[p] = "scan_transitions"
    /\ todo[p] = {}
    /\ Goto(p, "ready")
    /\ opening' = [opening EXCEPT ![p] = FALSE]
    /\ UNCHANGED <<files, job, todo, owner, issued, crashes, raised>>

-----------------------------------------------------------------------------
(* commit_transition.  The caller chains the event to the ledger head it   *)
(* reads, the journal is written, and the journal is finished.             *)

ChainTransition(p, s) ==
    /\ pc[p] = "ready"
    /\ issued < MaxTransitions
    /\ issued' = issued + 1
    /\ job' = [job EXCEPT ![p] = [event |-> Transition(issued + 1, s), head |-> LedgerHead]]
    /\ Goto(p, "journal")
    /\ UNCHANGED <<files, opening, todo, owner, crashes, raised>>

WriteTransitionJournal(p) ==
    /\ pc[p] = "journal"
    /\ tjournal' = tjournal \cup {job[p]}
    /\ Goto(p, "match")
    /\ UNCHANGED <<ledger, snap, ajournal, auth, lock, alock>>
    /\ UNCHANGED <<opening, job, todo, owner, issued, crashes, raised>>

(* Seeded faults: replay takes a journalled event that is in the ledger    *)
(* for finished and drops the journal; replay appends it regardless.       *)
FaultMatchIsDone(p) ==
    /\ pc[p] = "match"
    /\ Goto(p, IF Has("STATE_TRANSITION", job[p].event.id) THEN "unlink_transition" ELSE "lock")
    /\ UNCHANGED <<files, opening, job, todo, owner, issued, crashes, raised>>
FaultMatchNever(p) ==
    /\ pc[p] = "match"
    /\ Goto(p, "lock")
    /\ UNCHANGED <<files, opening, job, todo, owner, issued, crashes, raised>>

(* _finish_transition_transaction: append unless the ledger has the event. *)
MatchTransition(p) ==
    /\ pc[p] = "match"
    /\ Goto(p, IF Has("STATE_TRANSITION", job[p].event.id) THEN "check" ELSE "lock")
    /\ UNCHANGED <<files, opening, job, todo, owner, issued, crashes, raised>>

(* save_snapshot compares with the ledger, then replaces the file.  It     *)
(* also refuses a pending decision that is not persisted; that file is     *)
(* written before the transition is committed (Orchestrator, Pause).       *)
CheckSnapshot(p) ==
    /\ pc[p] = "check"
    /\ IF AgreesWithLedger(job[p].event.to)
       THEN /\ Goto(p, "save")
            /\ UNCHANGED <<opening, job, todo, owner, issued, crashes, raised>>
       ELSE Raise(p, "inconsistent")
    /\ UNCHANGED files

SaveSnapshot(p) ==
    /\ pc[p] = "save"
    /\ snap' = [status |-> job[p].event.to, id |-> job[p].event.id]
    /\ Goto(p, "unlink_transition")
    /\ UNCHANGED <<ledger, tjournal, ajournal, auth, lock, alock>>
    /\ UNCHANGED <<opening, job, todo, owner, issued, crashes, raised>>

UnlinkTransition(p) ==
    /\ pc[p] = "unlink_transition"
    /\ tjournal' = tjournal \ {job[p]}
    /\ Return(p, "scan_transitions")
    /\ UNCHANGED <<ledger, snap, ajournal, auth, lock, alock>>
    /\ UNCHANGED <<opening, job, todo, owner, issued, crashes, raised>>

-----------------------------------------------------------------------------
(* append_event, under the ledger's lock file.                             *)

AcquireLock(p) ==
    /\ pc[p] = "lock"
    /\ lock = None
    /\ lock' = p
    /\ Goto(p, "append")
    /\ UNCHANGED <<ledger, snap, tjournal, ajournal, auth, alock>>
    /\ UNCHANGED <<opening, job, todo, owner, issued, crashes, raised>>

(* 500 attempts found the file present. *)
LockTimeout(p) ==
    /\ pc[p] = "lock"
    /\ lock # None
    /\ Raise(p, "timeout")
    /\ UNCHANGED files

(* The event extends the ledger: its sequence number and previous hash are *)
(* the head's, and an end follows its start.                               *)
Appendable(j) ==
    /\ j.head = LedgerHead
    /\ j.event.type \in {"ACTION_COMPLETED", "ACTION_FAILED"} =>
          Has("ACTION_STARTED", j.event.id)

(* Seeded fault: the ledger is rewritten from the copy the event was       *)
(* chained to, without comparing it with the file under the lock.          *)
FaultAppendStale(p) ==
    /\ pc[p] = "append"
    /\ ledger' = Append(SubSeq(ledger, 1, job[p].head.seq - 1), job[p].event)
    /\ Goto(p, "unlock")
    /\ UNCHANGED <<snap, tjournal, ajournal, auth, lock, alock>>
    /\ UNCHANGED <<opening, job, todo, owner, issued, crashes, raised>>

AppendEvent(p) ==
    /\ pc[p] = "append"
    /\ Appendable(job[p])
    /\ ledger' = Append(ledger, job[p].event)
    /\ Goto(p, "unlock")
    /\ UNCHANGED <<snap, tjournal, ajournal, auth, lock, alock>>
    /\ UNCHANGED <<opening, job, todo, owner, issued, crashes, raised>>

RefuseEvent(p) ==
    /\ pc[p] = "append"
    /\ ~Appendable(job[p])
    /\ lock' = None
    /\ Raise(p, "inconsistent")
    /\ UNCHANGED <<ledger, snap, tjournal, ajournal, auth, alock>>

ReleaseLock(p) ==
    /\ pc[p] = "unlock"
    /\ lock' = None
    /\ CASE job[p].event.type = "STATE_TRANSITION" -> Goto(p, "check")
         [] job[p].event.type = "ACTION_STARTED" -> Goto(p, "unlink_action")
         [] OTHER -> Goto(p, "ready")
    /\ UNCHANGED <<ledger, snap, tjournal, ajournal, auth, alock>>
    /\ UNCHANGED <<opening, job, todo, owner, issued, crashes, raised>>

-----------------------------------------------------------------------------
(* Authorizations and begin_authorized_action.                             *)

(* The authorization that a call saves, consumes or voids. *)
Capability(p) ==
    IF job[p].event.type = "AUTHORIZATION" THEN job[p].event.id ELSE AuthOf[job[p].event.id]

(* save, consume and void take the authorization's lock file, which they   *)
(* hold while they check the authorization and replace its file.           *)
AcquireCapability(p) ==
    /\ pc[p] \in {"issue", "consume", "void"}
    /\ alock[Capability(p)] = None
    /\ alock' = [alock EXCEPT ![Capability(p)] = p]
    /\ Goto(p, CASE pc[p] = "issue" -> "issuing"
                 [] pc[p] = "consume" -> "consuming"
                 [] pc[p] = "void" -> "voiding")
    /\ UNCHANGED <<ledger, snap, tjournal, ajournal, auth, lock>>
    /\ UNCHANGED <<opening, job, todo, owner, issued, crashes, raised>>

(* 500 attempts found the file present.  This is no AuthorityError: a      *)
(* begin leaves its journal.                                               *)
CapabilityTimeout(p) ==
    /\ pc[p] \in {"issue", "consume", "void"}
    /\ alock[Capability(p)] # None
    /\ Raise(p, "timeout")
    /\ UNCHANGED files

ReleaseCapability(p) ==
    /\ pc[p] \in {"issued", "consumed", "voided"}
    /\ alock' = [alock EXCEPT ![Capability(p)] = None]
    /\ Goto(p, CASE pc[p] = "issued" -> "ready"
                 [] pc[p] = "consumed" -> "starts"
                 [] pc[p] = "voided" -> "chain")
    /\ UNCHANGED <<ledger, snap, tjournal, ajournal, auth, lock>>
    /\ UNCHANGED <<opening, job, todo, owner, issued, crashes, raised>>

(* save: an authorization file is written once. *)
Issue(p, x) ==
    /\ pc[p] = "ready"
    /\ auth[x].status = "NONE"
    /\ job' = [job EXCEPT ![p] = [event |-> Grant(x), head |-> None]]
    /\ Goto(p, "issue")
    /\ UNCHANGED <<files, opening, todo, owner, issued, crashes, raised>>

SaveAuthorization(p) ==
    /\ pc[p] = "issuing"
    /\ auth[Capability(p)].status = "NONE"
    /\ auth' = [auth EXCEPT ![Capability(p)].status = "ISSUED"]
    /\ Goto(p, "issued")
    /\ UNCHANGED <<ledger, snap, tjournal, ajournal, lock, alock>>
    /\ UNCHANGED <<opening, job, todo, owner, issued, crashes, raised>>

RefuseAuthorization(p) ==
    /\ pc[p] = "issuing"
    /\ auth[Capability(p)].status # "NONE"
    /\ alock' = [alock EXCEPT ![Capability(p)] = None]
    /\ Raise(p, "authority")
    /\ UNCHANGED <<ledger, snap, tjournal, ajournal, auth, lock>>

(* An action is begun once, with a fresh identifier. *)
Fresh(a) ==
    /\ owner[a] = None /\ a \notin ajournal
    /\ ~Has("ACTION_STARTED", a)
    /\ \A x \in Auth : auth[x].by # a

WriteActionJournal(p, a) ==
    /\ pc[p] = "ready"
    /\ Fresh(a)
    /\ auth[AuthOf[a]].status # "NONE"
    /\ ajournal' = ajournal \cup {a}
    /\ job' = [job EXCEPT ![p] = [event |-> Started(a), head |-> None]]
    /\ owner' = [owner EXCEPT ![a] = p]
    /\ Goto(p, "authorize")
    /\ UNCHANGED <<ledger, snap, tjournal, auth, lock, alock>>
    /\ UNCHANGED <<opening, todo, issued, crashes, raised>>

(* Seeded fault: an authorization consumed by any action is accepted. *)
FaultAuthorized(p) ==
    LET x == AuthOf[job[p].event.id] IN
    /\ pc[p] = "authorize"
    /\ \/ auth[x].status = "ISSUED" /\ Goto(p, "consume")
       \/ auth[x].status = "CONSUMED" /\ Goto(p, "starts")
    /\ UNCHANGED <<files, opening, job, todo, owner, issued, crashes, raised>>

(* _finish_action_transaction: the authorization must be ISSUED, or        *)
(* already CONSUMED by this very action.                                   *)
Authorized(p) ==
    LET x == AuthOf[job[p].event.id] IN
    /\ pc[p] = "authorize"
    /\ \/ auth[x].status = "ISSUED" /\ Goto(p, "consume")
       \/ /\ auth[x] = [status |-> "CONSUMED", by |-> job[p].event.id]
          /\ Goto(p, "starts")
    /\ UNCHANGED <<files, opening, job, todo, owner, issued, crashes, raised>>

(* AuthorityError: a live begin drops its journal before it re-raises. *)
Unauthorized(p) ==
    LET x == AuthOf[job[p].event.id] IN
    /\ \/ /\ pc[p] = "authorize"
          /\ auth[x].status # "ISSUED"
          /\ auth[x] # [status |-> "CONSUMED", by |-> job[p].event.id]
       \/ pc[p] = "refused"
    /\ ajournal' = IF opening[p] THEN ajournal ELSE ajournal \ {job[p].event.id}
    /\ Raise(p, "authority")
    /\ UNCHANGED <<ledger, snap, tjournal, auth, lock, alock>>

(* Seeded fault: the consuming action is not recorded. *)
FaultConsume(p) ==
    LET a == job[p].event.id IN
    /\ pc[p] = "consuming"
    /\ auth[AuthOf[a]].status = "ISSUED"
    /\ auth' = [auth EXCEPT ![AuthOf[a]].status = "CONSUMED"]
    /\ Goto(p, "consumed")
    /\ UNCHANGED <<ledger, snap, tjournal, ajournal, lock, alock>>
    /\ UNCHANGED <<opening, job, todo, owner, issued, crashes, raised>>

(* consume: the authorization is read again under its lock. *)
Consume(p) ==
    LET a == job[p].event.id IN
    /\ pc[p] = "consuming"
    /\ auth[AuthOf[a]].status = "ISSUED"
    /\ auth' = [auth EXCEPT ![AuthOf[a]] = [status |-> "CONSUMED", by |-> a]]
    /\ Goto(p, "consumed")
    /\ UNCHANGED <<ledger, snap, tjournal, ajournal, lock, alock>>
    /\ UNCHANGED <<opening, job, todo, owner, issued, crashes, raised>>

RefuseConsume(p) ==
    /\ pc[p] = "consuming"
    /\ auth[Capability(p)].status # "ISSUED"
    /\ alock' = [alock EXCEPT ![Capability(p)] = None]
    /\ Goto(p, "refused")
    /\ UNCHANGED <<ledger, snap, tjournal, ajournal, auth, lock>>
    /\ UNCHANGED <<opening, job, todo, owner, issued, crashes, raised>>

(* Seeded fault: replay starts the action without looking for its start. *)
FaultFindStart(p) ==
    /\ pc[p] = "starts"
    /\ Goto(p, "chain")
    /\ UNCHANGED <<files, opening, job, todo, owner, issued, crashes, raised>>

(* Look for the start in the ledger; two of them are refused. *)
FindStart(p) ==
    LET n == Count("ACTION_STARTED", job[p].event.id) IN
    /\ pc[p] = "starts"
    /\ IF n > 1
       THEN Raise(p, "duplicate_start")
       ELSE /\ Goto(p, IF n = 1 THEN "unlink_action" ELSE "chain")
            /\ UNCHANGED <<opening, job, todo, owner, issued, crashes, raised>>
    /\ UNCHANGED files

(* append_action_started, _append_completed and _append_failed read the    *)
(* ledger again to chain their event.                                      *)
ChainActionEvent(p) ==
    /\ pc[p] = "chain"
    /\ job' = [job EXCEPT ![p].head = LedgerHead]
    /\ Goto(p, "lock")
    /\ UNCHANGED <<files, opening, todo, owner, issued, crashes, raised>>

UnlinkAction(p) ==
    /\ pc[p] = "unlink_action"
    /\ ajournal' = ajournal \ {job[p].event.id}
    /\ Return(p, "scan_actions")
    /\ UNCHANGED <<ledger, snap, tjournal, auth, lock, alock>>
    /\ UNCHANGED <<opening, job, todo, owner, issued, crashes, raised>>

-----------------------------------------------------------------------------
(* The end of an action, by the process that began it or, once that        *)
(* process is gone, by whichever recovers the run.  A failure voids the    *)
(* authorization before its event (_fail_action); a voided action is never *)
(* completed, because its output was quarantined first.                    *)

Closable(p, a) == Unfinished(a) /\ a \notin ajournal /\ owner[a] \in {p, None}

CompleteAction(p, a) ==
    /\ pc[p] = "ready"
    /\ Closable(p, a)
    /\ auth[AuthOf[a]].status # "VOID"
    /\ job' = [job EXCEPT ![p] = [event |-> End("ACTION_COMPLETED", a), head |-> None]]
    /\ Goto(p, "chain")
    /\ UNCHANGED <<files, opening, todo, owner, issued, crashes, raised>>

(* Seeded fault: the failure leaves the authorization consumed. *)
FaultFailAction(p, a) ==
    /\ pc[p] = "ready"
    /\ Closable(p, a)
    /\ job' = [job EXCEPT ![p] = [event |-> End("ACTION_FAILED", a), head |-> None]]
    /\ Goto(p, "chain")
    /\ UNCHANGED <<files, opening, todo, owner, issued, crashes, raised>>

(* _fail_action: void, then go on to append ACTION_FAILED. *)
FailAction(p, a) ==
    /\ pc[p] = "ready"
    /\ Closable(p, a)
    /\ job' = [job EXCEPT ![p] = [event |-> End("ACTION_FAILED", a), head |-> None]]
    /\ Goto(p, "void")
    /\ UNCHANGED <<files, opening, todo, owner, issued, crashes, raised>>

(* void: whatever the status; a voided authorization stays as it is. *)
Void(p) ==
    /\ pc[p] = "voiding"
    /\ auth' = [auth EXCEPT ![Capability(p)].status = "VOID"]
    /\ Goto(p, "voided")
    /\ UNCHANGED <<ledger, snap, tjournal, ajournal, lock, alock>>
    /\ UNCHANGED <<opening, job, todo, owner, issued, crashes, raised>>

-----------------------------------------------------------------------------
(* A kill: memory is lost, files stay, the lock files it holds stay too.   *)
Crash(p) ==
    /\ pc[p] # "down"
    /\ crashes < MaxCrashes
    /\ crashes' = crashes + 1
    /\ Goto(p, "down")
    /\ opening' = [opening EXCEPT ![p] = FALSE]
    /\ job' = [job EXCEPT ![p] = None]
    /\ todo' = [todo EXCEPT ![p] = {}]
    /\ owner' = [a \in Action |-> IF owner[a] = p THEN None ELSE owner[a]]
    /\ lock' = IF lock = p THEN Orphan ELSE lock
    /\ alock' = [x \in Auth |-> IF alock[x] = p THEN Orphan ELSE alock[x]]
    /\ UNCHANGED <<ledger, snap, tjournal, ajournal, auth, issued, raised>>

Recovery(p) ==
    \/ Open(p) \/ RecoverAction(p) \/ RecoverTransitions(p)
    \/ RecoverTransition(p) \/ Opened(p)

(* The steps of save and void, and those of consume but the change itself. *)
CapabilityStep(p) ==
    \/ AcquireCapability(p) \/ CapabilityTimeout(p) \/ ReleaseCapability(p)
    \/ SaveAuthorization(p) \/ RefuseAuthorization(p)
    \/ RefuseConsume(p) \/ Void(p)

(* Steps a process takes inside a call without waiting for anyone. *)
Continue(p) ==
    \/ WriteTransitionJournal(p) \/ MatchTransition(p) \/ CheckSnapshot(p)
    \/ SaveSnapshot(p) \/ UnlinkTransition(p)
    \/ AcquireLock(p) \/ LockTimeout(p) \/ AppendEvent(p) \/ RefuseEvent(p)
    \/ ReleaseLock(p)
    \/ Authorized(p) \/ Unauthorized(p) \/ Consume(p) \/ FindStart(p)
    \/ ChainActionEvent(p) \/ UnlinkAction(p) \/ CapabilityStep(p)

Call(p) ==
    \/ \E s \in Status : ChainTransition(p, s)
    \/ \E x \in Auth : Issue(p, x)
    \/ \E a \in Action : WriteActionJournal(p, a) \/ CompleteAction(p, a) \/ FailAction(p, a)

Next == \E p \in Proc : Recovery(p) \/ Continue(p) \/ Call(p) \/ Crash(p)

(* A process runs its calls to the end and is restarted after a kill; when *)
(* calls are made is up to the users.                                      *)
Fairness == \A p \in Proc : WF_vars(Recovery(p)) /\ WF_vars(Continue(p))

Spec == Init /\ [][Next]_vars /\ Fairness

-----------------------------------------------------------------------------
(* Properties *)

(* Replaying journals is idempotent: however often recovery is interrupted *)
(* and repeated, a transition is in the ledger at most once and an action  *)
(* starts at most once and ends at most once, after it started.            *)
LedgerSound ==
    /\ \A n \in 1..MaxTransitions : Count("STATE_TRANSITION", n) =< 1
    /\ \A a \in Action :
          /\ Count("ACTION_STARTED", a) =< 1
          /\ Count("ACTION_COMPLETED", a) + Count("ACTION_FAILED", a) =< 1
          /\ \A i \in DOMAIN ledger :
                ledger[i].type \in {"ACTION_COMPLETED", "ACTION_FAILED"} =>
                  \E j \in 1..(i - 1) : ledger[j] = Started(ledger[i].id)

(* Consume and start are one transaction: a start in the ledger is paid by *)
(* an authorization spent on exactly that action, and an authorization     *)
(* spent without a start still has the journal that will produce it.       *)
StartIsPaid ==
    \A a \in Action :
        /\ Has("ACTION_STARTED", a) =>
              /\ auth[AuthOf[a]].by = a
              /\ auth[AuthOf[a]].status \in {"CONSUMED", "VOID"}
        /\ auth[AuthOf[a]].by = a => Has("ACTION_STARTED", a) \/ a \in ajournal

(* Outside a commit the snapshot is the one of the ledger's last           *)
(* transition, so load_snapshot never refuses it.                          *)
SnapshotCurrent ==
    tjournal = {} =>
      snap.id = IF TransitionIndexes = {} THEN 0 ELSE ledger[LastTransition].id

(* No action is started twice (the condition _finish_action_transaction    *)
(* reports as "action has duplicate start events").                        *)
NoDuplicateStart == \A a \in Action : Count("ACTION_STARTED", a) =< 1

(* However many processes replay, retry and race, an authorization starts  *)
(* at most one action, and a transition is committed at most once.         *)
SingleUse ==
    /\ \A a, b \in Action :
          Has("ACTION_STARTED", a) /\ Has("ACTION_STARTED", b) /\ AuthOf[a] = AuthOf[b]
            => a = b
    /\ \A n \in 1..MaxTransitions : Count("STATE_TRANSITION", n) =< 1

(* The only exception a lone process ever meets is the time-out on a lock  *)
(* file that a kill left behind: recovery never refuses its own journals.  *)
OnlyTimeouts == raised \subseteq {"timeout"}

(* The ledger is append-only: no step rewrites or drops an event. *)
LedgerAppendOnly ==
    [][ /\ Len(ledger') >= Len(ledger)
        /\ SubSeq(ledger', 1, Len(ledger)) = ledger ]_ledger

(* A kill left the lock file of an authorization that an action has still  *)
(* to consume: every replay of the action's journal times out on it.       *)
Blocked(a) == alock[AuthOf[a]] = Orphan /\ auth[AuthOf[a]].status = "ISSUED"

(* A journal is eventually finished, unless a kill left the ledger's lock  *)
(* file behind or that of an authorization which a journalled action has   *)
(* not yet consumed.                                                       *)
JournalsDrain ==
    (tjournal # {} \/ ajournal # {})
      ~> \/ tjournal = {} /\ ajournal = {}
         \/ lock = Orphan
         \/ \E a \in ajournal : Blocked(a)

(* The store implements AtomicStore: an authorization counts as consumed   *)
(* once its start is in the ledger, and the snapshot is the ledger's while *)
(* a journal is pending.                                                   *)
Atomic == INSTANCE AtomicStore WITH
    current <- IF tjournal # {} /\ TransitionIndexes # {}
               THEN ledger[LastTransition].id ELSE snap.id,
    auth <- [x \in Auth |->
               IF auth[x].status = "CONSUMED" /\ ~Has("ACTION_STARTED", auth[x].by)
               THEN [status |-> "ISSUED", by |-> None] ELSE auth[x]]

(* Every step of the store is a step, or no step, of the atomic store. *)
ImplementsAtomicStore == Atomic!Spec
=============================================================================
