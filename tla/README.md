# A verification development of AIRCheck

AIRCheck takes a package of media files and a delivery specification, measures
the files against the requirements it admits from the specification, repairs
what a small catalogue of tools may repair, asks a human before anything that
alters the audio, and ends with a verdict and evidence for it. What a language
model recommends is never trusted: typed guards, an authority
engine and a durable event ledger decide.

This directory holds TLA+ modules of the parts that decide, TLC configurations
that check them on small instances, and TLAPS proofs about the state machine,
the durable store, the runtime and its executor, the lease, decisions over the
S3 mirror, a run from prose to verdict and the views of it, the two gates of
authority and the diagnosis seam.
Paths below are relative to the repository.

## 1. The system

### Components

| Component | Code | State | Operations | Calls, and is called by |
|---|---|---|---|---|
| Run state machine | `aircheck/domain/state_machine.py` | none; `RunStateSnapshot` is a value | `transition`, `_guard` | by the orchestrator for every transition |
| Durable store | `aircheck/persistence/store.py` | per run: `events.json` (ledger), `snapshot.json`, `runtime.json`, `decisions/`, `authorizations/`, two kinds of journal, lock files | `commit_transition`, `begin_authorized_action`, `append_event`, `save_snapshot`, `consume`, `void`, replay in `__init__` | by the orchestrator, the executor, and the constructor of every one of them |
| Runtime orchestrator | `aircheck/runtime/orchestrator.py` | none of its own between calls | `start`, `advance`, `resolve_decision` | calls everything below; by the service |
| Remediation executor | `aircheck/runtime/remediation.py` | files in the run's workspace | `execute`, `recover` | by the orchestrator |
| Authority policy | `aircheck/authority/policy.py` | authorizations and decision requests, in the store | `AuthorityEngine.evaluate`, `create_decision_request`, `approve_decision`, `deny_decision`, `ActionExecutor.begin` | by the orchestrator and the executor |
| Terminal evaluation | `aircheck/domain/terminal.py` | none | `compute`, `evaluate_predicate` | by the orchestrator |
| Diagnosis seam | `aircheck/agent/diagnosis.py`, `agentcore_model.py`, `apps/api/demo_semantics.py` | none | exposure of options, validation, the adapter and its fallback | by `advance` |
| Requirement admission | `aircheck/agent/interpretation.py`, `domain/admission.py`, `constraints.py`, `source.py`, `catalog.py` | none | `interpret_specification`, `admit`, `normalize_constraint`, `mark_contradictions` | by `start` |
| QC planning | `aircheck/agent/planning.py`, `domain/planning.py` | none | `derive_required_checks`, `validate_plan`, `deterministic_fallback_plan` | by `start` |
| Media inspection | `aircheck/media/inspection.py`, `tools/contracts.py` | none | five read-only tools over the current files | by `_inspect` |
| Mutation lease | `aircheck/persistence/s3_lock.py` | one S3 object per run | `hold`, `_acquire`, `_release` | by the service |
| S3 mirror | `aircheck/persistence/s3_store.py` | the bucket, and a cache directory per container | `sync_down`, `sync_up` | by the service |
| API service | `apps/api/service.py`, `main.py` | the store's root, the mirror | `create_run`, `submit_decision`, `sync_index`, read projections | by HTTP handlers |
| Web, deployment, corpora, spikes | `apps/web`, `deploy`, `evals`, `synthetic`, `scripts`, `spikes` | none the runtime depends on | | |

### How they interact

One HTTP request makes one call of the orchestrator, which makes a sequence of
small durable writes: a file is replaced atomically, or created exclusively, or
removed. Nothing stays in memory between calls: a container, or a process,
that comes later reads the files. Two of the store's operations span several
files and are logged ahead in a journal that any constructor replays. In the
cloud, a run's files are first copied from S3, then changed under a lease on
the run, then copied back.

Within a call, data flows one way: prose to candidates (a model), candidates to
requirements (admission), requirements to checks and a plan (a model, and the
runtime when it fails), a plan to facts about files, facts to predicates, open
predicates to findings with remedies, findings to a diagnosis (a model), and
that to actions and the next inspection. Several rules exist twice, written
apart: the adapter's and the runtime's validation of a diagnosis, the hook's
and the executor's check of a call, the terminal evaluation's and the API's
reading of predicates.

### What is hard

* **Kills between two writes.** Every call is a sequence of writes, and
  recovery is a different piece of code that must work from whichever prefix
  was made: `_finish_transition_transaction`, `_finish_action_transaction`,
  `RemediationExecutor.recover`, `_evidence_complete`,
  `_reconcile_remediation_counts`.
* **Processes that replay each other.** The store replays journals in its
  constructor without knowing whether their writer is alive, and locks cover an
  append, not a transaction.
* **Values read early and used late.** The ledger head in `_transition`, the
  remote index in `sync_up`, the decision looked at before the lease, the
  verdict computed over an earlier inspection.
* **Untrusted answers.** Three questions go to a language model. Whatever it
  answers must be harmless, and must not make the runtime raise.
* **Rules written twice.** Where two copies differ, what one lets pass the
  other refuses half way.
* **Remedies that interfere.** A remedy changes the package the others were
  computed for, and may break what had passed.
* **Limits.** Three remediation cycles, two attempts per requirement, one
  capability per decision, one execution per option.
* **Time.** A lease that ends while its holder works; a lock file whose owner
  is gone.

### What makes each component correct

* State machine: a run pauses exactly while it names a decision; an ended run
  stays ended; a verdict belongs to the run and cycle it ends; cycles count one
  by one to the limit.
* Store: journaled operations are atomic through kills and replays; no process
  makes the ledger lose an event; an authorization starts one action; the
  snapshot is that of the ledger.
* Orchestrator and executor: they take only the state machine's steps; ledger,
  record and files agree about every action; nothing is delivered that was not
  inspected as it is; evidence describes the final state and always arrives; a
  run settles.
* Admission and planning: the source owns severity, the model only tightens,
  conflicts stay open, what is admitted can be planned, and the plan covers it.
* Inspection and evaluation: what was measured is decided; the verdict is true
  of the package that is delivered.
* Gates and seams: both copies of a rule agree.
* Views: what is shown is what was judged.
* Lease: one valid holder; a live lock is nobody else's to touch.
* Mirror and service: one answer per decision, and the answer stands.

## 2. The modules

| Module | Models | Granularity |
|---|---|---|
| `RunLifecycle` | `state_machine.py` for any number of runs | one accepted `transition` |
| `AtomicStore` | the promise of the store to the runtime | one logical operation |
| `DurableStore` | `LocalDurableStore` for one run, any number of processes | one file operation |
| `Orchestrator` | `start`, `advance`, `resolve_decision`, `execute`, `recover` for one run | one durable write |
| `Catalog` | the measurement catalogue, the tool registry, `evaluate_predicate` | operators |
| `Ordering` | sorted and filtered lists, by counting what comes before | operators |
| `Admission` | segments, spans, severity, applicability, constraints, `admit`, `mark_contradictions` | operators |
| `Planning` | required checks, validation of a plan, the fallback plan | operators |
| `MediaInspection` | the five inspection tools | operators |
| `Diagnosis` | exposure, `diagnose_findings`, the AgentCore adapter, the double | operators |
| `Authority` | `evaluate`, the hook, `begin` | operators |
| `Intake` | a run from prose to first findings and, without remedies, its verdict | one stage of `start` |
| `Remedies` | the rest of the run: diagnosis, remedies, decision, re-inspection, verdict | one whole step of `advance` |
| `Views` | the API's projections of that run | state functions |
| `S3Lease` | `S3RunLease` | one S3 request |
| `CloudDecision` | `submit_decision`, `create_run`, `SyncIndex` over the mirror; extends `S3Lease` | one listing, one download, one file uploaded |
| `OrchestratorInvariant` | the inductive invariant of `Orchestrator` | state functions |
| `OrchestratorActionProofs` | proofs of its layers about types, control, actions, requests and payments | |
| `OrchestratorProofs` | proofs of the other layers; the theorems about a run | |
| `DurableStoreProofs` | the inductive invariants and the theorems about the store | |
| `IntakeProofs`, `RemedyProofs` | theorems about `Intake`, `Remedies`, `Views` and the seams, as one system | |
| other `*Proofs` | theorems about the module they extend | |

`MC*` modules fix constants for TLC. Operators named `Fault*` are wrong versions
of the operator after them, which each say what mistake they stand for; they are
part of no specification. They are there to see that a property fails when the
code is wrong in that way.

The modules are connected in this way:

* `DurableStore` implements `AtomicStore` (property `ImplementsAtomicStore`). In
  the mapping an authorization counts as consumed when the start it pays for is
  in the ledger, and while a transition's journal is pending the snapshot counts
  as the one the ledger's last transition leads to. This is what justifies the
  next point.
* `Orchestrator` takes `commit_transition` and `begin_authorized_action` as one
  step each. It instantiates `RunLifecycle` for its snapshot, uses its guards
  (`SelectionAccepted`, `AuthorizationAccepted`, ...) and its snapshot updates
  (`Paused`, `Resumed`, ...), and is shown to implement it (`ImplementsLifecycle`).
* `Intake` extends `Admission`, `Planning` and `MediaInspection`, which extend
  `Catalog` (and the first two `Ordering`); `Remedies` extends `Intake`, `Diagnosis` and `Authority`; `Views`
  extends `Remedies`, and the run `intake` checks them as one system. This side
  has real data and whole steps, `Orchestrator` has every write and every crash
  and requirements without content. Both go through the same statuses.
* `CloudDecision` extends `S3Lease`, and an `Orchestrator` call is one step of
  it (`Recheck`): under a lease that lasts, one process at a time works on a run.

### Correspondence

**RunLifecycle.** `snapshot[r]` is `RunStateSnapshot`: `options` is
`admissible_options`, `decision` and `pending` are `pending_decision_id` and
`pending_option`. An element of `Option` is one exact binding of finding, option
id and argument hash, so any difference in these makes another option. There is
one action for each guarded kind of edge, `Proceed` for the unguarded ones
(`Unguarded` is computed from the edges as `_guard` tests them), and
`OfferOptions`/`WithdrawOptions` for the two places where the runtime replaces
`admissible_options` without a transition. All payloads are offered, also of
other runs, cycles and decisions; a refused one raises and changes nothing.

**DurableStore.** `ledger`, `snap`, `tjournal`, `ajournal`, `auth`, `lock` and `alock`
(the lock file of each authorization, which `consume` and `void` hold while they read,
decide and write) are the files; `pc`, `job`, `todo` and `opening` are the memory of a process,
whose position is named for what it does next. `opening` distinguishes a replay
in the constructor from a live call, which matters where the code re-raises or
removes the journal. An event's sequence number and previous hash are its
`head`. `Crash` loses the memory and keeps the files, a held lock file of either kind included
(`Orphan`). `save_snapshot` also refuses a pending decision whose request is not persisted
(`store.py:164`); the store's snapshots carry no decision, and in `Orchestrator` the request
is written (`RecordRequest`) before the transition that names it (`Pause`).

**Orchestrator.** `snap`, `run` (`runtime.json`), `ledger` (action events; the
transitions are in `snap`), `decision`, `auth`, `output`, `evidence` are the
files, `call` is the call in progress with the name of the write it makes next.
A finding is a requirement and the cycle that opened it, an option its finding.
Inspection results are an open choice, but for the manifest, where presence and
agreement follow from what was written and what changed after; `Intake` and
`Remedies` have the measurements. `Raises` is an exception that leaves the call: a diagnosis
that binds nothing, a refused selection or refresh, an action whose output `_descriptor`
cannot describe (`Describable`; in `execute` and again in `recover`), a lock file that times
out. `Crash` stands for a kill, and for any other exception nobody handles: both
leave the files as they are. A kill may leave a lock file behind as well, the ledger's or that of the
request or capability in hand (`locked`). `Tamper` is an original replaced from
outside. `abandoned` says that the last request's call was killed or raised and that nobody
has made another since.

**S3Lease.** A lock object's body has a fresh token, which also stands for its
ETag, and the time left. `TryCreate` is the put with `If-None-Match`, `Read` the
read, `TryTakeover` the put with `If-Match`, `Release` the conditional delete.

**Catalog, Admission.** A document is a sequence of pieces: a heading, a blank
line, a stretch of text with the phrases in it that admission looks for. A
segment is a range of pieces, a quote a range within the cited segments. A
canonical value is tagged with its type, as Python's comparison of a bool and a
number, or a rate and a word, depends on it; numbers are thousandths. A
requirement's `id` is what `_requirement_id` hashes, so it collides where the
code's does.

**MediaInspection.** What ffprobe, ffmpeg and a parser say of a file is a field
of the asset, empty when they say nothing usable; the tools turn it into facts,
errors, or an exception, where the fact contract refuses a value.

**Planning, Intake.** `stage` is the status, `raised` says that a call has ended
in an exception. A refusal of the model's answer is one action whatever its
reason (`InterpretationRefused`, `PlanRefused`). `Proposals` is every order of
the required checks, and every way to be wrong in one place. `Inspection` is the
body of `_inspect` and shared by both inspections.

**Diagnosis, Remedies.** A finding's id follows from its requirement, as in the
code within a cycle, and so collides for two assets of one role. `Replies` are a
sensible answer for each combination of options, and answers wrong in one place.
`ApplyTierOne` carries out a batch in the code's order: an action may fail, an
option is bound to the asset of its inspection (`Replaced`), the manifest is
refreshed after the batch. `content` of an asset is the list of what was done to
the file, so two assets have equal bytes when their histories are equal.

**Authority.** A call is the typed input of a tool, an option's hash the fields
it is computed from. `Evaluate` keeps the order of the code's tests.

**Views.** `resolved` keeps the requirements that ever had a resolved finding,
which is all `_requirement_status` reads of old findings. `predicates` are those of
the last inspection: that `_final_predicate` looks for the greatest cycle is not
told apart, nor a resolved finding from an open one of the same requirement.

**CloudDecision.** A copy of a run holds the files every resolution writes: the
request, the record, the ledger, the snapshot, journals. Each says of the
decision that it is absent, awaited, or resolved by the request that holds a
token. `Submit`, `Lease`, `Refresh`, `Recheck`,
`ListRemote`, `Upload`, `Finish` are the steps of `submit_decision`; `Fail` is a
strict sync or an upload that raises; `Die` also loses the container's cache.

## 3. The runs

Runs that pass:

| Run | Instance | Distinct states | Shows |
|---|---|---|---|
| `lifecycle` | 2 runs, 1 decision, 2 options (one of each tier), cycle limit 2 | 12,321 | `PendingCoherent`, `StepDisciplined` under every payload |
| `store` | 1 process, 2 kills, 2 transitions, 2 actions with one authorization each | 1,174,072 | replay is idempotent (`LedgerSound`), consume and start are paired (`StartIsPaid`), the snapshot is never refused (`SnapshotCurrent`, `OnlyTimeouts`), atomicity, `JournalsDrain` |
| `store_shared` | 2 processes, 2 actions that present the same authorization, 1 transition | 2,274,028 | `SingleUse` and `LedgerAppendOnly` under every interleaving of replays, begins and commits |
| `orchestrator` | loudness (Tier 2), captions in a format no tool writes, manifest (Tier 1) and checksums requirements, 3 cycles, 1 kill | 186,078 | `DeliveryVerified`, `PaidOnce`, `AttemptsBounded`, `CountsFromLedger`, `NeverRefusedLate`; `NoDanglingAction`, `EndsMatchOutputs`, `ManifestFollows`, `EvidenceFinal`; `ImplementsLifecycle`; `EvidenceArrives` and `Settles` under fairness |
| `lease` | 3 containers, requests may outlive their leases, 1 kill | 79,425 | `Exclusive`, `LiveLockStands` |
| `decision` | 2 containers, 1 run that one of them creates, 1 kill, any failure, files torn anywhere | 284,341 | `AnswerDurable`, `ResolutionStands` |
| `intake` | 8 sentences, 5 packages, batches of up to 3 of some fifty candidates, 2 attempts, 3 cycles | 92,544 | see below |

`intake` asks eleven questions of one system. Of admission: `SourceOwnsSeverity`,
`ModelOnlyTightens`, `NoOpenConflict`, `AdmittedIsPlannable`. Of planning:
`PlanCovers`. Of inspection and verdict: `MeasuredIsDecided`, `VerdictIsTrue`. Of
the seams: `AdapterAgrees`, `TwoGatesAgree`. Of what is shown: `ShownAsJudged`,
`DecisionShown`.

Runs that find a violation, each of one sentence of the repository (section 5):
`store_replay`, `recovery_commits`, `inspection_ends`, `decision_across`, `stranded`.

### Bounds, and why they are enough

* `lifecycle`: guards compare a payload with one run's snapshot, so a second run
  supplies all foreign payloads; one decision and `None`, an option of each
  tier, and cycles up to one past the limit make every comparison fail and succeed.
  The theorems of section 4 hold without these bounds.
* `store`, `store_shared`: the safety theorems of section 4 hold without these
  bounds, which limit what is shown of `JournalsDrain`. Two kills reach "killed during the replay of what the first kill
  left", from which replay is again at a state one kill reaches; two
  transitions give the chain a middle, two actions one journal each.
  In `store_shared` the race for an authorization needs two contenders; one
  transition is enough for a lost append.
* `Orchestrator`: `MAX_CYCLES` is 3 in the code and in the run, where two
  failed attempts and the refused third fit. The manifest needs two cycles: one
  that writes it, one that makes it stale. `MaxCrashes` is 1: `recover` works
  action by action from what is on disk, and a second abandoned call inside it
  meets the states the first one made. Safety is proved for any number; the bound
  limits what is shown of `EvidenceArrives` and `Settles`. It counts kills: an exception
  (`Raises`) needs no bound. `Unsupported` is the requirement whose option no tool can carry out;
  whether its file's format is one a tool writes is the same in every cycle. Approvals are
  bounded by the number of request files, since a repeated approval issues another
  capability. A kill that leaves the ledger's lock file and a journal makes the constructor
  raise from then on; the model also has calls on such a run, which end at their first append,
  so it has more behaviours than the code and not fewer.
* `lease`: three containers are the holder, the one that takes over and the one
  that comes late. `MaxTokens` bounds acquisitions, `Ttl` of two ticks separates
  valid, about to expire and expired.
* `decision`: two containers and two acquisitions are one answer and one attempt
  after it, also by a container that came back without its cache; what a third
  could do to the lease is proved for every number (section 4).
* `intake`: contradictions and collisions of identity are between two
  candidates, so batches are pairs of those that can meet, singles of the rest,
  and three whole specifications with remedies of every kind. The packages are a
  sound one, one where every measurement fails, one whose facts no contract
  accepts, one without readable media in front, and one with two files of a role.
  Two more batches hold two requirements of one identity, and one candidate cites
  two sentences with a heading between them (section 5).
  The candidates take each branch of `admit`, `normalize_constraint` and
  `_options`; coverage of every disjunct of the next-state relation is part of
  the project's routine. Two attempts are the code's own limit.

`CHECK_DEADLOCK FALSE` is set where the system really stops: a run that has
ended and whose evidence is complete needs no step that changes anything but a
tampered original, and the lease and decision instances stop when the bound on
acquisitions is used up. The store is checked for deadlock: idle processes
always can open the store again.

### Fairness

* `DurableStore`: weak fairness of `Recovery` and `Continue`, of each process: a
  process is restarted and its calls, which wait for nothing but the lock with a
  time-out, run on. Which calls are made is up to the users, so `Call` has none.
* `Orchestrator`: weak fairness of `Select \/ Raises \/ Work` (a call in progress runs on, to its
  end or to an exception), and of `Serves`: the loops of `create_run` and `submit_decision`
  (`service.py:651`, `1278`), which call `advance` until the run has ended or waits. They are the
  only callers, and each is inside one request: when a call is killed or raises, the request is
  over, and no route resumes the run (`submit_decision` refuses one that does not wait,
  `1240`). So nothing is assumed of a run that is `abandoned`, and `EvidenceArrives` and
  `Settles` promise nothing of it. A later call by others, such as a test or an evaluation, may
  come at any time; it makes a new promise. Humans need not answer: `Approve` and `Deny`
  have no fairness, and waiting for a human counts as settled.

Nothing is assumed about `Crash`, other than its bound.

## 4. What is proved

`RunLifecycleProofs`, for every set of runs, decisions and options, every tier
assignment and every cycle limit:

* `TypeCorrect`: `Spec => []TypeOK`.
* `LifecycleSafe`: `Spec => [](PendingCoherent /\ VerdictEarned /\ CycleBounded)`.
  `VerdictEarned`, `CycleBounded` and the type are proved and no longer run.
* `StepsDisciplined`: `Spec => StepDisciplined`, an action property.

The assumptions are `LifecycleAssumption` and `NoVerdictAssumption` of
`RunLifecycle`: tiers are 1 or 2, the limit is a natural number, `None` is no
decision, option or verdict. TLC evaluates them in every run.

The inductive invariant `IInv` is the conjunction of the four invariants. None is
inductive alone: that an approval leaves no pending option behind needs to know
that a pending option implies the pause; that a verdict's cycle stays the run's
needs to know that only a terminal run has one, since `Reinspect` changes the
cycle; `CycleBounded` needs the type. The proof goes run by run: `SnapshotOK(r, s)`
is the part of `IInv` about one snapshot, `PerRun` says the parts make the whole,
`OneRunStep` that a step replacing one snapshot by a good one keeps it, and
`NextInv` has one step per action that ends in `OneRunStep`. `StepsDisciplined`
uses the invariant for terminal runs: no edge leaves a terminal status, and a
verdict is written only on an edge from `FINDINGS_READY`.

`DurableStoreProofs`, for every set of statuses, actions and authorizations, and
any number of transitions and kills. Three theorems are about any number of processes,
however they replay, retry and race:

* `UsedOnce`: `Spec => []SingleUse`.
* `AppendOnly`: `Spec => LedgerAppendOnly`, an action property.
* `OperationsEnd`: each step of the constructor's replay and of a call leaves the process
  fewer steps to take (`StepsLeft`), nothing but opening the store or a new call
  gives it more, and `MostSteps` bounds them: thirteen for a listed action, eight for a
  transition. What `JournalsDrain` adds, and only TLC shows, is that the steps are
  taken. The bound needs that there is one journal per transition
  issued (`FewTransitions`, from `Once`), as the constructor lists the transitions when it
  has replayed the actions; that lists are finite (`Listed`) is part of the induction.

The others assume `Alone`: at most one process. This is how the application runs the
store (one call at a time on a run, under the run's lease), and the run `store_replay`
shows why it is needed: two processes start an action twice. Kills are not
excluded by it; the process is restarted as often as it is killed.

* `Sound`: `Spec => []LedgerSound`. `PaidStarts`: `Spec => []StartIsPaid`.
  `Current`: `Spec => []SnapshotCurrent`.
* `TimeoutsOnly`: `Spec => []OnlyTimeouts`, when in addition each action presents an
  authorization of its own (`OwnAuthorizations`), as the runtime does: a second
  action on a spent one is refused, rightly.
* `Implements`: `Spec => ImplementsAtomicStore`.

The assumption on the constants is `StoreAssumption` of `DurableStore`. The
invariant comes in two parts, and each fact in them is one that a process has
established earlier and relies on later:

* `SharedInv`, for any number of processes. `Typed`, and `Employed`: a process is at
  a step its event has, without which nothing can be said of what it writes. `Locked`:
  the ledger's lock file is held by the process that appends, and an authorization's by the
  one that consumes or voids it. `Once`: a transition under way,
  in a journal or in a process's hands, is chained to one place of the ledger, and can
  be appended only there; this is why replays by others do no harm. `Paid`: an
  action that is about to start has found its authorization consumed for it.
* `AloneInv`, for one process. `Journaled` says which journals are on disk and which
  are listed for replay while the process is at a step, `Undone` that the ledger is as
  the process found it when it looked whether its event was already there,
  `Entitled` the same of the authorization it looked at. `Ordered` is the ledger's
  part of `LedgerSound`; `Spent` says that what is consumed has its start or its
  journal; `Latest` relates snapshot, ledger and journal; `Pending` says that one
  journal is there at most and none once the store is open, unless a kill left the ledger's lock file,
  which makes the next commit fail with its journal written, and apart from the
  journals of actions whose authorization's lock file a kill left (`Blocked`), which no
  replay can finish.

  `Undone` is the part that two processes break. `SnapshotCurrent` is not inductive, since
  between the append and the save only the journal says what the snapshot
  will be; `LedgerSound` needs all of the rest.

`AtomicStep` maps every step: each append is the atomic operation, and writing a
journal, saving the snapshot, removing the journal, consuming, and every step of recovery
that does not append change nothing the atomic store shows.

`OrchestratorInvariant`, `OrchestratorActionProofs` and `OrchestratorProofs`, for every
set of requirements, assignment of tools, set of blocking requirements, cycle limit
and number of abandoned calls:

* `Inductive`: `Spec => []IInv`, and from it, of the run `orchestrator`, every safety
  property: `TypesKept` (`TypeOK`), `NothingDangles` (`NoDanglingAction`),
  `EndsTruthful` (`EndsMatchOutputs`), `OncePaid` (`PaidOnce`), `BoundedAttempts`
  (`AttemptsBounded`), `CountsTruthful` (`CountsFromLedger`), `FinalEvidence`
  (`EvidenceFinal`), `VerifiedDelivery` (`DeliveryVerified`), `NeverLate`
  (`NeverRefusedLate`), `FollowedManifest` (`ManifestFollows`).
* `Refinement`: `Spec => ImplementsLifecycle`. Every durable write of the snapshot is a
  step of `RunLifecycle` whose guard accepts it, every other write a stutter. With
  `Implements` the store's operations are single steps, as `Orchestrator` takes them to be.
* `SnapshotKeepsPromises`: so `PendingCoherent`, `VerdictEarned`, `CycleBounded` and
  `StepDisciplined` hold of the snapshot the runtime writes. The theorems of
  `RunLifecycleProofs` are used through an instance of it (`Proved`) with the constants and
  the snapshot of `Orchestrator`, whose assumptions are shown to be met (`MachineAssumed`).
* `CallsEnd`, for finitely many requirements: every write of a call leaves fewer to make
  (`WritesLeft`), and there are six for each of its options and twenty more at most. So
  neither the loop over the options nor the recovery of unfinished actions goes round for
  ever, whatever fails; that writes are made at all is the fairness `Settles` is checked under.

The assumptions are `OrchestratorAssumption` (a finding's tool is one of the catalogue,
the checksum requirement has no remedy of its own, the bounds are natural numbers) and
`NoneAssumption` (Python's `None` is no number, no finding and no verdict).

`IInv` has twenty layers. None of the properties is inductive: they speak of where
calls end, and what makes them true is what the files say in between, at every
place a call may be abandoned. In the order in which they are proved:

* `Typed`; `Placed` (a call is at a write only in the statuses it is reached in),
  `Phased` (what the action in hand belongs to), `Coherent` (a decision is pending
  while the run waits). `NeverRefusedLate` is `Placed` and `Coherent` and, for the cycle
  limit, `Inspected`.
* `Logged`, `OneAtATime`, `Unbegun`, `Filed`: starts and ends pair up, the
  unfinished action is the last one, and the file of each action is where
  its end, or the place of the call, says. Recovery is correct because `Filed` says
  of an unfinished action what was written before the kill.
* `Asked`: request files are numbered in order, and each used a cycle or an abandoned call
  (`Budget`), so the next number always exists. `Requested`, `InHand`, `Paid`:
  whom a request, a capability in hand and a consumed capability belong to. `PaidOnce`
  needs `Asked`, as a repeated approval issues a second capability for the same
  decision, and `InHand`, as only one of them may be consumed.
* `Offered`, `Tried`, `TwoAttempts`: what is selected is offered in this cycle and
  never started; failures of earlier cycles are counted apart from this one's,
  because the offer was made before the action failed.
* `Inspected`, `Counted`, `Reported`: from an inspection to the verdict nothing
  changes the package; counts are reconciled before a verdict; evidence is written
  after the end.
* `Covered`, `Refreshing`: a manifest lists what was completed when it was written,
  and after a completed mutation every way to the next inspection passes a
  refresh, the way through a kill and recovery included.

There is one lemma `...Step` per layer. The layers of `OrchestratorActionProofs` are proved
action by action. The later ones go by what a step writes: the lemmas `...Effects` say
which actions write a file and how, `Arrivals` which step brings a call to a place,
so that a layer's proof looks only at the steps that touch it.

`S3LeaseProofs`, for every set of containers and runs, every time to live, and
whether or not holders outlive their leases (`MayOverrun`):

* `LeaseTypeCorrect`: `LeaseSpec => []LeaseTypeOK`. The run `decision` has it as
  part of its own type.
* `OneValidHolder`: `LeaseSpec => []Exclusive`.
* `LiveLocksStand`: `LeaseSpec => LiveLockStands`, an action property.

The assumption is `LeaseAssumption` of `S3Lease`: the time to live is at least one
tick, the bounds are natural numbers, `None` is neither a run nor a lock body.
`Exclusive` is not inductive. What carries it is `ValidHolds`: the body of a holder whose
lease has not run out is the lock object itself, so two valid holders of a run
have one body and, by `OwnToken`, are one container. A creation keeps this since
there is no lock to displace; a takeover because the ETag it is conditioned on was
read from an expired body, and every copy of that token stays expired
(`SeenExpired`), as a token names one body wherever copies of it are (`OneBody`)
and later bodies have newer tokens (`Issued`). The proof has one lemma per action;
`AcquireInv` is what the two ways to obtain a lock share, `KeptInv` what the
actions share that build no body. `LiveLockStands` follows from the same invariant.

`CloudDecisionProofs` shows that every step of the service is a step of the
lease or leaves its variables alone (`ServiceUsesLease: Spec => LeaseSpec`), so
`ServiceExclusive` and `ServiceLeavesLiveLocks` hold of `submit_decision` and
`create_run` too. Then, for any number of containers, tokens and kills:

* `CloudTypes`: `Spec => []TypeOK`, for any number of runs and whether or not requests
  outlive their leases.
* `OneResolution`, `AnswersStand`, `ResolutionsStand`: for any set of runs `R`,
  `Spec /\ [][Orderly(R)]_vars => []CloudInv(R)`, and from the invariant, for all runs,
  `[]AnswerDurable` and `ResolutionStands`.

`Orderly(R)` is about uploads only: a request file, a record, a snapshot or a journal of a run in
`R` is uploaded by the container that has the run's lease, before that has run out, or is
one S3 lacks, as `create_run` writes it. How many runs the
store has, how long requests take, whether leases run out under their holders (a lease has 120 s,
`service.py:220`, and the function 300 s, `deploy/deploy.py:438`), who is killed, which syncs are torn and
which uploads fail is left open, and so is everything that is uploaded of runs outside `R` and
every upload of a ledger. It is a condition on a behaviour, and no upload checks it; the code does
not establish it. The run `decision_across` refutes `ResolutionStands` for two runs, by a step
that is not orderly: `sync_up` lists the whole store, and takes stale files of the other run along.
A holder whose lease has run out may upload beside the next one, as no upload looks at the lock. The
theorems say that an answer is lost by such an upload only: where uploads are
orderly the second look under the lease, with the answer given only after the uploads, is enough. TLC
finds every step of the run `decision` orderly (one run, requests within their leases),
so the theorems cover all of its behaviours. The assumptions on the constants are
`LeaseAssumption` and `CloudAssumption`: the contents `Absent` and `Awaiting` are different,
and not tokens.

The promise itself (`Standing`) says nothing of how a stale cache is kept from S3. So
`CloudInv(R)` carries it by:

* `Typed`: types, the lease's invariant, the stage of a request against its place in the
  protocol, and that journals are those of resolutions; it holds of all runs.
* `Kept`: S3 has no journal of the run, and no resolution by a request to come. `Fresh`: nor one by a
  request that has not begun to upload.
* `Looked`: a decision that is open at the second look, under a lease that has not run
  out, is open in S3, and no journal is left to replay.
* `Won`: from its resolution to its answer a holder has its own resolution in its cache; and
  while its lease lasts, or when nothing more is to be uploaded (`Winning`), nobody was
  answered before it, and each of its files is either in S3 or still open there (`There`). A holder
  whose lease runs out with files to upload has lost: the hypothesis stops its
  uploads, so it is never answered.

The proof has one lemma per conjunct (`KeptStep` ... `StandingStep`), over lemmas
about what a sync leaves in a cache (`Synced`), what an upload writes (`Uploads`), what a
resolution writes (`Resolves`), that a step leaves the requests of others alone
(`Elsewhere`), that a lease only ages (`Aging`), that two live holders are one (`OneWinner`), and what
the hypothesis says of a step (`OrderlyStep`, `UploadingFile`). `Overwrites` is the heart of the two
theorems: an upload changes only a file that S3 lacks, or one its writer, the live holder
of the lease, still has to send.

`IntakeProofs`, over `Intake`, `Remedies` and `Views` as one system, for every
document, every set of packages, of batches a model may answer, of titles and of
extra checks, and every bound on attempts and cycles:

* `ConflictsStayOpen`: `RunSpec => []NoOpenConflict`. Of two `EQUALS`
  demands for different values of one thing neither is executable, and a run that is ready
  has none that binds. `find_contradictions` looks for no other conflict.
* `TightenedForGood`: `RunSpec => []ModelOnlyTightens`.
* `AdmissionSuffices`: `RunSpec => []AdmittedIsPlannable`. Deriving the checks of
  admitted requirements never raises.
* `SeverityForGood`: `RunSpec => []SourceOwnsSeverity`.
* `RunStandsForGood`: `RunSpec => [](WellAdmitted /\ RunStands)`, from the invariant
  below, and from it in turn the properties of a plan, a record, a verdict and what is shown:
  `PlanForGood` (`PlanCovers`), `DecidedForGood` (`MeasuredIsDecided`),
  `VerdictForGood` (`VerdictIsTrue`), `ShownForGood` (`ShownAsJudged`),
  `AskedForGood` (`DecisionShown`).

The assumption on the constants is `IntakeAssumption` of `Intake`: documents, batches,
citations and packages are sequences, a package has an asset, an asset has one of the
roles and answers of the two media programs, and the model is asked once or twice.

The inductive invariant (`RunInvariant`) has three parts. `AdmissionStands`: the requirements are what
`mark_contradictions` and `admit` make of the batch, or there is no batch yet, and a
run in `DELIVERY_READY` has no unresolved requirement; that the requirements are in the
catalogue's terms (`WellAdmitted`) follows. `BatchStands`: the batch is one
of the model's answers, and its spans were accepted. `RunStands` is about the rest, stage by stage:

* `PlanningStands`: no plan before it is adopted, then an order that matches the
  list of required checks place by place (`PlanStands`).
* `RecordStands`: in the stages in which the record is read, it is what an inspection
  of the package as it is would find (`Measured`). Remedies change the package
  in other stages, and only an inspection leads back.
* `FindingsStand`: a finding is of a predicate that did not pass, and findings of one
  identity are alike. `RequestStands`: the question is about one of them.
* `VerdictStands`: a verdict was computed from the record.

No property is inductive: they compare what is shown, judged or planned at the end with
the package and the requirements, and between the two lie the stages in which the record
is out of date. `RecordStands` carries `VerdictIsTrue`, `ShownAsJudged` and
`DecisionShown` through any number of remedies and inspections. `RunStandsNext` has one
step per action.

The content is in lemmas about the operators, in the order of a run:

* `InOrderCounts`: sorting a finite set that is in line (`Linear`) takes each element once.
  `Ordering` defines a sorted list by the number of elements before each place
  and not by recursion, so that this is a fact about cardinalities (`PlacesTaken`) and
  needs no induction over data; segments, checks, plans, predicates and current assets
  are listed with it.
* `MarkedInConflict`, `DispositionFloor`, `DraftKeeps`, `AdmitTightens`,
  `AdmitIsBindable`, `AdmitInTerms`: what `admit` and `mark_contradictions` make of one
  candidate; what is executable has a constraint in the catalogue's terms.
* `SentencesInLine`, `SpanHolds`: sentences end in the order in which they begin, so
  the span from the first cited one to the last holds every one cited.
* `DerivedStand`, `FallbackMatches`, `AcceptedMatches`: what is required is demanded, and
  the fallback plan as well as any proposal the validator accepts
  takes every required check once.
* `ToolsReadSoundly`, `MeasuredDecides`: every fact of every tool has the catalogue's
  unit, so it decides a constraint in the catalogue's terms.
* `MeasuredBears`, `FirstAsLast`: predicates of one identity are alike, so the verdict,
  which reads the last one, and the views, which read the first, agree.

`RemedyProofs`, for the same constants, with the remedies and the ends of a run; in addition
it uses `RemediesAssumption`, that the cycle limit is a natural number:

* `TypesForGood`: `RunSpec => []TypeOK`. A check and a predicate are about an asset of the
  package, also after remedies have changed the package.
* `RunsAreBounded`: every step leaves fewer to take, and there are never more than
  `3 * MaxCycles + 2 * MaxAttempts + 5` of them: eighteen with the code's own limits.
* `CallsAreFew`: a call of `advance` brings an inspected run nearer to its end or to a
  question, unless a human answers, and `MaxCycles + 1` calls are enough. `create_run` and
  `submit_decision` make eight at most (`service.py:651`, `1278`), the cycle limit
  is three: their loops leave no run half way.
* `NothingIsLost`: no step leaves fewer current assets than there were.
* `AlteredByApproval`: unless it answers a decision, a step leaves assets that measure as
  assets before it did, or adds a manifest. What is seen and heard is changed by a human's
  approval only, whatever a model diagnoses.
* `HumanIsAskedLast`: while a run awaits a decision, no finding has a reversible remedy on offer.

Their invariant is `TypesStand`, beside `RunInvariant`. A check stays about an asset of the
package because a package never gets smaller (`Delivery`, and `NothingIsLost` is proved with it),
and a remedy can be applied because a finding, wherever one is acted on, is about an asset
there and offers one of the four tools (`FindingsSound`). Two lemmas about `Execute` carry
this, each by induction over the options of a batch: a bench on which
remedies work has as many current assets as the package (`SoundBench`), and reversible
ones leave it `Unaltered`. `After` is a recursive function over the number
of options executed, and `Induction` is about a set of naturals (it is proved from
the least element the set lacks, as the library's theorem takes an operator),
so this induction is within the provers' reach.

The other theorems are about the seams:

* `GatesAgree`: `RunSpec => []TwoGatesAgree`. What the hook lets a model call, the
  executor's `begin` accepts. It holds in every state and not only in reachable
  ones, as it is a fact about two decision tables: `EvaluatePasses` says what a call
  that `evaluate` lets pass satisfies, `HookedBegins` that this is all
  `begin` asks for, `CallsCarry` that a call of the second tier has its capability.
* `AdapterAgreesForGood`: `RunSpec => []AdapterAgrees`. The adapter takes for bound
  exactly what the runtime accepts. `AdapterReadsAsRuntime` is the part about the
  operators: it holds of findings of which those of one identity are alike (`Alike`),
  although one side reads all of them and the other the last. That findings in a run are alike
  is `FindingsStand`.
* `OnlyTwinsStrand`: for findings of which no two share an identity
  (`Distinguished`), every reply, also a failed one, ends in an answer the
  runtime accepts. The run `stranded` is the counterpart: of findings that do share an
  identity the fallback's answer is refused, though an agent may answer for both at once.

Only model-checked: liveness (`JournalsDrain`, `EvidenceArrives`, `Settles`), which needs
fairness and ENABLED, and TLAPS does not handle these here. `OperationsEnd`, `CallsEnd` and
`RunsAreBounded` are its part that is proved: whoever goes on gets to an end. Every
safety and action property that a passing run checks is proved for every value of the constants,
as far as the conditions named above (`Alone`, `OwnAuthorizations`, `Orderly`) are met.

## 5. Where code and documents disagree

Five statements of the repository are refuted by a run:

1. **`store_replay`.** `store.py:411` treats two starts of an action as an
   impossible state. `_finish_action_transaction` looks for the start, then
   appends it, with no lock across the two, and the constructor of every
   orchestrator replays the journals of live processes: both append.
2. **`recovery_commits`.** `ARCHITECTURE.md:317` says promoted output is
   verified and committed. For a manifest, `recover` computes the expected
   descriptor from a record that by then contains the manifest itself as
   current, the comparison fails, and an intact file is quarantined and the run
   failed.
3. **`inspection_ends`.** `ARCHITECTURE.md:294` says a crash transitions the run
   to FAILED. Nothing leads out of INSPECTING for a later call: `advance`
   returns such a run as it is.
4. **`decision_across`.** `service.py:1254` says a stale writer never overwrites
   newer state. `sync_up` uploads every file of the store that differs from the
   listing, also those of runs whose lease the container does not hold; with two
   runs a resolution is overwritten by a stale copy. With one run, it stands
   (run `decision`).
5. **`stranded`.** `DECISIONS.md:162` says that a malformed or unbindable answer
   "yields a truthful deterministic fallback, never [...] a stranded run", and
   `agentcore_model.py:86` that what binds is accepted by the runtime. Of two
   assets of one role the plan measures their requirement twice, both findings get
   one id (`orchestrator.py:701`), and `diagnose_findings` refuses an answer that
   names an id twice (`diagnosis.py:111`). It compares sets of ids, so an agent's
   answer that names the shared id once is accepted, by the adapter too. The
   deterministic double answers once for each prompted finding, and so names the id
   twice: it is the fallback that is refused, and an `advance` for which the agent
   fails, or answers with what cannot be used, raises. The API delivers one captions
   file; `start` takes any package.

A request that is not abandoned settles its run (`Settles`), also a run that an earlier
abandoned call has left half way. What is abandoned stays as it is: no route calls `advance` on it again. And where
somebody does, as tests do, these calls do not bring a run further, as TLC found and
the code confirms:

* `prepare`, `inspect`, `ready`: the run is in a status `advance` returns as it
  is (`orchestrator.py:333`).
* `offer`: FINDINGS_READY without its options: every Tier-1 selection is refused
  by the guard; only a diagnosis that selects nothing goes on.
* `pause`: the request is PENDING in the record, the run is not waiting: no
  verdict, and escalation refused.
* `record_approval`, `resume`, `record_denial`, `block`: the request file is
  answered, the run still waits: `load_pending_decision` raises on each answer.
* `finish`, `reinspect` after a failed manifest refresh: recovery adds a second
  finding with the id of the first, which is UNRESOLVED, and the authority
  engine refuses on this and every later call.
* `write`: an output that no tool can describe: `execute` raises with the action started
  (`remediation.py:151`), and recovery computes the same descriptor before it writes anything
  (`remediation.py:236`) and raises on every later call.
* A lock file left by a kill (`store.py:75`): the ledger's, a request's or a
  capability's; whatever needs it times out.

Other windows that the modules contain and no property excludes:

* Two requirements of one identity that differ in their conditions:
  `_requirement_id` (`admission.py:271`) hashes the cited segments and the
  constraint, neither scope nor conditions. When one applies and the other may or
  may not, `compute` blocks the run for the second, while the API, which looks up
  predicates by identity, shows both green and counts no blocker
  (`service.py:725`): `Shadowed` in `Views` is what `ShownAsJudged` has to except,
  and what `PlanCovers` says is planned is the identity.
* A heading between two cited sentences: a requirement's span runs from its first
  sentence to its last (`source.py:222`), so the words of a heading in between
  count. `ARCHITECTURE.md:178` has unknown modal language block; two silent sentences around a heading
  that says "optional" are admitted with severity INFO. `SourceOwnsSeverity` therefore
  speaks of the whole span where it speaks of silence.
* Two commits chained to the same head: the loser's journal stays and every
  later constructor raises on it, until someone removes it.
* A kill after `approve_decision` saved the authorization and before the
  request file says so: the repeated approval issues a second authorization for
  the decision. `PaidOnce` shows that only one of them is ever used.
* A kill between the failure of recovery and the FAILED transition: the next
  `advance` finds nothing unfinished and goes on with a record that lists a
  quarantined asset.
* A kill while the ledger's lock file is held: every append times out until the
  file is removed. A kill while an authorization's is held: the action that was to consume
  it keeps its journal, and every constructor raises on it (`Blocked`). `OnlyTimeouts` and
  `JournalsDrain` except these two.
* A lease of 120 s (`service.py:220`) in a function that may run 300 s
  (`deploy/deploy.py:438`): what a container does after its lease has run out is
  not fenced. The `decision` run assumes that it does not happen (`MayOverrun`), the theorems of
  `CloudDecisionProofs` only that no upload of the run's answer comes that late (`Orderly`).
* A kill in an upload: `sync_up` copies file by file, `sync_down` deletes nothing,
  so a run can come back with some files old, and with a journal that was finished
  elsewhere. The constructor may then raise on that run. `AnswerDurable` shows that a
  recorded answer is not lost by it, not that the run is usable.
* Windows of `Intake` and `Remedies` that raise and leave the run in its status:
  a measurement the fact contract refuses (silence, which ffmpeg reports as `-inf`, or an
  integral frame rate: `inspection.py:293`, `catalog.py:158`) leaves it INSPECTING,
  and a caption format no tool writes (`remediation.py:242`) REMEDIATING.

Things the models state as the code does them, which a reader might not expect:

* A role that no asset has is measured on the first asset, and of two assets of a role
  only the first is measured (`orchestrator.py:632`).
* An empty check order means "inspect everything": a run whose only requirement has
  unresolved applicability ends BLOCKED with all rows green (`orchestrator.py:624`).
  `ShownAsJudged` therefore speaks of runs with planned checks.
* `requirement_id` binds neither role, stream nor conditions: requirements can
  collide, and every lookup takes the last (`admission.py:271`).
* Conditions are admitted and never evaluated (`planning.py:110`); "except for promo"
  supports the condition EQ promo (`admission.py:160`).
* A rename and a conversion of one file in one batch both succeed it: the package
  has two current successors of one file (`orchestrator.py:578`).
* `_unresolved_blockers` counts what is not blocking too (`service.py:725`). A tool's
  promise "Name collision returns ERROR" (`contracts.py:179`) describes no branch
  of the tool. The runtime never passes the duration
  `captions.max_cue_end_vs_duration` is measured against.
  A frame rate of `25` is executable but not of the canonical form measurements have.

## 6. What is not modelled, and why

* Language models and media programs: what they answer is an open choice, or data
  of an asset. Texts are phrases and not characters; the texts `inf` and `nan` as
  bounds of a constraint are left out with them.
* `Intake` and `Remedies` take whole steps without crashes, FAILED or tampered
  originals; those are `Orchestrator`'s, whose measurements are an open choice. Two
  options of the first tier on one asset in one cycle are `Remedies`' only. An asset
  always has a path: `scan_package`'s `ASSET_PATH_UNRESOLVABLE`, for a file that is not
  bound or lies outside the workspace, is left out, as the runtime binds every asset
  it lists.
* `CloudDecision` leaves out authorizations and the upload of a run that is only
  partly created. The mirror of the media workspace, whose files are
  written once, and the ETags of multipart uploads are not modelled.
* The bound of eight calls of `advance` after which `create_run` and
  `submit_decision` stop looping (`service.py:651`, `1278`): a run of three cycles
  needs four at most (`CallsAreFew`).
* Concurrent requests without S3, where nothing serializes two processes beyond
  what `store_shared` shows.
* `InMemoryAuthorityStore` and the hook's registration with the agent framework,
  which only tests do; the hook's decision is in `Authority`.
* Evidence texts, history and timeline views, the provenance sidecar: formatting.
* API routes and view types, the web application, deployment and evaluation
  scripts, synthetic media, spikes: no state the runtime depends on.

## 7. Plan

Done: the state machine, the store, the runtime with its crashes, the lease, the
service over the mirror; the data side from prose to view; proofs of every safety
property the runs check. Left, in order of worth:

1. Refinement between the two sides: the whole steps of `Remedies` as compositions of
   the writes of `Orchestrator`, so far connected only by the statuses both go through.
2. `Orchestrator` with two options of the first tier on one asset, and liveness
   with two abandoned calls (its safety is proved for any number).
3. The workspace in the mirror: an output promoted in one container and
   recovered in another.
