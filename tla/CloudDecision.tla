---------------------------- MODULE CloudDecision ----------------------------
(***************************************************************************)
(* submit_decision and create_run of apps/api/service.py over the S3       *)
(* mirror of aircheck/persistence/s3_store.py: each container keeps a      *)
(* cache of every run, downloads the files that differ, resolves a         *)
(* decision in its cache under the run's lease, and uploads the files that *)
(* differ from the index it has listed, one by one.                        *)
(*                                                                         *)
(* Of a run's files those every resolution writes are kept, each reduced   *)
(* to what it says of the decision: still awaited, or resolved by the      *)
(* request with a token.  The authorization of an approval, a file of a    *)
(* name of its own, is DurableStore's; the transitions an approved run     *)
(* makes afterwards, in the same request, are written like the first.      *)
(***************************************************************************)
EXTENDS S3Lease, Sequences

CONSTANTS
    Initial,    \* the runs that wait for a decision at the start
    Absent,     \* content of a file that is not in a copy of the store
    Awaiting    \* content of a file of a run whose decision is pending

ASSUME CloudAssumption ==
    /\ Initial \subseteq Run
    /\ Absent # Awaiting /\ {Absent, Awaiting} \cap Nat = {}
    /\ \A decisions \in SUBSET (1..MaxTokens) : Absent # decisions

VARIABLES
    remote,   \* [Run -> its files in S3]
    cache,    \* [Container -> [Run -> its files in the container's cache]]
    synced,   \* [Container -> whether a sync has ever succeeded]
    stage,    \* [Container -> progress of its request outside the lease calls]
    queue,    \* [Container -> files that sync_up has still to upload]
    answered  \* requests answered with success: [run, token]

cloudVars == <<remote, cache, synced, stage, queue, answered>>
vars == <<leaseVars, cloudVars>>

-----------------------------------------------------------------------------
(* The files of one run.  The record holds the decisions taken, the ledger *)
(* (events) the transitions to the pause and out of it, a journal is named *)
(* by the ledger it commits: a copy may have several.                      *)
Token == 1..MaxTokens
Content == {Absent, Awaiting} \cup Token
Resolved(content) == content \in Token

Ledger == {<<>>, <<Awaiting>>} \cup {<<n>> : n \in Token} \cup {<<Awaiting, n>> : n \in Token}

Copy == [decision : Content, record : {Absent} \cup SUBSET Token, events : Ledger,
         snapshot : Content, journal : SUBSET Ledger]
Empty == [decision |-> Absent, record |-> Absent, events |-> <<>>,
          snapshot |-> Absent, journal |-> {}]
Paused == [decision |-> Awaiting, record |-> {}, events |-> <<Awaiting>>,
           snapshot |-> Awaiting, journal |-> {}]

Newest(events) == events[Len(events)]

(* load_snapshot: the snapshot exists and agrees with the ledger, if any.  *)
Loads(copy) ==
    /\ copy.snapshot # Absent
    /\ copy.events # <<>> => Newest(copy.events) = copy.snapshot

(* What resolve_decision asks of the copy it works on.                     *)
Resolvable(copy) ==
    /\ Loads(copy) /\ copy.snapshot = Awaiting
    /\ copy.decision = Awaiting
    /\ copy.record # Absent

(* The first k writes of a resolution: the decision, the record, the       *)
(* journal, the ledger, the snapshot; then the journal is removed.         *)
AllWrites == 6
Written(copy, n, k) ==
    LET ledger == Append(copy.events, n)
    IN  [ decision |-> IF k >= 1 THEN n ELSE copy.decision,
          record   |-> IF k >= 2 THEN copy.record \cup {n} ELSE copy.record,
          journal  |-> IF k \in 3..5 THEN copy.journal \cup {ledger} ELSE copy.journal,
          events   |-> IF k >= 4 THEN ledger ELSE copy.events,
          snapshot |-> IF k >= 5 THEN n ELSE copy.snapshot ]

(* A file that is copied replaces the other; nothing is ever deleted.      *)
Copied(old, new, file) ==
    CASE file = "journal"        -> old[file] \cup new[file]
      [] new[file] = Empty[file] -> old[file]
      [] OTHER                   -> new[file]

(* sync_down takes the files in the order of the listing; those of several *)
(* runs are taken side by side.                                            *)
Listing == <<"decision", "events", "record", "snapshot", "journal">>
Received(old, new, k) ==
    [f \in DOMAIN old |-> IF \E i \in 1..k : Listing[i] = f THEN Copied(old, new, f) ELSE old[f]]

(* A journal can be finished when the ledger has its transition, or lacks  *)
(* nothing but it.                                                         *)
Finishes(copy, ledger) ==
    \/ copy.events = ledger
    \/ copy.events = SubSeq(ledger, 1, Len(ledger) - 1)

(* Seeded fault: the replay of a journal appends its event without looking *)
(* whether the ledger has it.                                              *)
FaultFinished(copy, ledger) ==
    [copy EXCEPT !.events = Append(@, Newest(ledger)), !.snapshot = Newest(ledger),
                 !.journal = @ \ {ledger}]
Finished(copy, ledger) ==
    [copy EXCEPT !.events = ledger, !.snapshot = Newest(ledger), !.journal = @ \ {ledger}]

(* _recover_transition_transactions: the journals are finished in the      *)
(* order of their random names, up to the first that cannot be.            *)
Recoveries(copies) ==
    LET chosen == {p \in [Run -> Ledger] :
                     \A r \in Run : p[r] # <<>> => /\ p[r] \in copies[r].journal
                                                   /\ Finishes(copies[r], p[r])}
        results == {[r \in Run |-> IF p[r] = <<>> THEN copies[r]
                                   ELSE Finished(copies[r], p[r])] : p \in chosen}
    IN  {g \in results :
           \/ \A r \in Run : g[r].journal = {}
           \/ \E r \in Run : \E j \in g[r].journal : ~Finishes(g[r], j)}

(* One sync of a container, and whether it succeeds: the download may stop *)
(* anywhere, and a journal that cannot be finished raises.                 *)
SyncDown(c, success) ==
    \E k \in 0..Len(Listing) :
        LET down == [r \in Run |-> Received(cache[c][r], remote[r], k)]
        IN  \E after \in (IF k < Len(Listing) THEN {down} ELSE Recoveries(down)) :
              /\ cache' = [cache EXCEPT ![c] = after]
              /\ success = (k = Len(Listing) /\ \A r \in Run : after[r].journal = {})
              /\ synced' = [synced EXCEPT ![c] = @ \/ success]

-----------------------------------------------------------------------------
Stage(c, label) == stage' = [stage EXCEPT ![c] = label]

Init ==
    /\ LeaseInit
    /\ remote = [r \in Run |-> IF r \in Initial THEN Paused ELSE Empty]
    /\ cache = [c \in Container |-> [r \in Run |-> Empty]]
    /\ synced = [c \in Container |-> FALSE]
    /\ stage = [c \in Container |-> "idle"]
    /\ queue = [c \in Container |-> {}]
    /\ answered = {}

(* Startup, and every request but a health check, begin with an index sync. *)
(* One that fails is survived by a container that has synced before.       *)
SyncIndex(c) ==
    /\ stage[c] = "idle"
    /\ \E success \in BOOLEAN : SyncDown(c, success)
    /\ UNCHANGED <<leaseVars, remote, stage, queue, answered>>

(* submit_decision: the cached snapshot must be awaiting a decision. *)
Submit(c, r) ==
    /\ stage[c] = "idle" /\ synced[c]
    /\ Loads(cache[c][r]) /\ cache[c][r].snapshot = Awaiting
    /\ Acquire(c, r)
    /\ Stage(c, "acquire")
    /\ UNCHANGED <<remote, cache, synced, queue, answered>>

(* The lease calls; a conflict ends the request. *)
Lease(c) ==
    /\ stage[c] = "acquire"
    /\ Coordinate(c)
    /\ Stage(c, CASE client'[c].at = "held" -> "refresh"
                  [] client'[c].at = "idle" -> "idle"
                  [] OTHER -> "acquire")
    /\ UNCHANGED <<remote, cache, synced, queue, answered>>

(* Under the lease: strict sync, ... *)
Refresh(c) ==
    /\ stage[c] = "refresh"
    /\ \E success \in BOOLEAN :
          /\ SyncDown(c, success)
          /\ Stage(c, IF success THEN "recheck" ELSE "release")
    /\ UNCHANGED <<leaseVars, remote, queue, answered>>

(* A resolution is written to the cache; one that fails half way stays     *)
(* there and ends the request.                                             *)
Resolve(c, r) ==
    \E k \in 0..AllWrites :
        /\ cache' = [cache EXCEPT ![c][r] = Written(@, client[c].body.token, k)]
        /\ Stage(c, IF k = AllWrites THEN "list" ELSE "release")

(* Seeded fault: the decision is not looked at again under the lease. *)
FaultRecheck(c) ==
    LET r == client[c].run IN
    /\ stage[c] = "recheck"
    /\ IF cache[c][r].record # Absent THEN Resolve(c, r)
       ELSE Stage(c, "release") /\ UNCHANGED cache
    /\ UNCHANGED <<leaseVars, remote, synced, queue, answered>>

(* ... then the decision must still be pending, and is resolved; anything  *)
(* else is a conflict or an error.                                         *)
Recheck(c) ==
    LET r == client[c].run IN
    /\ stage[c] = "recheck"
    /\ IF Resolvable(cache[c][r]) THEN Resolve(c, r)
       ELSE Stage(c, "release") /\ UNCHANGED cache
    /\ UNCHANGED <<leaseVars, remote, synced, queue, answered>>

(* create_run takes no lease: a new run advances to its decision. *)
CreateRun(c, r) ==
    /\ stage[c] = "idle" /\ synced[c]
    /\ remote[r] = Empty
    /\ \A d \in Container : cache[d][r] = Empty
    /\ cache' = [cache EXCEPT ![c][r] = Paused]
    /\ Stage(c, "list")
    /\ UNCHANGED <<leaseVars, remote, synced, queue, answered>>

(* sync_up lists the remote index of the whole store and looks for files   *)
(* that differ from it, ...                                                *)
ListRemote(c) ==
    /\ stage[c] = "list"
    /\ queue' = [queue EXCEPT ![c] =
          {u \in Run \X DOMAIN Empty :
              LET mine == cache[c][u[1]]  theirs == remote[u[1]]
              IN  Copied(theirs, mine, u[2]) # theirs[u[2]]}]
    /\ Stage(c, "upload")
    /\ UNCHANGED <<leaseVars, remote, cache, synced, answered>>

(* ... which it uploads in no particular order. *)
Upload(c) ==
    /\ stage[c] = "upload"
    /\ \E u \in queue[c] :
        /\ remote' = [remote EXCEPT ![u[1]][u[2]] = Copied(remote[u[1]], cache[c][u[1]], u[2])]
        /\ queue' = [queue EXCEPT ![c] = @ \ {u}]
    /\ UNCHANGED <<leaseVars, cache, synced, stage, answered>>

Uploaded(c) ==
    /\ stage[c] = "upload"
    /\ queue[c] = {}
    /\ Stage(c, IF client[c].at = "held" THEN "answer" ELSE "idle")
    /\ UNCHANGED <<leaseVars, remote, cache, synced, queue, answered>>

(* A call to S3 or a later step of the request that fails ends it, and so  *)
(* the lease, with an error; what was resolved stays in the cache, what    *)
(* was uploaded in S3.                                                     *)
Fail(c) ==
    /\ stage[c] \in {"list", "upload"}
    /\ queue' = [queue EXCEPT ![c] = {}]
    /\ Stage(c, IF client[c].at = "held" THEN "release" ELSE "idle")
    /\ UNCHANGED <<leaseVars, remote, cache, synced, answered>>

(* The lease is released; a resolved request answers with success. *)
Finish(c) ==
    /\ stage[c] \in {"answer", "release"}
    /\ Release(c)
    /\ answered' = IF stage[c] = "answer"
                   THEN answered \cup {[run |-> client[c].run, token |-> client[c].body.token]}
                   ELSE answered
    /\ Stage(c, "idle")
    /\ UNCHANGED <<remote, cache, synced, queue>>

(* A container dies: its disk, and with it the cache, is gone. *)
Die(c) ==
    /\ Kill(c)
    /\ cache' = [cache EXCEPT ![c] = [r \in Run |-> Empty]]
    /\ synced' = [synced EXCEPT ![c] = FALSE]
    /\ queue' = [queue EXCEPT ![c] = {}]
    /\ Stage(c, "idle")
    /\ UNCHANGED <<remote, answered>>

Pass == Tick /\ UNCHANGED cloudVars

Next ==
    \/ \E c \in Container :
          \/ SyncIndex(c)
          \/ \E r \in Run : Submit(c, r) \/ CreateRun(c, r)
          \/ Lease(c) \/ Refresh(c) \/ Recheck(c)
          \/ ListRemote(c) \/ Upload(c) \/ Uploaded(c) \/ Fail(c)
          \/ Finish(c) \/ Die(c)
    \/ Pass

Spec == Init /\ [][Next]_vars

-----------------------------------------------------------------------------
(* Properties *)

(* The mirror, the caches and the requests have their types. *)
TypeOK ==
    /\ LeaseTypeOK
    /\ remote \in [Run -> Copy] /\ cache \in [Container -> [Run -> Copy]]
    /\ synced \in [Container -> BOOLEAN]
    /\ stage \in [Container -> {"idle", "acquire", "refresh", "recheck", "list", "upload",
                                "answer", "release"}]
    /\ queue \in [Container -> SUBSET (Run \X DOMAIN Empty)]
    /\ answered \subseteq [run : Run, token : Token]

(* Exactly one conflicting mutation wins, and what it was told stands: S3  *)
(* keeps the decision of each request that was answered with success in    *)
(* the request file, the record and the snapshot, whatever others upload   *)
(* or fail to upload; so no two requests are answered for one decision.    *)
AnswerDurable ==
    \A x \in answered : /\ remote[x.run].decision = x.token
                        /\ remote[x.run].snapshot = x.token
                        /\ x.token \in remote[x.run].record

(* A stale writer never overwrites newer state: once S3 has a resolution   *)
(* in a decision or a snapshot, no upload replaces it.                     *)
ResolutionStands ==
    [][ \A r \in Run : /\ Resolved(remote[r].decision) =>
                              remote'[r].decision = remote[r].decision
                       /\ Resolved(remote[r].snapshot) =>
                              remote'[r].snapshot = remote[r].snapshot ]_vars
=============================================================================
