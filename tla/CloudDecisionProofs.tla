------------------------ MODULE CloudDecisionProofs ------------------------
(***************************************************************************)
(* The service uses the lease as it is meant to be used: whatever a        *)
(* container downloads, resolves, uploads or loses, the lease's variables  *)
(* only take the lease's own steps.  What S3LeaseProofs proves of the      *)
(* lease therefore holds of the service, for every number of containers    *)
(* and runs.                                                               *)
(*                                                                         *)
(* On it rests the invariant of the protocol, CloudInv: of the requests on *)
(* a run one resolves it, and S3 keeps what it was answered.  The lease    *)
(* alone does not give it: sync_up uploads stale copies of other runs, and *)
(* a lease of 120 s may run out under a request, which has 300 s.  So it   *)
(* is proved of the behaviours, whatever their store and however long      *)
(* their requests, in which a run's uploads are Orderly; that the types    *)
(* hold is proved of all.                                                  *)
(***************************************************************************)
EXTENDS CloudDecision, S3LeaseProofs, SequenceTheorems

(* Every step of the service is a step, or no step, of the lease. *)
LEMMA StepIsLeaseStep == [Next]_vars => [LeaseNext]_leaseVars
  <1> SUFFICES ASSUME [Next]_vars PROVE [LeaseNext]_leaseVars
    OBVIOUS
  <1>1. ASSUME NEW c \in Container, NEW r \in Run, Submit(c, r)
        PROVE  LeaseNext
    BY <1>1 DEF Submit, LeaseNext
  <1>2. ASSUME NEW c \in Container, Lease(c)
        PROVE  LeaseNext
    BY <1>2 DEF Lease, LeaseNext
  <1>3. ASSUME NEW c \in Container, Finish(c) \/ Die(c)
        PROVE  LeaseNext
    BY <1>3 DEF Finish, Die, LeaseNext
  <1>4. ASSUME Pass
        PROVE  LeaseNext
    BY <1>4 DEF Pass, LeaseNext
  <1>5. ASSUME NEW c \in Container,
               \/ SyncIndex(c) \/ Refresh(c) \/ Recheck(c) \/ ListRemote(c)
               \/ Upload(c) \/ Uploaded(c) \/ Fail(c)
               \/ \E r \in Run : CreateRun(c, r)
        PROVE  UNCHANGED leaseVars
    BY <1>5 DEF SyncIndex, Refresh, Recheck, ListRemote, Upload, Uploaded, Fail, CreateRun
  <1>6. CASE UNCHANGED vars
    BY <1>6 DEF vars
  <1> QED
    BY <1>1, <1>2, <1>3, <1>4, <1>5, <1>6 DEF Next

(* The service implements the lease. *)
THEOREM ServiceUsesLease == Spec => LeaseSpec
  <1>1. Init => LeaseInit
    BY DEF Init
  <1> QED
    BY <1>1, StepIsLeaseStep, PTL DEF Spec, LeaseSpec

(* Of the containers that mutate a run at most one has a lease that has    *)
(* not run out.                                                            *)
THEOREM ServiceExclusive == Spec => []Exclusive
  BY ServiceUsesLease, OneValidHolder

(* No container's request replaces a live lock or removes that of another. *)
THEOREM ServiceLeavesLiveLocks == Spec => LiveLockStands
  BY ServiceUsesLease, LiveLocksStand

-----------------------------------------------------------------------------
(* A request's stage and where it is in the lease's protocol. *)
Staged ==
    \A c \in Container :
        /\ stage[c] = "idle" => client[c].at = "idle"
        /\ stage[c] = "acquire" => client[c].at \in {"create", "read", "recreate", "takeover"}
        /\ stage[c] \in {"refresh", "recheck", "answer", "release"} => client[c].at = "held"
        /\ stage[c] \in {"list", "upload"} => client[c].at \in {"idle", "held"}

(* Journals are those of resolutions. *)
Journals ==
    \A r \in Run, c \in Container : \A j \in remote[r].journal \cup cache[c][r].journal :
        j \in Ledger /\ j # <<>> /\ Resolved(Newest(j))

(* What holds of any number of runs, also when requests outlive leases. *)
Typed == IInv /\ TypeOK /\ Staged /\ Journals

-----------------------------------------------------------------------------
(* Container c uploads file f of run r.                                    *)
Puts(c, r, f) == Upload(c) /\ <<r, f>> \in queue[c] \ queue'[c]

Live(c, r) == Holds(c, r) /\ client[c].body.left > 0

(* The files that the answer to a decision is read from. *)
Key == {"decision", "record", "snapshot"}

(* What the lease is for, of the runs R: such a file, and a journal, is    *)
(* uploaded under the run's lease, before it has run out, or is one that   *)
(* S3 lacks, as create_run writes it.  What is uploaded of other runs, how *)
(* long any request takes and who dies is left open.                       *)
Orderly(R) ==
    \A c \in Container, r \in R, f \in Key \cup {"journal"} : Puts(c, r, f) =>
        \/ Live(c, r)
        \/ remote[r][f] = Empty[f] /\ cache[c][r][f] = Paused[f]

Unresolved(copy) == ~Resolved(copy.decision) /\ ~Resolved(copy.snapshot)

(* S3 has no journal, and no decision of a request to come.                *)
Kept(R) ==
    \A r \in R : /\ remote[r].journal = {}
                 /\ Resolved(remote[r].decision) => remote[r].decision =< tokens

(* What a request has not begun to upload is not in S3.                    *)
Fresh(R) ==
    \A c \in Container, r \in R :
        /\ stage[c] \in {"acquire", "refresh", "recheck", "list"}
        /\ client[c].at # "idle" /\ client[c].run = r
        => remote[r].decision # client[c].body.token

(* A decision that is still open under the lease is open in S3.            *)
Looked(R) ==
    \A c \in Container, r \in R :
        stage[c] = "recheck" /\ client[c].run = r /\ Resolvable(cache[c][r]) =>
            /\ cache[c][r].journal = {}
            /\ client[c].body.left > 0 => Unresolved(remote[r])

(* A holder of the lease that has resolved the decision uploads its own    *)
(* resolution.  It wins unless its lease runs out with files pending: what *)
(* it has uploaded is its own, what it still has to upload is open.        *)
Writing(c, r) == stage[c] \in {"list", "upload", "answer"} /\ Holds(c, r)
Pending(c, r, f) == stage[c] = "list" \/ (stage[c] = "upload" /\ <<r, f>> \in queue[c])
Winning(c, r) ==
    Writing(c, r) /\ (client[c].body.left > 0 \/ \A f \in Key : ~Pending(c, r, f))
Mine(c, r) ==
    /\ cache[c][r].decision = client[c].body.token
    /\ cache[c][r].snapshot = client[c].body.token
    /\ cache[c][r].record # Absent /\ client[c].body.token \in cache[c][r].record
    /\ cache[c][r].journal = {}
There(c, r, f) ==
    IF Pending(c, r, f) THEN f # "record" => ~Resolved(remote[r][f])
                        ELSE remote[r][f] = cache[c][r][f]
Won(R) ==
    \A c \in Container, r \in R :
        /\ Writing(c, r) => Mine(c, r)
        /\ Winning(c, r) => /\ \A x \in answered : x.run # r
                            /\ \A f \in Key : There(c, r, f)

(* What was answered stands. *)
Standing(R) ==
    \A x \in answered : x.run \in R =>
        /\ remote[x.run].decision = x.token /\ remote[x.run].snapshot = x.token
        /\ remote[x.run].record # Absent /\ x.token \in remote[x.run].record

CloudInv(R) == Typed /\ Kept(R) /\ Fresh(R) /\ Looked(R) /\ Won(R) /\ Standing(R)

-----------------------------------------------------------------------------
(* The files of an empty and of a paused run, and what they may contain.   *)
LEMMA Files ==
    /\ DOMAIN Empty = {"decision", "record", "events", "snapshot", "journal"}
    /\ Empty.decision = Absent /\ Empty.record = Absent /\ Empty.snapshot = Absent
    /\ Empty.events = <<>> /\ Empty.journal = {}
    /\ Paused.decision = Awaiting /\ Paused.record = {} /\ Paused.snapshot = Awaiting
    /\ Paused.events = <<Awaiting>> /\ Paused.journal = {}
    /\ Empty \in Copy /\ Paused \in Copy
    /\ Token \subseteq Nat /\ Absent \notin SUBSET Token /\ Absent \notin Token /\ Awaiting \notin Token /\ Absent # Awaiting
  BY CloudAssumption DEF Empty, Paused, Copy, Content, Ledger, Token

(* What it takes to be a copy of a run.                                    *)
LEMMA CopyIs ==
    ASSUME NEW copy
    PROVE  copy \in Copy <=>
             /\ copy = [decision |-> copy.decision, record |-> copy.record, events |-> copy.events,
                        snapshot |-> copy.snapshot, journal |-> copy.journal]
             /\ copy.decision \in Content /\ copy.record \in {Absent} \cup SUBSET Token
             /\ copy.events \in Ledger /\ copy.snapshot \in Content /\ copy.journal \subseteq Ledger
  BY DEF Copy

(* A download or an upload never deletes: an absent file leaves the other  *)
(* copy's.                                                                 *)
LEMMA CopiedIs ==
    ASSUME NEW old, NEW new, NEW f
    PROVE  /\ f # "journal" => Copied(old, new, f) = IF new[f] = Empty[f] THEN old[f] ELSE new[f]
           /\ f = "journal" => Copied(old, new, f) = old[f] \cup new[f]
  <1>1. ASSUME f # "journal"
        PROVE  Copied(old, new, f) = IF new[f] = Empty[f] THEN old[f] ELSE new[f]
    <2>1. CASE new[f] = Empty[f]
      BY <1>1, <2>1, Zenon DEF Copied
    <2>2. CASE new[f] # Empty[f]
      BY <1>1, <2>2, Zenon DEF Copied
    <2> QED
      BY <2>1, <2>2
  <1>2. ASSUME f = "journal"
        PROVE  Copied(old, new, f) = old[f] \cup new[f]
    <2>1. CASE new[f] = Empty[f]
      <3>1. old[f] = old[f] \cup new[f]
        BY <1>2, <2>1, Files
      <3>2. Copied(old, new, f) = old[f]
        BY <1>2, <2>1, <3>1, Zenon DEF Copied
      <3> QED
        BY <3>1, <3>2
    <2>2. CASE new[f] # Empty[f]
      BY <1>2, <2>2, Zenon DEF Copied
    <2> QED
      BY <2>1, <2>2
  <1> QED
    BY <1>1, <1>2

(* A download replaces files by their remote versions, one that completes  *)
(* all there are; journals are added.                                      *)
LEMMA ReceivedIs ==
    ASSUME NEW old \in Copy, NEW new \in Copy, NEW k \in 0..5
    PROVE  /\ Received(old, new, k) \in Copy
           /\ \A f \in {"decision", "record", "events", "snapshot"} :
                 \/ Received(old, new, k)[f] = old[f]
                 \/ Received(old, new, k)[f] = new[f] /\ new[f] # Empty[f]
           /\ Received(old, new, k).journal \subseteq old.journal \cup new.journal
           /\ k = 5 => \A f \in {"decision", "record", "events", "snapshot"} :
                 new[f] # Empty[f] => Received(old, new, k)[f] = new[f]
  <1>1. PICK got : got = Received(old, new, k)
    OBVIOUS
  <1>2. /\ DOMAIN old = {"decision", "record", "events", "snapshot", "journal"}
        /\ old.decision \in Content /\ old.record \in {Absent} \cup SUBSET Token
        /\ old.events \in Ledger /\ old.snapshot \in Content /\ old.journal \subseteq Ledger
        /\ new.decision \in Content /\ new.record \in {Absent} \cup SUBSET Token
        /\ new.events \in Ledger /\ new.snapshot \in Content /\ new.journal \subseteq Ledger
    BY DEF Copy
  <1>3. /\ got = [f \in {"decision", "record", "events", "snapshot", "journal"} |->
                    IF \E i \in 1..k : Listing[i] = f THEN Copied(old, new, f) ELSE old[f]]
    BY <1>1, <1>2 DEF Received
  <1>4. \A f \in {"decision", "record", "events", "snapshot", "journal"} :
          got[f] = IF \E i \in 1..k : Listing[i] = f THEN Copied(old, new, f) ELSE old[f]
    BY <1>3
  <1>5. /\ Copied(old, new, "journal") = old.journal \cup new.journal
        /\ \A f \in {"decision", "record", "events", "snapshot"} :
             Copied(old, new, f) = IF new[f] = Empty[f] THEN old[f] ELSE new[f]
    BY CopiedIs
  <1>6. /\ \A f \in {"decision", "record", "events", "snapshot"} :
              got[f] = old[f] \/ (got[f] = new[f] /\ new[f] # Empty[f])
        /\ got.journal \subseteq old.journal \cup new.journal
    BY <1>4, <1>5
  <1>7. got \in Copy
    <2>1. got = [decision |-> got.decision, record |-> got.record, events |-> got.events,
                 snapshot |-> got.snapshot, journal |-> got.journal]
      BY <1>3
    <2>2. /\ got.decision \in Content /\ got.record \in {Absent} \cup SUBSET Token
          /\ got.events \in Ledger /\ got.snapshot \in Content /\ got.journal \subseteq Ledger
      BY <1>2, <1>6
    <2> QED
      BY <2>1, <2>2, CopyIs
  <1>8. ASSUME k = 5, NEW f \in {"decision", "record", "events", "snapshot"}, new[f] # Empty[f]
        PROVE  got[f] = new[f]
    <2>1. \E i \in 1..5 : Listing[i] = f
      BY DEF Listing
    <2> QED
      BY <1>4, <1>5, <1>8, <2>1
  <1> QED
    BY <1>1, <1>6, <1>7, <1>8

-----------------------------------------------------------------------------
(* What a sync leaves in the cache: the cache's or S3's version of each    *)
(* file, but for the ledger and the snapshot of a run whose journal it     *)
(* finishes; a sync that succeeds leaves no journal.                       *)
LEMMA Synced ==
    ASSUME TypeOK, Journals, NEW c \in Container, NEW success, SyncDown(c, success)
    PROVE  /\ cache' = [cache EXCEPT ![c] = cache'[c]]
           /\ cache'[c] \in [Run -> Copy]
           /\ synced' \in [Container -> BOOLEAN]
           /\ \A r \in Run :
                /\ \A f \in {"decision", "record"} :
                     \/ cache'[c][r][f] = cache[c][r][f]
                     \/ cache'[c][r][f] = remote[r][f] /\ remote[r][f] # Empty[f]
                /\ cache'[c][r].journal \subseteq cache[c][r].journal \cup remote[r].journal
                /\ \/ cache'[c][r].snapshot = cache[c][r].snapshot
                   \/ cache'[c][r].snapshot = remote[r].snapshot /\ remote[r].snapshot # Absent
                   \/ /\ cache[c][r].journal \cup remote[r].journal # {}
                      /\ Resolved(cache'[c][r].snapshot)
                /\ success =>
                     /\ cache'[c][r].journal = {}
                     /\ remote[r].decision # Absent => cache'[c][r].decision = remote[r].decision
                     /\ \/ Resolved(cache'[c][r].snapshot)
                        \/ remote[r].snapshot # Absent => cache'[c][r].snapshot = remote[r].snapshot
  <1>1. Len(Listing) = 5
    BY DEF Listing
  <1>2. PICK k \in 0..5 : \E after \in (IF k < 5 THEN {[r \in Run |-> Received(cache[c][r], remote[r], k)]}
                                        ELSE Recoveries([r \in Run |-> Received(cache[c][r], remote[r], k)])) :
              /\ cache' = [cache EXCEPT ![c] = after]
              /\ success = (k = 5 /\ \A r \in Run : after[r].journal = {})
              /\ synced' = [synced EXCEPT ![c] = @ \/ success]
    BY <1>1, ZenonT(30) DEF SyncDown
  <1>3. PICK down : down = [r \in Run |-> Received(cache[c][r], remote[r], k)]
    OBVIOUS
  <1>4. PICK after \in (IF k < 5 THEN {down} ELSE Recoveries(down)) :
              /\ cache' = [cache EXCEPT ![c] = after]
              /\ success = (k = 5 /\ \A r \in Run : after[r].journal = {})
              /\ synced' = [synced EXCEPT ![c] = @ \/ success]
    BY <1>2, <1>3
  <1>5. /\ \A r \in Run : cache[c][r] \in Copy /\ remote[r] \in Copy /\ down[r] = Received(cache[c][r], remote[r], k)
        /\ cache \in [Container -> [Run -> Copy]] /\ synced \in [Container -> BOOLEAN]
        /\ down \in [Run -> Copy]
    BY <1>3, ReceivedIs DEF TypeOK
  <1>6. /\ cache'[c] = after /\ cache' = [cache EXCEPT ![c] = cache'[c]]
        /\ synced' \in [Container -> BOOLEAN]
    BY <1>4, <1>5
  <1>7. \E p \in [Run -> Ledger] :
           /\ \A r \in Run : p[r] # <<>> => p[r] \in down[r].journal
           /\ after = [r \in Run |-> IF p[r] = <<>> THEN down[r] ELSE Finished(down[r], p[r])]
    <2>1. CASE k < 5
      <3>1. after = down /\ <<>> \in Ledger
        BY <1>4, <2>1 DEF Ledger
      <3>2. PICK p : p = [r \in Run |-> <<>>]
        OBVIOUS
      <3>3. p \in [Run -> Ledger] /\ \A r \in Run : p[r] = <<>>
        BY <3>1, <3>2
      <3>4. after = [r \in Run |-> IF p[r] = <<>> THEN down[r] ELSE Finished(down[r], p[r])]
        BY <1>5, <3>1, <3>3
      <3> QED
        BY <3>3, <3>4
    <2>2. CASE ~(k < 5)
      BY <1>4, <2>2 DEF Recoveries
    <2> QED
      BY <2>1, <2>2
  <1>8. PICK p \in [Run -> Ledger] :
           /\ \A r \in Run : p[r] # <<>> => p[r] \in down[r].journal
           /\ after = [r \in Run |-> IF p[r] = <<>> THEN down[r] ELSE Finished(down[r], p[r])]
    BY <1>7
  <1>9. ASSUME NEW r \in Run
        PROVE  /\ after[r] \in Copy
               /\ \A f \in {"decision", "record"} : after[r][f] = down[r][f]
               /\ after[r].journal \subseteq down[r].journal
               /\ \/ after[r].snapshot = down[r].snapshot
                  \/ down[r].journal # {} /\ Resolved(after[r].snapshot)
    <2>1. CASE p[r] = <<>>
      BY <1>5, <1>8, <2>1
    <2>2. CASE p[r] # <<>>
      <3>1. after[r] = Finished(down[r], p[r]) /\ p[r] \in down[r].journal /\ p[r] \in Ledger
        BY <1>8, <2>2
      <3>2. Resolved(Newest(p[r])) /\ Newest(p[r]) \in Content
        BY <1>5, <3>1, ReceivedIs DEF Journals, Resolved, Content
      <3>3. down[r] \in Copy
        BY <1>5
      <3> QED
        BY <3>1, <3>2, <3>3 DEF Finished, Copy
    <2> QED
      BY <2>1, <2>2
  <1>10. after \in [Run -> Copy]
    BY <1>8, <1>9
  <1>11. ASSUME NEW r \in Run
         PROVE  /\ \A f \in {"decision", "record"} :
                     \/ after[r][f] = cache[c][r][f]
                     \/ after[r][f] = remote[r][f] /\ remote[r][f] # Empty[f]
                /\ after[r].journal \subseteq cache[c][r].journal \cup remote[r].journal
                /\ \/ after[r].snapshot = cache[c][r].snapshot
                   \/ after[r].snapshot = remote[r].snapshot /\ remote[r].snapshot # Absent
                   \/ /\ cache[c][r].journal \cup remote[r].journal # {}
                      /\ Resolved(after[r].snapshot)
                /\ success =>
                     /\ after[r].journal = {}
                     /\ remote[r].decision # Absent => after[r].decision = remote[r].decision
                     /\ \/ Resolved(after[r].snapshot)
                        \/ remote[r].snapshot # Absent => after[r].snapshot = remote[r].snapshot
    <2>1. /\ down[r] = Received(cache[c][r], remote[r], k)
          /\ cache[c][r] \in Copy /\ remote[r] \in Copy
      BY <1>5
    <2>2. /\ \A f \in {"decision", "record", "events", "snapshot"} :
                \/ down[r][f] = cache[c][r][f]
                \/ down[r][f] = remote[r][f] /\ remote[r][f] # Empty[f]
          /\ down[r].journal \subseteq cache[c][r].journal \cup remote[r].journal
          /\ k = 5 => \A f \in {"decision", "record", "events", "snapshot"} :
                remote[r][f] # Empty[f] => down[r][f] = remote[r][f]
      BY <2>1, ReceivedIs, SMTT(20)
    <2>3. /\ \A f \in {"decision", "record"} :
                \/ after[r][f] = cache[c][r][f]
                \/ after[r][f] = remote[r][f] /\ remote[r][f] # Empty[f]
          /\ after[r].journal \subseteq cache[c][r].journal \cup remote[r].journal
      BY <1>9, <2>2
    <2>4. \/ down[r].snapshot = cache[c][r].snapshot
          \/ down[r].snapshot = remote[r].snapshot /\ remote[r].snapshot # Absent
      BY <2>2, Files
    <2>5. \/ after[r].snapshot = cache[c][r].snapshot
          \/ after[r].snapshot = remote[r].snapshot /\ remote[r].snapshot # Absent
          \/ /\ cache[c][r].journal \cup remote[r].journal # {}
             /\ Resolved(after[r].snapshot)
      BY <1>9, <2>2, <2>4
    <2>6. ASSUME success
          PROVE  /\ after[r].journal = {}
                 /\ remote[r].decision # Absent => after[r].decision = remote[r].decision
                 /\ \/ Resolved(after[r].snapshot)
                    \/ remote[r].snapshot # Absent => after[r].snapshot = remote[r].snapshot
      <3>1. k = 5 /\ after[r].journal = {}
        BY <1>4, <2>6
      <3>2. /\ remote[r].decision # Absent => down[r].decision = remote[r].decision
            /\ remote[r].snapshot # Absent => down[r].snapshot = remote[r].snapshot
        BY <2>2, <3>1, Files
      <3> QED
        BY <1>9, <3>1, <3>2
    <2> QED
      BY <2>3, <2>5, <2>6
  <1> QED
    BY <1>6, <1>10, <1>11

(* An upload writes one file of one run from the cache to S3.              *)
LEMMA Uploads ==
    ASSUME TypeOK, NEW c \in Container, Upload(c)
    PROVE  \E r \in Run, f \in DOMAIN Empty :
             /\ <<r, f>> \in queue[c] /\ queue' = [queue EXCEPT ![c] = @ \ {<<r, f>>}]
             /\ remote' \in [Run -> Copy]
             /\ \A s \in Run : s # r => remote'[s] = remote[s]
             /\ \A g \in DOMAIN Empty : g # f => remote'[r][g] = remote[r][g]
             /\ f # "journal" => remote'[r][f] = IF cache[c][r][f] = Empty[f] THEN remote[r][f]
                  ELSE cache[c][r][f]
             /\ remote'[r].journal \subseteq remote[r].journal \cup cache[c][r].journal
  <1>1. PICK u \in queue[c] :
          /\ remote' = [remote EXCEPT ![u[1]][u[2]] = Copied(remote[u[1]], cache[c][u[1]], u[2])]
          /\ queue' = [queue EXCEPT ![c] = @ \ {u}]
    BY DEF Upload
  <1>2. queue[c] \subseteq Run \X DOMAIN Empty
    BY DEF TypeOK
  <1>3. PICK r \in Run, f \in DOMAIN Empty : u = <<r, f>>
    BY <1>1, <1>2
  <1>4. PICK old \in Copy : old = remote[r]
    BY DEF TypeOK
  <1>5. PICK new \in Copy : new = cache[c][r]
    BY DEF TypeOK
  <1>6. PICK x : x = Copied(old, new, f)
    OBVIOUS
  <1>7. remote' = [remote EXCEPT ![r] = [old EXCEPT ![f] = x]]
    BY <1>1, <1>3, <1>4, <1>5, <1>6
  <1>8. /\ f # "journal" => x = IF new[f] = Empty[f] THEN old[f] ELSE new[f]
        /\ f = "journal" => x = old.journal \cup new.journal
    BY <1>6, CopiedIs
  <1>9. PICK copy : copy = [old EXCEPT ![f] = x]
    OBVIOUS
  <1>10. /\ copy[f] = x /\ \A g \in DOMAIN Empty : g # f => copy[g] = old[g]
         /\ copy = [decision |-> copy.decision, record |-> copy.record, events |-> copy.events,
                    snapshot |-> copy.snapshot, journal |-> copy.journal]
    BY <1>9, Files DEF Copy
  <1>11. copy \in Copy
    <2>1. /\ old.decision \in Content /\ old.record \in {Absent} \cup SUBSET Token
          /\ old.events \in Ledger /\ old.snapshot \in Content /\ old.journal \subseteq Ledger
          /\ new.decision \in Content /\ new.record \in {Absent} \cup SUBSET Token
          /\ new.events \in Ledger /\ new.snapshot \in Content /\ new.journal \subseteq Ledger
      BY CopyIs
    <2>2. \A g \in DOMAIN Empty : IF g = "journal" THEN copy[g] \subseteq old.journal \cup new.journal
                                  ELSE copy[g] = old[g] \/ copy[g] = new[g]
      BY <1>8, <1>10
    <2>3. /\ copy.decision \in Content /\ copy.record \in {Absent} \cup SUBSET Token
          /\ copy.events \in Ledger /\ copy.snapshot \in Content /\ copy.journal \subseteq Ledger
      BY <2>1, <2>2, Files
    <2> QED
      BY <1>10, <2>3, CopyIs
  <1>12. /\ remote \in [Run -> Copy] /\ remote' = [remote EXCEPT ![r] = copy]
    BY <1>7, <1>9 DEF TypeOK
  <1>13. /\ remote' \in [Run -> Copy] /\ remote'[r] = copy /\ \A s \in Run : s # r => remote'[s] = remote[s]
    BY <1>11, <1>12
  <1>14. copy.journal \subseteq old.journal \cup new.journal
    BY <1>8, <1>10, Files
  <1>15. /\ <<r, f>> \in queue[c] /\ queue' = [queue EXCEPT ![c] = @ \ {<<r, f>>}]
         /\ \A g \in DOMAIN Empty : g # f => remote'[r][g] = remote[r][g]
         /\ f # "journal" => remote'[r][f] = IF cache[c][r][f] = Empty[f] THEN remote[r][f]
              ELSE cache[c][r][f]
         /\ remote'[r].journal \subseteq remote[r].journal \cup cache[c][r].journal
    BY <1>1, <1>3, <1>4, <1>5, <1>8, <1>10, <1>13, <1>14, ZenonT(40)
  <1> QED
    BY <1>13, <1>15

-----------------------------------------------------------------------------
(* A request that is not idle has a run and a lease of its own token.      *)
LEMMA Held ==
    ASSUME IInv, NEW c \in Container, client[c].at # "idle"
    PROVE  client[c].run \in Run /\ client[c].body \in Body /\ client[c].body.token \in Token
  BY DEF IInv, Serving, Body, Token

(* Append to a ledger of one event.                                        *)
LEMMA TwoEvents ==
    ASSUME NEW a, NEW b
    PROVE  Append(<<a>>, b) = <<a, b>>
  <1>1. /\ <<a>> \in Seq({a, b}) /\ <<a, b>> \in Seq({a, b})
        /\ Len(<<a>>) = 1 /\ Len(<<a, b>>) = 2
    OBVIOUS
  <1>2. Append(<<a>>, b) \in Seq({a, b}) /\ Len(Append(<<a>>, b)) = 2
    BY <1>1
  <1>3. \A i \in 1..2 : Append(<<a>>, b)[i] = <<a, b>>[i]
    OBVIOUS
  <1> QED
    BY <1>1, <1>2, <1>3, SeqEqual

(* A resolution that completes has written its token to the decision, the  *)
(* record and the snapshot; one that fails on the way goes to the release  *)
(* of the lease.                                                           *)
LEMMA Resolves ==
    ASSUME Typed, NEW c \in Container, NEW r \in Run, client[c].at = "held",
           Resolvable(cache[c][r]), Resolve(c, r)
    PROVE  \E new \in Copy, n \in Token :
             /\ cache' = [cache EXCEPT ![c][r] = new] /\ n = client[c].body.token
             /\ stage' \in {[stage EXCEPT ![c] = "list"], [stage EXCEPT ![c] = "release"]}
             /\ new.decision # Absent /\ new.record # Absent /\ new.snapshot # Absent
             /\ \A j \in new.journal :
                  j \in cache[c][r].journal \/ (j \in Ledger /\ j # <<>> /\ Resolved(Newest(j)))
             /\ stage'[c] = "list" =>
                  /\ new.decision = n /\ new.snapshot = n /\ n \in new.record
                  /\ new.journal = cache[c][r].journal
  <1>1. PICK old \in Copy : old = cache[c][r]
    BY DEF Typed, TypeOK
  <1>2. PICK n \in Token : n = client[c].body.token
    BY Held DEF Typed
  <1>3. PICK k \in 0..6 : /\ cache' = [cache EXCEPT ![c][r] = Written(old, n, k)]
                          /\ Stage(c, IF k = 6 THEN "list" ELSE "release")
    <2>1. PICK k \in 0..AllWrites : /\ cache' = [cache EXCEPT ![c][r] = Written(@, client[c].body.token, k)]
                                    /\ Stage(c, IF k = AllWrites THEN "list" ELSE "release")
      BY DEF Resolve
    <2>2. AllWrites = 6
      BY DEF AllWrites
    <2>3. cache' = [cache EXCEPT ![c][r] = Written(old, n, k)]
      BY <1>1, <1>2, <2>1
    <2> QED
      BY <2>1, <2>2, <2>3
  <1>4. PICK ledger : ledger = Append(old.events, n)
    OBVIOUS
  <1>5. ledger \in Ledger /\ ledger # <<>> /\ Newest(ledger) = n
    <2>1. old.events = <<>> \/ old.events = <<Awaiting>>
      <3>1. old.events # <<>> => old.events[Len(old.events)] = Awaiting
        BY <1>1 DEF Resolvable, Loads, Newest
      <3>2. old.events \in Ledger
        BY CopyIs
      <3>3. ASSUME NEW m \in Token
            PROVE  old.events # <<m>> /\ old.events # <<Awaiting, m>>
        <4>1. <<m>> # <<>> /\ <<m>>[Len(<<m>>)] = m
          OBVIOUS
        <4>2. <<Awaiting, m>> # <<>> /\ <<Awaiting, m>>[Len(<<Awaiting, m>>)] = m
          OBVIOUS
        <4>3. m # Awaiting
          BY Files
        <4> QED
          BY <3>1, <4>1, <4>2, <4>3
      <3> QED
        BY <3>2, <3>3 DEF Ledger
    <2>2. CASE old.events = <<>>
      <3>1. ledger = <<n>>
        BY <1>4, <2>2
      <3> QED
        BY <3>1 DEF Ledger, Newest
    <2>3. CASE old.events = <<Awaiting>>
      <3>1. ledger = <<Awaiting, n>>
        BY <1>4, <2>3, TwoEvents
      <3> QED
        BY <3>1 DEF Ledger, Newest
    <2> QED
      BY <2>1, <2>2, <2>3
  <1>6. PICK new : new = Written(old, n, k)
    OBVIOUS
  <1>7. new = [ decision |-> IF k >= 1 THEN n ELSE old.decision,
                record   |-> IF k >= 2 THEN old.record \cup {n} ELSE old.record,
                journal  |-> IF k \in 3..5 THEN old.journal \cup {ledger} ELSE old.journal,
                events   |-> IF k >= 4 THEN ledger ELSE old.events,
                snapshot |-> IF k >= 5 THEN n ELSE old.snapshot ]
    BY <1>4, <1>6 DEF Written
  <1>8. /\ old.decision = Awaiting /\ old.snapshot = Awaiting /\ old.record # Absent
        /\ old.record \in SUBSET Token
    BY <1>1, CopyIs DEF Resolvable
  <1>9. /\ new.decision = IF k >= 1 THEN n ELSE Awaiting
        /\ new.record = IF k >= 2 THEN old.record \cup {n} ELSE old.record
        /\ new.journal = IF k \in 3..5 THEN old.journal \cup {ledger} ELSE old.journal
        /\ new.events = IF k >= 4 THEN ledger ELSE old.events
        /\ new.snapshot = IF k >= 5 THEN n ELSE Awaiting
    BY <1>7, <1>8
  <1>10. new \in Copy
    <2>1. /\ new.decision \in Content /\ new.record \in {Absent} \cup SUBSET Token
          /\ new.events \in Ledger /\ new.snapshot \in Content /\ new.journal \subseteq Ledger
      BY <1>5, <1>8, <1>9, CopyIs DEF Content
    <2> QED
      BY <1>7, <2>1, CopyIs
  <1>11. new.decision # Absent /\ new.snapshot # Absent
    BY <1>9, Files
  <1>12. new.record # Absent
    <2>1. CASE k >= 2
      BY <1>8, <1>9, <2>1, Files
    <2>2. CASE ~(k >= 2)
      BY <1>8, <1>9, <2>2
    <2> QED
      BY <2>1, <2>2
  <1>13. \A j \in new.journal : j \in cache[c][r].journal \/ (j \in Ledger /\ j # <<>> /\ Resolved(Newest(j)))
    BY <1>1, <1>5, <1>9 DEF Resolved
  <1>14. k = 6 => /\ new.decision = n /\ new.snapshot = n /\ n \in new.record
                  /\ new.journal = old.journal
    BY <1>9
  <1>15. /\ stage' \in {[stage EXCEPT ![c] = "list"], [stage EXCEPT ![c] = "release"]}
         /\ stage'[c] = "list" => k = 6
    BY <1>3 DEF Typed, TypeOK, Stage
  <1>16. cache' = [cache EXCEPT ![c][r] = new]
    BY <1>3, <1>6
  <1> QED
    BY <1>1, <1>2, <1>10, <1>11, <1>12, <1>13, <1>14, <1>15, <1>16

-----------------------------------------------------------------------------
(* The passing of time leaves a request where it is in the lease's         *)
(* protocol.                                                               *)
LEMMA Ticking ==
    ASSUME IInv, Tick, NEW c \in Container
    PROVE  /\ client'[c].at = client[c].at /\ client'[c].run = client[c].run
           /\ client'[c].body.token = client[c].body.token
           /\ client'[c].body = None <=> client[c].body = None
           /\ client'[c].body = Older(client[c].body)
  <1>1. client[c] \in Client
    BY DEF IInv, LeaseTypeOK
  <1>2. client'[c] = [client[c] EXCEPT !.body = Older(client[c].body)]
    BY DEF Tick
  <1>3. /\ client'[c].at = client[c].at /\ client'[c].run = client[c].run
        /\ client'[c].body = Older(client[c].body)
    BY <1>1, <1>2 DEF Client
  <1>4. CASE client[c].body = None
    BY <1>3, <1>4 DEF Older
  <1>5. CASE client[c].body # None
    <2>1. client[c].body \in Body
      BY <1>1, <1>5 DEF Client
    <2>2. Older(client[c].body) \in Body /\ Older(client[c].body).token = client[c].body.token
      <3>1. PICK b \in Body : b = client[c].body
        BY <2>1
      <3>2. b.token \in 1..MaxTokens /\ b.left \in 0..Ttl /\ b # None
        BY <1>5, <3>1 DEF Body
      <3>3. CASE b.left = 0
        BY <3>1, <3>3 DEF Older
      <3>4. CASE b.left # 0
        <4>1. Older(b) = [b EXCEPT !.left = b.left - 1] /\ b.left - 1 \in 0..Ttl
          BY <3>2, <3>4, LeaseAssumption DEF Older
        <4>2. [b EXCEPT !.left = b.left - 1] \in Body /\ [b EXCEPT !.left = b.left - 1].token = b.token
          BY <4>1 DEF Body
        <4> QED
          BY <3>1, <4>1, <4>2
      <3> QED
        BY <3>3, <3>4
    <2> QED
      BY <1>3, <1>5, <2>2, NoneIsNoBody
  <1> QED
    BY <1>3, <1>4, <1>5

(* Where the lease's calls leave a request.                                *)
LEMMA Clients ==
    ASSUME IInv, NEW c \in Container
    PROVE  /\ \A r \in Run : Acquire(c, r) =>
                client[c].at = "idle" /\ client' = [client EXCEPT ![c] = client'[c]] /\ client'[c].at = "create"
           /\ Coordinate(c) =>
                /\ client' = [client EXCEPT ![c] = client'[c]]
                /\ client[c].at \in {"create", "read", "recreate", "takeover"}
                /\ client'[c].at \in {"idle", "read", "recreate", "takeover", "held"}
           /\ Release(c) \/ Kill(c) => client' = [client EXCEPT ![c] = Idle] /\ client'[c].at = "idle"
  <1>1. client \in [Container -> Client]
    BY DEF IInv, LeaseTypeOK
  <1>2. ASSUME NEW r \in Run, Acquire(c, r)
        PROVE  client[c].at = "idle" /\ client' = [client EXCEPT ![c] = client'[c]] /\ client'[c].at = "create"
    BY <1>1, <1>2 DEF Acquire
  <1>3. ASSUME Coordinate(c)
        PROVE  /\ client' = [client EXCEPT ![c] = client'[c]]
               /\ client[c].at \in {"create", "read", "recreate", "takeover"}
               /\ client'[c].at \in {"idle", "read", "recreate", "takeover", "held"}
    <2>1. client[c] \in Client
      BY <1>1
    <2>2. ASSUME NEW l \in {"read", "recreate", "held"}, Goto(c, l)
          PROVE  client' = [client EXCEPT ![c] = client'[c]] /\ client'[c].at = l
      BY <1>1, <2>1, <2>2 DEF Goto, Client
    <2>3. ASSUME Leave(c)
          PROVE  client' = [client EXCEPT ![c] = client'[c]] /\ client'[c].at = "idle"
      BY <1>1, <2>3 DEF Leave, Idle
    <2>4. CASE TryCreate(c)
      BY <2>2, <2>3, <2>4 DEF TryCreate
    <2>5. CASE Read(c)
      <3>1. ASSUME NEW t, client' = [client EXCEPT ![c].at = "takeover", ![c].seen = t]
            PROVE  client' = [client EXCEPT ![c] = client'[c]] /\ client'[c].at = "takeover"
        BY <1>1, <2>1, <3>1 DEF Client
      <3> QED
        BY <2>2, <2>3, <2>5, <3>1 DEF Read
    <2>6. CASE TryTakeover(c)
      BY <2>2, <2>3, <2>6 DEF TryTakeover
    <2> QED
      BY <1>3, <2>4, <2>5, <2>6 DEF Coordinate
  <1>4. ASSUME Release(c) \/ Kill(c)
        PROVE  client' = [client EXCEPT ![c] = Idle] /\ client'[c].at = "idle"
    BY <1>1, <1>4 DEF Release, Kill, Leave, Idle
  <1> QED
    BY <1>2, <1>3, <1>4

(* Every step keeps a request's stage in accordance with the lease's       *)
(* protocol.                                                               *)
LEMMA StagedStep == Typed /\ [Next]_vars => Staged' /\ stage' \in [Container ->
                             {"idle", "acquire", "refresh", "recheck", "list", "upload", "answer", "release"}]
  <1> DEFINE Label == {"idle", "acquire", "refresh", "recheck", "list", "upload", "answer", "release"}
  <1> SUFFICES ASSUME Typed, [Next]_vars
               PROVE  Staged' /\ stage' \in [Container -> Label]
    OBVIOUS
  <1>1. IInv /\ Staged /\ stage \in [Container -> Label] /\ client \in [Container -> Client]
    BY DEF Typed, TypeOK, LeaseTypeOK
  <1>2. ASSUME NEW c \in Container, NEW l \in Label, stage' = [stage EXCEPT ![c] = l],
               client' = [client EXCEPT ![c] = client'[c]],
               l = "idle" => client'[c].at = "idle",
               l = "acquire" => client'[c].at \in {"create", "read", "recreate", "takeover"},
               l \in {"refresh", "recheck", "answer", "release"} => client'[c].at = "held",
               l \in {"list", "upload"} => client'[c].at \in {"idle", "held"}
        PROVE  Staged' /\ stage' \in [Container -> Label]
    BY <1>1, <1>2 DEF Staged
  <1>3. ASSUME UNCHANGED <<stage, client>>
        PROVE  Staged' /\ stage' \in [Container -> Label]
    BY <1>1, <1>3 DEF Staged
  <1>4. UNCHANGED leaseVars => UNCHANGED client /\ \A c \in Container : client' = [client EXCEPT ![c] = client'[c]]
    BY <1>1 DEF leaseVars
  <1>5. CASE UNCHANGED vars
    BY <1>3, <1>5 DEF vars, leaseVars, cloudVars
  <1>6. CASE Pass
    <2>1. UNCHANGED stage /\ Tick
      BY <1>6 DEF Pass, cloudVars
    <2> QED
      BY <1>1, <2>1, Ticking DEF Staged
  <1>7. ASSUME NEW c \in Container, SyncIndex(c)
        PROVE  Staged' /\ stage' \in [Container -> Label]
    BY <1>3, <1>4, <1>7 DEF SyncIndex
  <1>8. ASSUME NEW c \in Container, NEW r \in Run, Submit(c, r)
        PROVE  Staged' /\ stage' \in [Container -> Label]
    BY <1>1, <1>2, <1>8, Clients DEF Submit, Stage
  <1>9. ASSUME NEW c \in Container, NEW r \in Run, CreateRun(c, r)
        PROVE  Staged' /\ stage' \in [Container -> Label]
    <2>1. client'[c].at = "idle" /\ stage' = [stage EXCEPT ![c] = "list"]
      BY <1>1, <1>4, <1>9 DEF CreateRun, Stage, Staged
    <2> QED
      BY <1>2, <1>4, <1>9, <2>1 DEF CreateRun
  <1>10. ASSUME NEW c \in Container, Lease(c)
         PROVE  Staged' /\ stage' \in [Container -> Label]
    <2>1. PICK l : l = CASE client'[c].at = "held" -> "refresh" [] client'[c].at = "idle" -> "idle" [] OTHER -> "acquire"
      OBVIOUS
    <2>2. client'[c].at \in {"idle", "read", "recreate", "takeover", "held"} /\ client' = [client EXCEPT ![c] = client'[c]]
      BY <1>1, <1>10, Clients DEF Lease
    <2>3. /\ client'[c].at = "held" => l = "refresh"
          /\ client'[c].at = "idle" => l = "idle"
          /\ client'[c].at \in {"read", "recreate", "takeover"} => l = "acquire"
      BY <2>1
    <2>4. stage' = [stage EXCEPT ![c] = l]
      BY <1>10, <2>1 DEF Lease, Stage
    <2> QED
      BY <1>2, <2>2, <2>3, <2>4
  <1>11. ASSUME NEW c \in Container, Refresh(c)
         PROVE  Staged' /\ stage' \in [Container -> Label]
    <2>1. PICK success \in BOOLEAN : stage' = [stage EXCEPT ![c] = IF success THEN "recheck" ELSE "release"]
      BY <1>11 DEF Refresh, Stage
    <2>2. client'[c].at = "held" /\ client' = [client EXCEPT ![c] = client'[c]]
      BY <1>1, <1>4, <1>11 DEF Refresh, Staged
    <2> QED
      BY <1>2, <2>1, <2>2
  <1>12. ASSUME NEW c \in Container, Recheck(c)
         PROVE  Staged' /\ stage' \in [Container -> Label]
    <2>1. stage' = [stage EXCEPT ![c] = "list"] \/ stage' = [stage EXCEPT ![c] = "release"]
      BY <1>12 DEF Recheck, Resolve, Stage
    <2>2. client'[c].at = "held" /\ client' = [client EXCEPT ![c] = client'[c]]
      BY <1>1, <1>4, <1>12 DEF Recheck, Staged
    <2> QED
      BY <1>2, <2>1, <2>2
  <1>13. ASSUME NEW c \in Container, ListRemote(c)
         PROVE  Staged' /\ stage' \in [Container -> Label]
    <2>1. client'[c].at \in {"idle", "held"} /\ client' = [client EXCEPT ![c] = client'[c]]
      BY <1>1, <1>4, <1>13 DEF ListRemote, Staged
    <2> QED
      BY <1>2, <1>13, <2>1 DEF ListRemote, Stage
  <1>14. ASSUME NEW c \in Container, Upload(c)
         PROVE  Staged' /\ stage' \in [Container -> Label]
    BY <1>3, <1>4, <1>14 DEF Upload
  <1>15. ASSUME NEW c \in Container, Uploaded(c) \/ Fail(c)
         PROVE  Staged' /\ stage' \in [Container -> Label]
    <2>1. client'[c].at \in {"idle", "held"} /\ client' = [client EXCEPT ![c] = client'[c]] /\ UNCHANGED client
      BY <1>1, <1>4, <1>15 DEF Uploaded, Fail, Staged
    <2>2. PICK l \in {"answer", "idle", "release"} :
            /\ stage' = [stage EXCEPT ![c] = l]
            /\ l = "idle" <=> client[c].at # "held"
      BY <1>15 DEF Uploaded, Fail, Stage
    <2> QED
      BY <1>2, <2>1, <2>2
  <1>16. ASSUME NEW c \in Container, Finish(c) \/ Die(c)
         PROVE  Staged' /\ stage' \in [Container -> Label]
    <2>1. stage' = [stage EXCEPT ![c] = "idle"] /\ client'[c].at = "idle" /\ client' = [client EXCEPT ![c] = client'[c]]
      BY <1>1, <1>16, Clients DEF Finish, Die, Stage
    <2> QED
      BY <1>2, <2>1
  <1> QED
    BY <1>5, <1>6, <1>7, <1>8, <1>9, <1>10, <1>11, <1>12, <1>13, <1>14, <1>15, <1>16 DEF Next

-----------------------------------------------------------------------------
(* Every step keeps the copies' types, and the journals those of           *)
(* resolutions.                                                            *)
LEMMA JournalsStep == Typed /\ [Next]_vars =>
                        /\ Journals'
                        /\ remote' \in [Run -> Copy] /\ cache' \in [Container -> [Run -> Copy]]
                        /\ synced' \in [Container -> BOOLEAN]
  <1> DEFINE Good == /\ remote' \in [Run -> Copy] /\ cache' \in [Container -> [Run -> Copy]]
                     /\ synced' \in [Container -> BOOLEAN]
             Fair(j) == j \in Ledger /\ j # <<>> /\ Resolved(Newest(j))
  <1> SUFFICES ASSUME Typed, [Next]_vars
               PROVE  Journals' /\ Good
    OBVIOUS
  <1>1. /\ IInv /\ TypeOK /\ Staged /\ Journals
        /\ remote \in [Run -> Copy] /\ cache \in [Container -> [Run -> Copy]]
        /\ synced \in [Container -> BOOLEAN]
    BY DEF Typed, TypeOK
  <1>2. /\ \A j : Fair(j)' <=> Fair(j)
        /\ \A r \in Run, c \in Container : \A j \in remote[r].journal \cup cache[c][r].journal : Fair(j)
    BY <1>1 DEF Journals
  <1>3. ASSUME UNCHANGED <<remote, cache, synced>>
        PROVE  Journals' /\ Good
    BY <1>1, <1>3 DEF Journals
  <1>4. ASSUME NEW c \in Container, NEW success, SyncDown(c, success), UNCHANGED remote
        PROVE  Journals' /\ Good
    <2>1. /\ cache' = [cache EXCEPT ![c] = cache'[c]] /\ cache'[c] \in [Run -> Copy]
          /\ synced' \in [Container -> BOOLEAN]
          /\ \A r \in Run : cache'[c][r].journal \subseteq cache[c][r].journal \cup remote[r].journal
      BY <1>1, <1>4, Synced
    <2>2. Good
      BY <1>1, <1>4, <2>1
    <2>3. ASSUME NEW d \in Container, NEW r \in Run, NEW j \in remote'[r].journal \cup cache'[d][r].journal
          PROVE  Fair(j)
      BY <1>1, <1>2, <1>4, <2>1, <2>3
    <2> QED
      BY <2>2, <2>3 DEF Journals
  <1>5. ASSUME NEW c \in Container, NEW r \in Run, NEW new \in Copy, cache' = [cache EXCEPT ![c][r] = new],
               \A j \in new.journal : j \in cache[c][r].journal \/ Fair(j), UNCHANGED <<remote, synced>>
        PROVE  Journals' /\ Good
    <2>1. Good
      BY <1>1, <1>5
    <2>2. ASSUME NEW d \in Container, NEW s \in Run, NEW j \in remote'[s].journal \cup cache'[d][s].journal
          PROVE  Fair(j)
      <3>1. cache'[d][s] = IF d = c /\ s = r THEN new ELSE cache[d][s]
        BY <1>1, <1>5
      <3> QED
        BY <1>2, <1>5, <2>2, <3>1
    <2> QED
      BY <2>1, <2>2 DEF Journals
  <1>6. CASE UNCHANGED vars
    BY <1>3, <1>6 DEF vars, leaseVars, cloudVars
  <1>7. CASE Pass
    BY <1>3, <1>7 DEF Pass, cloudVars
  <1>8. ASSUME NEW c \in Container, SyncIndex(c) \/ Refresh(c)
        PROVE  Journals' /\ Good
    BY <1>4, <1>8 DEF SyncIndex, Refresh
  <1>9. ASSUME NEW c \in Container, NEW r \in Run, CreateRun(c, r)
        PROVE  Journals' /\ Good
    <2>1. Paused \in Copy /\ Paused.journal = {}
      BY Files
    <2> QED
      BY <1>5, <1>9, <2>1 DEF CreateRun
  <1>10. ASSUME NEW c \in Container, Recheck(c)
         PROVE  Journals' /\ Good
    <2>1. client[c].at = "held"
      BY <1>1, <1>10 DEF Recheck, Staged
    <2>2. PICK r \in Run : r = client[c].run
      BY <1>1, <2>1, Held
    <2>3. CASE Resolvable(cache[c][r])
      <3>1. Resolve(c, r) /\ UNCHANGED <<remote, synced>>
        BY <1>10, <2>2, <2>3 DEF Recheck
      <3>2. \E new \in Copy : /\ cache' = [cache EXCEPT ![c][r] = new]
                              /\ \A j \in new.journal : j \in cache[c][r].journal \/ Fair(j)
        BY <2>1, <2>3, <3>1, Resolves
      <3> QED
        BY <1>5, <3>1, <3>2
    <2>4. CASE ~Resolvable(cache[c][r])
      BY <1>3, <1>10, <2>2, <2>4 DEF Recheck
    <2> QED
      BY <2>3, <2>4
  <1>11. ASSUME NEW c \in Container, Upload(c)
         PROVE  Journals' /\ Good
    <2>1. PICK r \in Run : /\ remote' \in [Run -> Copy]
                           /\ \A s \in Run : s # r => remote'[s] = remote[s]
                           /\ \/ remote'[r].journal = remote[r].journal
                              \/ remote'[r].journal \subseteq remote[r].journal \cup cache[c][r].journal
      BY <1>1, <1>11, Uploads
    <2>2. UNCHANGED <<cache, synced>>
      BY <1>11 DEF Upload
    <2>3. ASSUME NEW d \in Container, NEW s \in Run, NEW j \in remote'[s].journal \cup cache'[d][s].journal
          PROVE  Fair(j)
      BY <1>2, <2>1, <2>2, <2>3
    <2> QED
      BY <1>1, <2>1, <2>2, <2>3 DEF Journals
  <1>12. ASSUME NEW c \in Container, Die(c)
         PROVE  Journals' /\ Good
    <2>1. /\ cache' = [cache EXCEPT ![c] = [r \in Run |-> Empty]] /\ UNCHANGED remote
          /\ synced' = [synced EXCEPT ![c] = FALSE]
      BY <1>12 DEF Die
    <2>2. Empty \in Copy /\ Empty.journal = {}
      BY Files
    <2>3. Good
      BY <1>1, <2>1, <2>2
    <2>4. ASSUME NEW d \in Container, NEW s \in Run, NEW j \in remote'[s].journal \cup cache'[d][s].journal
          PROVE  Fair(j)
      <3>1. cache'[d][s] = IF d = c THEN Empty ELSE cache[d][s]
        BY <1>1, <2>1
      <3> QED
        BY <1>2, <2>1, <2>2, <2>4, <3>1
    <2> QED
      BY <2>3, <2>4 DEF Journals
  <1>13. ASSUME NEW c \in Container,
                \/ Lease(c) \/ ListRemote(c) \/ Uploaded(c) \/ Fail(c) \/ Finish(c)
                \/ \E r \in Run : Submit(c, r)
         PROVE  Journals' /\ Good
    BY <1>3, <1>13 DEF Lease, ListRemote, Uploaded, Fail, Finish, Submit
  <1> QED
    BY <1>6, <1>7, <1>8, <1>9, <1>10, <1>11, <1>12, <1>13 DEF Next

(* Every step keeps the types of the queues and the answers.               *)
LEMMA RequestsStep == Typed /\ [Next]_vars =>
                        /\ queue' \in [Container -> SUBSET (Run \X DOMAIN Empty)]
                        /\ answered' \subseteq [run : Run, token : Token]
  <1> SUFFICES ASSUME Typed, [Next]_vars
               PROVE  /\ queue' \in [Container -> SUBSET (Run \X DOMAIN Empty)]
                      /\ answered' \subseteq [run : Run, token : Token]
    OBVIOUS
  <1>1. /\ IInv /\ Staged /\ queue \in [Container -> SUBSET (Run \X DOMAIN Empty)]
        /\ answered \subseteq [run : Run, token : Token]
    BY DEF Typed, TypeOK
  <1>2. ASSUME NEW c \in Container, NEW q \in SUBSET (Run \X DOMAIN Empty), queue' = [queue EXCEPT ![c] = q]
        PROVE  queue' \in [Container -> SUBSET (Run \X DOMAIN Empty)]
    BY <1>1, <1>2
  <1>3. \/ UNCHANGED queue
        \/ \E c \in Container, q \in SUBSET (Run \X DOMAIN Empty) : queue' = [queue EXCEPT ![c] = q]
    <2>1. ASSUME NEW c \in Container, ListRemote(c)
          PROVE  \E q \in SUBSET (Run \X DOMAIN Empty) : queue' = [queue EXCEPT ![c] = q]
      <3>1. PICK q : /\ queue' = [queue EXCEPT ![c] = q]
                     /\ q = {u \in Run \X DOMAIN Empty :
                               Copied(remote[u[1]], cache[c][u[1]], u[2]) # remote[u[1]][u[2]]}
        BY <2>1 DEF ListRemote
      <3> QED
        BY <3>1
    <2>2. ASSUME NEW c \in Container, Upload(c)
          PROVE  \E q \in SUBSET (Run \X DOMAIN Empty) : queue' = [queue EXCEPT ![c] = q]
      <3>1. PICK q : queue' = [queue EXCEPT ![c] = q] /\ q \subseteq queue[c]
        BY <2>2 DEF Upload
      <3> QED
        BY <1>1, <3>1
    <2>3. ASSUME NEW c \in Container, Fail(c) \/ Die(c)
          PROVE  \E q \in SUBSET (Run \X DOMAIN Empty) : queue' = [queue EXCEPT ![c] = q]
      BY <2>3 DEF Fail, Die
    <2> QED
      BY <2>1, <2>2, <2>3
         DEF Next, vars, cloudVars, Pass, SyncIndex, Submit, CreateRun, Lease, Refresh, Recheck, Uploaded,
             Finish
  <1>4. answered' \subseteq [run : Run, token : Token]
    <2>1. ASSUME NEW c \in Container, Finish(c)
          PROVE  answered' \subseteq [run : Run, token : Token]
      <3>1. client[c].at = "held"
        BY <1>1, <2>1 DEF Finish, Staged
      <3>2. [run |-> client[c].run, token |-> client[c].body.token] \in [run : Run, token : Token]
        BY <1>1, <3>1, Held
      <3> QED
        BY <1>1, <2>1, <3>2 DEF Finish
    <2>2. (\A c \in Container : ~Finish(c)) => UNCHANGED answered
      BY DEF Next, vars, cloudVars, Pass, SyncIndex, Submit, CreateRun, Lease, Refresh, Recheck, Uploaded,
             ListRemote, Upload, Fail, Die
    <2> QED
      BY <1>1, <2>1, <2>2
  <1> QED
    BY <1>1, <1>2, <1>3, <1>4

(* So every step keeps the types, the lease's invariant among them.        *)
LEMMA TypedStep == Typed /\ [Next]_vars => Typed'
  <1> SUFFICES ASSUME Typed, [Next]_vars
               PROVE  Typed'
    OBVIOUS
  <1>1. IInv'
    BY StepIsLeaseStep, LeaseNextInv DEF Typed
  <1> QED
    BY <1>1, StagedStep, JournalsStep, RequestsStep DEF Typed, TypeOK, IInv

(* They hold at the start.                                                 *)
LEMMA TypedInit == Init => Typed
  <1> SUFFICES ASSUME Init
               PROVE  Typed
    OBVIOUS
  <1>1. IInv
    BY LeaseInitInv DEF Init
  <1>2. \A c \in Container : client[c].at = "idle"
    BY DEF Init, LeaseInit, Idle
  <1>3. /\ remote \in [Run -> Copy] /\ cache \in [Container -> [Run -> Copy]]
        /\ \A r \in Run : remote[r].journal = {}
        /\ \A c \in Container, r \in Run : cache[c][r].journal = {}
    BY Files DEF Init
  <1> QED
    BY <1>1, <1>2, <1>3 DEF Init, Typed, TypeOK, IInv, Staged, Journals

(* Whatever number of runs there is, and however long requests take, the   *)
(* mirror, the caches and the requests have their types: no sync, half-    *)
(* finished download or replay leaves a copy that is none.                 *)
THEOREM CloudTypes == Spec => []TypeOK
  <1>1. Typed => TypeOK
    BY DEF Typed
  <1> QED
    BY <1>1, TypedInit, TypedStep, PTL DEF Spec

-----------------------------------------------------------------------------
(* A step of container c's request. *)
Act(c) ==
    \/ SyncIndex(c) \/ \E r \in Run : Submit(c, r) \/ CreateRun(c, r)
    \/ Lease(c) \/ Refresh(c) \/ Recheck(c)
    \/ ListRemote(c) \/ Upload(c) \/ Uploaded(c) \/ Fail(c)
    \/ Finish(c) \/ Die(c)

(* Nothing of c's request changes but the time its lease has left. *)
Still(c) ==
    /\ stage'[c] = stage[c] /\ queue'[c] = queue[c] /\ cache'[c] = cache[c]
    /\ client'[c].at = client[c].at /\ client'[c].run = client[c].run
    /\ client'[c].body.token = client[c].body.token
    /\ client'[c].body \in {client[c].body, Older(client[c].body)}

(* A step that is not a container's own leaves its request alone.          *)
LEMMA Elsewhere ==
    ASSUME Typed, [Next]_vars, NEW d \in Container
    PROVE  Act(d) \/ Still(d)
  <1>1. /\ IInv /\ stage \in [Container -> {"idle", "acquire", "refresh", "recheck",
                                            "list", "upload", "answer", "release"}]
        /\ queue \in [Container -> SUBSET (Run \X DOMAIN Empty)]
        /\ cache \in [Container -> [Run -> Copy]] /\ client \in [Container -> Client]
        /\ TypeOK /\ Journals
    BY DEF Typed, TypeOK, LeaseTypeOK
  <1>2. CASE UNCHANGED vars
    BY <1>2 DEF vars, leaseVars, cloudVars, Still
  <1>3. CASE Pass
    BY <1>1, <1>3, Ticking DEF Pass, cloudVars, Still
  <1>4. ASSUME NEW c \in Container, c # d, Act(c)
        PROVE  Still(d)
    <2>1. stage'[d] = stage[d]
      BY <1>1, <1>4
         DEF Act, SyncIndex, Submit, CreateRun, Lease, Refresh, Recheck, Resolve, ListRemote, Upload,
             Uploaded, Fail,
             Finish, Die, Stage
    <2>2. queue'[d] = queue[d]
      BY <1>1, <1>4
         DEF Act, SyncIndex, Submit, CreateRun, Lease, Refresh, Recheck, ListRemote, Upload, Uploaded, Fail,
             Finish, Die
    <2>3. client'[d] = client[d]
      BY <1>1, <1>4, Clients
         DEF Act, SyncIndex, Submit, CreateRun, Lease, Refresh, Recheck, ListRemote, Upload, Uploaded, Fail,
             Finish, Die,
             leaseVars
    <2>4. cache'[d] = cache[d]
      <3>1. ASSUME NEW success, SyncDown(c, success)
            PROVE  cache'[d] = cache[d]
        <4>1. cache' = [cache EXCEPT ![c] = cache'[c]]
          BY <1>1, <3>1, Synced
        <4> QED
          BY <1>1, <1>4, <4>1
      <3> QED
        BY <1>1, <1>4, <3>1
           DEF Act, SyncIndex, Submit, CreateRun, Lease, Refresh, Recheck, Resolve, ListRemote, Upload,
               Uploaded, Fail,
               Finish, Die
    <2> QED
      BY <2>1, <2>2, <2>3, <2>4 DEF Still
  <1> QED
    BY <1>2, <1>3, <1>4 DEF Next, Act

(* Only sync_up's uploads write to S3.                                     *)
LEMMA RemoteKept ==
    ASSUME [Next]_vars, \A c \in Container : ~Upload(c)
    PROVE  UNCHANGED remote
  BY DEF Next, vars, cloudVars, Pass, SyncIndex, Submit, CreateRun, Lease, Refresh, Recheck, Uploaded,
     ListRemote,
         Fail, Finish, Die

(* Only a request that ends is answered.                                   *)
LEMMA AnsweredKept ==
    ASSUME [Next]_vars, \A c \in Container : ~Finish(c)
    PROVE  UNCHANGED answered
  BY DEF Next, vars, cloudVars, Pass, SyncIndex, Submit, CreateRun, Lease, Refresh, Recheck, Uploaded,
     ListRemote,
         Upload, Fail, Die

(* A step that changes a request's lease by nothing but time lets it age.  *)
LEMMA Aging ==
    ASSUME IInv, NEW c \in Container, client[c].at # "idle", Still(c), client'[c].body.left > 0
    PROVE  client[c].body.left > 0
  <1>1. PICK b \in Body : b = client[c].body
    BY Held
  <1>2. b.left \in Nat /\ b # None
    BY <1>1, NoneIsNoBody, LeaseAssumption DEF Body
  <1>3. Older(b).left > 0 => b.left > 0
    <2>1. CASE b.left = 0
      BY <2>1 DEF Older
    <2>2. CASE b.left # 0
      BY <1>2, <2>2
    <2> QED
      BY <2>1, <2>2
  <1> QED
    BY <1>1, <1>3 DEF Still

(* Two requests do not have the same token.                                *)
LEMMA Own ==
    ASSUME IInv, NEW c \in Container, NEW d \in Container, client[c].at # "idle", client[d].at # "idle",
           client[c].body.token = client[d].body.token
    PROVE  c = d
  <1>1. client[c].body \in Body /\ client[d].body \in Body
    BY Held
  <1> QED
    BY <1>1, NoneIsNoBody DEF IInv, OwnToken

(* At most one request on a run wins.                                      *)
LEMMA OneWinner ==
    ASSUME Typed, NEW R \in SUBSET Run, Won(R), NEW r \in R, NEW c \in Container, NEW d \in Container,
           Winning(c, r), Winning(d, r)
    PROVE  c = d
  <1>1. /\ IInv /\ r \in Run /\ "decision" \in Key
        /\ Holds(c, r) /\ Holds(d, r) /\ client[c].at # "idle" /\ client[d].at # "idle"
        /\ client[c].body.token \in Token /\ client[d].body.token \in Token
    BY Held DEF Typed, Key, Winning, Writing, Holds
  <1>2. ASSUME NEW a \in Container, NEW b \in Container, Winning(a, r), Winning(b, r),
               client[a].at # "idle", client[b].at # "idle", client[a].body.token \in Token,
               \A f \in Key : ~Pending(a, r, f)
        PROVE  a = b
    <2>1. /\ Mine(a, r) /\ Mine(b, r) /\ There(a, r, "decision") /\ There(b, r, "decision")
      BY <1>1, <1>2 DEF Won, Winning
    <2>2. remote[r].decision = client[a].body.token /\ Resolved(remote[r].decision)
      BY <1>1, <1>2, <2>1 DEF There, Mine, Resolved
    <2>3. remote[r].decision = client[b].body.token
      BY <2>1, <2>2 DEF There, Mine
    <2> QED
      BY <1>1, <1>2, <2>2, <2>3, Own
  <1>3. CASE client[c].body.left > 0 /\ client[d].body.left > 0
    BY <1>1, <1>3, ExclusiveHolds DEF Exclusive
  <1> QED
    BY <1>1, <1>2, <1>3 DEF Winning

(* Nothing is uploaded by a step that changes nothing.                     *)
LEMMA OrderlyStep == ASSUME NEW R PROVE [Orderly(R)]_vars => Orderly(R)
  BY DEF Orderly, Puts, vars, cloudVars

(* What an upload does to the files of a run of R: it leaves a file alone, *)
(* adds one that S3 lacks, or writes one for the holder of the lease.      *)
LEMMA Uploading ==
    ASSUME Typed, NEW R \in SUBSET Run, Orderly(R), Kept(R), Won(R), NEW r \in R,
           NEW c \in Container, Upload(c)
    PROVE  /\ stage[c] = "upload" /\ UNCHANGED <<leaseVars, cache, synced, stage, answered>>
           /\ remote'[r].journal = {}
           /\ \A f \in Key :
                IF <<r, f>> \in queue[c] \ queue'[c]
                THEN \/ /\ Live(c, r) /\ Writing(c, r) /\ Mine(c, r)
                        /\ remote'[r][f] = cache[c][r][f]
                     \/ /\ remote[r][f] = Absent /\ cache[c][r][f] = Paused[f]
                        /\ remote'[r][f] = Paused[f]
                ELSE remote'[r][f] = remote[r][f]
  <1>1. /\ stage[c] = "upload" /\ UNCHANGED <<leaseVars, cache, synced, stage, answered>>
        /\ r \in Run /\ TypeOK /\ queue \in [Container -> SUBSET (Run \X DOMAIN Empty)]
        /\ remote[r].journal = {}
    BY DEF Upload, Typed, TypeOK, Kept
  <1>2. PICK s \in Run, g \in DOMAIN Empty :
             /\ <<s, g>> \in queue[c] /\ queue' = [queue EXCEPT ![c] = @ \ {<<s, g>>}]
             /\ \A t \in Run : t # s => remote'[t] = remote[t]
             /\ \A h \in DOMAIN Empty : h # g => remote'[s][h] = remote[s][h]
             /\ g # "journal" => remote'[s][g] = IF cache[c][s][g] = Empty[g] THEN remote[s][g]
                  ELSE cache[c][s][g]
             /\ remote'[s].journal \subseteq remote[s].journal \cup cache[c][s].journal
    BY <1>1, Uploads, ZenonT(40)
  <1>3. \A f : <<r, f>> \in queue[c] \ queue'[c] <=> r = s /\ f = g
    BY <1>1, <1>2
  <1>4. /\ \A f \in Key : f \in DOMAIN Empty /\ f # "journal" /\ Empty[f] = Absent /\ Paused[f] # Absent
        /\ Paused.journal = {} /\ "journal" \in DOMAIN Empty
    BY Files DEF Key
  <1>5. CASE r # s
    <2>1. remote'[r] = remote[r]
      BY <1>1, <1>2, <1>5
    <2> QED
      BY <1>1, <1>3, <1>5, <2>1
  <1>6. CASE r = s
    <2>1. Puts(c, r, g)
      BY <1>3, <1>6 DEF Puts
    <2>2. g \in Key \cup {"journal"} =>
            \/ Live(c, r)
            \/ remote[r][g] = Empty[g] /\ cache[c][r][g] = Paused[g]
      BY <2>1 DEF Orderly
    <2>3. Live(c, r) => Writing(c, r) /\ Mine(c, r)
      BY <1>1 DEF Live, Writing, Won
    <2>4. remote'[r].journal = {}
      <3>1. CASE g # "journal"
        BY <1>1, <1>2, <1>4, <1>6, <3>1
      <3>2. CASE g = "journal"
        <4>1. cache[c][r].journal = {}
          BY <1>4, <2>2, <2>3, <3>2 DEF Mine
        <4> QED
          BY <1>1, <1>2, <1>6, <4>1
      <3> QED
        BY <3>1, <3>2
    <2>5. ASSUME NEW f \in Key, f = g
          PROVE  \/ /\ Live(c, r) /\ Writing(c, r) /\ Mine(c, r)
                    /\ remote'[r][f] = cache[c][r][f]
                 \/ /\ remote[r][f] = Absent /\ cache[c][r][f] = Paused[f]
                    /\ remote'[r][f] = Paused[f]
      <3>1. remote'[r][f] = IF cache[c][r][f] = Absent THEN remote[r][f] ELSE cache[c][r][f]
        BY <1>2, <1>4, <1>6, <2>5
      <3>2. CASE Live(c, r)
        <4>1. cache[c][r][f] # Absent
          <5>1. client[c].body.token \in Token
            BY <1>1, <3>2, Held DEF Live, Holds, Typed
          <5> QED
            BY <2>3, <3>2, <5>1, Files DEF Mine, Key
        <4> QED
          BY <2>3, <3>1, <3>2, <4>1
      <3>3. CASE ~Live(c, r)
        BY <1>4, <2>2, <2>5, <3>1, <3>3
      <3> QED
        BY <3>2, <3>3
    <2>6. ASSUME NEW f \in Key, f # g
          PROVE  remote'[r][f] = remote[r][f]
      BY <1>2, <1>4, <1>6, <2>6
    <2> QED
      BY <1>1, <1>3, <1>6, <2>4, <2>5, <2>6
  <1> QED
    BY <1>5, <1>6

(* The same of one of the files an answer is read from.                    *)
LEMMA UploadingFile ==
    ASSUME Typed, NEW R \in SUBSET Run, Orderly(R), Kept(R), Won(R), NEW r \in R,
           NEW c \in Container, Upload(c), NEW f \in Key
    PROVE  \/ remote'[r][f] = remote[r][f]
           \/ Live(c, r) /\ Writing(c, r) /\ Mine(c, r) /\ remote'[r][f] = cache[c][r][f]
           \/ remote[r][f] = Absent /\ remote'[r][f] = Paused[f]
  <1>1. IF <<r, f>> \in queue[c] \ queue'[c]
        THEN \/ /\ Live(c, r) /\ Writing(c, r) /\ Mine(c, r)
                /\ remote'[r][f] = cache[c][r][f]
             \/ /\ remote[r][f] = Absent /\ cache[c][r][f] = Paused[f]
                /\ remote'[r][f] = Paused[f]
        ELSE remote'[r][f] = remote[r][f]
    BY Uploading
  <1> QED
    BY <1>1

(* The lease's calls keep a request's run and token.                       *)
LEMMA Calling ==
    ASSUME IInv, NEW c \in Container, Coordinate(c), client'[c].at # "idle"
    PROVE  client'[c].run = client[c].run /\ client'[c].body.token = client[c].body.token
  <1>1. client \in [Container -> Client] /\ client[c] \in Client
    BY DEF IInv, LeaseTypeOK
  <1>2. ASSUME NEW l, Goto(c, l)
        PROVE  client'[c].run = client[c].run /\ client'[c].body = client[c].body
    BY <1>1, <1>2 DEF Goto, Client
  <1>3. ASSUME NEW t, client' = [client EXCEPT ![c].at = "takeover", ![c].seen = t]
        PROVE  client'[c].run = client[c].run /\ client'[c].body = client[c].body
    BY <1>1, <1>3 DEF Client
  <1>4. ~Leave(c)
    BY <1>1 DEF Leave, Idle
  <1> QED
    BY <1>2, <1>3, <1>4 DEF Coordinate, TryCreate, Read, TryTakeover

(* The tokens issued only increase.                                        *)
LEMMA Counting == IInv /\ [Next]_vars => tokens \in Nat /\ tokens' \in Nat /\ tokens =< tokens'
  <1> SUFFICES ASSUME IInv, [LeaseNext]_leaseVars
               PROVE  tokens \in Nat /\ tokens' \in Nat /\ tokens =< tokens'
    BY StepIsLeaseStep
  <1>1. tokens \in Nat
    BY LeaseAssumption DEF IInv, LeaseTypeOK
  <1>2. tokens' = tokens \/ tokens' = tokens + 1
    BY DEF LeaseNext, leaseVars, Acquire, Coordinate, TryCreate, Read, TryTakeover, Release, Kill, Tick
  <1> QED
    BY <1>1, <1>2

(* A request's token has been issued.                                      *)
LEMMA Numbered ==
    ASSUME IInv, NEW c \in Container, client[c].at # "idle"
    PROVE  client[c].body.token =< tokens
  <1>1. client[c].body \in Body
    BY Held
  <1>2. client[c].body \in Bodies
    BY <1>1, NoneIsNoBody DEF Bodies
  <1> QED
    BY <1>2 DEF IInv, Issued

(* No journal reaches S3, and no decision that has not been taken.         *)
LEMMA KeptStep ==
    ASSUME NEW R \in SUBSET Run, Typed, Kept(R), Won(R), Orderly(R), [Next]_vars
    PROVE  Kept(R)'
  <1> SUFFICES ASSUME NEW r \in R
               PROVE  remote'[r].journal = {} /\ (Resolved(remote'[r].decision) => remote'[r].decision =< tokens')
    BY DEF Kept, Resolved
  <1>1. /\ IInv /\ tokens \in Nat /\ tokens' \in Nat /\ tokens =< tokens'
        /\ remote[r].journal = {} /\ (Resolved(remote[r].decision) => remote[r].decision =< tokens)
        /\ "decision" \in Key /\ Token \subseteq Nat
    BY Counting, Files DEF Typed, Kept, Key
  <1>2. CASE \A c \in Container : ~Upload(c)
    <2>1. UNCHANGED remote
      BY <1>2, RemoteKept
    <2>2. ASSUME Resolved(remote[r].decision)
          PROVE  remote[r].decision =< tokens'
      <3>1. remote[r].decision \in Nat /\ remote[r].decision =< tokens
        BY <1>1, <2>2 DEF Resolved
      <3> QED
        BY <1>1, <3>1
    <2> QED
      BY <1>1, <2>1, <2>2 DEF Resolved
  <1>3. ASSUME NEW c \in Container, Upload(c)
        PROVE  remote'[r].journal = {} /\ (Resolved(remote'[r].decision) => remote'[r].decision =< tokens')
    <2>0. remote'[r].journal = {}
      BY <1>3, Uploading
    <2>1. \/ remote'[r].decision = remote[r].decision
          \/ Writing(c, r) /\ Mine(c, r) /\ remote'[r].decision = cache[c][r].decision
          \/ remote'[r].decision = Paused.decision
      BY <1>1, <1>3, UploadingFile
    <2>2. ~Resolved(Paused.decision)
      BY Files DEF Resolved
    <2>3. Writing(c, r) /\ Mine(c, r) => cache[c][r].decision =< tokens /\ cache[c][r].decision \in Nat
      BY <1>1, Held, Numbered DEF Writing, Holds, Mine
    <2>4. ASSUME Resolved(remote'[r].decision)
          PROVE  remote'[r].decision \in Nat /\ remote'[r].decision =< tokens
      <3>1. CASE remote'[r].decision = remote[r].decision
        BY <1>1, <2>4, <3>1 DEF Resolved
      <3>2. CASE remote'[r].decision # remote[r].decision
        BY <2>1, <2>2, <2>3, <2>4, <3>2
      <3> QED
        BY <3>1, <3>2
    <2>5. Resolved(remote'[r].decision) => remote'[r].decision =< tokens'
      BY <1>1, <2>4
    <2> QED
      BY <2>0, <2>5
  <1> QED
    BY <1>2, <1>3

(* A lease call leads nowhere but to the refresh, back, or out.            *)
LEMMA Leasing ==
    ASSUME Typed, NEW c \in Container, Lease(c)
    PROVE  stage'[c] \in {"refresh", "idle", "acquire"}
  <1>1. PICK l : l = CASE client'[c].at = "held" -> "refresh" [] client'[c].at = "idle" -> "idle" [] OTHER -> "acquire"
    OBVIOUS
  <1>2. l \in {"refresh", "idle", "acquire"}
    BY <1>1
  <1>3. stage' = [stage EXCEPT ![c] = l]
    BY <1>1 DEF Lease, Stage
  <1> QED
    BY <1>2, <1>3 DEF Typed, TypeOK

(* A token is new, and only its own request writes it to S3.               *)
LEMMA FreshStep ==
    ASSUME NEW R \in SUBSET Run, Typed, Kept(R), Fresh(R), Won(R), Orderly(R), [Next]_vars
    PROVE  Fresh(R)'
  <1> SUFFICES ASSUME NEW c \in Container, NEW r \in R,
                      stage'[c] \in {"acquire", "refresh", "recheck", "list"},
                      client'[c].at # "idle", client'[c].run = r
               PROVE  remote'[r].decision # client'[c].body.token
    BY DEF Fresh
  <1>1. /\ IInv /\ Staged /\ r \in Run /\ Token \subseteq Nat /\ Awaiting \notin Token
        /\ stage \in [Container -> {"idle", "acquire", "refresh", "recheck",
                                    "list", "upload", "answer", "release"}]
        /\ client \in [Container -> Client] /\ "decision" \in Key
    BY Files DEF Typed, TypeOK, IInv, LeaseTypeOK, Key
  <1>2. CASE Still(c)
    <2>1. /\ stage[c] \in {"acquire", "refresh", "recheck", "list"} /\ client[c].at # "idle"
          /\ client[c].run = r /\ client'[c].body.token = client[c].body.token
      BY <1>2 DEF Still
    <2>2. remote[r].decision # client[c].body.token /\ client[c].body.token \in Token
      BY <1>1, <2>1, Held DEF Fresh
    <2>3. ASSUME NEW d \in Container, Upload(d)
          PROVE  remote'[r].decision # client[c].body.token
      <3>1. \/ remote'[r].decision = remote[r].decision
            \/ Writing(d, r) /\ Mine(d, r) /\ remote'[r].decision = cache[d][r].decision
            \/ remote'[r].decision = Paused.decision
        BY <1>1, <2>3, UploadingFile
      <3>2. Paused.decision # client[c].body.token
        BY <1>1, <2>2, Files
      <3>3. d # c
        BY <2>1, <2>3 DEF Upload
      <3>4. Writing(d, r) /\ Mine(d, r) => cache[d][r].decision # client[c].body.token
        BY <1>1, <2>1, <3>3, Own DEF Writing, Holds, Mine
      <3> QED
        BY <2>2, <3>1, <3>2, <3>4
    <2> QED
      BY <2>1, <2>2, <2>3, RemoteKept
  <1>3. ASSUME NEW s \in Run, Submit(c, s)
        PROVE  remote'[r].decision # client'[c].body.token
    <2>1. Acquire(c, s) /\ UNCHANGED remote
      BY <1>3 DEF Submit
    <2>2. client'[c].body.token = tokens + 1 /\ tokens + 1 \in Token /\ tokens \in Nat
      BY <1>1, <2>1, LeaseAssumption DEF Acquire, Token, IInv, LeaseTypeOK
    <2>3. Resolved(remote[r].decision) => remote[r].decision =< tokens
      BY DEF Kept
    <2> QED
      BY <2>1, <2>2, <2>3 DEF Resolved
  <1>4. ASSUME Lease(c)
        PROVE  remote'[r].decision # client'[c].body.token
    <2>1. stage[c] = "acquire" /\ Coordinate(c) /\ UNCHANGED remote
      BY <1>4 DEF Lease
    <2>2. client[c].at # "idle" /\ client[c].run = r /\ client'[c].body.token = client[c].body.token
      BY <1>1, <2>1, Calling DEF Staged
    <2> QED
      BY <2>1, <2>2 DEF Fresh
  <1>5. CASE Refresh(c) \/ Recheck(c)
    <2>1. stage[c] \in {"refresh", "recheck"} /\ UNCHANGED <<remote, client>>
      BY <1>5 DEF Refresh, Recheck, leaseVars
    <2> QED
      BY <2>1 DEF Fresh
  <1>6. ~(SyncIndex(c) \/ \E s \in Run : CreateRun(c, s))
    <2>1. SyncIndex(c) \/ (\E s \in Run : CreateRun(c, s)) => stage[c] = "idle" /\ UNCHANGED client
      BY DEF SyncIndex, CreateRun, leaseVars
    <2> QED
      BY <1>1, <2>1 DEF Staged
  <1>7. ~(ListRemote(c) \/ Upload(c) \/ Uploaded(c) \/ Fail(c) \/ Finish(c) \/ Die(c))
    <2>1. ListRemote(c) \/ Upload(c) => stage'[c] = "upload"
      BY <1>1 DEF ListRemote, Upload, Stage
    <2>2. Uploaded(c) \/ Fail(c) \/ Finish(c) \/ Die(c) => stage'[c] \in {"answer", "idle", "release"}
      BY <1>1 DEF Uploaded, Fail, Finish, Die, Stage
    <2> QED
      BY <2>1, <2>2
  <1> QED
    BY <1>2, <1>3, <1>4, <1>5, <1>6, <1>7, Elsewhere DEF Act

(* A paused run's files resolve nothing.                                   *)
LEMMA PausedOpen == \A f \in Key : Empty[f] = Absent /\ (f # "record" => ~Resolved(Paused[f]))
  BY Files DEF Key, Resolved

(* A strict sync under the lease takes what S3 has; as long as the lease   *)
(* lasts no other container resolves the run before the second look.       *)
LEMMA LookedStep ==
    ASSUME NEW R \in SUBSET Run, Typed, Kept(R), Looked(R), Won(R), Orderly(R), [Next]_vars
    PROVE  Looked(R)'
  <1> SUFFICES ASSUME NEW c \in Container, NEW r \in R, stage'[c] = "recheck", client'[c].run = r,
                      Resolvable(cache'[c][r])
               PROVE  /\ cache'[c][r].journal = {}
                      /\ client'[c].body.left > 0 =>
                           ~Resolved(remote'[r].decision) /\ ~Resolved(remote'[r].snapshot)
    BY DEF Looked, Resolvable, Loads, Resolved, Unresolved
  <1>1. /\ TypeOK /\ Journals /\ IInv /\ Staged /\ cache \in [Container -> [Run -> Copy]] /\ r \in Run
        /\ stage \in [Container -> {"idle", "acquire", "refresh", "recheck",
                                    "list", "upload", "answer", "release"}]
        /\ client \in [Container -> Client] /\ remote[r] \in Copy
    BY DEF Typed, TypeOK, LeaseTypeOK
  <1>2. CASE Refresh(c)
    <2>1. PICK success \in BOOLEAN : SyncDown(c, success) /\ stage' = [stage EXCEPT ![c] =
            IF success THEN "recheck" ELSE "release"]
      BY <1>2 DEF Refresh, Stage
    <2>2. success
      BY <1>1, <2>1
    <2>3. /\ cache'[c][r].journal = {}
          /\ remote[r].decision # Absent => cache'[c][r].decision = remote[r].decision
          /\ \/ Resolved(cache'[c][r].snapshot)
             \/ remote[r].snapshot # Absent => cache'[c][r].snapshot = remote[r].snapshot
      <3>1. \A s \in Run : success =>
               /\ cache'[c][s].journal = {}
               /\ remote[s].decision # Absent => cache'[c][s].decision = remote[s].decision
               /\ \/ Resolved(cache'[c][s].snapshot)
                  \/ remote[s].snapshot # Absent => cache'[c][s].snapshot = remote[s].snapshot
        BY <1>1, <2>1, Synced
      <3> QED
        BY <1>1, <2>2, <3>1
    <2>4. cache'[c][r].decision = Awaiting /\ cache'[c][r].snapshot = Awaiting
      BY DEF Resolvable
    <2>5. ~Resolved(remote[r].decision) /\ ~Resolved(remote[r].snapshot)
      BY <2>3, <2>4, Files DEF Resolved
    <2>6. UNCHANGED remote
      BY <1>2 DEF Refresh
    <2> QED
      BY <2>3, <2>5, <2>6
  <1>3. CASE ~Refresh(c)
    <2>1. Still(c)
      <3>1. ~Act(c)
        <4>1. Lease(c) => stage'[c] # "recheck"
          BY Leasing
        <4>2. Recheck(c) => stage'[c] # "recheck"
          BY <1>1 DEF Recheck, Resolve, Stage
        <4> QED
          BY <1>1, <1>3, <4>1, <4>2
             DEF Act, SyncIndex, Submit, CreateRun, ListRemote, Upload, Uploaded, Fail, Finish, Die, Stage
      <3> QED
        BY <3>1, Elsewhere
    <2>2. /\ stage[c] = "recheck" /\ cache'[c] = cache[c] /\ client[c].at = "held"
          /\ client[c].run = r
      BY <1>1, <2>1 DEF Still, Staged
    <2>3. /\ cache[c][r].journal = {}
          /\ client[c].body.left > 0 => ~Resolved(remote[r].decision) /\ ~Resolved(remote[r].snapshot)
      BY <2>2 DEF Looked, Unresolved
    <2>4. ASSUME client'[c].body.left > 0, NEW f \in {"decision", "snapshot"}
          PROVE  ~Resolved(remote'[r][f])
      <3>1. client[c].body.left > 0
        BY <1>1, <2>1, <2>2, <2>4, Aging
      <3>2. f \in Key /\ f # "record" /\ ~Resolved(remote[r][f])
        BY <2>3, <3>1 DEF Key
      <3>3. ASSUME NEW d \in Container, Upload(d)
            PROVE  ~Resolved(remote'[r][f])
        <4>1. c # d
          BY <2>2, <3>3 DEF Upload
        <4>2. ~Live(d, r)
          BY <1>1, <2>2, <3>1, <4>1, ExclusiveHolds DEF Live, Holds, Exclusive
        <4>3. remote'[r][f] = remote[r][f] \/ remote'[r][f] = Paused[f]
          BY <3>2, <3>3, <4>2, UploadingFile
        <4> QED
          BY <3>2, <4>3, PausedOpen
      <3> QED
        BY <3>2, <3>3, RemoteKept
    <2> QED
      BY <2>2, <2>3, <2>4
  <1> QED
    BY <1>2, <1>3

(* A request that writes has just resolved, or was writing before.         *)
LEMMA WritingOn ==
    ASSUME Typed, [Next]_vars, NEW c \in Container, NEW r \in Run, Writing(c, r)', ~Recheck(c)
    PROVE  /\ Writing(c, r) /\ cache'[c] = cache[c] /\ client'[c].body.token = client[c].body.token
           /\ Still(c) \/ ((ListRemote(c) \/ Upload(c) \/ Uploaded(c)) /\ client'[c] = client[c])
  <1>1. /\ IInv /\ Staged
        /\ stage \in [Container -> {"idle", "acquire", "refresh", "recheck",
                                    "list", "upload", "answer", "release"}]
        /\ client \in [Container -> Client]
    BY DEF Typed, TypeOK, LeaseTypeOK
  <1>2. stage'[c] \in {"list", "upload", "answer"} /\ client'[c].at = "held" /\ client'[c].run = r
    BY DEF Writing, Holds
  <1>3. CASE Still(c)
    BY <1>3 DEF Still, Writing, Holds
  <1>4. CASE ListRemote(c) \/ Upload(c) \/ Uploaded(c)
    <2>1. cache'[c] = cache[c] /\ client'[c] = client[c] /\ stage[c] \in {"list", "upload"}
      BY <1>4 DEF ListRemote, Upload, Uploaded, leaseVars
    <2> QED
      BY <1>2, <1>4, <2>1 DEF Writing, Holds
  <1>5. ~Lease(c)
    BY <1>2, Leasing
  <1>6. ASSUME NEW s \in Run, CreateRun(c, s)
        PROVE  FALSE
    <2>1. client'[c] = client[c] /\ client[c].at = "idle"
      BY <1>1, <1>6 DEF CreateRun, Staged, leaseVars
    <2> QED
      BY <1>2, <2>1
  <1>7. ~Fail(c)
    <2>1. Fail(c) => client'[c] = client[c] /\ stage' = [stage EXCEPT ![c] =
            IF client[c].at = "held" THEN "release" ELSE "idle"]
      BY DEF Fail, leaseVars, Stage
    <2> QED
      BY <1>1, <1>2, <2>1
  <1>8. ~(SyncIndex(c) \/ Refresh(c) \/ Finish(c) \/ Die(c) \/ \E s \in Run : Submit(c, s))
    BY <1>1, <1>2 DEF SyncIndex, Refresh, Finish, Die, Submit, Stage
  <1> QED
    BY <1>3, <1>4, <1>5, <1>6, <1>7, <1>8, Elsewhere DEF Act

(* Under the lease a decision that is still open is resolved by the        *)
(* container's own token.                                                  *)
LEMMA Rechecked ==
    ASSUME NEW R \in SUBSET Run, Typed, Looked(R), Standing(R), [Next]_vars,
           NEW c \in Container, NEW r \in R, Writing(c, r)', Recheck(c)
    PROVE  /\ Mine(c, r)'
           /\ Winning(c, r)' => /\ \A x \in answered' : x.run # r
                                /\ \A f \in Key : There(c, r, f)'
  <1>1. /\ IInv /\ Staged /\ r \in Run
        /\ stage \in [Container -> {"idle", "acquire", "refresh", "recheck",
                                    "list", "upload", "answer", "release"}]
        /\ cache \in [Container -> [Run -> Copy]]
        /\ answered \subseteq [run : Run, token : Token] /\ "decision" \in Key
    BY DEF Typed, TypeOK, Key
  <1>2. /\ client[c].at = "held" /\ UNCHANGED <<leaseVars, remote, answered>> /\ stage[c] = "recheck"
        /\ client'[c] = client[c] /\ client[c].run = r
    BY <1>1 DEF Recheck, Staged, Writing, Holds, leaseVars
  <1>3. Resolvable(cache[c][r])
    <2>1. ~Resolvable(cache[c][r]) => stage' = [stage EXCEPT ![c] = "release"]
      BY <1>2 DEF Recheck, Stage
    <2> QED
      BY <1>1, <2>1 DEF Writing
  <1>4. Resolve(c, r)
    BY <1>2, <1>3 DEF Recheck
  <1>5. PICK new \in Copy, n \in Token :
           /\ cache' = [cache EXCEPT ![c][r] = new] /\ n = client[c].body.token
           /\ stage' \in {[stage EXCEPT ![c] = "list"], [stage EXCEPT ![c] = "release"]}
           /\ new.record # Absent
           /\ stage'[c] = "list" =>
                /\ new.decision = n /\ new.snapshot = n /\ n \in new.record
                /\ new.journal = cache[c][r].journal
    BY <1>1, <1>2, <1>3, <1>4, Resolves
  <1>6. stage'[c] = "list"
    BY <1>1, <1>5 DEF Writing
  <1>7. /\ cache[c][r].journal = {}
        /\ client[c].body.left > 0 => Unresolved(remote[r])
    BY <1>2, <1>3 DEF Looked
  <1>8. cache'[c][r] = new
    BY <1>1, <1>5
  <1>9. Mine(c, r)'
    BY <1>2, <1>5, <1>6, <1>7, <1>8 DEF Mine
  <1>10. ASSUME Winning(c, r)'
         PROVE  (\A x \in answered' : x.run # r) /\ (\A f \in Key : There(c, r, f)')
    <2>1. Pending(c, r, "decision")' /\ \A f \in Key : Pending(c, r, f)'
      BY <1>6 DEF Pending
    <2>2. client[c].body.left > 0
      BY <1>1, <1>2, <1>10, <2>1 DEF Winning
    <2>3. ~Resolved(remote[r].decision) /\ ~Resolved(remote[r].snapshot)
      BY <1>7, <2>2 DEF Unresolved
    <2>4. ASSUME NEW x \in answered, x.run = r
          PROVE  FALSE
      <3>1. remote[r].decision = x.token /\ x.token \in Token
        BY <1>1, <2>4 DEF Standing
      <3> QED
        BY <2>3, <3>1 DEF Resolved
    <2>5. \A f \in Key : f # "record" => ~Resolved(remote'[r][f])
      BY <1>2, <2>3 DEF Key
    <2> QED
      BY <1>2, <2>1, <2>4, <2>5 DEF There, Resolved
  <1> QED
    BY <1>9, <1>10

(* A request does not start to win: with files pending, its lease over,    *)
(* it has no way to its answer.                                            *)
LEMMA WinningOn ==
    ASSUME NEW R \in SUBSET Run, Typed, Fresh(R), Won(R), Orderly(R), [Next]_vars,
           NEW c \in Container, NEW r \in R, Winning(c, r)', ~Recheck(c)
    PROVE  Winning(c, r)
  <1>1. /\ IInv /\ r \in Run /\ "decision" \in Key
        /\ queue \in [Container -> SUBSET (Run \X DOMAIN Empty)]
        /\ stage \in [Container -> {"idle", "acquire", "refresh", "recheck",
                                    "list", "upload", "answer", "release"}]
        /\ \A f \in Key : f \in DOMAIN Empty /\ f # "journal" /\ Empty[f] = Absent
    BY Files DEF Typed, TypeOK, Key
  <1>2. /\ Writing(c, r) /\ Mine(c, r) /\ Writing(c, r)'
        /\ Still(c) \/ ((ListRemote(c) \/ Upload(c) \/ Uploaded(c)) /\ client'[c] = client[c])
    BY <1>1, WritingOn DEF Winning, Won
  <1>3. /\ client[c].at = "held" /\ client[c].run = r /\ client[c].body.token \in Token
    BY <1>1, <1>2, Held DEF Writing, Holds
  <1>4. CASE client[c].body.left > 0
    BY <1>2, <1>4 DEF Winning
  <1>5. CASE ~(client[c].body.left > 0)
    <2>1. ~(client'[c].body.left > 0)
      BY <1>1, <1>2, <1>3, <1>5, Aging
    <2>2. \A f \in Key : ~Pending(c, r, f)'
      BY <2>1 DEF Winning
    <2>3. CASE Still(c)
      <3>1. \A f \in Key : Pending(c, r, f)' <=> Pending(c, r, f)
        BY <2>3 DEF Still, Pending
      <3> QED
        BY <1>2, <2>2, <3>1 DEF Winning
    <2>4. ~ListRemote(c)
      <3>1. SUFFICES ASSUME ListRemote(c)
                     PROVE  FALSE
        OBVIOUS
      <3>2. /\ stage[c] = "list" /\ stage'[c] = "upload"
            /\ queue'[c] = {u \in Run \X DOMAIN Empty :
                              Copied(remote[u[1]], cache[c][u[1]], u[2]) # remote[u[1]][u[2]]}
        BY <1>1, <3>1 DEF ListRemote, Stage
      <3>3. remote[r].decision # client[c].body.token
        BY <1>3, <3>2 DEF Fresh
      <3>4. cache[c][r].decision = client[c].body.token /\ cache[c][r].decision # Absent
        BY <1>2, <1>3, Files DEF Mine
      <3>5. Copied(remote[r], cache[c][r], "decision") = cache[c][r]["decision"]
        BY <1>1, <3>4, CopiedIs
      <3>6. <<r, "decision">> \in queue'[c]
        BY <1>1, <3>2, <3>3, <3>4, <3>5
      <3> QED
        BY <1>1, <2>2, <3>2, <3>6 DEF Pending
    <2>5. CASE Upload(c)
      <3>1. stage[c] = "upload" /\ stage'[c] = "upload"
        BY <2>5 DEF Upload
      <3>2. ASSUME NEW f \in Key, <<r, f>> \in queue[c]
            PROVE  FALSE
        <4>1. <<r, f>> \notin queue'[c]
          BY <2>2, <3>1, <3>2 DEF Pending
        <4>2. Puts(c, r, f)
          BY <2>5, <3>2, <4>1 DEF Puts
        <4>3. cache[c][r][f] = Paused[f]
          BY <1>1, <1>5, <3>2, <4>2 DEF Orderly, Live
        <4> QED
          BY <1>2, <1>3, <3>2, <4>3, Files DEF Mine, Key
      <3> QED
        BY <1>2, <3>1, <3>2 DEF Winning, Pending
    <2>6. CASE Uploaded(c)
      <3>1. stage[c] = "upload" /\ queue[c] = {}
        BY <2>6 DEF Uploaded
      <3> QED
        BY <1>2, <3>1 DEF Winning, Pending
    <2> QED
      BY <1>2, <2>3, <2>4, <2>5, <2>6
  <1> QED
    BY <1>4, <1>5

(* What the winner has uploaded stays its own.                             *)
LEMMA ThereStep ==
    ASSUME NEW R \in SUBSET Run, Typed, Kept(R), Won(R), Orderly(R), [Next]_vars,
           NEW c \in Container, NEW r \in R, Winning(c, r), Writing(c, r)', ~Recheck(c),
           NEW f \in Key
    PROVE  There(c, r, f)'
  <1>1. /\ IInv /\ r \in Run /\ f \in DOMAIN Empty /\ f # "journal" /\ Empty[f] = Absent
        /\ queue \in [Container -> SUBSET (Run \X DOMAIN Empty)]
        /\ stage \in [Container -> {"idle", "acquire", "refresh", "recheck",
                                    "list", "upload", "answer", "release"}]
    BY Files DEF Typed, TypeOK, Key
  <1>2. /\ Writing(c, r) /\ Mine(c, r) /\ cache'[c] = cache[c] /\ There(c, r, f)
        /\ Still(c) \/ ((ListRemote(c) \/ Upload(c) \/ Uploaded(c)) /\ client'[c] = client[c])
    BY <1>1, WritingOn DEF Won
  <1>3. client[c].at = "held" /\ client[c].run = r /\ client[c].body.token \in Token
    BY <1>1, <1>2, Held DEF Writing, Holds
  <1>4. cache[c][r][f] # Absent /\ cache'[c][r][f] = cache[c][r][f] /\ cache[c][r][f] # Paused[f]
    BY <1>2, <1>3, Files DEF Mine, Key
  <1>5. SUFFICES IF Pending(c, r, f)' THEN f # "record" => ~Resolved(remote'[r][f])
                                      ELSE remote'[r][f] = cache[c][r][f]
    BY <1>4 DEF There, Resolved
  <1>6. IF Pending(c, r, f) THEN f # "record" => ~Resolved(remote[r][f])
                            ELSE remote[r][f] = cache[c][r][f]
    BY <1>2 DEF There
  <1>7. CASE ListRemote(c)
    <2>1. /\ stage[c] = "list" /\ stage'[c] = "upload" /\ UNCHANGED <<remote, cache>>
          /\ queue'[c] = {u \in Run \X DOMAIN Empty :
                            Copied(remote[u[1]], cache[c][u[1]], u[2]) # remote[u[1]][u[2]]}
      BY <1>1, <1>7 DEF ListRemote, Stage
    <2>2. <<r, f>> \in queue'[c] <=> Copied(remote[r], cache[c][r], f) # remote[r][f]
      BY <1>1, <2>1
    <2>3. Copied(remote[r], cache[c][r], f) = cache[c][r][f]
      BY <1>1, <1>4, CopiedIs
    <2> QED
      BY <1>6, <2>1, <2>2, <2>3 DEF Pending
  <1>8. CASE Upload(c)
    <2>1. /\ stage[c] = "upload" /\ stage'[c] = "upload"
          /\ IF <<r, f>> \in queue[c] \ queue'[c]
             THEN remote'[r][f] = cache[c][r][f] \/ cache[c][r][f] = Paused[f]
             ELSE remote'[r][f] = remote[r][f]
      BY <1>8, Uploading
    <2>2. queue'[c] \subseteq queue[c]
      <3>1. PICK u : queue' = [queue EXCEPT ![c] = @ \ {u}]
        BY <1>8 DEF Upload
      <3> QED
        BY <1>1, <3>1
    <2>3. CASE <<r, f>> \in queue[c] \ queue'[c]
      BY <1>4, <2>1, <2>3 DEF Pending
    <2>4. CASE <<r, f>> \notin queue[c] \ queue'[c]
      <3>1. Pending(c, r, f)' <=> Pending(c, r, f)
        BY <2>1, <2>2, <2>4 DEF Pending
      <3> QED
        BY <1>6, <2>1, <2>4, <3>1
    <2> QED
      BY <2>3, <2>4
  <1>9. CASE Uploaded(c)
    <2>1. /\ stage[c] = "upload" /\ queue[c] = {} /\ UNCHANGED remote
          /\ stage' = [stage EXCEPT ![c] = "answer"]
      BY <1>3, <1>9 DEF Uploaded, Stage
    <2>2. ~Pending(c, r, f) /\ ~Pending(c, r, f)'
      BY <1>1, <2>1 DEF Pending
    <2> QED
      BY <1>6, <2>1, <2>2
  <1>10. CASE Still(c) /\ ~Upload(c)
    <2>1. Pending(c, r, f)' <=> Pending(c, r, f)
      BY <1>10 DEF Still, Pending
    <2>2. ASSUME NEW d \in Container, Upload(d)
          PROVE  remote'[r][f] = remote[r][f] \/ (remote[r][f] = Absent /\ remote'[r][f] = Paused[f])
      <3>1. ~(Live(d, r) /\ Writing(d, r))
        <4>1. Live(d, r) /\ Writing(d, r) => Winning(d, r)
          BY DEF Live, Winning
        <4> QED
          BY <1>10, <2>2, <4>1, OneWinner
      <3> QED
        BY <2>2, <3>1, UploadingFile
    <2>3. remote'[r][f] = remote[r][f] \/ (remote[r][f] = Absent /\ remote'[r][f] = Paused[f])
      BY <2>2, RemoteKept
    <2>4. CASE Pending(c, r, f)
      BY <1>6, <2>1, <2>3, <2>4, PausedOpen
    <2>5. CASE ~Pending(c, r, f)
      BY <1>4, <1>6, <2>1, <2>3, <2>5
    <2> QED
      BY <2>4, <2>5
  <1> QED
    BY <1>2, <1>7, <1>8, <1>9, <1>10

(* The holder of the lease that has resolved the decision is the only one  *)
(* to win until it answers, and S3 has what it has uploaded.               *)
LEMMA WonStep ==
    ASSUME NEW R \in SUBSET Run, Typed, Kept(R), Fresh(R), Looked(R), Won(R), Standing(R),
           Orderly(R), [Next]_vars
    PROVE  Won(R)'
  <1> SUFFICES ASSUME NEW c \in Container, NEW r \in R, Writing(c, r)'
               PROVE  /\ Mine(c, r)'
                      /\ Winning(c, r)' => /\ \A x \in answered' : x.run # r
                                           /\ \A f \in Key : There(c, r, f)'
    BY DEF Won, Winning
  <1>1. /\ IInv /\ Staged /\ r \in Run
        /\ stage \in [Container -> {"idle", "acquire", "refresh", "recheck",
                                    "list", "upload", "answer", "release"}]
    BY DEF Typed, TypeOK
  <1>2. CASE Recheck(c)
    BY <1>2, Rechecked
  <1>3. CASE ~Recheck(c)
    <2>1. /\ Writing(c, r) /\ cache'[c] = cache[c]
          /\ client'[c].body.token = client[c].body.token
      BY <1>1, <1>3, WritingOn
    <2>2. Mine(c, r) /\ Mine(c, r)'
      BY <2>1 DEF Won, Mine
    <2>3. ASSUME Winning(c, r)'
          PROVE  (\A x \in answered' : x.run # r) /\ (\A f \in Key : There(c, r, f)')
      <3>1. Winning(c, r) /\ \A x \in answered : x.run # r
        BY <1>3, <2>3, WinningOn DEF Won
      <3>2. ASSUME NEW d \in Container, Finish(d), NEW x \in answered', x.run = r
            PROVE  FALSE
        <4>1. /\ stage[d] = "answer" /\ client[d].at = "held" /\ client[d].run = r
              /\ stage' = [stage EXCEPT ![d] = "idle"]
          BY <1>1, <3>1, <3>2 DEF Finish, Staged, Stage
        <4>2. Winning(d, r)
          BY <4>1 DEF Winning, Writing, Holds, Pending
        <4>3. c = d
          BY <3>1, <4>2, OneWinner
        <4> QED
          BY <1>1, <4>1, <4>3 DEF Writing
      <3>3. \A x \in answered' : x.run # r
        BY <3>1, <3>2, AnsweredKept
      <3> QED
        BY <1>3, <3>1, <3>3, ThereStep
    <2> QED
      BY <2>2, <2>3
  <1> QED
    BY <1>2, <1>3

-----------------------------------------------------------------------------
(* An upload that changes a file of an orderly run changes one that S3     *)
(* lacks, or one that the winner still has to upload.                      *)
LEMMA Overwrites ==
    ASSUME NEW R \in SUBSET Run, Typed, Kept(R), Won(R), Orderly(R), NEW r \in R, NEW f \in Key,
           NEW c \in Container, Upload(c), remote'[r][f] # remote[r][f]
    PROVE  \/ remote[r][f] = Absent
           \/ Winning(c, r) /\ (f # "record" => ~Resolved(remote[r][f]))
  <1>1. \/ remote[r][f] = Absent
        \/ <<r, f>> \in queue[c] /\ Live(c, r) /\ Writing(c, r)
    BY Uploading
  <1>2. CASE <<r, f>> \in queue[c] /\ Live(c, r) /\ Writing(c, r)
    <2>1. Winning(c, r)
      BY <1>2 DEF Live, Winning
    <2>2. Pending(c, r, f) /\ There(c, r, f)
      BY <1>2, <2>1 DEF Pending, Upload, Won
    <2> QED
      BY <2>1, <2>2 DEF There
  <1> QED
    BY <1>1, <1>2

(* What was answered is not overwritten, and what is answered is in S3.    *)
LEMMA StandingStep ==
    ASSUME NEW R \in SUBSET Run, Typed, Kept(R), Won(R), Standing(R), Orderly(R), [Next]_vars
    PROVE  Standing(R)'
  <1> SUFFICES ASSUME NEW x \in answered', x.run \in R
               PROVE  /\ remote'[x.run].decision = x.token /\ remote'[x.run].snapshot = x.token
                      /\ remote'[x.run].record # Absent /\ x.token \in remote'[x.run].record
    BY DEF Standing
  <1>1. /\ answered \subseteq [run : Run, token : Token] /\ Staged /\ IInv
        /\ "decision" \in Key /\ "snapshot" \in Key /\ "record" \in Key
    BY DEF Typed, TypeOK, Key
  <1>2. CASE x \in answered
    <2>1. /\ x.run \in Run /\ x.token \in Token
          /\ remote[x.run].decision = x.token /\ remote[x.run].snapshot = x.token
          /\ remote[x.run].record # Absent /\ x.token \in remote[x.run].record
      BY <1>1, <1>2 DEF Standing
    <2>2. ASSUME NEW f \in Key
          PROVE  remote'[x.run][f] = remote[x.run][f]
      <3>1. remote[x.run][f] # Absent
        BY <2>1, Files DEF Key
      <3>2. \A c \in Container : ~Winning(c, x.run)
        BY <1>2 DEF Won, Winning
      <3>3. ASSUME NEW c \in Container, Upload(c), remote'[x.run][f] # remote[x.run][f]
            PROVE  FALSE
        BY <3>1, <3>2, <3>3, Overwrites
      <3> QED
        BY <3>3, RemoteKept
    <2> QED
      BY <1>1, <2>1, <2>2
  <1>3. CASE x \notin answered
    <2>1. PICK c \in Container : Finish(c)
      BY <1>3, AnsweredKept
    <2>2. /\ stage[c] = "answer" /\ client[c].at = "held" /\ UNCHANGED remote
          /\ x = [run |-> client[c].run, token |-> client[c].body.token]
      BY <1>1, <1>3, <2>1 DEF Finish, Staged
    <2>3. Writing(c, x.run) /\ \A f \in Key : ~Pending(c, x.run, f)
      BY <2>2 DEF Writing, Holds, Pending
    <2>4. Mine(c, x.run) /\ \A f \in Key : There(c, x.run, f)
      BY <2>3 DEF Won, Winning
    <2>5. \A f \in Key : remote[x.run][f] = cache[c][x.run][f]
      BY <2>3, <2>4 DEF There
    <2> QED
      BY <1>1, <2>2, <2>4, <2>5 DEF Mine
  <1> QED
    BY <1>2, <1>3

(* All of it holds at the start.                                           *)
LEMMA CloudInit == ASSUME NEW R \in SUBSET Run PROVE Init => CloudInv(R)
  <1> SUFFICES ASSUME Init
               PROVE  CloudInv(R)
    OBVIOUS
  <1>1. Typed
    BY TypedInit
  <1>2. \A c \in Container : client[c].at = "idle" /\ stage[c] = "idle"
    BY DEF Init, LeaseInit, Idle
  <1>3. Kept(R)
    BY Files DEF Init, Kept, Resolved
  <1>4. Fresh(R) /\ Looked(R) /\ Won(R)
    BY <1>2 DEF Fresh, Looked, Won, Winning, Writing
  <1>5. Standing(R)
    BY DEF Init, Standing
  <1> QED
    BY <1>1, <1>3, <1>4, <1>5 DEF CloudInv

(* Every step that uploads in order keeps it.                              *)
LEMMA CloudStep ==
    ASSUME NEW R \in SUBSET Run
    PROVE  CloudInv(R) /\ [Next]_vars /\ [Orderly(R)]_vars => CloudInv(R)'
  BY TypedStep, KeptStep, FreshStep, LookedStep, WonStep, StandingStep, OrderlyStep DEF CloudInv

(* The inductive invariant of the protocol, of any runs whose uploads are  *)
(* orderly, whatever becomes of the others: at most one request wins       *)
(* between its resolution and its answer, its files are pending or in S3,  *)
(* and what was answered stands.                                           *)
THEOREM OneResolution ==
    ASSUME NEW R \in SUBSET Run
    PROVE  Spec /\ [][Orderly(R)]_vars => []CloudInv(R)
  BY CloudInit, CloudStep, PTL DEF Spec

(* Exactly one conflicting mutation wins, and S3 keeps the decision it was *)
(* answered with in the request file, the record and the snapshot, for any *)
(* number of runs, containers, crashes, overrun leases and failed uploads, *)
(* in every behaviour whose uploads are orderly.                           *)
THEOREM AnswersStand == Spec /\ [][Orderly(Run)]_vars => []AnswerDurable
  <1>1. CloudInv(Run) => AnswerDurable
    BY DEF CloudInv, Typed, TypeOK, Standing, AnswerDurable
  <1>2. Init => CloudInv(Run)
    BY CloudInit
  <1>3. CloudInv(Run) /\ [Next]_vars /\ [Orderly(Run)]_vars => CloudInv(Run)'
    BY CloudStep
  <1> QED
    BY <1>1, <1>2, <1>3, PTL DEF Spec

(* No orderly step changes a resolution that S3 has.                       *)
LEMMA ResolutionStep ==
    ASSUME NEW R \in SUBSET Run, CloudInv(R), [Next]_vars, [Orderly(R)]_vars,
           NEW r \in R, NEW f \in {"decision", "snapshot"}, Resolved(remote[r][f])
    PROVE  remote'[r][f] = remote[r][f]
  <1>1. ASSUME NEW c \in Container, Upload(c), remote'[r][f] # remote[r][f]
        PROVE  FALSE
    <2>1. f \in Key /\ f # "record" /\ remote[r][f] # Absent
      BY Files DEF Key, Resolved
    <2> QED
      BY <1>1, <2>1, Overwrites, OrderlyStep DEF CloudInv
  <1> QED
    BY <1>1, RemoteKept

(* In the same behaviours no upload replaces a resolution in S3: a stale   *)
(* copy replaces nothing newer unless its writer is late, or at work on    *)
(* another run.                                                            *)
THEOREM ResolutionsStand == Spec /\ [][Orderly(Run)]_vars => ResolutionStands
  <1>1. CloudInv(Run) /\ [Next]_vars /\ [Orderly(Run)]_vars =>
          [\A r \in Run : /\ Resolved(remote[r].decision) => remote'[r].decision = remote[r].decision
                          /\ Resolved(remote[r].snapshot) => remote'[r].snapshot = remote[r].snapshot]_vars
    BY ResolutionStep
  <1>2. Init => CloudInv(Run)
    BY CloudInit
  <1>3. CloudInv(Run) /\ [Next]_vars /\ [Orderly(Run)]_vars => CloudInv(Run)'
    BY CloudStep
  <1> QED
    BY <1>1, <1>2, <1>3, PTL DEF Spec, ResolutionStands

=============================================================================
