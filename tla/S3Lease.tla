------------------------------- MODULE S3Lease -------------------------------
(***************************************************************************)
(* aircheck/persistence/s3_lock.py: the per-run mutation lease, an object  *)
(* in S3 that is created only if absent and replaced or deleted only if    *)
(* its ETag is still the one the caller saw.  Every request to S3 is a     *)
(* step; between two of them other containers act and time passes.         *)
(*                                                                         *)
(* The body of a lock holds a fresh token, so an ETag is identified with   *)
(* the token.  Times are kept as the time left: a body expires Ttl ticks   *)
(* after it was built, at the start of the acquisition.                    *)
(***************************************************************************)
EXTENDS Naturals, FiniteSets

CONSTANTS
    Container,   \* containers of the API, one request at a time in each
    Run,
    Ttl,         \* ttl_s, in ticks
    MayOverrun,  \* a holder may still be working when its lease has expired
    MaxTokens,   \* bound on acquisitions
    MaxKills,    \* bound on containers killed while they hold a lease
    None

ASSUME LeaseAssumption ==
    /\ Ttl \in Nat \ {0} /\ MaxTokens \in Nat /\ MaxKills \in Nat
    /\ MayOverrun \in BOOLEAN
    /\ None \notin Run \cup [token : Nat, left : Nat]

VARIABLES
    lock,    \* [Run -> the lock object, or None]
    client,  \* [Container -> its request: where, run, own body, ETag seen]
    tokens,  \* tokens issued so far
    kills    \* kills so far

leaseVars == <<lock, client, tokens, kills>>

-----------------------------------------------------------------------------
Body == [token : 1..MaxTokens, left : 0..Ttl]
Idle == [at |-> "idle", run |-> None, body |-> None, seen |-> None]
Client ==
    [at : {"idle", "create", "read", "recreate", "takeover", "held"},
     run : Run \cup {None}, body : Body \cup {None}, seen : 1..MaxTokens \cup {None}]

Holds(c, r) == client[c].at = "held" /\ client[c].run = r
Goto(c, label) == client' = [client EXCEPT ![c].at = label]
Leave(c) == client' = [client EXCEPT ![c] = Idle]

LeaseInit ==
    /\ lock = [r \in Run |-> None]
    /\ client = [c \in Container |-> Idle]
    /\ tokens = 0 /\ kills = 0

(* _acquire builds a body with a new token. *)
Acquire(c, r) ==
    /\ client[c].at = "idle"
    /\ tokens < MaxTokens
    /\ tokens' = tokens + 1
    /\ client' = [client EXCEPT ![c] =
          [at |-> "create", run |-> r, seen |-> None,
           body |-> [token |-> tokens + 1, left |-> Ttl]]]
    /\ UNCHANGED <<lock, kills>>

(* _try_create: If-None-Match.  The first refusal leads to a read, the     *)
(* second, after the lock had vanished in between, to a conflict.          *)
TryCreate(c) ==
    LET r == client[c].run IN
    /\ client[c].at \in {"create", "recreate"}
    /\ \/ /\ lock[r] = None
          /\ lock' = [lock EXCEPT ![r] = client[c].body]
          /\ Goto(c, "held")
       \/ /\ lock[r] # None
          /\ IF client[c].at = "create" THEN Goto(c, "read") ELSE Leave(c)
          /\ UNCHANGED lock
    /\ UNCHANGED <<tokens, kills>>

(* Read the lock: vanished, still valid, or expired. *)
Read(c) ==
    LET r == client[c].run IN
    /\ client[c].at = "read"
    /\ \/ lock[r] = None /\ Goto(c, "recreate")
       \/ lock[r] # None /\ lock[r].left > 0 /\ Leave(c)
       \/ /\ lock[r] # None /\ lock[r].left = 0
          /\ client' = [client EXCEPT ![c].at = "takeover", ![c].seen = lock[r].token]
    /\ UNCHANGED <<lock, tokens, kills>>

HasEtag(r, token) == lock[r] # None /\ lock[r].token = token

(* Seeded fault: an expired lock is overwritten unconditionally. *)
FaultTryTakeover(c) ==
    LET r == client[c].run IN
    /\ client[c].at = "takeover"
    /\ lock' = [lock EXCEPT ![r] = client[c].body]
    /\ Goto(c, "held")
    /\ UNCHANGED <<tokens, kills>>

(* _try_takeover: If-Match on the ETag that was read. *)
TryTakeover(c) ==
    LET r == client[c].run IN
    /\ client[c].at = "takeover"
    /\ IF HasEtag(r, client[c].seen)
       THEN lock' = [lock EXCEPT ![r] = client[c].body] /\ Goto(c, "held")
       ELSE Leave(c) /\ UNCHANGED lock
    /\ UNCHANGED <<tokens, kills>>

(* Seeded fault: the lock is deleted whoever owns it. *)
FaultRelease(c) ==
    /\ client[c].at = "held"
    /\ lock' = [lock EXCEPT ![client[c].run] = None]
    /\ Leave(c)
    /\ UNCHANGED <<tokens, kills>>

(* _release: delete if the lock is still this holder's. *)
Release(c) ==
    LET r == client[c].run IN
    /\ client[c].at = "held"
    /\ lock' = IF HasEtag(r, client[c].body.token) THEN [lock EXCEPT ![r] = None] ELSE lock
    /\ Leave(c)
    /\ UNCHANGED <<tokens, kills>>

(* A container dies with its request; its lock stays. *)
Kill(c) ==
    /\ client[c].at # "idle"
    /\ kills < MaxKills
    /\ kills' = kills + 1
    /\ Leave(c)
    /\ UNCHANGED <<lock, tokens>>

(* Time passes, for locks and for bodies not yet written.  Unless requests *)
(* may overrun, no lease runs out under a container that holds it or is    *)
(* about to write it.                                                      *)
Older(body) == IF body = None \/ body.left = 0 THEN body ELSE [body EXCEPT !.left = @ - 1]
Tick ==
    /\ ~MayOverrun =>
          \A c \in Container : client[c].body # None => client[c].body.left > 1
    /\ lock' = [r \in Run |-> Older(lock[r])]
    /\ client' = [c \in Container |-> [client[c] EXCEPT !.body = Older(@)]]
    /\ UNCHANGED <<tokens, kills>>

Coordinate(c) == TryCreate(c) \/ Read(c) \/ TryTakeover(c)

LeaseNext ==
    \/ \E c \in Container :
          \/ \E r \in Run : Acquire(c, r)
          \/ Coordinate(c) \/ Release(c) \/ Kill(c)
    \/ Tick

LeaseSpec == LeaseInit /\ [][LeaseNext]_leaseVars

-----------------------------------------------------------------------------
(* Properties *)

(* Lock objects and requests have their types. *)
LeaseTypeOK ==
    /\ lock \in [Run -> Body \cup {None}]
    /\ client \in [Container -> Client]
    /\ tokens \in 0..MaxTokens /\ kills \in 0..MaxKills

(* Of the containers that hold a run's lease at most one has a lease that  *)
(* has not run out: neither two creates, nor a create and a takeover, nor  *)
(* two takeovers of one expired lock, nor a late release let two in.       *)
Exclusive ==
    \A c, d \in Container, r \in Run :
        /\ Holds(c, r) /\ client[c].body.left > 0
        /\ Holds(d, r) /\ client[d].body.left > 0
        => c = d

(* A lock that has not expired is never replaced, and is removed by nobody  *)
(* but the container that wrote it, when it is done: also when a holder     *)
(* that overran its lease releases late.                                    *)
LiveLockStands ==
    [][ \A r \in Run :
          /\ lock[r] # None /\ lock[r].left > 0
          /\ lock'[r] = None \/ lock'[r].token # lock[r].token
          => /\ lock'[r] = None
             /\ \E c \in Container :
                   /\ Holds(c, r) /\ client[c].body.token = lock[r].token
                   /\ client'[c] = Idle ]_leaseVars
=============================================================================
