---------------------------- MODULE S3LeaseProofs ----------------------------
(***************************************************************************)
(* The lease admits one valid holder per run, for every number of          *)
(* containers and runs, every time to live, and also when holders outlive  *)
(* their leases (MayOverrun).                                              *)
(*                                                                         *)
(* Exclusive is not inductive.  What carries it is that a valid holder's   *)
(* body is the lock itself (ValidHolds).  A takeover keeps that because    *)
(* the ETag it was conditioned on is that of an expired body, and stays so *)
(* (SeenExpired): a token names one body wherever copies of it are         *)
(* (OneBody), and a body that is built later has a newer token (Issued).   *)
(***************************************************************************)
EXTENDS S3Lease, TLAPS

USE LeaseAssumption

(* The bodies in existence, written or still to be written. *)
Bodies ==
    ({lock[r] : r \in Run} \cup {client[c].body : c \in Container}) \ {None}

Serving ==
    \A c \in Container :
        client[c].at # "idle" => client[c].run \in Run /\ client[c].body \in Body

Issued ==
    /\ \A b \in Bodies : b.token =< tokens
    /\ \A c \in Container :
          client[c].at = "takeover" => client[c].seen \in Nat /\ client[c].seen =< tokens

OneBody == \A a, b \in Bodies : a.token = b.token => a = b

OwnToken ==
    \A c, d \in Container :
        /\ client[c].body # None /\ client[d].body # None
        /\ client[c].body.token = client[d].body.token
        => c = d

SeenExpired ==
    \A c \in Container : client[c].at = "takeover" =>
        \A b \in Bodies : b.token = client[c].seen => b.left = 0

ValidHolds ==
    \A c \in Container, r \in Run :
        Holds(c, r) /\ client[c].body.left > 0 => lock[r] = client[c].body

IInv ==
    /\ LeaseTypeOK /\ Serving /\ Issued /\ OneBody /\ OwnToken
    /\ SeenExpired /\ ValidHolds

-----------------------------------------------------------------------------
(* None is no lock body. *)
LEMMA NoneIsNoBody == None \notin Body
  BY DEF Body

(* Every body in existence is a Body. *)
LEMMA BodiesAreBodies == LeaseTypeOK => Bodies \subseteq Body
  BY DEF LeaseTypeOK, Bodies, Client

(* The same after a step. *)
LEMMA BodiesAreBodiesNext == LeaseTypeOK' => Bodies' \subseteq Body
  BY DEF LeaseTypeOK, Bodies, Client

(* Locks and requests without bodies satisfy the invariant. *)
LEMMA LeaseInitInv == LeaseInit => IInv
  <1> SUFFICES ASSUME LeaseInit PROVE IInv
    OBVIOUS
  <1>1. \A c \in Container : client[c] = Idle
    BY DEF LeaseInit
  <1>2. LeaseTypeOK
    BY DEF LeaseInit, LeaseTypeOK, Client, Idle
  <1>3. Bodies = {}
    BY <1>1 DEF LeaseInit, Bodies, Idle
  <1> QED
    BY <1>1, <1>2, <1>3
    DEF IInv, Serving, Issued, OneBody, OwnToken, SeenExpired, ValidHolds, Holds, Idle

-----------------------------------------------------------------------------
(* Every step keeps the types, and a request in progress has a run and a body. *)
LEMMA TypeNext == LeaseTypeOK /\ Serving /\ [LeaseNext]_leaseVars => LeaseTypeOK' /\ Serving'
  <1> SUFFICES ASSUME LeaseTypeOK, Serving, [LeaseNext]_leaseVars
               PROVE  LeaseTypeOK' /\ Serving'
    OBVIOUS
  <1> USE DEF LeaseTypeOK, Serving
  <1>1. ASSUME NEW c \in Container, NEW r \in Run, Acquire(c, r)
        PROVE  LeaseTypeOK' /\ Serving'
    <2> DEFINE body == [token |-> tokens + 1, left |-> Ttl]
    <2>1. body \in Body /\ tokens' \in 0..MaxTokens
      BY <1>1 DEF Acquire, Body
    <2>2. client' = [client EXCEPT ![c] = [at |-> "create", run |-> r, seen |-> None, body |-> body]]
      BY <1>1 DEF Acquire
    <2> HIDE DEF body
    <2> QED
      BY <1>1, <2>1, <2>2 DEF Acquire, Client
  <1>2. ASSUME NEW c \in Container, TryCreate(c)
        PROVE  LeaseTypeOK' /\ Serving'
    BY <1>2 DEF TryCreate, Goto, Leave, Idle, Client
  <1>3. ASSUME NEW c \in Container, Read(c)
        PROVE  LeaseTypeOK' /\ Serving'
    BY <1>3, SMTT(20) DEF Read, Goto, Leave, Idle, Client, Body
  <1>4. ASSUME NEW c \in Container, TryTakeover(c)
        PROVE  LeaseTypeOK' /\ Serving'
    BY <1>4, SMTT(20) DEF TryTakeover, Goto, Leave, Idle, Client
  <1>5. ASSUME NEW c \in Container, Release(c)
        PROVE  LeaseTypeOK' /\ Serving'
    BY <1>5 DEF Release, Leave, Idle, Client
  <1>6. ASSUME NEW c \in Container, Kill(c)
        PROVE  LeaseTypeOK' /\ Serving'
    BY <1>6 DEF Kill, Leave, Idle, Client
  <1>7. ASSUME Tick
        PROVE  LeaseTypeOK' /\ Serving'
    <2>1. \A b \in Body \cup {None} : Older(b) \in Body \cup {None}
      BY DEF Older, Body
    <2>2. \A b \in Body : Older(b) \in Body
      BY NoneIsNoBody DEF Older, Body
    <2>3. \A c \in Container : client'[c] = [client[c] EXCEPT !.body = Older(@)]
      BY <1>7 DEF Tick
    <2>4. \A c \in Container : client[c].body \in Body \cup {None}
      BY DEF Client
    <2>5. lock' \in [Run -> Body \cup {None}]
      BY <1>7, <2>1 DEF Tick
    <2>6. client' \in [Container -> Client]
      BY <1>7, <2>1, <2>4, SMTT(20) DEF Tick, Client
    <2> QED
      BY <1>7, <2>2, <2>3, <2>5, <2>6 DEF Tick, Client
  <1>8. CASE UNCHANGED leaseVars
    BY <1>8 DEF leaseVars
  <1> QED
    BY <1>1, <1>2, <1>3, <1>4, <1>5, <1>6, <1>7, <1>8 DEF LeaseNext, Coordinate

(* A step other than an acquisition and the passing of time builds no body. *)
LEMMA BodiesKept ==
    ASSUME LeaseTypeOK, Serving, NEW c \in Container,
           Coordinate(c) \/ Release(c) \/ Kill(c)
    PROVE  Bodies' \subseteq Bodies
  <1>1. \A d \in Container : client'[d].body \in {client[d].body, None}
    BY DEF Coordinate, TryCreate, Read, TryTakeover, Release, Kill, Goto, Leave, Idle,
           LeaseTypeOK, Client
  <1>2. \A r \in Run : lock'[r] \in {lock[r], client[c].body, None}
    BY DEF Coordinate, TryCreate, Read, TryTakeover, Release, Kill, LeaseTypeOK, Serving
  <1> QED
    BY <1>1, <1>2 DEF Bodies

-----------------------------------------------------------------------------
(* A new body has a token newer than all others. *)
LEMMA AcquireInv ==
    ASSUME IInv, LeaseTypeOK', Serving', NEW c \in Container, NEW r \in Run, Acquire(c, r)
    PROVE  IInv'
  <1> USE DEF IInv
  <1> DEFINE body == [token |-> tokens + 1, left |-> Ttl]
  <1>1. client' = [client EXCEPT ![c] = [at |-> "create", run |-> r, seen |-> None, body |-> body]]
    BY DEF Acquire
  <1>2. /\ lock' = lock /\ tokens' = tokens + 1 /\ tokens \in Nat
        /\ body.token = tokens + 1 /\ client'[c].body = body
        /\ client'[c].at = "create" /\ client'[c].seen = None
        /\ \A d \in Container \ {c} : client'[d] = client[d]
    BY <1>1 DEF Acquire, LeaseTypeOK, Client
  <1> HIDE DEF body
  <1>3. Bodies' \subseteq Bodies \cup {body}
    BY <1>2 DEF Bodies
  <1>4. \A b \in Bodies : b.token \in Nat /\ b.token =< tokens
    BY BodiesAreBodies DEF Issued, Body
  <1>5. \A d \in Container \ {c} : client[d].body # None => client[d].body \in Bodies
    BY DEF Bodies
  <1>6. Issued'
    <2>1. \A b \in Bodies' : b.token =< tokens'
      BY <1>2, <1>3, <1>4
    <2> QED
      BY <1>2, <2>1 DEF Issued
  <1>7. OneBody'
    BY <1>2, <1>3, <1>4 DEF OneBody
  <1>8. OwnToken'
    BY <1>2, <1>4, <1>5 DEF OwnToken
  <1>9. SeenExpired'
    <2>1. \A d \in Container \ {c} : client[d].at = "takeover" => client[d].seen # body.token
      BY <1>2 DEF Issued
    <2> QED
      BY <1>2, <1>3, <2>1 DEF SeenExpired
  <1>10. ValidHolds'
    BY <1>2 DEF ValidHolds, Holds
  <1> QED
    BY <1>6, <1>7, <1>8, <1>9, <1>10

(* What follows for the bodies and tokens when no body is built. *)
LEMMA KeptInv ==
    ASSUME IInv, NEW c \in Container, Coordinate(c) \/ Release(c) \/ Kill(c)
    PROVE  /\ OneBody' /\ OwnToken'
           /\ \A b \in Bodies' : b.token =< tokens'
           /\ \A d \in Container \ {c} : client'[d] = client[d]
           /\ client'[c].body \in {client[c].body, None}
           /\ tokens' = tokens
  <1> USE DEF IInv
  <1>1. Bodies' \subseteq Bodies
    BY BodiesKept
  <1>2. tokens' = tokens
    BY DEF Coordinate, TryCreate, Read, TryTakeover, Release, Kill
  <1>3. \A d \in Container \ {c} : client'[d] = client[d]
    BY DEF Coordinate, TryCreate, Read, TryTakeover, Release, Kill, Goto, Leave,
           LeaseTypeOK
  <1>4. client'[c].body \in {client[c].body, None}
    BY DEF Coordinate, TryCreate, Read, TryTakeover, Release, Kill, Goto, Leave, Idle,
           LeaseTypeOK, Client
  <1>5. OneBody'
    BY <1>1 DEF OneBody
  <1>6. OwnToken'
    BY <1>3, <1>4 DEF OwnToken
  <1> QED
    BY <1>1, <1>2, <1>3, <1>4, <1>5, <1>6 DEF Issued

(* A first or second attempt to create the lock. *)
LEMMA TryCreateInv ==
    ASSUME IInv, LeaseTypeOK', Serving', NEW c \in Container, TryCreate(c)
    PROVE  IInv'
  <1> USE DEF IInv
  <1> DEFINE r == client[c].run
  <1>1. /\ OneBody' /\ OwnToken' /\ \A b \in Bodies' : b.token =< tokens'
        /\ \A d \in Container \ {c} : client'[d] = client[d]
        /\ tokens' = tokens
    BY KeptInv DEF Coordinate
  <1>2. Bodies' \subseteq Bodies
    BY BodiesKept DEF Coordinate
  <1>3. client'[c].at \in {"held", "read", "idle"}
    BY DEF TryCreate, Goto, Leave, Idle, LeaseTypeOK, Client
  <1>4. Issued' /\ SeenExpired'
    BY <1>1, <1>2, <1>3 DEF Issued, SeenExpired
  <1>5. ValidHolds'
    <2>1. CASE lock[r] # None
      <3>1. lock' = lock /\ client'[c].at # "held"
        BY <2>1 DEF TryCreate, Goto, Leave, Idle, LeaseTypeOK, Client
      <3> QED
        BY <1>1, <3>1 DEF ValidHolds, Holds
    <2>2. CASE lock[r] = None
      <3>1. /\ lock' = [lock EXCEPT ![r] = client[c].body]
            /\ client'[c].body = client[c].body /\ client'[c].run = r
        BY <2>2 DEF TryCreate, Goto, LeaseTypeOK, Client
      <3>2. r \in Run
        BY DEF Serving, TryCreate
      <3>3. \A d \in Container \ {c} : ~(Holds(d, r) /\ client[d].body.left > 0)
        BY <2>2, <3>2, NoneIsNoBody DEF ValidHolds, Holds, Serving
      <3>4. lock'[r] = client[c].body /\ \A q \in Run \ {r} : lock'[q] = lock[q]
        BY <3>1, <3>2 DEF LeaseTypeOK
      <3> HIDE DEF r
      <3> QED
        BY <1>1, <3>1, <3>3, <3>4 DEF ValidHolds, Holds
    <2> QED
      BY <2>1, <2>2
  <1> QED
    BY <1>1, <1>4, <1>5

(* Reading the lock: an expired one stays expired wherever its body is. *)
LEMMA ReadInv ==
    ASSUME IInv, LeaseTypeOK', Serving', NEW c \in Container, Read(c)
    PROVE  IInv'
  <1> USE DEF IInv
  <1> DEFINE r == client[c].run
  <1>1. /\ OneBody' /\ OwnToken' /\ \A b \in Bodies' : b.token =< tokens'
        /\ \A d \in Container \ {c} : client'[d] = client[d]
        /\ tokens' = tokens
    BY KeptInv DEF Coordinate
  <1>2. Bodies' \subseteq Bodies
    BY BodiesKept DEF Coordinate
  <1>3. lock' = lock /\ client'[c].at # "held" /\ r \in Run
    BY DEF Read, Goto, Leave, Idle, LeaseTypeOK, Client, Serving
  <1>4. \/ client'[c].at # "takeover"
        \/ /\ lock[r] # None /\ lock[r].left = 0
           /\ client'[c].seen = lock[r].token
    BY DEF Read, Goto, Leave, Idle, LeaseTypeOK, Client
  <1>5. lock[r] # None => lock[r] \in Bodies
    BY <1>3 DEF Bodies
  <1> HIDE DEF r
  <1>6. Issued'
    BY <1>1, <1>4, <1>5, BodiesAreBodies DEF Issued, Body
  <1>7. SeenExpired'
    BY <1>1, <1>2, <1>4, <1>5 DEF SeenExpired, OneBody
  <1>8. ValidHolds'
    BY <1>1, <1>3 DEF ValidHolds, Holds
  <1> QED
    BY <1>1, <1>6, <1>7, <1>8

(* A takeover replaces a lock that has expired, or nothing. *)
LEMMA TryTakeoverInv ==
    ASSUME IInv, LeaseTypeOK', Serving', NEW c \in Container, TryTakeover(c)
    PROVE  IInv'
  <1> USE DEF IInv
  <1> DEFINE r == client[c].run
  <1>1. /\ OneBody' /\ OwnToken' /\ \A b \in Bodies' : b.token =< tokens'
        /\ \A d \in Container \ {c} : client'[d] = client[d]
        /\ tokens' = tokens
    BY KeptInv DEF Coordinate
  <1>2. Bodies' \subseteq Bodies
    BY BodiesKept DEF Coordinate
  <1>3. client'[c].at \in {"held", "idle"}
    BY DEF TryTakeover, Goto, Leave, Idle, LeaseTypeOK, Client
  <1>4. Issued' /\ SeenExpired'
    BY <1>1, <1>2, <1>3 DEF Issued, SeenExpired
  <1>5. r \in Run
    BY DEF Serving, TryTakeover
  <1>6. ValidHolds'
    <2>1. CASE ~HasEtag(r, client[c].seen)
      <3>1. lock' = lock /\ client'[c].at # "held"
        BY <2>1 DEF TryTakeover, Leave, Idle, LeaseTypeOK, Client
      <3> QED
        BY <1>1, <3>1 DEF ValidHolds, Holds
    <2>2. CASE HasEtag(r, client[c].seen)
      <3>1. /\ lock' = [lock EXCEPT ![r] = client[c].body]
            /\ client'[c].body = client[c].body /\ client'[c].run = r
        BY <2>2 DEF TryTakeover, Goto, LeaseTypeOK, Client
      <3>2. lock[r] # None /\ lock[r].left = 0
        BY <1>5, <2>2 DEF HasEtag, SeenExpired, TryTakeover, Bodies
      <3>3. \A d \in Container \ {c} : ~(Holds(d, r) /\ client[d].body.left > 0)
        BY <1>5, <3>2 DEF ValidHolds
      <3>4. lock'[r] = client[c].body /\ \A q \in Run \ {r} : lock'[q] = lock[q]
        BY <3>1, <1>5 DEF LeaseTypeOK
      <3> HIDE DEF r
      <3> QED
        BY <1>1, <3>1, <3>3, <3>4 DEF ValidHolds, Holds
    <2> QED
      BY <2>1, <2>2
  <1> QED
    BY <1>1, <1>4, <1>6

(* A release removes the lock only if it is the releaser's own. *)
LEMMA ReleaseInv ==
    ASSUME IInv, LeaseTypeOK', Serving', NEW c \in Container, Release(c) \/ Kill(c)
    PROVE  IInv'
  <1> USE DEF IInv
  <1>1. /\ OneBody' /\ OwnToken' /\ \A b \in Bodies' : b.token =< tokens'
        /\ \A d \in Container \ {c} : client'[d] = client[d]
        /\ tokens' = tokens
    BY KeptInv
  <1>2. Bodies' \subseteq Bodies
    BY BodiesKept
  <1>3. client'[c] = Idle
    BY DEF Release, Kill, Leave, LeaseTypeOK
  <1>4. Issued' /\ SeenExpired'
    BY <1>1, <1>2, <1>3 DEF Issued, SeenExpired, Idle
  <1>5. ASSUME NEW d \in Container \ {c}, NEW r \in Run,
               Holds(d, r), client[d].body.left > 0
        PROVE  lock'[r] = lock[r]
    <2>1. lock[r] = client[d].body /\ client[d].body \in Body
      BY <1>5 DEF ValidHolds, Holds, Serving
    <2>2. CASE Release(c)
      <3>1. client[c].body \in Body /\ client[c].body.token # client[d].body.token
        BY <2>1, <2>2, NoneIsNoBody DEF Release, Serving, OwnToken
      <3> QED
        BY <2>1, <2>2, <3>1 DEF Release, HasEtag, LeaseTypeOK
    <2>3. CASE Kill(c)
      BY <2>3 DEF Kill
    <2> QED
      BY <2>2, <2>3
  <1>6. ValidHolds'
    BY <1>1, <1>3, <1>5 DEF ValidHolds, Holds, Idle
  <1> QED
    BY <1>1, <1>4, <1>6

-----------------------------------------------------------------------------
(* Time passes for all copies of a body alike. *)
LEMMA TickInv ==
    ASSUME IInv, LeaseTypeOK', Serving', Tick
    PROVE  IInv'
  <1> USE DEF IInv
  <1>1. /\ tokens' = tokens
        /\ \A r \in Run : lock'[r] = Older(lock[r])
        /\ \A c \in Container :
              /\ client'[c].body = Older(client[c].body)
              /\ client'[c].at = client[c].at /\ client'[c].run = client[c].run
              /\ client'[c].seen = client[c].seen
    BY DEF Tick, LeaseTypeOK, Client
  <1>2. /\ Older(None) = None
        /\ \A b \in Body : /\ Older(b) \in Body /\ Older(b).token = b.token
                           /\ b.left = 0 => Older(b).left = 0
                           /\ Older(b).left > 0 => b.left > 0
    BY NoneIsNoBody DEF Older, Body
  <1>3. ASSUME NEW a \in Bodies'
        PROVE  \E b \in Bodies : a = Older(b)
    BY <1>1, <1>2, <1>3 DEF Bodies
  <1>4. Bodies \subseteq Body
    BY BodiesAreBodies
  <1>5. \A c \in Container : client[c].body \in Body \cup {None}
    BY DEF LeaseTypeOK, Client
  <1> HIDE DEF IInv
  <1>6. Issued'
    BY <1>1, <1>2, <1>3, <1>4 DEF IInv, Issued
  <1>7. OneBody'
    <2> SUFFICES ASSUME NEW a \in Bodies', NEW b \in Bodies', a.token = b.token
                 PROVE  a = b
      BY DEF OneBody
    <2>1. PICK x \in Bodies : a = Older(x)
      BY <1>3
    <2>2. PICK y \in Bodies : b = Older(y)
      BY <1>3
    <2>3. x = y
      BY <2>1, <2>2, <1>2, <1>4 DEF IInv, OneBody
    <2> QED
      BY <2>1, <2>2, <2>3
  <1>8. OwnToken'
    BY <1>1, <1>2, <1>5 DEF IInv, OwnToken
  <1>9. SeenExpired'
    <2> SUFFICES ASSUME NEW c \in Container, client'[c].at = "takeover",
                        NEW a \in Bodies', a.token = client'[c].seen
                 PROVE  a.left = 0
      BY DEF SeenExpired
    <2>1. PICK x \in Bodies : a = Older(x)
      BY <1>3
    <2> QED
      BY <2>1, <1>1, <1>2, <1>4 DEF IInv, SeenExpired
  <1>10. ValidHolds'
    <2> SUFFICES ASSUME NEW c \in Container, NEW r \in Run,
                        Holds(c, r)', client'[c].body.left > 0
                 PROVE  lock'[r] = client'[c].body
      BY DEF ValidHolds
    <2>1. Holds(c, r) /\ client[c].body \in Body
      BY <1>1 DEF Holds, IInv, Serving
    <2>2. client[c].body.left > 0
      BY <1>1, <1>2, <2>1
    <2>3. lock[r] = client[c].body
      BY <2>1, <2>2 DEF IInv, ValidHolds
    <2> QED
      BY <1>1, <2>3
  <1> QED
    BY <1>6, <1>7, <1>8, <1>9, <1>10 DEF IInv

(* Every step keeps the invariant. *)
LEMMA LeaseNextInv == IInv /\ [LeaseNext]_leaseVars => IInv'
  <1> SUFFICES ASSUME IInv, [LeaseNext]_leaseVars PROVE IInv'
    OBVIOUS
  <1>1. LeaseTypeOK' /\ Serving'
    BY TypeNext DEF IInv
  <1>2. CASE \E c \in Container, r \in Run : Acquire(c, r)
    BY <1>1, <1>2, AcquireInv
  <1>3. CASE \E c \in Container : Coordinate(c)
    BY <1>1, <1>3, TryCreateInv, ReadInv, TryTakeoverInv DEF Coordinate
  <1>4. CASE \E c \in Container : Release(c) \/ Kill(c)
    BY <1>1, <1>4, ReleaseInv
  <1>5. CASE Tick
    BY <1>1, <1>5, TickInv
  <1>6. CASE UNCHANGED leaseVars
    BY <1>6 DEF leaseVars, IInv, LeaseTypeOK, Serving, Issued, OneBody, OwnToken,
                SeenExpired, ValidHolds, Bodies, Holds
  <1> QED
    BY <1>2, <1>3, <1>4, <1>5, <1>6 DEF LeaseNext

-----------------------------------------------------------------------------
(* The lock objects and requests always have their types. *)
THEOREM LeaseTypeCorrect == LeaseSpec => []LeaseTypeOK
  <1>1. IInv => LeaseTypeOK
    BY DEF IInv
  <1> QED
    BY <1>1, LeaseInitInv, LeaseNextInv, PTL DEF LeaseSpec

(* Two holders with valid leases would both have their body as the lock,   *)
(* and hence the same token.                                               *)
LEMMA ExclusiveHolds == IInv => Exclusive
  <1> SUFFICES ASSUME IInv, NEW c \in Container, NEW d \in Container, NEW r \in Run,
                      Holds(c, r), client[c].body.left > 0,
                      Holds(d, r), client[d].body.left > 0
               PROVE  c = d
    BY DEF Exclusive
  <1>1. lock[r] = client[c].body /\ lock[r] = client[d].body
    BY DEF IInv, ValidHolds
  <1>2. client[c].body # None /\ client[d].body # None
    BY NoneIsNoBody DEF IInv, Serving, Holds
  <1> QED
    BY <1>1, <1>2 DEF IInv, OwnToken

(* At most one container holds a run's lease while it is valid. *)
THEOREM OneValidHolder == LeaseSpec => []Exclusive
  BY LeaseInitInv, LeaseNextInv, ExclusiveHolds, PTL DEF LeaseSpec

(* A live lock is replaced by nobody, and removed by its owner alone. *)
LEMMA LiveLockStep ==
    ASSUME IInv, [LeaseNext]_leaseVars, NEW r \in Run,
           lock[r] # None, lock[r].left > 0,
           lock'[r] = None \/ lock'[r].token # lock[r].token
    PROVE  /\ lock'[r] = None
           /\ \E c \in Container :
                 /\ Holds(c, r) /\ client[c].body.token = lock[r].token
                 /\ client'[c] = Idle
  <1> USE DEF IInv
  <1>1. lock[r] \in Body /\ lock[r] \in Bodies
    BY DEF LeaseTypeOK, Bodies
  <1>2. lock'[r] # lock[r]
    BY NoneIsNoBody, <1>1
  <1>3. ASSUME NEW c \in Container, TryCreate(c) PROVE FALSE
    BY <1>2, <1>3 DEF TryCreate, LeaseTypeOK
  <1>4. ASSUME NEW c \in Container, TryTakeover(c) PROVE FALSE
    <2>1. client[c].run = r /\ lock[r].token = client[c].seen
      BY <1>2, <1>4 DEF TryTakeover, HasEtag, LeaseTypeOK
    <2>2. lock[r].left = 0
      BY <1>1, <1>4, <2>1 DEF TryTakeover, SeenExpired
    <2> QED
      BY <2>2
  <1>5. ASSUME Tick PROVE FALSE
    <2>1. lock'[r] = Older(lock[r])
      BY <1>5 DEF Tick
    <2>2. Older(lock[r]) \in Body /\ Older(lock[r]).token = lock[r].token
      BY <1>1 DEF Older, Body
    <2> QED
      BY <2>1, <2>2, NoneIsNoBody
  <1>6. ASSUME NEW c \in Container, Release(c)
        PROVE  /\ lock'[r] = None
               /\ Holds(c, r) /\ client[c].body.token = lock[r].token
               /\ client'[c] = Idle
    BY <1>2, <1>6 DEF Release, HasEtag, Holds, Leave, LeaseTypeOK
  <1>7. PICK c \in Container : Release(c)
    BY <1>2, <1>3, <1>4, <1>5 DEF LeaseNext, Coordinate, leaseVars, Acquire, Read, Kill
  <1> QED
    BY <1>6, <1>7

(* No container replaces a live lock or removes that of another. *)
THEOREM LiveLocksStand == LeaseSpec => LiveLockStands
  <1> DEFINE Step ==
        \A r \in Run :
          /\ lock[r] # None /\ lock[r].left > 0
          /\ lock'[r] = None \/ lock'[r].token # lock[r].token
          => /\ lock'[r] = None
             /\ \E c \in Container :
                   /\ Holds(c, r) /\ client[c].body.token = lock[r].token
                   /\ client'[c] = Idle
  <1>1. IInv /\ [LeaseNext]_leaseVars => Step
    BY LiveLockStep
  <1>2. IInv /\ [LeaseNext]_leaseVars => [Step]_leaseVars
    BY <1>1
  <1> QED
    BY <1>2, LeaseInitInv, LeaseNextInv, PTL DEF LeaseSpec, LiveLockStands
=============================================================================
