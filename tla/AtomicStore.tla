----------------------------- MODULE AtomicStore -----------------------------
(***************************************************************************)
(* What the durable store promises to the runtime: a transition event and  *)
(* the snapshot it leads to appear together, the consumption of an         *)
(* authorization and the start it pays for appear together, an action ends *)
(* at most once and after it started, and the ledger only grows.           *)
(***************************************************************************)
EXTENDS Naturals, Sequences

CONSTANTS
    Status,     \* run statuses
    Action,     \* identifiers of Tier-2 actions
    Auth,       \* authorization identifiers
    AuthOf,     \* [Action -> Auth], the capability an action presents
    MaxTransitions, \* bound on the number of transitions
    None

VARIABLES
    ledger,     \* sequence of events
    current,    \* number of the transition the snapshot reflects, 0 at creation
    auth        \* [Auth -> [status, by]]

vars == <<ledger, current, auth>>

Event ==
    [type : {"STATE_TRANSITION"}, id : 1..MaxTransitions, to : Status]
      \cup [type : {"ACTION_STARTED", "ACTION_COMPLETED", "ACTION_FAILED"}, id : Action]

Has(log, type, id) == \E i \in DOMAIN log : log[i].type = type /\ log[i].id = id

Ended(log, a) == Has(log, "ACTION_COMPLETED", a) \/ Has(log, "ACTION_FAILED", a)

Unfinished(log, a) == Has(log, "ACTION_STARTED", a) /\ ~Ended(log, a)

Init ==
    /\ ledger = <<>>
    /\ current = 0
    /\ auth = [x \in Auth |-> [status |-> "NONE", by |-> None]]

Issue(x) ==
    /\ auth[x].status = "NONE"
    /\ auth' = [auth EXCEPT ![x].status = "ISSUED"]
    /\ UNCHANGED <<ledger, current>>

Commit(n, s) ==
    /\ ~Has(ledger, "STATE_TRANSITION", n)
    /\ ledger' = Append(ledger, [type |-> "STATE_TRANSITION", id |-> n, to |-> s])
    /\ current' = n
    /\ UNCHANGED auth

Begin(a) ==
    /\ auth[AuthOf[a]].status = "ISSUED"
    /\ ~Has(ledger, "ACTION_STARTED", a)
    /\ ledger' = Append(ledger, [type |-> "ACTION_STARTED", id |-> a])
    /\ auth' = [auth EXCEPT ![AuthOf[a]] = [status |-> "CONSUMED", by |-> a]]
    /\ UNCHANGED current

Void(x) ==
    /\ auth[x].status = "CONSUMED"
    /\ auth' = [auth EXCEPT ![x].status = "VOID"]
    /\ UNCHANGED <<ledger, current>>

Complete(a) ==
    /\ Unfinished(ledger, a)
    /\ auth[AuthOf[a]] = [status |-> "CONSUMED", by |-> a]
    /\ ledger' = Append(ledger, [type |-> "ACTION_COMPLETED", id |-> a])
    /\ UNCHANGED <<current, auth>>

Fail(a) ==
    /\ Unfinished(ledger, a)
    /\ auth[AuthOf[a]] = [status |-> "VOID", by |-> a]
    /\ ledger' = Append(ledger, [type |-> "ACTION_FAILED", id |-> a])
    /\ UNCHANGED <<current, auth>>

Next ==
    \/ \E x \in Auth : Issue(x) \/ Void(x)
    \/ \E n \in 1..MaxTransitions, s \in Status : Commit(n, s)
    \/ \E a \in Action : Begin(a) \/ Complete(a) \/ Fail(a)

Spec == Init /\ [][Next]_vars
=============================================================================
