------------------------------ MODULE Diagnosis ------------------------------
(* The diagnosis seam: which remedies the runtime shows a semantic model,     *)
(* which of its answers it accepts, and what the AgentCore adapter makes of   *)
(* an answer before the runtime sees it.                                      *)
(*                                                                            *)
(* An open finding is [requirement, asset, options], an option <<tool,        *)
(* argument>>. A finding's id follows from its requirement and an option's    *)
(* from its finding and its tool. An item of an answer is [finding,           *)
(* disposition, option], with option <<>> when it names none.                 *)
EXTENDS Catalog, SequencesExt

OptionId(finding, option) == <<finding.requirement, option[1]>>

OpenIds(open) == {open[i].requirement : i \in DOMAIN open}

TierOneAvailable(open) ==
    \E i \in DOMAIN open : \E o \in Range(open[i].options) : Tier(o[1]) = 1

(* While a reversible remedy is open, those a human must approve stay hidden. *)
ExposedOptions(open, finding) ==
    LET tier == IF TierOneAvailable(open) THEN 1 ELSE 2
    IN  {o \in Range(finding.options) : Tier(o[1]) = tier}

(* Findings that share an id show the options of the last of them. *)
OfferedTo(open, id) ==
    LET finding == open[CHOOSE i \in DOMAIN open :
                           /\ open[i].requirement = id
                           /\ \A j \in DOMAIN open : open[j].requirement = id => j <= i]
    IN  {[id |-> OptionId(finding, o), tier |-> Tier(o[1])]
            : o \in ExposedOptions(open, finding)}

(* Every identity of an open finding is diagnosed exactly once, by an option  *)
(* it was offered: identities are compared as sets.                           *)
DiagnosisAccepted(items, open) ==
    /\ items # <<>>
    /\ \A i, j \in DOMAIN items : items[i].finding = items[j].finding => i = j
    /\ {items[i].finding : i \in DOMAIN items} = OpenIds(open)
    /\ \A i \in DOMAIN items :
          LET chosen == {o \in OfferedTo(open, items[i].finding) :
                            o.id = items[i].option}
          IN  CASE items[i].disposition = "NO_ACTION" -> items[i].option = <<>>
                [] items[i].disposition = "APPLIED"  -> \E o \in chosen : o.tier = 1
                [] items[i].disposition = "ESCALATE" -> \E o \in chosen : o.tier = 2

-----------------------------------------------------------------------------
(* What the prompt says of the open findings, one entry for each. *)
Prompt(open) ==
    [i \in DOMAIN open |->
        [ finding |-> open[i].requirement,
          options |-> {[id |-> OptionId(open[i], o), tier |-> Tier(o[1])]
                          : o \in ExposedOptions(open, open[i])} ]]

PromptOptions(prompt, id) ==
    UNION {prompt[i].options : i \in {i \in DOMAIN prompt : prompt[i].finding = id}}

(* Fault: an answer that takes no action may name an option all the same. *)
FaultIsBound(items, prompt) ==
    /\ \A i, j \in DOMAIN items : items[i].finding = items[j].finding => i = j
    /\ {items[i].finding : i \in DOMAIN items} = {prompt[i].finding : i \in DOMAIN prompt}
    /\ \A i \in DOMAIN items :
          items[i].disposition # "NO_ACTION" =>
             \E o \in PromptOptions(prompt, items[i].finding) :
                /\ o.id = items[i].option
                /\ o.tier = IF items[i].disposition = "APPLIED" THEN 1 ELSE 2

(* The adapter's own reading of the rules above, from the prompt alone. *)
IsBound(items, prompt) ==
    /\ \A i, j \in DOMAIN items : items[i].finding = items[j].finding => i = j
    /\ {items[i].finding : i \in DOMAIN items} = {prompt[i].finding : i \in DOMAIN prompt}
    /\ \A i \in DOMAIN items :
          IF items[i].disposition = "NO_ACTION" THEN items[i].option = <<>>
          ELSE \E o \in PromptOptions(prompt, items[i].finding) :
                  /\ o.id = items[i].option
                  /\ o.tier = IF items[i].disposition = "APPLIED" THEN 1 ELSE 2

(* A reply is [kind, items]: a diagnosis, an error envelope, a shape that is  *)
(* no diagnosis, or the failure of the call itself.                           *)
DiagnosisRejected(reply, prompt) ==
    \/ reply.kind # "diagnosis"
    \/ reply.items = <<>>
    \/ ~IsBound(reply.items, prompt)

(* The deterministic double: one item for each entry of the prompt, with its  *)
(* first option of the lowest tier.                                           *)
DoubleItem(entry) ==
    LET ofTier(t) == {o \in entry.options : o.tier = t}
        item(disposition, option) ==
            [finding |-> entry.finding, disposition |-> disposition, option |-> option]
    IN  CASE ofTier(1) # {} -> item("APPLIED", (CHOOSE o \in ofTier(1) : TRUE).id)
          [] ofTier(2) # {} -> item("ESCALATE", (CHOOSE o \in ofTier(2) : TRUE).id)
          [] OTHER          -> item("NO_ACTION", <<>>)

DoubleAnswer(prompt) == [i \in DOMAIN prompt |-> DoubleItem(prompt[i])]

(* What the adapter hands the runtime: the agent's items, or the double's. *)
Generate(reply, prompt) ==
    IF DiagnosisRejected(reply, prompt) THEN DoubleAnswer(prompt) ELSE reply.items
=============================================================================
