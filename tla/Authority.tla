------------------------------ MODULE Authority ------------------------------
(* The two gates a tool call passes: the authority engine, asked by the hook  *)
(* before anything happens, and the executor, that begins the action.         *)
(*                                                                            *)
(* A call is [tool, run, asset, option, argument, authorization]: what the    *)
(* typed input of the tool holds, with None, 0 or <<>> for a field it has     *)
(* not; the argument is the one word that tells calls of a tool apart. An     *)
(* option is [id, finding, tool, tier, asset, argument]; its hash binds asset *)
(* and argument, not the authorization. A context is [run, status,            *)
(* protection, open, options, pending]: protection maps the assets of the     *)
(* package, open holds the findings that are open.                            *)
EXTENDS Catalog

MutatingTools == {"rename_delivery_copy", "convert_caption_format",
                  "write_checksum_manifest", "create_normalized_audio_derivative"}

Tools == InspectionTools \cup MutatingTools

BoundOption(call, context) == {o \in context.options : o.id = call.option}

HashBinds(call, option) ==
    /\ call.tool = option.tool
    /\ call.asset = option.asset
    /\ call.argument = option.argument
    /\ call.option = option.id

TargetKnown(call, context) == call.asset \in {0} \cup DOMAIN context.protection

TargetOriginal(call, context) ==
    /\ call.asset \in DOMAIN context.protection
    /\ context.protection[call.asset] = "ORIGINAL"

Evaluate(tool, call, context) ==
    LET bound  == BoundOption(call, context)
        option == CHOOSE o \in bound : TRUE
        ready  == context.status = "FINDINGS_READY"
    IN  CASE tool \notin Tools -> "FORBID"
          [] call.tool # tool -> "FORBID"
          [] call.run \notin {None, context.run} -> "FORBID"
          [] ~TargetKnown(call, context) -> "FORBID"
          [] Tier(tool) = 0 -> IF context.status = "INSPECTING" \/ ready
                               THEN "ALLOW" ELSE "FORBID"
          [] TargetOriginal(call, context) -> "FORBID"
          [] bound = {} -> "FORBID"
          [] option.finding \notin context.open -> "FORBID"
          [] option.tool # tool \/ option.tier # Tier(tool) -> "FORBID"
          [] ~HashBinds(call, option) -> "FORBID"
          [] ~ready -> "FORBID"
          [] OTHER -> IF Tier(tool) = 1 THEN "ALLOW" ELSE "REQUIRE_DECISION"

(* A second request is not made while one is pending. *)
DecisionRequested(option, context) ==
    /\ context.pending = <<>>
    /\ option \in context.options
    /\ option.tier = 2

(* The hook: options is the one it is handed, or none. A request that cannot  *)
(* be made raises.                                                            *)
EvaluateAgentCall(tool, call, options, context) ==
    LET outcome == Evaluate(tool, call, context) IN
    CASE outcome = "ALLOW"  -> "ALLOW"
      [] outcome = "FORBID" -> "REFUSE"
      [] options = {}       -> "REFUSE"
      [] OTHER -> IF DecisionRequested(CHOOSE o \in options : TRUE, context)
                  THEN "INTERRUPT" ELSE "RAISE"

(* Fault: the arguments of the option stand in for those of the call. *)
FaultBeforeToolCall(tool, call, context) ==
    LET bound == BoundOption(call, context)
    IN  EvaluateAgentCall(tool,
            IF bound = {} THEN call
            ELSE [call EXCEPT !.argument = (CHOOSE o \in bound : TRUE).argument],
            bound, context)

(* What an agent framework asks before each call of a model: a tool nobody    *)
(* knows, or an input its contract refuses, is refused without being asked.   *)
BeforeToolCall(tool, call, context) ==
    IF \/ tool \notin Tools \/ call.tool # tool
       \/ \E i \in DOMAIN call.argument : ~AcceptedInput(call.argument[i])
    THEN "REFUSE"
    ELSE EvaluateAgentCall(tool, call, BoundOption(call, context), context)

(* What the executor asks before it begins an action, in a run that has       *)
(* already moved to REMEDIATING, of the context from before that move.        *)
Begins(status, call, option, context) ==
    /\ status = "REMEDIATING"
    /\ call.tool \in MutatingTools
    /\ call.run \in {None, context.run}
    /\ option \in context.options /\ option.tool = call.tool
    /\ HashBinds(call, option)
    /\ TargetKnown(call, context)
    /\ ~TargetOriginal(call, context)
    /\ Tier(call.tool) = 2 => call.authorization # None
=============================================================================
