------------------------------- MODULE Catalog -------------------------------
(* The closed measurement catalogue and the tool registry: which facts exist, *)
(* what type, unit and tool each has, how far its failure may be remedied,    *)
(* and what the predicate engine says of a fact and a constraint.             *)
(*                                                                            *)
(* A canonical value is a tagged pair: <<"bool", b>>, <<"int", n>>,           *)
(* <<"float", n>> (both in thousandths), <<"rate", r>> or <<"word", w>>; what  *)
(* ffmpeg reports of silence is <<"inf", -1>>, a value of no catalogue type.  *)
EXTENDS Integers, Sequences, FiniteSets

None == "none"                       \* Python's None where a name is optional

(* Measurement keys by value type and by producing tool. *)
KeysOfType ==
    [ bool     |-> {"package.file_present[role]", "package.manifest_present",
                    "package.checksums_match", "captions.present"},
      str      |-> {"package.filename[role]"},
      enum     |-> {"container.format", "video.codec", "video.scan_type",
                    "audio.channel_layout", "captions.format"},
      int      |-> {"video.width", "video.height", "audio.channel_count",
                    "audio.sample_rate", "captions.cue_count",
                    "captions.overlapping_cues"},
      float    |-> {"audio.integrated_loudness", "audio.true_peak",
                    "audio.loudness_range", "captions.first_cue_start",
                    "captions.max_cue_end_vs_duration"},
      rational |-> {"video.frame_rate"} ]

KeysOfTool ==
    [ scan_package     |-> {"package.file_present[role]", "package.filename[role]",
                            "package.manifest_present", "captions.present"},
      verify_manifest  |-> {"package.checksums_match"},
      probe_media      |-> {"container.format", "video.codec", "video.width",
                            "video.height", "video.frame_rate", "video.scan_type",
                            "audio.channel_count", "audio.channel_layout",
                            "audio.sample_rate"},
      measure_loudness |-> {"audio.integrated_loudness", "audio.true_peak",
                            "audio.loudness_range"},
      inspect_captions |-> {"captions.format", "captions.cue_count",
                            "captions.first_cue_start", "captions.overlapping_cues",
                            "captions.max_cue_end_vs_duration"} ]

InspectionTools == DOMAIN KeysOfTool

MeasurementCatalog == UNION {KeysOfType[t] : t \in DOMAIN KeysOfType}

ValueType(key) == CHOOSE t \in DOMAIN KeysOfType : key \in KeysOfType[t]

ProducedBy(key) == CHOOSE t \in InspectionTools : key \in KeysOfTool[t]

CanonicalUnit(key) ==
    CASE key = "audio.integrated_loudness"                      -> "LUFS"
      [] key = "audio.true_peak"                                -> "dBTP"
      [] key = "audio.loudness_range"                           -> "LU"
      [] key = "audio.sample_rate"                              -> "Hz"
      [] key = "video.frame_rate"                               -> "fps"
      [] key \in {"video.width", "video.height"}                -> "px"
      [] key \in {"captions.first_cue_start",
                  "captions.max_cue_end_vs_duration"}           -> "s"
      [] OTHER                                                  -> None

(* How far the catalogue lets a failure of the key be remedied. *)
RemediationDefault(key) ==
    CASE key \in {"package.filename[role]", "package.manifest_present",
                  "captions.format"}                          -> "AUTO_REMEDIATE"
      [] key \in {"audio.integrated_loudness", "audio.true_peak"}
                                                     -> "HUMAN_APPROVAL_REQUIRED"
      [] OTHER                                       -> "REPORT_ONLY"

AllowedConstraintOperators(key) ==
    CASE ValueType(key) = "bool"              -> {"EQUALS", "PRESENT", "ABSENT"}
      [] ValueType(key) = "str"    -> {"EQUALS", "ONE_OF", "MATCHES_PATTERN"}
      [] ValueType(key) \in {"enum", "rational"} -> {"EQUALS", "ONE_OF"}
      [] ValueType(key) \in {"int", "float"}
                              -> {"EQUALS", "MIN", "MAX", "RANGE", "ONE_OF"}

-----------------------------------------------------------------------------
(* The tool registry: input fields and authority tier. *)

Tier(tool) ==
    IF tool \in InspectionTools THEN 0
    ELSE IF tool = "create_normalized_audio_derivative" THEN 2 ELSE 1

InputFields(tool) ==
    CASE tool \in {"scan_package", "verify_manifest"} -> {"run_id"}
      [] tool = "measure_loudness"                    -> {"asset_id", "stream"}
      [] OTHER                                        -> {"asset_id"}

(* Words no tool input accepts: path syntax, the empty name, and no name. *)
PathWords == {"/", "..", "a/b", "text/vtt"}

AcceptedInput(word) == word \notin PathWords \cup {"", None}

-----------------------------------------------------------------------------
Numbers == {"int", "float"}

SameValue(v, w) == IF v[1] \in Numbers /\ w[1] \in Numbers THEN v[2] = w[2] ELSE v = w

AtMost(v, w) == v[2] <= w[2]

(* Rates such as 25/1, that reduce to a whole number and do not round-trip.   *)
IntegralRates == {"25/1", "30/1"}

(* What the fact contract accepts as a value of the key: a canonical value of *)
(* the key's type; an infinity and an integral frame rate are refused.        *)
ValidMeasurementValue(key, v) ==
    CASE ValueType(key) = "bool"     -> v[1] = "bool"
      [] ValueType(key) = "int"      -> v[1] = "int"
      [] ValueType(key) = "float"    -> v[1] = "float"
      [] ValueType(key) = "rational" -> v[1] = "rate" /\ v[2] \notin IntegralRates
      [] OTHER                       -> v[1] = "word" /\ v[2] # ""

(* A regular expression, as far as a filename tells one from another: "any"   *)
(* matches every word, "[" does not compile, another matches itself.          *)
Compiles(pattern) == pattern # "["

FullMatch(pattern, word) == pattern \in {"any", word}

Matched(v, constraint) ==
    LET bound == constraint.values IN
    CASE constraint.operator = "EQUALS"  -> SameValue(v, bound[1])
      [] constraint.operator = "MIN"     -> AtMost(bound[1], v)
      [] constraint.operator = "MAX"     -> AtMost(v, bound[1])
      [] constraint.operator = "RANGE"   -> /\ AtMost(bound[1], v)
                                            /\ AtMost(v, bound[2])
      [] constraint.operator = "ONE_OF"  -> \E i \in DOMAIN bound :
                                               SameValue(v, bound[i])
      [] constraint.operator = "MATCHES_PATTERN"
                                         -> FullMatch(bound[1][2], v[2])
      [] constraint.operator = "PRESENT" -> v = <<"bool", TRUE>>
      [] constraint.operator = "ABSENT"  -> v = <<"bool", FALSE>>

(* A fact is [key, asset, status, values, unit]: values is empty when the     *)
(* status is ERROR.                                                           *)
EvaluatePredicate(fact, constraint) ==
    IF /\ fact.status = "OK"
       /\ fact.key = constraint.key
       /\ fact.unit = constraint.unit
       /\ fact.values # <<>>
       /\ constraint.operator \in AllowedConstraintOperators(fact.key)
    THEN IF Matched(fact.values[1], constraint) THEN "PASS" ELSE "FAIL"
    ELSE "NOT_EVALUATED"
=============================================================================
