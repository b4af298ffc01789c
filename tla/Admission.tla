------------------------------ MODULE Admission ------------------------------
(* Source documents and requirement admission: how prose becomes segments,    *)
(* how a cited span becomes provenance, and how an untrusted candidate of the *)
(* semantic model becomes a requirement or is refused.                        *)
(*                                                                            *)
(* A document is a sequence of pieces [kind, ends, words]: a heading, a       *)
(* numbered heading, a blank line, or a stretch of text that either reaches   *)
(* the end of a sentence or does not. "words" is the set of phrases of the    *)
(* piece that admission looks for, each a tuple: <<"must">>, <<"for", value>>.*)
EXTENDS Catalog, Ordering, SequencesExt, FiniteSetsExt

-----------------------------------------------------------------------------
(* Segments and spans. *)

IsText(doc, i) == i \in DOMAIN doc /\ doc[i].kind = "text"

OpensSentence(doc, i) ==
    IsText(doc, i) /\ (~IsText(doc, i - 1) \/ doc[i - 1].ends)

ClosesSentence(doc, i) ==
    IsText(doc, i) /\ (doc[i].ends \/ ~IsText(doc, i + 1))

(* A segment is a sentence: the pieces from one that opens it to the first    *)
(* that closes it, under the last heading above it.                           *)
SegmentSourceDocument(doc) ==
    LET order    == Ascending({i \in DOMAIN doc : OpensSentence(doc, i)})
        heads(i) == {h \in 1 .. i : doc[h].kind \in {"heading", "numbered"}}
        segment(i) == [ start |-> i,
                        end   |-> Min({j \in i .. Len(doc) : ClosesSentence(doc, j)}),
                        reference |-> IF heads(i) = {} THEN 0 ELSE Max(heads(i)) ]
    IN  [n \in DOMAIN order |-> segment(order[n])]

WordsOf(doc, first, last) == UNION {doc[i].words : i \in first .. last}

(* The cited segments exist, follow one another, and hold the quote, a range  *)
(* of pieces.                                                                 *)
SpanAdmitted(segments, cited, quote) ==
    /\ Len(cited) \in 1 .. 3
    /\ \A i \in DOMAIN cited : /\ cited[i] \in DOMAIN segments
                               /\ cited[i] = cited[1] + i - 1
    /\ segments[cited[1]].start <= quote[1]
    /\ quote[2] <= segments[Last(cited)].end

SourceSpan(doc, segments, cited) ==
    LET first == segments[cited[1]].start
        last  == segments[Last(cited)].end
        refs  == {segments[cited[i]].reference : i \in DOMAIN cited}
    IN  [ segments |-> cited, words |-> WordsOf(doc, first, last),
          reference |-> IF Cardinality(refs) = 1
                        THEN segments[cited[1]].reference ELSE 0 ]

-----------------------------------------------------------------------------
(* What the text itself decides: severity and applicability. *)

ModalGroups ==
    [ BLOCKING |-> {<<"must">>, <<"required">>},
      WARNING  |-> {<<"should">>, <<"recommended">>},
      INFO     |-> {<<"may">>, <<"optional">>} ]

(* Fault: of several modals the weakest wins. *)
FaultModalSeverity(words) ==
    LET found == {s \in DOMAIN ModalGroups : ModalGroups[s] \cap words # {}}
    IN  CASE found = {}         -> <<"BLOCKING", "UNKNOWN">>
          [] "INFO" \in found   -> <<"INFO", "TOKEN">>
          [] "WARNING" \in found -> <<"WARNING", "TOKEN">>
          [] OTHER              -> <<"BLOCKING", "TOKEN">>

ModalSeverity(words) ==
    LET found == {s \in DOMAIN ModalGroups : ModalGroups[s] \cap words # {}}
    IN  CASE found = {}             -> <<"BLOCKING", "UNKNOWN">>
          [] Cardinality(found) > 1 -> <<"BLOCKING", "MIXED">>
          [] OTHER -> <<CHOOSE s \in found : TRUE, "TOKEN">>

ConditionalHint(words) ==
    \E w \in words : w[1] \in {"for", "except", "unless", "depending"}

ConditionFields == {"asset.role", "run.content_type", "run.destination_profile"}

ConditionSupported(words, draft) ==
    CASE draft.op = "EQ"  -> \E v \in draft.values : <<"for", v>> \in words
      [] draft.op = "NEQ" -> \E v \in draft.values : <<"except", v>> \in words
      [] draft.op = "IN"  -> /\ <<"one of">> \in words
                             /\ \A v \in draft.values : \E w \in words : v = Last(w)
      [] OTHER            -> FALSE

ConditionTrusted(doc, segments, cited, draft) ==
    /\ draft.anchor \in Range(cited)
    /\ draft.field \in ConditionFields
    /\ ConditionSupported(WordsOf(doc, segments[draft.anchor].start,
                                  segments[draft.anchor].end), draft)

(* The conditions that are kept and the status they give. A draft the text    *)
(* gives no hint of is ignored; one draft that is not proven by the segment   *)
(* it is anchored in leaves the whole requirement unresolved.                 *)
AdmitApplicability(doc, segments, span, drafts) ==
    LET hint == \/ ConditionalHint(span.words)
                \/ drafts # <<>> /\ <<"one of">> \in span.words
    IN  IF drafts = <<>> /\ hint THEN <<<<>>, "UNRESOLVED">>
        ELSE IF drafts = <<>> \/ ~hint THEN <<<<>>, "APPLICABLE">>
        ELSE IF \A i \in DOMAIN drafts :
                    ConditionTrusted(doc, segments, span.segments, drafts[i])
             THEN <<drafts, "APPLICABLE">>
             ELSE <<<<>>, "UNRESOLVED">>

-----------------------------------------------------------------------------
(* The constraint language: units, values, counts. *)

(* The factor (over the canonical unit) of a unit as written, 0 when it is    *)
(* not one of the key's.                                                      *)
UnitFactor(raw, unit) ==
    CASE unit = None -> IF raw = None THEN 1 ELSE 0
      [] unit = "Hz" /\ raw = "khz" -> 1000
      [] OTHER -> IF <<raw, unit>> \in
                        { <<"lufs", "LUFS">>, <<"lkfs", "LUFS">>, <<"dbtp", "dBTP">>,
                          <<"hz", "Hz">>, <<"fps", "fps">>, <<"px", "px">>,
                          <<"pixels", "px">>, <<"lu", "LU">>, <<"db", "LU">>,
                          <<"s", "s">>, <<"seconds", "s">> } THEN 1 ELSE 0

(* Raw values are <<"num", n>> (in thousandths) or <<"word", w>>.             *)
TruthWords == [ true |-> TRUE, yes |-> TRUE, present |-> TRUE,
                false |-> FALSE, no |-> FALSE, absent |-> FALSE ]

Rationals == 23976 :> "24000/1001" @@ 29970 :> "30000/1001" @@ 59940 :> "60000/1001"

EnumAliases(key, word) == IF key = "video.codec" /\ word = "h.264" THEN "h264" ELSE word

(* The canonical value of a raw one, as a sequence: empty when it is none of  *)
(* the key's type. A rate that is written as a plain number and is none of    *)
(* the three known stays the text it was.                                     *)
ParseValue(raw, key, factor) ==
    LET type == ValueType(key) IN
    CASE type = "bool"  -> IF raw[1] = "word" /\ raw[2] \in DOMAIN TruthWords
                           THEN << <<"bool", TruthWords[raw[2]]>> >> ELSE <<>>
      [] type = "int"   -> IF raw[1] = "num" /\ (raw[2] * factor) % 1000 = 0
                           THEN << <<"int", raw[2] * factor>> >> ELSE <<>>
      [] type = "float" -> IF raw[1] = "num"
                           THEN << <<"float", raw[2] * factor>> >> ELSE <<>>
      [] raw[1] = "num" -> IF type = "rational" /\ raw[2] \in DOMAIN Rationals
                           THEN << <<"rate", Rationals[raw[2]]>> >>
                           ELSE << <<"plain", raw[2]>> >>
      [] type = "rational" -> << <<"rate", raw[2]>> >>
      [] type = "enum"  -> << <<"word", EnumAliases(key, raw[2])>> >>
      [] OTHER          -> << raw >>

CountAllowed(operator, n) ==
    CASE operator \in {"EQUALS", "MIN", "MAX"}        -> n = 1
      [] operator \in {"RANGE", "MATCHES_PATTERN"}    -> n = 2
      [] operator \in {"PRESENT", "ABSENT"}           -> n = 0
      [] operator = "ONE_OF"                          -> n >= 1

ShapeAllowed(operator, values) ==
    CASE operator = "RANGE"           -> AtMost(values[1], values[2])
      [] operator = "MATCHES_PATTERN" -> Compiles(values[1][2]) /\ values[2][2] # ""
      [] OTHER                        -> TRUE

(* The constraint in the catalogue's unit, whatever unit it was written in. *)
FaultCanonicalConstraint(key, draft, values) ==
    [key |-> key, operator |-> draft.operator, values |-> values, unit |-> draft.unit]

CanonicalConstraint(key, draft, values) ==
    [ key |-> key, operator |-> draft.operator, values |-> values,
      unit |-> CanonicalUnit(key) ]

(* <<constraint, status>>: the constraint is empty unless it is EXECUTABLE.   *)
(* A draft is a sequence of at most one [operator, values, unit].             *)
NormalizeConstraint(drafted, key) ==
    IF drafted = <<>> THEN <<<<>>, "AMBIGUOUS">>
    ELSE LET draft  == drafted[1]
             factor == UnitFactor(draft.unit, CanonicalUnit(key))
             parsed == [i \in DOMAIN draft.values |->
                           ParseValue(draft.values[i], key, factor)]
         IN  CASE draft.operator \notin AllowedConstraintOperators(key)
                      -> <<<<>>, "UNSUPPORTED">>
               [] factor = 0 \/ ~CountAllowed(draft.operator, Len(parsed))
                      -> <<<<>>, "AMBIGUOUS">>
               [] \E i \in DOMAIN parsed : parsed[i] = <<>>
                      -> <<<<>>, "AMBIGUOUS">>
               [] OTHER -> LET values == [i \in DOMAIN parsed |-> parsed[i][1]]
                           IN  IF ShapeAllowed(draft.operator, values)
                               THEN << <<CanonicalConstraint(key, draft, values)>>,
                                       "EXECUTABLE" >>
                               ELSE <<<<>>, "AMBIGUOUS">>

-----------------------------------------------------------------------------
(* Admission of one candidate. *)

AssetRoles == {"PROGRAM_MASTER", "CAPTIONS", "MANIFEST", "OTHER"}

(* A parameterised key is <<base, role>>: it stands for base[role] when the   *)
(* role is the scope's, and for nothing otherwise.                            *)
ParameterizedKeys == [filename |-> "package.filename[role]",
                      file_present |-> "package.file_present[role]"]

(* <<key, known>>: known when the catalogue has it. *)
MeasurementKey(proposed, role) ==
    CASE Len(proposed) = 2 -> IF proposed[2] = role THEN ParameterizedKeys[proposed[1]]
                              ELSE None
      [] OTHER             -> proposed[1]

Strictness == [ AUTO_REMEDIATE |-> 0, REPORT_ONLY |-> 1,
                HUMAN_APPROVAL_REQUIRED |-> 2, FORBIDDEN |-> 3 ]

(* Fault: any known disposition is taken. *)
FaultDisposition(known, key, proposed) ==
    IF proposed \in DOMAIN Strictness THEN proposed
    ELSE IF known THEN RemediationDefault(key) ELSE "FORBIDDEN"

(* A candidate can make a remedy stricter than the catalogue, never looser.   *)
Disposition(known, key, proposed) ==
    LET floor == IF known THEN RemediationDefault(key) ELSE "FORBIDDEN"
    IN  IF proposed \in DOMAIN Strictness /\ Strictness[proposed] >= Strictness[floor]
        THEN proposed ELSE floor

(* The one value the source's own words rewrite. *)
SourceOwnedValue(constraint, words) ==
    IF constraint # <<>> /\ constraint[1].key = "container.format"
          /\ constraint[1].operator = "EQUALS"
          /\ constraint[1].values[1] = <<"word", "quicktime">>
          /\ <<"quicktime mov">> \in words
    THEN <<[constraint[1] EXCEPT !.values = << <<"word", "quicktime mov">> >>]>>
    ELSE constraint

(* Fault: a loudness demand is executable without a stream. *)
FaultNormalizedDraft(candidate, key, role, words) ==
    CASE candidate.key = <<>>           -> <<<<>>, "AMBIGUOUS">>
      [] key \notin MeasurementCatalog -> <<<<>>, "UNSUPPORTED">>
      [] OTHER -> LET normal == NormalizeConstraint(candidate.draft, key)
                  IN  <<SourceOwnedValue(normal[1], words), normal[2]>>

(* What the measurement key and the draft give before anything else is known. *)
NormalizedDraft(candidate, key, role, words) ==
    CASE candidate.key = <<>>           -> <<<<>>, "AMBIGUOUS">>
      [] key \notin MeasurementCatalog -> <<<<>>, "UNSUPPORTED">>
      [] OTHER ->
           LET normal == NormalizeConstraint(candidate.draft, key)
           IN  IF /\ normal[2] = "EXECUTABLE"
                  /\ ProducedBy(key) = "measure_loudness"
                  /\ candidate.stream = None
               THEN <<<<>>, "AMBIGUOUS">>
               ELSE <<SourceOwnedValue(normal[1], words), normal[2]>>

(* The identity of a requirement: the segments it was read from and what it   *)
(* demands; neither its scope nor its conditions.                             *)
RequirementId(cited, constraint, status) ==
    <<cited, IF constraint = <<>> THEN <<status>>
             ELSE <<"constraint", constraint[1]>> >>

(* The requirement a candidate becomes when its span is admitted. The status  *)
(* the candidate itself proposes is a ceiling; a document it leans on must be *)
(* at hand; a role nobody knows is not supported.                             *)
Admit(candidate, doc, segments, titles) ==
    LET span    == SourceSpan(doc, segments, candidate.cited)
        role    == IF candidate.role \in AssetRoles THEN candidate.role ELSE "OTHER"
        key     == IF candidate.key = <<>> THEN None
                   ELSE MeasurementKey(candidate.key, role)
        known   == key \in MeasurementCatalog
        drafted == NormalizedDraft(candidate, key, role, span.words)
        status  == CASE candidate.role \notin AssetRoles -> "UNSUPPORTED"
                     [] candidate.referenced \notin titles \cup {None}
                                                        -> "EXTERNAL_DEPENDENCY"
                     [] drafted[2] = "EXECUTABLE"       -> candidate.status
                     [] OTHER                           -> drafted[2]
        constraint == IF status = "EXECUTABLE" THEN drafted[1] ELSE <<>>
        applies == AdmitApplicability(doc, segments, span, candidate.conditions)
    IN  [ id            |-> RequirementId(candidate.cited, constraint, status),
          span          |-> span,
          severity      |-> ModalSeverity(span.words)[1],
          basis         |-> ModalSeverity(span.words)[2],
          role          |-> role,
          stream        |-> candidate.stream,
          key           |-> IF known THEN key ELSE None,
          constraint    |-> constraint,
          status        |-> status,
          conditions    |-> applies[1],
          applicability |-> IF status = "EXECUTABLE" THEN applies[2] ELSE "UNRESOLVED",
          disposition   |-> Disposition(known, key, candidate.disposition) ]

(* Two demands in conflict: equalities of one key, scope and conditions with  *)
(* different values. Other demands that exclude each other are not looked for. *)
Contradicts(left, right) ==
    /\ left.status = "EXECUTABLE" /\ right.status = "EXECUTABLE"
    /\ left.constraint[1].operator = "EQUALS"
    /\ right.constraint[1].operator = "EQUALS"
    /\ left.constraint[1].key = right.constraint[1].key
    /\ left.role = right.role /\ left.stream = right.stream
    /\ left.conditions = right.conditions
    /\ ~SameValue(left.constraint[1].values[1], right.constraint[1].values[1])

(* Fault: of two in conflict, only the later one is downgraded. *)
FaultMarkContradictions(requirements) ==
    [ i \in DOMAIN requirements |->
        IF \E j \in 1 .. i - 1 : Contradicts(requirements[j], requirements[i])
        THEN [requirements[i] EXCEPT !.status = "CONTRADICTORY", !.constraint = <<>>]
        ELSE requirements[i] ]

(* Every requirement that bears the identity of one in conflict is downgraded.*)
MarkContradictions(requirements) ==
    LET conflicted == { requirements[i].id : i \in
            {i \in DOMAIN requirements : \E j \in DOMAIN requirements :
                Contradicts(requirements[i], requirements[j])} }
    IN  [ i \in DOMAIN requirements |->
            IF requirements[i].id \in conflicted
            THEN [requirements[i] EXCEPT !.status = "CONTRADICTORY", !.constraint = <<>>]
            ELSE requirements[i] ]
=============================================================================
