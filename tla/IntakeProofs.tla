---------------------------- MODULE IntakeProofs ----------------------------
(* Theorems about a run from prose to verdict, for every document, package,   *)
(* answer of the model and bound. First what admission decided, which stands  *)
(* to the end; then the invariant of the rest of the run (RunStands): the     *)
(* plan takes each required check once, the record is what an inspection of   *)
(* the package as it is would find, and the findings, the question, the       *)
(* verdict and the views follow from that record. Ordering is defined by      *)
(* counting what comes before, so the lemmas about it need no induction.      *)
EXTENDS Views, TLAPS, FiniteSetTheorems

(* What the candidates of a batch become, each by itself. *)
Admitted(candidates) ==
    [i \in DOMAIN candidates |-> Admit(candidates[i], Document, Segments, Titles)]

(* The inductive invariant: the requirements of a run stay what admission     *)
(* made of its batch, and a run that is ready has nothing unresolved.         *)
AdmissionStands ==
    /\ \/ batch = <<>> /\ requirements = <<>>
       \/ requirements = MarkContradictions(Admitted(batch))
    /\ stage = "DELIVERY_READY" => Unresolved = {}

-----------------------------------------------------------------------------
(* A record that is marked loses its constraint with its status. *)
LEMMA MarkedInConflict ==
    ASSUME NEW b, NEW i \in DOMAIN b, NEW j \in DOMAIN b,
           Contradicts(Admitted(b)[i], Admitted(b)[j])
    PROVE  /\ MarkContradictions(Admitted(b))[i].status = "CONTRADICTORY"
           /\ MarkContradictions(Admitted(b))[i].constraint = <<>>
<1> DEFINE rs == Admitted(b)
           conflicted == { rs[k].id : k \in
                {k \in DOMAIN rs : \E l \in DOMAIN rs : Contradicts(rs[k], rs[l])} }
<1>1. DOMAIN rs = DOMAIN b
  BY DEF Admitted
<1>2. rs[i].id \in conflicted
  BY <1>1
<1>3. MarkContradictions(rs)[i] = [rs[i] EXCEPT !.status = "CONTRADICTORY", !.constraint = <<>>]
  <2> HIDE DEF rs
  <2> QED BY <1>1, <1>2 DEF MarkContradictions
<1>4. {"status", "constraint"} \subseteq DOMAIN rs[i]
  BY DEF Admitted, Admit
<1>5. /\ MarkContradictions(rs)[i].status = "CONTRADICTORY"
      /\ MarkContradictions(rs)[i].constraint = <<>>
  <2> HIDE DEF rs
  <2> QED BY <1>3, <1>4
<1> QED BY <1>5

LEMMA AdmissionStandsAtFirst == RunInit => AdmissionStands
  BY DEF RunInit, Init, AdmissionStands

(* A step that keeps the batch and its requirements can disturb the invariant *)
(* only where it gives the verdict.                                           *)
LEMMA UnresolvedKept ==
    ASSUME UNCHANGED <<batch, requirements>> PROVE Unresolved' = Unresolved
  BY DEF Unresolved, Blocking

LEMMA JudgedReady ==
    ASSUME AdmissionStands, Judged, UNCHANGED <<batch, requirements>>
    PROVE  AdmissionStands'
<1>1. stage' = "DELIVERY_READY" => Unresolved = {}
  BY DEF Judged
<1> QED BY <1>1, UnresolvedKept DEF AdmissionStands

LEMMA ReadyStays ==
    ASSUME AdmissionStands, UNCHANGED <<batch, requirements>>,
           stage' = "DELIVERY_READY" => stage = "DELIVERY_READY"
    PROVE  AdmissionStands'
  BY UnresolvedKept DEF AdmissionStands

LEMMA AdmissionStandsNext == AdmissionStands /\ [RunNext]_runVars => AdmissionStands'
<1> SUFFICES ASSUME AdmissionStands, [RunNext]_runVars PROVE AdmissionStands'
  OBVIOUS
<1>1. CASE InterpretationRefused
  <2>1. UNCHANGED <<batch, requirements>> /\ stage' = stage
    BY <1>1 DEF InterpretationRefused
  <2> QED BY <2>1, ReadyStays
<1>2. CASE InterpretationAdmitted
  <2>1. requirements' = MarkContradictions(Admitted(batch'))
    BY <1>2 DEF InterpretationAdmitted, Admitted
  <2>2. stage' # "DELIVERY_READY"
    BY <1>2 DEF InterpretationAdmitted
  <2> QED BY <2>1, <2>2 DEF AdmissionStands, Admitted
<1>3. CASE PlanProposed \/ PlanRefused \/ PlanFallback
  <2>1. UNCHANGED <<batch, requirements>> /\ stage' \in {stage, "QC_PLANNED"}
    BY <1>3 DEF PlanProposed, PlanRefused, PlanFallback, PlanAdopted
  <2> QED BY <2>1, ReadyStays
<1>4. CASE Inspect \/ Reinspect
  <2>1. UNCHANGED <<batch, requirements>> /\ stage' \in {"INSPECTING", "FINDINGS_READY"}
    BY <1>4 DEF Inspect, Reinspect, Inspection
  <2> QED BY <2>1, ReadyStays
<1>5. CASE Conclude \/ BlockExhausted
  <2>1. UNCHANGED <<batch, requirements>> /\ Judged
    BY <1>5 DEF Conclude, BlockExhausted, GiveUp
  <2> QED BY <2>1, JudgedReady
<1>6. CASE Diagnose
  <2>1. CASE \E options : ApplyTierOne(options)
    <3>1. UNCHANGED <<batch, requirements>> /\ stage' \in {"REMEDIATING", "INSPECTING"}
      BY <2>1 DEF ApplyTierOne
    <3> QED BY <3>1, ReadyStays
  <2>2. CASE \E option : Escalate(option)
    <3>1. UNCHANGED <<batch, requirements>> /\ stage' = "AWAITING_HUMAN_DECISION"
      BY <2>2 DEF Escalate
    <3> QED BY <3>1, ReadyStays
  <2>3. CASE GiveUp
    BY <2>3, JudgedReady DEF GiveUp
  <2> QED BY <1>6, <2>1, <2>2, <2>3 DEF Diagnose
<1>7. CASE Deny \/ Approve
  <2>1. UNCHANGED <<batch, requirements>> /\ stage' \in {"BLOCKED", "INSPECTING"}
    BY <1>7 DEF Deny, Approve
  <2> QED BY <2>1, ReadyStays
<1>8. CASE Finished \/ UNCHANGED runVars
  <2>1. UNCHANGED <<batch, requirements, stage>>
    BY <1>8 DEF Finished, runVars, vars
  <2> QED BY <2>1, ReadyStays
<1> QED BY <1>1, <1>2, <1>3, <1>4, <1>5, <1>6, <1>7, <1>8 DEF RunNext

(* Of two EQUALS demands for different values of one thing neither is         *)
(* executable, in every state of every run, and a ready run has none that     *)
(* binds (mark_contradictions, compute).                                      *)
THEOREM ConflictsStayOpen == RunSpec => []NoOpenConflict
<1>1. AdmissionStands => NoOpenConflict
  <2> SUFFICES ASSUME AdmissionStands, NEW i \in DOMAIN batch, NEW j \in DOMAIN batch,
                      Contradicts(Admitted(batch)[i], Admitted(batch)[j]), NEW k \in {i, j}
               PROVE  /\ requirements[k].status = "CONTRADICTORY"
                      /\ requirements[k].constraint = <<>>
                      /\ stage = "DELIVERY_READY" => requirements[k].severity # "BLOCKING"
    BY DEF NoOpenConflict, Admitted
  <2>1. requirements = MarkContradictions(Admitted(batch))
    BY DEF AdmissionStands
  <2>2. PICK l \in {i, j} : Contradicts(Admitted(batch)[k], Admitted(batch)[l])
    <3>1. \A q, r : Contradicts(q, r) => Contradicts(r, q)
      BY DEF Contradicts, SameValue
    <3> QED BY <3>1
  <2>3. requirements[k].status = "CONTRADICTORY" /\ requirements[k].constraint = <<>>
    BY <2>1, <2>2, MarkedInConflict
  <2>4. k \in DOMAIN requirements
    BY <2>1 DEF MarkContradictions, Admitted
  <2>5. stage = "DELIVERY_READY" => requirements[k].severity # "BLOCKING"
    BY <2>3, <2>4 DEF AdmissionStands, Unresolved, Blocking
  <2> QED BY <2>3, <2>5
<1> QED BY <1>1, AdmissionStandsAtFirst, AdmissionStandsNext, PTL DEF RunSpec

-----------------------------------------------------------------------------
(* A constraint is kept exactly by what is executable, from the draft on. *)
LEMMA NormalizedKeeps ==
    ASSUME NEW drafted, NEW key
    PROVE  /\ NormalizeConstraint(drafted, key)[2] = "EXECUTABLE"
                => NormalizeConstraint(drafted, key)[1] # <<>>
  BY DEF NormalizeConstraint

LEMMA DraftKeeps ==
    ASSUME NEW candidate, NEW key, NEW role, NEW words,
           NormalizedDraft(candidate, key, role, words)[2] = "EXECUTABLE"
    PROVE  NormalizedDraft(candidate, key, role, words)[1] # <<>>
<1> DEFINE normal == NormalizeConstraint(candidate.draft, key)
           result == NormalizedDraft(candidate, key, role, words)
<1>1. normal[2] = "EXECUTABLE" => normal[1] # <<>>
  BY NormalizedKeeps
<1>2. normal[1] # <<>> => SourceOwnedValue(normal[1], words) # <<>>
  <2> HIDE DEF normal
  <2> QED BY DEF SourceOwnedValue
<1>3. result = <<SourceOwnedValue(normal[1], words), normal[2]>>
  <2>1. result \in { <<<<>>, "AMBIGUOUS">>, <<<<>>, "UNSUPPORTED">>,
                      <<SourceOwnedValue(normal[1], words), normal[2]>> }
    <3> HIDE DEF normal
    <3> QED BY DEF NormalizedDraft, normal
  <2> QED BY <2>1
<1> QED BY <1>1, <1>2, <1>3

(* The catalogue's default is a disposition, and what admission makes of a    *)
(* proposal is never below it.                                                *)
LEMMA DispositionFloor ==
    ASSUME NEW key, NEW proposed
    PROVE  /\ Strictness[Disposition(TRUE, key, proposed)]
                 >= Strictness[RemediationDefault(key)]
           /\ Disposition(FALSE, key, proposed) = "FORBIDDEN"
<1>1. RemediationDefault(key) \in
          {"AUTO_REMEDIATE", "HUMAN_APPROVAL_REQUIRED", "REPORT_ONLY"}
  BY DEF RemediationDefault
<1>2. DOMAIN Strictness =
          {"AUTO_REMEDIATE", "REPORT_ONLY", "HUMAN_APPROVAL_REQUIRED", "FORBIDDEN"}
  BY DEF Strictness
<1>3. \A d \in DOMAIN Strictness : Strictness[d] \in 0 .. 3
  BY DEF Strictness
<1>4. \A d \in DOMAIN Strictness : Strictness[d] >= Strictness["FORBIDDEN"] => d = "FORBIDDEN"
  BY DEF Strictness
<1>5. Strictness[Disposition(TRUE, key, proposed)] >= Strictness[RemediationDefault(key)]
  BY <1>1, <1>2, <1>3 DEF Disposition
<1>6. Disposition(FALSE, key, proposed) = "FORBIDDEN"
  BY <1>4 DEF Disposition
<1> QED BY <1>5, <1>6

(* What admission makes of any one candidate is no looser than the candidate  *)
(* and no looser than the catalogue.                                          *)
Tight(r, candidate) ==
    /\ r.status = "EXECUTABLE" => candidate.status = "EXECUTABLE"
    /\ r.constraint # <<>> <=> r.status = "EXECUTABLE"
    /\ r.key # None => Strictness[r.disposition] >= Strictness[RemediationDefault(r.key)]
    /\ r.key = None => r.disposition = "FORBIDDEN"

LEMMA NoneIsNoKey == None \notin MeasurementCatalog
  BY DEF None, MeasurementCatalog, KeysOfType

LEMMA AdmitTightens ==
    ASSUME NEW c PROVE Tight(Admit(c, Document, Segments, Titles), c)
<1> DEFINE r       == Admit(c, Document, Segments, Titles)
           role    == IF c.role \in AssetRoles THEN c.role ELSE "OTHER"
           key     == IF c.key = <<>> THEN None ELSE MeasurementKey(c.key, role)
           known   == key \in MeasurementCatalog
           words   == SourceSpan(Document, Segments, c.cited).words
           drafted == NormalizedDraft(c, key, role, words)
           status  == CASE c.role \notin AssetRoles -> "UNSUPPORTED"
                        [] c.referenced \notin Titles \cup {None}
                                                     -> "EXTERNAL_DEPENDENCY"
                        [] drafted[2] = "EXECUTABLE" -> c.status
                        [] OTHER                     -> drafted[2]
<1>1. /\ r.status = status
      /\ r.constraint = IF status = "EXECUTABLE" THEN drafted[1] ELSE <<>>
      /\ r.key = IF known THEN key ELSE None
      /\ r.disposition = Disposition(known, key, c.disposition)
  BY DEF Admit
<1>2. drafted[2] = "EXECUTABLE" => drafted[1] # <<>>
  BY DraftKeeps
<1>3. status = "EXECUTABLE" => drafted[2] = "EXECUTABLE" /\ c.status = "EXECUTABLE"
  <2> HIDE DEF drafted
  <2> QED OBVIOUS
<1>4. known => Strictness[Disposition(known, key, c.disposition)]
                  >= Strictness[RemediationDefault(key)]
  <2>1. CASE known
    <3>1. known = TRUE
      BY <2>1
    <3> HIDE DEF known, key
    <3> QED BY <3>1, DispositionFloor
  <2> QED BY <2>1
<1>5. ~known => Disposition(known, key, c.disposition) = "FORBIDDEN"
  <2>1. CASE ~known
    <3>1. known = FALSE
      BY <2>1
    <3> HIDE DEF known, key
    <3> QED BY <3>1, DispositionFloor
  <2> QED BY <2>1
<1>6. known => key # None
  BY NoneIsNoKey
<1> HIDE DEF r, role, key, known, words, drafted, status
<1>7. Tight(r, c)
  BY <1>1, <1>2, <1>3, <1>4, <1>5, <1>6 DEF Tight
<1> QED BY <1>7 DEF r

(* The model can only tighten what the catalogue and the source allow, in     *)
(* every state of every run (admit, _disposition).                            *)
THEOREM TightenedForGood == RunSpec => []ModelOnlyTightens
<1>1. AdmissionStands => ModelOnlyTightens
  <2> SUFFICES ASSUME AdmissionStands, NEW i \in DOMAIN requirements
               PROVE  Tight(requirements[i], batch[i])
    BY DEF ModelOnlyTightens, Tight
  <2>1. /\ DOMAIN requirements = DOMAIN batch
        /\ requirements = MarkContradictions(Admitted(batch))
    <3>1. requirements = MarkContradictions(Admitted(batch))
      BY DEF AdmissionStands
    <3>2. DOMAIN MarkContradictions(Admitted(batch)) = DOMAIN Admitted(batch)
      BY DEF MarkContradictions
    <3> QED BY <3>1, <3>2 DEF Admitted
  <2> DEFINE r == Admit(batch[i], Document, Segments, Titles)
  <2>2. Tight(r, batch[i])
    BY AdmitTightens
  <2>3. {"status", "constraint", "key", "disposition"} \subseteq DOMAIN r
    BY DEF Admit
  <2>4. requirements[i] \in
            {r, [r EXCEPT !.status = "CONTRADICTORY", !.constraint = <<>>]}
    <3>1. Admitted(batch)[i] = r /\ DOMAIN Admitted(batch) = DOMAIN batch
      BY <2>1 DEF Admitted
    <3> HIDE DEF r
    <3> QED BY <2>1, <3>1 DEF MarkContradictions
  <2> HIDE DEF r
  <2>5. CASE requirements[i] = [r EXCEPT !.status = "CONTRADICTORY", !.constraint = <<>>]
    <3>1. /\ requirements[i].status = "CONTRADICTORY" /\ requirements[i].constraint = <<>>
          /\ requirements[i].key = r.key /\ requirements[i].disposition = r.disposition
      BY <2>3, <2>5
    <3> QED BY <2>2, <3>1 DEF Tight
  <2> QED BY <2>2, <2>4, <2>5
<1> QED BY <1>1, AdmissionStandsAtFirst, AdmissionStandsNext, PTL DEF RunSpec

-----------------------------------------------------------------------------
(* What planning needs of an executable requirement, its draft has. *)
LEMMA DraftIsMeasurable ==
    ASSUME NEW c, NEW key, NEW role, NEW words,
           NormalizedDraft(c, key, role, words)[2] = "EXECUTABLE"
    PROVE  key \in MeasurementCatalog
           /\ (ProducedBy(key) = "measure_loudness" => c.stream # None)
<1> DEFINE normal == NormalizeConstraint(c.draft, key)
           result == NormalizedDraft(c, key, role, words)
<1>1. CASE c.key = <<>>
  <2>1. result = <<<<>>, "AMBIGUOUS">>
    BY <1>1 DEF NormalizedDraft
  <2> QED BY <2>1
<1>2. CASE c.key # <<>> /\ key \notin MeasurementCatalog
  <2>1. result = <<<<>>, "UNSUPPORTED">>
    BY <1>2 DEF NormalizedDraft
  <2> QED BY <2>1
<1>3. CASE c.key # <<>> /\ key \in MeasurementCatalog
  <2>1. result = IF /\ normal[2] = "EXECUTABLE"
                    /\ ProducedBy(key) = "measure_loudness"
                    /\ c.stream = None
                 THEN <<<<>>, "AMBIGUOUS">>
                 ELSE <<SourceOwnedValue(normal[1], words), normal[2]>>
    BY <1>3 DEF NormalizedDraft
  <2> HIDE DEF normal
  <2>2. result[2] = IF /\ normal[2] = "EXECUTABLE"
                       /\ ProducedBy(key) = "measure_loudness"
                       /\ c.stream = None
                    THEN "AMBIGUOUS" ELSE normal[2]
    BY <2>1
  <2> QED BY <1>3, <2>2
<1> QED BY <1>1, <1>2, <1>3

LEMMA ReadsStream ==
    ASSUME NEW tool, "stream" \in InputFields(tool) PROVE tool = "measure_loudness"
  BY DEF InputFields

LEMMA AdmitIsBindable ==
    ASSUME NEW c, NEW r, r = Admit(c, Document, Segments, Titles), r.status = "EXECUTABLE"
    PROVE  /\ r.key # None
           /\ "stream" \in InputFields(ProducedBy(r.key)) => r.stream # None
<1> DEFINE role    == IF c.role \in AssetRoles THEN c.role ELSE "OTHER"
           key     == IF c.key = <<>> THEN None ELSE MeasurementKey(c.key, role)
           words   == SourceSpan(Document, Segments, c.cited).words
           drafted == NormalizedDraft(c, key, role, words)
           status  == CASE c.role \notin AssetRoles -> "UNSUPPORTED"
                        [] c.referenced \notin Titles \cup {None}
                                                     -> "EXTERNAL_DEPENDENCY"
                        [] drafted[2] = "EXECUTABLE" -> c.status
                        [] OTHER                     -> drafted[2]
<1>1. /\ r.status = status /\ r.stream = c.stream
      /\ r.key = IF key \in MeasurementCatalog THEN key ELSE None
  BY DEF Admit
<1>2. drafted[2] = "EXECUTABLE"
  <2> HIDE DEF drafted
  <2> QED BY <1>1
<1>3. key \in MeasurementCatalog /\ (ProducedBy(key) = "measure_loudness" => c.stream # None)
  BY <1>2, DraftIsMeasurable
<1> HIDE DEF key
<1> QED BY <1>1, <1>3, NoneIsNoKey, ReadsStream

LEMMA DerivationSucceeds ==
    ASSUME NEW b, NEW p
    PROVE  ~DerivationFails(MarkContradictions(Admitted(b)), p)
<1> DEFINE rs == MarkContradictions(Admitted(b))
<1> SUFFICES ASSUME NEW i \in DOMAIN rs, rs[i].status = "EXECUTABLE"
             PROVE  /\ rs[i].key # None
                    /\ "stream" \in InputFields(ProducedBy(rs[i].key)) => rs[i].stream # None
  <2> HIDE DEF rs
  <2> QED BY DEF DerivationFails, Demanded, rs
<1> DEFINE r == Admit(b[i], Document, Segments, Titles)
<1>1. DOMAIN rs = DOMAIN Admitted(b) /\ DOMAIN Admitted(b) = DOMAIN b
  BY DEF MarkContradictions, Admitted
<1>2. rs[i] \in {r, [r EXCEPT !.status = "CONTRADICTORY", !.constraint = <<>>]}
  <2>1. Admitted(b)[i] = r
    BY <1>1 DEF Admitted
  <2> HIDE DEF r
  <2> QED BY <1>1, <2>1 DEF MarkContradictions
<1>3. "status" \in DOMAIN r
  BY DEF Admit
<1>4. rs[i] = r
  <2> HIDE DEF r
  <2> QED BY <1>2, <1>3
<1> HIDE DEF r
<1> QED BY <1>4, AdmitIsBindable DEF r

(* What admission lets through, planning can bind: whatever the model answers *)
(* and whatever the package holds, a run stops while interpreting only when   *)
(* the attempts are used up (admit, derive_required_checks).                  *)
THEOREM AdmissionSuffices == RunSpec => []AdmittedIsPlannable
<1>1. RunInit => AdmittedIsPlannable
  BY DEF RunInit, Init, AdmittedIsPlannable
<1>2. AdmittedIsPlannable /\ [RunNext]_runVars => AdmittedIsPlannable'
  <2> SUFFICES ASSUME AdmittedIsPlannable, [RunNext]_runVars PROVE AdmittedIsPlannable'
    OBVIOUS
  <2>1. CASE InterpretationRefused
    BY <2>1 DEF InterpretationRefused, AdmittedIsPlannable
  <2>2. CASE InterpretationAdmitted
    <3>1. PICK b \in Batches :
              raised' = DerivationFails(MarkContradictions(Admitted(b)), package)
      BY <2>2 DEF InterpretationAdmitted, Admitted
    <3> QED BY <3>1, DerivationSucceeds DEF AdmittedIsPlannable
  <2>3. CASE PlanProposed \/ PlanRefused \/ PlanFallback
    BY <2>3 DEF PlanProposed, PlanRefused, PlanFallback, PlanAdopted, AdmittedIsPlannable
  <2>4. CASE Inspect \/ Reinspect
    BY <2>4 DEF Inspect, Reinspect, Inspection, AdmittedIsPlannable
  <2>5. CASE Conclude \/ BlockExhausted
    BY <2>5 DEF Conclude, BlockExhausted, GiveUp, Judged, AdmittedIsPlannable
  <2>6. CASE Diagnose
    <3>1. ASSUME NEW options, ApplyTierOne(options) PROVE stage' # "INTERPRETING"
      BY <3>1 DEF ApplyTierOne
    <3>2. ASSUME NEW option, Escalate(option) PROVE stage' # "INTERPRETING"
      BY <3>2 DEF Escalate
    <3>3. GiveUp => stage' # "INTERPRETING"
      BY DEF GiveUp, Judged
    <3> QED BY <2>6, <3>1, <3>2, <3>3 DEF Diagnose, AdmittedIsPlannable
  <2>7. CASE Deny \/ Approve
    BY <2>7 DEF Deny, Approve, AdmittedIsPlannable
  <2>8. CASE Finished \/ UNCHANGED runVars
    BY <2>8 DEF Finished, runVars, vars, AdmittedIsPlannable
  <2> QED BY <2>1, <2>2, <2>3, <2>4, <2>5, <2>6, <2>7, <2>8 DEF RunNext
<1> QED BY <1>1, <1>2, PTL DEF RunSpec
-----------------------------------------------------------------------------
(* Sorting by counting (the planner's and the orchestrator's sorted()).        *)
(* A strict total order on a set.                                             *)
Linear(S, before) ==
    /\ before \subseteq S \X S
    /\ \A x \in S : <<x, x>> \notin before
    /\ \A x, y \in S : x = y \/ <<x, y>> \in before \/ <<y, x>> \in before
    /\ \A x, y, z \in S : <<x, y>> \in before /\ <<y, z>> \in before => <<x, z>> \in before

(* The place of an element: one more than there are before it. *)
Place(S, before) == [x \in S |-> Cardinality({y \in S : <<y, x>> \in before}) + 1]

(* In a finite set in line every place is taken, and by one element. *)
LEMMA PlacesTaken ==
    ASSUME NEW S, NEW before, IsFiniteSet(S), Linear(S, before)
    PROVE  /\ Cardinality(S) \in Nat
           /\ Place(S, before) \in Bijection(S, 1 .. Cardinality(S))
           /\ \A x \in S : Cardinality({y \in S : <<y, x>> \in before}) \in Nat
           /\ \A x \in S : IsFiniteSet({y \in S : <<y, x>> \in before})
<1> DEFINE below(x) == {y \in S : <<y, x>> \in before}
           N == Cardinality(S)
           place == Place(S, before)
<1>1. N \in Nat
  BY FS_CardinalityType
<1>2. ASSUME NEW x \in S
      PROVE IsFiniteSet(below(x)) /\ Cardinality(below(x)) \in Nat /\ Cardinality(below(x)) < N
  <2>1. below(x) \in SUBSET S /\ x \notin below(x)
    BY DEF Linear
  <2>2. IsFiniteSet(below(x)) /\ Cardinality(below(x)) <= N /\ Cardinality(below(x)) # N
    BY <2>1, FS_Subset
  <2>3. Cardinality(below(x)) \in Nat
    BY <2>2, FS_CardinalityType
  <2> QED BY <2>2, <2>3, <1>1
<1>3. ASSUME NEW x \in S, NEW y \in S, <<x, y>> \in before
      PROVE Cardinality(below(x)) < Cardinality(below(y))
  <2>1. below(x) \in SUBSET below(y) /\ x \in below(y) /\ x \notin below(x)
    BY <1>3 DEF Linear
  <2>2. /\ Cardinality(below(x)) <= Cardinality(below(y))
        /\ Cardinality(below(x)) # Cardinality(below(y))
    <3> HIDE DEF below
    <3>1. IsFiniteSet(below(y))
      BY <1>2
    <3> QED BY <2>1, <3>1, FS_Subset
  <2> QED BY <2>2, <1>2
<1>4. place = [x \in S |-> Cardinality(below(x)) + 1]
  BY DEF Place
<1>5. place \in Injection(S, 1 .. N)
  <2>1. place \in [S -> 1 .. N]
    <3> HIDE DEF below, N, place
    <3> QED BY <1>1, <1>2, <1>4
  <2>2. ASSUME NEW x \in S, NEW y \in S, place[x] = place[y] PROVE x = y
    <3>1. Cardinality(below(x)) = Cardinality(below(y))
      <4> HIDE DEF below, place
      <4> QED BY <2>2, <1>2, <1>4
    <3>2. ~(<<x, y>> \in before) /\ ~(<<y, x>> \in before)
      <4> HIDE DEF below
      <4> QED BY <3>1, <1>2, <1>3
    <3> QED BY <3>2 DEF Linear
  <2> QED BY <2>1, <2>2 DEF Injection, IsInjective
<1>6. IsFiniteSet(1 .. N) /\ Cardinality(1 .. N) = N
  BY <1>1, FS_Interval
<1>7. place \in Surjection(S, 1 .. N)
  <2> HIDE DEF place
  <2> QED BY <1>5, <1>6, FS_Injection
<1> HIDE DEF place, below
<1> QED BY <1>1, <1>2, <1>5, <1>7 DEF Bijection, place, below

(* Sorting keeps every element, once. *)
LEMMA InOrderCounts ==
    ASSUME NEW S, NEW before, IsFiniteSet(S), Linear(S, before)
    PROVE  /\ InOrder(S, before) \in Bijection(1 .. Cardinality(S), S)
           /\ \A n \in 1 .. Cardinality(S) : Place(S, before)[InOrder(S, before)[n]] = n
<1> DEFINE below(x) == {y \in S : <<y, x>> \in before}
           N     == Cardinality(S)
           place == Place(S, before)
           nth   == InOrder(S, before)
           value(n) == CHOOSE x \in S : Cardinality(below(x)) = n - 1
<1>1. N \in Nat /\ place \in Bijection(S, 1 .. N)
      /\ \A x \in S : Cardinality(below(x)) \in Nat
  BY PlacesTaken
<1>2. place = [x \in S |-> Cardinality(below(x)) + 1]
  BY DEF Place
<1>3. nth = [n \in 1 .. N |-> value(n)]
  BY DEF InOrder
<1> HIDE DEF place, nth
<1>4. ASSUME NEW n \in 1 .. N PROVE value(n) \in S /\ place[value(n)] = n
  <2>1. PICK x \in S : place[x] = n
    BY <1>1 DEF Bijection, Surjection
  <2> HIDE DEF below
  <2>2. Cardinality(below(x)) = n - 1
    BY <2>1, <1>1, <1>2
  <2>3. value(n) \in S /\ Cardinality(below(value(n))) = n - 1
    BY <2>2
  <2> HIDE DEF value
  <2> QED BY <2>3, <1>1, <1>2
<1> HIDE DEF value, below, N
<1>5. nth \in [1 .. N -> S] /\ \A n \in 1 .. N : place[nth[n]] = n
  BY <1>3, <1>4
<1>6. ASSUME NEW x \in S PROVE place[x] \in 1 .. N /\ nth[place[x]] = x
  <2>1. place[x] \in 1 .. N
    BY <1>1 DEF Bijection, Injection
  <2>2. place[nth[place[x]]] = place[x] /\ nth[place[x]] \in S
    BY <2>1, <1>5
  <2> QED BY <2>1, <2>2, <1>1 DEF Bijection, Injection, IsInjective
<1>7. nth \in Injection(1 .. N, S)
  <2>1. \A m, n \in 1 .. N : nth[m] = nth[n] => m = n
    BY <1>5
  <2> QED BY <1>5, <2>1, Zenon DEF Injection, IsInjective
<1>8. nth \in Surjection(1 .. N, S)
  BY <1>5, <1>6 DEF Surjection
<1> QED BY <1>5, <1>7, <1>8 DEF Bijection, nth, place, N

(* A finite set in line that is not empty has a first and a last. *)
LEMMA LinearExtremes ==
    ASSUME NEW S, NEW before, IsFiniteSet(S), Linear(S, before), S # {}
    PROVE  /\ \E x \in S : \A y \in S : y = x \/ <<y, x>> \in before
           /\ \E x \in S : \A y \in S : y = x \/ <<x, y>> \in before
<1> DEFINE below(x) == {y \in S : <<y, x>> \in before}
           N   == Cardinality(S)
           nth == InOrder(S, before)
<1>1. N \in Nat /\ N > 0
  BY FS_CardinalityType, FS_EmptySet
<1>2. nth \in Bijection(1 .. N, S)
  BY InOrderCounts
<1>3. ASSUME NEW n \in 1 .. N
      PROVE  nth[n] \in S /\ Cardinality(below(nth[n])) = n - 1
  <2>1. nth[n] \in S /\ Place(S, before)[nth[n]] = n
    <3>1. nth \in Bijection(1 .. N, S) /\ Place(S, before)[nth[n]] = n
      BY InOrderCounts
    <3> HIDE DEF nth
    <3> QED BY <3>1 DEF Bijection, Injection
  <2>2. Cardinality(below(nth[n])) \in Nat
    <3> HIDE DEF nth
    <3> QED BY <2>1, PlacesTaken
  <2>3. Place(S, before)[nth[n]] = Cardinality(below(nth[n])) + 1
    <3> HIDE DEF nth
    <3> QED BY <2>1 DEF Place
  <2> HIDE DEF nth, below
  <2> QED BY <2>1, <2>2, <2>3
<1>4. \E x \in S : \A y \in S : y = x \/ <<y, x>> \in before
  <2>1. nth[N] \in S /\ Cardinality(below(nth[N])) = N - 1
    BY <1>1, <1>3
  <2> DEFINE x == nth[N]
  <2>2. Cardinality(S \ {x}) = N - 1 /\ IsFiniteSet(S \ {x})
    <3> HIDE DEF x
    <3> QED BY <2>1, FS_RemoveElement DEF x
  <2>3. below(x) \in SUBSET (S \ {x})
    <3> HIDE DEF x
    <3> QED BY DEF Linear
  <2>4. below(x) = S \ {x}
    <3> HIDE DEF x, below
    <3> QED BY <2>1, <2>2, <2>3, FS_Subset DEF x
  <2> HIDE DEF nth
  <2> QED BY <2>1, <2>4
<1>5. \E x \in S : \A y \in S : y = x \/ <<x, y>> \in before
  <2>1. nth[1] \in S /\ Cardinality(below(nth[1])) = 0
    BY <1>1, <1>3
  <2> DEFINE x == nth[1]
  <2>2. IsFiniteSet(below(x))
    <3>1. below(x) \in SUBSET S
      OBVIOUS
    <3> HIDE DEF below, x
    <3> QED BY <3>1, FS_Subset
  <2>3. below(x) = {}
    <3> HIDE DEF below, x
    <3> QED BY <2>1, <2>2, FS_EmptySet DEF x
  <2> HIDE DEF nth
  <2> QED BY <2>1, <2>3 DEF Linear
<1> QED BY <1>4, <1>5

(* Integers are in line by their size.                                        *)
LEMMA AscendingIsLinear ==
    ASSUME NEW I, I \subseteq Int PROVE Linear(I, {p \in I \X I : p[1] < p[2]})
  BY DEF Linear

(* So sorting a finite set of integers takes each once.                       *)
LEMMA AscendingCounts ==
    ASSUME NEW I, I \subseteq Int, IsFiniteSet(I)
    PROVE  Ascending(I) \in Bijection(1 .. Cardinality(I), I)
  BY AscendingIsLinear, InOrderCounts DEF Ascending

(* A finite set of integers that is not empty has a greatest and a least.     *)
LEMMA Extremes ==
    ASSUME NEW I, I \subseteq Int, IsFiniteSet(I), I # {}
    PROVE  /\ Max(I) \in I /\ \A i \in I : i <= Max(I)
           /\ Min(I) \in I /\ \A i \in I : Min(I) <= i
<1> DEFINE before == {p \in I \X I : p[1] < p[2]}
<1>1. Linear(I, before)
  BY AscendingIsLinear
<1>2. /\ \E x \in I : \A y \in I : y = x \/ <<y, x>> \in before
      /\ \E x \in I : \A y \in I : y = x \/ <<x, y>> \in before
  <2> HIDE DEF before
  <2> QED BY <1>1, LinearExtremes
<1>3. /\ \E x \in I : \A y \in I : x >= y
      /\ \E x \in I : \A y \in I : x <= y
  <2>1. PICK x \in I : \A y \in I : y = x \/ <<y, x>> \in before
    BY <1>2
  <2>2. PICK z \in I : \A y \in I : y = z \/ <<z, y>> \in before
    BY <1>2
  <2>3. ASSUME NEW y \in I PROVE x >= y
    <3>1. y = x \/ y < x
      BY <2>1
    <3> QED BY <3>1
  <2>4. ASSUME NEW y \in I PROVE z <= y
    <3>1. y = z \/ z < y
      BY <2>2
    <3> QED BY <3>1
  <2> QED BY <2>3, <2>4
<1>4. Max(I) \in I /\ \A i \in I : Max(I) >= i
  BY <1>3 DEF Max
<1>5. Min(I) \in I /\ \A i \in I : Min(I) <= i
  BY <1>3 DEF Min
<1> QED BY <1>4, <1>5

(* What is kept of a sequence is what stands at the kept places (_inspect's   *)
(* filters).                                                                  *)
LEMMA KeptFrom ==
    ASSUME NEW s, NEW I, I \subseteq Int, IsFiniteSet(I)
    PROVE  /\ DOMAIN Kept(s, I) = 1 .. Cardinality(I) /\ Cardinality(I) \in Nat
           /\ Range(Kept(s, I)) = {s[i] : i \in I}
<1> DEFINE at == Ascending(I)
<1>1. at \in Bijection(1 .. Cardinality(I), I)
  BY AscendingCounts
<1>2. Kept(s, I) = [n \in DOMAIN at |-> s[at[n]]]
  BY DEF Kept
<1> HIDE DEF at
<1>3. /\ DOMAIN at = 1 .. Cardinality(I)
      /\ \A n \in DOMAIN at : at[n] \in I
      /\ \A i \in I : \E n \in DOMAIN at : at[n] = i
  BY <1>1 DEF Bijection, Injection, Surjection
<1>4. Cardinality(I) \in Nat
  BY FS_CardinalityType
<1>5. DOMAIN Kept(s, I) = DOMAIN at /\ \A n \in DOMAIN at : Kept(s, I)[n] = s[at[n]]
  BY <1>2
<1>6. Range(Kept(s, I)) = {s[i] : i \in I}
  <2>1. \A n \in DOMAIN at : Kept(s, I)[n] \in {s[i] : i \in I}
    BY <1>3, <1>5
  <2>2. \A i \in I : \E n \in DOMAIN at : Kept(s, I)[n] = s[i]
    BY <1>3, <1>5
  <2> HIDE DEF at
  <2> QED BY <1>5, <2>1, <2>2 DEF Range
<1> QED BY <1>3, <1>4, <1>5, <1>6

(* A sequence, as far as its places go. *)
Listed(s) == \E n \in Nat : DOMAIN s = 1 .. n

(* What later steps rely on of the requirements of a run. *)
Executable(r) ==
    /\ r.key \in MeasurementCatalog
    /\ r.constraint[1].key = r.key
    /\ r.constraint[1].unit = CanonicalUnit(r.key)
    /\ r.constraint[1].operator \in AllowedConstraintOperators(r.key)

WellAdmitted ==
    /\ Listed(requirements)
    /\ \A i \in DOMAIN requirements :
          /\ requirements[i].applicability \in {"APPLICABLE", "UNRESOLVED"}
          /\ requirements[i].constraint # <<>> <=> requirements[i].status = "EXECUTABLE"
          /\ requirements[i].constraint # <<>> => Executable(requirements[i])
    /\ \A i, j \in DOMAIN requirements :
          requirements[i].id = requirements[j].id =>
             (requirements[i].constraint # <<>> <=> requirements[j].constraint # <<>>)

(* Places of a sequence are integers, and finitely many.                      *)
LEMMA ListedFinite ==
    ASSUME NEW s, Listed(s), NEW I, I \subseteq DOMAIN s
    PROVE  I \subseteq Int /\ IsFiniteSet(I) /\ Cardinality(I) \in Nat
<1>1. PICK n \in Nat : DOMAIN s = 1 .. n
  BY DEF Listed
<1>2. IsFiniteSet(1 .. n)
  BY FS_Interval
<1>3. I \in SUBSET (1 .. n) /\ I \subseteq Int
  BY <1>1
<1>4. IsFiniteSet(I)
  BY <1>2, <1>3, FS_Subset
<1> QED BY <1>3, <1>4, FS_CardinalityType

(* Admission decides applicability or leaves it open (_admit_applicability).  *)
LEMMA Applicabilities ==
    ASSUME NEW doc, NEW segments, NEW span, NEW drafts
    PROVE  AdmitApplicability(doc, segments, span, drafts)[2] \in {"APPLICABLE", "UNRESOLVED"}
  BY DEF AdmitApplicability

(* A draft that is executable has one constraint, in the catalogue's terms. *)
LEMMA NormalizedConstraint ==
    ASSUME NEW drafted, NEW key, NormalizeConstraint(drafted, key)[2] = "EXECUTABLE"
    PROVE  LET c == NormalizeConstraint(drafted, key)[1] IN
           /\ Len(c) = 1 /\ DOMAIN c = {1}
           /\ {"key", "operator", "values", "unit"} = DOMAIN c[1]
           /\ c[1].key = key /\ c[1].unit = CanonicalUnit(key)
           /\ c[1].operator \in AllowedConstraintOperators(key)
<1> DEFINE draft  == drafted[1]
           factor == UnitFactor(draft.unit, CanonicalUnit(key))
           parsed == [i \in DOMAIN draft.values |->
                         ParseValue(draft.values[i], key, factor)]
           values == [i \in DOMAIN parsed |-> parsed[i][1]]
           kept   == << <<CanonicalConstraint(key, draft, values)>>, "EXECUTABLE" >>
           n      == NormalizeConstraint(drafted, key)
           shaped == IF ShapeAllowed(draft.operator, values) THEN kept
                     ELSE <<<<>>, "AMBIGUOUS">>
<1>1. CASE drafted = <<>>
  <2>1. n = <<<<>>, "AMBIGUOUS">>
    BY <1>1 DEF NormalizeConstraint
  <2> QED BY <2>1
<1>2. CASE drafted # <<>> /\ draft.operator \notin AllowedConstraintOperators(key)
  <2>1. n = <<<<>>, "UNSUPPORTED">>
    BY <1>2 DEF NormalizeConstraint
  <2> QED BY <2>1
<1>3. CASE drafted # <<>> /\ draft.operator \in AllowedConstraintOperators(key)
  <2> DEFINE blank == factor = 0 \/ ~CountAllowed(draft.operator, Len(parsed))
             unread == \E i \in DOMAIN parsed : parsed[i] = <<>>
  <2>1. n = CASE blank -> <<<<>>, "AMBIGUOUS">>
              [] unread -> <<<<>>, "AMBIGUOUS">>
              [] OTHER -> shaped
    <3>1. n = CASE draft.operator \notin AllowedConstraintOperators(key)
                        -> <<<<>>, "UNSUPPORTED">>
                [] blank -> <<<<>>, "AMBIGUOUS">>
                [] unread -> <<<<>>, "AMBIGUOUS">>
                [] OTHER -> shaped
      BY <1>3 DEF NormalizeConstraint
    <3> HIDE DEF blank, unread, shaped, n
    <3> QED BY <1>3, <3>1
  <2>2. n \in {<<<<>>, "AMBIGUOUS">>, shaped}
    <3> HIDE DEF blank, unread, shaped, n
    <3> QED BY <2>1
  <2>3. n \in {<<<<>>, "AMBIGUOUS">>, kept}
    <3> HIDE DEF n, kept, values
    <3> QED BY <2>2
  <2>4. n = kept
    <3>1. n[2] = "EXECUTABLE"
      OBVIOUS
    <3> HIDE DEF n, kept
    <3> QED BY <2>3, <3>1
  <2> HIDE DEF n, values
  <2>5. n[1] = <<[key |-> key, operator |-> draft.operator, values |-> values,
                  unit |-> CanonicalUnit(key)]>>
    BY <2>4 DEF CanonicalConstraint
  <2> QED BY <1>3, <2>5 DEF n
<1> QED BY <1>1, <1>2, <1>3

(* The value the source owns leaves the key, unit and operator alone          *)
(* (_source_owned_value_normalization).                                       *)
LEMMA SourceKeepsTerms ==
    ASSUME NEW c, NEW words, DOMAIN c = {1}, Len(c) = 1,
           {"key", "operator", "values", "unit"} = DOMAIN c[1]
    PROVE  /\ SourceOwnedValue(c, words) # <<>>
           /\ SourceOwnedValue(c, words)[1].key = c[1].key
           /\ SourceOwnedValue(c, words)[1].unit = c[1].unit
           /\ SourceOwnedValue(c, words)[1].operator = c[1].operator
<1> DEFINE d == [c[1] EXCEPT !.values = << <<"word", "quicktime mov">> >>]
<1>1. SourceOwnedValue(c, words) \in {c, <<d>>}
  BY DEF SourceOwnedValue
<1>2. d.key = c[1].key /\ d.unit = c[1].unit /\ d.operator = c[1].operator
  OBVIOUS
<1> HIDE DEF d
<1>3. c # <<>>
  OBVIOUS
<1> QED BY <1>1, <1>2, <1>3

(* What admission makes executable is in the catalogue's terms.               *)
LEMMA AdmitInTerms ==
    ASSUME NEW c, NEW r, r = Admit(c, Document, Segments, Titles), r.status = "EXECUTABLE"
    PROVE  Executable(r)
<1> DEFINE role    == IF c.role \in AssetRoles THEN c.role ELSE "OTHER"
           key     == IF c.key = <<>> THEN None ELSE MeasurementKey(c.key, role)
           words   == SourceSpan(Document, Segments, c.cited).words
           drafted == NormalizedDraft(c, key, role, words)
           normal  == NormalizeConstraint(c.draft, key)
           status  == CASE c.role \notin AssetRoles -> "UNSUPPORTED"
                        [] c.referenced \notin Titles \cup {None}
                                                     -> "EXTERNAL_DEPENDENCY"
                        [] drafted[2] = "EXECUTABLE" -> c.status
                        [] OTHER                     -> drafted[2]
<1>1. /\ r.status = status
      /\ r.constraint = IF status = "EXECUTABLE" THEN drafted[1] ELSE <<>>
      /\ r.key = IF key \in MeasurementCatalog THEN key ELSE None
  BY DEF Admit
<1>2. drafted[2] = "EXECUTABLE"
  <2> HIDE DEF drafted
  <2> QED BY <1>1
<1>3. key \in MeasurementCatalog /\ c.key # <<>>
  <2>1. key \in MeasurementCatalog
    BY <1>2, DraftIsMeasurable
  <2> QED BY <2>1, NoneIsNoKey
<1>4. drafted = <<SourceOwnedValue(normal[1], words), normal[2]>>
  <2>1. drafted \in {<<<<>>, "AMBIGUOUS">>, <<SourceOwnedValue(normal[1], words), normal[2]>>}
    <3> HIDE DEF normal, key
    <3> QED BY <1>3 DEF NormalizedDraft, normal
  <2> HIDE DEF drafted
  <2> QED BY <1>2, <2>1
<1>5. normal[2] = "EXECUTABLE"
  BY <1>2, <1>4
<1>6. /\ Len(normal[1]) = 1 /\ DOMAIN normal[1] = {1}
      /\ {"key", "operator", "values", "unit"} = DOMAIN normal[1][1]
      /\ normal[1][1].key = key /\ normal[1][1].unit = CanonicalUnit(key)
      /\ normal[1][1].operator \in AllowedConstraintOperators(key)
  BY <1>5, NormalizedConstraint
<1> HIDE DEF normal, words, key, drafted, status
<1>7. r.constraint = SourceOwnedValue(normal[1], words)
  BY <1>1, <1>4
<1>8. /\ r.constraint[1].key = key /\ r.constraint[1].unit = CanonicalUnit(key)
      /\ r.constraint[1].operator \in AllowedConstraintOperators(key)
  BY <1>6, <1>7, SourceKeepsTerms
<1> QED BY <1>1, <1>3, <1>8 DEF Executable

(* Marking conflicts, record by record (mark_contradictions).                 *)
LEMMA MarkedEach ==
    ASSUME NEW rs, NEW i \in DOMAIN rs
    PROVE  LET conflicted == { rs[k].id : k \in
                  {k \in DOMAIN rs : \E l \in DOMAIN rs : Contradicts(rs[k], rs[l])} }
           IN  MarkContradictions(rs)[i] =
                  IF rs[i].id \in conflicted
                  THEN [rs[i] EXCEPT !.status = "CONTRADICTORY", !.constraint = <<>>]
                  ELSE rs[i]
  BY DEF MarkContradictions

(* Marking a conflict by identity takes the constraint from all that share it.*)
LEMMA AdmittedIsWell ==
    ASSUME AdmissionStands, batch \in Batches \cup {<<>>}, IntakeAssumption
    PROVE  WellAdmitted
<1>1. CASE batch = <<>> /\ requirements = <<>>
  <2>1. DOMAIN requirements = {} /\ Listed(requirements)
    <3>1. DOMAIN requirements = {} /\ 1 .. 0 = {}
      BY <1>1
    <3> QED BY <3>1 DEF Listed
  <2> QED BY <2>1 DEF WellAdmitted
<1>2. CASE requirements = MarkContradictions(Admitted(batch))
  <2> DEFINE rs == Admitted(batch)
             conflicted == { rs[k].id : k \in
                  {k \in DOMAIN rs : \E l \in DOMAIN rs : Contradicts(rs[k], rs[l])} }
             marked(i) == [rs[i] EXCEPT !.status = "CONTRADICTORY", !.constraint = <<>>]
  <2>1. DOMAIN rs = DOMAIN batch /\ DOMAIN requirements = DOMAIN batch
    <3>1. DOMAIN rs = DOMAIN batch
      BY DEF Admitted
    <3>2. DOMAIN MarkContradictions(rs) = DOMAIN rs
      BY DEF MarkContradictions
    <3> QED BY <1>2, <3>1, <3>2
  <2>2. \A i \in DOMAIN batch : rs[i] = Admit(batch[i], Document, Segments, Titles)
    BY DEF Admitted
  <2>3. \A i \in DOMAIN batch :
           requirements[i] = IF rs[i].id \in conflicted THEN marked(i) ELSE rs[i]
    <3> HIDE DEF rs
    <3> QED BY <1>2, <2>1, MarkedEach DEF rs
  <2>4. Listed(requirements)
    <3>1. Listed(batch)
      <4>1. CASE batch = <<>>
        <5>1. DOMAIN batch = 1 .. 0
          BY <4>1
        <5> QED BY <5>1 DEF Listed
      <4>2. CASE batch \in Batches
        <5>1. batch \in Seq(Range(batch))
          BY <4>2 DEF IntakeAssumption
        <5>2. DOMAIN batch = 1 .. Len(batch) /\ Len(batch) \in Nat
          BY <5>1
        <5> QED BY <5>2 DEF Listed
      <4> QED BY <4>1, <4>2
    <3> QED BY <2>1, <3>1 DEF Listed
  <2>5. ASSUME NEW i \in DOMAIN batch
        PROVE  /\ {"status", "constraint", "key", "id", "applicability"} \subseteq DOMAIN rs[i]
               /\ rs[i].applicability \in {"APPLICABLE", "UNRESOLVED"}
               /\ rs[i].constraint # <<>> <=> rs[i].status = "EXECUTABLE"
               /\ rs[i].constraint # <<>> => Executable(rs[i])
               /\ rs[i].id = RequirementId(batch[i].cited, rs[i].constraint, rs[i].status)
    <3>1. rs[i] = Admit(batch[i], Document, Segments, Titles)
      BY <2>2
    <3> DEFINE r == Admit(batch[i], Document, Segments, Titles)
    <3>2. {"status", "constraint", "key", "id", "applicability"} \subseteq DOMAIN r
      BY DEF Admit
    <3>3. r.applicability \in {"APPLICABLE", "UNRESOLVED"}
      BY Applicabilities DEF Admit
    <3>4. Tight(r, batch[i])
      BY AdmitTightens
    <3>5. r.id = RequirementId(batch[i].cited, r.constraint, r.status)
      BY DEF Admit
    <3> HIDE DEF r, rs
    <3>6. r.status = "EXECUTABLE" => Executable(r)
      BY AdmitInTerms DEF r
    <3>7. rs[i] = r
      BY <3>1 DEF r
    <3> QED BY <3>2, <3>3, <3>4, <3>5, <3>6, <3>7 DEF Tight
  <2> HIDE DEF rs, conflicted
  <2>6. ASSUME NEW i \in DOMAIN batch
        PROVE  /\ requirements[i].id = rs[i].id
               /\ requirements[i].applicability = rs[i].applicability
               /\ rs[i].id \in conflicted => requirements[i].constraint = <<>>
                                             /\ requirements[i].status = "CONTRADICTORY"
               /\ rs[i].id \notin conflicted => requirements[i] = rs[i]
    BY <2>3, <2>5
  <2>7. ASSUME NEW i \in DOMAIN batch, NEW j \in DOMAIN batch,
               requirements[i].id = requirements[j].id,
               requirements[i].constraint # <<>>
        PROVE  requirements[j].constraint # <<>>
    <3>1. requirements[i] = rs[i] /\ requirements[j] = rs[j] /\ rs[i].id = rs[j].id
      BY <2>6, <2>7
    <3>2. /\ rs[i].id = RequirementId(batch[i].cited, rs[i].constraint, rs[i].status)
          /\ rs[j].id = RequirementId(batch[j].cited, rs[j].constraint, rs[j].status)
      BY <2>5
    <3>3. SUFFICES ASSUME rs[j].constraint = <<>> PROVE FALSE
      BY <3>1
    <3>4. /\ rs[i].id = <<batch[i].cited, <<"constraint", rs[i].constraint[1]>> >>
          /\ rs[j].id = <<batch[j].cited, <<rs[j].status>> >>
      BY <2>7, <3>1, <3>2, <3>3 DEF RequirementId
    <3> DEFINE demand == <<"constraint", rs[i].constraint[1]>>
               bare   == <<rs[j].status>>
    <3>5. Len(demand) = 2 /\ Len(bare) = 1
      OBVIOUS
    <3> HIDE DEF demand, bare
    <3>6. rs[i].id[2] = demand /\ rs[j].id[2] = bare
      BY <3>4 DEF demand, bare
    <3>7. demand = bare
      BY <3>1, <3>6
    <3>8. Len(demand) = Len(bare)
      BY <3>7
    <3>9. 2 # 1
      OBVIOUS
    <3> QED BY <3>5, <3>8, <3>9, Zenon
  <2>8. \A i \in DOMAIN batch :
          /\ requirements[i].applicability \in {"APPLICABLE", "UNRESOLVED"}
          /\ requirements[i].constraint # <<>> <=> requirements[i].status = "EXECUTABLE"
          /\ requirements[i].constraint # <<>> => Executable(requirements[i])
    <3> SUFFICES ASSUME NEW i \in DOMAIN batch
                 PROVE  /\ requirements[i].applicability \in {"APPLICABLE", "UNRESOLVED"}
                        /\ requirements[i].constraint # <<>>
                              <=> requirements[i].status = "EXECUTABLE"
                        /\ requirements[i].constraint # <<>> => Executable(requirements[i])
      OBVIOUS
    <3> QED BY <2>5, <2>6
  <2> QED BY <2>1, <2>4, <2>7, <2>8 DEF WellAdmitted
<1> QED BY <1>1, <1>2 DEF AdmissionStands

(* The identities of the admitted requirements.                               *)
Identities == {requirements[i].id : i \in DOMAIN requirements}

(* What is looked up by an identity bears it. *)
LEMMA Bears ==
    ASSUME WellAdmitted, NEW id \in Identities
    PROVE  \E k \in DOMAIN requirements :
              ByRequirement(id) = requirements[k] /\ requirements[k].id = id
<1> DEFINE of == {i \in DOMAIN requirements : requirements[i].id = id}
<1>1. of \subseteq Int /\ IsFiniteSet(of)
  BY ListedFinite DEF WellAdmitted
<1>2. of # {}
  BY DEF Identities
<1>3. Max(of) \in of
  <2> HIDE DEF of
  <2> QED BY <1>1, <1>2, Extremes
<1>4. ByRequirement(id) = requirements[Max(of)]
  BY DEF ByRequirement
<1> HIDE DEF of
<1>5. Max(of) \in DOMAIN requirements /\ requirements[Max(of)].id = id
  BY <1>3 DEF of
<1> QED BY <1>4, <1>5

(* The checks a run requires are bindings of demanded requirements. *)
ChecksStand ==
    /\ Listed(checks)
    /\ \A n \in DOMAIN checks :
          \E i \in DOMAIN requirements, a \in Nat :
              Demanded(requirements[i]) /\ checks[n] = RequiredCheck(requirements[i], a)

(* A requirement is bound to assets of the package (derive_required_checks).  *)
LEMMA BoundInPackage ==
    ASSUME NEW p, Listed(p), NEW r PROVE BoundAssets(r, p) \subseteq DOMAIN p
<1> DEFINE scoped == ScopedAssets(p, r.role)
<1>1. scoped \subseteq DOMAIN p
  BY DEF ScopedAssets
<1>2. scoped # {} => Min(scoped) \in scoped
  <2>1. scoped \subseteq Int /\ IsFiniteSet(scoped)
    BY <1>1, ListedFinite
  <2> HIDE DEF scoped
  <2> QED BY <2>1, Extremes
<1>3. BoundAssets(r, p) \subseteq scoped \/ BoundAssets(r, p) \subseteq DOMAIN p
  BY <1>2 DEF BoundAssets
<1> QED BY <1>1, <1>3

(* The derived checks bind the demanded requirements, and only those          *)
(* (derive_required_checks).                                                  *)
LEMMA DerivedStand ==
    ASSUME NEW rs, NEW p, Listed(rs), Listed(p)
    PROVE  /\ Listed(DeriveRequiredChecks(rs, p))
           /\ \A n \in DOMAIN DeriveRequiredChecks(rs, p) :
                 \E i \in DOMAIN rs, a \in DOMAIN p :
                     /\ a \in Nat /\ Demanded(rs[i])
                     /\ DeriveRequiredChecks(rs, p)[n] = RequiredCheck(rs[i], a)
<1> DEFINE demanded == {i \in DOMAIN rs : Demanded(rs[i])}
           bindings == UNION {{i} \X BoundAssets(rs[i], p) : i \in demanded}
           before   == {q \in bindings \X bindings :
                           \/ q[1][1] < q[2][1]
                           \/ q[1][1] = q[2][1] /\ q[1][2] < q[2][2]}
           nth      == InOrder(bindings, before)
           derived  == DeriveRequiredChecks(rs, p)
<1>1. \A i \in demanded : BoundAssets(rs[i], p) \subseteq DOMAIN p
  BY BoundInPackage
<1>2. bindings \in SUBSET ((DOMAIN rs) \X (DOMAIN p))
  BY <1>1
<1>3. IsFiniteSet((DOMAIN rs) \X (DOMAIN p)) /\ DOMAIN rs \subseteq Int /\ DOMAIN p \subseteq Nat
  <2>1. /\ IsFiniteSet(DOMAIN rs) /\ IsFiniteSet(DOMAIN p) /\ DOMAIN rs \subseteq Int
    BY ListedFinite
  <2>2. DOMAIN p \subseteq Nat
    BY DEF Listed
  <2> QED BY <2>1, <2>2, FS_Product
<1>4. IsFiniteSet(bindings)
  <2> HIDE DEF bindings
  <2> QED BY <1>2, <1>3, FS_Subset
<1>5. \A b \in bindings : b[1] \in demanded /\ b[2] \in DOMAIN p /\ b = <<b[1], b[2]>>
  BY <1>1
<1>6. Linear(bindings, before)
  <2> HIDE DEF bindings, demanded
  <2>1. \A b \in bindings : b[1] \in Int /\ b[2] \in Int /\ b = <<b[1], b[2]>>
    BY <1>2, <1>3
  <2>2. \A x, y \in bindings : x = y \/ <<x, y>> \in before \/ <<y, x>> \in before
    <3> SUFFICES ASSUME NEW x \in bindings, NEW y \in bindings,
                        <<x, y>> \notin before, <<y, x>> \notin before PROVE x = y
      OBVIOUS
    <3>1. x[1] = y[1] /\ x[2] = y[2]
      BY <2>1
    <3> QED BY <2>1, <3>1, Zenon
  <2>3. \A x \in bindings : <<x, x>> \notin before
    BY <2>1
  <2>4. \A x, y, z \in bindings :
           <<x, y>> \in before /\ <<y, z>> \in before => <<x, z>> \in before
    BY <2>1
  <2>5. before \subseteq bindings \X bindings
    OBVIOUS
  <2> HIDE DEF before
  <2> QED BY <2>2, <2>3, <2>4, <2>5 DEF Linear
<1>7. nth \in Bijection(1 .. Cardinality(bindings), bindings) /\ Cardinality(bindings) \in Nat
  <2> HIDE DEF bindings, before
  <2> QED BY <1>4, <1>6, InOrderCounts, FS_CardinalityType
<1>8. derived = [n \in DOMAIN nth |-> RequiredCheck(rs[nth[n][1]], nth[n][2])]
  BY DEF DeriveRequiredChecks
<1> HIDE DEF bindings, before, nth, derived
<1>9. DOMAIN nth = 1 .. Cardinality(bindings) /\ \A n \in DOMAIN nth : nth[n] \in bindings
  BY <1>7 DEF Bijection, Injection
<1>10. Listed(derived)
  BY <1>7, <1>8, <1>9 DEF Listed
<1>11. ASSUME NEW n \in DOMAIN derived
       PROVE  \E i \in DOMAIN rs, a \in DOMAIN p :
                 a \in Nat /\ Demanded(rs[i]) /\ derived[n] = RequiredCheck(rs[i], a)
  <2>1. n \in DOMAIN nth /\ derived[n] = RequiredCheck(rs[nth[n][1]], nth[n][2])
    BY <1>8
  <2>2. nth[n][1] \in demanded /\ nth[n][2] \in DOMAIN p /\ nth[n][2] \in Nat
    BY <2>1, <1>3, <1>5, <1>9
  <2> QED BY <2>1, <2>2
<1> QED BY <1>10, <1>11 DEF derived

(* Every key of the catalogue has its tool, and every tool its rank. *)
LEMMA KeysHaveTools ==
    ASSUME NEW key \in MeasurementCatalog PROVE ProducedBy(key) \in InspectionTools
<1>1. \E t \in InspectionTools : key \in KeysOfTool[t]
  BY DEF MeasurementCatalog, KeysOfType, KeysOfTool, InspectionTools
<1> QED BY <1>1 DEF ProducedBy

(* The tools are in one order, none twice.                                    *)
LEMMA ToolsHaveRanks ==
    /\ \A t \in InspectionTools : ToolRank(t) \in 1 .. 5
    /\ \A t, u \in InspectionTools : ToolRank(t) = ToolRank(u) => t = u
<1>1. ASSUME NEW t \in InspectionTools
      PROVE  ToolRank(t) \in DOMAIN ToolOrder /\ ToolOrder[ToolRank(t)] = t
  <2>1. \E i \in DOMAIN ToolOrder : ToolOrder[i] = t
    <3>1. \A i \in 1 .. 5 : i \in DOMAIN ToolOrder
      BY DEF ToolOrder
    <3>2. /\ ToolOrder[1] = "scan_package" /\ ToolOrder[2] = "probe_media"
          /\ ToolOrder[3] = "measure_loudness" /\ ToolOrder[4] = "inspect_captions"
          /\ ToolOrder[5] = "verify_manifest"
      BY DEF ToolOrder
    <3>3. t \in {"scan_package", "probe_media", "measure_loudness", "inspect_captions",
                 "verify_manifest"}
      BY DEF InspectionTools, KeysOfTool
    <3> QED BY <3>1, <3>2, <3>3
  <2> QED BY <2>1 DEF ToolRank
<1>2. DOMAIN ToolOrder = 1 .. 5
  BY DEF ToolOrder
<1>3. ASSUME NEW t \in InspectionTools, NEW u \in InspectionTools, ToolRank(t) = ToolRank(u)
      PROVE  t = u
  BY <1>1, <1>3
<1> QED BY <1>1, <1>2, <1>3

(* A required check has a tool, an asset and a demanded requirement.          *)
LEMMA ChecksInTerms ==
    ASSUME WellAdmitted, ChecksStand, NEW n \in DOMAIN checks
    PROVE  /\ checks[n].tool \in InspectionTools /\ checks[n].asset \in Nat
           /\ checks[n].id[1] = checks[n].requirement
           /\ \E i \in DOMAIN requirements :
                 /\ requirements[i].id = checks[n].requirement /\ Demanded(requirements[i])
<1>1. PICK i \in DOMAIN requirements, a \in Nat :
          Demanded(requirements[i]) /\ checks[n] = RequiredCheck(requirements[i], a)
  BY DEF ChecksStand
<1>2. requirements[i].key \in MeasurementCatalog
  BY <1>1 DEF WellAdmitted, Demanded, Executable
<1>3. ProducedBy(requirements[i].key) \in InspectionTools
  BY <1>2, KeysHaveTools
<1>4. /\ checks[n].tool = ProducedBy(requirements[i].key) /\ checks[n].asset = a
      /\ checks[n].id[1] = requirements[i].id /\ checks[n].requirement = requirements[i].id
  BY <1>1 DEF RequiredCheck
<1> QED BY <1>1, <1>3, <1>4

(* The planned order takes each required check once: it matches their list,   *)
(* place by place.                                                            *)
PlanStands ==
    /\ Listed(order)
    /\ \E match \in Bijection(DOMAIN order, DOMAIN checks) :
          \A k \in DOMAIN order : order[k] = checks[match[k]].requirement

(* The places of an order that hold a required check. *)
Planned(ids) == {n \in DOMAIN ids : ids[n] \in Range(Required(checks))}

(* An order that names each required check once becomes a plan that stands.   *)
LEMMA PlanMatches ==
    ASSUME WellAdmitted, ChecksStand, NEW ids, Listed(ids),
           NEW match \in Bijection(Planned(ids), DOMAIN checks),
           \A n \in Planned(ids) : ids[n] = checks[match[n]].id
    PROVE  /\ Listed(CheckOrder(ids, checks))
           /\ \E m \in Bijection(DOMAIN CheckOrder(ids, checks), DOMAIN checks) :
                 \A k \in DOMAIN CheckOrder(ids, checks) :
                     CheckOrder(ids, checks)[k] = checks[m[k]].requirement
<1> DEFINE I       == Planned(ids)
           at      == Ascending(I)
           planned == Kept(ids, I)
           o       == CheckOrder(ids, checks)
           m       == [k \in DOMAIN o |-> match[at[k]]]
<1>1. I \subseteq Int /\ IsFiniteSet(I) /\ Cardinality(I) \in Nat
  <2>1. I \subseteq DOMAIN ids
    BY DEF Planned
  <2> QED BY <2>1, ListedFinite
<1>2. at \in Bijection(1 .. Cardinality(I), I)
  <2> HIDE DEF I
  <2> QED BY <1>1, AscendingCounts
<1>3. planned = [n \in DOMAIN at |-> ids[at[n]]]
  BY DEF Kept
<1>4. o = [i \in DOMAIN planned |-> planned[i][1]]
  BY DEF CheckOrder, Planned
<1> HIDE DEF I, at, planned, o
<1>5. /\ at \in [1 .. Cardinality(I) -> I] /\ DOMAIN at = 1 .. Cardinality(I)
      /\ \A k, l \in DOMAIN at : at[k] = at[l] => k = l
      /\ \A n \in I : \E k \in DOMAIN at : at[k] = n
  BY <1>2 DEF Bijection, Injection, Surjection, IsInjective
<1>6. /\ match \in [I -> DOMAIN checks]
      /\ \A k, l \in I : match[k] = match[l] => k = l
      /\ \A c \in DOMAIN checks : \E n \in I : match[n] = c
  BY DEF Bijection, Injection, Surjection, IsInjective, I
<1>7. DOMAIN o = DOMAIN at
  BY <1>3, <1>4
<1>8. Listed(o)
  BY <1>1, <1>5, <1>7 DEF Listed
<1>9. m \in Bijection(DOMAIN o, DOMAIN checks)
  <2>1. m \in [DOMAIN o -> DOMAIN checks]
    BY <1>5, <1>6, <1>7
  <2>2. \A k, l \in DOMAIN o : m[k] = m[l] => k = l
    BY <1>5, <1>6, <1>7
  <2>3. \A c \in DOMAIN checks : \E k \in DOMAIN o : m[k] = c
    BY <1>5, <1>6, <1>7
  <2> HIDE DEF m
  <2>4. m \in Injection(DOMAIN o, DOMAIN checks)
    BY <2>1, <2>2, Zenon DEF Injection, IsInjective
  <2> QED BY <2>1, <2>3, <2>4 DEF Bijection, Surjection
<1>10. ASSUME NEW k \in DOMAIN o PROVE o[k] = checks[m[k]].requirement
  <2>1. o[k] = ids[at[k]][1] /\ at[k] \in I /\ m[k] = match[at[k]]
    BY <1>3, <1>4, <1>5, <1>7
  <2>2. ids[at[k]] = checks[m[k]].id /\ m[k] \in DOMAIN checks
    BY <2>1, <1>6 DEF I
  <2> HIDE DEF m
  <2> QED BY <2>1, <2>2, ChecksInTerms
<1> HIDE DEF m
<1> QED BY <1>8, <1>9, <1>10 DEF o

(* The list of required checks, place by place.                               *)
LEMMA RequiredListed ==
    ASSUME ChecksStand
    PROVE  /\ Listed(Required(checks)) /\ DOMAIN Required(checks) = DOMAIN checks
           /\ \A n \in DOMAIN checks : Required(checks)[n] = checks[n].id
  BY DEF Required, ChecksStand, Listed

(* The fallback takes all of them, sorted. *)
LEMMA FallbackMatches ==
    ASSUME WellAdmitted, ChecksStand
    PROVE  /\ Listed(FallbackOrder(checks))
           /\ \E match \in Bijection(Planned(FallbackOrder(checks)), DOMAIN checks) :
                 \A n \in Planned(FallbackOrder(checks)) :
                     FallbackOrder(checks)[n] = checks[match[n]].id
<1> DEFINE D      == DOMAIN checks
           before == {p \in D \X D :
                        LET left  == checks[p[1]]
                            right == checks[p[2]]
                        IN  \/ ToolRank(left.tool) < ToolRank(right.tool)
                            \/ /\ left.tool = right.tool
                               /\ \/ left.asset < right.asset
                                  \/ left.asset = right.asset /\ p[1] < p[2]}
           sorted == InOrder(D, before)
           ids    == FallbackOrder(checks)
<1>1. D \subseteq Int /\ IsFiniteSet(D) /\ Cardinality(D) \in Nat
  BY ListedFinite DEF ChecksStand
<1>2. \A n \in D : /\ ToolRank(checks[n].tool) \in Int /\ checks[n].asset \in Int
                   /\ checks[n].tool \in InspectionTools
  BY ChecksInTerms, ToolsHaveRanks
<1>3. Linear(D, before)
  <2> DEFINE rank(n)  == ToolRank(checks[n].tool)
             asset(n) == checks[n].asset
             first(x, y) == \/ rank(x) < rank(y)
                            \/ /\ rank(x) = rank(y)
                               /\ \/ asset(x) < asset(y)
                                  \/ asset(x) = asset(y) /\ x < y
  <2>1. \A x, y \in D : <<x, y>> \in before <=> first(x, y)
    <3> SUFFICES ASSUME NEW x \in D, NEW y \in D
                 PROVE  <<x, y>> \in before <=> first(x, y)
      OBVIOUS
    <3>1. checks[x].tool = checks[y].tool <=> rank(x) = rank(y)
      BY <1>2, ToolsHaveRanks
    <3>2. <<x, y>> \in before <=>
             \/ rank(x) < rank(y)
             \/ /\ checks[x].tool = checks[y].tool
                /\ \/ asset(x) < asset(y)
                   \/ asset(x) = asset(y) /\ x < y
      OBVIOUS
    <3> QED BY <3>1, <3>2
  <2>2. \A x \in D : rank(x) \in Int /\ asset(x) \in Int /\ x \in Int
    BY <1>1, <1>2
  <2>3. before \subseteq D \X D
    OBVIOUS
  <2> HIDE DEF before, D, rank, asset
  <2>4. \A x \in D : ~first(x, x)
    BY <2>2
  <2>5. \A x, y \in D : x = y \/ first(x, y) \/ first(y, x)
    BY <2>2
  <2>6. \A x, y, z \in D : first(x, y) /\ first(y, z) => first(x, z)
    BY <2>2
  <2> HIDE DEF first
  <2> QED BY <2>1, <2>3, <2>4, <2>5, <2>6 DEF Linear
<1>4. sorted \in Bijection(1 .. Cardinality(D), D)
  <2> HIDE DEF D, before
  <2> QED BY <1>1, <1>3, InOrderCounts
<1>5. ids = [n \in DOMAIN sorted |-> checks[sorted[n]].id]
  BY DEF FallbackOrder
<1> HIDE DEF sorted, before, ids
<1>6. DOMAIN sorted = 1 .. Cardinality(D) /\ \A n \in DOMAIN sorted : sorted[n] \in D
  BY <1>4 DEF Bijection, Injection
<1>7. DOMAIN ids = DOMAIN sorted
  BY <1>5
<1>8. Planned(ids) = DOMAIN sorted
  <2>1. \A n \in DOMAIN sorted : ids[n] \in Range(Required(checks))
    BY <1>5, <1>6, RequiredListed DEF Range
  <2> QED BY <1>7, <2>1 DEF Planned
<1>9. sorted \in Bijection(Planned(ids), DOMAIN checks)
  BY <1>4, <1>6, <1>8
<1>10. Listed(ids)
  BY <1>1, <1>6, <1>7 DEF Listed
<1> QED BY <1>5, <1>8, <1>9, <1>10 DEF ids

(* Values as many as places: no value twice.                                  *)
LEMMA DistinctIsInjective ==
    ASSUME NEW s, Listed(s), Cardinality(Range(s)) = Cardinality(DOMAIN s)
    PROVE  \A m, n \in DOMAIN s : s[m] = s[n] => m = n
<1> DEFINE f == [n \in DOMAIN s |-> s[n]]
<1>1. IsFiniteSet(DOMAIN s)
  BY ListedFinite
<1>2. f \in Surjection(DOMAIN s, Range(s))
  BY DEF Surjection, Range
<1> HIDE DEF f
<1>3. f \in Injection(DOMAIN s, Range(s))
  BY <1>1, <1>2, FS_SurjSameCardinalityImpliesInj
<1>4. \A m, n \in DOMAIN s : f[m] = f[n] => m = n
  BY <1>3 DEF Injection, IsInjective
<1> QED BY <1>4 DEF f

(* The length of a sequence is the number of its places.                      *)
LEMMA LengthCounts ==
    ASSUME NEW s, Listed(s)
    PROVE  /\ Len(s) \in Nat /\ DOMAIN s = 1 .. Len(s) /\ Cardinality(DOMAIN s) = Len(s)
<1>1. PICK n \in Nat : DOMAIN s = 1 .. n
  BY DEF Listed
<1>2. Len(s) = n
  BY <1>1
<1>3. Cardinality(1 .. n) = n
  BY FS_Interval
<1> QED BY <1>1, <1>2, <1>3

(* What is listed is a sequence of its values.                                *)
LEMMA ListedIsSeq ==
    ASSUME NEW s, NEW t, Listed(s), t = [n \in DOMAIN s |-> s[n]]
    PROVE  t \in Seq(Range(s))
<1>1. PICK n \in Nat : DOMAIN s = 1 .. n
  BY DEF Listed
<1>2. \A k \in 1 .. n : s[k] \in Range(s)
  BY <1>1 DEF Range
<1>3. t \in [1 .. n -> Range(s)]
  BY <1>1, <1>2
<1> QED BY <1>3

(* And a sequence is listed.                                                  *)
LEMMA SeqIsListed == ASSUME NEW A, NEW s \in Seq(A) PROVE Listed(s)
  BY DEF Listed

(* What a model can propose is a sequence, and so are its extra checks. *)
LEMMA ProposalsListed ==
    ASSUME ChecksStand, NEW p \in Proposals
    PROVE  Listed(p.order) /\ Listed(p.extras)
<1> DEFINE required == Required(checks)
           extras   == Extras(checks, package)
           chosen   == {<<>>} \cup {<<e>> : e \in extras} \cup {<<e, e>> : e \in extras}
           all(x)   == required \o [i \in DOMAIN x |-> <<x[i].item>>]
           broken(o) == IF o = <<>> THEN { << <<"unknown">> >> }
                        ELSE {Tail(o), Append(o, o[1]), [o EXCEPT ![1] = <<"unknown">>]}
<1>1. required \in Seq(Range(required))
  <2>1. required = [n \in DOMAIN required |-> required[n]]
    BY DEF Required
  <2> HIDE DEF required
  <2> QED BY <2>1, RequiredListed, ListedIsSeq DEF required
<1>2. \/ /\ p.order \in SetToSeqs(Range(required)) \cup broken(required) \cup {required}
         /\ p.extras = <<>>
      \/ \E x \in chosen : p.order = all(x) /\ p.extras = x
  <2> DEFINE groups   == { << <<"unknown">> >> } \cup {<<i, i>> : i \in Range(required)}
             permuted == {[order |-> o, extras |-> <<>>, grouped |-> required]
                             : o \in SetToSeqs(Range(required))}
             extended == {[order |-> all(x), extras |-> x, grouped |-> <<>>] : x \in chosen}
             spoilt   == {[order |-> o, extras |-> <<>>, grouped |-> <<>>]
                             : o \in broken(required)}
             grouped  == {[order |-> required, extras |-> <<>>, grouped |-> g]
                             : g \in groups}
  <2>1. p \in permuted \cup extended \cup spoilt \cup grouped
    BY DEF Proposals
  <2> HIDE DEF groups, broken, all, chosen, required
  <2>2. CASE p \in permuted
    BY <2>2
  <2>3. CASE p \in extended
    BY <2>3
  <2>4. CASE p \in spoilt
    BY <2>4
  <2>5. CASE p \in grouped
    BY <2>5
  <2> HIDE DEF permuted, extended, spoilt, grouped
  <2> QED BY <2>1, <2>2, <2>3, <2>4, <2>5
<1> HIDE DEF required
<1>3. ASSUME NEW x \in chosen
      PROVE  /\ Listed(x)
             /\ [i \in DOMAIN x |-> <<x[i].item>>] \in Seq({<<x[i].item>> : i \in DOMAIN x})
  <2>1. CASE x = <<>>
    <3>1. DOMAIN x = 1 .. 0
      BY <2>1
    <3> QED BY <3>1 DEF Listed
  <2>2. CASE \E e \in extras : x = <<e>>
    <3>1. DOMAIN x = 1 .. 1
      BY <2>2
    <3> QED BY <3>1 DEF Listed
  <2>3. CASE \E e \in extras : x = <<e, e>>
    <3>1. DOMAIN x = 1 .. 2
      BY <2>3
    <3> QED BY <3>1 DEF Listed
  <2> QED BY <2>1, <2>2, <2>3
<1>4. CASE \E x \in chosen : p.order = all(x) /\ p.extras = x
  <2>1. PICK x \in chosen : p.order = all(x) /\ p.extras = x
    BY <1>4
  <2> DEFINE items == [i \in DOMAIN x |-> <<x[i].item>>]
             A == Range(required) \cup {<<x[i].item>> : i \in DOMAIN x}
  <2>2. required \in Seq(A) /\ items \in Seq(A)
    BY <1>1, <1>3
  <2>3. p.order \in Seq(A)
    <3> HIDE DEF items, A
    <3> QED BY <2>1, <2>2 DEF items
  <2> QED BY <1>3, <2>1, <2>3, SeqIsListed
<1>5. CASE p.order \in SetToSeqs(Range(required)) /\ p.extras = <<>>
  <2>1. DOMAIN p.extras = 1 .. 0
    BY <1>5
  <2>2. DOMAIN p.order = 1 .. Cardinality(Range(required))
    BY <1>5 DEF SetToSeqs
  <2>3. IsFiniteSet(Range(required))
    <3>1. IsFiniteSet(DOMAIN required)
      BY RequiredListed, ListedFinite DEF required
    <3>2. required \in Surjection(DOMAIN required, Range(required))
      <4>1. required = [n \in DOMAIN required |-> required[n]]
        BY DEF required, Required
      <4> QED BY <4>1 DEF Surjection, Range
    <3> QED BY <3>1, <3>2, FS_Surjection
  <2>4. Cardinality(Range(required)) \in Nat
    BY <2>3, FS_CardinalityType
  <2> QED BY <2>1, <2>2, <2>4 DEF Listed
<1>6. CASE p.order \in broken(required) \cup {required} /\ p.extras = <<>>
  <2>1. DOMAIN p.extras = 1 .. 0
    BY <1>6
  <2>2. CASE p.order = required
    BY <1>1, <2>1, <2>2, SeqIsListed DEF Listed
  <2>3. CASE required = <<>> /\ p.order \in broken(required)
    <3>1. p.order = << <<"unknown">> >>
      BY <2>3
    <3>2. DOMAIN p.order = 1 .. 1
      BY <3>1
    <3> QED BY <2>1, <3>2 DEF Listed
  <2>4. CASE required # <<>> /\ p.order \in broken(required)
    <3>1. p.order \in {Tail(required), Append(required, required[1]),
                       [required EXCEPT ![1] = <<"unknown">>]}
      BY <2>4
    <3>2. 1 \in DOMAIN required
      BY <1>1, <2>4
    <3>3. Tail(required) \in Seq(Range(required))
      BY <1>1, <2>4
    <3>4. Append(required, required[1]) \in Seq(Range(required))
      BY <1>1, <3>2 DEF Range
    <3>5. DOMAIN [required EXCEPT ![1] = <<"unknown">>] = DOMAIN required
      BY <1>1
    <3>6. Listed(required)
      BY <1>1, SeqIsListed
    <3>7. Listed(p.order)
      <4>1. CASE p.order = Tail(required)
        BY <3>3, <4>1, SeqIsListed
      <4>2. CASE p.order = Append(required, required[1])
        BY <3>4, <4>2, SeqIsListed
      <4>3. CASE p.order = [required EXCEPT ![1] = <<"unknown">>]
        BY <3>5, <3>6, <4>3 DEF Listed
      <4> QED BY <3>1, <4>1, <4>2, <4>3
    <3> QED BY <2>1, <3>7 DEF Listed
  <2> QED BY <1>6, <2>2, <2>3, <2>4
<1> HIDE DEF broken, chosen, all
<1> QED BY <1>2, <1>4, <1>5, <1>6

(* What the runtime accepts names each required check once. *)
LEMMA AcceptedMatches ==
    ASSUME WellAdmitted, ChecksStand, NEW p, Listed(p.order), Listed(p.extras),
           PlanAccepted(p, checks, package)
    PROVE  \E match \in Bijection(Planned(p.order), DOMAIN checks) :
              \A n \in Planned(p.order) : p.order[n] = checks[match[n]].id
<1> DEFINE required == Required(checks)
           items    == [i \in DOMAIN p.extras |-> <<p.extras[i].item>>]
           whole    == required \o items
           A        == Range(required) \cup Range(items)
<1>1. /\ Distinct(whole) /\ Len(p.order) = Len(required) + Len(items)
      /\ Range(p.order) = Range(whole)
  BY DEF PlanAccepted
<1>2. required \in Seq(A) /\ items \in Seq(A)
  <2>1. required = [n \in DOMAIN required |-> required[n]] /\ Listed(required)
    <3>1. required = [n \in DOMAIN required |-> required[n]]
      BY DEF Required
    <3> QED BY <3>1, RequiredListed
  <2>2. items = [n \in DOMAIN items |-> items[n]] /\ Listed(items)
    BY DEF Listed
  <2> HIDE DEF required, items
  <2>3. required \in Seq(Range(required)) /\ items \in Seq(Range(items))
    BY <2>1, <2>2, ListedIsSeq
  <2> QED BY <2>3
<1>3. /\ whole \in Seq(A) /\ Len(whole) = Len(required) + Len(items)
      /\ Len(required) \in Nat
      /\ \A n \in 1 .. Len(required) : n \in DOMAIN whole /\ whole[n] = required[n]
  <2> HIDE DEF required, items, A
  <2> QED BY <1>2
<1>4. Listed(whole) /\ Cardinality(DOMAIN whole) = Len(whole)
  BY <1>3, SeqIsListed, LengthCounts
<1>5. \A m, n \in DOMAIN whole : whole[m] = whole[n] => m = n
  <2> HIDE DEF whole
  <2> QED BY <1>1, <1>4, DistinctIsInjective DEF Distinct
<1>6. \A m, n \in DOMAIN p.order : p.order[m] = p.order[n] => m = n
  <2>1. Cardinality(DOMAIN p.order) = Len(p.order)
    BY LengthCounts
  <2>2. Cardinality(Range(p.order)) = Cardinality(DOMAIN p.order)
    <3> HIDE DEF whole, required, items
    <3> QED BY <1>1, <1>3, <2>1 DEF Distinct
  <2> QED BY <2>2, DistinctIsInjective
<1>7. DOMAIN checks = 1 .. Len(required) /\ \A n \in DOMAIN checks : required[n] = checks[n].id
  BY RequiredListed, LengthCounts
<1> HIDE DEF whole, items, required
<1>8. \A m, n \in DOMAIN checks : checks[m].id = checks[n].id => m = n
  BY <1>3, <1>5, <1>7
<1> DEFINE I     == Planned(p.order)
           match == [n \in I |-> CHOOSE c \in DOMAIN checks : checks[c].id = p.order[n]]
<1>9. ASSUME NEW n \in I
      PROVE  match[n] \in DOMAIN checks /\ checks[match[n]].id = p.order[n]
             /\ n \in DOMAIN p.order
  <2>1. n \in DOMAIN p.order /\ p.order[n] \in Range(required)
    BY DEF Planned, required
  <2>2. \E c \in DOMAIN checks : checks[c].id = p.order[n]
    <3>1. DOMAIN required = DOMAIN checks
      BY RequiredListed DEF required
    <3> QED BY <2>1, <1>7, <3>1 DEF Range
  <2> QED BY <2>1, <2>2
<1>10. ASSUME NEW c \in DOMAIN checks PROVE \E n \in I : match[n] = c
  <2>1. whole[c] = checks[c].id /\ c \in DOMAIN whole
    BY <1>3, <1>7
  <2>2. checks[c].id \in Range(p.order)
    BY <1>1, <2>1 DEF Range
  <2>3. PICK n \in DOMAIN p.order : p.order[n] = checks[c].id
    BY <2>2 DEF Range
  <2>4. checks[c].id \in Range(Required(checks))
    BY RequiredListed DEF Range
  <2>5. n \in I
    BY <2>3, <2>4 DEF Planned
  <2>6. match[n] = c
    <3> HIDE DEF match, I
    <3> QED BY <2>3, <2>5, <1>8, <1>9
  <2> QED BY <2>5, <2>6
<1>11. match \in [I -> DOMAIN checks] /\ \A m, n \in I : match[m] = match[n] => m = n
  <2>1. match \in [I -> DOMAIN checks]
    <3> HIDE DEF I
    <3>1. match = [n \in I |-> match[n]]
      OBVIOUS
    <3> HIDE DEF match
    <3> QED BY <1>9, <3>1
  <2>2. ASSUME NEW m \in I, NEW n \in I, match[m] = match[n] PROVE m = n
    <3> HIDE DEF match, I
    <3> QED BY <1>6, <1>9, <2>2
  <2> QED BY <2>1, <2>2
<1> HIDE DEF match, I
<1>12. match \in Injection(I, DOMAIN checks)
  BY <1>11, Zenon DEF Injection, IsInjective
<1>13. match \in Bijection(I, DOMAIN checks)
  BY <1>10, <1>11, <1>12 DEF Bijection, Surjection
<1> QED BY <1>9, <1>13 DEF I

(* Whichever way a plan comes about, it stands. *)
LEMMA AdoptedStands ==
    ASSUME WellAdmitted, ChecksStand, NEW ids, Listed(ids),
           \E match \in Bijection(Planned(ids), DOMAIN checks) :
              \A n \in Planned(ids) : ids[n] = checks[match[n]].id,
           PlanAdopted(ids)
    PROVE  PlanStands'
<1>1. PICK match \in Bijection(Planned(ids), DOMAIN checks) :
          \A n \in Planned(ids) : ids[n] = checks[match[n]].id
  OBVIOUS
<1>2. order' = CheckOrder(ids, checks) /\ checks' = checks
  BY DEF PlanAdopted
<1>3. /\ Listed(CheckOrder(ids, checks))
      /\ \E m \in Bijection(DOMAIN CheckOrder(ids, checks), DOMAIN checks) :
            \A k \in DOMAIN CheckOrder(ids, checks) :
                CheckOrder(ids, checks)[k] = checks[m[k]].requirement
  BY <1>1, PlanMatches
<1> QED BY <1>2, <1>3 DEF PlanStands, Listed

(* A plan that stands takes each requirement as often as it is checked, and   *)
(* nothing that is not demanded.                                              *)
LEMMA PlanStandsCovers ==
    ASSUME WellAdmitted, ChecksStand, PlanStands
    PROVE  /\ Len(order) = Len(checks)
           /\ \A id \in Identities :
                 Cardinality({n \in DOMAIN order : order[n] = id})
                    = Cardinality({n \in DOMAIN checks : checks[n].requirement = id})
           /\ \A n \in DOMAIN order :
                 \E i \in DOMAIN requirements :
                     requirements[i].id = order[n] /\ Demanded(requirements[i])
<1>1. PICK match \in Bijection(DOMAIN order, DOMAIN checks) :
          \A k \in DOMAIN order : order[k] = checks[match[k]].requirement
  BY DEF PlanStands
<1>2. /\ match \in [DOMAIN order -> DOMAIN checks]
      /\ \A k, l \in DOMAIN order : match[k] = match[l] => k = l
      /\ \A c \in DOMAIN checks : \E k \in DOMAIN order : match[k] = c
  BY DEF Bijection, Injection, Surjection, IsInjective
<1>3. Listed(order) /\ Listed(checks)
  BY DEF PlanStands, ChecksStand
<1>4. Len(order) = Len(checks)
  <2>1. IsFiniteSet(DOMAIN order)
    BY <1>3, ListedFinite
  <2>2. Cardinality(DOMAIN checks) = Cardinality(DOMAIN order)
    BY <2>1, FS_Bijection DEF ExistsBijection
  <2> QED BY <1>3, <2>2, LengthCounts
<1>5. ASSUME NEW id \in Identities
      PROVE  Cardinality({n \in DOMAIN order : order[n] = id})
                = Cardinality({n \in DOMAIN checks : checks[n].requirement = id})
  <2> DEFINE left  == {n \in DOMAIN order : order[n] = id}
             right == {n \in DOMAIN checks : checks[n].requirement = id}
             part  == [n \in left |-> match[n]]
  <2>1. part \in [left -> right] /\ \A k, l \in left : part[k] = part[l] => k = l
    BY <1>1, <1>2
  <2>2. \A c \in right : \E k \in left : part[k] = c
    BY <1>1, <1>2
  <2>3. IsFiniteSet(left)
    BY <1>3, ListedFinite
  <2> HIDE DEF left, right, part
  <2>4. part \in Injection(left, right)
    BY <2>1, Zenon DEF Injection, IsInjective
  <2>5. part \in Bijection(left, right)
    BY <2>1, <2>2, <2>4 DEF Bijection, Surjection
  <2>6. Cardinality(right) = Cardinality(left)
    BY <2>3, <2>5, FS_Bijection DEF ExistsBijection
  <2> QED BY <2>6 DEF left, right
<1>6. \A n \in DOMAIN order :
         \E i \in DOMAIN requirements :
             requirements[i].id = order[n] /\ Demanded(requirements[i])
  BY <1>1, <1>2, ChecksInTerms
<1> QED BY <1>4, <1>5, <1>6

-----------------------------------------------------------------------------
(* Which requirements an inspection measures: those of the plan, or all where *)
(* there is none, that have a constraint.                                     *)
PlanInHand == order = <<>> \/ (ChecksStand /\ PlanStands)

(* The identities an inspection goes through are those of requirements.       *)
LEMMA OrderedBear ==
    ASSUME WellAdmitted, PlanInHand
    PROVE  /\ Listed(OrderedIds) /\ Range(OrderedIds) \subseteq Identities
<1>1. CASE order = <<>>
  <2>1. OrderedIds = [i \in DOMAIN requirements |-> requirements[i].id]
    BY <1>1 DEF OrderedIds
  <2> QED BY <2>1 DEF WellAdmitted, Listed, Range, Identities
<1>2. CASE order # <<>>
  <2>1. OrderedIds = order /\ ChecksStand /\ PlanStands
    BY <1>2 DEF OrderedIds, PlanInHand
  <2>2. \A n \in DOMAIN order :
           \E i \in DOMAIN requirements : requirements[i].id = order[n]
    BY <2>1, PlanStandsCovers
  <2> QED BY <2>1, <2>2 DEF PlanStands, Range, Identities
<1> QED BY <1>1, <1>2

(* Those inspected are the ones with a constraint, all of them, in order.     *)
LEMMA InspectedBear ==
    ASSUME WellAdmitted, PlanInHand
    PROVE  /\ Listed(InspectedIds)
           /\ \A n \in DOMAIN InspectedIds :
                 /\ InspectedIds[n] \in Range(OrderedIds) /\ InspectedIds[n] \in Identities
                 /\ ByRequirement(InspectedIds[n]).constraint # <<>>
           /\ \A id \in Range(OrderedIds) :
                 ByRequirement(id).constraint # <<>> =>
                     \E n \in DOMAIN InspectedIds : InspectedIds[n] = id
<1> DEFINE O == OrderedIds
           I == {n \in DOMAIN O : ByRequirement(O[n]).constraint # <<>>}
<1>1. Listed(O) /\ Range(O) \subseteq Identities
  BY OrderedBear
<1>2. I \subseteq Int /\ IsFiniteSet(I)
  <2> HIDE DEF O
  <2> QED BY <1>1, ListedFinite
<1>3. InspectedIds = Kept(O, I)
  BY DEF InspectedIds
<1>4. /\ DOMAIN Kept(O, I) = 1 .. Cardinality(I) /\ Cardinality(I) \in Nat
      /\ Range(Kept(O, I)) = {O[i] : i \in I}
  <2> HIDE DEF O, I
  <2> QED BY <1>2, KeptFrom
<1>5. Listed(InspectedIds)
  <2> HIDE DEF O, I
  <2> QED BY <1>3, <1>4 DEF Listed
<1>6. ASSUME NEW n \in DOMAIN InspectedIds
      PROVE  /\ InspectedIds[n] \in Range(OrderedIds) /\ InspectedIds[n] \in Identities
             /\ ByRequirement(InspectedIds[n]).constraint # <<>>
  <2>1. PICK i \in I : InspectedIds[n] = O[i]
    <3> HIDE DEF O, I
    <3> QED BY <1>3, <1>4 DEF Range
  <2>2. O[i] \in Range(O) /\ ByRequirement(O[i]).constraint # <<>>
    BY <2>1 DEF Range
  <2> HIDE DEF O, I
  <2>3. InspectedIds[n] \in Range(OrderedIds)
    BY <2>1, <2>2 DEF O
  <2>4. InspectedIds[n] \in Identities
    BY <1>1, <2>1, <2>2
  <2>5. ByRequirement(InspectedIds[n]).constraint # <<>>
    BY <2>1, <2>2
  <2> QED BY <2>3, <2>4, <2>5
<1>7. ASSUME NEW id \in Range(OrderedIds), ByRequirement(id).constraint # <<>>
      PROVE  \E n \in DOMAIN InspectedIds : InspectedIds[n] = id
  <2>1. PICK i \in DOMAIN O : O[i] = id
    BY DEF Range
  <2>2. i \in I
    BY <1>7, <2>1
  <2> HIDE DEF O, I
  <2> QED BY <1>3, <1>4, <2>1, <2>2 DEF Range
<1> QED BY <1>5, <1>6, <1>7

(* What is inspected can be evaluated, in the catalogue's terms. *)
LEMMA InspectedInTerms ==
    ASSUME WellAdmitted, PlanInHand, NEW n \in DOMAIN InspectedIds
    PROVE  /\ Executable(ByRequirement(InspectedIds[n]))
           /\ ByRequirement(InspectedIds[n]).id = InspectedIds[n]
<1>1. InspectedIds[n] \in Identities /\ ByRequirement(InspectedIds[n]).constraint # <<>>
  BY InspectedBear
<1> DEFINE id == InspectedIds[n]
<1> HIDE DEF id
<1>2. PICK k \in DOMAIN requirements :
          ByRequirement(id) = requirements[k] /\ requirements[k].id = id
  BY <1>1, Bears DEF id
<1> QED BY <1>1, <1>2 DEF WellAdmitted, id

-----------------------------------------------------------------------------

(* Every fact a tool returns is in the catalogue's unit, and one that was      *)
(* measured has a value.                                                      *)
Sound(f) ==
    /\ f.unit = CanonicalUnit(f.key)
    /\ f.status = "OK" => f.values # <<>>

(* A fact as the tools build it.                                              *)
LEMMA FactsAreSound == \A key, a, values : Sound(Fact(key, a, values))
  BY DEF Fact, Sound

(* And a list of them.                                                        *)
LEMMA ListedFactsAreSound ==
    ASSUME NEW a, NEW pairs PROVE \A f \in FactsOf(a, pairs) : Sound(f)
  BY FactsAreSound DEF FactsOf

(* The facts of a result are the facts it was made of.                        *)
LEMMA InspectedFacts == \A facts : Inspected(facts).facts = facts
  BY DEF Inspected

(* A tool that could read nothing measured nothing.                           *)
LEMMA NothingReadIsSound == \A f \in NothingRead.facts : Sound(f)
  BY InspectedFacts DEF NothingRead

(* scan_package.                                                              *)
LEMMA ScannedIsSound ==
    ASSUME NEW p PROVE \A f \in ScanPackage(p).facts : Sound(f)
<1> DEFINE pairs(a) == { <<"package.file_present[role]", << <<"bool", p[a].exists>> >> >>,
                         <<"package.filename[role]",
                           IF p[a].exists THEN << <<"word", p[a].name>> >> ELSE <<>> >> }
           whole    == { <<"package.manifest_present",
                           << <<"bool", Holding(p, "MANIFEST")>> >> >>,
                         <<"captions.present",
                           << <<"bool", Holding(p, "CAPTIONS")>> >> >> }
           facts    == (UNION {FactsOf(a, pairs(a)) : a \in DOMAIN p}) \cup FactsOf(0, whole)
<1>1. ScanPackage(p) = Inspected(facts)
  BY DEF ScanPackage
<1> HIDE DEF pairs, whole
<1>2. \A f \in facts : Sound(f)
  <2>1. \A a \in DOMAIN p : \A f \in FactsOf(a, pairs(a)) : Sound(f)
    BY ListedFactsAreSound
  <2>2. \A f \in FactsOf(0, whole) : Sound(f)
    BY ListedFactsAreSound
  <2>3. SUFFICES ASSUME NEW f \in facts PROVE Sound(f)
    OBVIOUS
  <2>4. f \in FactsOf(0, whole) \/ \E a \in DOMAIN p : f \in FactsOf(a, pairs(a))
    OBVIOUS
  <2> QED BY <2>1, <2>2, <2>4
<1> HIDE DEF facts
<1> QED BY <1>1, <1>2, InspectedFacts

(* probe_media.                                                               *)
LEMMA ProbedIsSound ==
    ASSUME NEW p, NEW a PROVE \A f \in ProbeMedia(p, a).facts : Sound(f)
<1> DEFINE probe  == p[a].probe[1]
           format == <<"container.format",
                       CASE probe.formats = <<>> -> <<>>
                         [] "mov" \in Range(probe.formats) -> << <<"word", "quicktime mov">> >>
                         [] OTHER -> << <<"word", Head(probe.formats)>> >> >>
           video  == UNION { { <<"video.codec", v.codec>>, <<"video.width", v.width>>,
                               <<"video.height", v.height>>, <<"video.frame_rate", v.rate>>,
                               <<"video.scan_type", IF v.scan = <<>>
                                                    THEN << <<"word", "unknown">> >>
                                                    ELSE v.scan>> }
                             : v \in Range(probe.video) }
           audio  == UNION { { <<"audio.channel_count", s.channels>>,
                               <<"audio.channel_layout", s.layout>>,
                               <<"audio.sample_rate", s.rate>> }
                             : s \in Range(probe.audio) }
           pairs  == {format} \cup video \cup audio
<1>1. ProbeMedia(p, a) = IF ~p[a].exists \/ p[a].probe = <<>> THEN NothingRead
                         ELSE Inspected(FactsOf(a, pairs))
  BY Zenon DEF ProbeMedia
<1> HIDE DEF pairs
<1> QED BY <1>1, ListedFactsAreSound, InspectedFacts, NothingReadIsSound

(* measure_loudness.                                                          *)
LEMMA LoudnessIsSound ==
    ASSUME NEW p, NEW a, NEW stream
    PROVE  \A f \in MeasureLoudness(p, a, stream).facts : Sound(f)
<1> DEFINE pairs == { <<"audio.integrated_loudness", <<p[a].loudness[1]>> >>,
                      <<"audio.true_peak", <<p[a].loudness[2]>> >>,
                      <<"audio.loudness_range", <<p[a].loudness[3]>> >> }
<1>1. MeasureLoudness(p, a, stream) =
         IF stream # "primary_audio" \/ ~p[a].exists \/ p[a].loudness = <<>>
         THEN NothingRead ELSE Inspected(FactsOf(a, pairs))
  BY DEF MeasureLoudness
<1> HIDE DEF pairs
<1> QED BY <1>1, ListedFactsAreSound, InspectedFacts, NothingReadIsSound

(* inspect_captions, read or not.                                             *)
LEMMA CaptionsAreSound ==
    ASSUME NEW p, NEW a PROVE \A f \in InspectCaptions(p, a).facts : Sound(f)
<1> DEFINE cues  == SortedCues(p[a].captions[1].cues)
           late  == {i \in 1 .. Len(cues) - 1 : cues[i][2] > cues[i + 1][1]}
           pairs == { <<"captions.format", << <<"word", p[a].captions[1].format>> >> >>,
                      <<"captions.cue_count", << <<"int", 1000 * Len(cues)>> >> >>,
                      <<"captions.first_cue_start", << <<"float", cues[1][1]>> >> >>,
                      <<"captions.overlapping_cues",
                        << <<"int", 1000 * Cardinality(late)>> >> >> }
<1>1. InspectCaptions(p, a) =
         IF ~p[a].exists THEN NothingRead
         ELSE IF p[a].captions = <<>> \/ p[a].captions[1].cues = <<>>
         THEN CaptionFailure(a) ELSE Inspected(FactsOf(a, pairs))
  BY Zenon DEF InspectCaptions
<1> DEFINE read   == {Fact("captions.format", a, << <<"word", "unknown">> >>)}
           unread == {Fact(key, a, <<>>) : key \in TimingKeys}
<1>2. \A f \in read \cup unread : Sound(f)
  BY FactsAreSound
<1>3. CaptionFailure(a) = Inspected(read \cup unread)
  BY DEF CaptionFailure
<1> HIDE DEF pairs, read, unread
<1>4. \A f \in CaptionFailure(a).facts : Sound(f)
  BY <1>2, <1>3, InspectedFacts
<1> QED BY <1>1, <1>4, ListedFactsAreSound, InspectedFacts, NothingReadIsSound

(* verify_manifest.                                                           *)
LEMMA ManifestIsSound ==
    ASSUME NEW p PROVE \A f \in VerifyManifest(p).facts : Sound(f)
<1> DEFINE manifests == {a \in DOMAIN p : p[a].role = "MANIFEST"}
           delivered == (DOMAIN p) \ manifests
           manifest  == p[CHOOSE a \in manifests : TRUE]
           lines     == manifest.entries[1]
           names     == {lines[i][1] : i \in DOMAIN lines}
           kept      == /\ names = {p[a].name : a \in delivered}
                        /\ \A a \in delivered :
                              /\ p[a].exists
                              /\ <<p[a].name, p[a].content>> \in Range(lines)
           facts     == {Fact("package.checksums_match", 0, << <<"bool", kept>> >>)}
<1>1. VerifyManifest(p) =
         IF Cardinality(manifests) # 1 THEN NothingRead
         ELSE IF ~manifest.exists \/ manifest.entries = <<>> THEN NothingRead
         ELSE IF Cardinality(names) # Len(lines) THEN NothingRead
         ELSE Inspected(facts)
  BY Zenon DEF VerifyManifest
<1>2. \A f \in facts : Sound(f)
  <2> HIDE DEF kept
  <2> QED BY FactsAreSound
<1> HIDE DEF manifests, manifest, lines, names, facts
<1> QED BY <1>1, <1>2, InspectedFacts, NothingReadIsSound

(* Every tool, whatever it is run on.                                         *)
LEMMA ToolsReadSoundly ==
    ASSUME NEW tool \in InspectionTools, NEW p, NEW a, NEW stream
    PROVE  \A f \in ExecuteInspection(tool, p, a, stream).facts : Sound(f)
<1>1. tool \in {"scan_package", "probe_media", "measure_loudness", "inspect_captions",
                "verify_manifest"}
  BY DEF InspectionTools, KeysOfTool
<1>2. ExecuteInspection(tool, p, a, stream) \in
         {ScanPackage(p), ProbeMedia(p, a), MeasureLoudness(p, a, stream),
          InspectCaptions(p, a), VerifyManifest(p)}
  BY <1>1 DEF ExecuteInspection
<1> QED BY <1>2, ScannedIsSound, ProbedIsSound, LoudnessIsSound, CaptionsAreSound,
           ManifestIsSound

-----------------------------------------------------------------------------
(* A fact that was measured decides a constraint in the catalogue's terms. *)
LEMMA MeasuredDecides ==
    ASSUME NEW r, Executable(r), Predicate(r).measured = "OK"
    PROVE  Predicate(r).outcome # "NOT_EVALUATED"
<1> DEFINE f == FactFor(r)
<1>1. Predicate(r).measured = f.status
      /\ Predicate(r).outcome = EvaluatePredicate(f, r.constraint[1])
  BY DEF Predicate
<1>2. f.key = r.key /\ Sound(f)
  <2> DEFINE matching == {g \in Result(r).facts : /\ g.key = r.key
                                                   /\ g.asset \in {0, Target(r)}}
             silent   == Fact(r.key, Target(r), <<>>)
  <2>1. f = IF matching = {} THEN silent ELSE CHOOSE g \in matching : TRUE
    BY DEF FactFor
  <2>2. \A g \in matching : g.key = r.key /\ Sound(g)
    <3>1. ProducedBy(r.key) \in InspectionTools
      BY KeysHaveTools DEF Executable
    <3> QED BY <3>1, ToolsReadSoundly DEF Result
  <2>3. silent.key = r.key /\ Sound(silent)
    BY FactsAreSound DEF Fact
  <2> HIDE DEF matching, silent, f
  <2> QED BY <2>1, <2>2, <2>3
<1> HIDE DEF f
<1>3. f.values # <<>> /\ f.unit = r.constraint[1].unit /\ f.key = r.constraint[1].key
      /\ r.constraint[1].operator \in AllowedConstraintOperators(f.key)
  BY <1>1, <1>2 DEF Sound, Executable
<1>4. EvaluatePredicate(f, r.constraint[1]) \in {"PASS", "FAIL"}
  <2> HIDE DEF f
  <2>1. f.status = "OK"
    BY <1>1
  <2> QED BY <1>2, <1>3, <2>1, Zenon DEF EvaluatePredicate
<1> QED BY <1>1, <1>4

-----------------------------------------------------------------------------
(* What the inspection of the package as it is would find. *)
Measured == [n \in DOMAIN InspectedIds |-> Predicate(ByRequirement(InspectedIds[n]))]

(* A step that leaves the package, the requirements and the plan alone leaves *)
(* what an inspection would find alone.                                       *)
Matching(r) == {f \in Result(r).facts : f.key = r.key /\ f.asset \in {0, Target(r)}}

(* One of a set of facts, always the same.                                    *)
OneOf(facts) == CHOOSE f \in facts : TRUE

(* The fact of a requirement depends on the matching facts alone, before and  *)
(* after a step.                                                              *)
LEMMA FactIsMatching ==
    ASSUME NEW r
    PROVE  /\ FactFor(r) = IF Matching(r) = {} THEN Fact(r.key, Target(r), <<>>)
                           ELSE OneOf(Matching(r))
           /\ FactFor(r)' = IF Matching(r)' = {} THEN Fact(r.key, Target(r)', <<>>)
                            ELSE OneOf(Matching(r)')
  BY Zenon DEF FactFor, Matching, OneOf

(* A requirement is judged the same as long as the package is the same.       *)
LEMMA PredicateKept ==
    ASSUME NEW r, UNCHANGED package PROVE Predicate(r)' = Predicate(r)
<1>1. Target(r)' = Target(r) /\ Result(r)' = Result(r)
  BY DEF Result, Target
<1>2. Matching(r)' = Matching(r)
  BY <1>1 DEF Matching
<1>3. FactFor(r)' = FactFor(r)
  BY <1>1, <1>2, FactIsMatching
<1> QED BY <1>1, <1>3 DEF Predicate

(* A lookup by identity depends on the requirements alone.                    *)
LEMMA LookupKept ==
    ASSUME NEW id, UNCHANGED requirements PROVE ByRequirement(id)' = ByRequirement(id)
  BY DEF ByRequirement

(* What is inspected depends on the requirements and the plan alone.          *)
LEMMA InspectedKept ==
    ASSUME UNCHANGED <<requirements, order>> PROVE InspectedIds' = InspectedIds
  BY DEF InspectedIds, OrderedIds, ByRequirement

(* So what an inspection would find changes only with the package.            *)
LEMMA MeasuredKept ==
    ASSUME UNCHANGED <<package, requirements, order>> PROVE Measured' = Measured
  BY PredicateKept, LookupKept, InspectedKept DEF Measured

-----------------------------------------------------------------------------
(* The record of an inspection: one predicate for each place of the plan with *)
(* a constraint, and alike where the identity is.                             *)
LEMMA MeasuredBears ==
    ASSUME WellAdmitted, PlanInHand, predicates = Measured
    PROVE  /\ Listed(predicates)
           /\ \A n \in DOMAIN predicates :
                 /\ predicates[n].requirement \in Identities \cap Range(OrderedIds)
                 /\ predicates[n] = Predicate(ByRequirement(predicates[n].requirement))
                 /\ predicates[n].measured = "OK" => predicates[n].outcome # "NOT_EVALUATED"
           /\ \A id \in Range(OrderedIds) :
                 ByRequirement(id).constraint # <<>> =>
                     \E n \in DOMAIN predicates : predicates[n].requirement = id
<1>1. DOMAIN predicates = DOMAIN InspectedIds /\ Listed(predicates)
  BY InspectedBear DEF Measured, Listed
<1>2. ASSUME NEW n \in DOMAIN InspectedIds
      PROVE  /\ predicates[n].requirement = InspectedIds[n]
             /\ predicates[n] = Predicate(ByRequirement(predicates[n].requirement))
             /\ predicates[n].measured = "OK" => predicates[n].outcome # "NOT_EVALUATED"
  <2> DEFINE r == ByRequirement(InspectedIds[n])
  <2>1. predicates[n] = Predicate(r)
    BY DEF Measured
  <2>2. Executable(r) /\ r.id = InspectedIds[n]
    BY InspectedInTerms
  <2> HIDE DEF r
  <2>3. Predicate(r).requirement = InspectedIds[n]
    BY <2>2 DEF Predicate
  <2>4. Predicate(r).measured = "OK" => Predicate(r).outcome # "NOT_EVALUATED"
    BY <2>2, MeasuredDecides
  <2>5. predicates[n].requirement = InspectedIds[n]
    BY <2>1, <2>3
  <2> QED BY <2>1, <2>4, <2>5 DEF r
<1>3. \A n \in DOMAIN InspectedIds :
         InspectedIds[n] \in Range(OrderedIds) /\ InspectedIds[n] \in Identities
  BY InspectedBear
<1>4. \A id \in Range(OrderedIds) :
         ByRequirement(id).constraint # <<>> =>
             \E n \in DOMAIN InspectedIds : InspectedIds[n] = id
  BY InspectedBear
<1>5. \A id \in Range(OrderedIds) :
         ByRequirement(id).constraint # <<>> =>
             \E n \in DOMAIN predicates : predicates[n].requirement = id
  BY <1>1, <1>2, <1>4
<1> QED BY <1>1, <1>2, <1>3, <1>5

(* So it makes no difference which of them is asked: the last, as compute     *)
(* does, or the first, as the views do.                                       *)
LEMMA FirstAsLast ==
    ASSUME WellAdmitted, PlanInHand, predicates = Measured, NEW id
    PROVE  /\ FinalPassed(id) <=>
                 \E n \in DOMAIN predicates :
                     predicates[n].requirement = id /\ predicates[n].outcome = "PASS"
           /\ Latest(id) = "PASS" <=> FinalPassed(id)
           /\ FinalPassed(id) =>
                 /\ id \in Identities \cap Range(OrderedIds)
                 /\ Predicate(ByRequirement(id)).outcome = "PASS"
           /\ \A n \in DOMAIN predicates :
                 predicates[n].requirement = id /\ predicates[n].outcome # "PASS"
                    => ~FinalPassed(id)
<1> DEFINE of == {n \in DOMAIN predicates : predicates[n].requirement = id}
<1>1. \A n \in DOMAIN predicates :
         /\ predicates[n].requirement \in Identities \cap Range(OrderedIds)
         /\ predicates[n] = Predicate(ByRequirement(predicates[n].requirement))
  BY MeasuredBears
<1>2. of \subseteq Int /\ IsFiniteSet(of)
  BY MeasuredBears, ListedFinite
<1>3. of # {} => Max(of) \in of /\ Min(of) \in of
  <2> HIDE DEF of
  <2> QED BY <1>2, Extremes
<1>4. \A n \in of : predicates[n].outcome = Predicate(ByRequirement(id)).outcome
  <2>1. \A n \in of : predicates[n] = Predicate(ByRequirement(id))
    <3> SUFFICES ASSUME NEW n \in of PROVE predicates[n] = Predicate(ByRequirement(id))
      OBVIOUS
    <3>1. predicates[n].requirement = id
      OBVIOUS
    <3> QED BY <1>1, <3>1
  <2> QED BY <2>1
<1>5. FinalPassed(id) <=> of # {} /\ predicates[Min(of)].outcome = "PASS"
  BY DEF FinalPassed
<1>6. Latest(id) = IF of = {} THEN "NOT_EVALUATED" ELSE predicates[Max(of)].outcome
  BY DEF Latest
<1>7. of # {} => id \in Identities \cap Range(OrderedIds)
  BY <1>1
<1>8. \A n \in DOMAIN predicates : n \in of <=> predicates[n].requirement = id
  OBVIOUS
<1>9. of \subseteq DOMAIN predicates
  OBVIOUS
<1> HIDE DEF of
<1> QED BY <1>3, <1>4, <1>5, <1>6, <1>7, <1>8, <1>9

-----------------------------------------------------------------------------
(* The inductive invariant of a run from its plan to its verdict.             *)

(* The plan: none before it is adopted, then an order that takes each         *)
(* required check once.                                                       *)
BeforePlan == stage \in {"INTERPRETING", "REQUIREMENTS_ADMITTED"}

PlanningStands ==
    /\ stage = "INTERPRETING" => package \in Packages /\ checks = <<>>
    /\ ChecksStand
    /\ BeforePlan => order = <<>> /\ predicates = <<>>
    /\ ~BeforePlan => PlanStands

(* The record: what the last inspection found is what one would find now,     *)
(* unless a remedy is under way or waits for its inspection.                  *)
Current == stage \in {"FINDINGS_READY", "AWAITING_HUMAN_DECISION", "DELIVERY_READY", "BLOCKED"}

RecordStands == Current => predicates = Measured

(* The findings: each of a requirement that did not pass, and those of one    *)
(* identity alike.                                                            *)
FindingsStand ==
    stage \in {"FINDINGS_READY", "AWAITING_HUMAN_DECISION"} =>
       /\ Listed(findings)
       /\ \A k \in DOMAIN findings :
             \E n \in DOMAIN predicates :
                /\ predicates[n].requirement = findings[k].requirement
                /\ predicates[n].outcome # "PASS"
       /\ \A k, l \in DOMAIN findings :
             findings[k].requirement = findings[l].requirement => findings[k] = findings[l]

(* The question: it is about a finding whose remedy needs an approval. *)
RequestStands ==
    stage = "AWAITING_HUMAN_DECISION" =>
       \E k \in DOMAIN findings :
          /\ request = <<findings[k].requirement>>
          /\ findings[k].options # <<>> /\ Tier(findings[k].options[1][1]) = 2

(* The verdict: given once, from the record; blocked without one is a denial, *)
(* with something that did not pass.                                          *)
VerdictStands ==
    /\ stage = "DELIVERY_READY" => verdict # <<>>
    /\ verdict # <<>> =>
          /\ stage \in {"DELIVERY_READY", "BLOCKED"}
          /\ stage = "DELIVERY_READY" <=> Unresolved \cup NotPassed = {}
    /\ stage = "BLOCKED" /\ verdict = <<>> =>
          \E n \in DOMAIN predicates : predicates[n].outcome # "PASS"

(* All parts together.                                                        *)
RunStands ==
    /\ PlanningStands /\ MeasuredIsDecided /\ RecordStands
    /\ FindingsStand /\ RequestStands /\ VerdictStands

-----------------------------------------------------------------------------
(* What the invariant says of each property. *)
LEMMA CurrentIsPlanned ==
    ASSUME RunStands, Current PROVE PlanInHand /\ PlanStands /\ ChecksStand /\ predicates = Measured
<1>1. ~BeforePlan
  BY DEF Current, BeforePlan
<1> QED BY <1>1 DEF RunStands, PlanningStands, RecordStands, PlanInHand

(* PlanCovers follows: the plan stands once there is one.                     *)
LEMMA StandsCovers == WellAdmitted /\ RunStands => PlanCovers
<1> SUFFICES ASSUME WellAdmitted, RunStands, ~BeforePlan PROVE PlanCovers
  BY DEF PlanCovers, BeforePlan
<1>1. ChecksStand /\ PlanStands
  BY DEF RunStands, PlanningStands
<1> QED BY <1>1, PlanStandsCovers DEF PlanCovers, Identities

(* A requirement is judged to have passed exactly when it applies, is planned *)
(* and passes on the package as it is.                                        *)
LEMMA JudgedAsMeasured ==
    ASSUME WellAdmitted, RunStands, Current, NEW i \in DOMAIN requirements
    PROVE  /\ requirements[i].status = "EXECUTABLE"
           /\ requirements[i].applicability # "UNRESOLVED"
           /\ Latest(requirements[i].id) = "PASS"
           <=> /\ Demanded(requirements[i])
               /\ requirements[i].id \in Range(OrderedIds)
               /\ Predicate(ByRequirement(requirements[i].id)).outcome = "PASS"
<1> DEFINE r == requirements[i]
<1>1. WellAdmitted /\ PlanInHand /\ predicates = Measured
  BY CurrentIsPlanned
<1>2. Demanded(r) <=> r.status = "EXECUTABLE" /\ r.applicability # "UNRESOLVED"
  BY DEF Demanded, WellAdmitted
<1>3. Latest(r.id) = "PASS" =>
         r.id \in Range(OrderedIds) /\ Predicate(ByRequirement(r.id)).outcome = "PASS"
  BY <1>1, FirstAsLast
<1>4. ASSUME Demanded(r), r.id \in Range(OrderedIds),
             Predicate(ByRequirement(r.id)).outcome = "PASS"
      PROVE  Latest(r.id) = "PASS"
  <2> DEFINE id == r.id
  <2>1. id \in Identities
    BY DEF Identities
  <2> HIDE DEF id
  <2>2. PICK k \in DOMAIN requirements :
            ByRequirement(id) = requirements[k] /\ requirements[k].id = id
    BY <2>1, Bears
  <2>3. r.constraint # <<>>
    BY <1>4 DEF Demanded, WellAdmitted
  <2>4. ByRequirement(id).constraint # <<>>
    BY <2>2, <2>3 DEF WellAdmitted, id
  <2>5. PICK n \in DOMAIN predicates : predicates[n].requirement = id
    BY <1>1, <1>4, <2>4, MeasuredBears DEF id
  <2>6. predicates[n] = Predicate(ByRequirement(id))
    BY <1>1, <2>5, MeasuredBears
  <2>7. predicates[n].outcome = "PASS"
    BY <1>4, <2>6 DEF id
  <2>8. Latest(id) = "PASS"
    BY <1>1, <2>5, <2>7, FirstAsLast
  <2> QED BY <2>8 DEF id
<1> QED BY <1>2, <1>3, <1>4

(* VerdictIsTrue follows: the verdict is given from the record, and the       *)
(* record is what the package shows.                                          *)
LEMMA StandsIsTrue == WellAdmitted /\ RunStands => VerdictIsTrue
<1> SUFFICES ASSUME WellAdmitted, RunStands, verdict # <<>>
             PROVE  stage = "DELIVERY_READY" <=>
                       \A i \in Blocking :
                          /\ Demanded(requirements[i])
                          /\ requirements[i].id \in Range(OrderedIds)
                          /\ Predicate(ByRequirement(requirements[i].id)).outcome = "PASS"
  BY DEF VerdictIsTrue
<1>1. Current /\ (stage = "DELIVERY_READY" <=> Unresolved \cup NotPassed = {})
  BY DEF RunStands, VerdictStands, Current
<1>2. Unresolved \cup NotPassed = {} <=>
         \A i \in Blocking : /\ requirements[i].status = "EXECUTABLE"
                             /\ requirements[i].applicability # "UNRESOLVED"
                             /\ Latest(requirements[i].id) = "PASS"
  BY DEF Unresolved, NotPassed
<1>3. \A i \in Blocking : i \in DOMAIN requirements
  BY DEF Blocking
<1> QED BY <1>1, <1>2, <1>3, JudgedAsMeasured

-----------------------------------------------------------------------------
(* What a row of the views can read. *)
LEMMA RowsRead ==
    ASSUME NEW i
    PROVE  LET id     == requirements[i].id
               row    == RequirementStatus(i)
               asked  == stage = "AWAITING_HUMAN_DECISION" /\ HasPendingDecision(id)
           IN  /\ row \in {"PASS", "FIXED"} => FinalPassed(id)
               /\ FinalPassed(id) /\ ~asked => row \in {"PASS", "FIXED"}
               /\ row = "DECISION REQUIRED" => asked
               /\ asked /\ ~FinalPassed(id) => row = "DECISION REQUIRED"
<1> DEFINE id     == requirements[i].id
           row    == RequirementStatus(i)
           asked  == stage = "AWAITING_HUMAN_DECISION" /\ HasPendingDecision(id)
           passed == FinalPassed(id)
           fixed  == id \in resolved
<1>1. row = CASE asked -> "DECISION REQUIRED"
              [] passed /\ fixed  -> "FIXED"
              [] passed /\ ~fixed -> "PASS"
              [] OTHER -> "FAIL"
  BY Zenon DEF RequirementStatus
<1> HIDE DEF row, asked, passed, fixed
<1>2. ~passed => row \in {"DECISION REQUIRED", "FAIL"}
  BY <1>1
<1>3. passed /\ ~asked => row \in {"PASS", "FIXED"}
  <2>1. fixed /\ passed /\ ~asked => row \in {"PASS", "FIXED"}
    BY <1>1
  <2>2. ~fixed /\ passed /\ ~asked => row \in {"PASS", "FIXED"}
    BY <1>1
  <2> QED BY <2>1, <2>2
<1>4. ~asked => row \in {"PASS", "FIXED", "FAIL"}
  BY <1>1
<1>5. asked /\ ~passed => row = "DECISION REQUIRED"
  BY <1>1
<1>6. /\ row \in {"PASS", "FIXED"} => passed
      /\ row = "DECISION REQUIRED" => asked
  BY <1>2, <1>4
<1> QED BY <1>3, <1>5, <1>6 DEF row, asked, passed

(* What the heading of the views can read, stage by stage (_display_status).  *)
LEMMA DisplayReads ==
    /\ DisplayStatus = "DELIVERY READY" => stage = "DELIVERY_READY" /\ verdict # <<>>
    /\ DisplayStatus = "DECISION REQUIRED" => stage = "AWAITING_HUMAN_DECISION"
    /\ DisplayStatus = "BLOCKED" => stage = "BLOCKED"
<1> DEFINE ready  == verdict # <<>> /\ stage = "DELIVERY_READY"
           asked  == stage = "AWAITING_HUMAN_DECISION"
           closed == stage = "BLOCKED"
           bare   == verdict = <<>> /\ stage = "DELIVERY_READY"
           status == DisplayStatus
<1>1. status = CASE ready -> "DELIVERY READY" [] asked -> "DECISION REQUIRED"
                 [] closed -> "BLOCKED" [] bare -> "UNVERIFIED" [] OTHER -> "INSPECTING"
  BY Zenon DEF DisplayStatus
<1> HIDE DEF ready, asked, closed, bare, status
<1>2. /\ ~ready  => status # "DELIVERY READY"
      /\ ~asked  => status # "DECISION REQUIRED"
      /\ ~closed => status # "BLOCKED"
  <2>1. ~ready => status # "DELIVERY READY"
    BY <1>1
  <2>2. ~asked => status # "DECISION REQUIRED"
    BY <1>1
  <2>3. ~closed => status # "BLOCKED"
    BY <1>1
  <2> QED BY <2>1, <2>2, <2>3
<1> QED BY <1>2 DEF ready, asked, closed, status

(* A run is in exactly one of the three counts of the front page.             *)
LEMMA CountedOnce ==
    ASSUME VerdictStands PROVE Cardinality(CountedAs) = 1
<1> DEFINE counted(n) == CASE n = "active"  -> stage \notin {"DELIVERY_READY", "BLOCKED"}
                           [] n = "ready"   -> stage = "DELIVERY_READY" /\ verdict # <<>>
                           [] n = "blocked" -> stage = "BLOCKED"
<1>1. CountedAs = {n \in {"active", "ready", "blocked"} : counted(n)}
  BY Zenon DEF CountedAs
<1>2. /\ counted("active") <=> stage \notin {"DELIVERY_READY", "BLOCKED"}
      /\ counted("ready") <=> stage = "DELIVERY_READY" /\ verdict # <<>>
      /\ counted("blocked") <=> stage = "BLOCKED"
  OBVIOUS
<1> HIDE DEF counted
<1>3. stage = "DELIVERY_READY" => verdict # <<>>
  BY DEF VerdictStands
<1>4. CountedAs \in {{"active"}, {"ready"}, {"blocked"}}
  <2>1. CASE stage = "DELIVERY_READY"
    BY <1>1, <1>2, <1>3, <2>1
  <2>2. CASE stage = "BLOCKED"
    BY <1>1, <1>2, <2>2
  <2>3. CASE stage \notin {"DELIVERY_READY", "BLOCKED"}
    BY <1>1, <1>2, <2>3
  <2> QED BY <2>1, <2>2, <2>3
<1> QED BY <1>4, FS_Singleton

(* ShownAsJudged follows: the views ask the first predicate of an identity,   *)
(* the verdict the last, and they are alike.                                  *)
LEMMA StandsIsShown == WellAdmitted /\ RunStands => ShownAsJudged
<1> SUFFICES ASSUME WellAdmitted, RunStands PROVE ShownAsJudged
  OBVIOUS
<1>1. ASSUME DisplayStatus = "DELIVERY READY", NEW i \in Blocking
      PROVE  RequirementStatus(i) \in {"PASS", "FIXED"}
  <2>1. stage = "DELIVERY_READY" /\ verdict # <<>> /\ Current /\ i \in DOMAIN requirements
    BY <1>1, DisplayReads DEF Current, Blocking
  <2>2. WellAdmitted /\ PlanInHand /\ predicates = Measured
    BY <2>1, CurrentIsPlanned
  <2>3. Latest(requirements[i].id) = "PASS"
    <3>1. Unresolved \cup NotPassed = {}
      BY <2>1 DEF RunStands, VerdictStands
    <3> QED BY <3>1 DEF NotPassed
  <2>4. FinalPassed(requirements[i].id)
    BY <2>2, <2>3, FirstAsLast
  <2> QED BY <2>1, <2>4, RowsRead
<1>2. ASSUME DisplayStatus = "BLOCKED", order # <<>>
      PROVE  UnresolvedBlockers \cup Shadowed # {}
  <2>1. stage = "BLOCKED" /\ Current
    BY <1>2, DisplayReads DEF Current
  <2>2. WellAdmitted /\ PlanInHand /\ PlanStands /\ ChecksStand /\ predicates = Measured
    BY <2>1, CurrentIsPlanned
  <2>3. CASE verdict = <<>>
    <3>1. PICK n \in DOMAIN predicates : predicates[n].outcome # "PASS"
      BY <2>1, <2>3 DEF RunStands, VerdictStands
    <3>2. predicates[n].requirement \in Identities
      BY <2>2, MeasuredBears
    <3>3. PICK i \in DOMAIN requirements : requirements[i].id = predicates[n].requirement
      BY <3>2 DEF Identities
    <3>4. ~FinalPassed(requirements[i].id)
      BY <2>2, <3>1, <3>3, FirstAsLast
    <3> QED BY <3>3, <3>4 DEF UnresolvedBlockers
  <2>4. CASE verdict # <<>>
    <3>1. PICK i \in Unresolved \cup NotPassed : TRUE
      BY <2>1, <2>4 DEF RunStands, VerdictStands
    <3>2. i \in DOMAIN requirements
      BY DEF Unresolved, NotPassed, Blocking
    <3>3. CASE ~FinalPassed(requirements[i].id)
      BY <3>2, <3>3 DEF UnresolvedBlockers
    <3>4. CASE FinalPassed(requirements[i].id)
      <4>1. Latest(requirements[i].id) = "PASS"
            /\ requirements[i].id \in Range(OrderedIds)
        BY <2>2, <3>4, FirstAsLast
      <4>2. i \in Unresolved
        BY <4>1 DEF NotPassed
      <4>3. PICK n \in DOMAIN order : order[n] = requirements[i].id
        BY <1>2, <4>1 DEF OrderedIds, Range
      <4>4. \E j \in DOMAIN requirements :
               requirements[j].id = requirements[i].id /\ Demanded(requirements[j])
        BY <2>2, <4>3, PlanStandsCovers
      <4> QED BY <4>2, <4>4 DEF Shadowed
    <3> QED BY <3>3, <3>4
  <2> QED BY <2>3, <2>4
<1>3. Cardinality(CountedAs) = 1
  BY CountedOnce DEF RunStands
<1>4. ASSUME stage \in {"DELIVERY_READY", "BLOCKED"}, NEW i \in DOMAIN requirements,
             RequirementStatus(i) \in {"PASS", "FIXED"}
      PROVE  /\ requirements[i].id \in Range(OrderedIds)
             /\ Predicate(ByRequirement(requirements[i].id)).outcome = "PASS"
  <2>1. WellAdmitted /\ PlanInHand /\ predicates = Measured
    BY <1>4, CurrentIsPlanned DEF Current
  <2>2. FinalPassed(requirements[i].id)
    BY <1>4, RowsRead
  <2> QED BY <2>1, <2>2, FirstAsLast
<1> QED BY <1>1, <1>2, <1>3, <1>4 DEF ShownAsJudged

(* DecisionShown follows: the finding of the question is of a requirement     *)
(* that did not pass.                                                         *)
LEMMA StandsIsAsked == WellAdmitted /\ RunStands => DecisionShown
<1> SUFFICES ASSUME WellAdmitted, RunStands, DisplayStatus = "DECISION REQUIRED"
             PROVE  /\ \E i \in DOMAIN requirements : RequirementStatus(i) = "DECISION REQUIRED"
                    /\ \A i, j \in DOMAIN requirements :
                          RequirementStatus(i) = "DECISION REQUIRED"
                          /\ RequirementStatus(j) = "DECISION REQUIRED"
                             => requirements[i].id = requirements[j].id
                    /\ \A i \in DOMAIN requirements :
                          RequirementStatus(i) = "DECISION REQUIRED"
                             => ~FinalPassed(requirements[i].id)
                    /\ DecisionView # <<>> /\ DecisionView[2] = 2
  BY DEF DecisionShown
<1>1. stage = "AWAITING_HUMAN_DECISION" /\ Current
  BY DisplayReads DEF Current
<1>2. WellAdmitted /\ PlanInHand /\ predicates = Measured
  BY <1>1, CurrentIsPlanned
<1>3. PICK k \in DOMAIN findings :
          /\ request = <<findings[k].requirement>>
          /\ findings[k].options # <<>> /\ Tier(findings[k].options[1][1]) = 2
  BY <1>1 DEF RunStands, RequestStands
<1> DEFINE id == findings[k].requirement
           of == {n \in DOMAIN findings : findings[n].requirement = id}
<1>4. /\ Listed(findings)
      /\ \E n \in DOMAIN predicates :
            predicates[n].requirement = id /\ predicates[n].outcome # "PASS"
      /\ \A n \in of : findings[n] = findings[k]
  BY <1>1 DEF RunStands, FindingsStand
<1>5. ~FinalPassed(id) /\ id \in Identities
  <2> HIDE DEF id
  <2>1. PICK n \in DOMAIN predicates :
            predicates[n].requirement = id /\ predicates[n].outcome # "PASS"
    BY <1>4
  <2>2. ~FinalPassed(id)
    BY <1>2, <2>1, FirstAsLast
  <2> QED BY <1>2, <2>1, <2>2, MeasuredBears
<1>6. \A i \in DOMAIN requirements :
         RequirementStatus(i) = "DECISION REQUIRED" => requirements[i].id = id
  <2>1. \A j : HasPendingDecision(j) => j = id
    BY <1>3 DEF HasPendingDecision
  <2> QED BY <2>1, RowsRead
<1>7. \E i \in DOMAIN requirements : RequirementStatus(i) = "DECISION REQUIRED"
  <2>1. PICK i \in DOMAIN requirements : requirements[i].id = id
    BY <1>5 DEF Identities
  <2>2. HasPendingDecision(id)
    BY <1>3 DEF HasPendingDecision, OpenIds
  <2> QED BY <1>1, <1>5, <2>1, <2>2, RowsRead
<1>8. DecisionView = <<findings[k].options[1][1], Tier(findings[k].options[1][1])>>
  <2>1. of \subseteq Int /\ IsFiniteSet(of) /\ k \in of
    BY <1>4, ListedFinite
  <2>2. Min(of) \in of
    <3> HIDE DEF of
    <3> QED BY <2>1, Extremes
  <2>3. findings[Min(of)] = findings[k] /\ of # {}
    <3> HIDE DEF of
    <3> QED BY <1>4, <2>1, <2>2
  <2>4. of = {n \in DOMAIN findings : findings[n].requirement = request[1]}
    BY <1>3
  <2>5. DecisionView = IF of = {} \/ findings[Min(of)].options = <<>> THEN <<>>
                       ELSE <<findings[Min(of)].options[1][1],
                              Tier(findings[Min(of)].options[1][1])>>
    <3> HIDE DEF of
    <3> QED BY <2>4 DEF DecisionView
  <2> HIDE DEF of
  <2> QED BY <1>3, <2>3, <2>5
<1>9. DecisionView # <<>> /\ DecisionView[2] = 2
  BY <1>3, <1>8
<1> QED BY <1>5, <1>6, <1>7, <1>9

-----------------------------------------------------------------------------
(* Steps. First, what changes nothing but bookkeeping. *)
LEMMA VerdictKept ==
    ASSUME UNCHANGED <<requirements, predicates>>
    PROVE  Unresolved' = Unresolved /\ NotPassed' = NotPassed
<1>1. \A id : Latest(id)' = Latest(id)
  BY DEF Latest
<1>2. Blocking' = Blocking
  BY DEF Blocking
<1>3. Unresolved' = Unresolved
  BY <1>2 DEF Unresolved
<1> QED BY <1>1, <1>2, <1>3 DEF NotPassed

(* A plan stands as long as it and the requirements stay.                     *)
LEMMA PlanKept ==
    ASSUME RunStands, UNCHANGED <<requirements, checks, order>>
    PROVE  ChecksStand' /\ (PlanStands => PlanStands')
<1>1. ChecksStand
  BY DEF RunStands, PlanningStands
<1>2. ChecksStand'
  BY <1>1 DEF ChecksStand
<1>3. PlanStands => PlanStands'
  BY DEF PlanStands
<1> QED BY <1>2, <1>3

(* A step that only counts attempts, refusals or starts disturbs nothing.     *)
LEMMA StandsStill ==
    ASSUME RunStands,
           UNCHANGED <<stage, package, requirements, checks, order, predicates, findings,
                       verdict, request>>
    PROVE  RunStands'
<1>1. PlanningStands'
  BY PlanKept DEF RunStands, PlanningStands, BeforePlan
<1>2. MeasuredIsDecided'
  BY DEF RunStands, MeasuredIsDecided
<1>3. RecordStands'
  BY MeasuredKept DEF RunStands, RecordStands, Current
<1>4. FindingsStand'
  <2>1. FindingsStand
    BY DEF RunStands
  <2> QED BY <2>1 DEF FindingsStand, Listed
<1>5. RequestStands'
  BY DEF RunStands, RequestStands
<1>6. VerdictStands'
  BY VerdictKept DEF RunStands, VerdictStands
<1> QED BY <1>1, <1>2, <1>3, <1>4, <1>5, <1>6 DEF RunStands

(* A remedy, or one that cannot be carried out: the record waits. *)
LEMMA StandsRemedied ==
    ASSUME RunStands, stage \in {"FINDINGS_READY", "AWAITING_HUMAN_DECISION"},
           stage' \in {"REMEDIATING", "INSPECTING"},
           UNCHANGED <<requirements, checks, order, predicates, verdict>>
    PROVE  RunStands'
<1>1. PlanningStands'
  BY PlanKept DEF RunStands, PlanningStands, BeforePlan
<1>2. MeasuredIsDecided'
  BY DEF RunStands, MeasuredIsDecided
<1>3. RecordStands' /\ FindingsStand' /\ RequestStands'
  BY DEF RecordStands, Current, FindingsStand, RequestStands
<1>4. VerdictStands'
  BY DEF RunStands, VerdictStands
<1> QED BY <1>1, <1>2, <1>3, <1>4 DEF RunStands

(* A verdict is computed from the record as it is (compute).                  *)
LEMMA StandsJudged ==
    ASSUME RunStands, stage = "FINDINGS_READY", Judged,
           UNCHANGED <<package, requirements, checks, order, predicates>>
    PROVE  RunStands'
<1>1. stage' \in {"DELIVERY_READY", "BLOCKED"} /\ verdict' # <<>>
      /\ (stage' = "DELIVERY_READY" <=> Unresolved \cup NotPassed = {})
  BY DEF Judged
<1>2. PlanningStands'
  BY <1>1, PlanKept DEF RunStands, PlanningStands, BeforePlan
<1>3. MeasuredIsDecided'
  BY DEF RunStands, MeasuredIsDecided
<1>4. RecordStands'
  BY <1>1, MeasuredKept DEF RunStands, RecordStands, Current
<1>5. FindingsStand' /\ RequestStands'
  BY <1>1 DEF FindingsStand, RequestStands
<1>6. VerdictStands'
  BY <1>1, VerdictKept DEF VerdictStands
<1> QED BY <1>2, <1>3, <1>4, <1>5, <1>6 DEF RunStands

-----------------------------------------------------------------------------
(* Admission: the checks of what was admitted. *)
LEMMA StandsAdmitted ==
    ASSUME RunStands, IntakeAssumption, InterpretationAdmitted, UNCHANGED remedyVars
    PROVE  RunStands'
<1>1. PICK b \in Batches :
          LET admitted == MarkContradictions(Admitted(b))
          IN  /\ stage = "INTERPRETING"
              /\ requirements' = admitted
              /\ raised' = DerivationFails(admitted, package)
              /\ IF raised' THEN UNCHANGED <<stage, attempts, checks>>
                 ELSE /\ stage' = "REQUIREMENTS_ADMITTED" /\ attempts' = 0
                      /\ checks' = DeriveRequiredChecks(admitted, package)
              /\ UNCHANGED <<package, order, predicates, findings, verdict>>
  BY DEF InterpretationAdmitted, Admitted
<1> DEFINE rs == MarkContradictions(Admitted(b))
<1>2. /\ stage = "INTERPRETING" /\ stage' = "REQUIREMENTS_ADMITTED" /\ requirements' = rs
      /\ checks' = DeriveRequiredChecks(rs, package)
      /\ UNCHANGED <<package, order, predicates, findings, verdict>>
  BY <1>1, DerivationSucceeds
<1>3. Listed(rs)
  <2>1. DOMAIN rs = DOMAIN b
    <3>1. DOMAIN Admitted(b) = DOMAIN b
      BY DEF Admitted
    <3>2. DOMAIN rs = DOMAIN Admitted(b)
      BY DEF MarkContradictions
    <3> QED BY <3>1, <3>2
  <2>2. b \in Seq(Range(b))
    BY DEF IntakeAssumption
  <2>3. DOMAIN b = 1 .. Len(b) /\ Len(b) \in Nat
    BY <2>2
  <2> QED BY <2>1, <2>3 DEF Listed
<1>4. Listed(package)
  <2>1. package \in Packages
    BY <1>2 DEF RunStands, PlanningStands
  <2>2. package \in Seq(Range(package))
    BY <2>1 DEF IntakeAssumption
  <2> QED BY <2>2 DEF Listed
<1> HIDE DEF rs
<1>5. ChecksStand'
  <2>1. /\ Listed(checks')
        /\ \A n \in DOMAIN checks' :
              \E i \in DOMAIN rs, a \in Nat :
                  Demanded(rs[i]) /\ checks'[n] = RequiredCheck(rs[i], a)
    BY <1>2, <1>3, <1>4, DerivedStand
  <2> QED BY <1>2, <2>1 DEF ChecksStand
<1>6. /\ order' = <<>> /\ predicates' = <<>> /\ verdict' = <<>>
  BY <1>2 DEF RunStands, PlanningStands, BeforePlan, VerdictStands
<1>7. PlanningStands'
  BY <1>2, <1>5, <1>6 DEF PlanningStands, BeforePlan
<1>8. MeasuredIsDecided' /\ RecordStands' /\ FindingsStand' /\ RequestStands'
  BY <1>2, <1>6 DEF MeasuredIsDecided, RecordStands, Current, FindingsStand, RequestStands
<1>9. VerdictStands'
  BY <1>2, <1>6 DEF VerdictStands
<1> QED BY <1>7, <1>8, <1>9 DEF RunStands

(* A plan, of the model or of the runtime. *)
LEMMA StandsPlanned ==
    ASSUME WellAdmitted, RunStands, PlanProposed \/ PlanFallback, UNCHANGED remedyVars
    PROVE  RunStands'
<1>1. ChecksStand /\ stage = "REQUIREMENTS_ADMITTED"
  BY DEF RunStands, PlanningStands, PlanProposed, PlanFallback
<1>2. \E ids : /\ PlanAdopted(ids) /\ Listed(ids)
               /\ \E match \in Bijection(Planned(ids), DOMAIN checks) :
                     \A n \in Planned(ids) : ids[n] = checks[match[n]].id
  <2>1. CASE PlanProposed
    <3>1. PICK p \in Proposals : PlanAccepted(p, checks, package) /\ PlanAdopted(p.order)
      BY <2>1 DEF PlanProposed
    <3>2. Listed(p.order) /\ Listed(p.extras)
      BY <1>1, ProposalsListed
    <3>3. \E match \in Bijection(Planned(p.order), DOMAIN checks) :
             \A n \in Planned(p.order) : p.order[n] = checks[match[n]].id
      BY <1>1, <3>1, <3>2, AcceptedMatches, Zenon
    <3> QED BY <3>1, <3>2, <3>3, Zenon
  <2>2. CASE PlanFallback
    <3>1. PlanAdopted(FallbackOrder(checks))
      BY <2>2 DEF PlanFallback
    <3> QED BY <1>1, <3>1, FallbackMatches, Zenon
  <2> QED BY <2>1, <2>2
<1>3. PICK ids : /\ PlanAdopted(ids) /\ Listed(ids)
                 /\ \E match \in Bijection(Planned(ids), DOMAIN checks) :
                       \A n \in Planned(ids) : ids[n] = checks[match[n]].id
  BY <1>2, Zenon
<1>4. PlanStands'
  BY <1>1, <1>3, AdoptedStands, Zenon
<1>5. stage' = "QC_PLANNED" /\ UNCHANGED <<requirements, checks, predicates, verdict>>
  BY <1>3 DEF PlanAdopted
<1>6. ChecksStand'
  BY <1>1, <1>5 DEF ChecksStand
<1>7. PlanningStands' /\ MeasuredIsDecided' /\ RecordStands' /\ FindingsStand' /\ RequestStands'
  BY <1>4, <1>5, <1>6 DEF PlanningStands, BeforePlan, RunStands, MeasuredIsDecided,
     RecordStands, Current, FindingsStand, RequestStands
<1>8. VerdictStands'
  BY <1>1, <1>5 DEF RunStands, VerdictStands
<1> QED BY <1>7, <1>8 DEF RunStands

-----------------------------------------------------------------------------
(* Inspection: a new record, and findings for what did not pass. *)
LEMMA MeasuredInTerms ==
    ASSUME WellAdmitted, PlanInHand, NEW n \in DOMAIN Measured
    PROVE  /\ Measured[n].requirement = InspectedIds[n]
           /\ ByRequirement(Measured[n].requirement).id = Measured[n].requirement
           /\ Measured[n].measured = "OK" => Measured[n].outcome # "NOT_EVALUATED"
<1> DEFINE r == ByRequirement(InspectedIds[n])
<1>1. n \in DOMAIN InspectedIds /\ Measured[n] = Predicate(r)
  BY DEF Measured
<1>2. Executable(r) /\ r.id = InspectedIds[n]
  BY <1>1, InspectedInTerms
<1>3. Predicate(r).requirement = r.id
  BY DEF Predicate
<1>4. Predicate(r).measured = "OK" => Predicate(r).outcome # "NOT_EVALUATED"
  <2> HIDE DEF r
  <2> QED BY <1>2, MeasuredDecides
<1>5. Measured[n].requirement = InspectedIds[n]
  BY <1>1, <1>2, <1>3
<1> QED BY <1>1, <1>2, <1>4, <1>5

(* The findings of the record, as _inspect builds them.                       *)
FindingsOf(withheld) ==
    LET failed == Kept(Measured, {i \in DOMAIN Measured : Measured[i].outcome # "PASS"})
    IN  [i \in DOMAIN failed |-> Finding(ByRequirement(failed[i].requirement), withheld)]

(* They are of what did not pass, and alike where the identity is.            *)
LEMMA FindingsFollow ==
    ASSUME WellAdmitted, PlanInHand, NEW withheld
    PROVE  LET found == FindingsOf(withheld) IN
           /\ Listed(found)
           /\ \A k \in DOMAIN found :
                 \E n \in DOMAIN Measured :
                    /\ Measured[n].requirement = found[k].requirement
                    /\ Measured[n].outcome # "PASS"
           /\ \A k, l \in DOMAIN found :
                 found[k].requirement = found[l].requirement => found[k] = found[l]
<1> DEFINE I      == {i \in DOMAIN Measured : Measured[i].outcome # "PASS"}
           failed == Kept(Measured, I)
           found  == FindingsOf(withheld)
<1>0. found = [i \in DOMAIN failed |->
                  Finding(ByRequirement(failed[i].requirement), withheld)]
  BY DEF FindingsOf
<1> HIDE DEF found
<1>1. I \subseteq Int /\ IsFiniteSet(I)
  <2>1. Listed(Measured)
    BY InspectedBear DEF Measured, Listed
  <2> QED BY <2>1, ListedFinite
<1>2. /\ DOMAIN failed = 1 .. Cardinality(I) /\ Cardinality(I) \in Nat
      /\ Range(failed) = {Measured[i] : i \in I}
  <2> HIDE DEF I
  <2> QED BY <1>1, KeptFrom
<1> HIDE DEF failed
<1>3. \A f : Finding(f, withheld).requirement = f.id
  BY DEF Finding
<1>4. ASSUME NEW k \in DOMAIN failed
      PROVE  /\ \E n \in DOMAIN Measured : Measured[n] = failed[k]
                                           /\ Measured[n].outcome # "PASS"
             /\ found[k].requirement = failed[k].requirement
             /\ found[k] = Finding(ByRequirement(found[k].requirement), withheld)
  <2>1. PICK n \in I : Measured[n] = failed[k]
    <3>1. failed[k] \in Range(failed)
      BY DEF Range
    <3> HIDE DEF I
    <3> QED BY <1>2, <3>1
  <2>2. ByRequirement(failed[k].requirement).id = failed[k].requirement
    BY <2>1, MeasuredInTerms
  <2>3. found[k] = Finding(ByRequirement(failed[k].requirement), withheld)
    BY <1>0
  <2>4. found[k].requirement = failed[k].requirement
    BY <1>3, <2>2, <2>3
  <2> QED BY <2>1, <2>3, <2>4
<1>5. DOMAIN found = DOMAIN failed
  BY <1>0
<1>6. Listed(found)
  BY <1>2, <1>5 DEF Listed
<1> HIDE DEF I
<1>7. \A k \in DOMAIN found :
         \E n \in DOMAIN Measured :
            /\ Measured[n].requirement = found[k].requirement
            /\ Measured[n].outcome # "PASS"
  BY <1>4, <1>5
<1>8. \A k, l \in DOMAIN found :
         found[k].requirement = found[l].requirement => found[k] = found[l]
  BY <1>4, <1>5
<1> QED BY <1>6, <1>7, <1>8 DEF found

LEMMA StandsInspected ==
    ASSUME WellAdmitted, RunStands, NEW withheld, Inspection(withheld),
           stage \in {"QC_PLANNED", "INSPECTING"}
    PROVE  RunStands'
<1>1. PlanStands /\ ChecksStand /\ PlanInHand /\ verdict = <<>>
  BY DEF RunStands, PlanningStands, BeforePlan, PlanInHand, VerdictStands
<1>2. UNCHANGED <<package, requirements, checks, order, verdict>>
  BY DEF Inspection
<1>3. PlanStands' /\ ChecksStand' /\ Measured' = Measured
  BY <1>1, <1>2, PlanKept, MeasuredKept
<1>4. CASE raised'
  <2>1. stage' = "INSPECTING" /\ UNCHANGED <<predicates, findings>>
    BY <1>4 DEF Inspection
  <2>2. MeasuredIsDecided'
    BY <2>1 DEF RunStands, MeasuredIsDecided
  <2>3. PlanningStands' /\ RecordStands' /\ FindingsStand' /\ RequestStands'
    BY <1>3, <2>1 DEF PlanningStands, BeforePlan, RecordStands, Current, FindingsStand,
       RequestStands
  <2>4. VerdictStands'
    BY <1>1, <1>2, <2>1 DEF VerdictStands
  <2> QED BY <2>2, <2>3, <2>4 DEF RunStands
<1>5. CASE ~raised'
  <2>1. /\ stage' = "FINDINGS_READY" /\ predicates' = Measured
        /\ findings' = FindingsOf(withheld)
    BY <1>5 DEF Inspection, Measured, FindingsOf
  <2>2. MeasuredIsDecided'
    <3>1. \A n \in DOMAIN Measured :
             Measured[n].measured = "OK" => Measured[n].outcome # "NOT_EVALUATED"
      BY <1>1, MeasuredInTerms
    <3> QED BY <2>1, <3>1 DEF MeasuredIsDecided
  <2>3. /\ Listed(findings')
        /\ \A k \in DOMAIN findings' :
              \E n \in DOMAIN Measured :
                 /\ Measured[n].requirement = findings'[k].requirement
                 /\ Measured[n].outcome # "PASS"
        /\ \A k, l \in DOMAIN findings' :
              findings'[k].requirement = findings'[l].requirement
                 => findings'[k] = findings'[l]
    BY <1>1, <2>1, FindingsFollow
  <2>4. FindingsStand'
    BY <2>1, <2>3 DEF FindingsStand
  <2>5. PlanningStands' /\ RecordStands' /\ RequestStands'
    BY <1>3, <2>1 DEF PlanningStands, BeforePlan, RecordStands, RequestStands
  <2>6. VerdictStands'
    BY <1>1, <1>2, <2>1 DEF VerdictStands
  <2> QED BY <2>2, <2>4, <2>5, <2>6 DEF RunStands
<1> QED BY <1>4, <1>5

-----------------------------------------------------------------------------
(* A question and its answer. *)
LEMMA StandsEscalated ==
    ASSUME RunStands, stage = "FINDINGS_READY", NEW option, Escalate(option)
    PROVE  RunStands'
<1>1. /\ stage' = "AWAITING_HUMAN_DECISION" /\ request' = <<option.finding>>
      /\ UNCHANGED <<package, requirements, checks, order, predicates, findings, verdict>>
      /\ Hooked(option) = "INTERRUPT"
  BY DEF Escalate
<1>2. DecisionRequested(option, AuthorityContext("FINDINGS_READY"))
  <2> DEFINE context == AuthorityContext("FINDINGS_READY")
             outcome == Evaluate(option.tool, Payload(option), context)
             asked   == DecisionRequested(CHOOSE o \in {option} : TRUE, context)
  <2>1. Hooked(option) = CASE outcome = "ALLOW"  -> "ALLOW"
                           [] outcome = "FORBID" -> "REFUSE"
                           [] {option} = {}      -> "REFUSE"
                           [] OTHER -> IF asked THEN "INTERRUPT" ELSE "RAISE"
    BY Zenon DEF Hooked, EvaluateAgentCall
  <2>2. asked
    <3> HIDE DEF outcome, asked
    <3>1. Hooked(option) \in {"ALLOW", "REFUSE", IF asked THEN "INTERRUPT" ELSE "RAISE"}
      BY <2>1
    <3> QED BY <1>1, <3>1
  <2>3. (CHOOSE o \in {option} : TRUE) = option
    OBVIOUS
  <2> QED BY <2>2, <2>3
<1>3. PICK f \in Range(findings) :
          f.options # <<>> /\ option = Option(f) /\ option.tier = 2
  BY <1>2 DEF DecisionRequested, AuthorityContext
<1>4. PICK k \in DOMAIN findings : findings[k] = f
  BY DEF Range
<1>5. option.finding = f.requirement /\ option.tier = Tier(f.options[1][1])
  BY <1>3 DEF Option
<1>6. RequestStands'
  BY <1>1, <1>3, <1>4, <1>5 DEF RequestStands
<1>7. PlanningStands'
  BY <1>1, PlanKept DEF RunStands, PlanningStands, BeforePlan
<1>8. MeasuredIsDecided'
  BY <1>1 DEF RunStands, MeasuredIsDecided
<1>9. RecordStands'
  BY <1>1, MeasuredKept DEF RunStands, RecordStands, Current
<1>10. FindingsStand'
  <2>1. FindingsStand
    BY DEF RunStands
  <2> QED BY <1>1, <2>1 DEF FindingsStand, Listed
<1>11. VerdictStands'
  BY <1>1 DEF RunStands, VerdictStands
<1> QED BY <1>6, <1>7, <1>8, <1>9, <1>10, <1>11 DEF RunStands

(* A denial blocks a run that has something that did not pass.                *)
LEMMA StandsDenied == ASSUME RunStands, Deny PROVE RunStands'
<1>1. /\ stage = "AWAITING_HUMAN_DECISION" /\ stage' = "BLOCKED"
      /\ UNCHANGED <<package, requirements, checks, order, predicates, verdict>>
  BY DEF Deny
<1>2. \E n \in DOMAIN predicates : predicates[n].outcome # "PASS"
  BY <1>1 DEF RunStands, RequestStands, FindingsStand
<1>3. PlanningStands'
  BY <1>1, PlanKept DEF RunStands, PlanningStands, BeforePlan
<1>4. MeasuredIsDecided'
  BY <1>1 DEF RunStands, MeasuredIsDecided
<1>5. RecordStands'
  BY <1>1, MeasuredKept DEF RunStands, RecordStands, Current
<1>6. FindingsStand' /\ RequestStands'
  BY <1>1 DEF FindingsStand, RequestStands
<1>7. VerdictStands'
  BY <1>1, <1>2 DEF RunStands, VerdictStands
<1> QED BY <1>3, <1>4, <1>5, <1>6, <1>7 DEF RunStands

-----------------------------------------------------------------------------
(* The batch is an answer of the model whose spans were all admitted, once    *)
(* there is one.                                                              *)
BatchStands == batch = <<>> \/ (batch \in Batches /\ BatchAdmitted(batch))

(* The inductive invariant: what was admitted stands, and so do the plan, the *)
(* record, the findings, the question and the verdict that follow from it.    *)
RunInvariant == AdmissionStands /\ BatchStands /\ RunStands

(* A run starts with nothing admitted, planned, measured or asked.            *)
LEMMA RunInvariantAtFirst == RunInit => RunInvariant
<1> SUFFICES ASSUME RunInit PROVE RunInvariant
  OBVIOUS
<1>1. /\ stage = "INTERPRETING" /\ package \in Packages /\ batch = <<>>
      /\ checks = <<>> /\ order = <<>> /\ predicates = <<>> /\ verdict = <<>>
  BY DEF RunInit, Init
<1>2. DOMAIN <<>> = {} /\ DOMAIN <<>> = 1 .. 0
  OBVIOUS
<1>3. ChecksStand
  BY <1>1, <1>2 DEF ChecksStand, Listed
<1>4. PlanningStands
  BY <1>1, <1>3 DEF PlanningStands, BeforePlan
<1>5. MeasuredIsDecided /\ RecordStands /\ FindingsStand /\ RequestStands /\ VerdictStands
  BY <1>1 DEF MeasuredIsDecided, RecordStands, Current, FindingsStand, RequestStands,
     VerdictStands
<1> QED BY <1>1, <1>4, <1>5, AdmissionStandsAtFirst DEF RunInvariant, RunStands, BatchStands

(* No step breaks it, action by action.                                       *)
LEMMA RunStandsNext ==
    ASSUME WellAdmitted, RunStands, IntakeAssumption, [RunNext]_runVars PROVE RunStands'
<1>1. CASE InterpretationRefused /\ UNCHANGED remedyVars
  BY <1>1, StandsStill DEF InterpretationRefused, remedyVars
<1>2. CASE InterpretationAdmitted /\ UNCHANGED remedyVars
  BY <1>2, StandsAdmitted
<1>3. CASE (PlanProposed \/ PlanFallback) /\ UNCHANGED remedyVars
  BY <1>3, StandsPlanned
<1>4. CASE PlanRefused /\ UNCHANGED remedyVars
  BY <1>4, StandsStill DEF PlanRefused, remedyVars
<1>5. CASE Inspect \/ Reinspect
  <2>1. \E w : Inspection(w)
    BY <1>5, Zenon DEF Inspect, Reinspect
  <2>2. stage \in {"QC_PLANNED", "INSPECTING"}
    BY <1>5 DEF Inspect, Reinspect, Reinspecting
  <2> QED BY <2>1, <2>2, StandsInspected, Zenon
<1>6. CASE Conclude \/ BlockExhausted
  BY <1>6, StandsJudged DEF Conclude, BlockExhausted, GiveUp
<1>7. CASE Diagnose
  <2>1. stage = "FINDINGS_READY"
    BY <1>7 DEF Diagnose, Diagnosing
  <2>2. ASSUME NEW options, ApplyTierOne(options) PROVE RunStands'
    <3>1. /\ stage' \in {"REMEDIATING", "INSPECTING"}
          /\ UNCHANGED <<requirements, checks, order, predicates, verdict>>
      BY <2>2 DEF ApplyTierOne
    <3> QED BY <2>1, <3>1, StandsRemedied
  <2>3. ASSUME NEW option, Escalate(option) PROVE RunStands'
    BY <2>1, <2>3, StandsEscalated
  <2>4. GiveUp => RunStands'
    BY <2>1, StandsJudged DEF GiveUp
  <2>5. (\E options : ApplyTierOne(options)) \/ (\E option : Escalate(option)) \/ GiveUp
    BY <1>7, Zenon DEF Diagnose
  <2> QED BY <2>2, <2>3, <2>4, <2>5
<1>8. CASE Deny
  BY <1>8, StandsDenied
<1>9. CASE Approve
  <2>1. /\ stage = "AWAITING_HUMAN_DECISION" /\ stage' = "INSPECTING"
        /\ UNCHANGED <<requirements, checks, order, predicates, verdict>>
    BY <1>9 DEF Approve
  <2> QED BY <2>1, StandsRemedied
<1>10. CASE Finished \/ UNCHANGED runVars
  BY <1>10, StandsStill DEF Finished, runVars, vars, remedyVars
<1> QED BY <1>1, <1>2, <1>3, <1>4, <1>5, <1>6, <1>7, <1>8, <1>9, <1>10 DEF RunNext

(* The batch is one of the model's answers, from admission on.                *)
LEMMA BatchKept ==
    ASSUME BatchStands, [RunNext]_runVars PROVE BatchStands'
<1>0. batch' = batch => BatchStands'
  BY DEF BatchStands
<1>1. CASE InterpretationAdmitted
  <2>1. batch' \in Batches /\ BatchAdmitted(batch')
    BY <1>1 DEF InterpretationAdmitted
  <2> QED BY <2>1 DEF BatchStands
<1>2. CASE InterpretationRefused \/ PlanProposed \/ PlanRefused \/ PlanFallback
  BY <1>0, <1>2 DEF InterpretationRefused, PlanProposed, PlanRefused, PlanFallback, PlanAdopted
<1>3. CASE Inspect \/ Reinspect
  BY <1>0, <1>3 DEF Inspect, Reinspect, Inspection
<1>4. CASE Conclude \/ BlockExhausted
  BY <1>0, <1>4 DEF Conclude, BlockExhausted, GiveUp
<1>5. CASE Diagnose
  <2>1. ASSUME NEW options, ApplyTierOne(options) PROVE batch' = batch
    BY <2>1 DEF ApplyTierOne
  <2>2. ASSUME NEW option, Escalate(option) PROVE batch' = batch
    BY <2>2 DEF Escalate
  <2>3. GiveUp => batch' = batch
    BY DEF GiveUp
  <2> QED BY <1>0, <1>5, <2>1, <2>2, <2>3 DEF Diagnose
<1>6. CASE Deny \/ Approve
  BY <1>0, <1>6 DEF Deny, Approve
<1>7. CASE Finished \/ UNCHANGED runVars
  BY <1>0, <1>7 DEF Finished, runVars, vars
<1> QED BY <1>1, <1>2, <1>3, <1>4, <1>5, <1>6, <1>7 DEF RunNext

(* So it holds in every state of every run.                                   *)
LEMMA InvariantForGood == RunSpec => []RunInvariant
<1>1. RunInvariant => WellAdmitted /\ RunStands
  BY AdmittedIsWell, IntakeAssumption DEF RunInvariant, BatchStands
<1>2. RunInvariant /\ [RunNext]_runVars => RunInvariant'
  <2> SUFFICES ASSUME RunInvariant, [RunNext]_runVars PROVE RunInvariant'
    OBVIOUS
  <2>1. AdmissionStands'
    BY AdmissionStandsNext DEF RunInvariant
  <2>2. BatchStands'
    BY BatchKept DEF RunInvariant
  <2>3. RunStands'
    BY <1>1, RunStandsNext, IntakeAssumption
  <2> QED BY <2>1, <2>2, <2>3 DEF RunInvariant
<1> QED BY <1>2, RunInvariantAtFirst, PTL DEF RunSpec

(* In every state of every run the admitted requirements are in the           *)
(* catalogue's terms, the plan takes each required check once, a record that  *)
(* is not waiting for a remedy is what inspecting the package now would give, *)
(* and findings, question and verdict follow from it (construct_plan,         *)
(* _inspect, diagnose_findings, _terminal).                                   *)
THEOREM RunStandsForGood == RunSpec => [](WellAdmitted /\ RunStands)
<1>1. RunInvariant => WellAdmitted /\ RunStands
  BY AdmittedIsWell, IntakeAssumption DEF RunInvariant, BatchStands
<1> QED BY <1>1, InvariantForGood, PTL

(* Once planned, every applicable executable requirement is checked as often  *)
(* as it is bound and nothing else is, whatever order the model proposed      *)
(* (validate_plan, deterministic_fallback_plan).                              *)
THEOREM PlanForGood == RunSpec => []PlanCovers
  BY RunStandsForGood, StandsCovers, PTL

(* What was measured is decided: a predicate over a fact that was read passes *)
(* or fails, because admission and the tools speak in the catalogue's units   *)
(* and operators (evaluate_predicate).                                        *)
THEOREM DecidedForGood == RunSpec => []MeasuredIsDecided
<1>1. RunStands => MeasuredIsDecided
  BY DEF RunStands
<1> QED BY <1>1, RunStandsForGood, PTL

(* A run is ready exactly when every blocking requirement applies, was        *)
(* planned and passes on the package as it is now, after whatever remedies    *)
(* and whichever withheld diagnoses (compute, _terminal).                     *)
THEOREM VerdictForGood == RunSpec => []VerdictIsTrue
  BY RunStandsForGood, StandsIsTrue, PTL

(* The views show what was judged: a ready run shows no blocking row that did *)
(* not pass, a blocked one shows why, every run is counted once, and a row    *)
(* shown as passed passes on the package as it is (_display_status,           *)
(* _requirement_status, list_runs).                                           *)
THEOREM ShownForGood == RunSpec => []ShownAsJudged
  BY RunStandsForGood, StandsIsShown, PTL

(* While a decision is awaited the views show it on the one requirement it is *)
(* about, which did not pass, and as a remedy of tier two                     *)
(* (_requirement_status, _decision_view).                                     *)
THEOREM AskedForGood == RunSpec => []DecisionShown
  BY RunStandsForGood, StandsIsAsked, PTL

-----------------------------------------------------------------------------
(* Sentences are in line: sorted integers rise, ... *)
LEMMA PlacesRise ==
    ASSUME NEW S, NEW before, IsFiniteSet(S), Linear(S, before),
           NEW x \in S, NEW y \in S, <<x, y>> \in before
    PROVE  Place(S, before)[x] < Place(S, before)[y]
<1> DEFINE below(z) == {w \in S : <<w, z>> \in before}
<1>1. \A z \in S : IsFiniteSet(below(z)) /\ Cardinality(below(z)) \in Nat
  BY PlacesTaken
<1>2. below(x) \in SUBSET below(y) /\ x \in below(y) /\ x \notin below(x)
  BY DEF Linear
<1>3. \A z \in S : Place(S, before)[z] = Cardinality(below(z)) + 1
  BY DEF Place
<1> HIDE DEF below
<1>4. Cardinality(below(x)) <= Cardinality(below(y))
      /\ Cardinality(below(x)) # Cardinality(below(y))
  BY <1>1, <1>2, FS_Subset
<1> QED BY <1>1, <1>3, <1>4

LEMMA AscendingRises ==
    ASSUME NEW I, I \subseteq Int, IsFiniteSet(I),
           NEW m \in 1 .. Cardinality(I), NEW n \in 1 .. Cardinality(I), m <= n
    PROVE  Ascending(I)[m] <= Ascending(I)[n]
<1> DEFINE before == {p \in I \X I : p[1] < p[2]}
           at     == Ascending(I)
           place  == Place(I, before)
<1>1. Linear(I, before)
  BY AscendingIsLinear
<1>2. at = InOrder(I, before)
  BY DEF Ascending
<1>3. \A k \in 1 .. Cardinality(I) : place[at[k]] = k
  <2> HIDE DEF before, at
  <2> QED BY <1>1, <1>2, InOrderCounts
<1>4. at[m] \in I /\ at[n] \in I
  BY AscendingCounts DEF Bijection, Injection
<1>5. at[m] > at[n] => <<at[n], at[m]>> \in before
  <2> HIDE DEF at
  <2> QED BY <1>4
<1>6. Cardinality(I) \in Nat
  BY FS_CardinalityType
<1>7. ~(at[m] > at[n])
  <2> SUFFICES ASSUME at[m] > at[n] PROVE FALSE
    OBVIOUS
  <2> HIDE DEF before, at, place
  <2>1. place[at[n]] < place[at[m]]
    BY <1>1, <1>4, <1>5, PlacesRise DEF place
  <2> QED BY <1>3, <1>6, <2>1
<1> HIDE DEF at
<1>8. at[m] <= at[n]
  <2>1. at[m] \in Int /\ at[n] \in Int
    BY <1>4
  <2> QED BY <1>7, <2>1
<1> QED BY <1>8 DEF at

(* ... and every sentence that is opened is closed, the earlier the sooner.   *)
LEMMA SentencesClose ==
    ASSUME Document \in Seq(Range(Document)), NEW i \in DOMAIN Document,
           OpensSentence(Document, i)
    PROVE  \E j \in i .. Len(Document) : ClosesSentence(Document, j)
<1> DEFINE run == {j \in i .. Len(Document) : \A k \in i .. j : IsText(Document, k)}
<1>1. Len(Document) \in Nat /\ DOMAIN Document = 1 .. Len(Document)
  OBVIOUS
<1>2. i \in run
  BY <1>1 DEF OpensSentence
<1>3. run \subseteq Int /\ IsFiniteSet(run)
  <2>1. IsFiniteSet(1 .. Len(Document))
    BY <1>1, FS_Interval
  <2>2. run \in SUBSET (1 .. Len(Document))
    BY <1>1
  <2>3. run \subseteq Int
    BY <1>1
  <2> HIDE DEF run
  <2> QED BY <2>1, <2>2, <2>3, FS_Subset
<1>4. Max(run) \in run /\ \A j \in run : j <= Max(run)
  <2> HIDE DEF run
  <2> QED BY <1>2, <1>3, Extremes
<1> DEFINE j == Max(run)
<1>5. ~IsText(Document, j + 1)
  <2> SUFFICES ASSUME IsText(Document, j + 1) PROVE FALSE
    OBVIOUS
  <2>1. j + 1 \in DOMAIN Document
    BY DEF IsText
  <2> HIDE DEF j
  <2>2. j \in run /\ \A l \in run : l <= j
    BY <1>4 DEF j
  <2>3. j \in Int /\ j + 1 \in i .. Len(Document)
    BY <1>1, <2>1, <2>2
  <2>4. \A k \in i .. (j + 1) : IsText(Document, k)
    <3>1. \A k \in i .. (j + 1) : k \in i .. j \/ k = j + 1
      BY <1>1, <2>3
    <3> QED BY <2>2, <3>1
  <2>5. j + 1 \in run
    BY <2>3, <2>4
  <2> HIDE DEF run
  <2> QED BY <2>2, <2>3, <2>5
<1>6. j \in i .. Len(Document) /\ IsText(Document, j)
  <2> HIDE DEF j
  <2>1. j \in run
    BY <1>4 DEF j
  <2> QED BY <1>1, <2>1
<1> HIDE DEF j
<1> QED BY <1>5, <1>6 DEF ClosesSentence

LEMMA SentencesInLine ==
    ASSUME Document \in Seq(Range(Document)),
           NEW m \in DOMAIN Segments, NEW n \in DOMAIN Segments, m <= n
    PROVE  /\ Segments[m].start <= Segments[n].start /\ Segments[m].end <= Segments[n].end
           /\ {Segments[m].start, Segments[m].end, Segments[n].start, Segments[n].end}
                 \subseteq Int
<1> DEFINE I       == {i \in DOMAIN Document : OpensSentence(Document, i)}
           at      == Ascending(I)
           ends(i) == {j \in i .. Len(Document) : ClosesSentence(Document, j)}
           heads(i) == {h \in 1 .. i : Document[h].kind \in {"heading", "numbered"}}
<1>1. Len(Document) \in Nat /\ DOMAIN Document = 1 .. Len(Document)
  OBVIOUS
<1>2. I \subseteq Int /\ IsFiniteSet(I)
  <2>1. IsFiniteSet(DOMAIN Document)
    BY <1>1, FS_Interval
  <2>2. I \in SUBSET DOMAIN Document
    OBVIOUS
  <2> HIDE DEF I
  <2> QED BY <1>1, <2>1, <2>2, FS_Subset
<1>3. /\ at \in Bijection(1 .. Cardinality(I), I) /\ Cardinality(I) \in Nat
      /\ \A k, l \in 1 .. Cardinality(I) : k <= l => at[k] <= at[l]
  <2> HIDE DEF I
  <2> QED BY <1>2, AscendingCounts, AscendingRises, FS_CardinalityType
<1>4. Segments = [k \in DOMAIN at |->
                     [ start |-> at[k], end |-> Min(ends(at[k])),
                       reference |-> IF heads(at[k]) = {} THEN 0 ELSE Max(heads(at[k])) ]]
  BY DEF Segments, SegmentSourceDocument
<1> HIDE DEF at, heads
<1>5. DOMAIN at = 1 .. Cardinality(I) /\ \A k \in DOMAIN at : at[k] \in I
  <2> HIDE DEF I
  <2> QED BY <1>3 DEF Bijection, Injection
<1>6. \A k \in DOMAIN Segments : /\ k \in DOMAIN at
                                 /\ Segments[k].start = at[k]
                                 /\ Segments[k].end = Min(ends(at[k]))
  <2> HIDE DEF ends
  <2> QED BY <1>4
<1>7. ASSUME NEW i \in I
      PROVE  /\ Min(ends(i)) \in ends(i) /\ \A j \in ends(i) : Min(ends(i)) <= j
  <2>1. ends(i) # {}
    BY SentencesClose
  <2>2. ends(i) \subseteq Int /\ IsFiniteSet(ends(i))
    <3>1. IsFiniteSet(1 .. Len(Document))
      BY <1>1, FS_Interval
    <3>2. ends(i) \in SUBSET (1 .. Len(Document))
      BY <1>1
    <3> HIDE DEF ends
    <3> QED BY <3>1, <3>2, FS_Subset
  <2> HIDE DEF ends
  <2> QED BY <2>1, <2>2, Extremes
<1>8. at[m] \in I /\ at[n] \in I /\ at[m] <= at[n] /\ at[m] \in Int /\ at[n] \in Int
  <2>1. m \in 1 .. Cardinality(I) /\ n \in 1 .. Cardinality(I)
    BY <1>5, <1>6
  <2> HIDE DEF I
  <2> QED BY <1>2, <1>3, <1>5, <2>1
<1>9. ends(at[n]) \subseteq ends(at[m])
  BY <1>1, <1>8
<1>10. ends(at[m]) \subseteq Int /\ ends(at[n]) \subseteq Int
  BY <1>1
<1>11. Min(ends(at[m])) <= Min(ends(at[n]))
       /\ Min(ends(at[m])) \in Int /\ Min(ends(at[n])) \in Int
  <2> HIDE DEF ends, I
  <2> QED BY <1>7, <1>8, <1>9, <1>10
<1> HIDE DEF ends, I
<1> QED BY <1>6, <1>8, <1>11

(* So a span holds every sentence it cites, and its words.                    *)
LEMMA SpanHolds ==
    ASSUME Document \in Seq(Range(Document)), NEW cited, cited \in Seq(Range(cited)),
           NEW quote, SpanAdmitted(Segments, cited, quote), NEW n \in Range(cited)
    PROVE  WordsOf(Document, Segments[n].start, Segments[n].end)
              \subseteq SourceSpan(Document, Segments, cited).words
<1>1. Len(cited) \in 1 .. 3 /\ DOMAIN cited = 1 .. Len(cited)
  BY DEF SpanAdmitted
<1>2. PICK k \in DOMAIN cited : cited[k] = n
  BY DEF Range
<1>3. \A i \in DOMAIN cited : cited[i] \in DOMAIN Segments /\ cited[i] = cited[1] + i - 1
  BY DEF SpanAdmitted
<1>4. DOMAIN Segments \subseteq Int
  <2> DEFINE I == {i \in DOMAIN Document : OpensSentence(Document, i)}
  <2>1. DOMAIN Segments = DOMAIN Ascending(I)
    BY DEF Segments, SegmentSourceDocument
  <2>2. DOMAIN Ascending(I) = 1 .. Cardinality(I)
    <3> HIDE DEF I
    <3> QED BY DEF Ascending, InOrder
  <2> HIDE DEF I
  <2> QED BY <2>1, <2>2
<1> DEFINE first == cited[1]
           last  == Last(cited)
<1>5. last = cited[Len(cited)]
  BY DEF Last
<1> HIDE DEF last
<1>6. /\ first \in DOMAIN Segments /\ last \in DOMAIN Segments /\ n \in DOMAIN Segments
      /\ first <= n /\ n <= last
  <2>1. 1 \in DOMAIN cited /\ Len(cited) \in DOMAIN cited
    BY <1>1
  <2> QED BY <1>1, <1>2, <1>3, <1>4, <1>5, <2>1, SMTT(20)
<1> HIDE DEF first
<1>7. /\ Segments[first].start <= Segments[n].start /\ Segments[n].end <= Segments[last].end
      /\ {Segments[first].start, Segments[n].start, Segments[n].end, Segments[last].end}
            \subseteq Int
  BY <1>6, SentencesInLine
<1>8. Segments[n].start .. Segments[n].end \subseteq Segments[first].start .. Segments[last].end
  BY <1>7
<1>9. SourceSpan(Document, Segments, cited).words
         = WordsOf(Document, Segments[first].start, Segments[last].end)
  BY DEF SourceSpan, first, last
<1> QED BY <1>8, <1>9 DEF WordsOf

(* Words that bind make a requirement that blocks, and so does silence.       *)
LEMMA MustBlocks ==
    ASSUME NEW words, \/ ModalGroups["BLOCKING"] \cap words # {}
                      \/ \A s \in DOMAIN ModalGroups : ModalGroups[s] \cap words = {}
    PROVE  ModalSeverity(words)[1] = "BLOCKING"
<1> DEFINE found == {s \in DOMAIN ModalGroups : ModalGroups[s] \cap words # {}}
<1>1. ModalSeverity(words) = CASE found = {} -> <<"BLOCKING", "UNKNOWN">>
                               [] Cardinality(found) > 1 -> <<"BLOCKING", "MIXED">>
                               [] OTHER -> <<CHOOSE s \in found : TRUE, "TOKEN">>
  BY DEF ModalSeverity
<1>2. CASE found = {}
  <2>1. ~(Cardinality(found) > 1)
    BY <1>2, FS_EmptySet
  <2> QED BY <1>1, <1>2, <2>1
<1>3. CASE found # {}
  <2>1. "BLOCKING" \in found
    BY <1>3 DEF ModalGroups
  <2>2. IsFiniteSet(found)
    <3>1. IsFiniteSet({"BLOCKING", "WARNING", "INFO"})
      <4>1. IsFiniteSet({"BLOCKING"})
        BY FS_Singleton
      <4>2. IsFiniteSet({"BLOCKING"} \cup {"WARNING"})
        BY <4>1, FS_AddElement
      <4>3. IsFiniteSet(({"BLOCKING"} \cup {"WARNING"}) \cup {"INFO"})
        BY <4>2, FS_AddElement
      <4>4. ({"BLOCKING"} \cup {"WARNING"}) \cup {"INFO"} = {"BLOCKING", "WARNING", "INFO"}
        OBVIOUS
      <4> QED BY <4>3, <4>4
    <3>2. found \in SUBSET {"BLOCKING", "WARNING", "INFO"}
      BY DEF ModalGroups
    <3> HIDE DEF found
    <3> QED BY <3>1, <3>2, FS_Subset
  <2> HIDE DEF found
  <2>3. CASE Cardinality(found) > 1
    BY <1>1, <1>3, <2>3
  <2>4. CASE ~(Cardinality(found) > 1)
    <3>1. \A s \in found : s = "BLOCKING"
      <4> SUFFICES ASSUME NEW s \in found, s # "BLOCKING" PROVE FALSE
        OBVIOUS
      <4>1. Cardinality(found \ {s}) = Cardinality(found) - 1 /\ IsFiniteSet(found \ {s})
        BY <2>2, FS_RemoveElement
      <4>2. "BLOCKING" \in found \ {s}
        BY <2>1
      <4>3. Cardinality(found \ {s}) # 0
        BY <4>1, <4>2, FS_EmptySet
      <4>4. Cardinality(found \ {s}) \in Nat /\ Cardinality(found) \in Nat
        BY <2>2, <4>1, FS_CardinalityType
      <4> QED BY <2>4, <4>1, <4>3, <4>4
    <3>2. (CHOOSE s \in found : TRUE) = "BLOCKING"
      BY <2>1, <3>1
    <3> QED BY <1>1, <1>3, <2>4, <3>2
  <2> QED BY <2>3, <2>4
<1> QED BY <1>2, <1>3

(* SourceOwnsSeverity follows: the span of a requirement holds every sentence *)
(* it cites, and marking a conflict changes neither span nor severity.        *)
LEMMA StandsSevere == AdmissionStands /\ BatchStands => SourceOwnsSeverity
<1> SUFFICES ASSUME AdmissionStands, BatchStands, NEW i \in DOMAIN requirements,
                    \/ ModalGroups["BLOCKING"] \cap CitedWords(i) # {}
                    \/ \A s \in DOMAIN ModalGroups :
                          ModalGroups[s] \cap requirements[i].span.words = {}
             PROVE  requirements[i].severity = "BLOCKING"
  BY Zenon DEF SourceOwnsSeverity
<1> DEFINE r    == Admit(batch[i], Document, Segments, Titles)
           span == SourceSpan(Document, Segments, batch[i].cited)
<1>1. /\ DOMAIN requirements = DOMAIN batch
      /\ requirements = MarkContradictions(Admitted(batch))
  <2>1. requirements = MarkContradictions(Admitted(batch))
    BY DEF AdmissionStands
  <2>2. DOMAIN MarkContradictions(Admitted(batch)) = DOMAIN Admitted(batch)
    BY DEF MarkContradictions
  <2> QED BY <2>1, <2>2 DEF Admitted
<1>2. /\ {"status", "constraint", "span", "severity"} \subseteq DOMAIN r
      /\ r.span = span /\ r.severity = ModalSeverity(span.words)[1]
  BY DEF Admit
<1>3. requirements[i] \in {r, [r EXCEPT !.status = "CONTRADICTORY", !.constraint = <<>>]}
  <2>1. Admitted(batch)[i] = r /\ DOMAIN Admitted(batch) = DOMAIN batch
    BY <1>1 DEF Admitted
  <2> HIDE DEF r
  <2> QED BY <1>1, <2>1 DEF MarkContradictions
<1> HIDE DEF r, span
<1>4. requirements[i].span = span /\ requirements[i].severity = ModalSeverity(span.words)[1]
  BY <1>2, <1>3
<1>5. CitedWords(i) \subseteq span.words
  <2> DEFINE cited == batch[i].cited
             quote == batch[i].quote
  <2>1. batch \in Batches /\ BatchAdmitted(batch) /\ i \in DOMAIN batch
    BY <1>1 DEF BatchStands
  <2>2. SpanAdmitted(Segments, cited, quote)
    BY <2>1 DEF BatchAdmitted
  <2>3. cited \in Seq(Range(cited)) /\ Document \in Seq(Range(Document))
    BY <2>1, IntakeAssumption
  <2> HIDE DEF cited, quote
  <2>4. \A n \in Range(cited) :
           WordsOf(Document, Segments[n].start, Segments[n].end)
              \subseteq SourceSpan(Document, Segments, cited).words
    BY <2>2, <2>3, SpanHolds
  <2> QED BY <2>4 DEF CitedWords, span, cited
<1>6. ModalSeverity(span.words)[1] = "BLOCKING"
  <2>1. \/ ModalGroups["BLOCKING"] \cap span.words # {}
        \/ \A s \in DOMAIN ModalGroups : ModalGroups[s] \cap span.words = {}
    BY <1>4, <1>5
  <2> QED BY <2>1, MustBlocks
<1> QED BY <1>4, <1>6

(* The source owns severity in every state of every run, whatever the         *)
(* document and whatever the model answered (build_source_span,               *)
(* modal_severity, admit).                                                    *)
THEOREM SeverityForGood == RunSpec => []SourceOwnsSeverity
<1>1. RunInvariant => SourceOwnsSeverity
  BY StandsSevere DEF RunInvariant
<1> QED BY <1>1, InvariantForGood, PTL
=============================================================================
