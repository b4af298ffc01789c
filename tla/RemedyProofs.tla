---------------------------- MODULE RemedyProofs ----------------------------
(* Theorems about remedies, for every package, diagnosis and decision: what a *)
(* batch of them leaves of a delivery, the types of a run and how long it can *)
(* go on, what only an approval may alter, and the two pieces of code written *)
(* twice, the gates of a tool call and the readings of a diagnosis.           *)
(*                                                                            *)
(* A batch is a recursive function over its actions (After), so what it       *)
(* leaves is proved by induction. The library's induction theorem takes an    *)
(* operator, which no prover here can instantiate: Induction states it for a  *)
(* set of naturals, from a least element, and is enough.                      *)
EXTENDS IntakeProofs

(* Induction over the naturals, as a fact about a set of them.                *)
LEMMA Induction ==
    ASSUME NEW S, 0 \in S, \A n \in Nat : n \in S => n + 1 \in S PROVE Nat \subseteq S
<1> SUFFICES ASSUME NEW n \in Nat, n \notin S PROVE FALSE
  OBVIOUS
<1> DEFINE I == {m \in 0 .. n : m \notin S}
<1>1. I \subseteq Int /\ n \in I
  OBVIOUS
<1>2. IsFiniteSet(I)
  <2>1. IsFiniteSet(0 .. n)
    BY FS_Interval
  <2>2. I \in SUBSET (0 .. n)
    OBVIOUS
  <2> HIDE DEF I
  <2> QED BY <2>1, <2>2, FS_Subset
<1>3. Min(I) \in I /\ \A i \in I : Min(I) <= i
  <2> HIDE DEF I
  <2> QED BY <1>1, <1>2, Extremes
<1>4. PICK m \in I : \A i \in I : m <= i
  BY <1>3, Zenon
<1>5. m \in 0 .. n /\ m \notin S /\ m # 0
  OBVIOUS
<1>6. m - 1 \in Nat /\ m - 1 \notin I /\ m - 1 \in 0 .. n
  BY <1>4, <1>5
<1>7. m - 1 \in S
  BY <1>6
<1>8. (m - 1) + 1 \in S
  BY <1>6, <1>7
<1> QED BY <1>5, <1>8

(* One action of a batch (the loop of _execute_tier_one).                     *)
Worked(w, option, failing) == IF option \in failing THEN w ELSE Execute(w, option)

(* The workbenches of a batch, one for each number of actions, are defined.   *)
Benches(chosen, failing, count, works) ==
    works = [n \in 0 .. count |->
                IF n = 0 THEN Workbench
                ELSE IF chosen[n] \in failing THEN works[n - 1]
                ELSE Execute(works[n - 1], chosen[n])]

LEMMA BenchesExist ==
    ASSUME NEW chosen, NEW failing, NEW count \in Nat
    PROVE  \E works : Benches(chosen, failing, count, works)
<1> DEFINE S == {n \in Nat : \E works : Benches(chosen, failing, n, works)}
<1>1. 0 \in S
  <2> DEFINE works == [n \in 0 .. 0 |-> Workbench]
  <2>1. Benches(chosen, failing, 0, works)
    BY DEF Benches
  <2> HIDE DEF works
  <2> QED BY <2>1
<1>2. ASSUME NEW n \in Nat, n \in S PROVE n + 1 \in S
  <2>1. PICK works : Benches(chosen, failing, n, works)
    BY <1>2
  <2> DEFINE next == Worked(works[n], chosen[n + 1], failing)
             more == [m \in 0 .. n + 1 |-> IF m = n + 1 THEN next ELSE works[m]]
  <2>2. \A m \in 0 .. n + 1 :
           more[m] = IF m = 0 THEN Workbench
                     ELSE IF chosen[m] \in failing THEN more[m - 1]
                     ELSE Execute(more[m - 1], chosen[m])
    <3> SUFFICES ASSUME NEW m \in 0 .. n + 1
                 PROVE  more[m] = IF m = 0 THEN Workbench
                                  ELSE IF chosen[m] \in failing THEN more[m - 1]
                                  ELSE Execute(more[m - 1], chosen[m])
      OBVIOUS
    <3>1. CASE m = n + 1
      <4>1. more[m] = next /\ more[m - 1] = works[n] /\ m # 0
        BY <3>1
      <4> HIDE DEF more
      <4> QED BY <3>1, <4>1 DEF Worked
    <3>2. CASE m # n + 1
      <4>1. m \in 0 .. n /\ more[m] = works[m] /\ (m # 0 => more[m - 1] = works[m - 1])
        BY <3>2
      <4>2. works[m] = IF m = 0 THEN Workbench
                       ELSE IF chosen[m] \in failing THEN works[m - 1]
                       ELSE Execute(works[m - 1], chosen[m])
        BY <2>1, <4>1 DEF Benches
      <4> HIDE DEF more
      <4> QED BY <4>1, <4>2
    <3> QED BY <3>1, <3>2
  <2>3. Benches(chosen, failing, n + 1, more)
    <3>1. more = [m \in 0 .. n + 1 |-> more[m]]
      OBVIOUS
    <3> HIDE DEF more
    <3> QED BY <2>2, <3>1 DEF Benches
  <2> HIDE DEF more
  <2> QED BY <2>3
<1>3. Nat \subseteq S
  <2> HIDE DEF S
  <2> QED BY <1>1, <1>2, Induction
<1> QED BY <1>3

(* A delivery the runtime can read: assets in a row, each with a known role.  *)
IsAsset(x) == {"role", "probe", "loudness"} \subseteq DOMAIN x /\ x.role \in AssetRoles

Delivery(p) == /\ p \in Seq(Range(p)) /\ Len(p) > 0
               /\ \A a \in DOMAIN p : IsAsset(p[a])

(* A workbench that has lost nothing: as many assets are without a successor  *)
(* as the package has.                                                        *)
SoundBench(w) ==
    /\ Delivery(w.all) /\ Len(package) <= Len(w.all)
    /\ w.gone \subseteq DOMAIN w.all
    /\ Cardinality(Present(w)) >= Len(package)

RemedyTools == {"rename_delivery_copy", "convert_caption_format",
                "write_checksum_manifest", "create_normalized_audio_derivative"}

(* An option of one of the four remedies, about an asset of the package.      *)
Workable(option) ==
    /\ option.tool \in RemedyTools
    /\ option.tool # "write_checksum_manifest" => option.asset \in DOMAIN package

(* What is seen and heard of an asset: what its measurements read.            *)
Heard(x) == <<x.probe, x.loudness>>
Silence == << <<>>, <<>> >>

LEMMA DeliveryListed ==
    ASSUME NEW p, Delivery(p)
    PROVE  Listed(p) /\ DOMAIN p = 1 .. Len(p) /\ Len(p) \in Nat /\ 1 \in DOMAIN p
  BY DEF Delivery, Listed

(* An asset is made after another, or keeps its role.                         *)
LEMMA SuccessorIsAsset ==
    ASSUME NEW w, SoundBench(w), NEW option, Workable(option)
    PROVE  /\ IsAsset(Successor(w, option))
           /\ option.tool = "write_checksum_manifest" =>
                 Heard(Successor(w, option)) = Silence
           /\ option.tool \in {"rename_delivery_copy", "convert_caption_format"} =>
                 Heard(Successor(w, option)) = Heard(w.all[option.asset])
<1> DEFINE source == w.all[option.asset]
           format == option.argument[1]
           number == 1 + Max({w.all[a].made : a \in DOMAIN w.all})
           renamed == [source EXCEPT !.name = format]
           converted == [source EXCEPT !.role = "CAPTIONS", !.name = ConvertedName(@, format),
                                       !.content = Append(@, format),
                                       !.captions[1].format = format]
           listed == [w.all[1] EXCEPT !.role = "MANIFEST", !.name = "SHA256SUMS",
                                     !.content = <<"SHA256SUMS">>, !.exists = TRUE,
                                     !.probe = <<>>, !.loudness = <<>>, !.captions = <<>>,
                                     !.entries = <<ManifestText(w)>>]
           level == <<"float", Midpoint(ByRequirement(option.finding).constraint[1])>>
           normalized == [source EXCEPT !.role = "PROGRAM_MASTER",
                                   !.content = Append(@, "normalized"),
                                   !.probe[1].audio = <<NormalizedAudio>>,
                                   !.loudness[1] = level]
<1>1. IsAsset(w.all[1])
  BY DeliveryListed DEF SoundBench, Delivery
<1>2. option.tool # "write_checksum_manifest" => IsAsset(source)
  <2>1. DOMAIN package \subseteq DOMAIN w.all
    BY DeliveryListed DEF SoundBench
  <2> QED BY <2>1 DEF SoundBench, Delivery, Workable
<1>3. Successor(w, option) =
         [(CASE option.tool = "rename_delivery_copy" -> renamed
             [] option.tool = "convert_caption_format" -> converted
             [] option.tool = "write_checksum_manifest" -> listed
             [] option.tool = "create_normalized_audio_derivative" -> normalized)
             EXCEPT !.made = number]
  BY DEF Successor
<1>4. IsAsset(source) => /\ IsAsset(renamed) /\ IsAsset(converted) /\ IsAsset(normalized)
                         /\ Heard(renamed) = Heard(source) /\ Heard(converted) = Heard(source)
  <2> HIDE DEF source, level
  <2> QED BY DEF IsAsset, AssetRoles, Heard
<1>5. IsAsset(listed) /\ Heard(listed) = Silence
  BY <1>1 DEF IsAsset, AssetRoles, Heard, Silence
<1>6. ASSUME NEW x, IsAsset(x)
      PROVE  IsAsset([x EXCEPT !.made = number]) /\ Heard([x EXCEPT !.made = number]) = Heard(x)
  <2> HIDE DEF number
  <2> QED BY <1>6 DEF IsAsset, Heard
<1> HIDE DEF source, renamed, converted, listed, normalized, number
<1>7. CASE option.tool = "rename_delivery_copy"
  <2>1. Successor(w, option) = [renamed EXCEPT !.made = number]
    BY <1>3, <1>7
  <2> QED BY <1>2, <1>4, <1>6, <1>7, <2>1 DEF source
<1>8. CASE option.tool = "convert_caption_format"
  <2>1. Successor(w, option) = [converted EXCEPT !.made = number]
    BY <1>3, <1>8
  <2> QED BY <1>2, <1>4, <1>6, <1>8, <2>1 DEF source
<1>9. CASE option.tool = "write_checksum_manifest"
  <2>1. Successor(w, option) = [listed EXCEPT !.made = number]
    BY <1>3, <1>9
  <2> QED BY <1>5, <1>6, <1>9, <2>1
<1>10. CASE option.tool = "create_normalized_audio_derivative"
  <2>1. Successor(w, option) = [normalized EXCEPT !.made = number]
    BY <1>3, <1>10
  <2> QED BY <1>2, <1>4, <1>6, <1>10, <2>1
<1> QED BY <1>7, <1>8, <1>9, <1>10 DEF Workable, RemedyTools

(* A delivery with one more asset is a delivery. *)
LEMMA DeliveryGrows ==
    ASSUME NEW p, Delivery(p), NEW x, IsAsset(x)
    PROVE  /\ Delivery(Append(p, x)) /\ Len(Append(p, x)) = Len(p) + 1
           /\ DOMAIN Append(p, x) = (DOMAIN p) \cup {Len(p) + 1}
           /\ \A a \in DOMAIN p : Append(p, x)[a] = p[a]
           /\ Append(p, x)[Len(p) + 1] = x
<1> DEFINE q == Append(p, x)
<1>1. p \in Seq(Range(p) \cup {x}) /\ Len(p) \in Nat
  BY DEF Delivery
<1>2. /\ q \in Seq(Range(p) \cup {x}) /\ Len(q) = Len(p) + 1
      /\ \A a \in 1 .. Len(p) : q[a] = p[a]
      /\ q[Len(p) + 1] = x
      /\ DOMAIN q = 1 .. Len(p) + 1 /\ DOMAIN p = 1 .. Len(p)
  BY <1>1
<1> HIDE DEF q
<1>3. Listed(q) /\ q = [n \in DOMAIN q |-> q[n]]
  BY <1>1, <1>2 DEF Listed
<1>4. q \in Seq(Range(q))
  BY <1>3, ListedIsSeq
<1>5. ASSUME NEW a \in DOMAIN q PROVE IsAsset(q[a])
  BY <1>1, <1>2 DEF Delivery
<1>6. DOMAIN q = (DOMAIN p) \cup {Len(p) + 1}
  BY <1>1, <1>2
<1> QED BY <1>1, <1>2, <1>4, <1>5, <1>6 DEF Delivery, q

(* An action adds an asset and retires one at most.                           *)
LEMMA ExecuteSound ==
    ASSUME Delivery(package), NEW w, SoundBench(w), NEW option, Workable(option)
    PROVE  SoundBench(Execute(w, option))
<1> DEFINE p == w.all
           x == Successor(w, option)
           n == Len(p) + 1
           R == Replaced(w, option)
           e == Execute(w, option)
           Q == Present(w)
<1>1. /\ Delivery(Append(p, x)) /\ Len(Append(p, x)) = n
      /\ DOMAIN Append(p, x) = (DOMAIN p) \cup {n}
  BY SuccessorIsAsset, DeliveryGrows DEF SoundBench
<1>2. e.all = Append(p, x) /\ e.gone = w.gone \cup R
  BY DEF Execute
<1>3. /\ Listed(p) /\ DOMAIN p = 1 .. Len(p) /\ Len(p) \in Nat
      /\ Len(package) \in Nat /\ DOMAIN package = 1 .. Len(package)
  BY DeliveryListed DEF SoundBench
<1>4. R = {} \/ \E r \in DOMAIN p : R = {r}
  <2>1. CASE option.tool = "write_checksum_manifest"
    <3> DEFINE M == Manifests(w)
    <3>1. M \subseteq DOMAIN p
      BY DEF Manifests, Present
    <3>2. M # {} => Min(M) \in M
      <4>1. M \subseteq Int /\ IsFiniteSet(M)
        BY <1>3, <3>1, ListedFinite
      <4> HIDE DEF M
      <4> QED BY <4>1, Extremes
    <3>3. R = IF M = {} THEN {} ELSE {Min(M)}
      BY <2>1 DEF Replaced
    <3> HIDE DEF M
    <3> QED BY <3>1, <3>2, <3>3
  <2>2. CASE option.tool # "write_checksum_manifest"
    <3>1. R = {option.asset} /\ option.asset \in DOMAIN package
      BY <2>2 DEF Replaced, Workable
    <3>2. option.asset \in DOMAIN p
      BY <1>3, <3>1 DEF SoundBench
    <3> QED BY <3>1, <3>2
  <2> QED BY <2>1, <2>2
<1>5. /\ Q \subseteq DOMAIN p /\ n \notin DOMAIN p /\ n \notin w.gone
      /\ Cardinality(Q) >= Len(package)
  BY <1>3 DEF SoundBench, Present
<1> HIDE DEF x, R, Q, e, p
<1>6. Present(e) = (Q \ R) \cup {n}
  BY <1>1, <1>2, <1>4, <1>5 DEF Present, Q, p
<1>7. IsFiniteSet(Q) /\ Cardinality(Q) \in Nat
  BY <1>3, <1>5, ListedFinite
<1>8. /\ IsFiniteSet(Q \ R) /\ Cardinality(Q \ R) \in Nat
      /\ Cardinality(Q \ R) >= Cardinality(Q) - 1
  <2>1. CASE R = {}
    <3>1. Q \ R = Q
      BY <2>1
    <3> QED BY <1>7, <3>1
  <2>2. CASE R # {}
    <3>1. PICK r : R = {r}
      BY <1>4, <2>2
    <3>2. IsFiniteSet(Q \ {r})
          /\ Cardinality(Q \ {r}) = IF r \in Q THEN Cardinality(Q) - 1 ELSE Cardinality(Q)
      BY <1>7, FS_RemoveElement
    <3>3. Cardinality(Q \ {r}) \in Nat
      BY <3>2, FS_CardinalityType
    <3> QED BY <1>7, <3>1, <3>2, <3>3
  <2> QED BY <2>1, <2>2
<1>9. Cardinality((Q \ R) \cup {n}) = Cardinality(Q \ R) + 1
  <2>1. n \notin Q \ R
    BY <1>5
  <2> HIDE DEF n
  <2> QED BY <1>8, <2>1, FS_AddElement
<1>10. Cardinality(Present(e)) >= Len(package)
  BY <1>3, <1>5, <1>6, <1>7, <1>8, <1>9
<1>11. e.gone \subseteq DOMAIN e.all
  BY <1>1, <1>2, <1>4 DEF SoundBench, p
<1>12. Len(package) <= Len(e.all)
  BY <1>1, <1>2, <1>3 DEF SoundBench, p
<1>13. SoundBench(e)
  BY <1>1, <1>2, <1>10, <1>11, <1>12 DEF SoundBench
<1> QED BY <1>13 DEF e

LEMMA WorkbenchSound == ASSUME Delivery(package) PROVE SoundBench(Workbench)
<1>1. Workbench.all = package /\ Workbench.gone = {}
  BY DEF Workbench
<1>2. Listed(package) /\ Len(package) \in Nat
  BY DeliveryListed
<1>3. Present(Workbench) = DOMAIN package
  BY <1>1 DEF Present
<1>4. Cardinality(DOMAIN package) = Len(package)
  BY <1>2, LengthCounts
<1> QED BY <1>1, <1>2, <1>3, <1>4 DEF SoundBench

(* The workbench after a batch is the last of those after each action.        *)
LEMMA AfterUnfolds ==
    ASSUME NEW chosen, NEW failing, NEW count \in Nat
    PROVE  \E works :
              /\ After(chosen, count, failing) = works[count] /\ works[0] = Workbench
              /\ \A n \in 1 .. count :
                    works[n] = Worked(works[n - 1], chosen[n], failing)
<1> DEFINE works == CHOOSE works : Benches(chosen, failing, count, works)
<1>1. After(chosen, count, failing) = works[count]
  BY DEF After, Benches
<1>2. Benches(chosen, failing, count, works)
  BY BenchesExist
<1> HIDE DEF works
<1>3. \A n \in 0 .. count :
         works[n] = IF n = 0 THEN Workbench
                    ELSE IF chosen[n] \in failing THEN works[n - 1]
                    ELSE Execute(works[n - 1], chosen[n])
  BY <1>2 DEF Benches
<1>4. works[0] = Workbench
  BY <1>3
<1>5. \A n \in 1 .. count : works[n] = Worked(works[n - 1], chosen[n], failing)
  BY <1>3 DEF Worked
<1> QED BY <1>1, <1>4, <1>5

(* So a batch of them leaves a sound workbench, whichever fail.               *)
LEMMA AfterSound ==
    ASSUME Delivery(package), NEW chosen, NEW failing, NEW count \in Nat,
           \A n \in 1 .. count : Workable(chosen[n])
    PROVE  SoundBench(After(chosen, count, failing))
<1>1. PICK works :
          /\ After(chosen, count, failing) = works[count] /\ works[0] = Workbench
          /\ \A n \in 1 .. count : works[n] = Worked(works[n - 1], chosen[n], failing)
  BY AfterUnfolds
<1> DEFINE S == {n \in Nat : n <= count => SoundBench(works[n])}
<1>2. 0 \in S
  BY <1>1, WorkbenchSound
<1>3. ASSUME NEW n \in Nat, n \in S PROVE n + 1 \in S
  <2> SUFFICES ASSUME n + 1 <= count PROVE SoundBench(works[n + 1])
    OBVIOUS
  <2>1. SoundBench(works[n]) /\ Workable(chosen[n + 1])
    BY <1>3
  <2>2. SoundBench(Execute(works[n], chosen[n + 1]))
    BY <2>1, ExecuteSound
  <2>3. works[n + 1] = Worked(works[n], chosen[n + 1], failing)
    BY <1>1
  <2> QED BY <2>1, <2>2, <2>3 DEF Worked
<1>4. Nat \subseteq S
  <2> HIDE DEF S
  <2> QED BY <1>2, <1>3, Induction
<1> QED BY <1>1, <1>4

(* A workbench on which nothing sounds or looks other than in the package.    *)
Faithful(x) == Heard(x) = Silence \/ \E a \in DOMAIN package : Heard(x) = Heard(package[a])

Unaltered(w) == \A a \in DOMAIN w.all : Faithful(w.all[a])

Reversible(option) ==
    Workable(option) /\ option.tool # "create_normalized_audio_derivative"

LEMMA ExecuteUnaltered ==
    ASSUME NEW w, SoundBench(w), Unaltered(w), NEW option, Reversible(option)
    PROVE  Unaltered(Execute(w, option))
<1> DEFINE x == Successor(w, option)
           p == w.all
<1>1. /\ IsAsset(x)
      /\ option.tool = "write_checksum_manifest" => Heard(x) = Silence
      /\ option.tool # "write_checksum_manifest" => Heard(x) = Heard(p[option.asset])
  BY SuccessorIsAsset DEF Reversible, Workable, RemedyTools
<1>2. Execute(w, option).all = Append(p, x)
  BY DEF Execute
<1>3. /\ DOMAIN Append(p, x) = (DOMAIN p) \cup {Len(p) + 1}
      /\ \A a \in DOMAIN p : Append(p, x)[a] = p[a]
      /\ Append(p, x)[Len(p) + 1] = x
  <2>1. Delivery(p)
    BY DEF SoundBench
  <2> HIDE DEF x, p
  <2> QED BY <1>1, <2>1, DeliveryGrows
<1>4. Faithful(x)
  <2>1. CASE option.tool = "write_checksum_manifest"
    <3>1. Heard(x) = Silence
      BY <1>1, <2>1
    <3> QED BY <3>1 DEF Faithful
  <2>2. CASE option.tool # "write_checksum_manifest"
    <3>1. option.asset \in DOMAIN p
      BY <2>2, DeliveryListed DEF Reversible, Workable, SoundBench
    <3>2. Faithful(p[option.asset])
      BY <3>1 DEF Unaltered
    <3> HIDE DEF x
    <3> QED BY <1>1, <2>2, <3>2 DEF Faithful
  <2> QED BY <2>1, <2>2
<1> HIDE DEF x, p
<1>5. \A a \in DOMAIN p : Faithful(p[a])
  BY DEF Unaltered, p
<1> QED BY <1>2, <1>3, <1>4, <1>5 DEF Unaltered

LEMMA AfterUnaltered ==
    ASSUME Delivery(package), NEW chosen, NEW failing, NEW count \in Nat,
           \A n \in 1 .. count : Reversible(chosen[n])
    PROVE  Unaltered(After(chosen, count, failing))
<1>1. PICK works :
          /\ After(chosen, count, failing) = works[count] /\ works[0] = Workbench
          /\ \A n \in 1 .. count : works[n] = Worked(works[n - 1], chosen[n], failing)
  BY AfterUnfolds
<1> DEFINE S == {n \in Nat : n <= count => SoundBench(works[n]) /\ Unaltered(works[n])}
<1>2. 0 \in S
  <2>1. Unaltered(Workbench)
    BY DEF Unaltered, Faithful, Workbench
  <2> QED BY <1>1, <2>1, WorkbenchSound
<1>3. ASSUME NEW n \in Nat, n \in S PROVE n + 1 \in S
  <2> SUFFICES ASSUME n + 1 <= count PROVE SoundBench(works[n + 1]) /\ Unaltered(works[n + 1])
    OBVIOUS
  <2>1. SoundBench(works[n]) /\ Unaltered(works[n]) /\ Reversible(chosen[n + 1])
    BY <1>3
  <2>2. SoundBench(Execute(works[n], chosen[n + 1])) /\ Unaltered(Execute(works[n], chosen[n + 1]))
    BY <2>1, ExecuteSound, ExecuteUnaltered DEF Reversible
  <2>3. works[n + 1] = Worked(works[n], chosen[n + 1], failing)
    BY <1>1
  <2> QED BY <2>1, <2>2, <2>3 DEF Worked
<1>4. Nat \subseteq S
  <2> HIDE DEF S
  <2> QED BY <1>2, <1>3, Induction
<1> QED BY <1>1, <1>4

(* What lies on it is a delivery again, of no fewer assets (current_assets).  *)
LEMMA CurrentIsDelivery ==
    ASSUME Delivery(package), NEW w, SoundBench(w)
    PROVE  /\ Delivery(CurrentAssets(w)) /\ Len(package) <= Len(CurrentAssets(w))
           /\ Unaltered(w) => \A a \in DOMAIN CurrentAssets(w) : Faithful(CurrentAssets(w)[a])
<1> DEFINE Q == Present(w)
           c == CurrentAssets(w)
           p == w.all
<1>1. Q \subseteq DOMAIN p /\ Listed(p) /\ Len(package) \in Nat /\ Len(package) > 0
  BY DeliveryListed DEF Present, SoundBench, Delivery
<1>2. Q \subseteq Int /\ IsFiniteSet(Q)
  BY <1>1, ListedFinite
<1>3. /\ DOMAIN Kept(p, Q) = 1 .. Cardinality(Q) /\ Cardinality(Q) \in Nat
      /\ Range(Kept(p, Q)) = {p[i] : i \in Q}
  <2> HIDE DEF Q, p
  <2> QED BY <1>2, KeptFrom
<1>4. c = Kept(p, Q) /\ c = [n \in DOMAIN c |-> c[n]]
  BY DEF CurrentAssets, Kept
<1>5. Cardinality(Q) >= Len(package)
  BY DEF SoundBench
<1>6. \A a \in DOMAIN p : IsAsset(p[a])
  BY DEF SoundBench, Delivery
<1> HIDE DEF Q, p, c
<1>7. DOMAIN c = 1 .. Cardinality(Q) /\ Listed(c)
  BY <1>3, <1>4 DEF Listed
<1>8. Len(c) = Cardinality(Q)
  BY <1>3, <1>7, LengthCounts
<1>9. c \in Seq(Range(c))
  BY <1>4, <1>7, ListedIsSeq, Zenon
<1>10. ASSUME NEW a \in DOMAIN c PROVE IsAsset(c[a]) /\ (Unaltered(w) => Faithful(c[a]))
  <2>1. c[a] \in Range(c)
    BY DEF Range
  <2>2. PICK i \in Q : c[a] = p[i]
    BY <1>3, <1>4, <2>1
  <2>3. Unaltered(w) => Faithful(p[i])
    BY <1>1, <2>2 DEF Unaltered, p
  <2> QED BY <1>1, <1>6, <2>2, <2>3
<1>11. Delivery(c) /\ Len(package) <= Len(c)
  BY <1>1, <1>3, <1>5, <1>8, <1>9, <1>10 DEF Delivery
<1> QED BY <1>10, <1>11 DEF c

-----------------------------------------------------------------------------
(* A finding is about an asset, and offers a remedy of the four if any. *)
FindingSound(f) ==
    /\ f.asset \in DOMAIN package
    /\ f.options # <<>> => /\ Range(f.options) = {f.options[1]}
                           /\ f.options[1][1] \in RemedyTools

FindingsSound == \A k \in DOMAIN findings : FindingSound(findings[k])

(* The option of a sound finding can be worked on.                            *)
LEMMA OptionWorkable ==
    ASSUME NEW f, FindingSound(f), f.options # <<>> PROVE Workable(Option(f))
<1>1. Option(f).tool = f.options[1][1]
      /\ (f.options[1][1] # "write_checksum_manifest" => Option(f).asset = f.asset)
  BY DEF Option
<1> QED BY <1>1 DEF Workable, FindingSound

(* A requirement is measured on an asset of the package, and its finding      *)
(* offers what the catalogue knows (_inspect, _options).                      *)
LEMMA FoundSound ==
    ASSUME Delivery(package), NEW r, NEW withheld PROVE FindingSound(Finding(r, withheld))
<1> DEFINE scoped == ScopedAssets(package, r.role)
<1>1. Target(r) \in DOMAIN package
  <2>1. scoped \subseteq DOMAIN package
    BY DEF ScopedAssets
  <2>2. scoped # {} => Min(scoped) \in scoped
    <3>1. scoped \subseteq Int /\ IsFiniteSet(scoped)
      BY <2>1, ListedFinite, DeliveryListed
    <3> HIDE DEF scoped
    <3> QED BY <3>1, Extremes
  <2>3. Target(r) = IF scoped = {} THEN 1 ELSE Min(scoped)
    BY DEF Target
  <2> HIDE DEF scoped
  <2> QED BY <2>1, <2>2, <2>3, DeliveryListed
<1>2. \/ RemedyOf(r) = <<>>
      \/ Range(RemedyOf(r)) = {RemedyOf(r)[1]} /\ RemedyOf(r)[1][1] \in RemedyTools
  <2>1. RemedyOf(r) = <<>>
        \/ \E tool \in RemedyTools : \E word : RemedyOf(r) = << <<tool, word>> >>
    BY DEF RemedyOf, RemedyTools
  <2>2. ASSUME NEW tool, NEW word, RemedyOf(r) = << <<tool, word>> >>
        PROVE  Range(RemedyOf(r)) = {RemedyOf(r)[1]} /\ RemedyOf(r)[1][1] = tool
    BY <2>2 DEF Range
  <2> QED BY <2>1, <2>2
<1>3. OptionsOf(r, withheld) \in {<<>>, RemedyOf(r)}
  BY DEF OptionsOf
<1> QED BY <1>1, <1>2, <1>3 DEF Finding, FindingSound

(* What an accepted answer chooses are options of open findings, and finitely *)
(* many.                                                                      *)
LEMMA ChosenWorkable ==
    ASSUME RunStands, stage = "FINDINGS_READY", FindingsSound,
           NEW items, DiagnosisAccepted(items, findings),
           NEW disposition \in {"APPLIED", "ESCALATE"}
    PROVE  /\ \A o \in Chosen(items, disposition) : Workable(o)
           /\ IsFiniteSet(Chosen(items, disposition))
           /\ disposition = "APPLIED" => \A o \in Chosen(items, disposition) : Reversible(o)
           /\ disposition = "ESCALATE" /\ Chosen(items, disposition) # {} =>
                 ~TierOneAvailable(findings)
<1> DEFINE options == Chosen(items, disposition)
           ids == OpenIds(findings)
           latest(id) == {i \in DOMAIN findings : findings[i].requirement = id}
<1>1. Listed(findings)
      /\ \A k, l \in DOMAIN findings :
            findings[k].requirement = findings[l].requirement => findings[k] = findings[l]
  BY DEF RunStands, FindingsStand
<1>2. ASSUME NEW id \in ids
      PROVE  \E k \in DOMAIN findings :
                findings[k].requirement = id /\ FindingOf(id) = findings[k]
  <2> DEFINE L == latest(id)
  <2>1. L \subseteq Int /\ IsFiniteSet(L)
    BY <1>1, ListedFinite
  <2>2. L # {}
    BY DEF OpenIds
  <2>3. Max(L) \in L
    <3> HIDE DEF L
    <3> QED BY <2>1, <2>2, Extremes
  <2>4. FindingOf(id) = findings[Max(L)]
    BY DEF FindingOf
  <2> QED BY <2>3, <2>4
<1>3. ASSUME NEW i \in DOMAIN items, items[i].disposition = disposition
      PROVE  /\ items[i].finding \in ids /\ FindingOf(items[i].finding).options # <<>>
             /\ disposition = "APPLIED" =>
                   Tier(FindingOf(items[i].finding).options[1][1]) = 1
             /\ disposition = "ESCALATE" => ~TierOneAvailable(findings)
  <2> DEFINE id == items[i].finding
             offered == {o \in OfferedTo(findings, id) : o.id = items[i].option}
             last == CHOOSE j \in DOMAIN findings :
                        /\ findings[j].requirement = id
                        /\ \A l \in DOMAIN findings : findings[l].requirement = id => l <= j
             f == findings[last]
  <2>1. id \in ids
    BY DEF DiagnosisAccepted
  <2>2. \E o \in offered : o.tier = IF disposition = "APPLIED" THEN 1 ELSE 2
    <3>1. (CASE items[i].disposition = "NO_ACTION" -> items[i].option = <<>>
             [] items[i].disposition = "APPLIED"  -> \E o \in offered : o.tier = 1
             [] items[i].disposition = "ESCALATE" -> \E o \in offered : o.tier = 2)
      BY Zenon DEF DiagnosisAccepted
    <3> HIDE DEF offered
    <3>2. CASE disposition = "APPLIED"
      BY <1>3, <3>1, <3>2
    <3>3. CASE disposition = "ESCALATE"
      BY <1>3, <3>1, <3>3
    <3> QED BY <3>2, <3>3
  <2>3. OfferedTo(findings, id) = {[id |-> OptionId(f, o), tier |-> Tier(o[1])]
                                      : o \in ExposedOptions(findings, f)}
    BY Zenon DEF OfferedTo
  <2>4. PICK o \in ExposedOptions(findings, f) :
            Tier(o[1]) = IF disposition = "APPLIED" THEN 1 ELSE 2
    <3> HIDE DEF f
    <3> QED BY <2>2, <2>3
  <2>5. /\ o \in Range(f.options) /\ f.options # <<>>
        /\ Tier(o[1]) = IF TierOneAvailable(findings) THEN 1 ELSE 2
    <3>1. o \in Range(f.options) /\ Tier(o[1]) = IF TierOneAvailable(findings) THEN 1 ELSE 2
      BY <2>4 DEF ExposedOptions
    <3> HIDE DEF f
    <3>2. o \in {f.options[k] : k \in DOMAIN f.options}
      BY <3>1 DEF Range
    <3>3. DOMAIN f.options # {}
      BY <3>2
    <3> QED BY <3>1, <3>3
  <2>6. last \in DOMAIN findings /\ findings[last].requirement = id
    <3> DEFINE L == latest(id)
    <3>1. L \subseteq Int /\ IsFiniteSet(L) /\ L # {}
      BY <1>1, <2>1, ListedFinite DEF OpenIds
    <3>2. Max(L) \in L /\ \A l \in L : l <= Max(L)
      <4> HIDE DEF L
      <4> QED BY <3>1, Extremes
    <3>3. \E j \in DOMAIN findings :
             /\ findings[j].requirement = id
             /\ \A l \in DOMAIN findings : findings[l].requirement = id => l <= j
      BY <3>2
    <3> QED BY <3>3, Zenon
  <2>7. PICK k \in DOMAIN findings :
            findings[k].requirement = id /\ FindingOf(id) = findings[k]
    BY <1>2, <2>1
  <2>8. FindingOf(id) = f
    BY <1>1, <2>6, <2>7
  <2>9. o = f.options[1]
    <3>1. Range(f.options) = {f.options[1]}
      BY <2>5, <2>6 DEF FindingsSound, FindingSound
    <3> QED BY <2>5, <3>1
  <2> HIDE DEF f
  <2>10. disposition = "APPLIED" => Tier(f.options[1][1]) = 1
    BY <2>4, <2>9
  <2>11. disposition = "ESCALATE" => ~TierOneAvailable(findings)
    BY <2>4, <2>5
  <2> QED BY <2>1, <2>5, <2>8, <2>10, <2>11
<1>4. ASSUME NEW o \in options
      PROVE  /\ Workable(o) /\ o \in {Option(FindingOf(id)) : id \in ids}
             /\ disposition = "APPLIED" => Reversible(o)
             /\ disposition = "ESCALATE" => ~TierOneAvailable(findings)
  <2>1. PICK i \in DOMAIN items :
            items[i].disposition = disposition /\ o = Option(FindingOf(items[i].finding))
    BY DEF Chosen
  <2> DEFINE id == items[i].finding
  <2>2. id \in ids /\ FindingOf(id).options # <<>>
    BY <1>3, <2>1
  <2>3. FindingSound(FindingOf(id))
    BY <1>2, <2>2 DEF FindingsSound
  <2>4. Workable(Option(FindingOf(id)))
    BY <2>2, <2>3, OptionWorkable
  <2>5. disposition = "APPLIED" => o.tool # "create_normalized_audio_derivative"
    <3>1. Tier("create_normalized_audio_derivative") = 2
      BY DEF Tier, InspectionTools, KeysOfTool
    <3>2. o.tool = FindingOf(id).options[1][1]
      BY <2>1 DEF Option
    <3> QED BY <1>3, <2>1, <3>1, <3>2
  <2>6. disposition = "ESCALATE" => ~TierOneAvailable(findings)
    BY <1>3, <2>1
  <2> QED BY <2>1, <2>2, <2>4, <2>5, <2>6 DEF Reversible
<1>5. IsFiniteSet(options)
  <2> DEFINE all == {Option(FindingOf(findings[k].requirement)) : k \in DOMAIN findings}
  <2>1. IsFiniteSet(DOMAIN findings)
    BY <1>1, ListedFinite
  <2>2. IsFiniteSet(all)
    <3> DEFINE at == [k \in DOMAIN findings |-> Option(FindingOf(findings[k].requirement))]
    <3>1. at \in Surjection(DOMAIN findings, all)
      BY DEF Surjection
    <3> HIDE DEF at, all
    <3> QED BY <2>1, <3>1, FS_Surjection
  <2>3. options \subseteq all
    <3>1. \A o \in options : \E k \in DOMAIN findings :
             o = Option(FindingOf(findings[k].requirement))
      BY <1>4 DEF OpenIds
    <3> HIDE DEF options
    <3> QED BY <3>1
  <2> HIDE DEF options, all
  <2> QED BY <2>2, <2>3, FS_Subset
<1> QED BY <1>4, <1>5

(* The option a human is asked about.                                         *)
LEMMA AskedWorkable ==
    ASSUME RunStands, stage = "AWAITING_HUMAN_DECISION", FindingsSound
    PROVE  Workable(Option(FindingOf(request[1])))
<1>1. PICK k \in DOMAIN findings :
          request = <<findings[k].requirement>> /\ findings[k].options # <<>>
  BY DEF RunStands, RequestStands
<1> DEFINE id == findings[k].requirement
           L == {i \in DOMAIN findings : findings[i].requirement = id}
<1>2. Listed(findings)
      /\ \A i, j \in DOMAIN findings :
            findings[i].requirement = findings[j].requirement => findings[i] = findings[j]
  BY DEF RunStands, FindingsStand
<1>3. Max(L) \in L
  <2>1. L \subseteq Int /\ IsFiniteSet(L) /\ L # {}
    BY <1>2, ListedFinite
  <2> HIDE DEF L
  <2> QED BY <2>1, Extremes
<1>4. FindingOf(request[1]) = findings[Max(L)]
  BY <1>1 DEF FindingOf
<1>5. FindingOf(request[1]) = findings[k]
  BY <1>2, <1>3, <1>4
<1> QED BY <1>1, <1>5, OptionWorkable DEF FindingsSound

(* A batch of reversible remedies leaves a delivery of no fewer assets, in    *)
(* which nothing looks or sounds other than before.                           *)
LEMMA AppliedIsDelivery ==
    ASSUME Delivery(package), NEW options, IsFiniteSet(options),
           \A o \in options : Reversible(o), ApplyTierOne(options)
    PROVE  /\ Delivery(package') /\ Len(package) <= Len(package')
           /\ \A a \in DOMAIN package' : Faithful(package'[a])
<1>1. PICK chosen \in Batched(options), failing \in SUBSET options :
          LET stuck == {i \in DOMAIN chosen : Stuck(chosen[i])}
              last  == IF stuck = {} THEN Len(chosen) ELSE Min(stuck) - 1
              work  == After(chosen, last, failing)
          IN  IF raised' THEN package' = CurrentAssets(work)
              ELSE \E done \in Refreshed(work) : package' = CurrentAssets(done)
  BY Zenon DEF ApplyTierOne
<1> DEFINE stuck == {i \in DOMAIN chosen : Stuck(chosen[i])}
           last  == IF stuck = {} THEN Len(chosen) ELSE Min(stuck) - 1
           work  == After(chosen, last, failing)
<1>2. /\ chosen \in [1 .. Cardinality(options) -> options] /\ Cardinality(options) \in Nat
      /\ Listed(chosen)
  <2>1. chosen \in [1 .. Cardinality(options) -> options]
    BY DEF Batched, SetToSeqs
  <2>2. Cardinality(options) \in Nat
    BY FS_CardinalityType
  <2> QED BY <2>1, <2>2 DEF Listed
<1>3. last \in Nat /\ \A n \in 1 .. last : n \in DOMAIN chosen
  <2>1. stuck \subseteq Int /\ IsFiniteSet(stuck)
    BY <1>2, ListedFinite
  <2>2. stuck # {} => Min(stuck) \in stuck
    <3> HIDE DEF stuck
    <3> QED BY <2>1, Extremes
  <2>3. stuck \subseteq DOMAIN chosen
    OBVIOUS
  <2>4. Len(chosen) \in Nat /\ DOMAIN chosen = 1 .. Len(chosen)
    BY <1>2, LengthCounts
  <2> HIDE DEF stuck
  <2> QED BY <2>2, <2>3, <2>4
<1>4. \A n \in 1 .. last : Reversible(chosen[n]) /\ Workable(chosen[n])
  <2>1. \A o \in options : Workable(o)
    BY DEF Reversible
  <2> HIDE DEF last
  <2> QED BY <1>2, <1>3, <2>1
<1>5. SoundBench(work) /\ Unaltered(work)
  <2> HIDE DEF last
  <2> QED BY <1>3, <1>4, AfterSound, AfterUnaltered
<1>6. \A w \in Refreshed(work) : SoundBench(w) /\ Unaltered(w)
  <2>1. Workable(RefreshOption) /\ Reversible(RefreshOption)
    BY DEF Workable, Reversible, RefreshOption, RemedyTools
  <2>2. Refreshed(work) \subseteq {work, Execute(work, RefreshOption)}
    BY DEF Refreshed
  <2> HIDE DEF work
  <2> QED BY <1>5, <2>1, <2>2, ExecuteSound, ExecuteUnaltered
<1>7. PICK w : SoundBench(w) /\ Unaltered(w) /\ package' = CurrentAssets(w)
  <2> HIDE DEF work
  <2>1. IF raised' THEN package' = CurrentAssets(work)
        ELSE \E done \in Refreshed(work) : package' = CurrentAssets(done)
    BY <1>1, Zenon DEF work
  <2> QED BY <1>5, <1>6, <2>1
<1> QED BY <1>7, CurrentIsDelivery

(* And so does an approved one, whether or not it can be carried out.         *)
LEMMA ApprovedIsDelivery ==
    ASSUME Delivery(package), RunStands, FindingsSound, Approve
    PROVE  Delivery(package') /\ Len(package) <= Len(package')
<1> DEFINE option == Option(FindingOf(request[1]))
           made   == Execute(Workbench, option)
<1>1. \/ \E done \in Refreshed(made) : package' = CurrentAssets(done)
      \/ UNCHANGED package
  BY DEF Approve
<1>2. Workable(option)
  BY AskedWorkable DEF Approve
<1>3. SoundBench(made)
  <2> HIDE DEF option
  <2> QED BY <1>2, WorkbenchSound, ExecuteSound
<1>4. \A w \in Refreshed(made) : SoundBench(w)
  <2>1. Workable(RefreshOption)
    BY DEF Workable, RefreshOption, RemedyTools
  <2>2. Refreshed(made) \subseteq {made, Execute(made, RefreshOption)}
    BY DEF Refreshed
  <2> HIDE DEF made
  <2> QED BY <1>3, <2>1, <2>2, ExecuteSound
<1>5. CASE UNCHANGED package
  <2>1. Len(package) \in Nat
    BY DeliveryListed
  <2> QED BY <1>5, <2>1 DEF Delivery
<1>6. CASE \E done \in Refreshed(made) : package' = CurrentAssets(done)
  <2> HIDE DEF made
  <2> QED BY <1>4, <1>6, CurrentIsDelivery
<1> QED BY <1>1, <1>5, <1>6

-----------------------------------------------------------------------------
(* The types, with what keeps them: a package never gets smaller, so that a   *)
(* check stays about an asset of it, and attempts and cycles have their bounds.*)
TypesStand ==
    /\ stage \in Stages /\ raised \in BOOLEAN
    /\ attempts \in 0 .. MaxAttempts
    /\ stage = "INTERPRETING" /\ ~raised => attempts < MaxAttempts
    /\ Delivery(package)
    /\ \A i \in DOMAIN checks : checks[i].asset \in DOMAIN package
    /\ \A i \in DOMAIN predicates :
          predicates[i].outcome \in {"PASS", "FAIL", "NOT_EVALUATED"}
    /\ Listed(findings) /\ Listed(predicates) /\ Len(findings) <= Len(predicates)
    /\ Len(verdict) <= 1
    /\ stage \in {"FINDINGS_READY", "AWAITING_HUMAN_DECISION"} => FindingsSound /\ ~raised
    /\ cycle \in 0 .. MaxCycles
    /\ stage = "AWAITING_HUMAN_DECISION" => cycle < MaxCycles

LEMMA TypesAtFirst == ASSUME RunInit, IntakeAssumption, RemediesAssumption PROVE TypesStand
<1>1. /\ stage = "INTERPRETING" /\ raised = FALSE /\ attempts = 0 /\ package \in Packages
      /\ checks = <<>> /\ predicates = <<>> /\ findings = <<>> /\ verdict = <<>> /\ cycle = 0
  BY DEF RunInit, Init
<1>2. Delivery(package)
  BY <1>1 DEF IntakeAssumption, Delivery, IsAsset
<1>3. /\ Listed(<<>>) /\ Len(<<>>) = 0 /\ DOMAIN <<>> = {}
  <2>1. DOMAIN <<>> = 1 .. 0 /\ 0 \in Nat
    OBVIOUS
  <2>2. Listed(<<>>)
    BY <2>1, Zenon DEF Listed
  <2> QED BY <2>2
<1>4. stage \in Stages /\ raised \in BOOLEAN /\ stage # "AWAITING_HUMAN_DECISION"
      /\ stage \notin {"FINDINGS_READY", "AWAITING_HUMAN_DECISION"}
  BY <1>1 DEF Stages
<1>5. attempts \in 0 .. MaxAttempts /\ attempts < MaxAttempts /\ cycle \in 0 .. MaxCycles
  BY <1>1 DEF IntakeAssumption, RemediesAssumption
<1>6. /\ Listed(findings) /\ Listed(predicates) /\ Len(findings) <= Len(predicates)
      /\ Len(verdict) <= 1
  BY <1>1, <1>3
<1> QED BY <1>1, <1>2, <1>3, <1>4, <1>5, <1>6 DEF TypesStand

(* The record of an inspection has a known outcome everywhere. *)
LEMMA OutcomesKnown ==
    ASSUME NEW n \in DOMAIN Measured
    PROVE  Measured[n].outcome \in {"PASS", "FAIL", "NOT_EVALUATED"}
<1> DEFINE r == ByRequirement(InspectedIds[n])
<1>1. Measured[n] = Predicate(r)
  BY DEF Measured
<1>2. Predicate(r).outcome = EvaluatePredicate(FactFor(r), r.constraint[1])
  BY DEF Predicate
<1> QED BY <1>1, <1>2 DEF EvaluatePredicate

(* Fewer findings than predicates, each sound. *)
LEMMA FindingsCounted ==
    ASSUME WellAdmitted, PlanInHand, Delivery(package), NEW withheld
    PROVE  /\ Listed(FindingsOf(withheld)) /\ Listed(Measured)
           /\ Len(FindingsOf(withheld)) <= Len(Measured)
           /\ \A k \in DOMAIN FindingsOf(withheld) : FindingSound(FindingsOf(withheld)[k])
<1> DEFINE I == {n \in DOMAIN Measured : Measured[n].outcome # "PASS"}
           failed == Kept(Measured, I)
           found == FindingsOf(withheld)
<1>1. found = [k \in DOMAIN failed |-> Finding(ByRequirement(failed[k].requirement), withheld)]
  BY DEF FindingsOf
<1>2. Listed(Measured)
  BY InspectedBear DEF Measured, Listed
<1>3. I \subseteq Int /\ IsFiniteSet(I)
  BY <1>2, ListedFinite
<1>4. DOMAIN failed = 1 .. Cardinality(I) /\ Cardinality(I) \in Nat
  <2> HIDE DEF I
  <2> QED BY <1>3, KeptFrom
<1>5. DOMAIN found = 1 .. Cardinality(I)
  <2> HIDE DEF failed, found
  <2> QED BY <1>1, <1>4
<1>6. Listed(found)
  <2> HIDE DEF found, I
  <2> QED BY <1>4, <1>5 DEF Listed
<1>7. Len(found) = Cardinality(I)
  <2>1. Len(found) \in Nat /\ DOMAIN found = 1 .. Len(found)
    <3> HIDE DEF found
    <3> QED BY <1>6, LengthCounts
  <2>2. Cardinality(DOMAIN found) = Len(found) /\ Cardinality(1 .. Cardinality(I)) = Cardinality(I)
    <3> HIDE DEF found, I
    <3> QED BY <1>4, <1>6, LengthCounts, FS_Interval
  <2> HIDE DEF found, I
  <2> QED BY <1>5, <2>2
<1>8. Cardinality(I) <= Len(Measured)
  <2>1. IsFiniteSet(DOMAIN Measured) /\ Cardinality(DOMAIN Measured) = Len(Measured)
    BY <1>2, ListedFinite, LengthCounts
  <2>2. I \subseteq DOMAIN Measured
    OBVIOUS
  <2> HIDE DEF I
  <2> QED BY <2>1, <2>2, FS_Subset
<1>9. ASSUME NEW k \in DOMAIN found PROVE FindingSound(found[k])
  <2>1. found[k] = Finding(ByRequirement(failed[k].requirement), withheld)
    <3> HIDE DEF failed, found
    <3> QED BY <1>1
  <2> QED BY <2>1, FoundSound
<1>10. Len(found) <= Len(Measured)
  <2> HIDE DEF found, I
  <2> QED BY <1>7, <1>8
<1> QED BY <1>2, <1>6, <1>9, <1>10 DEF found

(* A package that grows keeps the checks about assets of it. *)
LEMMA ChecksStayInPackage ==
    ASSUME TypesStand, Delivery(package'), Len(package) <= Len(package'), UNCHANGED checks
    PROVE  \A i \in DOMAIN checks' : checks'[i].asset \in DOMAIN package'
<1>1. /\ DOMAIN package = 1 .. Len(package) /\ Len(package) \in Nat
      /\ DOMAIN package' = 1 .. Len(package') /\ Len(package') \in Nat
  BY DeliveryListed DEF TypesStand
<1> QED BY <1>1 DEF TypesStand

(* The findings of a run that gives up or is denied lose options, not places. *)
LEMMA WithdrawnListed ==
    ASSUME TypesStand, DOMAIN findings' = DOMAIN findings, UNCHANGED predicates
    PROVE  Listed(findings') /\ Listed(predicates') /\ Len(findings') <= Len(predicates')
<1>1. Listed(findings) /\ Listed(findings')
  BY DEF TypesStand, Listed
<1>2. Len(findings) = Cardinality(DOMAIN findings) /\ Len(findings') = Cardinality(DOMAIN findings')
  BY <1>1, LengthCounts
<1>3. Listed(predicates) /\ Len(findings) <= Len(predicates)
  BY DEF TypesStand
<1>4. Listed(predicates')
  BY <1>3
<1> QED BY <1>1, <1>2, <1>3, <1>4

(* What is left alone keeps its type.                                         *)
LEMMA TypesFrame ==
    ASSUME TypesStand, UNCHANGED <<package, checks, predicates, findings, verdict, cycle>>,
           raised' \in BOOLEAN, stage' \in Stages, attempts' \in 0 .. MaxAttempts,
           stage' = "INTERPRETING" /\ ~raised' => attempts' < MaxAttempts,
           stage' \in {"FINDINGS_READY", "AWAITING_HUMAN_DECISION"} => FindingsSound /\ ~raised',
           stage' = "AWAITING_HUMAN_DECISION" => cycle < MaxCycles
    PROVE  TypesStand'
<1>1. FindingsSound => FindingsSound'
  BY DEF FindingsSound, FindingSound
<1>2. Delivery(package')
  BY DEF TypesStand
<1>3. Listed(findings') /\ Listed(predicates') /\ Len(findings') <= Len(predicates')
  BY DEF TypesStand
<1>4. \A i \in DOMAIN checks' : checks'[i].asset \in DOMAIN package'
  BY DEF TypesStand
<1>5. \A i \in DOMAIN predicates' : predicates'[i].outcome \in {"PASS", "FAIL", "NOT_EVALUATED"}
  BY DEF TypesStand
<1>6. Len(verdict') <= 1 /\ cycle' \in 0 .. MaxCycles
  BY DEF TypesStand
<1>7. stage' = "AWAITING_HUMAN_DECISION" => cycle' < MaxCycles
  OBVIOUS
<1> QED BY <1>1, <1>2, <1>3, <1>4, <1>5, <1>6, <1>7 DEF TypesStand

LEMMA TypesAdmitted ==
    ASSUME TypesStand, RunStands, IntakeAssumption, InterpretationAdmitted,
           UNCHANGED remedyVars
    PROVE  TypesStand'
<1>1. PICK b \in Batches :
          LET admitted == MarkContradictions(Admitted(b))
          IN  /\ stage = "INTERPRETING"
              /\ raised' = DerivationFails(admitted, package)
              /\ IF raised' THEN UNCHANGED <<stage, attempts, checks>>
                 ELSE /\ stage' = "REQUIREMENTS_ADMITTED" /\ attempts' = 0
                      /\ checks' = DeriveRequiredChecks(admitted, package)
              /\ UNCHANGED <<package, order, predicates, findings, verdict>>
  BY DEF InterpretationAdmitted, Admitted
<1> DEFINE rs == MarkContradictions(Admitted(b))
<1>2. ~DerivationFails(rs, package)
  BY DerivationSucceeds
<1>3. /\ stage' = "REQUIREMENTS_ADMITTED" /\ attempts' = 0 /\ raised' = FALSE
      /\ checks' = DeriveRequiredChecks(rs, package)
      /\ UNCHANGED <<package, predicates, findings, verdict>> /\ UNCHANGED cycle
  <2>1. UNCHANGED cycle
    BY DEF remedyVars
  <2>2. raised' = FALSE
    BY <1>1, <1>2
  <2> QED BY <1>1, <2>1, <2>2
<1>4. Listed(rs)
  <2>1. DOMAIN rs = DOMAIN b
    <3>1. DOMAIN Admitted(b) = DOMAIN b
      BY DEF Admitted
    <3>2. DOMAIN rs = DOMAIN Admitted(b)
      BY DEF MarkContradictions
    <3> QED BY <3>1, <3>2
  <2>2. b \in Seq(Range(b))
    BY DEF IntakeAssumption
  <2>3. DOMAIN b = 1 .. Len(b) /\ Len(b) \in Nat
    BY <2>2
  <2> QED BY <2>1, <2>3 DEF Listed
<1>5. Listed(package)
  BY DeliveryListed DEF TypesStand
<1> HIDE DEF rs
<1>6. \A i \in DOMAIN checks' : checks'[i].asset \in DOMAIN package'
  <2>1. \A n \in DOMAIN checks' :
           \E i \in DOMAIN rs, a \in DOMAIN package : checks'[n] = RequiredCheck(rs[i], a)
    BY <1>3, <1>4, <1>5, DerivedStand
  <2>2. \A r, a : RequiredCheck(r, a).asset = a
    BY DEF RequiredCheck
  <2> QED BY <1>3, <2>1, <2>2
<1>7. Listed(findings') /\ Listed(predicates') /\ Len(findings') <= Len(predicates')
  BY <1>3 DEF TypesStand
<1>8. Delivery(package') /\ Len(verdict') <= 1 /\ cycle' \in 0 .. MaxCycles
  BY <1>3 DEF TypesStand
<1>9. \A i \in DOMAIN predicates' : predicates'[i].outcome \in {"PASS", "FAIL", "NOT_EVALUATED"}
  BY <1>3 DEF TypesStand
<1>10. stage' \in Stages /\ raised' \in BOOLEAN /\ attempts' \in 0 .. MaxAttempts
  <2>1. 0 \in 0 .. MaxAttempts
    BY DEF IntakeAssumption
  <2>2. stage' \in Stages
    BY <1>3 DEF Stages
  <2> QED BY <1>3, <2>1, <2>2
<1> QED BY <1>3, <1>6, <1>7, <1>8, <1>9, <1>10 DEF TypesStand

LEMMA TypesInspected ==
    ASSUME TypesStand, WellAdmitted, RunStands, NEW withheld, Inspection(withheld),
           UNCHANGED cycle, stage \in {"QC_PLANNED", "INSPECTING"}
    PROVE  TypesStand'
<1>1. PlanInHand
  BY DEF RunStands, PlanningStands, BeforePlan, PlanInHand
<1>2. UNCHANGED <<attempts, package, checks, verdict, cycle>> /\ raised' \in BOOLEAN
  BY DEF Inspection
<1>3. CASE raised'
  <2>1. stage' = "INSPECTING" /\ UNCHANGED <<predicates, findings>>
    BY <1>3 DEF Inspection
  <2>2. stage' \in Stages /\ attempts' \in 0 .. MaxAttempts
    BY <1>2, <2>1 DEF Stages, TypesStand
  <2> QED BY <1>2, <2>1, <2>2, TypesFrame
<1>4. CASE ~raised'
  <2>1. /\ stage' = "FINDINGS_READY" /\ predicates' = Measured
        /\ findings' = FindingsOf(withheld)
    BY <1>4 DEF Inspection, Measured, FindingsOf
  <2>2. /\ Listed(findings') /\ Listed(predicates') /\ Len(findings') <= Len(predicates')
        /\ \A k \in DOMAIN findings' : FindingSound(findings'[k])
    BY <1>1, <2>1, FindingsCounted DEF TypesStand
  <2>3. FindingsSound'
    BY <1>2, <2>2 DEF FindingsSound, FindingSound
  <2>4. \A i \in DOMAIN predicates' : predicates'[i].outcome \in {"PASS", "FAIL", "NOT_EVALUATED"}
    BY <2>1, OutcomesKnown
  <2>5. /\ Delivery(package') /\ Len(verdict') <= 1 /\ cycle' \in 0 .. MaxCycles
        /\ \A i \in DOMAIN checks' : checks'[i].asset \in DOMAIN package'
    BY <1>2 DEF TypesStand
  <2>6. stage' \in Stages /\ attempts' \in 0 .. MaxAttempts
    BY <1>2, <2>1 DEF Stages, TypesStand
  <2> QED BY <1>2, <1>4, <2>1, <2>2, <2>3, <2>4, <2>5, <2>6 DEF TypesStand
<1> QED BY <1>3, <1>4

(* A verdict or a denial: findings lose their options, and the run ends.      *)
LEMMA TypesEnded ==
    ASSUME TypesStand, stage' \in {"DELIVERY_READY", "BLOCKED"},
           DOMAIN findings' = DOMAIN findings, Len(verdict') <= 1,
           UNCHANGED <<raised, attempts, package, checks, predicates, cycle>>
    PROVE  TypesStand'
<1>1. Listed(findings') /\ Listed(predicates') /\ Len(findings') <= Len(predicates')
  BY WithdrawnListed
<1>2. stage' \in Stages /\ raised' \in BOOLEAN /\ attempts' \in 0 .. MaxAttempts
  BY DEF Stages, TypesStand
<1>3. /\ Delivery(package') /\ cycle' \in 0 .. MaxCycles
      /\ \A i \in DOMAIN checks' : checks'[i].asset \in DOMAIN package'
      /\ \A i \in DOMAIN predicates' : predicates'[i].outcome \in {"PASS", "FAIL", "NOT_EVALUATED"}
  BY DEF TypesStand
<1> QED BY <1>1, <1>2, <1>3 DEF TypesStand

(* A remedy, carried out or not: the package does not shrink.                 *)
LEMMA TypesRemedied ==
    ASSUME TypesStand, Delivery(package'), Len(package) <= Len(package'),
           stage' \in {"REMEDIATING", "INSPECTING"}, raised' \in BOOLEAN,
           cycle < MaxCycles, RemediesAssumption, cycle' \in {cycle, cycle + 1},
           UNCHANGED <<attempts, checks, predicates, findings, verdict>>
    PROVE  TypesStand'
<1>1. \A i \in DOMAIN checks' : checks'[i].asset \in DOMAIN package'
  BY ChecksStayInPackage
<1>2. stage' \in Stages /\ attempts' \in 0 .. MaxAttempts
  BY DEF Stages, TypesStand
<1>3. cycle' \in 0 .. MaxCycles
  BY DEF TypesStand, RemediesAssumption
<1>4. /\ Listed(findings') /\ Listed(predicates') /\ Len(findings') <= Len(predicates')
      /\ Len(verdict') <= 1
      /\ \A i \in DOMAIN predicates' : predicates'[i].outcome \in {"PASS", "FAIL", "NOT_EVALUATED"}
  BY DEF TypesStand
<1> QED BY <1>1, <1>2, <1>3, <1>4 DEF TypesStand

(* A batch that may be applied.                                               *)
Applicable(options) == IsFiniteSet(options) /\ \A o \in options : Reversible(o)

(* A diagnosis applies reversible remedies, escalates when there is none, or  *)
(* gives up (diagnose_findings, advance).                                     *)
LEMMA DiagnoseCases ==
    ASSUME TypesStand, RunStands, Diagnose
    PROVE  \/ \E options : Applicable(options) /\ ApplyTierOne(options)
           \/ ~TierOneAvailable(findings) /\ \E option : Escalate(option)
           \/ GiveUp
<1>1. stage = "FINDINGS_READY" /\ FindingsSound
  BY DEF Diagnose, Diagnosing, TypesStand
<1>2. PICK items \in Answers :
         \/ ApplyTierOne(Chosen(items, "APPLIED"))
         \/ \E option \in Chosen(items, "ESCALATE") : Escalate(option)
         \/ GiveUp
  <2>1. PICK chosen \in {<<Chosen(items, "APPLIED"), Chosen(items, "ESCALATE")>>
                            : items \in Answers} :
           \/ ApplyTierOne(chosen[1])
           \/ \E option \in chosen[2] : Escalate(option)
           \/ GiveUp
    BY Zenon DEF Diagnose
  <2>2. PICK items \in Answers :
            chosen = <<Chosen(items, "APPLIED"), Chosen(items, "ESCALATE")>>
    BY <2>1, Zenon
  <2>3. chosen[1] = Chosen(items, "APPLIED") /\ chosen[2] = Chosen(items, "ESCALATE")
    BY <2>2
  <2> QED BY <2>1, <2>3
<1>3. DiagnosisAccepted(items, findings)
  BY DEF Answers
<1>4. Applicable(Chosen(items, "APPLIED"))
  BY <1>1, <1>3, ChosenWorkable DEF Applicable
<1>5. Chosen(items, "ESCALATE") # {} => ~TierOneAvailable(findings)
  BY <1>1, <1>3, ChosenWorkable
<1>6. (\E option \in Chosen(items, "ESCALATE") : Escalate(option))
          => ~TierOneAvailable(findings) /\ \E option : Escalate(option)
  <2> DEFINE asked == Chosen(items, "ESCALATE")
  <2>1. asked # {} => ~TierOneAvailable(findings)
    BY <1>5
  <2> HIDE DEF asked
  <2>2. (\E option \in asked : Escalate(option))
            => ~TierOneAvailable(findings) /\ \E option : Escalate(option)
    BY <2>1, Zenon
  <2> QED BY <2>2 DEF asked
<1>7. ApplyTierOne(Chosen(items, "APPLIED"))
          => \E options : Applicable(options) /\ ApplyTierOne(options)
  BY <1>4, Zenon
<1> QED BY <1>2, <1>6, <1>7, Zenon

(* No step breaks the types, action by action.                                *)
LEMMA TypesNext ==
    ASSUME TypesStand, WellAdmitted, RunStands, IntakeAssumption, RemediesAssumption,
           [RunNext]_runVars
    PROVE  TypesStand'
<1>0. attempts \in 0 .. MaxAttempts /\ MaxAttempts \in 1 .. 2
  BY DEF TypesStand, IntakeAssumption
<1>1. CASE InterpretationRefused /\ UNCHANGED remedyVars
  <2>1. /\ stage = "INTERPRETING" /\ ~raised /\ attempts' = attempts + 1
        /\ raised' = (attempts' = MaxAttempts)
        /\ UNCHANGED <<stage, package, checks, predicates, findings, verdict, cycle>>
    BY <1>1 DEF InterpretationRefused, remedyVars
  <2>2. attempts' \in 0 .. MaxAttempts
    BY <1>0, <2>1 DEF TypesStand
  <2>3. raised' \in BOOLEAN /\ (~raised' => attempts' # MaxAttempts)
    BY <2>1
  <2>4. ~raised' => attempts' < MaxAttempts
    BY <1>0, <2>2, <2>3
  <2>5. stage' \in Stages
    BY <2>1 DEF Stages
  <2> QED BY <2>1, <2>2, <2>3, <2>4, <2>5, TypesFrame
<1>2. CASE InterpretationAdmitted /\ UNCHANGED remedyVars
  BY <1>2, TypesAdmitted
<1>3. CASE (PlanProposed \/ PlanRefused \/ PlanFallback) /\ UNCHANGED remedyVars
  <2>1. /\ stage' \in {"QC_PLANNED", "REQUIREMENTS_ADMITTED"} /\ attempts' \in 0 .. MaxAttempts
        /\ UNCHANGED <<raised, package, checks, predicates, findings, verdict, cycle>>
    BY <1>0, <1>3 DEF PlanProposed, PlanRefused, PlanFallback, PlanAdopted, remedyVars
  <2>2. raised' \in BOOLEAN /\ stage' \in Stages
    BY <2>1 DEF TypesStand, Stages
  <2> QED BY <2>1, <2>2, TypesFrame
<1>4. CASE (Inspect /\ UNCHANGED remedyVars) \/ Reinspect
  <2>1. \E w : Inspection(w)
    BY <1>4, Zenon DEF Inspect, Reinspect
  <2>2. stage \in {"QC_PLANNED", "INSPECTING"} /\ UNCHANGED cycle
    BY <1>4 DEF Inspect, Reinspect, Reinspecting, remedyVars
  <2> QED BY <2>1, <2>2, TypesInspected, Zenon
<1>5. CASE (Conclude /\ UNCHANGED remedyVars) \/ BlockExhausted
  <2>1. Judged /\ UNCHANGED <<raised, attempts, package, checks, predicates, cycle>>
        /\ DOMAIN findings' = DOMAIN findings
    BY <1>5 DEF Conclude, BlockExhausted, GiveUp, remedyVars
  <2>2. stage' \in {"DELIVERY_READY", "BLOCKED"} /\ Len(verdict') <= 1
    BY <2>1 DEF Judged
  <2> QED BY <2>1, <2>2, TypesEnded
<1>6. CASE Diagnose
  <2>1. stage = "FINDINGS_READY" /\ ~raised /\ cycle < MaxCycles
    BY <1>6 DEF Diagnose, Diagnosing
  <2>2. FindingsSound /\ Delivery(package)
    BY <2>1 DEF TypesStand
  <2>3. \/ \E options : Applicable(options) /\ ApplyTierOne(options)
        \/ ~TierOneAvailable(findings) /\ \E option : Escalate(option)
        \/ GiveUp
    BY <1>6, DiagnoseCases
  <2>5. ASSUME NEW options, Applicable(options), ApplyTierOne(options) PROVE TypesStand'
    <3>1. Delivery(package') /\ Len(package) <= Len(package')
      BY <2>2, <2>5, AppliedIsDelivery DEF Applicable
    <3>2. /\ stage' \in {"REMEDIATING", "INSPECTING"} /\ raised' \in BOOLEAN
          /\ cycle' \in {cycle, cycle + 1}
          /\ UNCHANGED <<attempts, checks, predicates, findings, verdict>>
      BY <2>5 DEF ApplyTierOne
    <3> QED BY <2>1, <3>1, <3>2, TypesRemedied
  <2>6. ASSUME NEW option, Escalate(option) PROVE TypesStand'
    <3>1. /\ stage' = "AWAITING_HUMAN_DECISION"
          /\ UNCHANGED <<raised, attempts, package, checks, predicates, findings, verdict, cycle>>
      BY <2>6 DEF Escalate
    <3>2. raised' \in BOOLEAN /\ stage' \in Stages /\ attempts' \in 0 .. MaxAttempts
      BY <3>1 DEF TypesStand, Stages
    <3> QED BY <2>1, <2>2, <3>1, <3>2, TypesFrame
  <2>7. CASE GiveUp
    <3>1. Judged /\ UNCHANGED <<raised, attempts, package, checks, predicates, cycle>>
          /\ DOMAIN findings' = DOMAIN findings
      BY <2>7 DEF GiveUp, remedyVars
    <3>2. stage' \in {"DELIVERY_READY", "BLOCKED"} /\ Len(verdict') <= 1
      BY <3>1 DEF Judged
    <3> QED BY <3>1, <3>2, TypesEnded
  <2> QED BY <2>3, <2>5, <2>6, <2>7
<1>7. CASE Deny
  <2>1. /\ stage' = "BLOCKED" /\ DOMAIN findings' = DOMAIN findings
        /\ UNCHANGED <<raised, attempts, package, checks, predicates, verdict, cycle>>
    BY <1>7 DEF Deny
  <2>2. Len(verdict') <= 1
    BY <2>1 DEF TypesStand
  <2> QED BY <2>1, <2>2, TypesEnded
<1>8. CASE Approve
  <2>1. /\ stage = "AWAITING_HUMAN_DECISION" /\ stage' = "INSPECTING" /\ cycle' = cycle + 1
        /\ UNCHANGED <<raised, attempts, checks, predicates, findings, verdict>>
    BY <1>8 DEF Approve
  <2>2. FindingsSound /\ Delivery(package) /\ cycle < MaxCycles /\ raised' \in BOOLEAN
    BY <2>1 DEF TypesStand
  <2>3. Delivery(package') /\ Len(package) <= Len(package')
    BY <1>8, <2>2, ApprovedIsDelivery
  <2> QED BY <2>1, <2>2, <2>3, TypesRemedied
<1>9. CASE Finished \/ UNCHANGED runVars
  <2>1. UNCHANGED <<stage, raised, attempts, package, checks, predicates, findings, verdict, cycle>>
    BY <1>9 DEF Finished, runVars, vars, remedyVars
  <2>2. /\ raised' \in BOOLEAN /\ stage' \in Stages /\ attempts' \in 0 .. MaxAttempts
        /\ stage' = "INTERPRETING" /\ ~raised' => attempts' < MaxAttempts
        /\ stage' \in {"FINDINGS_READY", "AWAITING_HUMAN_DECISION"} => FindingsSound /\ ~raised'
        /\ stage' = "AWAITING_HUMAN_DECISION" => cycle < MaxCycles
    BY <2>1 DEF TypesStand
  <2> QED BY <2>1, <2>2, TypesFrame
<1> QED BY <1>1, <1>2, <1>3, <1>4, <1>5, <1>6, <1>7, <1>8, <1>9 DEF RunNext

(* Together with what admission and the record keep, the types of the run.    *)
LEMMA StandsTyped ==
    ASSUME TypesStand, RunInvariant, IntakeAssumption PROVE TypeOK
<1>1. batch \in Batches \cup {<<>>}
  BY DEF RunInvariant, BatchStands
<1>2. DOMAIN requirements = DOMAIN batch
  <2>1. CASE batch = <<>> /\ requirements = <<>>
    BY <2>1
  <2>2. CASE requirements = MarkContradictions(Admitted(batch))
    <3>1. DOMAIN Admitted(batch) = DOMAIN batch
      BY DEF Admitted
    <3> QED BY <2>2, <3>1 DEF MarkContradictions
  <2> QED BY <2>1, <2>2 DEF RunInvariant, AdmissionStands
<1>3. \A a \in DOMAIN package : package[a].role \in AssetRoles
  BY DEF TypesStand, Delivery, IsAsset
<1> QED BY <1>1, <1>2, <1>3 DEF TypesStand, TypeOK

LEMMA TypesForever == RunSpec => []TypesStand
<1>1. RunInit => TypesStand
  BY TypesAtFirst, IntakeAssumption, RemediesAssumption
<1>2. RunInvariant => WellAdmitted /\ RunStands
  BY AdmittedIsWell, IntakeAssumption DEF RunInvariant, BatchStands
<1>3. TypesStand /\ RunInvariant /\ [RunNext]_runVars => TypesStand'
  BY <1>2, TypesNext, IntakeAssumption, RemediesAssumption
<1> QED BY <1>1, <1>3, InvariantForGood, PTL DEF RunSpec

(* The state of a run keeps its types, for every package, batch and diagnosis: *)
(* the stages of RunState, attempts within max_attempts, checks about assets  *)
(* of the package as it then is, and one verdict at most                      *)
(* (start, _inspect, advance and resolve_decision of runtime/orchestrator.py). *)
THEOREM TypesForGood == RunSpec => []TypeOK
<1>1. TypesStand /\ RunInvariant => TypeOK
  BY StandsTyped, IntakeAssumption
<1> QED BY <1>1, TypesForever, InvariantForGood, PTL

(* The steps a run has left at most: answers still asked of the model, cycles *)
(* still to remedy, stages still to go.                                       *)
StepsLeft ==
    IF raised \/ stage \in {"DELIVERY_READY", "BLOCKED"} THEN 0
    ELSE 3 * (MaxCycles - cycle) +
         (CASE stage = "INTERPRETING"          -> 5 + MaxAttempts + (MaxAttempts - attempts)
            [] stage = "REQUIREMENTS_ADMITTED" -> 4 + (MaxAttempts - attempts)
            [] stage \in {"QC_PLANNED", "INSPECTING"} -> 3
            [] stage = "FINDINGS_READY"        -> 2
            [] OTHER                           -> 1)

MostSteps == 3 * MaxCycles + 2 * MaxAttempts + 5

LEMMA StepsCounted ==
    ASSUME TypesStand, IntakeAssumption, RemediesAssumption PROVE StepsLeft \in 0 .. MostSteps
<1> DEFINE c == MaxCycles - cycle
           m == MaxAttempts - attempts
<1>1. c \in 0 .. MaxCycles /\ m \in 0 .. MaxAttempts /\ MaxCycles \in Nat /\ MaxAttempts \in Nat
  BY DEF TypesStand, IntakeAssumption, RemediesAssumption
<1>2. \/ StepsLeft = 0 \/ StepsLeft = 3 * c + (5 + MaxAttempts + m)
      \/ StepsLeft = 3 * c + (4 + m) \/ \E k \in 1 .. 3 : StepsLeft = 3 * c + k
  BY DEF StepsLeft
<1> HIDE DEF c, m
<1>3. MostSteps = 3 * MaxCycles + 2 * MaxAttempts + 5
  BY DEF MostSteps
<1> QED BY <1>1, <1>2, <1>3

(* A step to the verdict, or one that raises, leaves none. *)
LEMMA LastStep ==
    ASSUME TypesStand, IntakeAssumption, RemediesAssumption, ~raised,
           stage \notin {"DELIVERY_READY", "BLOCKED"},
           raised' \/ stage' \in {"DELIVERY_READY", "BLOCKED"}
    PROVE  StepsLeft' < StepsLeft
<1>1. StepsLeft' = 0
  BY DEF StepsLeft
<1>2. cycle \in 0 .. MaxCycles /\ attempts \in 0 .. MaxAttempts
      /\ MaxCycles \in Nat /\ MaxAttempts \in Nat
  BY DEF TypesStand, IntakeAssumption, RemediesAssumption
<1>3. StepsLeft > 0
  BY <1>2 DEF StepsLeft
<1> QED BY <1>1, <1>3

LEMMA StepsFall ==
    ASSUME TypesStand, IntakeAssumption, RemediesAssumption, RunNext
    PROVE  StepsLeft' < StepsLeft \/ UNCHANGED runVars
<1>0. /\ cycle \in 0 .. MaxCycles /\ attempts \in 0 .. MaxAttempts
      /\ MaxCycles \in Nat /\ MaxAttempts \in Nat /\ raised \in BOOLEAN
  BY DEF TypesStand, IntakeAssumption, RemediesAssumption
<1>1. CASE InterpretationRefused /\ UNCHANGED remedyVars
  <2>1. stage = "INTERPRETING" /\ ~raised
    BY <1>1 DEF InterpretationRefused
  <2>2. CASE raised'
    BY <2>1, <2>2, LastStep
  <2>3. CASE ~raised'
    <3>1. attempts' = attempts + 1 /\ stage' = "INTERPRETING" /\ cycle' = cycle
      BY <1>1, <2>1 DEF InterpretationRefused, remedyVars
    <3> QED BY <1>0, <2>1, <2>3, <3>1 DEF StepsLeft
  <2> QED BY <2>2, <2>3
<1>2. CASE InterpretationAdmitted /\ UNCHANGED remedyVars
  <2>1. stage = "INTERPRETING" /\ ~raised
    BY <1>2 DEF InterpretationAdmitted
  <2>2. CASE raised'
    BY <2>1, <2>2, LastStep
  <2>3. CASE ~raised'
    <3>1. attempts' = 0 /\ stage' = "REQUIREMENTS_ADMITTED" /\ cycle' = cycle
      BY <1>2, <2>3 DEF InterpretationAdmitted, remedyVars
    <3>2. attempts <= MaxAttempts
      BY <1>0
    <3> QED BY <1>0, <2>1, <2>3, <3>1, <3>2 DEF StepsLeft
  <2> QED BY <2>2, <2>3
<1>3. CASE PlanRefused /\ UNCHANGED remedyVars
  <2>1. /\ stage = "REQUIREMENTS_ADMITTED" /\ ~raised /\ attempts' = attempts + 1
        /\ UNCHANGED <<stage, raised, cycle>>
    BY <1>3 DEF PlanRefused, remedyVars
  <2> QED BY <1>0, <2>1 DEF StepsLeft
<1>4. CASE (PlanProposed \/ PlanFallback) /\ UNCHANGED remedyVars
  <2>1. /\ stage = "REQUIREMENTS_ADMITTED" /\ ~raised /\ stage' = "QC_PLANNED"
        /\ UNCHANGED <<raised, cycle>>
    BY <1>4 DEF PlanProposed, PlanFallback, PlanAdopted, remedyVars
  <2> QED BY <1>0, <2>1 DEF StepsLeft
<1>5. CASE (Inspect /\ UNCHANGED remedyVars) \/ Reinspect
  <2>1. /\ stage \in {"QC_PLANNED", "INSPECTING"} /\ ~raised /\ cycle' = cycle
        /\ raised' \/ stage' = "FINDINGS_READY"
    BY <1>5 DEF Inspect, Reinspect, Reinspecting, Inspection, remedyVars
  <2>2. CASE raised'
    BY <2>1, <2>2, LastStep
  <2>3. CASE ~raised'
    BY <1>0, <2>1, <2>3 DEF StepsLeft
  <2> QED BY <2>2, <2>3
<1>6. CASE Conclude \/ BlockExhausted \/ Deny
  <2>1. stage \in {"FINDINGS_READY", "AWAITING_HUMAN_DECISION"}
        /\ stage' \in {"DELIVERY_READY", "BLOCKED"}
    BY <1>6 DEF Conclude, BlockExhausted, GiveUp, Judged, Deny
  <2>2. ~raised
    BY <2>1 DEF TypesStand
  <2> QED BY <2>1, <2>2, LastStep
<1>7. CASE Diagnose
  <2>1. stage = "FINDINGS_READY" /\ ~raised /\ cycle < MaxCycles
    BY <1>7 DEF Diagnose, Diagnosing
  <2>2. (\E options : ApplyTierOne(options)) \/ (\E option : Escalate(option)) \/ GiveUp
    BY <1>7, Zenon DEF Diagnose
  <2>3. ASSUME NEW options, ApplyTierOne(options) PROVE StepsLeft' < StepsLeft
    <3>1. CASE raised'
      BY <2>1, <3>1, LastStep
    <3>2. CASE ~raised'
      <4>1. stage' = "INSPECTING" /\ cycle' = cycle + 1
        BY <2>3, <3>2 DEF ApplyTierOne
      <4> QED BY <1>0, <2>1, <3>2, <4>1 DEF StepsLeft
    <3> QED BY <3>1, <3>2
  <2>4. ASSUME NEW option, Escalate(option) PROVE StepsLeft' < StepsLeft
    <3>1. stage' = "AWAITING_HUMAN_DECISION" /\ UNCHANGED <<raised, cycle>>
      BY <2>4 DEF Escalate
    <3> QED BY <1>0, <2>1, <3>1 DEF StepsLeft
  <2>5. GiveUp => StepsLeft' < StepsLeft
    BY <2>1, LastStep DEF GiveUp, Judged
  <2> QED BY <2>2, <2>3, <2>4, <2>5
<1>8. CASE Approve
  <2>1. /\ stage = "AWAITING_HUMAN_DECISION" /\ stage' = "INSPECTING" /\ cycle' = cycle + 1
        /\ UNCHANGED raised
    BY <1>8 DEF Approve
  <2>2. ~raised
    BY <2>1 DEF TypesStand
  <2> QED BY <1>0, <2>1, <2>2 DEF StepsLeft
<1>9. CASE Finished
  BY <1>9 DEF Finished
<1> QED BY <1>1, <1>2, <1>3, <1>4, <1>5, <1>6, <1>7, <1>8, <1>9 DEF RunNext

(* No run goes on for ever: each step leaves fewer to take than there were,   *)
(* and there are never more than MostSteps, whatever the models answer, the   *)
(* remedies leave behind and the human decides (max_attempts, MAX_CYCLES).    *)
THEOREM RunsAreBounded ==
    RunSpec => [](StepsLeft \in 0 .. MostSteps) /\ [][StepsLeft' < StepsLeft]_runVars
<1>1. TypesStand => StepsLeft \in 0 .. MostSteps
  BY StepsCounted, IntakeAssumption, RemediesAssumption
<1>2. TypesStand /\ [RunNext]_runVars => [StepsLeft' < StepsLeft]_runVars
  BY StepsFall, IntakeAssumption, RemediesAssumption
<1> QED BY <1>1, <1>2, TypesForever, PTL DEF RunSpec

(* The calls of advance that a run which has just been inspected needs before *)
(* it ends or asks a human.                                                   *)
CallsLeft ==
    IF raised \/ stage \in {"AWAITING_HUMAN_DECISION", "DELIVERY_READY", "BLOCKED"} THEN 0
    ELSE 1 + (MaxCycles - cycle)

(* A call of advance is a step from FINDINGS_READY and the inspection that    *)
(* may follow; only an approval makes more of them necessary.                 *)
Called == stage # "AWAITING_HUMAN_DECISION" =>
             CallsLeft' <= CallsLeft /\ (stage = "FINDINGS_READY" => CallsLeft' < CallsLeft)

LEMMA CallsFall ==
    ASSUME TypesStand, RemediesAssumption, [RunNext]_runVars PROVE [Called]_runVars
<1> SUFFICES ASSUME ~UNCHANGED runVars, stage # "AWAITING_HUMAN_DECISION"
             PROVE  CallsLeft' <= CallsLeft /\ (stage = "FINDINGS_READY" => CallsLeft' < CallsLeft)
  BY DEF Called
<1>1. cycle \in 0 .. MaxCycles /\ MaxCycles \in Nat /\ (stage = "FINDINGS_READY" => ~raised)
  BY DEF TypesStand, RemediesAssumption
<1>2. CallsLeft \in Nat /\ (stage = "FINDINGS_READY" => CallsLeft > 0)
  BY <1>1 DEF CallsLeft
<1>3. CASE CallsLeft' = 0
  BY <1>2, <1>3
<1>4. CASE CallsLeft' # 0 /\ stage = "FINDINGS_READY"
  <2>1. ~raised' /\ stage' \notin {"AWAITING_HUMAN_DECISION", "DELIVERY_READY", "BLOCKED"}
    BY <1>4 DEF CallsLeft
  <2>2. Diagnose
    BY <1>1, <1>4, <2>1 DEF RunNext, InterpretationRefused, InterpretationAdmitted, PlanProposed,
       PlanRefused, PlanFallback, Inspect, Conclude, BlockExhausted, GiveUp, Judged, Deny,
       Approve, Reinspect, Reinspecting, Finished
  <2>3. \E options : ApplyTierOne(options)
    <3>1. (\E options : ApplyTierOne(options)) \/ (\E option : Escalate(option)) \/ GiveUp
      BY <2>2, Zenon DEF Diagnose
    <3>2. ~GiveUp /\ ~\E option : Escalate(option)
      BY <2>1 DEF GiveUp, Judged, Escalate
    <3> QED BY <3>1, <3>2
  <2>4. cycle' = cycle + 1
    BY <2>1, <2>3 DEF ApplyTierOne
  <2> QED BY <1>1, <1>4, <2>1, <2>4 DEF CallsLeft
<1>5. CASE CallsLeft' # 0 /\ stage # "FINDINGS_READY"
  <2>1. UNCHANGED cycle /\ ~raised /\ stage \notin {"DELIVERY_READY", "BLOCKED"}
    BY <1>5 DEF RunNext, InterpretationRefused, InterpretationAdmitted, PlanProposed, PlanRefused,
       PlanFallback, PlanAdopted, Inspect, Inspection, Conclude, Diagnose, Diagnosing,
       BlockExhausted, Deny, Approve, Reinspect, Reinspecting, Finished, remedyVars
  <2> QED BY <1>1, <1>5, <2>1 DEF CallsLeft
<1> QED BY <1>3, <1>4, <1>5

(* The service looks at a run again eight times at most, after creating it    *)
(* and after an approval (_execute_new_run, submit_decision): one call more   *)
(* than there are cycles is enough, so that no run is left half way.          *)
THEOREM CallsAreFew == RunSpec => [](CallsLeft \in 0 .. MaxCycles + 1) /\ [][Called]_runVars
<1>1. TypesStand => CallsLeft \in 0 .. MaxCycles + 1
  BY RemediesAssumption DEF TypesStand, CallsLeft, RemediesAssumption
<1>2. TypesStand /\ [RunNext]_runVars => [Called]_runVars
  BY CallsFall, RemediesAssumption
<1> QED BY <1>1, <1>2, TypesForever, PTL DEF RunSpec

-----------------------------------------------------------------------------
(* What a step does to the package: nothing, unless it carries out remedies. *)
LEMMA PackageStep ==
    ASSUME TypesStand, RunStands, [RunNext]_runVars
    PROVE  /\ Len(package) <= Len(package')
           /\ stage # "AWAITING_HUMAN_DECISION" =>
                 \A a \in DOMAIN package' : Faithful(package'[a])
<1>0. Delivery(package) /\ Len(package) \in Nat
  BY DeliveryListed DEF TypesStand
<1>1. CASE UNCHANGED package
  <2>1. \A a \in DOMAIN package' : Faithful(package'[a])
    BY <1>1 DEF Faithful
  <2> QED BY <1>0, <1>1, <2>1
<1>2. CASE Approve
  <2>1. stage = "AWAITING_HUMAN_DECISION"
    BY <1>2 DEF Approve
  <2>2. FindingsSound
    BY <2>1 DEF TypesStand
  <2> QED BY <1>0, <1>2, <2>1, <2>2, ApprovedIsDelivery
<1>3. CASE Diagnose
  <2>1. ASSUME NEW options, Applicable(options), ApplyTierOne(options)
        PROVE  /\ Len(package) <= Len(package')
               /\ \A a \in DOMAIN package' : Faithful(package'[a])
    BY <1>0, <2>1, AppliedIsDelivery DEF Applicable
  <2>2. ASSUME NEW option, Escalate(option) PROVE UNCHANGED package
    BY <2>2 DEF Escalate
  <2>3. GiveUp => UNCHANGED package
    BY DEF GiveUp
  <2> QED BY <1>1, <1>3, <2>1, <2>2, <2>3, DiagnoseCases
<1>4. CASE InterpretationRefused \/ InterpretationAdmitted \/ PlanProposed \/ PlanRefused
           \/ PlanFallback
  <2>1. UNCHANGED package
    BY <1>4 DEF InterpretationRefused, InterpretationAdmitted, PlanProposed, PlanRefused,
       PlanFallback, PlanAdopted
  <2> QED BY <1>1, <2>1
<1>5. CASE Inspect \/ Reinspect \/ Conclude \/ BlockExhausted \/ Deny
  <2>1. UNCHANGED package
    BY <1>5 DEF Inspect, Reinspect, Inspection, Conclude, BlockExhausted, GiveUp, Deny
  <2> QED BY <1>1, <2>1
<1>6. CASE Finished \/ UNCHANGED runVars
  <2>1. UNCHANGED package
    BY <1>6 DEF Finished, runVars, vars
  <2> QED BY <1>1, <2>1
<1> QED BY <1>2, <1>3, <1>4, <1>5, <1>6 DEF RunNext

(* A remedy replaces, it does not remove: the package delivered never has     *)
(* fewer assets than the one that came, whatever was renamed, converted,      *)
(* listed or rendered, or failed to be (current_assets, execute).             *)
THEOREM NothingIsLost == RunSpec => [][Len(package) <= Len(package')]_runVars
<1>1. RunInvariant => RunStands
  BY DEF RunInvariant
<1>2. TypesStand /\ RunStands /\ [RunNext]_runVars => [Len(package) <= Len(package')]_runVars
  BY PackageStep
<1> QED BY <1>1, <1>2, TypesForever, InvariantForGood, PTL DEF RunSpec

(* What is seen and heard changes only by an approval: after any step but the *)
(* answer to a decision, each asset measures as one of the package did before *)
(* it, or is a manifest, whatever a model has diagnosed (the tiers of         *)
(* diagnose_findings; create_normalized_audio_derivative).                    *)
THEOREM AlteredByApproval ==
    RunSpec => [][stage # "AWAITING_HUMAN_DECISION" =>
                     \A a \in DOMAIN package' :
                        \/ Heard(package'[a]) = Silence
                        \/ \E b \in DOMAIN package : Heard(package'[a]) = Heard(package[b])]_runVars
<1> DEFINE Step == stage # "AWAITING_HUMAN_DECISION" =>
                     \A a \in DOMAIN package' :
                        \/ Heard(package'[a]) = Silence
                        \/ \E b \in DOMAIN package : Heard(package'[a]) = Heard(package[b])
<1>1. RunInvariant => RunStands
  BY DEF RunInvariant
<1>2. TypesStand /\ RunStands /\ [RunNext]_runVars => [Step]_runVars
  BY PackageStep DEF Faithful
<1> QED BY <1>1, <1>2, TypesForever, InvariantForGood, PTL DEF RunSpec

(* While a decision is awaited no finding has a reversible remedy on offer.   *)
HumanIsLast == stage = "AWAITING_HUMAN_DECISION" => ~TierOneAvailable(findings)

LEMMA HumanStaysLast ==
    ASSUME HumanIsLast, TypesStand, RunStands, [RunNext]_runVars PROVE HumanIsLast'
<1>1. CASE UNCHANGED <<stage, findings>>
  BY <1>1 DEF HumanIsLast, TierOneAvailable
<1>2. CASE stage' # "AWAITING_HUMAN_DECISION"
  BY <1>2 DEF HumanIsLast
<1>3. CASE InterpretationRefused
  BY <1>1, <1>3 DEF InterpretationRefused
<1>4. CASE InterpretationAdmitted \/ PlanProposed \/ PlanRefused \/ PlanFallback
  BY <1>2, <1>4 DEF InterpretationAdmitted, PlanProposed, PlanRefused, PlanFallback, PlanAdopted
<1>5. CASE Inspect \/ Reinspect \/ Conclude \/ BlockExhausted \/ Deny \/ Approve
  BY <1>2, <1>5 DEF Inspect, Reinspect, Inspection, Conclude, BlockExhausted, GiveUp, Judged,
     Deny, Approve
<1>6. CASE Diagnose
  <2>1. ASSUME NEW options, ApplyTierOne(options) PROVE HumanIsLast'
    BY <1>2, <2>1 DEF ApplyTierOne
  <2>2. ASSUME NEW option, Escalate(option), ~TierOneAvailable(findings) PROVE HumanIsLast'
    <3>1. UNCHANGED findings
      BY <2>2 DEF Escalate
    <3> QED BY <2>2, <3>1 DEF HumanIsLast, TierOneAvailable
  <2>3. GiveUp => HumanIsLast'
    BY <1>2 DEF GiveUp, Judged
  <2> QED BY <1>6, <2>1, <2>2, <2>3, DiagnoseCases
<1>7. CASE Finished \/ UNCHANGED runVars
  BY <1>1, <1>7 DEF Finished, runVars, vars
<1> QED BY <1>3, <1>4, <1>5, <1>6, <1>7 DEF RunNext

(* A human is asked last: when a run awaits a decision no finding has a       *)
(* reversible remedy on offer, whatever the model has answered before         *)
(* (exposed_options of diagnose_findings).                                    *)
THEOREM HumanIsAskedLast == RunSpec => []HumanIsLast
<1>1. RunInit => HumanIsLast
  BY DEF RunInit, Init, HumanIsLast
<1>2. RunInvariant => RunStands
  BY DEF RunInvariant
<1>3. HumanIsLast /\ TypesStand /\ RunStands /\ [RunNext]_runVars => HumanIsLast'
  BY HumanStaysLast
<1> QED BY <1>1, <1>2, <1>3, TypesForever, InvariantForGood, PTL DEF RunSpec

-----------------------------------------------------------------------------
(* Tools that change anything have a tier above 0, and only they. *)
LEMMA TierOfTool ==
    /\ \A t : Tier(t) \in 0 .. 2
    /\ \A t \in InspectionTools : Tier(t) = 0
  BY DEF Tier, InspectionTools, KeysOfTool

(* What the authority engine lets pass satisfies everything it asks. *)
LEMMA EvaluatePasses ==
    ASSUME NEW call, NEW context, Tier(call.tool) > 0,
           Evaluate(call.tool, call, context) # "FORBID"
    PROVE  /\ call.tool \in Tools
           /\ call.run \in {None, context.run}
           /\ TargetKnown(call, context) /\ ~TargetOriginal(call, context)
           /\ \E o \in BoundOption(call, context) :
                 o.tool = call.tool /\ o.tier = Tier(call.tool) /\ HashBinds(call, o)
           /\ Evaluate(call.tool, call, context)
                 = IF Tier(call.tool) = 1 THEN "ALLOW" ELSE "REQUIRE_DECISION"
<1> DEFINE bound  == BoundOption(call, context)
           option == CHOOSE o \in bound : TRUE
<1>1. Tier(call.tool) # 0
  BY TierOfTool
<1>2. /\ call.tool \in Tools
      /\ call.run \in {None, context.run}
      /\ TargetKnown(call, context) /\ ~TargetOriginal(call, context)
      /\ bound # {}
      /\ option.tool = call.tool /\ option.tier = Tier(call.tool)
      /\ HashBinds(call, option)
      /\ Evaluate(call.tool, call, context)
            = IF Tier(call.tool) = 1 THEN "ALLOW" ELSE "REQUIRE_DECISION"
  <2> HIDE DEF bound
  <2> QED BY <1>1 DEF Evaluate, bound
<1>3. option \in bound
  BY <1>2
<1> QED BY <1>2, <1>3

(* A call the hook lets pass is one the executor begins, in any context from  *)
(* which remedies may be applied.                                             *)
LEMMA HookedBegins ==
    ASSUME NEW call, NEW context,
           BeforeToolCall(call.tool, call, context) \in {"ALLOW", "INTERRUPT"},
           Tier(call.tool) > 0,
           Tier(call.tool) = 2 => call.authorization # None
    PROVE  /\ \E o \in BoundOption(call, context) : Begins("REMEDIATING", call, o, context)
           /\ BeforeToolCall(call.tool, call, context) = "INTERRUPT" <=> Tier(call.tool) = 2
<1> DEFINE bound   == BoundOption(call, context)
           outcome == Evaluate(call.tool, call, context)
           answer  == BeforeToolCall(call.tool, call, context)
<1>1. answer = EvaluateAgentCall(call.tool, call, bound, context)
  BY DEF BeforeToolCall
<1>2. /\ outcome # "FORBID"
      /\ outcome = "ALLOW" => answer = "ALLOW"
      /\ outcome = "REQUIRE_DECISION" => answer = "INTERRUPT"
  BY <1>1 DEF EvaluateAgentCall
<1>3. outcome = IF Tier(call.tool) = 1 THEN "ALLOW" ELSE "REQUIRE_DECISION"
  BY <1>2, EvaluatePasses
<1>4. answer = "INTERRUPT" <=> Tier(call.tool) = 2
  BY <1>2, <1>3, TierOfTool
<1>5. call.tool \in MutatingTools
  BY <1>2, EvaluatePasses, TierOfTool DEF Tools
<1>6. \E o \in bound : Begins("REMEDIATING", call, o, context)
  BY <1>2, <1>5, EvaluatePasses DEF Begins, BoundOption
<1> QED BY <1>4, <1>6

-----------------------------------------------------------------------------
(* An option's identity tells its tool, and its tool its tier. *)
LEMMA OptionsOfContext ==
    ASSUME NEW status, NEW o \in AuthorityContext(status).options
    PROVE  o.id[2] = o.tool /\ o.tier = Tier(o.tool)
<1>1. PICK f \in Range(findings) : o = Option(f)
  BY DEF AuthorityContext
<1> QED BY <1>1 DEF Option, OptionId

(* What an agent calls carries the option's identity, and an authorization if *)
(* the option needs one.                                                      *)
LEMMA CallsCarry ==
    ASSUME NEW call \in AgentCalls
    PROVE  \E o \in AuthorityContext(stage).options :
              /\ call.option = o.id
              /\ o.tier = 2 => call.authorization # None
<1>1. PICK o \in AuthorityContext(stage).options :
          call \in {[Payload(o) EXCEPT !.asset = a] : a \in 0 .. Len(package) + 1}
                  \cup {[Payload(o) EXCEPT !.run = r] : r \in {"run", "another"}}
                  \cup {[Payload(o) EXCEPT !.argument = <<"unasked">>]}
                  \cup {[Payload(o) EXCEPT !.tool = t] : t \in Tools}
                  \cup {[Payload(o) EXCEPT !.authorization = "forged"]}
  BY DEF AgentCalls
<1> DEFINE p == Payload(o)
<1>2. /\ {"option", "authorization"} \subseteq DOMAIN p
      /\ p.option = o.id
      /\ p.authorization = IF o.tier = 2 THEN "placeholder" ELSE None
  BY DEF Payload
<1>3. call.option = p.option /\ call.authorization \in {p.authorization, "forged"}
  <2> HIDE DEF p
  <2>1. CASE \E a \in 0 .. Len(package) + 1 : call = [p EXCEPT !.asset = a]
    BY <1>2, <2>1
  <2>2. CASE \E r \in {"run", "another"} : call = [p EXCEPT !.run = r]
    BY <1>2, <2>2
  <2>3. CASE call = [p EXCEPT !.argument = <<"unasked">>]
    BY <1>2, <2>3
  <2>4. CASE \E t \in Tools : call = [p EXCEPT !.tool = t]
    BY <1>2, <2>4
  <2>5. CASE call = [p EXCEPT !.authorization = "forged"]
    BY <1>2, <2>5
  <2> QED BY <1>1, <2>1, <2>2, <2>3, <2>4, <2>5 DEF p
<1> HIDE DEF p
<1> QED BY <1>2, <1>3 DEF None

(* The two gates agree in every state of every run: whatever the hook lets a  *)
(* model call, the executor begins, so no run is left REMEDIATING by an       *)
(* action that was allowed and then refused (evaluate, begin).                *)
THEOREM GatesAgree == RunSpec => []TwoGatesAgree
<1>1. TwoGatesAgree
  <2> SUFFICES ASSUME NEW call \in AgentCalls,
                      BeforeToolCall(call.tool, call, AuthorityContext(stage))
                          \in {"ALLOW", "INTERRUPT"},
                      Tier(call.tool) > 0
               PROVE  /\ \E o \in BoundOption(call, AuthorityContext(stage)) :
                            Begins("REMEDIATING", call, o, AuthorityContext(stage))
                      /\ BeforeToolCall(call.tool, call, AuthorityContext(stage)) = "INTERRUPT"
                            <=> Tier(call.tool) = 2
    BY DEF TwoGatesAgree
  <2> DEFINE context == AuthorityContext(stage)
  <2>1. Evaluate(call.tool, call, context) # "FORBID"
    BY DEF BeforeToolCall, EvaluateAgentCall
  <2>2. PICK x \in BoundOption(call, context) : x.tool = call.tool /\ x.tier = Tier(call.tool)
    BY <2>1, EvaluatePasses
  <2>3. x \in context.options /\ x.id = call.option
    BY <2>2 DEF BoundOption
  <2>4. PICK o \in context.options :
            call.option = o.id /\ (o.tier = 2 => call.authorization # None)
    BY CallsCarry
  <2>5. o.tool = x.tool /\ o.tier = Tier(call.tool)
    BY <2>2, <2>3, <2>4, OptionsOfContext
  <2>6. Tier(call.tool) = 2 => call.authorization # None
    BY <2>4, <2>5
  <2> QED BY <2>6, HookedBegins
<1> QED BY <1>1, PTL

-----------------------------------------------------------------------------
(* Open findings of one identity that are alike, as an inspection leaves      *)
(* them, or of which no two bear one identity; and answers the schema of a    *)
(* diagnosis admits.                                                          *)
Alike(open) ==
    /\ Listed(open)
    /\ \A i, j \in DOMAIN open :
          open[i].requirement = open[j].requirement => open[i] = open[j]

Distinguished(open) ==
    /\ Listed(open)
    /\ \A i, j \in DOMAIN open : open[i].requirement = open[j].requirement => i = j

WellFormed(items) ==
    \A i \in DOMAIN items : items[i].disposition \in {"APPLIED", "ESCALATE", "NO_ACTION"}

(* The prompt tells of each finding the options the runtime will look up. *)
LEMMA PromptSaysOffered ==
    ASSUME NEW open, Alike(open), NEW id \in OpenIds(open)
    PROVE  PromptOptions(Prompt(open), id) = OfferedTo(open, id)
<1> DEFINE options(n) == {[id |-> OptionId(open[n], o), tier |-> Tier(o[1])]
                             : o \in ExposedOptions(open, open[n])}
           of == {i \in DOMAIN open : open[i].requirement = id}
           last == CHOOSE i \in DOMAIN open :
                      /\ open[i].requirement = id
                      /\ \A j \in DOMAIN open : open[j].requirement = id => j <= i
<1>1. PICK n \in DOMAIN open : open[n].requirement = id
  BY DEF OpenIds
<1>2. of \subseteq Int /\ IsFiniteSet(of) /\ of # {}
  BY <1>1, ListedFinite DEF Alike
<1>3. Max(of) \in of /\ \A j \in of : j <= Max(of)
  <2> HIDE DEF of
  <2> QED BY <1>2, Extremes
<1>4. last \in DOMAIN open /\ open[last].requirement = id
  <2>1. \E i \in DOMAIN open :
           /\ open[i].requirement = id
           /\ \A j \in DOMAIN open : open[j].requirement = id => j <= i
    BY <1>3
  <2> QED BY <2>1
<1>5. OfferedTo(open, id) = options(last)
  BY Zenon DEF OfferedTo
<1> HIDE DEF last
<1>6. \A i \in of : options(i) = options(last)
  <2>1. \A i \in of : open[i] = open[last]
    BY <1>4 DEF Alike
  <2> HIDE DEF of
  <2> QED BY <2>1
<1>7. /\ DOMAIN Prompt(open) = DOMAIN open
      /\ \A i \in DOMAIN open : /\ Prompt(open)[i].finding = open[i].requirement
                               /\ Prompt(open)[i].options = options(i)
  BY DEF Prompt
<1>8. PromptOptions(Prompt(open), id) = options(last)
  <2> HIDE DEF options
  <2>1. {i \in DOMAIN Prompt(open) : Prompt(open)[i].finding = id} = of
    BY <1>7
  <2>2. \A i \in of : Prompt(open)[i].options = options(last)
    BY <1>6, <1>7
  <2> HIDE DEF of
  <2> QED BY <1>2, <2>1, <2>2 DEF PromptOptions
<1> QED BY <1>5, <1>8

LEMMA PromptNamesOpen ==
    ASSUME NEW open
    PROVE  {Prompt(open)[i].finding : i \in DOMAIN Prompt(open)} = OpenIds(open)
  BY DEF Prompt, OpenIds

(* The adapter's validator and the runtime's agree on every answer about      *)
(* findings of which those of one identity are alike: the one offers the      *)
(* options of all of them, the other those of the last (_is_bound,            *)
(* diagnose_findings).                                                        *)
THEOREM AdapterReadsAsRuntime ==
    ASSUME NEW open, Alike(open), NEW items, WellFormed(items)
    PROVE  items # <<>> /\ IsBound(items, Prompt(open)) <=> DiagnosisAccepted(items, open)
<1> DEFINE bound(i) ==
              IF items[i].disposition = "NO_ACTION" THEN items[i].option = <<>>
              ELSE \E o \in PromptOptions(Prompt(open), items[i].finding) :
                      /\ o.id = items[i].option
                      /\ o.tier = IF items[i].disposition = "APPLIED" THEN 1 ELSE 2
           chosen(i) == {o \in OfferedTo(open, items[i].finding) : o.id = items[i].option}
           accepted(i) ==
              CASE items[i].disposition = "NO_ACTION" -> items[i].option = <<>>
                [] items[i].disposition = "APPLIED"  -> \E o \in chosen(i) : o.tier = 1
                [] items[i].disposition = "ESCALATE" -> \E o \in chosen(i) : o.tier = 2
           once  == \A i, j \in DOMAIN items : items[i].finding = items[j].finding => i = j
           whole == {items[i].finding : i \in DOMAIN items} = OpenIds(open)
<1>1. ASSUME NEW i \in DOMAIN items, items[i].finding \in OpenIds(open)
      PROVE  bound(i) <=> accepted(i)
  <2>1. PromptOptions(Prompt(open), items[i].finding) = OfferedTo(open, items[i].finding)
    BY <1>1, PromptSaysOffered
  <2>2. CASE items[i].disposition = "NO_ACTION"
    BY <2>2
  <2>3. CASE items[i].disposition = "APPLIED"
    BY <2>1, <2>3
  <2>4. CASE items[i].disposition = "ESCALATE"
    BY <2>1, <2>4
  <2> QED BY <1>1, <2>2, <2>3, <2>4 DEF WellFormed
<1>2. IsBound(items, Prompt(open)) <=> once /\ whole /\ \A i \in DOMAIN items : bound(i)
  BY PromptNamesOpen DEF IsBound
<1>3. DiagnosisAccepted(items, open)
          <=> items # <<>> /\ once /\ whole /\ \A i \in DOMAIN items : accepted(i)
  BY DEF DiagnosisAccepted
<1>4. whole => \A i \in DOMAIN items : items[i].finding \in OpenIds(open)
  OBVIOUS
<1> HIDE DEF bound, accepted, once, whole
<1> QED BY <1>1, <1>2, <1>3, <1>4

(* The deterministic double answers what the runtime accepts, ... *)
LEMMA DoubleIsBound ==
    ASSUME NEW open, Distinguished(open)
    PROVE  /\ WellFormed(DoubleAnswer(Prompt(open)))
           /\ IsBound(DoubleAnswer(Prompt(open)), Prompt(open))
<1> DEFINE prompt == Prompt(open)
           items  == DoubleAnswer(prompt)
<1>1. /\ DOMAIN items = DOMAIN prompt /\ DOMAIN prompt = DOMAIN open
      /\ \A i \in DOMAIN open : /\ items[i] = DoubleItem(prompt[i])
                               /\ prompt[i].finding = open[i].requirement
  BY DEF DoubleAnswer, Prompt
<1>2. ASSUME NEW entry
      PROVE  /\ DoubleItem(entry).finding = entry.finding
             /\ DoubleItem(entry).disposition \in {"APPLIED", "ESCALATE", "NO_ACTION"}
             /\ DoubleItem(entry).disposition = "NO_ACTION" => DoubleItem(entry).option = <<>>
             /\ DoubleItem(entry).disposition # "NO_ACTION" =>
                   \E o \in entry.options :
                       /\ o.id = DoubleItem(entry).option
                       /\ o.tier = IF DoubleItem(entry).disposition = "APPLIED" THEN 1 ELSE 2
  <2> DEFINE ofTier(t) == {o \in entry.options : o.tier = t}
             pick(t)   == CHOOSE o \in ofTier(t) : TRUE
             item(disposition, option) ==
                 [finding |-> entry.finding, disposition |-> disposition, option |-> option]
  <2>1. \A t : ofTier(t) # {} =>
            pick(t) \in entry.options /\ pick(t).tier = t
    OBVIOUS
  <2>2. DoubleItem(entry) =
            CASE ofTier(1) # {} -> item("APPLIED", pick(1).id)
              [] ofTier(2) # {} -> item("ESCALATE", pick(2).id)
              [] OTHER          -> item("NO_ACTION", <<>>)
    BY Zenon DEF DoubleItem
  <2>3. \A d, o : /\ item(d, o).finding = entry.finding
                  /\ item(d, o).disposition = d /\ item(d, o).option = o
    OBVIOUS
  <2> HIDE DEF item, pick, ofTier
  <2>4. \/ ofTier(1) # {} /\ DoubleItem(entry) = item("APPLIED", pick(1).id)
        \/ ofTier(2) # {} /\ DoubleItem(entry) = item("ESCALATE", pick(2).id)
        \/ DoubleItem(entry) = item("NO_ACTION", <<>>)
    BY <2>2
  <2> QED BY <2>1, <2>3, <2>4
<1>3. WellFormed(items)
  BY <1>1, <1>2 DEF WellFormed
<1> HIDE DEF prompt, items
<1>4. \A i, j \in DOMAIN items : items[i].finding = items[j].finding => i = j
  BY <1>1, <1>2 DEF Distinguished
<1>5. {items[i].finding : i \in DOMAIN items} = {prompt[i].finding : i \in DOMAIN prompt}
  <2>1. \A i \in DOMAIN items : items[i].finding = prompt[i].finding
    BY <1>1, <1>2
  <2>2. DOMAIN items = DOMAIN prompt
    BY <1>1
  <2> QED BY <2>1, <2>2
<1>6. \A i \in DOMAIN items :
          IF items[i].disposition = "NO_ACTION" THEN items[i].option = <<>>
          ELSE \E o \in PromptOptions(prompt, items[i].finding) :
                  /\ o.id = items[i].option
                  /\ o.tier = IF items[i].disposition = "APPLIED" THEN 1 ELSE 2
  <2> SUFFICES ASSUME NEW i \in DOMAIN items
               PROVE  IF items[i].disposition = "NO_ACTION" THEN items[i].option = <<>>
                      ELSE \E o \in PromptOptions(prompt, items[i].finding) :
                              /\ o.id = items[i].option
                              /\ o.tier = IF items[i].disposition = "APPLIED" THEN 1 ELSE 2
    OBVIOUS
  <2>1. prompt[i].options \subseteq PromptOptions(prompt, items[i].finding)
    BY <1>1, <1>2 DEF PromptOptions
  <2> QED BY <1>1, <1>2, <2>1
<1>7. IsBound(items, prompt)
  BY <1>4, <1>5, <1>6 DEF IsBound
<1> QED BY <1>3, <1>7 DEF items, prompt

LEMMA DistinguishedIsAlike ==
    ASSUME NEW open, Distinguished(open) PROVE Alike(open)
  BY DEF Distinguished, Alike

(* ... so a run whose open findings are distinguished is never stranded by a  *)
(* model: whatever it replies, or if it fails, the runtime gets an answer it  *)
(* accepts. Where two findings share an identity an answer that names it once *)
(* is accepted as well, but the double names it twice, so that there is no    *)
(* fallback (AgentCoreSemanticModel.generate, diagnose_findings).             *)
THEOREM OnlyTwinsStrand ==
    ASSUME NEW open, Distinguished(open), DOMAIN open # {},
           NEW reply, reply.kind = "diagnosis" => WellFormed(reply.items)
    PROVE  DiagnosisAccepted(Generate(reply, Prompt(open)), open)
<1>1. CASE DiagnosisRejected(reply, Prompt(open))
  <2>1. DOMAIN DoubleAnswer(Prompt(open)) = DOMAIN open
    BY DEF DoubleAnswer, Prompt
  <2>2. DoubleAnswer(Prompt(open)) # <<>>
    BY <2>1
  <2> QED BY <1>1, <2>2, DoubleIsBound, AdapterReadsAsRuntime, DistinguishedIsAlike DEF Generate
<1>2. CASE ~DiagnosisRejected(reply, Prompt(open))
  <2>1. reply.kind = "diagnosis" /\ reply.items # <<>> /\ IsBound(reply.items, Prompt(open))
    BY <1>2 DEF DiagnosisRejected
  <2> QED BY <1>2, <2>1, AdapterReadsAsRuntime, DistinguishedIsAlike DEF Generate
<1> QED BY <1>1, <1>2

-----------------------------------------------------------------------------
(* Whatever a model replies in a run is of the diagnosis' schema. *)
LEMMA EnumeratedOnce ==
    ASSUME NEW S, IsFiniteSet(S)
    PROVE  /\ SetToSeq(S) \in [1 .. Cardinality(S) -> S]
           /\ Cardinality(S) \in Nat
<1>1. PICK n \in Nat : ExistsBijection(1 .. n, S)
  BY FS_NatBijection
<1>2. PICK f : f \in Bijection(1 .. n, S)
  BY <1>1 DEF ExistsBijection
<1>3. Cardinality(S) = n
  BY <1>1, FS_Interval, FS_Bijection
<1>4. f \in [1 .. n -> S] /\ IsInjective(f)
  BY <1>2 DEF Bijection, Injection
<1> QED BY <1>3, <1>4 DEF SetToSeq

LEMMA RepliesWellFormed ==
    ASSUME IsFiniteSet(OpenIds(findings)), OpenIds(findings) # {}, NEW reply \in Replies
    PROVE  /\ WellFormed(reply.items)
           /\ reply.kind # "diagnosis" => reply.items = <<>>
<1> DEFINE D == {"APPLIED", "ESCALATE", "NO_ACTION"}
           shown == UNION {{o.id : o \in OfferedTo(findings, id)} : id \in OpenIds(findings)}
           item(id, d, o) == [finding |-> id, disposition |-> d, option |-> o]
           items(id) == [finding: {id}, disposition: D,
                         option: {<<>>, << <<"closed">>, "">>} \cup shown]
           sensible(id) == {item(id, "NO_ACTION", <<>>)}
                           \cup {item(id, IF o.tier = 1 THEN "APPLIED" ELSE "ESCALATE", o.id)
                                    : o \in OfferedTo(findings, id)}
           ids     == SetToSeq(OpenIds(findings))
           answers == {s \in [DOMAIN ids -> UNION {sensible(id) : id \in Range(ids)}] :
                          \A i \in DOMAIN ids : s[i].finding = ids[i]}
           one     == CHOOSE s \in answers : TRUE
           unknown == item(<<"closed">>, "NO_ACTION", <<>>)
           broken  == {Tail(one), Append(one, one[1]), Append(one, unknown)}
                      \cup {[one EXCEPT ![1] = x] : x \in items(ids[1])}
           T == {x \in (UNION {sensible(id) : id \in Range(ids)})
                       \cup items(ids[1]) \cup {unknown} : x.disposition \in D}
           N == Cardinality(OpenIds(findings))
<1>1. ids \in [1 .. N -> OpenIds(findings)] /\ N \in Nat /\ N > 0
  <2>1. N # 0
    BY FS_EmptySet
  <2> QED BY <2>1, EnumeratedOnce
<1>2. reply \in {[kind |-> "diagnosis", items |-> s] : s \in answers \cup broken}
               \cup {[kind |-> k, items |-> <<>>] : k \in {"error", "malformed", "failure"}}
  BY DEF Replies
<1>3. \A id, d, o : item(id, d, o).disposition = d /\ item(id, d, o).finding = id
  OBVIOUS
<1> HIDE DEF item, shown
<1>4. \A id : \A x \in sensible(id) : x.disposition \in D /\ x.finding = id
  BY <1>3
<1>5. \A id : \A x \in items(id) : x.disposition \in D
  OBVIOUS
<1>6. unknown.disposition \in D
  BY <1>3
<1> HIDE DEF unknown, items
<1>7. (UNION {sensible(id) : id \in Range(ids)}) \subseteq T
      /\ items(ids[1]) \subseteq T /\ unknown \in T
  <2> HIDE DEF sensible, D
  <2> QED BY <1>4, <1>5, <1>6
<1>8. \E s : s \in answers
  <2> DEFINE s0 == [i \in DOMAIN ids |-> item(ids[i], "NO_ACTION", <<>>)]
  <2>1. \A i \in DOMAIN ids : s0[i] \in sensible(ids[i]) /\ s0[i].finding = ids[i]
    BY <1>3
  <2> HIDE DEF sensible
  <2>2. \A i \in DOMAIN ids : s0[i] \in UNION {sensible(id) : id \in Range(ids)}
    BY <2>1 DEF Range
  <2>3. s0 = [i \in DOMAIN ids |-> s0[i]]
    OBVIOUS
  <2> HIDE DEF s0
  <2>4. s0 \in [DOMAIN ids -> UNION {sensible(id) : id \in Range(ids)}]
    BY <2>2, <2>3
  <2> QED BY <2>1, <2>4
<1> HIDE DEF sensible, T
<1>9. \A s \in answers : s \in Seq(T) /\ Len(s) = N
  <2>1. DOMAIN ids = 1 .. N
    BY <1>1
  <2>2. \A s \in answers : s \in [1 .. N -> T]
    BY <1>7, <2>1
  <2> HIDE DEF answers
  <2> QED BY <1>1, <2>2
<1>10. one \in Seq(T) /\ Len(one) = N
  <2>1. one \in answers
    BY <1>8
  <2> HIDE DEF one, answers
  <2> QED BY <1>9, <2>1
<1> HIDE DEF answers, one, N, ids
<1>11. \A s \in broken : s \in Seq(T)
  <2>1. Tail(one) \in Seq(T) /\ one[1] \in T
    BY <1>1, <1>10
  <2>2. Append(one, one[1]) \in Seq(T) /\ Append(one, unknown) \in Seq(T)
    BY <1>7, <1>10, <2>1
  <2>3. \A x \in T : [one EXCEPT ![1] = x] \in Seq(T)
    BY <1>1, <1>10
  <2> QED BY <1>7, <2>1, <2>2, <2>3
<1> HIDE DEF broken
<1>12. \A s \in Seq(T) : WellFormed(s)
  BY DEF WellFormed, T
<1>13. WellFormed(<<>>)
  BY DEF WellFormed
<1>14. CASE reply \in {[kind |-> "diagnosis", items |-> s] : s \in answers \cup broken}
  BY <1>9, <1>11, <1>12, <1>14
<1>15. CASE reply \in {[kind |-> k, items |-> <<>>] : k \in {"error", "malformed", "failure"}}
  BY <1>13, <1>15
<1> QED BY <1>2, <1>14, <1>15

(* In every run the adapter takes for bound exactly what the runtime accepts, *)
(* twins included: the findings of one identity are alike, because they are   *)
(* built from the one requirement the identity looks up (_inspect, _is_bound, *)
(* diagnose_findings).                                                        *)
THEOREM AdapterAgreesForGood == RunSpec => []AdapterAgrees
<1>1. RunStands => AdapterAgrees
  <2> SUFFICES ASSUME RunStands, Diagnosing, NEW reply \in Replies
               PROVE  ~DiagnosisRejected(reply, Prompt(findings))
                         <=> DiagnosisAccepted(reply.items, findings)
    BY DEF AdapterAgrees
  <2>1. Alike(findings)
    BY DEF RunStands, FindingsStand, Diagnosing, Alike
  <2>2. OpenIds(findings) # {}
    BY DEF Diagnosing, ActionRemains, OpenIds
  <2>3. IsFiniteSet(OpenIds(findings))
    <3> DEFINE ids == [i \in DOMAIN findings |-> findings[i].requirement]
    <3>1. ids \in Surjection(DOMAIN findings, OpenIds(findings))
      BY DEF Surjection, OpenIds
    <3> HIDE DEF ids
    <3>2. IsFiniteSet(DOMAIN findings)
      BY <2>1, ListedFinite DEF Alike
    <3> QED BY <3>1, <3>2, FS_Surjection
  <2>4. WellFormed(reply.items) /\ (reply.kind # "diagnosis" => reply.items = <<>>)
    BY <2>2, <2>3, RepliesWellFormed
  <2>5. DiagnosisAccepted(reply.items, findings)
           <=> reply.items # <<>> /\ IsBound(reply.items, Prompt(findings))
    BY <2>1, <2>4, AdapterReadsAsRuntime
  <2> QED BY <2>4, <2>5 DEF DiagnosisRejected
<1> QED BY <1>1, RunStandsForGood, PTL
=============================================================================
