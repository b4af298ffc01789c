--------------------------- MODULE MediaInspection ---------------------------
(* The five Tier-0 tools: the facts each reads from the files of the current  *)
(* package, and when a tool fails, or raises instead of failing.              *)
(*                                                                            *)
(* A package is a sequence of assets [role, name, content, exists, probe,     *)
(* loudness, captions, entries]. What ffprobe, ffmpeg and a file's bytes say  *)
(* is data: a sequence that is empty when they say nothing usable.            *)
(*   probe     <<[formats, video, audio]>>, video <<[codec, width, height,    *)
(*             rate, scan]>>, audio <<[channels, layout, rate]>>; a missing   *)
(*             field is empty, another holds the one canonical value          *)
(*   loudness  <<integrated, peak, range>>                                    *)
(*   captions  <<[format, cues]>>, the cues empty when a block is malformed   *)
(*   entries   <<lines>>, each line <<name, content>>                         *)
EXTENDS Catalog, SequencesExt

Fact(key, asset, values) ==
    [ key |-> key, asset |-> asset, values |-> values, unit |-> CanonicalUnit(key),
      status |-> IF values = <<>> THEN "ERROR" ELSE "OK" ]

(* What a tool returns: the facts it could read. It raises when the contract  *)
(* of a fact refuses the value that was read.                                 *)
Inspected(facts) ==
    [ facts |-> facts,
      raises |-> \E f \in facts :
                     f.status = "OK" /\ ~ValidMeasurementValue(f.key, f.values[1]) ]

NothingRead == Inspected({})

(* The facts among a set of <<key, values>> pairs that were there to read. *)
FactsOf(asset, pairs) ==
    {Fact(p[1], asset, p[2]) : p \in {q \in pairs : q[2] # <<>>}}

Holding(package, role) ==
    \E a \in DOMAIN package : package[a].role = role /\ package[a].exists

(* Files and roles; asset 0 is the package as a whole. *)
ScanPackage(package) ==
    Inspected(
        (UNION { FactsOf(a, { <<"package.file_present[role]",
                                << <<"bool", package[a].exists>> >> >>,
                              <<"package.filename[role]",
                                IF package[a].exists
                                THEN << <<"word", package[a].name>> >> ELSE <<>> >> })
                 : a \in DOMAIN package })
        \cup FactsOf(0, { <<"package.manifest_present",
                            << <<"bool", Holding(package, "MANIFEST")>> >> >>,
                          <<"captions.present",
                            << <<"bool", Holding(package, "CAPTIONS")>> >> >> }))

ProbeMedia(package, a) ==
    IF ~package[a].exists \/ package[a].probe = <<>> THEN NothingRead
    ELSE LET probe == package[a].probe[1] IN
         Inspected(FactsOf(a,
            { <<"container.format",
                CASE probe.formats = <<>> -> <<>>
                  [] "mov" \in Range(probe.formats) -> << <<"word", "quicktime mov">> >>
                  [] OTHER -> << <<"word", Head(probe.formats)>> >> >> }
            \cup (UNION { { <<"video.codec", v.codec>>, <<"video.width", v.width>>,
                            <<"video.height", v.height>>, <<"video.frame_rate", v.rate>>,
                            <<"video.scan_type", IF v.scan = <<>>
                                                 THEN << <<"word", "unknown">> >>
                                                 ELSE v.scan>> }
                          : v \in Range(probe.video) })
            \cup (UNION { { <<"audio.channel_count", s.channels>>,
                            <<"audio.channel_layout", s.layout>>,
                            <<"audio.sample_rate", s.rate>> }
                          : s \in Range(probe.audio) })))

MeasureLoudness(package, a, stream) ==
    IF stream # "primary_audio" \/ ~package[a].exists \/ package[a].loudness = <<>>
    THEN NothingRead
    ELSE Inspected(FactsOf(a,
            { <<"audio.integrated_loudness", <<package[a].loudness[1]>> >>,
              <<"audio.true_peak", <<package[a].loudness[2]>> >>,
              <<"audio.loudness_range", <<package[a].loudness[3]>> >> }))

TimingKeys == {"captions.cue_count", "captions.first_cue_start",
               "captions.overlapping_cues", "captions.max_cue_end_vs_duration"}

(* Captions nobody can read have the format "unknown", which is a fact, and   *)
(* no timing, which is an error.                                              *)
CaptionFailure(a) ==
    Inspected({Fact("captions.format", a, << <<"word", "unknown">> >>)}
              \cup {Fact(key, a, <<>>) : key \in TimingKeys})

SortedCues(cues) ==
    LET Sooner(c, d) == c[1] < d[1] \/ (c[1] = d[1] /\ c[2] < d[2])
    IN  SortSeq(cues, Sooner)

(* The run never passes the program's duration: the end of the last cue       *)
(* relative to it is not measured.                                            *)
InspectCaptions(package, a) ==
    IF ~package[a].exists THEN NothingRead
    ELSE IF package[a].captions = <<>> \/ package[a].captions[1].cues = <<>>
    THEN CaptionFailure(a)
    ELSE LET cues == SortedCues(package[a].captions[1].cues)
             late == {i \in 1 .. Len(cues) - 1 : cues[i][2] > cues[i + 1][1]}
         IN  Inspected(FactsOf(a,
                { <<"captions.format", << <<"word", package[a].captions[1].format>> >> >>,
                  <<"captions.cue_count", << <<"int", 1000 * Len(cues)>> >> >>,
                  <<"captions.first_cue_start", << <<"float", cues[1][1]>> >> >>,
                  <<"captions.overlapping_cues",
                    << <<"int", 1000 * Cardinality(late)>> >> >> }))

(* The manifest lists exactly the other files, each once, with its content. *)
VerifyManifest(package) ==
    LET manifests == {a \in DOMAIN package : package[a].role = "MANIFEST"}
        delivered == DOMAIN package \ manifests
        manifest  == package[CHOOSE a \in manifests : TRUE]
    IN  IF Cardinality(manifests) # 1 THEN NothingRead
        ELSE IF ~manifest.exists \/ manifest.entries = <<>> THEN NothingRead
        ELSE LET lines == manifest.entries[1]
                 names == {lines[i][1] : i \in DOMAIN lines}
             IN  IF Cardinality(names) # Len(lines) THEN NothingRead
                 ELSE Inspected({Fact("package.checksums_match", 0, << <<"bool",
                        /\ names = {package[a].name : a \in delivered}
                        /\ \A a \in delivered :
                              /\ package[a].exists
                              /\ <<package[a].name, package[a].content>> \in Range(lines)
                        >> >>)})

ExecuteInspection(tool, package, a, stream) ==
    CASE tool = "scan_package"     -> ScanPackage(package)
      [] tool = "probe_media"      -> ProbeMedia(package, a)
      [] tool = "measure_loudness" -> MeasureLoudness(package, a, stream)
      [] tool = "inspect_captions" -> InspectCaptions(package, a)
      [] tool = "verify_manifest"  -> VerifyManifest(package)
=============================================================================
