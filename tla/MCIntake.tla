------------------------------ MODULE MCIntake ------------------------------
EXTENDS Views

Text(ends, words) == [kind |-> "text", ends |-> ends, words |-> words]
Mark(kind)        == [kind |-> kind, ends |-> FALSE, words |-> {}]

(* Eight sentences: a plain demand; one over two lines, for a promo only; a   *)
(* recommendation; one "except for promo"; one of unknown force; one that     *)
(* says both must and may and never ends; and two of unknown force with a     *)
(* heading between them that says optional.                                   *)
MCDocument ==
    << Mark("heading"), Text(TRUE, {<<"must">>}), Text(FALSE, {<<"must">>, <<"for", "promo">>}),
       Text(TRUE, {<<"quicktime mov">>}), Mark("blank"), Text(TRUE, {<<"should">>}),
       Mark("numbered"), Text(TRUE, {<<"must">>, <<"except">>, <<"for", "promo">>}),
       Text(TRUE, {}), Mark("blank"), Text(FALSE, {<<"must">>, <<"may">>}), Mark("blank"),
       Text(TRUE, {}), [Mark("heading") EXCEPT !.words = {<<"optional">>}], Text(TRUE, {}) >>

Num(n)  == <<"num", n>>
Word(w) == <<"word", w>>
Draft(operator, values, unit) == <<[operator |-> operator, values |-> values, unit |-> unit]>>

Loudness ==
    [ cited |-> <<1>>, quote |-> <<2, 2>>, key |-> <<"audio.integrated_loudness">>,
      draft |-> Draft("RANGE", <<Num(-26000), Num(-22000)>>, "lkfs"),
      role |-> "PROGRAM_MASTER", stream |-> "primary_audio", conditions |-> <<>>,
      status |-> "EXECUTABLE", disposition |-> None, referenced |-> None ]

Of(key, role, draft) == [Loudness EXCEPT !.key = key, !.role = role, !.draft = draft,
                                         !.stream = None]

Rate(role, n, unit) == Of(<<"audio.sample_rate">>, role, Draft("EQUALS", <<Num(n)>>, unit))
Container == Of(<<"container.format">>, "PROGRAM_MASTER",
                Draft("EQUALS", <<Word("quicktime")>>, None))
FileOf(role) == Of(<<"file_present", role>>, role, Draft("PRESENT", <<>>, None))
Captions(operator, values) ==
    Of(<<"captions.format">>, "CAPTIONS", Draft(operator, values, None))
FrameRate(raw) == Of(<<"video.frame_rate">>, "PROGRAM_MASTER",
                     Draft("EQUALS", <<raw>>, "fps"))
NameOf(role, word) == Of(<<"filename", role>>, role, Draft("EQUALS", <<Word(word)>>, None))

Applies(op, anchor) ==
    <<[field |-> "run.content_type", op |-> op, values |-> {"promo"}, anchor |-> anchor]>>

(* Candidates that are paired with each other and with those below. *)
Common ==
    { Loudness, Rate("PROGRAM_MASTER", 48000, "khz"), Rate("PROGRAM_MASTER", 48000000, "hz"),
      Rate("PROGRAM_MASTER", 44100000, "hz"), Rate("OTHER", 48000000, "hz"),
      FileOf("CAPTIONS"), FileOf("PROGRAM_MASTER"),
      Captions("ONE_OF", <<Word("webvtt"), Word("srt")>>) }

(* Two that bear one identity: they cite the same demand and constrain the    *)
(* same, but one quotes what limits it to promos and one does not.            *)
Limited   == [Loudness EXCEPT !.cited = <<2>>, !.quote = <<3, 4>>,
                              !.conditions = Applies("EQ", 2)]
Unlimited == [Loudness EXCEPT !.cited = <<2>>, !.quote = <<3, 3>>]

Others ==
    { [Loudness EXCEPT !.draft = Draft("RANGE", <<Num(-24000), Num(-24000)>>, "lufs")],
      [Loudness EXCEPT !.draft = Draft("RANGE", <<Num(-22000), Num(-26000)>>, "lufs")],
      [Loudness EXCEPT !.draft = Draft("MIN", <<Num(-24000)>>, None)],
      [Loudness EXCEPT !.draft = <<>>], [Loudness EXCEPT !.stream = None],
      [Loudness EXCEPT !.stream = ""], [Loudness EXCEPT !.disposition = "AUTO_REMEDIATE"],
      [Loudness EXCEPT !.disposition = "FORBIDDEN"], [Loudness EXCEPT !.status = "AMBIGUOUS"],
      [Loudness EXCEPT !.role = "TRAILER"], [Loudness EXCEPT !.referenced = "Appendix"],
      [Loudness EXCEPT !.key = <<>>], [Loudness EXCEPT !.key = <<"audio.phase">>],
      Limited, Unlimited,
      [Loudness EXCEPT !.cited = <<2, 3>>, !.quote = <<4, 6>>, !.conditions = Applies("EQ", 3)],
      [Loudness EXCEPT !.cited = <<4>>, !.quote = <<8, 8>>, !.conditions = Applies("NEQ", 4)],
      [Loudness EXCEPT !.conditions = Applies("EQ", 1)],
      [Loudness EXCEPT !.cited = <<3>>, !.quote = <<6, 6>>],
      [Loudness EXCEPT !.cited = <<5>>, !.quote = <<9, 9>>],
      [Loudness EXCEPT !.cited = <<6>>, !.quote = <<11, 11>>],
      [Loudness EXCEPT !.cited = <<1, 3>>], [Loudness EXCEPT !.cited = <<9>>],
      [Loudness EXCEPT !.cited = <<7, 8>>, !.quote = <<13, 13>>],
      [Loudness EXCEPT !.quote = <<6, 6>>],
      Container, [Container EXCEPT !.cited = <<2>>, !.quote = <<4, 4>>],
      FrameRate(Num(23976)), FrameRate(Num(25000)), FrameRate(Word("25/1")),
      Captions("EQUALS", <<Word("webvtt")>>), Captions("MIN", <<Word("webvtt")>>),
      Captions("EQUALS", <<Word("text/vtt")>>), Captions("EQUALS", <<Word("ttml")>>),
      NameOf("PROGRAM_MASTER", "final"), NameOf("CAPTIONS", "final"),
      [NameOf("PROGRAM_MASTER", "final") EXCEPT !.role = "CAPTIONS"],
      Of(<<"package.filename[role]">>, "PROGRAM_MASTER",
         Draft("MATCHES_PATTERN", <<Word("any"), Word("text")>>, None)),
      Of(<<"package.filename[role]">>, "PROGRAM_MASTER",
         Draft("MATCHES_PATTERN", <<Word("["), Word("text")>>, None)),
      Of(<<"package.manifest_present">>, "MANIFEST", Draft("PRESENT", <<>>, None)),
      Of(<<"package.manifest_present">>, "OTHER", Draft("ABSENT", <<>>, None)),
      Of(<<"package.checksums_match">>, "MANIFEST", Draft("EQUALS", <<Word("yes")>>, None)),
      Of(<<"captions.cue_count">>, "CAPTIONS", Draft("MIN", <<Num(1500)>>, None)),
      Of(<<"captions.overlapping_cues">>, "CAPTIONS", Draft("MAX", <<Num(0)>>, None)),
      Of(<<"captions.max_cue_end_vs_duration">>, "CAPTIONS", Draft("MAX", <<Num(0)>>, "s")) }

(* A whole specification: remedies of every kind in one run. *)
Whole ==
    LET manifest  == Of(<<"package.manifest_present">>, "MANIFEST", Draft("PRESENT", <<>>, None))
        checksums == Of(<<"package.checksums_match">>, "MANIFEST",
                        Draft("EQUALS", <<Word("yes")>>, None))
        webvtt    == Captions("EQUALS", <<Word("webvtt")>>)
        named     == NameOf("PROGRAM_MASTER", "renamed")
    IN  { <<manifest, checksums, Loudness>>, <<manifest, named, webvtt>>,
          <<NameOf("CAPTIONS", "renamed"), webvtt>> }

MCBatches == {<<>>} \cup {<<c>> : c \in Others} \cup (Common \X Common) \cup Whole
             \cup (Common \X Others) \cup (Others \X Common)
             \cup {<<Limited, Unlimited>>, <<Unlimited, Limited>>}

-----------------------------------------------------------------------------
Asset(role, name) ==
    [ role |-> role, name |-> name, content |-> <<name>>, made |-> 0, exists |-> TRUE,
      probe |-> <<>>,
      loudness |-> <<>>, captions |-> <<>>, entries |-> <<>> ]

Probe(rate, sampled) ==
    <<[ formats |-> <<"mov", "mp4">>,
        video |-> <<[ codec |-> <<Word("h264")>>, width |-> << <<"int", 1920000>> >>,
                      height |-> << <<"int", 1080000>> >>, rate |-> << <<"rate", rate>> >>,
                      scan |-> <<>> ]>>,
        audio |-> <<[ channels |-> << <<"int", 2000>> >>, layout |-> <<Word("stereo")>>,
                      rate |-> << <<"int", sampled>> >> ]>> ]>>

Level(l) == <<l, <<"float", -2000>>, <<"float", 5000>> >>

Master(level, rate, sampled) ==
    [Asset("PROGRAM_MASTER", "final") EXCEPT !.probe = Probe(rate, sampled),
                                             !.loudness = Level(level)]

Cues(format, cues) ==
    [Asset("CAPTIONS", "captions") EXCEPT !.captions = <<[format |-> format, cues |-> cues]>>]

Manifest(lines) == [Asset("MANIFEST", "sums") EXCEPT !.entries = <<lines>>]

(* A sound delivery; one that is too loud, with overlapping captions, a stale *)
(* manifest and another sample rate; a silent master at an integral rate,     *)
(* alone; unreadable captions before two masters, the first not a media file; *)
(* two captions, without a manifest.                                          *)
MCPackages ==
    { << Master(<<"float", -24000>>, "24000/1001", 48000000),
         Cues("webvtt", << <<0, 2000>>, <<2000, 3000>> >>),
         Manifest(<< <<"final", <<"final">> >>, <<"captions", <<"captions">> >> >>) >>,
      << Master(<<"float", -18000>>, "24000/1001", 44100000),
         Cues("srt", << <<1000, 3000>>, <<0, 2000>> >>),
         Manifest(<< <<"final", <<"old">> >>, <<"captions", <<"captions">> >> >>) >>,
      << Master(<<"inf", -1>>, "25/1", 48000000) >>,
      << Asset("CAPTIONS", "captions"), Asset("PROGRAM_MASTER", "draft"),
         Master(<<"float", -24000>>, "24000/1001", 48000000) >>,
      << Master(<<"float", -18000>>, "24000/1001", 48000000),
         Cues("srt", << <<0, 2000>> >>), Cues("srt", << <<1000, 2000>> >>) >> }

(* Nothing but two captions files in the wrong format. *)
MCTwins == {<< Cues("srt", << <<0, 2000>> >>), Cues("srt", << <<1000, 2000>> >>) >>}

MCOneDemand == {<<Captions("EQUALS", <<Word("webvtt")>>)>>}

MCExtras(required, delivered) ==
    LET motives == {required[i].requirement : i \in DOMAIN required}
        extra(tool, a, motive, args) ==
            [item |-> "extra", tool |-> tool, asset |-> a, motive |-> motive, args |-> args]
    IN  { extra("verify_manifest", 1, m, <<>>) : m \in motives }
        \cup { extra("measure_loudness", 1, m, << <<"stream", "primary_audio">> >>)
               : m \in motives }
        \cup { extra("rename_delivery_copy", 1, m, <<>>) : m \in motives }
        \cup { extra("probe_media", 9, m, <<>>) : m \in motives }
        \cup { extra("inspect_captions", 1, m, << <<"program_duration_s", seconds>> >>)
               : m \in motives, seconds \in {-1, 60} }
MCConvertedName(name, format) == "captions." \o format
=============================================================================
