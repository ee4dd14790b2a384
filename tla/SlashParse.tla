------------------------------ MODULE SlashParse ------------------------------
(***************************************************************************)
(* What slash.py makes of a /fil- message: each word, or run of words, is  *)
(* matched against the vocabularies whose slot is still open, and the      *)
(* filled slots are routed to a command.  Everything here is a function of *)
(* the message and of the live vocabularies.                               *)
(*                                                                         *)
(* A message is its command word and the words after it.  A run of words   *)
(* is a sequence, and so is a vocabulary key: a channel's name may have    *)
(* several words.  Near holds difflib's ratio, in thousandths, of the runs  *)
(* and keys that are alike without being equal.                            *)
(***************************************************************************)
EXTENDS Integers, Sequences, FiniteSets, SequencesExt, FiniteSetsExt

CONSTANTS
  Channels,    \* the channels the agent may be in: records [room, name]
  Rows, Aliases,  \* ROWS, DEPRECATED_ALIASES
  Servers,     \* MCP servers: canonical grant name by bare name
  Sources,     \* the host's own toolsets, likewise
  FeatureNames,
  Verbs,       \* "grant" or "revoke" by word
  Fillers,     \* FILLER_WORDS
  Shape,       \* the words that force a slot: [slot, bare] by word
  Near         \* ratios by <<run, key>>

Cutoff    == 750 \* FUZZY_CUTOFF
Margin    == 80  \* AMBIGUITY_MARGIN
WidestRun == 3   \* _CHANNEL_NGRAM_MIN, no name here being longer

Commands == {"help", "config", "upgrade"}
Retired  == {"tools", "wake", "guidance", "feature"}

-----------------------------------------------------------------------------
(* Vocabularies.                                                           *)

\* One key that may fill a slot with a value; exact keys are not fuzzy-matched.
Entry(slot, key, value, fuzzy) == [slot |-> slot, key |-> key, value |-> value, fuzzy |-> fuzzy]
Meaning(e) == [slot |-> e.slot, value |-> e.value]
Flat(slot, words) == {Entry(slot, <<w>>, w, TRUE) : w \in words}

ChannelEntries(chans) ==
  {Entry("channel", c.name, c.room, TRUE) : c \in chans}
    \cup {Entry("channel", <<c.room>>, c.room, FALSE) : c \in chans}

\* The bare name of a host toolset counts only where nothing else has its key.
TargetEntries(bundles) ==
  LET named  == Flat("target", Rows \cup Aliases \cup bundles)
                  \cup UNION {{Entry("target", <<s>>, Servers[s], TRUE),
                               Entry("target", <<Servers[s]>>, Servers[s], TRUE)} : s \in DOMAIN Servers}
      hosted == UNION {{Entry("target", <<s>>, Sources[s], TRUE),
                        Entry("target", <<Sources[s]>>, Sources[s], TRUE)} : s \in DOMAIN Sources}
  IN  named \cup {e \in hosted : \A n \in named : n.key # e.key}

VerbEntries(slot) == {Entry(slot, <<w>>, Verbs[w], TRUE) : w \in DOMAIN Verbs}

ConfigEntries(chans, bundles) ==
  ChannelEntries(chans) \cup TargetEntries(bundles) \cup VerbEntries("verb")
    \cup Flat("mode", {"mention", "all"})
    \cup UNION {Flat(sub, {sub}) : sub \in {"show", "list", "tools", "wake"}}

-----------------------------------------------------------------------------
(* Matching one run of words.                                              *)

ShapeOf(w)   == IF w \in DOMAIN Shape THEN Shape[w] ELSE [slot |-> "none", bare |-> w]
IsForced(w)  == ShapeOf(w).slot # "none"
Norm(run)    == <<ShapeOf(run[1]).bare>> \o Tail(run)
Ratio(run, key) == IF run = key THEN 1000 ELSE IF <<run, key>> \in DOMAIN Near THEN Near[<<run, key>>] ELSE 0

ExactHits(run, entries) == {Meaning(e) : e \in {f \in entries : f.key = Norm(run)}}

\* The matches that are too close to the best one to be told from it.
Contenders(scored) ==
  LET best == Max({s.ratio : s \in scored})
  IN  {s \in scored : best - s.ratio <= Margin}

\* The best match of each meaning, for the runs given by width.
Scored(runs, entries) ==
  LET all  == {[meaning |-> Meaning(e), width |-> w, ratio |-> Ratio(Norm(runs[w]), e.key)] :
                 e \in {f \in entries : f.fuzzy}, w \in DOMAIN runs}
      near == {s \in all : s.ratio >= Cutoff}
  IN  {s \in near : \A o \in near : o.meaning = s.meaning =>
         o.ratio < s.ratio \/ (o.ratio = s.ratio /\ o.width <= s.width)}

\* _score: one exact hit, or the candidates to ask about; nothing when nothing is
\* near.  A word with a shape matches its own vocabulary alone.
Score(run, entries) ==
  LET forced == ShapeOf(run[1]).slot
      pool   == {e \in entries : forced = "none" \/ e.slot = forced}
      exact  == ExactHits(run, pool)
      scored == Scored(1 :> run, pool)
  IN  IF exact # {} THEN exact
      ELSE IF scored = {} THEN {} ELSE {s.meaning : s \in Contenders(scored)}

MatchWord(w, vocabulary) == {m.value : m \in Score(<<w>>, Flat("word", vocabulary))}

ChannelsOf(entries) == {e \in entries : e.slot = "channel"}
ExactChannels(run, entries) ==
  IF ShapeOf(run[1]).slot = "target" THEN {} ELSE ExactHits(run, ChannelsOf(entries))
Run(words, i, n)    == SubSeq(words, i, i + n - 1)
WidthsAt(words, i)  == {n \in 1 .. WidestRun : i + n - 1 <= Len(words)}

\* The widest run at i that is exactly a channel's name, 0 when there is none.
ExactWidth(words, i, least, entries) ==
  Max({0} \cup {n \in WidthsAt(words, i) :
                  n >= least /\ ExactChannels(Run(words, i, n), entries) # {}})

\* _fuzzy_channel_ngram: every width competes.
FuzzyRuns(words, i, least, entries) ==
  LET widths == {n \in WidthsAt(words, i) : n >= least}
      scored == Scored([n \in widths |-> Run(words, i, n)], ChannelsOf(entries))
  IN  IF scored = {} THEN {}
      ELSE {[width |-> s.width, meaning |-> s.meaning] : s \in Contenders(scored)}

-----------------------------------------------------------------------------
(* _fill_slots.                                                            *)

\* What a command word may stand for, beside the slots taken before it.
WordHits(w, taken, entries) ==
  {Meaning(e) : e \in {f \in entries : f.slot \notin taken \cup {"channel"} /\ f.key = <<w>>}}

\* Every word of the run is one command word, each for a slot of its own.
AsCommandWords(run, entries) ==
  LET taken[k \in 0 .. Len(run)] ==
        IF k = 0 THEN {} ELSE taken[k - 1] \cup {m.slot : m \in WordHits(run[k], taken[k - 1], entries)}
  IN  \A k \in 1 .. Len(run) : Cardinality(WordHits(run[k], taken[k - 1], entries)) = 1

Pseudo(name) == [slot |-> name, value |-> name]
CommandWords == Pseudo("commands")
Filler       == Pseudo("filler")
Unclear      == Pseudo("unclear")

\* Mutant: a channel's name is taken as such, whatever else its words say.
NeverACommand(run, entries) == {}
\* A name spelled in command words is a second reading, unless its shape forces it.
CommandReading(run, entries) ==
  IF ~IsForced(run[1]) /\ AsCommandWords(run, entries)
  THEN {[width |-> Len(run), meaning |-> CommandWords]} ELSE {}

\* The readings of the words at i: the slot they fill, or a filler to pass over.
\* More than one is a question to ask; none is a word that means nothing.
ReadingsAt(words, i, entries) ==
  LET n    == ExactWidth(words, i, 2, entries)
      run  == Run(words, i, n)
      near == Score(<<words[i]>>, entries)
  IN  IF n > 0
      THEN {[width |-> n, meaning |-> m] : m \in ExactChannels(run, entries)}
             \cup CommandReading(run, entries)
      ELSE IF words[i] \in Fillers THEN {[width |-> 1, meaning |-> Filler]}
      ELSE IF near # {} THEN {[width |-> 1, meaning |-> m] : m \in near}
      ELSE FuzzyRuns(words, i, 2, entries)

OpenFor(slots, entries) == {e \in entries : \A m \in slots : m.slot # e.slot}

\* One reading fills a slot.  After a word that is ambiguous or means nothing there
\* is nothing left to read.
Taken(readings, words, slots, i) ==
  IF Cardinality(readings) # 1 THEN [next |-> Len(words) + 1, slots |-> {Unclear}]
  ELSE LET reading == CHOOSE r \in readings : TRUE
       IN  [next |-> i + reading.width, slots |-> slots \cup ({reading.meaning} \ {Filler})]

\* Word i is read, unless it is of a run that was.
ReadWord(words, entries, state, i) ==
  IF i < state.next THEN state
  ELSE Taken(ReadingsAt(words, i, OpenFor(state.slots, entries)), words, state.slots, i)

\* The slots that the words fill, or Unclear alone.
Fill(words, entries) ==
  LET upTo[i \in 0 .. Len(words)] ==
        IF i = 0 THEN [next |-> 1, slots |-> {}] ELSE ReadWord(words, entries, upTo[i - 1], i)
  IN  upTo[Len(words)].slots

-----------------------------------------------------------------------------
(* The commands.  A result that changes nothing is an answer.              *)

Answer  == [kind |-> "answer"]
Show(r) == [kind |-> "show", room |-> r]

Slots(slots)    == {m.slot : m \in slots}
Filled(slots, slot) == (CHOOSE m \in slots : m.slot = slot).value

\* A tools change names a channel, a target and a verb, and neither asks to see
\* anything nor speaks of waking.
IsToolsChange(have) ==
  /\ {"channel", "target", "verb"} \subseteq have
  /\ have \cap {"show", "list", "wake", "mode"} = {}

\* "off" is a verb, and the off mode after wake.
WakeModeOf(slots) ==
  LET have == Slots(slots)
  IN  IF "mode" \in have
      THEN IF "verb" \in have /\ Filled(slots, "verb") = "revoke" THEN "unclear" ELSE Filled(slots, "mode")
      ELSE IF "verb" \in have /\ Filled(slots, "verb") = "revoke" THEN "off" ELSE "unclear"

IsWakeChange(have) ==
  {"channel", "wake"} \subseteq have /\ have \subseteq {"channel", "wake", "mode", "verb"}

\* _route_config_slots.
Route(slots) ==
  LET have == Slots(slots)
      room == Filled(slots, "channel")
  IN  IF IsToolsChange(have)
      THEN [kind |-> "tools", room |-> room, target |-> Filled(slots, "target"),
            verb |-> Filled(slots, "verb")]
      ELSE IF IsWakeChange(have) /\ WakeModeOf(slots) # "unclear"
      THEN [kind |-> "wake", room |-> room, mode |-> WakeModeOf(slots)]
      ELSE IF "channel" \in have /\ have \subseteq {"channel", "show", "list", "tools"}
      THEN Show(room)
      ELSE Answer

Meaningful(words) == SelectSeq(words, LAMBDA w : w \notin Fillers)
IsKeyword(w, keyword) == ~IsForced(w) /\ MatchWord(w, {keyword}) # {}

\* _parse_feature: a feature and its state.
ParseFeature(words) ==
  LET entries == Flat("feature", FeatureNames) \cup VerbEntries("state") \cup Flat("list", {"list"})
      slots   == Fill(words, entries)
  IN  IF Slots(slots) = {"feature", "state"}
      THEN [kind |-> "feature", feature |-> Filled(slots, "feature"),
            on |-> Filled(slots, "state") = "grant"]
      ELSE Answer

\* The first attempt with a hit or candidates decides.
FirstNonempty(attempts) ==
  LET hits == SelectSeq(attempts, LAMBDA a : a # {})
  IN  IF hits = <<>> THEN {} ELSE hits[1]

\* The channel named by what stands before the guidance keyword, fillers kept or
\* left out.
ChannelBefore(words, entries) ==
  LET joins == IF Meaningful(words) = <<>> THEN <<words>> ELSE <<words, Meaningful(words)>>
  IN  FirstNonempty([i \in 1 .. Len(joins) |-> ExactChannels(joins[i], entries)]
                      \o [i \in 1 .. Len(joins) |-> Score(joins[i], entries)])

\* Keyword first: the channel is at the head of the text.
ChannelAtHead(words, entries) ==
  LET n   == ExactWidth(words, 1, 1, entries)
      run == Run(words, 1, n)
  IN  IF n > 0 THEN {[width |-> n, meaning |-> m] : m \in ExactChannels(run, entries)}
      ELSE FuzzyRuns(words, 1, 1, entries)

Guide(room, text) ==
  IF text = <<>> THEN Answer
  ELSE [kind |-> "guidance", room |-> room, text |-> IF text = <<"clear">> THEN <<>> ELSE text]

\* _config_guidance: what follows is kept word for word, "clear" apart.
ParseGuidance(words, pos, entries) ==
  LET text  == SubSeq(words, pos + 1, Len(words))
      named == ChannelBefore(SubSeq(words, 1, pos - 1), entries)
      ahead == ChannelAtHead(text, entries)
      lead  == CHOOSE r \in ahead : TRUE
  IN  IF pos > 1
      THEN IF Cardinality(named) = 1 THEN Guide((CHOOSE m \in named : TRUE).value, text) ELSE Answer
      ELSE IF text = <<>> \/ Cardinality(ahead) # 1 THEN Answer
      ELSE Guide(lead.meaning.value, SubSeq(text, lead.width + 1, Len(text)))

\* Where the guidance keyword may stand: first, or within reach after a channel,
\* whose exact name at the head keeps its own words.
KeywordPlaces(words, entries) ==
  LET lead  == ExactWidth(words, 1, 2, entries)
      after == {i \in lead + 1 .. Len(words) : words[i] \notin Fillers}
  IN  {i \in after : Cardinality({j \in after : j < i}) <= WidestRun}

\* _parse_config.
ParseConfig(words, chans, bundles) ==
  LET entries == ChannelEntries(chans)
      read    == {i \in DOMAIN words : words[i] \notin Fillers}
      first   == words[Min(read)]
      places  == KeywordPlaces(words, entries)
      keys    == {i \in places : IsKeyword(words[i], "guidance")}
      pos     == Min(keys)
      Clash(w) == ExactChannels(<<w>>, entries) # {}
  IN  IF read = {} \/ first = "help" THEN Answer
      ELSE IF IsKeyword(first, "feature")
      THEN IF Clash(first) THEN Answer ELSE ParseFeature(Tail(Meaningful(words)))
      ELSE IF keys # {}
      THEN IF pos = Min(places) /\ Clash(words[pos]) THEN Answer
           ELSE ParseGuidance(words, pos, entries)
      ELSE Route(Fill(words, ConfigEntries(chans, bundles)))

\* parse.  A retired command is answered with its new spelling, and /fil-upgrade
\* takes no argument.
Parse(message, chans, bundles) ==
  LET named == MatchWord(message.command, Commands \cup Retired)
  IN  IF named = {"config"} THEN ParseConfig(message.words, chans, bundles)
      ELSE IF named = {"upgrade"} /\ message.words = <<>> THEN [kind |-> "upgrade"]
      ELSE Answer

\* is_always_on.
AlwaysOn(message) ==
  LET named == MatchWord(message.command, Commands \cup Retired)
  IN  named \in {{"upgrade"}, {"help"}}
=============================================================================
