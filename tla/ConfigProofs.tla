---------------------------- MODULE ConfigProofs ----------------------------
(***************************************************************************)
(* What TLAPS proves of the two machines around config.json, for any       *)
(* values of their constants.                                              *)
(*                                                                         *)
(* Settings, for any names and any way to spell them, any submissions, any *)
(* hand-made files and any bounds on the runs: what _coerce does is done   *)
(* after the second time, the list of profiles goes through a write in its *)
(* order, and so no Save changes what it is not about; a preset stays      *)
(* beside its scale.                                                       *)
(*                                                                         *)
(* SyncGate, for any number of background threads and Batches, and any     *)
(* budget of outside events: the types and the lock, the gate around       *)
(* data/upcoming, and what a finished rebuild leaves.  The two share no    *)
(* variable and no constant.                                               *)
(***************************************************************************)
EXTENDS Settings, SyncGate, SequenceTheorems, WellFoundedInduction, TLAPS

Presets == {"small", "default", "custom"}
AllKeys == {"num_taps", "api_key", "paginate", "page_size", "photo_preset", "image_scale",
            "show_upcoming", "upcoming_label", "album_all", "album_selection"}

\* What _coerce makes of a value that is there, whatever the other values are.
FixedNumber(k, x) == IF x = Junk THEN DEFAULT_CONFIG[k] ELSE Clamped(x, SETTINGS_BOUNDS[k])
FixedPreset(x) == IF x \in Presets THEN x ELSE "default"
Fixed(k, x) ==
    CASE k \in Numbers        -> FixedNumber(k, x)
      [] k = "photo_preset"   -> FixedPreset(x)
      [] k = "upcoming_label" -> CoercedLabel(Text(x))
      [] k = "album_selection" -> CoercedSelection(x)
      [] k = "api_key"        -> Text(x)
      [] k \in Switches       -> x # FALSE

\* The values within bounds.
Within(k) == SETTINGS_BOUNDS[k][1] .. SETTINGS_BOUNDS[k][2]
Labels == Texts \ {"", "too long"}       \* of a label, and of an album's name
GoodValues(k) ==
    CASE k \in Numbers        -> Within(k)
      [] k = "photo_preset"   -> Presets
      [] k = "upcoming_label" -> Labels
      [] k = "album_selection" -> SUBSET Labels
      [] k = "api_key"        -> Texts
      [] k \in Switches       -> BOOLEAN

LEMMA Schema ==
    /\ Keys = AllKeys /\ DOMAIN SETTINGS_BOUNDS = Numbers
    /\ DOMAIN PRESETS \union {"custom"} = Presets /\ DOMAIN DEFAULT_CONFIG = AllKeys
<1>1. \A k : k \in UNION Units <=> k \in {"paginate", "page_size", "photo_preset", "image_scale",
                                          "show_upcoming", "upcoming_label",
                                          "album_all", "album_selection"}
  BY DEF Units
<1>2. Keys = AllKeys
  BY <1>1 DEF Keys, BaseOnly, AllKeys
<1>3. DOMAIN SETTINGS_BOUNDS = Numbers
  BY DEF SETTINGS_BOUNDS, Numbers
<1>4. DOMAIN PRESETS \union {"custom"} = Presets
  BY DEF PRESETS, Presets
<1>5. DOMAIN DEFAULT_CONFIG = AllKeys
  BY DEF DEFAULT_CONFIG, AllKeys
<1> QED
  BY <1>2, <1>3, <1>4, <1>5

\* The six kinds of keys, and what each definition by cases says of them.
LEMMA Kinds ==
    ASSUME NEW k \in Keys
    PROVE  \/ k \in Numbers /\ FieldValues(k) = {Junk} \union Int /\ GoodValues(k) = Within(k)
              /\ \A x : Fixed(k, x) = FixedNumber(k, x)
           \/ k = "photo_preset" /\ FieldValues(k) = {Junk} \union Texts /\ GoodValues(k) = Presets
              /\ \A x : Fixed(k, x) = FixedPreset(x)
           \/ k = "upcoming_label" /\ FieldValues(k) = {Junk} \union Texts /\ GoodValues(k) = Labels
              /\ \A x : Fixed(k, x) = CoercedLabel(Text(x))
           \/ k = "album_selection" /\ FieldValues(k) = Selections /\ GoodValues(k) = SUBSET Labels
              /\ \A x : Fixed(k, x) = CoercedSelection(x)
           \/ k = "api_key" /\ FieldValues(k) = {Junk} \union Texts /\ GoodValues(k) = Texts
              /\ \A x : Fixed(k, x) = Text(x)
           \/ k \in Switches /\ FieldValues(k) = {Junk} \union BOOLEAN /\ GoodValues(k) = BOOLEAN
              /\ \A x : Fixed(k, x) = (x # FALSE)
<1>1. k \in AllKeys
  BY Schema
<1>2. CASE k \in Numbers
  <2>1. k \notin Switches /\ k \notin {"photo_preset", "upcoming_label", "album_selection", "api_key"}
    BY <1>2 DEF Numbers, Switches
  <2> QED
    BY <1>2, <2>1 DEF FieldValues, GoodValues, Fixed
<1>3. CASE k = "photo_preset"
  BY <1>3 DEF Numbers, Switches, FieldValues, GoodValues, Fixed
<1>4. CASE k = "upcoming_label"
  BY <1>4 DEF Numbers, Switches, FieldValues, GoodValues, Fixed
<1>4a. CASE k = "album_selection"
  BY <1>4a DEF Numbers, Switches, FieldValues, GoodValues, Fixed
<1>5. CASE k = "api_key"
  BY <1>5 DEF Numbers, Switches, FieldValues, GoodValues, Fixed
<1>6. CASE k \in Switches
  <2>1. k \notin Numbers /\ k \notin {"photo_preset", "upcoming_label", "album_selection", "api_key"}
    BY <1>6 DEF Numbers, Switches
  <2> QED
    BY <1>6, <2>1 DEF FieldValues, GoodValues, Fixed
<1> QED
  BY <1>1, <1>2, <1>3, <1>4, <1>4a, <1>5, <1>6 DEF AllKeys, Numbers, Switches

LEMMA Bounds ==
    ASSUME NEW k \in Numbers
    PROVE  /\ DEFAULT_CONFIG[k] \in Within(k) /\ Within(k) \subseteq Int
           /\ \A x \in Int : Clamped(x, SETTINGS_BOUNDS[k]) \in Within(k)
           /\ \A x \in Within(k) : Clamped(x, SETTINGS_BOUNDS[k]) = x
<1>1. CASE k = "num_taps"
  BY <1>1 DEF Within, SETTINGS_BOUNDS, DEFAULT_CONFIG, Clamped
<1>2. CASE k = "page_size"
  BY <1>2 DEF Within, SETTINGS_BOUNDS, DEFAULT_CONFIG, Clamped
<1>3. CASE k = "image_scale"
  BY <1>3 DEF Within, SETTINGS_BOUNDS, DEFAULT_CONFIG, Clamped
<1> QED
  BY <1>1, <1>2, <1>3 DEF Numbers

LEMMA DefaultIsGood == ASSUME NEW k \in Keys PROVE DEFAULT_CONFIG[k] \in GoodValues(k)
<1>1. CASE k \in Numbers
  BY <1>1, Bounds, Kinds DEF Numbers, Switches
<1>2. CASE k = "photo_preset"
  BY <1>2, Kinds DEF Numbers, Switches, Presets, DEFAULT_CONFIG
<1>3. CASE k = "upcoming_label"
  BY <1>3, Kinds DEF Numbers, Switches, Labels, DEFAULT_CONFIG, Texts, Literals
<1>4. CASE k = "api_key"
  BY <1>4, Kinds DEF Numbers, Switches, DEFAULT_CONFIG, Texts, Literals
<1>5. CASE k = "paginate"
  BY <1>5, Kinds DEF Numbers, Switches, DEFAULT_CONFIG
<1>6. CASE k = "show_upcoming"
  BY <1>6, Kinds DEF Numbers, Switches, DEFAULT_CONFIG
<1>7. CASE k = "album_all"
  BY <1>7, Kinds DEF Numbers, Switches, DEFAULT_CONFIG
<1>8. CASE k = "album_selection"
  BY <1>8, Kinds DEF Numbers, Switches, DEFAULT_CONFIG
<1> QED
  BY <1>1, <1>2, <1>3, <1>4, <1>5, <1>6, <1>7, <1>8, Schema DEF AllKeys, Numbers

LEMMA GoodIsField ==
    ASSUME NEW k \in Keys
    PROVE  GoodValues(k) \subseteq FieldValues(k) /\ FieldValues(k) \subseteq AnyValue
<1>1. FieldValues(k) \subseteq AnyValue
  BY Kinds DEF AnyValue
<1>2. GoodValues(k) \subseteq FieldValues(k)
  BY Kinds, Bounds DEF Labels, Presets, Texts, Literals, Selections
<1> QED
  BY <1>1, <1>2

LEMMA TextIs == ASSUME NEW x \in {Junk} \union Texts PROVE Text(x) \in Texts
BY DEF Text, Texts, Literals

LEMMA LabelIsGood ==
    ASSUME NEW x \in Texts
    PROVE  CoercedLabel(x) \in Labels /\ (x \in Labels => CoercedLabel(x) = Stripped("upcoming_label", x))
BY DEF CoercedLabel, Cut, Labels, Stripped, Trimmed, DEFAULT_CONFIG, Texts, Literals

LEMMA CutIsGood ==
    ASSUME NEW t \in Texts
    PROVE  /\ Cut(t) \in Texts \ {"too long"} /\ (t \in Labels => Cut(t) = Trimmed(t))
           /\ (t \in Labels => Trimmed(t) \in Labels)
BY DEF Cut, Trimmed, Labels, Texts, Literals

LEMMA SelectionIsGood ==
    /\ \A x \in Selections : CoercedSelection(x) \in SUBSET Labels
    /\ \A x \in SUBSET Labels : CoercedSelection(x) = Stripped("album_selection", x)
<1>1. ASSUME NEW x \in Selections PROVE CoercedSelection(x) \in SUBSET Labels
  BY CutIsGood DEF CoercedSelection, Selections, Labels
<1>2. ASSUME NEW x \in SUBSET Labels PROVE CoercedSelection(x) = Stripped("album_selection", x)
  <2>1. \A t \in x : t # Junk /\ Cut(t) = Trimmed(t) /\ Trimmed(t) # ""
    BY CutIsGood, SettingsAssumption DEF Labels
  <2>2. CoercedSelection(x) = {Trimmed(t) : t \in x}
    BY <2>1 DEF CoercedSelection
  <2> QED
    BY <2>2 DEF Stripped
<1> QED
  BY <1>1, <1>2

LEMMA FixedIsGood ==
    ASSUME NEW k \in Keys, NEW x \in FieldValues(k) PROVE Fixed(k, x) \in GoodValues(k)
<1>1. CASE k \in Numbers
  <2>1. k \notin Switches /\ k \notin {"photo_preset", "upcoming_label", "album_selection", "api_key"}
    BY <1>1 DEF Numbers, Switches
  <2>2. x \in {Junk} \union Int /\ Fixed(k, x) = FixedNumber(k, x) /\ GoodValues(k) = Within(k)
    BY <1>1, <2>1, Kinds
  <2> QED
    BY <1>1, <2>2, Bounds DEF FixedNumber
<1>2. CASE k = "photo_preset"
  BY <1>2, Kinds DEF Numbers, Switches, FixedPreset, Presets
<1>3. CASE k = "upcoming_label"
  <2>1. x \in {Junk} \union Texts /\ Fixed(k, x) = CoercedLabel(Text(x)) /\ GoodValues(k) = Labels
    BY <1>3, Kinds DEF Numbers, Switches
  <2> QED
    BY <2>1, TextIs, LabelIsGood
<1>3a. CASE k = "album_selection"
  BY <1>3a, Kinds, SelectionIsGood DEF Numbers, Switches
<1>4. CASE k = "api_key"
  <2>1. x \in {Junk} \union Texts /\ Fixed(k, x) = Text(x) /\ GoodValues(k) = Texts
    BY <1>4, Kinds DEF Numbers, Switches
  <2> QED
    BY <2>1, TextIs
<1>5. CASE k \in Switches
  <2>1. k \notin Numbers /\ k \notin {"photo_preset", "upcoming_label", "album_selection", "api_key"}
    BY <1>5 DEF Numbers, Switches
  <2>2. GoodValues(k) = BOOLEAN /\ Fixed(k, x) = (x # FALSE)
    BY <1>5, <2>1, Kinds
  <2> QED
    BY <2>2
<1> QED
  BY <1>1, <1>2, <1>3, <1>3a, <1>4, <1>5, Kinds

LEMMA FixedKeepsGood ==
    ASSUME NEW k \in Keys, NEW x \in GoodValues(k) PROVE Fixed(k, x) = Stripped(k, x)
<1>1. CASE k \in Numbers
  <2>1. k \notin Switches /\ k \notin {"photo_preset", "upcoming_label", "album_selection", "api_key"}
    BY <1>1 DEF Numbers, Switches
  <2>2. x \in Within(k) /\ Fixed(k, x) = FixedNumber(k, x)
    BY <1>1, <2>1, Kinds
  <2>3. x # Junk
    BY <1>1, <2>2, Bounds, SettingsAssumption
  <2> QED
    BY <1>1, <2>1, <2>2, <2>3, Bounds DEF FixedNumber, Stripped
<1>2. CASE k = "photo_preset"
  BY <1>2, Kinds DEF Numbers, Switches, FixedPreset, Stripped
<1>3. CASE k = "upcoming_label"
  <2>1. Fixed(k, x) = CoercedLabel(Text(x)) /\ x \in Labels
    BY <1>3, Kinds DEF Numbers, Switches
  <2>2. Text(x) = x /\ x \in Texts
    BY <2>1, SettingsAssumption DEF Text, Labels
  <2> QED
    BY <1>3, <2>1, <2>2, LabelIsGood
<1>3a. CASE k = "album_selection"
  BY <1>3a, Kinds, SelectionIsGood DEF Numbers, Switches
<1>4. CASE k = "api_key"
  BY <1>4, Kinds, SettingsAssumption DEF Numbers, Switches, Text, Stripped
<1>5. CASE k \in Switches
  <2>1. k \notin Numbers /\ k \notin {"photo_preset", "upcoming_label", "album_selection", "api_key"}
    BY <1>5 DEF Numbers, Switches
  <2>2. x \in BOOLEAN /\ Fixed(k, x) = (x # FALSE)
    BY <1>5, <2>1, Kinds
  <2>3. Stripped(k, x) = x
    BY <2>1 DEF Stripped
  <2> QED
    BY <2>2, <2>3
<1> QED
  BY <1>1, <1>2, <1>3, <1>3a, <1>4, <1>5, Kinds
---------------------------------------------------------------------------
\* _coerce, of a part of the schema or of all of it

\* A part of the schema within bounds, and all of it.
IsGood(values) ==
    /\ DOMAIN values \subseteq Keys
    /\ values = [k \in DOMAIN values |-> values[k]]
    /\ \A k \in DOMAIN values : values[k] \in GoodValues(k)

LEMMA GoodIsFields == ASSUME NEW v, IsGood(v) PROVE IsFields(v)
BY GoodIsField DEF IsGood, IsFields

LEMMA CoercedIs ==
    ASSUME NEW cfg, IsFields(cfg)
    PROVE  /\ IsGood(Coerced(cfg)) /\ DOMAIN Coerced(cfg) = Keys
           /\ \A k \in DOMAIN cfg : Coerced(cfg)[k] = Fixed(k, cfg[k])
<1> DEFINE merged == Merged(cfg)
           number(k) == IF merged[k] = Junk THEN DEFAULT_CONFIG[k] ELSE Clamped(merged[k], SETTINGS_BOUNDS[k])
<1>1. ASSUME NEW k \in Keys
      PROVE  merged[k] \in FieldValues(k) /\ (k \in DOMAIN cfg => merged[k] = cfg[k])
  BY <1>1, DefaultIsGood, GoodIsField DEF Merged, IsFields
<1>2. ASSUME NEW k \in Numbers PROVE number(k) = Fixed(k, merged[k]) /\ k \in Keys
  BY <1>2, Kinds, Schema DEF Numbers, Switches, AllKeys, FixedNumber
<1>3. CoercedPreset(cfg, number("image_scale")) \in Presets
  BY Schema DEF CoercedPreset, PresetForScale, DEFAULT_CONFIG, Presets
<1>4. "photo_preset" \in DOMAIN cfg =>
         CoercedPreset(cfg, number("image_scale")) = Fixed("photo_preset", cfg["photo_preset"])
  BY Schema, Kinds DEF CoercedPreset, DEFAULT_CONFIG, Fixed, FixedPreset, Numbers, Switches, AllKeys
<1> DEFINE one(k) ==
          CASE k \in Numbers             -> number(k)
            [] k = "photo_preset"        -> CoercedPreset(cfg, number("image_scale"))
            [] k = "upcoming_label"      -> CoercedLabel(Text(merged[k]))
            [] k = "album_selection"     -> CoercedSelection(merged[k])
            [] k = "api_key"             -> Text(merged[k])
            [] k \in Switches            -> merged[k] # FALSE
<1>5. Coerced(cfg) = [k \in Keys |-> one(k)]
  BY DEF Coerced
<1> HIDE DEF number, merged
<1>6. ASSUME NEW k \in Keys
      PROVE  one(k) \in GoodValues(k) /\ (k \in DOMAIN cfg => one(k) = Fixed(k, cfg[k]))
  <2>1. CASE k = "photo_preset"
    <3>1. one(k) = CoercedPreset(cfg, number("image_scale"))
      BY <2>1 DEF Numbers, Switches
    <3>2. GoodValues(k) = Presets
      BY <2>1, Kinds DEF Numbers, Switches
    <3> QED
      BY <1>3, <1>4, <2>1, <3>1, <3>2
  <2>2. CASE k # "photo_preset"
    <3>1. one(k) = Fixed(k, merged[k])
      <4>1. CASE k \in Numbers
        <5>1. k \notin Switches /\ k \notin {"photo_preset", "upcoming_label", "album_selection", "api_key"}
          BY <4>1 DEF Numbers, Switches
        <5> QED
          BY <1>2, <4>1, <5>1
      <4>2. CASE k = "upcoming_label"
        <5>1. one(k) = CoercedLabel(Text(merged[k]))
          BY <4>2 DEF Numbers, Switches
        <5> QED
          BY <4>2, <5>1, Kinds DEF Numbers, Switches
      <4>2a. CASE k = "album_selection"
        <5>1. one(k) = CoercedSelection(merged[k])
          BY <4>2a DEF Numbers, Switches
        <5> QED
          BY <4>2a, <5>1, Kinds DEF Numbers, Switches
      <4>3. CASE k = "api_key"
        <5>1. one(k) = Text(merged[k])
          BY <4>3 DEF Numbers, Switches
        <5> QED
          BY <4>3, <5>1, Kinds DEF Numbers, Switches
      <4>4. CASE k \in Switches
        <5>1. k \notin Numbers /\ k \notin {"photo_preset", "upcoming_label", "album_selection", "api_key"}
          BY <4>4 DEF Numbers, Switches
        <5> DEFINE on == merged[k] # FALSE
        <5>2. one(k) = on
          BY <4>4, <5>1
        <5>3. Fixed(k, merged[k]) = on
          BY <4>4, <5>1, Kinds
        <5> HIDE DEF on, one
        <5> QED
          BY <5>2, <5>3
      <4> QED
        BY <2>2, <4>1, <4>2, <4>2a, <4>3, <4>4, Kinds
    <3> QED
      BY <1>1, <3>1, FixedIsGood
  <2> QED
    BY <2>1, <2>2
<1> HIDE DEF one
<1>7. DOMAIN Coerced(cfg) = Keys /\ \A k \in Keys : Coerced(cfg)[k] = one(k)
  BY <1>5
<1>8. Coerced(cfg) = [k \in DOMAIN Coerced(cfg) |-> Coerced(cfg)[k]]
  BY <1>5
<1> QED
  BY <1>6, <1>7, <1>8 DEF IsGood, IsFields

\* Once within bounds, what is there changes no more, but for the space a text was cut after.
LEMMA CoercedAgain ==
    ASSUME NEW v, IsGood(v)
    PROVE  \A k \in DOMAIN v : Coerced(v)[k] = Stripped(k, v[k])
BY CoercedIs, GoodIsFields, FixedKeepsGood DEF IsGood

NoCut(v) == \A k \in DOMAIN v : Stripped(k, v[k]) = v[k]

LEMMA StrippedTwice ==
    ASSUME NEW k, NEW x PROVE Stripped(k, Stripped(k, x)) = Stripped(k, x)
<1>1. \A t : Trimmed(Trimmed(t)) = Trimmed(t)
  BY DEF Trimmed
<1>2. CASE k = "album_selection"
  <2>1. Stripped(k, x) = {Trimmed(t) : t \in x}
    BY <1>2 DEF Stripped
  <2>2. Stripped(k, Stripped(k, x)) = {Trimmed(t) : t \in Stripped(k, x)}
    BY <1>2 DEF Stripped
  <2> QED
    BY <1>1, <2>1, <2>2
<1>3. CASE k # "album_selection"
  BY <1>1, <1>3 DEF Stripped
<1> QED
  BY <1>2, <1>3

LEMMA SettledAll ==
    ASSUME NEW v, IsGood(v), DOMAIN v = Keys
    PROVE  NoCut(Coerced(v)) /\ (NoCut(v) => Coerced(v) = v)
<1>1. IsGood(Coerced(v)) /\ DOMAIN Coerced(v) = Keys
  BY CoercedIs, GoodIsFields
<1>2. \A k \in Keys : Coerced(v)[k] = Stripped(k, v[k])
  BY CoercedAgain
<1>3. NoCut(Coerced(v))
  BY <1>1, <1>2, StrippedTwice DEF NoCut
<1>4. NoCut(v) => \A k \in Keys : Coerced(v)[k] = v[k]
  BY <1>2 DEF NoCut
<1> QED
  BY <1>1, <1>3, <1>4 DEF IsGood
---------------------------------------------------------------------------
\* A profile: whole units

IsWhole(v) == WholeUnits(v) = DOMAIN v

LEMMA WholeUnitsOf ==
    ASSUME NEW v, NEW K, DOMAIN v = K
    PROVE  /\ WholeUnits(v) \subseteq K /\ WholeUnits(v) \subseteq Keys
           /\ \A w : DOMAIN w = WholeUnits(v) => WholeUnits(w) = WholeUnits(v)
<1>1. WholeUnits(v) \subseteq K /\ WholeUnits(v) \subseteq Keys
  BY DEF WholeUnits, Keys
<1>2. ASSUME NEW w, DOMAIN w = WholeUnits(v) PROVE WholeUnits(w) = WholeUnits(v)
  <2>1. ASSUME NEW u \in Units, u \subseteq DOMAIN v PROVE u \subseteq DOMAIN w
    BY <1>2, <2>1 DEF WholeUnits
  <2>2. ASSUME NEW u \in Units, u \subseteq DOMAIN w PROVE u \subseteq DOMAIN v
    BY <1>1, <1>2, <2>2
  <2> QED
    BY <2>1, <2>2 DEF WholeUnits
<1> QED
  BY <1>1, <1>2

LEMMA CoercedProfileIs ==
    ASSUME NEW v, IsFields(v)
    PROVE  /\ IsGood(CoercedProfile(v)) /\ IsWhole(CoercedProfile(v))
           /\ DOMAIN CoercedProfile(v) = WholeUnits(v)
           /\ \A k \in WholeUnits(v) : CoercedProfile(v)[k] = Fixed(k, v[k])
<1> DEFINE W == WholeUnits(v)
           part == Only(v, W)
<1>1. W \subseteq DOMAIN v /\ W \subseteq Keys
  BY WholeUnitsOf
<1>2. DOMAIN part = W /\ part = [k \in DOMAIN part |-> part[k]] /\ \A k \in W : part[k] = v[k]
  BY DEF Only
<1>3. IsFields(part)
  BY <1>1, <1>2 DEF IsFields
<1>4. CoercedProfile(v) = Only(Coerced(part), W)
  BY DEF CoercedProfile
<1> HIDE DEF part, W
<1>5. /\ DOMAIN CoercedProfile(v) = W
      /\ CoercedProfile(v) = [k \in DOMAIN CoercedProfile(v) |-> CoercedProfile(v)[k]]
      /\ \A k \in W : CoercedProfile(v)[k] = Coerced(part)[k]
  BY <1>4 DEF Only
<1>6. \A k \in W : Coerced(part)[k] = Fixed(k, v[k]) /\ Coerced(part)[k] \in GoodValues(k)
  BY <1>1, <1>2, <1>3, CoercedIs DEF IsGood
<1>7. IsWhole(CoercedProfile(v))
  <2> USE DEF W
  <2> QED
    BY <1>5, WholeUnitsOf DEF IsWhole
<1> QED
  BY <1>1, <1>5, <1>6, <1>7 DEF IsGood, W

LEMMA SettledProfile ==
    ASSUME NEW v, IsGood(v), IsWhole(v)
    PROVE  /\ DOMAIN CoercedProfile(v) = DOMAIN v
           /\ \A k \in DOMAIN v : CoercedProfile(v)[k] = Stripped(k, v[k])
           /\ NoCut(CoercedProfile(v))
           /\ NoCut(v) => CoercedProfile(v) = v
<1>1. /\ IsGood(CoercedProfile(v)) /\ DOMAIN CoercedProfile(v) = DOMAIN v
      /\ \A k \in DOMAIN v : CoercedProfile(v)[k] = Fixed(k, v[k])
  BY CoercedProfileIs, GoodIsFields DEF IsWhole
<1>2. \A k \in DOMAIN v : CoercedProfile(v)[k] = Stripped(k, v[k])
  BY <1>1, FixedKeepsGood DEF IsGood
<1>3. NoCut(CoercedProfile(v))
  BY <1>1, <1>2, StrippedTwice DEF NoCut
<1>4. NoCut(v) => \A k \in DOMAIN v : CoercedProfile(v)[k] = v[k]
  BY <1>2 DEF NoCut
<1>5. NoCut(v) => CoercedProfile(v) = v
  BY <1>1, <1>4 DEF IsGood
<1> QED
  BY <1>1, <1>2, <1>3, <1>5

---------------------------------------------------------------------------
\* _coerce_profiles comes to an end.

PutNext(stored, G, i) == IF i = 0 THEN <<>> ELSE PutProfile(G[i-1], stored[i])
PutAll(stored, G) == [i \in 0..Len(stored) |-> PutNext(stored, G, i)]
PutFn(stored) == CHOOSE G : G = PutAll(stored, G)

LEMMA PutIs == ASSUME NEW stored PROVE CoercedProfiles(stored) = PutFn(stored)[Len(stored)]
BY DEF CoercedProfiles, PutFn, PutAll, PutNext

LEMMA Least ==
    ASSUME NEW T, T \subseteq Nat, T # {}
    PROVE  \E k \in T : \A j \in T : k <= j
<1>1. PICK k \in T : \A j \in T : ~(<<j, k>> \in OpToRel(<, Nat))
  BY NatLessThanWellFounded, WFMin
<1>2. \A j \in T : ~(j < k)
  BY <1>1 DEF OpToRel
<1> QED
  BY <1>2

\* There is a function the recursion defines, built one profile at a time.
LEMMA PutFnExists ==
    ASSUME NEW stored, Len(stored) \in Nat
    PROVE  \A i \in 0..Len(stored) : PutFn(stored)[i] = PutNext(stored, PutFn(stored), i)
<1> DEFINE Right(G, n) == \A i \in 0..Len(stored) : i < n => G[i] = PutNext(stored, G, i)
           Wrong == {n \in Nat : ~\E G : Right(G, n)}
<1>1. ASSUME NEW n \in Nat, NEW G, Right(G, n) PROVE Right(PutAll(stored, G), n + 1)
  <2> SUFFICES ASSUME NEW i \in 0..Len(stored), i < n + 1
               PROVE  PutAll(stored, G)[i] = PutNext(stored, PutAll(stored, G), i)
    OBVIOUS
  <2>1. PutAll(stored, G)[i] = PutNext(stored, G, i)
    BY DEF PutAll
  <2>2. CASE i = 0
    BY <2>1, <2>2 DEF PutNext
  <2>3. CASE i # 0
    <3>1. i - 1 \in 0..Len(stored) /\ i - 1 < n
      BY <2>3
    <3>2. G[i-1] = PutNext(stored, G, i-1)
      BY <1>1, <3>1
    <3>3. PutAll(stored, G)[i-1] = PutNext(stored, G, i-1)
      BY <3>1 DEF PutAll
    <3> QED
      BY <2>1, <2>3, <3>2, <3>3 DEF PutNext
  <2> QED
    BY <2>2, <2>3
<1>2. Wrong = {}
  <2> SUFFICES ASSUME Wrong # {} PROVE FALSE
    OBVIOUS
  <2>1. PICK n \in Wrong : \A j \in Wrong : n <= j
    BY Least
  <2>2. Right(stored, 0)
    OBVIOUS
  <2> HIDE DEF Right
  <2>3. n # 0
    BY <2>1, <2>2
  <2>4. n - 1 \in Nat /\ n - 1 \notin Wrong
    BY <2>1, <2>3
  <2>5. PICK G : Right(G, n - 1)
    BY <2>4
  <2>6. Right(PutAll(stored, G), (n - 1) + 1)
    BY <1>1, <2>4, <2>5
  <2> QED
    BY <2>1, <2>6
<1>3. PICK G : Right(G, Len(stored) + 1)
  <2>1. Len(stored) + 1 \in Nat
    OBVIOUS
  <2> HIDE DEF Right
  <2> QED
    BY <1>2, <2>1
<1>4. \A i \in 0..Len(stored) : PutAll(stored, G)[i] = G[i]
  BY <1>3 DEF PutAll
<1>5. \A i \in 0..Len(stored) : PutNext(stored, PutAll(stored, G), i) = PutNext(stored, G, i)
  BY <1>4 DEF PutNext
<1>6. PutAll(stored, PutAll(stored, G)) = PutAll(stored, G)
  BY <1>5 DEF PutAll
<1>7. PutFn(stored) = PutAll(stored, PutFn(stored))
  BY <1>6 DEF PutFn
<1> QED
  BY <1>7 DEF PutAll
---------------------------------------------------------------------------
\* The list of profiles

AnyValues == UNION {[K -> AnyValue] : K \in SUBSET Keys}
Rows == [name : Names, values : AnyValues, ua : BOOLEAN]

\* A list of profiles with canonical names, each once, each of whole units.
IsList(l) ==
    /\ l \in Seq(Rows)
    /\ \A i \in DOMAIN l : l[i].name \in Profiles /\ IsFields(l[i].values) /\ IsWhole(l[i].values)
    /\ \A i, j \in DOMAIN l : l[i].name = l[j].name => i = j

\* And one within bounds.
IsGoodList(l) == IsList(l) /\ \A i \in DOMAIN l : IsGood(l[i].values)

LEMMA FieldsAreValues == ASSUME NEW v, IsFields(v) PROVE v \in AnyValues
<1>1. v \in [DOMAIN v -> AnyValue]
  BY GoodIsField DEF IsFields
<1> QED
  BY <1>1 DEF AnyValues, IsFields

LEMMA ProfilesAreNames == Profiles \subseteq Names /\ NoName \notin Profiles /\ DEFAULT \notin Profiles
                          /\ \A n \in Profiles : Canon[n] = n
<1>1. ASSUME NEW n \in Names, Canon[n] # NoName PROVE Canon[n] \in Names
  BY <1>1, SettingsAssumption
<1> QED
  BY <1>1, SettingsAssumption DEF Profiles

StoredRow(p) == p.name \in Names /\ p.ua \in BOOLEAN /\ IsFields(p.values)

\* What PutProfile puts for a profile of the file.
NewRow(p) == [name |-> Canon[p.name], values |-> CoercedProfile(p.values), ua |-> p.ua]

LEMMA NewRowIs ==
    ASSUME NEW p, StoredRow(p), Canon[p.name] # NoName
    PROVE  /\ NewRow(p) \in Rows /\ NewRow(p).name \in Profiles
           /\ IsGood(NewRow(p).values) /\ IsFields(NewRow(p).values) /\ IsWhole(NewRow(p).values)
<1>1. Canon[p.name] \in Profiles
  BY DEF StoredRow, Profiles
<1>2. IsGood(CoercedProfile(p.values)) /\ IsWhole(CoercedProfile(p.values)) /\ IsFields(CoercedProfile(p.values))
  BY CoercedProfileIs, GoodIsFields DEF StoredRow
<1>3. CoercedProfile(p.values) \in AnyValues
  BY <1>2, FieldsAreValues
<1> QED
  BY <1>1, <1>2, <1>3, ProfilesAreNames DEF NewRow, Rows, StoredRow

\* Everything in the list is what was put for a profile among the first n.
MadeOf(out, stored, n) ==
    \A j \in DOMAIN out : \E i \in 1..n : out[j] = NewRow(stored[i])

LEMMA PutKeepsList ==
    ASSUME NEW out, IsGoodList(out), NEW p, StoredRow(p)
    PROVE  /\ IsGoodList(PutProfile(out, p))
           /\ \A j \in DOMAIN PutProfile(out, p) :
                 \/ PutProfile(out, p)[j] = NewRow(p)
                 \/ j \in DOMAIN out /\ PutProfile(out, p)[j] = out[j]
<1> DEFINE r == PutProfile(out, p)
           n == Canon[p.name]
<1>1. out \in Seq(Rows) /\ DOMAIN out = 1..Len(out) /\ Len(out) \in Nat
  BY DEF IsGoodList, IsList
<1>2. CASE n = NoName
  <2>1. r = out
    BY <1>2 DEF PutProfile
  <2> QED
    BY <2>1
<1>3. CASE n # NoName /\ \E i \in DOMAIN out : out[i].name = n
  <2>1. r = [i \in DOMAIN out |-> IF out[i].name = n THEN NewRow(p) ELSE out[i]]
    BY <1>3 DEF PutProfile, NewRow
  <2>2. /\ NewRow(p) \in Rows /\ NewRow(p).name \in Profiles /\ NewRow(p).name = n
        /\ IsGood(NewRow(p).values) /\ IsFields(NewRow(p).values) /\ IsWhole(NewRow(p).values)
    BY <1>3, NewRowIs DEF NewRow
  <2> HIDE DEF n
  <2>3. PICK new : new = NewRow(p)
    OBVIOUS
  <2>4. \A i \in 1..Len(out) : out[i] \in Rows
    BY <1>1
  <2>5. r \in Seq(Rows) /\ DOMAIN r = DOMAIN out
    BY <1>1, <2>1, <2>2, <2>4
  <2>6. \A i \in DOMAIN out : r[i] = (IF out[i].name = n THEN new ELSE out[i])
    BY <2>1, <2>3
  <2> HIDE DEF r
  <2>7. \A i \in DOMAIN out : r[i].name = out[i].name
    BY <2>2, <2>3, <2>6
  <2> QED
    BY <2>2, <2>3, <2>5, <2>6, <2>7 DEF IsGoodList, IsList, r
<1>4. CASE n # NoName /\ ~\E i \in DOMAIN out : out[i].name = n
  <2>1. r = Append(out, NewRow(p))
    BY <1>4 DEF PutProfile, NewRow
  <2>2. /\ NewRow(p) \in Rows /\ NewRow(p).name \in Profiles /\ NewRow(p).name = n
        /\ IsGood(NewRow(p).values) /\ IsFields(NewRow(p).values) /\ IsWhole(NewRow(p).values)
    BY <1>4, NewRowIs DEF NewRow
  <2> HIDE DEF n
  <2>3. PICK new : new = NewRow(p)
    OBVIOUS
  <2>4. /\ r \in Seq(Rows) /\ DOMAIN r = 1..(Len(out) + 1)
        /\ \A i \in 1..Len(out) : r[i] = out[i]
        /\ r[Len(out) + 1] = new
    BY <1>1, <2>1, <2>2, <2>3
  <2> HIDE DEF r
  <2>5. \A i \in DOMAIN r : (i \in DOMAIN out /\ r[i] = out[i]) \/ (i = Len(out) + 1 /\ r[i] = new)
    <3> SUFFICES ASSUME NEW i \in 1..(Len(out) + 1)
                 PROVE  (i \in 1..Len(out) /\ r[i] = out[i]) \/ (i = Len(out) + 1 /\ r[i] = new)
      BY <1>1, <2>4
    <3>1. i \in 1..Len(out) \/ i = Len(out) + 1
      BY <1>1
    <3>2. CASE i \in 1..Len(out)
      BY <2>4, <3>2
    <3>3. CASE i = Len(out) + 1
      BY <2>4, <3>3
    <3> QED
      BY <3>1, <3>2, <3>3
  <2>6. \A i \in DOMAIN r : r[i].name \in Profiles /\ IsFields(r[i].values) /\ IsWhole(r[i].values) /\ IsGood(r[i].values)
    BY <2>2, <2>3, <2>5 DEF IsGoodList, IsList
  <2>7. \A i, j \in DOMAIN r : r[i].name = r[j].name => i = j
    BY <1>4, <2>2, <2>3, <2>5 DEF IsGoodList, IsList
  <2> QED
    BY <2>3, <2>4, <2>5, <2>6, <2>7 DEF IsGoodList, IsList, r
<1> QED
  BY <1>2, <1>3, <1>4

\* A list read from a file is one with canonical names, each once, within bounds.
LEMMA ListOnce ==
    ASSUME NEW stored, Len(stored) \in Nat, \A i \in 1..Len(stored) : StoredRow(stored[i])
    PROVE  /\ IsGoodList(CoercedProfiles(stored))
           /\ MadeOf(CoercedProfiles(stored), stored, Len(stored))
<1> DEFINE out(n) == PutFn(stored)[n]
           Right(n) == IsGoodList(out(n)) /\ MadeOf(out(n), stored, n)
           Wrong == {n \in 0..Len(stored) : ~Right(n)}
<1>1. out(0) = <<>>
  BY PutFnExists DEF PutNext
<1>2. \A n \in 1..Len(stored) : out(n) = PutProfile(out(n-1), stored[n])
  BY PutFnExists DEF PutNext
<1> HIDE DEF out
<1>3. Right(0)
  <2>1. <<>> \in Seq(Rows) /\ Len(<<>>) = 0 /\ DOMAIN <<>> = 1..Len(<<>>) /\ 1..0 = {}
    OBVIOUS
  <2>2. out(0) \in Seq(Rows) /\ DOMAIN out(0) = {}
    BY <1>1, <2>1
  <2> QED
    BY <2>2 DEF IsGoodList, IsList, MadeOf
<1>4. ASSUME NEW n \in 1..Len(stored), Right(n-1) PROVE Right(n)
  <2>1. StoredRow(stored[n]) /\ out(n) = PutProfile(out(n-1), stored[n])
    BY <1>2
  <2>2. IsGoodList(out(n))
    BY <1>4, <2>1, PutKeepsList
  <2>3. ASSUME NEW j \in DOMAIN out(n) PROVE \E i \in 1..n : out(n)[j] = NewRow(stored[i])
    <3>1. out(n)[j] = NewRow(stored[n]) \/ (j \in DOMAIN out(n-1) /\ out(n)[j] = out(n-1)[j])
      BY <1>4, <2>1, <2>3, PutKeepsList
    <3>2. n \in 1..n /\ 1..(n-1) \subseteq 1..n
      OBVIOUS
    <3> QED
      BY <1>4, <3>1, <3>2 DEF MadeOf
  <2> QED
    BY <2>2, <2>3 DEF MadeOf
<1>5. Wrong = {}
  <2> SUFFICES ASSUME Wrong # {} PROVE FALSE
    OBVIOUS
  <2> HIDE DEF Right
  <2>1. PICK n \in Wrong : \A j \in Wrong : n <= j
    <3>1. Wrong \subseteq Nat
      OBVIOUS
    <3> QED
      BY <3>1, Least
  <2>2. n # 0 /\ n \in 0..Len(stored)
    BY <1>3, <2>1
  <2>3. n \in 1..Len(stored) /\ n - 1 \in 0..Len(stored) /\ ~(n <= n - 1)
    BY <2>2
  <2>4. Right(n-1)
    BY <2>1, <2>3
  <2> QED
    BY <1>4, <2>1, <2>3, <2>4
<1>6. Right(Len(stored))
  <2>1. Len(stored) \in 0..Len(stored)
    OBVIOUS
  <2> HIDE DEF Right
  <2> QED
    BY <1>5, <2>1
<1> QED
  BY <1>6, PutIs DEF out

\* A list with canonical names keeps its order: each profile is coerced in its place.
LEMMA ListInPlace ==
    ASSUME NEW l, IsList(l)
    PROVE  CoercedProfiles(l) = [i \in 1..Len(l) |-> NewRow(l[i])]
<1> DEFINE upTo(n) == [i \in 1..n |-> NewRow(l[i])]
           Right(n) == PutFn(l)[n] = upTo(n)
           Wrong == {n \in 0..Len(l) : ~Right(n)}
<1>1. Len(l) \in Nat /\ DOMAIN l = 1..Len(l) /\ \A i \in 1..Len(l) : l[i] \in Rows
  BY DEF IsList
<1>2. PutFn(l)[0] = <<>> /\ \A n \in 1..Len(l) : PutFn(l)[n] = PutProfile(PutFn(l)[n-1], l[n])
  BY <1>1, PutFnExists DEF PutNext
<1>3. \A i \in 1..Len(l) : StoredRow(l[i]) /\ Canon[l[i].name] # NoName /\ Canon[l[i].name] = l[i].name
  BY <1>1, ProfilesAreNames DEF IsList, StoredRow, Rows
<1>4. \A i \in 1..Len(l) : NewRow(l[i]) \in Rows /\ NewRow(l[i]).name = l[i].name
  BY <1>3, NewRowIs DEF NewRow
<1>5. Right(0)
  BY <1>2
<1>6. ASSUME NEW n \in 1..Len(l), Right(n-1) PROVE Right(n)
  <2>1. PutFn(l)[n] = PutProfile(upTo(n-1), l[n])
    BY <1>2, <1>6
  <2>2. upTo(n-1) \in Seq(Rows) /\ Len(upTo(n-1)) = n - 1 /\ DOMAIN upTo(n-1) = 1..(n-1)
    BY <1>1, <1>4
  <2>3. ASSUME NEW i \in 1..(n-1) PROVE upTo(n-1)[i].name # Canon[l[n].name]
    <3>1. i \in 1..Len(l) /\ i # n /\ upTo(n-1)[i] = NewRow(l[i])
      BY <1>1
    <3>2. l[i].name # l[n].name
      BY <1>1, <3>1 DEF IsList
    <3> QED
      BY <1>3, <1>4, <3>1, <3>2
  <2>4. PutProfile(upTo(n-1), l[n]) = Append(upTo(n-1), NewRow(l[n]))
    BY <1>3, <2>2, <2>3 DEF PutProfile, NewRow
  <2>5. Append(upTo(n-1), NewRow(l[n])) = upTo(n)
    <3>1. PICK new \in Rows : new = NewRow(l[n])
      BY <1>4
    <3>2. \A i \in 1..n : i \in 1..(n-1) \/ i = n
      OBVIOUS
    <3>3. /\ Append(upTo(n-1), new) \in Seq(Rows)
          /\ Len(Append(upTo(n-1), new)) = n
          /\ DOMAIN Append(upTo(n-1), new) = 1..n
          /\ \A i \in 1..(n-1) : Append(upTo(n-1), new)[i] = upTo(n-1)[i]
          /\ Append(upTo(n-1), new)[n] = new
      BY <2>2
    <3>4. \A i \in 1..n : Append(upTo(n-1), new)[i] = upTo(n)[i]
      BY <3>1, <3>2, <3>3
    <3>5. Append(upTo(n-1), new) = [i \in 1..n |-> Append(upTo(n-1), new)[i]]
      BY <3>3
    <3> QED
      BY <3>1, <3>4, <3>5
  <2> QED
    BY <2>1, <2>4, <2>5
<1>7. Wrong = {}
  <2> SUFFICES ASSUME Wrong # {} PROVE FALSE
    OBVIOUS
  <2> HIDE DEF Right
  <2>1. PICK n \in Wrong : \A j \in Wrong : n <= j
    <3>1. Wrong \subseteq Nat
      BY <1>1
    <3> QED
      BY <3>1, Least
  <2>2. n # 0 /\ n \in 0..Len(l)
    BY <1>5, <2>1
  <2>3. n \in 1..Len(l) /\ n - 1 \in 0..Len(l) /\ ~(n <= n - 1)
    BY <1>1, <2>2
  <2>4. Right(n-1)
    BY <2>1, <2>3
  <2> QED
    BY <1>6, <2>1, <2>3, <2>4
<1>8. Right(Len(l))
  <2>1. Len(l) \in 0..Len(l)
    BY <1>1
  <2> HIDE DEF Right
  <2> QED
    BY <1>7, <2>1
<1> QED
  BY <1>8, PutIs
---------------------------------------------------------------------------
\* config.json as a whole

\* What a write is asked to save, what it answers, and what is on disk after it.
IsAsked(c) ==
    /\ c = [base |-> c.base, profiles |-> c.profiles]
    /\ IsFields(c.base) /\ DOMAIN c.base = Keys /\ IsList(c.profiles)
IsConfig(c) ==
    /\ c = [base |-> c.base, profiles |-> c.profiles]
    /\ IsGood(c.base) /\ DOMAIN c.base = Keys /\ IsGoodList(c.profiles)
IsSettled(c) ==
    /\ IsConfig(c)
    /\ NoCut(c.base) /\ \A i \in DOMAIN c.profiles : NoCut(c.profiles[i].values)

\* A profile q that is p but for the space a text of it was cut after.
Comes(p, q) ==
    /\ q.name = p.name /\ q.ua = p.ua /\ DOMAIN q.values = DOMAIN p.values
    /\ \A k \in DOMAIN p.values : q.values[k] = Stripped(k, p.values[k])

LEMMA ListDomain == ASSUME NEW l, IsList(l)
                    PROVE  DOMAIN l = 1..Len(l) /\ Len(l) \in Nat /\ \A i \in 1..Len(l) : l[i] \in Rows
BY DEF IsList

LEMMA ListRows == ASSUME NEW l, IsList(l) PROVE \A i \in 1..Len(l) : StoredRow(l[i])
<1>1. \A i \in 1..Len(l) : l[i] \in Rows /\ IsFields(l[i].values)
  BY ListDomain DEF IsList
<1> QED
  BY <1>1 DEF StoredRow, Rows

LEMMA ConfigIs ==
    ASSUME NEW c
    PROVE  /\ CoercedConfig(c) = [base |-> CoercedConfig(c).base, profiles |-> CoercedConfig(c).profiles]
           /\ CoercedConfig(c).base = Coerced(c.base)
           /\ CoercedConfig(c).profiles = CoercedProfiles(c.profiles)
BY DEF CoercedConfig

LEMMA ConfigOnce == ASSUME NEW c, IsStored(c) PROVE IsConfig(CoercedConfig(c))
<1>1. IsGood(Coerced(c.base)) /\ DOMAIN Coerced(c.base) = Keys
  BY CoercedIs DEF IsStored
<1>2. Len(c.profiles) \in Nat /\ \A i \in 1..Len(c.profiles) : StoredRow(c.profiles[i])
  BY DEF IsStored, StoredRow
<1>3. IsGoodList(CoercedProfiles(c.profiles))
  BY <1>2, ListOnce
<1> QED
  BY <1>1, <1>3, ConfigIs DEF IsConfig

LEMMA AskedOnce ==
    ASSUME NEW c, IsAsked(c)
    PROVE  /\ IsConfig(CoercedConfig(c))
           /\ \A k \in Keys : CoercedConfig(c).base[k] = Fixed(k, c.base[k])
           /\ Len(CoercedConfig(c).profiles) = Len(c.profiles)
           /\ \A i \in 1..Len(c.profiles) : CoercedConfig(c).profiles[i] = NewRow(c.profiles[i])
<1>1. IsGood(Coerced(c.base)) /\ DOMAIN Coerced(c.base) = Keys
      /\ \A k \in Keys : Coerced(c.base)[k] = Fixed(k, c.base[k])
  BY CoercedIs DEF IsAsked
<1>2. /\ Len(c.profiles) \in Nat /\ \A i \in 1..Len(c.profiles) : StoredRow(c.profiles[i])
      /\ CoercedProfiles(c.profiles) = [i \in 1..Len(c.profiles) |-> NewRow(c.profiles[i])]
  BY ListInPlace, ListDomain, ListRows DEF IsAsked
<1>3. IsGoodList(CoercedProfiles(c.profiles))
  BY <1>2, ListOnce
<1>4. DOMAIN CoercedProfiles(c.profiles) = 1..Len(CoercedProfiles(c.profiles)) /\ Len(CoercedProfiles(c.profiles)) \in Nat
  BY <1>3, ListDomain DEF IsGoodList
<1>5. Len(CoercedProfiles(c.profiles)) = Len(c.profiles)
  <2>1. PICK r : r = CoercedProfiles(c.profiles)
    OBVIOUS
  <2>2. DOMAIN r = 1..Len(r) /\ Len(r) \in Nat /\ DOMAIN r = 1..Len(c.profiles)
    BY <1>2, <1>4, <2>1
  <2> QED
    BY <1>2, <2>1, <2>2
<1> QED
  BY <1>1, <1>2, <1>3, <1>5, ConfigIs DEF IsConfig

LEMMA ConfigIsAsked == ASSUME NEW c, IsConfig(c) PROVE IsAsked(c)
BY GoodIsFields DEF IsConfig, IsAsked, IsGoodList

LEMMA ConfigTwice ==
    ASSUME NEW c, IsConfig(c)
    PROVE  /\ IsSettled(CoercedConfig(c))
           /\ \A k \in Keys : CoercedConfig(c).base[k] = Stripped(k, c.base[k])
           /\ Len(CoercedConfig(c).profiles) = Len(c.profiles)
           /\ \A i \in 1..Len(c.profiles) : Comes(c.profiles[i], CoercedConfig(c).profiles[i])
           /\ IsSettled(c) => CoercedConfig(c) = c
<1>1. /\ IsConfig(CoercedConfig(c)) /\ Len(CoercedConfig(c).profiles) = Len(c.profiles)
      /\ \A i \in 1..Len(c.profiles) : CoercedConfig(c).profiles[i] = NewRow(c.profiles[i])
  BY AskedOnce, ConfigIsAsked
<1>2. /\ \A k \in Keys : CoercedConfig(c).base[k] = Stripped(k, c.base[k])
      /\ NoCut(CoercedConfig(c).base) /\ (NoCut(c.base) => CoercedConfig(c).base = c.base)
  BY CoercedAgain, SettledAll, ConfigIs DEF IsConfig
<1>3. IsList(c.profiles) /\ IsList(CoercedConfig(c).profiles)
  BY <1>1 DEF IsConfig, IsGoodList
<1>4. ASSUME NEW i \in 1..Len(c.profiles)
      PROVE  /\ Comes(c.profiles[i], CoercedConfig(c).profiles[i])
             /\ NoCut(CoercedConfig(c).profiles[i].values)
             /\ NoCut(c.profiles[i].values) => CoercedConfig(c).profiles[i] = c.profiles[i]
  <2>1. PICK p \in Rows : p = c.profiles[i]
    BY <1>3, ListDomain
  <2>2. IsGood(p.values) /\ IsWhole(p.values) /\ p.name \in Profiles
    BY <1>3, <2>1, ListDomain DEF IsConfig, IsGoodList, IsList
  <2>3. Canon[p.name] = p.name
    BY <2>2, ProfilesAreNames
  <2>4. CoercedConfig(c).profiles[i] = [name |-> p.name, values |-> CoercedProfile(p.values), ua |-> p.ua]
    BY <1>1, <2>1, <2>3 DEF NewRow
  <2>5. p = [name |-> p.name, values |-> p.values, ua |-> p.ua]
    BY DEF Rows
  <2>6. PICK v : v = CoercedProfile(p.values)
    OBVIOUS
  <2>7. /\ DOMAIN v = DOMAIN p.values /\ \A k \in DOMAIN v : v[k] = Stripped(k, p.values[k])
        /\ NoCut(v) /\ (NoCut(p.values) => v = p.values)
    BY <2>2, <2>6, SettledProfile
  <2> QED
    BY <2>1, <2>4, <2>5, <2>6, <2>7 DEF Comes
<1>5. IsSettled(CoercedConfig(c))
  BY <1>1, <1>2, <1>3, <1>4, ListDomain DEF IsSettled
<1>6. ASSUME IsSettled(c) PROVE CoercedConfig(c) = c
  <2>1. \A i \in 1..Len(c.profiles) : CoercedConfig(c).profiles[i] = c.profiles[i]
    BY <1>3, <1>4, <1>6, ListDomain DEF IsSettled
  <2>2. PICK l, r : l = c.profiles /\ r = CoercedConfig(c).profiles
    OBVIOUS
  <2>3. l \in Seq(Rows) /\ r \in Seq(Rows) /\ Len(l) = Len(r) /\ \A i \in 1..Len(l) : r[i] = l[i]
    BY <1>1, <1>3, <2>1, <2>2 DEF IsList
  <2>4. l = r
    BY <2>3
  <2> QED
    BY <1>2, <1>6, <2>2, <2>4, ConfigIs DEF IsSettled, IsConfig
<1> QED
  BY <1>1, <1>2, <1>4, <1>5, <1>6

LEMMA ConfigIsStored ==
    ASSUME NEW c, IsConfig(c) PROVE IsStored(c) /\ c \notin {Absent, Damaged}
<1>1. IsFields(c.base) /\ IsList(c.profiles)
  BY GoodIsFields DEF IsConfig, IsGoodList
<1>2. /\ Len(c.profiles) \in Nat /\ DOMAIN c.profiles = 1..Len(c.profiles)
      /\ \A i \in 1..Len(c.profiles) : StoredRow(c.profiles[i])
  BY <1>1, ListDomain, ListRows
<1>3. IsStored(c)
  BY <1>1, <1>2 DEF IsStored, IsConfig, StoredRow
<1>4. c.base \in [Keys -> AnyValue]
  BY <1>1, GoodIsField DEF IsFields, IsConfig
<1>5. c \in Written
  BY <1>1, <1>4 DEF IsConfig, Written, IsList, Rows, AnyValues
<1> QED
  BY <1>3, <1>5, SettingsAssumption
---------------------------------------------------------------------------
\* What a write leaves of the profiles it is not about

\* From list l to list r nothing but the profiles of these names changes: the others are in
\* both, as they were, and in the same order.
Ordered(l, r, names) ==
    /\ \A i \in DOMAIN l : l[i].name \notin names => \E j \in DOMAIN r : r[j].name = l[i].name
    /\ \A j \in DOMAIN r : r[j].name \notin names => \E i \in DOMAIN l : l[i].name = r[j].name
    /\ \A i1, i2 \in DOMAIN l : \A j1, j2 \in DOMAIN r :
          /\ l[i1].name = r[j1].name /\ l[i2].name = r[j2].name
          /\ l[i1].name \notin names /\ l[i2].name \notin names
          /\ i1 < i2
          => j1 < j2
Stays(l, r, names) ==
    /\ Ordered(l, r, names)
    /\ \A i \in DOMAIN l, j \in DOMAIN r :
          l[i].name = r[j].name /\ l[i].name \notin names => r[j] = l[i]
Kept(l, q, names) ==
    /\ Ordered(l, q, names)
    /\ \A i \in DOMAIN l, j \in DOMAIN q :
          l[i].name = q[j].name /\ l[i].name \notin names => Comes(l[i], q[j])

\* A change in place of profiles that have and get one of the names.
LEMMA ChangedInPlace ==
    ASSUME NEW l, IsList(l), NEW r, IsList(r), Len(r) = Len(l), NEW names,
           \A i \in 1..Len(l) : r[i] = l[i] \/ (l[i].name \in names /\ r[i].name \in names)
    PROVE  Stays(l, r, names)
<1>1. DOMAIN l = 1..Len(l) /\ DOMAIN r = 1..Len(l) /\ Len(l) \in Nat
  BY ListDomain
<1>2. \A i, j \in 1..Len(l) : /\ l[i].name = l[j].name => i = j
                              /\ r[i].name = r[j].name => i = j
  BY <1>1 DEF IsList
<1>3. \A i, j \in 1..Len(l) : l[i].name = r[j].name /\ l[i].name \notin names => i = j /\ r[j] = l[i]
  BY <1>2
<1>4. \A i \in 1..Len(l) : l[i].name \notin names \/ r[i].name \notin names => r[i] = l[i]
  OBVIOUS
<1>5. Ordered(l, r, names)
  <2>1. ASSUME NEW i1 \in DOMAIN l, NEW i2 \in DOMAIN l, NEW j1 \in DOMAIN r, NEW j2 \in DOMAIN r,
               l[i1].name = r[j1].name, l[i2].name = r[j2].name,
               l[i1].name \notin names, l[i2].name \notin names, i1 < i2
        PROVE  j1 < j2
    <3>1. i1 = j1 /\ i2 = j2
      BY <1>1, <1>3, <2>1
    <3> QED
      BY <2>1, <3>1
  <2> QED
    BY <1>1, <1>4, <2>1 DEF Ordered
<1> QED
  BY <1>1, <1>3, <1>5 DEF Stays

\* The coercions on the way to disk keep the order, and each profile as Comes says.
LEMMA StaysKept ==
    ASSUME NEW l, IsGoodList(l), NEW r, IsList(r), NEW names, Stays(l, r, names),
           NEW a, Len(a) = Len(r), \A j \in 1..Len(r) : a[j] = NewRow(r[j]),
           NEW q, IsList(q), Len(q) = Len(r), \A j \in 1..Len(r) : Comes(a[j], q[j])
    PROVE  Kept(l, q, names)
<1>1. /\ DOMAIN l = 1..Len(l) /\ Len(l) \in Nat
      /\ DOMAIN r = 1..Len(r) /\ DOMAIN q = 1..Len(r) /\ Len(r) \in Nat
  BY ListDomain DEF IsGoodList
<1>2. ASSUME NEW j \in 1..Len(r)
      PROVE  q[j].name = r[j].name /\ (IsGood(r[j].values) => Comes(r[j], q[j]))
  <2>1. PICK p \in Rows : p = r[j]
    BY ListDomain
  <2>2. IsWhole(p.values) /\ Canon[p.name] = p.name
    BY <1>1, <2>1, ProfilesAreNames DEF IsList
  <2>3. PICK v : v = CoercedProfile(p.values)
    OBVIOUS
  <2>4. a[j] = [name |-> p.name, values |-> v, ua |-> p.ua]
    BY <2>1, <2>2, <2>3 DEF NewRow
  <2>5. PICK w \in Rows : w = q[j]
    BY <1>1, ListDomain
  <2>6. /\ w.name = p.name /\ w.ua = p.ua /\ DOMAIN w.values = DOMAIN v
        /\ \A k \in DOMAIN v : w.values[k] = Stripped(k, v[k])
    BY <2>4, <2>5 DEF Comes
  <2>7. ASSUME IsGood(p.values)
        PROVE  DOMAIN v = DOMAIN p.values /\ \A k \in DOMAIN v : v[k] = Stripped(k, p.values[k])
    BY <2>2, <2>3, <2>7, SettledProfile
  <2> QED
    BY <2>1, <2>5, <2>6, <2>7, StrippedTwice DEF Comes
<1>3. Ordered(l, q, names)
  <2>1. \A j \in 1..Len(r) : q[j].name = r[j].name
    BY <1>2
  <2> QED
    BY <1>1, <2>1 DEF Stays, Ordered
<1>4. ASSUME NEW i \in DOMAIN l, NEW j \in DOMAIN q, l[i].name = q[j].name, l[i].name \notin names
      PROVE  Comes(l[i], q[j])
  <2>1. j \in 1..Len(r) /\ q[j].name = r[j].name
    BY <1>1, <1>2
  <2>2. r[j] = l[i]
    BY <1>1, <1>4, <2>1 DEF Stays
  <2>3. IsGood(r[j].values)
    BY <2>2 DEF IsGoodList
  <2> QED
    BY <1>2, <2>1, <2>2, <2>3
<1> QED
  BY <1>3, <1>4 DEF Kept

---------------------------------------------------------------------------
\* What a screen is shown

LEMMA MinIs == ASSUME NEW T, T \subseteq Nat, T # {} PROVE Min(T) \in T /\ \A j \in T : Min(T) <= j
BY Least DEF Min

Matching(c, s) == {i \in DOMAIN c.profiles : s.tv /\ c.profiles[i].ua}

LEMMA ChosenIs ==
    ASSUME NEW c, IsConfig(c), NEW s \in Screens
    PROVE  /\ s.asked = DEFAULT => ChosenProfile(c, s) = DEFAULT
           /\ s.asked # DEFAULT /\ s.asked # NoName =>
                 ChosenProfile(c, s) = IF Has(c, Canon[s.asked]) THEN Canon[s.asked] ELSE DEFAULT
           /\ s.asked # DEFAULT /\ s.asked = NoName /\ Matching(c, s) = {} => ChosenProfile(c, s) = DEFAULT
           /\ s.asked # DEFAULT /\ s.asked = NoName /\ Matching(c, s) # {} =>
                 \E i \in Matching(c, s) : /\ ChosenProfile(c, s) = c.profiles[i].name
                                           /\ \A j \in Matching(c, s) : i <= j
           /\ ChosenProfile(c, s) # DEFAULT => Has(c, ChosenProfile(c, s))
           /\ \A n : Has(c, n) => n \in Profiles /\ n # DEFAULT
<1>1. IsList(c.profiles)
  BY DEF IsConfig, IsGoodList
<1>2. \A n : Has(c, n) => n \in Profiles /\ n # DEFAULT
  BY <1>1, ProfilesAreNames DEF Has, IsList
<1>3. Matching(c, s) \subseteq Nat
  BY <1>1, ListDomain DEF Matching
<1>4. Matching(c, s) # {} => /\ Min(Matching(c, s)) \in Matching(c, s)
                             /\ \A j \in Matching(c, s) : Min(Matching(c, s)) <= j
  BY <1>3, MinIs
<1>5. \A i \in Matching(c, s) : Has(c, c.profiles[i].name)
  BY DEF Matching, Has
<1> QED
  BY <1>2, <1>4, <1>5 DEF ChosenProfile, Matching

LEMMA ChosenSame ==
    ASSUME NEW old, IsConfig(old), NEW new, IsConfig(new), NEW names,
           Kept(old.profiles, new.profiles, names), NEW s \in Screens,
           ChosenProfile(old, s) = DEFAULT \/ ChosenProfile(old, s) \notin names,
           ChosenProfile(new, s) = DEFAULT \/ ChosenProfile(new, s) \notin names
    PROVE  ChosenProfile(new, s) = ChosenProfile(old, s)
<1> DEFINE n == ChosenProfile(old, s)
           m == ChosenProfile(new, s)
           l == old.profiles
           r == new.profiles
<1>1. \A x : x \notin names => (Has(old, x) <=> Has(new, x))
  BY DEF Kept, Ordered, Has
<1>2. CASE s.asked = DEFAULT
  BY <1>2, ChosenIs
<1>3. CASE s.asked # DEFAULT /\ s.asked # NoName
  <2>1. /\ n = IF Has(old, Canon[s.asked]) THEN Canon[s.asked] ELSE DEFAULT
        /\ m = IF Has(new, Canon[s.asked]) THEN Canon[s.asked] ELSE DEFAULT
    BY <1>3, ChosenIs
  <2>2. \A x : Has(old, x) \/ Has(new, x) => x # DEFAULT
    BY ChosenIs
  <2> QED
    BY <1>1, <2>1, <2>2
<1>4. CASE s.asked # DEFAULT /\ s.asked = NoName
  <2>1. \A i \in DOMAIN l : \A j \in DOMAIN r : l[i].name = r[j].name /\ l[i].name \notin names => r[j].ua = l[i].ua
    BY DEF Kept, Comes
  <2>2. \A i \in DOMAIN l : l[i].name # DEFAULT
    BY ChosenIs DEF Has
  <2>3. \A j \in DOMAIN r : r[j].name # DEFAULT
    BY ChosenIs DEF Has
  <2>4. DOMAIN l \subseteq Nat /\ DOMAIN r \subseteq Nat
    BY ListDomain DEF IsConfig, IsGoodList
  <2>5. CASE Matching(old, s) = {} /\ Matching(new, s) = {}
    BY <1>4, <2>5, ChosenIs
  <2>6. ASSUME Matching(old, s) # {}
        PROVE  \E i \in DOMAIN l, j \in Matching(new, s) :
                  /\ n = l[i].name /\ n \notin names /\ l[i].name = r[j].name
                  /\ \A i2 \in Matching(old, s) : i <= i2
    <3>1. PICK i \in Matching(old, s) : n = l[i].name /\ \A i2 \in Matching(old, s) : i <= i2
      BY <1>4, <2>6, ChosenIs
    <3>2. i \in DOMAIN l /\ n \notin names
      BY <2>2, <3>1 DEF Matching
    <3>3. PICK j \in DOMAIN r : r[j].name = l[i].name
      BY <3>1, <3>2 DEF Kept, Ordered
    <3>4. r[j].ua = l[i].ua /\ s.tv /\ l[i].ua
      BY <2>1, <3>1, <3>2, <3>3 DEF Matching
    <3>5. j \in Matching(new, s)
      BY <3>3, <3>4 DEF Matching
    <3> QED
      BY <3>1, <3>2, <3>3, <3>5
  <2>7. ASSUME Matching(new, s) # {}
        PROVE  \E j \in DOMAIN r, i \in Matching(old, s) :
                  /\ m = r[j].name /\ m \notin names /\ l[i].name = r[j].name
                  /\ \A j2 \in Matching(new, s) : j <= j2
    <3>1. PICK j \in Matching(new, s) : m = r[j].name /\ \A j2 \in Matching(new, s) : j <= j2
      BY <1>4, <2>7, ChosenIs
    <3>2. j \in DOMAIN r /\ m \notin names
      BY <2>3, <3>1 DEF Matching
    <3>3. PICK i \in DOMAIN l : l[i].name = r[j].name
      BY <3>1, <3>2 DEF Kept, Ordered
    <3>4. r[j].ua = l[i].ua /\ s.tv /\ r[j].ua
      BY <2>1, <3>1, <3>2, <3>3 DEF Matching
    <3>5. i \in Matching(old, s)
      BY <3>3, <3>4 DEF Matching
    <3> QED
      BY <3>1, <3>2, <3>3, <3>5
  <2>8. CASE Matching(old, s) # {} \/ Matching(new, s) # {}
    <3>1. PICK i1 \in DOMAIN l, j1 \in Matching(new, s) :
                  /\ n = l[i1].name /\ n \notin names /\ l[i1].name = r[j1].name
                  /\ \A i2 \in Matching(old, s) : i1 <= i2
      BY <2>6, <2>7, <2>8
    <3>2. PICK j2 \in DOMAIN r, i2 \in Matching(old, s) :
                  /\ m = r[j2].name /\ m \notin names /\ l[i2].name = r[j2].name
                  /\ \A j \in Matching(new, s) : j2 <= j
      BY <2>7, <3>1
    <3>3. i1 <= i2 /\ j2 <= j1 /\ i2 \in DOMAIN l /\ j1 \in DOMAIN r
      BY <3>1, <3>2 DEF Matching
    <3>4. ~(i1 < i2)
      <4>1. i1 < i2 => j1 < j2
        BY <3>1, <3>2, <3>3 DEF Kept, Ordered
      <4> QED
        BY <2>4, <3>2, <3>3, <4>1
    <3>5. i1 = i2
      BY <2>4, <3>3, <3>4
    <3> QED
      BY <3>1, <3>2, <3>5
  <2> QED
    BY <2>5, <2>8
<1> QED
  BY <1>2, <1>3, <1>4

LEMMA EffectiveSame ==
    ASSUME NEW old, IsConfig(old), NEW new, IsConfig(new), NEW names,
           Kept(old.profiles, new.profiles, names), NEW n, n = DEFAULT \/ n \notin names,
           n = DEFAULT \/ (Has(old, n) /\ Has(new, n)),
           NEW k \in Keys, k \in DOMAIN Customised(old, n) \/ new.base[k] = Stripped(k, old.base[k])
    PROVE  Effective(new, n)[k] = Stripped(k, Effective(old, n)[k])
<1>1. /\ DOMAIN Customised(new, n) = DOMAIN Customised(old, n)
      /\ \A x \in DOMAIN Customised(old, n) : Customised(new, n)[x] = Stripped(x, Customised(old, n)[x])
  <2>1. CASE n = DEFAULT
    <3>1. Customised(new, n) = <<>> /\ Customised(old, n) = <<>> /\ DOMAIN <<>> = {}
      BY <2>1 DEF Customised
    <3> QED
      BY <3>1
  <2>2. CASE n # DEFAULT
    <3>1. PICK i \in DOMAIN old.profiles, j \in DOMAIN new.profiles :
             /\ i = IndexOf(old, n) /\ old.profiles[i].name = n
             /\ j = IndexOf(new, n) /\ new.profiles[j].name = n
      BY <2>2 DEF Has, IndexOf
    <3>2. Comes(old.profiles[i], new.profiles[j])
      BY <2>2, <3>1 DEF Kept
    <3>3. Customised(old, n) = old.profiles[i].values /\ Customised(new, n) = new.profiles[j].values
      BY <2>2, <3>1 DEF Customised, Profile
    <3> QED
      BY <3>2, <3>3 DEF Comes
  <2> QED
    BY <2>1, <2>2
<1> QED
  BY <1>1 DEF Effective
---------------------------------------------------------------------------
\* Reading and writing

Typed == (file \in {Absent, Damaged} \/ IsStored(file)) /\ glitches \in Nat

LEMMA NothingIs == IsGood(<<>>) /\ IsWhole(<<>>) /\ DOMAIN <<>> = {} /\ IsGoodList(<<>>)
<1>1. DOMAIN <<>> = {} /\ <<>> \in Seq(Rows) /\ Len(<<>>) = 0
  OBVIOUS
<1>2. <<>> = [k \in DOMAIN <<>> |-> <<>>[k]]
  OBVIOUS
<1>3. \A u \in Units : ~(u \subseteq {})
  BY DEF Units
<1>4. IsWhole(<<>>)
  BY <1>1, <1>3 DEF IsWhole, WholeUnits
<1> QED
  BY <1>1, <1>2, <1>4 DEF IsGood, IsGoodList, IsList

LEMMA DefaultsAre == IsConfig(Defaults)
<1>1. DEFAULT_CONFIG = [k \in DOMAIN DEFAULT_CONFIG |-> DEFAULT_CONFIG[k]]
  BY DEF DEFAULT_CONFIG
<1>2. IsGood(DEFAULT_CONFIG) /\ DOMAIN DEFAULT_CONFIG = Keys
  BY <1>1, DefaultIsGood, Schema DEF IsGood
<1> QED
  BY <1>2, NothingIs DEF Defaults, IsConfig

LEMMA LoadedIs == ASSUME Typed, NEW glitch \in BOOLEAN PROVE IsConfig(Loaded(glitch))
BY DefaultsAre, ConfigOnce DEF Typed, Loaded

LEMMA UpdatedIs ==
    ASSUME NEW base, IsFields(base), DOMAIN base = Keys, NEW changes, IsFields(changes)
    PROVE  /\ IsFields(Updated(base, Writable(changes))) /\ DOMAIN Updated(base, Writable(changes)) = Keys
           /\ \A k \in Keys : Updated(base, Writable(changes))[k] =
                 IF k \in DOMAIN changes /\ ~(k = "api_key" /\ envKey) THEN changes[k] ELSE base[k]
<1>1. /\ DOMAIN Writable(changes) = {k \in DOMAIN changes : ~(k = "api_key" /\ envKey)}
      /\ \A k \in DOMAIN Writable(changes) : Writable(changes)[k] = changes[k]
  BY DEF Writable, Only
<1>2. /\ DOMAIN Updated(base, Writable(changes)) = Keys
      /\ Updated(base, Writable(changes)) =
           [k \in DOMAIN Updated(base, Writable(changes)) |-> Updated(base, Writable(changes))[k]]
      /\ \A k \in Keys : Updated(base, Writable(changes))[k] =
            IF k \in DOMAIN Writable(changes) THEN Writable(changes)[k] ELSE base[k]
  BY DEF Updated
<1>3. \A k \in Keys : Updated(base, Writable(changes))[k] =
         IF k \in DOMAIN changes /\ ~(k = "api_key" /\ envKey) THEN changes[k] ELSE base[k]
  BY <1>1, <1>2
<1>4. \A k \in Keys : Updated(base, Writable(changes))[k] \in FieldValues(k)
  BY <1>3 DEF IsFields
<1> QED
  BY <1>2, <1>3, <1>4 DEF IsFields

\* What is asked of a write, what it answers and what is then on disk.
Saves(changes, profiles, asked) ==
    /\ IsAsked(asked) /\ asked.profiles = profiles
    /\ \A k \in Keys : asked.base[k] =
          IF k \in DOMAIN changes /\ ~(k = "api_key" /\ envKey) THEN changes[k] ELSE Loaded(FALSE).base[k]
    /\ answer' = CoercedConfig(asked) /\ IsConfig(answer')
    /\ file' = CoercedConfig(answer') /\ IsSettled(file')
    /\ Loaded(FALSE)' = file' /\ file' \notin {Absent, Damaged}

LEMMA UpdateSaves ==
    ASSUME Typed, NEW changes, IsFields(changes), NEW profiles, IsList(profiles),
           UpdateConfig(changes, profiles)
    PROVE  \E asked : Saves(changes, profiles, asked)
<1> DEFINE asked == [base |-> Updated(Loaded(FALSE).base, Writable(changes)), profiles |-> profiles]
<1>1. IsConfig(Loaded(FALSE))
  BY LoadedIs
<1>2. IsFields(Loaded(FALSE).base) /\ DOMAIN Loaded(FALSE).base = Keys
  BY <1>1, GoodIsFields DEF IsConfig
<1>3. IsAsked(asked)
  BY <1>2, UpdatedIs DEF IsAsked
<1>4. \A k \in Keys : asked.base[k] =
         IF k \in DOMAIN changes /\ ~(k = "api_key" /\ envKey) THEN changes[k] ELSE Loaded(FALSE).base[k]
  <2>1. PICK base : base = Loaded(FALSE).base
    OBVIOUS
  <2>2. IsFields(base) /\ DOMAIN base = Keys
    BY <1>2, <2>1
  <2> DEFINE kept(k) == IF k \in DOMAIN changes /\ ~(k = "api_key" /\ envKey) THEN changes[k] ELSE base[k]
  <2>4. \A k \in Keys : Updated(base, Writable(changes))[k] = kept(k)
    BY ONLY <2>2, UpdatedIs, IsFields(changes)
  <2>3. asked.base = Updated(base, Writable(changes))
    BY <2>1
  <2> HIDE DEF asked
  <2> QED
    BY <2>1, <2>3, <2>4
<1>5. answer' = CoercedConfig(asked) /\ file' = CoercedConfig(CoercedConfig(asked)) /\ asked.profiles = profiles
  BY DEF UpdateConfig
<1> HIDE DEF asked
<1>6. IsConfig(CoercedConfig(asked))
  BY <1>3, AskedOnce
<1>7. IsSettled(CoercedConfig(CoercedConfig(asked)))
  BY <1>6, ConfigTwice
<1>8. PICK f : f = file'
  OBVIOUS
<1>9. IsSettled(f) /\ f \notin {Absent, Damaged} /\ CoercedConfig(f) = f
  BY <1>5, <1>7, <1>8, ConfigIsStored, ConfigTwice DEF IsSettled
<1>10. Loaded(FALSE)' = f
  BY <1>8, <1>9 DEF Loaded
<1>11. PICK a : a = answer'
  OBVIOUS
<1>12. IsConfig(a) /\ a = CoercedConfig(asked) /\ f = CoercedConfig(a)
  BY <1>5, <1>6, <1>8, <1>11
<1> QED
  BY <1>3, <1>4, <1>5, <1>8, <1>9, <1>10, <1>11, <1>12 DEF Saves
---------------------------------------------------------------------------
\* The operations

\* A preset with a scale of its own beside that scale, in what customises it at all.
Agrees(v) ==
    "photo_preset" \in DOMAIN v =>
       /\ "image_scale" \in DOMAIN v /\ v["photo_preset"] \in Presets
       /\ v["photo_preset"] = "small" => v["image_scale"] = 2
       /\ v["photo_preset"] = "default" => v["image_scale"] = 4

LEMMA ResolvedIs ==
    ASSUME NEW v, IsFields(v), "photo_preset" \in DOMAIN v => "image_scale" \in DOMAIN v
    PROVE  IsFields(Resolved(v)) /\ DOMAIN Resolved(v) = DOMAIN v /\ Agrees(Resolved(v))
<1>1. CASE "photo_preset" \notin DOMAIN v
  BY <1>1 DEF Resolved, Agrees
<1>2. CASE "photo_preset" \in DOMAIN v /\ v["photo_preset"] \in DOMAIN PRESETS
  <2>1. PICK p : p = v["photo_preset"]
    OBVIOUS
  <2>2. Resolved(v) = [v EXCEPT !["image_scale"] = PRESETS[p]]
    BY <1>2, <2>1 DEF Resolved
  <2>3. /\ DOMAIN Resolved(v) = DOMAIN v
        /\ Resolved(v) = [k \in DOMAIN Resolved(v) |-> Resolved(v)[k]]
        /\ \A k \in DOMAIN v : k # "image_scale" => Resolved(v)[k] = v[k]
        /\ Resolved(v)["image_scale"] = PRESETS[p]
    BY <1>2, <2>2 DEF IsFields
  <2>4. /\ p \in {"small", "default"} /\ PRESETS[p] \in Int
        /\ (p = "small" => PRESETS[p] = 2) /\ (p = "default" => PRESETS[p] = 4)
    BY <1>2, <2>1 DEF PRESETS
  <2>5. FieldValues("image_scale") = {Junk} \union Int
    BY DEF FieldValues, Numbers, Switches
  <2>6. IsFields(Resolved(v))
    BY <2>3, <2>4, <2>5 DEF IsFields
  <2>7. Agrees(Resolved(v))
    BY <1>2, <2>1, <2>3, <2>4 DEF Agrees, Presets
  <2> QED
    BY <2>3, <2>6, <2>7
<1>3. CASE "photo_preset" \in DOMAIN v /\ v["photo_preset"] \notin DOMAIN PRESETS
  <2>1. Resolved(v) = [v EXCEPT !["photo_preset"] = "custom"]
    BY <1>3 DEF Resolved
  <2>2. /\ DOMAIN Resolved(v) = DOMAIN v
        /\ Resolved(v) = [k \in DOMAIN Resolved(v) |-> Resolved(v)[k]]
        /\ \A k \in DOMAIN v : k # "photo_preset" => Resolved(v)[k] = v[k]
        /\ Resolved(v)["photo_preset"] = "custom"
    BY <1>3, <2>1 DEF IsFields
  <2>3. "custom" \in FieldValues("photo_preset")
    BY DEF FieldValues, Numbers, Switches, Texts, Literals
  <2>4. IsFields(Resolved(v))
    BY <2>2, <2>3 DEF IsFields
  <2>5. Agrees(Resolved(v))
    BY <1>3, <2>2 DEF Agrees, Presets
  <2> QED
    BY <2>2, <2>4, <2>5
<1> QED
  BY <1>1, <1>2, <1>3

LEMMA SavedIs ==
    ASSUME NEW units \in SUBSET Units, NEW posted, IsFields(posted), DOMAIN posted = Keys
    PROVE  LET v == SavedValues(units, posted)
           IN  IsFields(v) /\ IsWhole(v) /\ Agrees(v) /\ v \in AnyValues
<1> DEFINE U == UNION units
           part == Only(posted, U)
           v == SavedValues(units, posted)
<1>1. U \subseteq Keys
  BY DEF Keys
<1>2. DOMAIN part = U /\ part = [k \in DOMAIN part |-> part[k]] /\ \A k \in U : part[k] = posted[k]
  BY DEF Only
<1>3. IsFields(part)
  BY <1>1, <1>2 DEF IsFields
<1>4. "photo_preset" \in U => "image_scale" \in U
  BY DEF Units
<1>5. v = Resolved(part)
  BY DEF SavedValues
<1> HIDE DEF part
<1>6. IsFields(v) /\ DOMAIN v = U /\ Agrees(v)
  BY <1>2, <1>3, <1>4, <1>5, ResolvedIs
<1> HIDE DEF v
<1>7. IsWhole(v)
  <2>1. \A u \in units : u \in Units /\ u \subseteq DOMAIN v
    BY <1>6
  <2> QED
    BY <1>6, <2>1 DEF IsWhole, WholeUnits
<1> QED
  BY <1>6, <1>7, FieldsAreValues DEF v

\* What an operation on profiles asks: r in the place of l, and nothing of the Default profile.
AsksProfiles(l, r) ==
    /\ IsList(r) /\ UpdateConfig(<<>>, r) /\ Stays(l, r, about') /\ DEFAULT \notin about'
    /\ \A j \in DOMAIN r : Agrees(r[j].values) \/ \E i \in DOMAIN l : r[j].values = l[i].values
    /\ byHand' = byHand /\ envKey' = envKey

LEMMA CreateAsks ==
    ASSUME Typed, NEW n \in Profiles, NEW glitch \in BOOLEAN, CreateProfile(n, glitch)
    PROVE  \E r : AsksProfiles(Loaded(glitch).profiles, r)
<1> DEFINE l == Loaded(glitch).profiles
           row == [name |-> n, values |-> <<>>, ua |-> FALSE]
           r == Append(l, row)
<1>1. IsList(l) /\ ~\E i \in DOMAIN l : l[i].name = n
  BY LoadedIs DEF CreateProfile, Has, IsConfig, IsGoodList
<1>2. row \in Rows
  BY NothingIs, GoodIsFields, FieldsAreValues, ProfilesAreNames DEF Rows
<1>3. IsFields(<<>>) /\ IsWhole(<<>>) /\ Agrees(<<>>)
  BY NothingIs, GoodIsFields DEF Agrees
<1>4. l \in Seq(Rows) /\ DOMAIN l = 1..Len(l) /\ Len(l) \in Nat
  BY <1>1 DEF IsList
<1>5. about' = {n} /\ byHand' = byHand /\ envKey' = envKey /\ UpdateConfig(<<>>, r)
  BY DEF CreateProfile, Operate, WriteProfiles
<1> HIDE DEF l
<1>6. PICK x : x = row
  OBVIOUS
<1>7. x.name = n /\ x.values = <<>> /\ x \in Rows
  BY <1>2, <1>6
<1>8. /\ r \in Seq(Rows) /\ DOMAIN r = 1..(Len(l) + 1)
      /\ \A i \in 1..Len(l) : r[i] = l[i]
      /\ r[Len(l) + 1] = x
  BY <1>2, <1>4, <1>6
<1> HIDE DEF r, row
<1>9. ASSUME NEW i \in DOMAIN r PROVE (i \in DOMAIN l /\ r[i] = l[i]) \/ (i = Len(l) + 1 /\ r[i] = x)
  <2>1. i \in 1..Len(l) \/ i = Len(l) + 1
    BY <1>4, <1>8, <1>9
  <2>2. CASE i \in 1..Len(l)
    BY <1>4, <1>8, <2>2
  <2>3. CASE i = Len(l) + 1
    BY <1>8, <2>3
  <2> QED
    BY <2>1, <2>2, <2>3
<1>10. IsList(r)
  BY <1>1, <1>3, <1>7, <1>8, <1>9 DEF IsList
<1>11. Stays(l, r, {n})
  <2>1. \A i \in DOMAIN l, j \in DOMAIN r : l[i].name = r[j].name => i = j /\ r[j] = l[i]
    BY <1>1, <1>7, <1>9 DEF IsList
  <2>2. DOMAIN l \subseteq DOMAIN r /\ \A i \in DOMAIN l : r[i] = l[i]
    BY <1>4, <1>8
  <2>3. \A j \in DOMAIN r : r[j].name # n => j \in DOMAIN l /\ r[j] = l[j]
    BY <1>7, <1>9
  <2>4. ASSUME NEW i1 \in DOMAIN l, NEW i2 \in DOMAIN l, NEW j1 \in DOMAIN r, NEW j2 \in DOMAIN r,
               l[i1].name = r[j1].name, l[i2].name = r[j2].name, i1 < i2
        PROVE  j1 < j2
    BY <2>1, <2>4
  <2>5. Ordered(l, r, {n})
    BY <2>2, <2>3, <2>4 DEF Ordered
  <2> QED
    BY <2>1, <2>5 DEF Stays
<1>12. \A j \in DOMAIN r : Agrees(r[j].values) \/ \E i \in DOMAIN l : r[j].values = l[i].values
  BY <1>3, <1>7, <1>9
<1>13. DEFAULT \notin {n}
  BY ProfilesAreNames
<1> QED
  BY <1>5, <1>10, <1>11, <1>12, <1>13 DEF AsksProfiles, l, r

LEMMA RenameAsks ==
    ASSUME Typed, NEW old \in Profiles, NEW new \in Profiles, NEW glitch \in BOOLEAN,
           RenameProfile(old, new, glitch)
    PROVE  \E r : AsksProfiles(Loaded(glitch).profiles, r)
<1> DEFINE l == Loaded(glitch).profiles
           r == [i \in DOMAIN l |-> RenamedProfile(l[i], old, new)]
<1>1. IsList(l) /\ (new # old => ~\E i \in DOMAIN l : l[i].name = new)
  BY LoadedIs DEF RenameProfile, Has, IsConfig, IsGoodList
<1>2. about' = {old, new} /\ byHand' = byHand /\ envKey' = envKey /\ UpdateConfig(<<>>, r)
  BY DEF RenameProfile, Operate, WriteProfiles
<1> HIDE DEF l
<1>3. DOMAIN l = 1..Len(l) /\ Len(l) \in Nat
  BY <1>1, ListDomain
<1>4. ASSUME NEW i \in DOMAIN l
      PROVE  /\ r[i] \in Rows /\ r[i].values = l[i].values
             /\ l[i].name # old => r[i] = l[i]
             /\ l[i].name = old => r[i].name = new
  <2>1. l[i] \in Rows
    BY <1>1, <1>3, ListDomain
  <2>2. PICK p \in Rows : p = l[i]
    BY <2>1
  <2>3. [p EXCEPT !.name = new] = [name |-> new, values |-> p.values, ua |-> p.ua]
    BY DEF Rows
  <2>4. [name |-> new, values |-> p.values, ua |-> p.ua] \in Rows
    BY ProfilesAreNames DEF Rows
  <2>5. r[i] = IF p.name = old THEN [name |-> new, values |-> p.values, ua |-> p.ua] ELSE p
    BY <2>2, <2>3 DEF RenamedProfile
  <2> QED
    BY <2>2, <2>4, <2>5
<1>5. r \in Seq(Rows) /\ DOMAIN r = DOMAIN l /\ Len(r) = Len(l)
  BY <1>3, <1>4
<1> HIDE DEF r
<1>6. \A i \in DOMAIN r : r[i].name \in Profiles /\ IsFields(r[i].values) /\ IsWhole(r[i].values)
  BY <1>1, <1>4, <1>5 DEF IsList
<1>7. \A i, j \in DOMAIN r : r[i].name = r[j].name => i = j
  BY <1>1, <1>4, <1>5 DEF IsList
<1>8. IsList(r)
  BY <1>5, <1>6, <1>7 DEF IsList
<1>9. Stays(l, r, {old, new})
  <2>1. \A i \in 1..Len(l) : r[i] = l[i] \/ (l[i].name \in {old, new} /\ r[i].name \in {old, new})
    BY <1>3, <1>4
  <2> QED
    BY <1>1, <1>5, <1>8, <2>1, ChangedInPlace
<1>10. \A j \in DOMAIN r : \E i \in DOMAIN l : r[j].values = l[i].values
  BY <1>4, <1>5
<1>11. DEFAULT \notin {old, new}
  BY ProfilesAreNames
<1> QED
  BY <1>2, <1>8, <1>9, <1>10, <1>11 DEF AsksProfiles, l, r

LEMMA SaveAsks ==
    ASSUME Typed, NEW n \in Profiles, NEW units \in SUBSET Units, NEW posted \in Submissions,
           NEW ua \in BOOLEAN, NEW glitch \in BOOLEAN, SaveProfile(n, units, posted, ua, glitch)
    PROVE  \E r : AsksProfiles(Loaded(glitch).profiles, r)
<1> DEFINE l == Loaded(glitch).profiles
           row == [name |-> n, values |-> SavedValues(units, posted), ua |-> ua]
           r == [i \in DOMAIN l |-> IF l[i].name = n THEN row ELSE l[i]]
<1>1. IsList(l)
  BY LoadedIs DEF IsConfig, IsGoodList
<1>2. about' = {n} /\ byHand' = byHand /\ envKey' = envKey /\ UpdateConfig(<<>>, r)
  BY DEF SaveProfile, Operate, WriteProfiles
<1>3. PICK v : v = SavedValues(units, posted)
  OBVIOUS
<1>4. IsFields(v) /\ IsWhole(v) /\ Agrees(v) /\ v \in AnyValues
  BY <1>3, SavedIs, SettingsAssumption
<1>5. row \in Rows /\ row.name = n /\ row.values = v
  BY <1>3, <1>4, ProfilesAreNames DEF Rows
<1> HIDE DEF l, row
<1>6. DOMAIN l = 1..Len(l) /\ Len(l) \in Nat /\ \A i \in DOMAIN l : l[i] \in Rows
  BY <1>1, ListDomain
<1>7. \A i \in DOMAIN l : r[i] = l[i] \/ (l[i].name = n /\ r[i] = row)
  OBVIOUS
<1>8. r \in Seq(Rows) /\ DOMAIN r = DOMAIN l /\ Len(r) = Len(l)
  BY <1>5, <1>6
<1> HIDE DEF r
<1>9. \A i \in DOMAIN r : /\ r[i].name \in Profiles /\ IsFields(r[i].values) /\ IsWhole(r[i].values)
                          /\ r[i].name = l[i].name
  BY <1>1, <1>4, <1>5, <1>7, <1>8 DEF IsList
<1>10. IsList(r)
  BY <1>1, <1>8, <1>9 DEF IsList
<1>11. Stays(l, r, {n})
  <2>1. \A i \in 1..Len(l) : r[i] = l[i] \/ (l[i].name \in {n} /\ r[i].name \in {n})
    BY <1>5, <1>6, <1>7
  <2> QED
    BY <1>1, <1>8, <1>10, <2>1, ChangedInPlace
<1>12. \A j \in DOMAIN r : Agrees(r[j].values) \/ \E i \in DOMAIN l : r[j].values = l[i].values
  BY <1>4, <1>5, <1>7, <1>8
<1>13. DEFAULT \notin {n}
  BY ProfilesAreNames
<1> QED
  BY <1>2, <1>10, <1>11, <1>12, <1>13 DEF AsksProfiles, l, r

LEMMA DeleteAsks ==
    ASSUME Typed, NEW n \in Profiles, NEW glitch \in BOOLEAN, DeleteProfile(n, glitch)
    PROVE  \E r : AsksProfiles(Loaded(glitch).profiles, r)
<1> DEFINE l == Loaded(glitch).profiles
           at == IndexOf(Loaded(glitch), n)
           a == SubSeq(l, 1, at - 1)
           b == SubSeq(l, at + 1, Len(l))
           r == RemoveAt(l, at)
<1>1. IsList(l) /\ at \in DOMAIN l /\ l[at].name = n
  BY LoadedIs DEF DeleteProfile, Has, IndexOf, IsConfig, IsGoodList
<1>2. about' = {n} /\ byHand' = byHand /\ envKey' = envKey /\ UpdateConfig(<<>>, r)
  BY DEF DeleteProfile, Operate, WriteProfiles
<1>3. r = a \o b
  BY DEF RemoveAt
<1> HIDE DEF l, at, r
<1>4. l \in Seq(Rows) /\ DOMAIN l = 1..Len(l) /\ Len(l) \in Nat /\ at \in 1..Len(l)
  BY <1>1, ListDomain DEF IsList
<1>5. a \in Seq(Rows) /\ Len(a) = at - 1 /\ \A i \in 1..(at - 1) : a[i] = l[i]
  <2>1. 1 \in 1..(Len(l) + 1) /\ at - 1 \in 0..Len(l) /\ at - 1 >= 0 /\ at - 1 \in Int
    BY <1>4
  <2> QED
    BY <1>4, <2>1, SubSeqProperties
<1>6. b \in Seq(Rows) /\ Len(b) = Len(l) - at /\ \A i \in 1..(Len(l) - at) : b[i] = l[at + i]
  <2>1. at + 1 \in 1..(Len(l) + 1) /\ Len(l) \in (at + 1) - 1 .. Len(l)
    BY <1>4
  <2>2. \A i \in (at + 1)..Len(l) : l[i] \in Rows
    BY <1>4
  <2>3. /\ b \in Seq(Rows) /\ Len(b) = IF at + 1 <= Len(l) THEN Len(l) - (at + 1) + 1 ELSE 0
        /\ \A i \in 1..(Len(l) - (at + 1) + 1) : b[i] = l[(at + 1) + i - 1]
    BY <1>4, <2>1, <2>2, SubSeqProperties
  <2>4. Len(l) - (at + 1) + 1 = Len(l) - at /\ (~(at + 1 <= Len(l)) => Len(l) - at = 0)
    <3>1. PICK m \in Nat : m = Len(l)
      BY <1>4
    <3>2. at \in Int /\ at <= m
      BY <1>4, <3>1
    <3>3. m - (at + 1) + 1 = m - at /\ (~(at + 1 <= m) => m - at = 0)
      BY <3>2
    <3> QED
      BY <3>1, <3>3
  <2>5. \A i \in 1..(Len(l) - at) : (at + 1) + i - 1 = at + i
    BY <1>4
  <2> HIDE DEF b
  <2> QED
    BY <2>3, <2>4, <2>5
<1> HIDE DEF a, b
<1>7. /\ r \in Seq(Rows) /\ Len(r) = Len(a) + Len(b)
      /\ \A i \in 1..Len(r) : r[i] = IF i <= Len(a) THEN a[i] ELSE b[i - Len(a)]
  BY <1>3, <1>5, <1>6, ConcatProperties
<1>8. Len(r) = Len(l) - 1 /\ DOMAIN r = 1..(Len(l) - 1)
  BY <1>4, <1>5, <1>6, <1>7
<1> DEFINE from(j) == IF j < at THEN j ELSE j + 1
<1>9. ASSUME NEW j \in DOMAIN r PROVE from(j) \in DOMAIN l /\ from(j) # at /\ r[j] = l[from(j)]
  <2>1. CASE j < at
    <3>1. j \in 1..Len(r) /\ j \in 1..(at - 1) /\ j <= Len(a) /\ j \in 1..Len(l) /\ j # at
      BY <1>4, <1>5, <1>8, <2>1
    <3> QED
      BY <1>4, <1>5, <1>7, <2>1, <3>1
  <2>2. CASE ~(j < at)
    <3>1. /\ j \in 1..Len(r) /\ j \notin 1..(at - 1) /\ ~(j <= Len(a)) /\ j + 1 \in 1..Len(l) /\ j + 1 # at
          /\ j - Len(a) \in 1..(Len(l) - at) /\ at + (j - Len(a)) = j + 1
      BY <1>4, <1>5, <1>8, <2>2
    <3>2. r[j] = b[j - Len(a)] /\ b[j - Len(a)] = l[at + (j - Len(a))]
      BY <1>6, <1>7, <3>1
    <3> QED
      BY <1>4, <2>2, <3>1, <3>2
  <2> QED
    BY <2>1, <2>2
<1>10. ASSUME NEW i \in DOMAIN l, i # at PROVE \E j \in DOMAIN r : from(j) = i
  <2>1. CASE i < at
    BY <1>4, <1>8, <2>1
  <2>2. CASE ~(i < at)
    <3>1. i - 1 \in DOMAIN r /\ from(i - 1) = i
      BY <1>4, <1>8, <1>10, <2>2
    <3> QED
      BY <3>1
  <2> QED
    BY <2>1, <2>2
<1>11. \A j1, j2 \in DOMAIN r : from(j1) < from(j2) => j1 < j2
  BY <1>4, <1>8
<1>12. \A j1, j2 \in DOMAIN r : from(j1) = from(j2) => j1 = j2
  BY <1>4, <1>8
<1> HIDE DEF from
<1>13. \A i, j \in DOMAIN l : l[i].name = l[j].name => i = j
  BY <1>1 DEF IsList
<1>14. IsList(r)
  <2>1. \A j \in DOMAIN r : r[j].name \in Profiles /\ IsFields(r[j].values) /\ IsWhole(r[j].values)
    BY <1>1, <1>9 DEF IsList
  <2>2. \A i, j \in DOMAIN r : r[i].name = r[j].name => i = j
    BY <1>9, <1>12, <1>13
  <2> QED
    BY <1>7, <2>1, <2>2 DEF IsList
<1>15. Stays(l, r, {n})
  <2>1. \A i \in DOMAIN l, j \in DOMAIN r : l[i].name = r[j].name => i = from(j) /\ r[j] = l[i]
    BY <1>9, <1>13
  <2>2. ASSUME NEW i1 \in DOMAIN l, NEW i2 \in DOMAIN l, NEW j1 \in DOMAIN r, NEW j2 \in DOMAIN r,
               l[i1].name = r[j1].name, l[i2].name = r[j2].name, i1 < i2
        PROVE  j1 < j2
    BY <1>11, <2>1, <2>2
  <2>3. \A i \in DOMAIN l : l[i].name # n => \E j \in DOMAIN r : r[j].name = l[i].name
    BY <1>1, <1>9, <1>10
  <2>4. \A j \in DOMAIN r : \E i \in DOMAIN l : l[i].name = r[j].name
    BY <1>9
  <2>5. Ordered(l, r, {n})
    BY <2>2, <2>3, <2>4 DEF Ordered
  <2> QED
    BY <2>1, <2>5 DEF Stays
<1>16. \A j \in DOMAIN r : \E i \in DOMAIN l : r[j].values = l[i].values
  BY <1>9
<1>17. DEFAULT \notin {n}
  BY ProfilesAreNames
<1> QED
  BY <1>2, <1>14, <1>15, <1>16, <1>17 DEF AsksProfiles, l, r

\* What the Save of the Default profile asks: all of the schema, and the profiles as read.
AsksSettings(l, changes) ==
    /\ IsFields(changes) /\ DOMAIN changes = Keys /\ Agrees(changes)
    /\ IsList(l) /\ UpdateConfig(changes, l) /\ Stays(l, l, about') /\ about' = {DEFAULT}
    /\ byHand' = byHand /\ envKey' = envKey

LEMMA SettingsAsks ==
    ASSUME Typed, NEW posted \in Submissions, SaveSettings(posted)
    PROVE  AsksSettings(Loaded(FALSE).profiles, Resolved(posted))
<1>1. PICK l : l = Loaded(FALSE).profiles
  OBVIOUS
<1>2. IsList(l)
  BY <1>1, LoadedIs DEF IsConfig, IsGoodList
<1>3. IsFields(posted) /\ DOMAIN posted = Keys
  BY SettingsAssumption
<1>4. "photo_preset" \in Keys /\ "image_scale" \in Keys
  BY Schema DEF AllKeys
<1>5. IsFields(Resolved(posted)) /\ DOMAIN Resolved(posted) = Keys /\ Agrees(Resolved(posted))
  BY <1>3, <1>4, ResolvedIs
<1>6. Stays(l, l, {DEFAULT})
  BY <1>2, ChangedInPlace
<1>7. about' = {DEFAULT} /\ byHand' = byHand /\ envKey' = envKey /\ UpdateConfig(Resolved(posted), l)
  BY <1>1 DEF SaveSettings, Operate
<1> QED
  BY <1>1, <1>2, <1>5, <1>6, <1>7 DEF AsksSettings

\* Every step but the two of nobody's request is one of these two.
LEMMA Steps ==
    ASSUME Typed, Next
    PROVE  \/ FirstRead \/ HandEdit
           \/ UNCHANGED glitches /\ \E changes : AsksSettings(Loaded(FALSE).profiles, changes)
           \/ \E glitch \in BOOLEAN : \E r : Read(glitch) /\ AsksProfiles(Loaded(glitch).profiles, r)
<1>1. ASSUME NEW posted \in Submissions, SaveSettings(posted)
      PROVE  UNCHANGED glitches /\ \E changes : AsksSettings(Loaded(FALSE).profiles, changes)
  BY <1>1, SettingsAsks DEF SaveSettings, Read
<1>2. ASSUME NEW glitch \in BOOLEAN, NEW n \in Profiles,
             \/ CreateProfile(n, glitch) \/ DeleteProfile(n, glitch)
             \/ \E new \in Profiles : RenameProfile(n, new, glitch)
             \/ \E units \in SUBSET Units, posted \in Submissions, ua \in BOOLEAN :
                   SaveProfile(n, units, posted, ua, glitch)
      PROVE  \E g \in BOOLEAN : \E r : Read(g) /\ AsksProfiles(Loaded(g).profiles, r)
  <2>1. Read(glitch)
    BY <1>2 DEF CreateProfile, DeleteProfile, RenameProfile, SaveProfile
  <2>2. \E r : AsksProfiles(Loaded(glitch).profiles, r)
    BY <1>2, CreateAsks, DeleteAsks, RenameAsks, SaveAsks
  <2> QED
    BY <2>1, <2>2
<1> QED
  BY <1>1, <1>2 DEF Next

\* And either comes down to one write, of what was asked.
LEMMA SettingsSaves ==
    ASSUME Typed, NEW l, NEW changes, AsksSettings(l, changes)
    PROVE  \E asked : Saves(changes, l, asked)
BY UpdateSaves DEF AsksSettings

LEMMA ProfilesSaves ==
    ASSUME Typed, NEW l, NEW r, AsksProfiles(l, r)
    PROVE  \E asked : Saves(<<>>, r, asked)
BY UpdateSaves, NothingIs, GoodIsFields DEF AsksProfiles

LEMMA StepSaves ==
    ASSUME Typed, Next
    PROVE  \/ FirstRead \/ HandEdit
           \/ \E changes, profiles, asked : Saves(changes, profiles, asked)
BY Steps, SettingsSaves, ProfilesSaves

LEMMA DefaultsSettled == IsSettled(Defaults) /\ CoercedConfig(Defaults) = Defaults
<1>1. NoCut(DEFAULT_CONFIG)
  <2>1. DEFAULT_CONFIG["upcoming_label"] = "Coming up" /\ DEFAULT_CONFIG["album_selection"] = {}
    BY DEF DEFAULT_CONFIG
  <2>2. \A k : Stripped(k, DEFAULT_CONFIG[k]) = DEFAULT_CONFIG[k]
    BY <2>1 DEF Stripped, Trimmed
  <2> QED
    BY <2>2 DEF NoCut
<1>2. Defaults.base = DEFAULT_CONFIG /\ Defaults.profiles = <<>> /\ DOMAIN <<>> = {}
  BY DEF Defaults
<1>3. IsSettled(Defaults)
  BY <1>1, <1>2, DefaultsAre DEF IsSettled
<1> QED
  BY <1>3, DefaultsAre, ConfigTwice

\* config.json, as a step leaves it, can be read.
LEMMA TypedStep == ASSUME Typed, [Next]_vars PROVE Typed'
<1>1. CASE UNCHANGED vars
  BY <1>1 DEF Typed, vars
<1>2. CASE FirstRead
  <2>1. PICK f : f = file'
    OBVIOUS
  <2>2. IsStored(f)
    BY <1>2, <2>1, DefaultsAre, DefaultsSettled, ConfigIsStored DEF FirstRead
  <2> QED
    BY <1>2, <2>1, <2>2 DEF FirstRead, Typed
<1>3. CASE HandEdit
  <2>1. PICK f : f = file'
    OBVIOUS
  <2>2. f \in {Absent, Damaged} \/ IsStored(f)
    BY <1>3, <2>1, SettingsAssumption DEF HandEdit
  <2> QED
    BY <1>3, <2>1, <2>2 DEF HandEdit, Typed
<1>4. CASE Next /\ ~FirstRead /\ ~HandEdit
  <2>1. PICK f : f = file'
    OBVIOUS
  <2>2. IsStored(f)
    BY <1>4, <2>1, StepSaves, ConfigIsStored DEF Saves, IsSettled
  <2>3. glitches' \in Nat
    <3>1. \A glitch \in BOOLEAN : Read(glitch) => glitches' \in Nat
      BY DEF Typed, Read
    <3> QED
      BY <1>4, <3>1, Steps DEF Typed
  <2> QED
    BY <2>1, <2>2, <2>3 DEF Typed
<1> QED
  BY <1>1, <1>2, <1>3, <1>4

LEMMA TypedInit == Init => Typed
BY DEF Init, Typed
---------------------------------------------------------------------------
\* What a write returns is what the next read gives

LEMMA SavesReadBack ==
    ASSUME NEW changes, NEW profiles, NEW asked, Saves(changes, profiles, asked)
    PROVE  /\ file' = Loaded(FALSE)'
           /\ Alike(answer'.base, file'.base)
           /\ Len(answer'.profiles) = Len(file'.profiles)
           /\ \A i \in DOMAIN file'.profiles :
                 /\ Alike(answer'.profiles[i].values, file'.profiles[i].values)
                 /\ answer'.profiles[i].name = file'.profiles[i].name
<1>1. PICK a, f : a = answer' /\ f = file'
  OBVIOUS
<1>2. IsConfig(a) /\ f = CoercedConfig(a) /\ IsSettled(f) /\ Loaded(FALSE)' = f
  BY <1>1 DEF Saves
<1>3. /\ \A k \in Keys : f.base[k] = Stripped(k, a.base[k])
      /\ Len(f.profiles) = Len(a.profiles)
      /\ \A i \in 1..Len(a.profiles) : Comes(a.profiles[i], f.profiles[i])
  BY <1>2, ConfigTwice
<1>4. DOMAIN a.base = Keys /\ DOMAIN f.base = Keys /\ DOMAIN f.profiles = 1..Len(f.profiles)
  BY <1>2, ListDomain DEF IsSettled, IsConfig, IsGoodList
<1>6. Alike(a.base, f.base)
  BY <1>3, <1>4 DEF Alike
<1>7. \A i \in DOMAIN f.profiles :
         Alike(a.profiles[i].values, f.profiles[i].values) /\ a.profiles[i].name = f.profiles[i].name
  <2> SUFFICES ASSUME NEW i \in DOMAIN f.profiles
               PROVE  /\ Alike(a.profiles[i].values, f.profiles[i].values)
                      /\ a.profiles[i].name = f.profiles[i].name
    OBVIOUS
  <2>1. PICK p, q : p = a.profiles[i] /\ q = f.profiles[i]
    OBVIOUS
  <2>2. Comes(p, q)
    BY <1>3, <1>4, <2>1
  <2>3. Alike(p.values, q.values)
    BY <2>2 DEF Comes, Alike
  <2> QED
    BY <2>1, <2>2, <2>3 DEF Comes
<1> QED
  BY <1>1, <1>2, <1>3, <1>6, <1>7

\* "callers must read the returned dict rather than assume" (config_store.py:1019-1038): for any
\* submission and whatever a person left in config.json, what update_config returns is what is
\* on disk and what the next read gives, but for the space that a label or a ticked album's
\* name was cut after, which is stripped.
THEOREM AnswersAreRead == Spec => ReadBackAsSaved
<1>1. Typed /\ [Next]_vars => (answer' # answer =>
          /\ file' = Loaded(FALSE)'
          /\ Alike(answer'.base, file'.base)
          /\ Len(answer'.profiles) = Len(file'.profiles)
          /\ \A i \in DOMAIN file'.profiles :
                /\ Alike(answer'.profiles[i].values, file'.profiles[i].values)
                /\ answer'.profiles[i].name = file'.profiles[i].name)
  <2> SUFFICES ASSUME Typed, [Next]_vars, answer' # answer
               PROVE  \E changes, profiles, asked : Saves(changes, profiles, asked)
    BY SavesReadBack
  <2> QED
    BY StepSaves DEF vars, FirstRead, HandEdit
<1> QED
  BY <1>1, TypedInit, TypedStep, PTL DEF Spec, ReadBackAsSaved
---------------------------------------------------------------------------
\* A Save changes nothing of what it is not about

\* From old to new a screen of another profile is shown the same, but where the step is about
\* the Default profile.
KeepsOff(old, new, names, env) ==
    \A s \in Screens :
       LET n == ChosenProfile(old, s)
           m == ChosenProfile(new, s)
       IN {n, m} \intersect names \subseteq {DEFAULT} =>
             /\ m = n
             /\ \A k \in Keys :
                   \/ DEFAULT \in names /\ k \notin DOMAIN Customised(old, n) /\ ~(k = "api_key" /\ env)
                   \/ names = Profiles \union {DEFAULT}
                   \/ Effective(new, n)[k] = Effective(old, n)[k]
                   \/ Effective(new, n)[k] = Stripped(k, Effective(old, n)[k])

LEMMA SameKeepsOff == ASSUME NEW c, NEW names, NEW env PROVE KeepsOff(c, c, names, env)
BY DEF KeepsOff

LEMMA EditKeepsOff ==
    ASSUME NEW old, IsConfig(old), NEW new, IsConfig(new), NEW env
    PROVE  KeepsOff(old, new, Profiles \union {DEFAULT}, env)
<1>1. \A s \in Screens : /\ ChosenProfile(old, s) \in Profiles \union {DEFAULT}
                         /\ ChosenProfile(new, s) \in Profiles \union {DEFAULT}
  BY ChosenIs
<1> QED
  BY <1>1 DEF KeepsOff

\* A write that keeps the other profiles, and of the Default profile all but what it is about.
LEMMA KeptKeepsOff ==
    ASSUME NEW old, IsConfig(old), NEW new, IsConfig(new), NEW names, NEW env,
           Kept(old.profiles, new.profiles, names),
           \A k \in Keys : \/ DEFAULT \in names /\ ~(k = "api_key" /\ env)
                           \/ new.base[k] = Stripped(k, old.base[k])
    PROVE  KeepsOff(old, new, names, env)
<1> SUFFICES ASSUME NEW s \in Screens,
                    {ChosenProfile(old, s), ChosenProfile(new, s)} \intersect names \subseteq {DEFAULT}
             PROVE  /\ ChosenProfile(new, s) = ChosenProfile(old, s)
                    /\ \A k \in Keys :
                          \/ DEFAULT \in names /\ k \notin DOMAIN Customised(old, ChosenProfile(old, s))
                             /\ ~(k = "api_key" /\ env)
                          \/ Effective(new, ChosenProfile(old, s))[k] = Effective(old, ChosenProfile(old, s))[k]
                          \/ Effective(new, ChosenProfile(old, s))[k]
                                = Stripped(k, Effective(old, ChosenProfile(old, s))[k])
  BY DEF KeepsOff
<1>1. ChosenProfile(old, s) = DEFAULT \/ ChosenProfile(old, s) \notin names
  OBVIOUS
<1>2. ChosenProfile(new, s) = DEFAULT \/ ChosenProfile(new, s) \notin names
  OBVIOUS
<1>3. ChosenProfile(new, s) = ChosenProfile(old, s)
  BY <1>1, <1>2, ChosenSame
<1>4. PICK n : n = ChosenProfile(old, s)
  OBVIOUS
<1>5. n = DEFAULT \/ (Has(old, n) /\ Has(new, n))
  BY <1>3, <1>4, ChosenIs
<1>6. ASSUME NEW k \in Keys, ~(DEFAULT \in names /\ k \notin DOMAIN Customised(old, n) /\ ~(k = "api_key" /\ env))
      PROVE  Effective(new, n)[k] = Stripped(k, Effective(old, n)[k])
  <2>1. k \in DOMAIN Customised(old, n) \/ new.base[k] = Stripped(k, old.base[k])
    BY <1>6
  <2>2. n = DEFAULT \/ n \notin names
    BY <1>1, <1>4
  <2> QED
    BY <1>5, <2>1, <2>2, EffectiveSame
<1> QED
  BY <1>3, <1>4, <1>6

\* What a write leaves of what it was asked to leave.
LEMMA SavesKeep ==
    ASSUME Typed, NEW changes, NEW r, NEW asked, Saves(changes, r, asked), NEW names,
           Stays(Loaded(FALSE).profiles, r, names)
    PROVE  /\ Kept(Loaded(FALSE).profiles, Loaded(FALSE)'.profiles, names)
           /\ \A k \in Keys : k \notin DOMAIN changes \/ (k = "api_key" /\ envKey) =>
                 Loaded(FALSE)'.base[k] = Stripped(k, Loaded(FALSE).base[k])
           /\ IsConfig(Loaded(FALSE)')
<1>1. PICK old, a, f : old = Loaded(FALSE) /\ a = answer' /\ f = file'
  OBVIOUS
<1>2. IsConfig(old)
  BY <1>1, LoadedIs
<1>3. /\ IsAsked(asked) /\ asked.profiles = r /\ a = CoercedConfig(asked) /\ IsConfig(a)
      /\ f = CoercedConfig(a) /\ IsConfig(f) /\ Loaded(FALSE)' = f
      /\ \A k \in Keys : asked.base[k] =
            IF k \in DOMAIN changes /\ ~(k = "api_key" /\ envKey) THEN changes[k] ELSE old.base[k]
  BY <1>1 DEF Saves, IsSettled
<1>4. /\ \A k \in Keys : a.base[k] = Fixed(k, asked.base[k])
      /\ Len(a.profiles) = Len(r) /\ \A j \in 1..Len(r) : a.profiles[j] = NewRow(r[j])
  BY <1>3, AskedOnce
<1>5. /\ \A k \in Keys : f.base[k] = Stripped(k, a.base[k])
      /\ Len(f.profiles) = Len(a.profiles)
      /\ \A j \in 1..Len(a.profiles) : Comes(a.profiles[j], f.profiles[j])
  BY <1>3, ConfigTwice
<1>6. Kept(old.profiles, f.profiles, names)
  <2>1. IsGoodList(old.profiles) /\ IsList(r) /\ IsList(f.profiles)
    BY <1>2, <1>3 DEF IsConfig, IsAsked, IsGoodList
  <2>2. PICK l, x, q : l = old.profiles /\ x = a.profiles /\ q = f.profiles
    OBVIOUS
  <2>3. /\ Stays(l, r, names) /\ Len(x) = Len(r) /\ \A j \in 1..Len(r) : x[j] = NewRow(r[j])
        /\ Len(q) = Len(r) /\ \A j \in 1..Len(r) : Comes(x[j], q[j])
    BY <1>1, <1>4, <1>5, <2>2
  <2>4. Kept(l, q, names)
    BY <2>1, <2>2, <2>3, StaysKept
  <2> QED
    BY <2>2, <2>4
<1>7. ASSUME NEW k \in Keys, k \notin DOMAIN changes \/ (k = "api_key" /\ envKey)
      PROVE  f.base[k] = Stripped(k, old.base[k])
  <2>1. asked.base[k] = old.base[k] /\ old.base[k] \in GoodValues(k)
    BY <1>2, <1>3, <1>7 DEF IsConfig, IsGood
  <2> QED
    BY <1>4, <1>5, <2>1, FixedKeepsGood, StrippedTwice
<1> QED
  BY <1>1, <1>3, <1>6, <1>7

LEMMA StepKeepsOff ==
    ASSUME Typed, [Next]_vars, UNCHANGED glitches
    PROVE  \A old \in {Loaded(FALSE)}, new \in {Loaded(FALSE)'} : KeepsOff(old, new, about', envKey)
<1>1. PICK old, new, names, env : old = Loaded(FALSE) /\ new = Loaded(FALSE)' /\ names = about' /\ env = envKey
  OBVIOUS
<1>2. IsConfig(old)
  BY <1>1, LoadedIs
<1>3. ASSUME UNCHANGED vars PROVE KeepsOff(old, new, names, env)
  <2>1. new = old
    BY <1>1, <1>3 DEF vars, Loaded
  <2> QED
    BY <1>1, <2>1, SameKeepsOff
<1>4. ASSUME FirstRead PROVE KeepsOff(old, new, names, env)
  <2>1. PICK f : f = file'
    OBVIOUS
  <2>2. f = Defaults /\ f \notin {Absent, Damaged} /\ old = Defaults
    BY <1>1, <1>4, <2>1, DefaultsAre, DefaultsSettled, ConfigIsStored DEF FirstRead, Loaded
  <2>3. new = old
    BY <1>1, <2>1, <2>2, DefaultsSettled DEF Loaded
  <2> QED
    BY <1>1, <2>3, SameKeepsOff
<1>5. ASSUME HandEdit PROVE KeepsOff(old, new, names, env)
  <2>1. PICK f : f = file'
    OBVIOUS
  <2>2. f \in {Absent, Damaged} \/ IsStored(f)
    BY <1>5, <2>1, SettingsAssumption DEF HandEdit
  <2>3. new \in {Defaults, CoercedConfig(f)} /\ (f \in {Absent, Damaged} => new = Defaults)
    BY <1>1, <2>1 DEF Loaded
  <2>4. IsConfig(new)
    BY <2>2, <2>3, DefaultsAre, ConfigOnce
  <2>5. names = Profiles \union {DEFAULT}
    BY <1>1, <1>5 DEF HandEdit
  <2> QED
    BY <1>1, <1>2, <2>4, <2>5, EditKeepsOff
<1>6. ASSUME NEW changes, AsksSettings(Loaded(FALSE).profiles, changes) PROVE KeepsOff(old, new, names, env)
  <2>1. PICK asked : Saves(changes, Loaded(FALSE).profiles, asked)
    BY <1>6, SettingsSaves
  <2>2. Stays(Loaded(FALSE).profiles, Loaded(FALSE).profiles, names) /\ names = {DEFAULT}
    BY <1>1, <1>6 DEF AsksSettings
  <2>3. /\ Kept(old.profiles, new.profiles, names) /\ IsConfig(new)
        /\ \A k \in Keys : k = "api_key" /\ env => new.base[k] = Stripped(k, old.base[k])
    BY <1>1, <2>1, <2>2, SavesKeep
  <2> QED
    BY <1>2, <2>2, <2>3, KeptKeepsOff
<1>7. ASSUME NEW r, AsksProfiles(Loaded(FALSE).profiles, r) PROVE KeepsOff(old, new, names, env)
  <2>1. PICK asked : Saves(<<>>, r, asked)
    BY <1>7, ProfilesSaves
  <2>2. Stays(Loaded(FALSE).profiles, r, names)
    BY <1>1, <1>7 DEF AsksProfiles
  <2>3. DOMAIN <<>> = {}
    OBVIOUS
  <2>4. /\ Kept(old.profiles, new.profiles, names) /\ IsConfig(new)
        /\ \A k \in Keys : new.base[k] = Stripped(k, old.base[k])
    BY <1>1, <2>1, <2>2, <2>3, SavesKeep
  <2> QED
    BY <1>2, <2>4, KeptKeepsOff
<1>8. \A glitch \in BOOLEAN : Read(glitch) => glitch = FALSE
  BY DEF Typed, Read
<1>9. ASSUME Next PROVE KeepsOff(old, new, names, env)
  <2>1. CASE UNCHANGED glitches /\ \E changes : AsksSettings(Loaded(FALSE).profiles, changes)
    BY <1>6, <2>1
  <2>2. CASE \E glitch \in BOOLEAN : \E r : Read(glitch) /\ AsksProfiles(Loaded(glitch).profiles, r)
    <3>1. PICK glitch \in BOOLEAN : \E r : Read(glitch) /\ AsksProfiles(Loaded(glitch).profiles, r)
      BY <2>2
    <3>2. PICK r : Read(glitch) /\ AsksProfiles(Loaded(glitch).profiles, r)
      BY <3>1
    <3>3. glitch = FALSE
      BY <1>8, <3>2
    <3>4. AsksProfiles(Loaded(FALSE).profiles, r)
      BY <3>2, <3>3
    <3> QED
      BY <1>7, <3>4
  <2> QED
    BY <1>4, <1>5, <1>9, <2>1, <2>2, Steps
<1>10. KeepsOff(old, new, names, env)
  BY <1>3, <1>9
<1> QED
  BY <1>1, <1>10

\* In a run of any length and with any reads that fail, an operation none of whose reads fails
\* keeps off the other profiles (admin_ops.py:228-238).
THEOREM OnlyGlitchesReach ==
    Spec => [][UNCHANGED glitches =>
                 \A old \in {Loaded(FALSE)}, new \in {Loaded(FALSE)'} : KeepsOff(old, new, about', envKey)]_vars
<1>1. Typed /\ [Next]_vars /\ UNCHANGED glitches =>
         \A old \in {Loaded(FALSE)}, new \in {Loaded(FALSE)'} : KeepsOff(old, new, about', envKey)
  BY StepKeepsOff
<1> QED
  BY <1>1, TypedInit, TypedStep, PTL DEF Spec

\* What a screen is shown changes only by an operation on its own profile, or, in a setting its
\* profile follows, by a Save of the Default profile (admin_ops.py:228-238,
\* config_store.py:1019-1037): for any profiles and whatever a person left in config.json, if
\* no read fails that worked a moment before or after (one that does is the run SettingsGlitch).
THEOREM SavesKeepOff ==
    ASSUME MAX_GLITCHES = 0 PROVE Spec => SavesTouchOnlyTheirOwn
<1>1. ASSUME Typed, Typed', [Next]_vars PROVE UNCHANGED glitches
  <2>1. \A glitch \in BOOLEAN : Read(glitch) => UNCHANGED glitches
    BY <1>1 DEF Typed, Read
  <2>2. Next => UNCHANGED glitches
    BY <1>1, <2>1, Steps DEF FirstRead, HandEdit
  <2> QED
    BY <1>1, <2>2 DEF vars
<1>2. ASSUME \A old \in {Loaded(FALSE)}, new \in {Loaded(FALSE)'} : KeepsOff(old, new, about', envKey)
      PROVE  \A old \in {Loaded(FALSE)}, new \in {Loaded(FALSE)'}, s \in Screens :
          LET n == ChosenProfile(old, s)
              m == ChosenProfile(new, s)
          IN {n, m} \intersect about' \subseteq {DEFAULT} =>
                /\ m = n
                /\ \A k \in Keys :
                      \/ DEFAULT \in about' /\ k \notin DOMAIN Customised(old, n) /\ ~(k = "api_key" /\ envKey)
                      \/ about' = Profiles \union {DEFAULT}
                      \/ Effective(new, n)[k] = Effective(old, n)[k]
                      \/ Effective(new, n)[k] = Stripped(k, Effective(old, n)[k])
  BY <1>2 DEF KeepsOff
<1>3. ASSUME Typed, Typed', [Next]_vars
      PROVE  \A old \in {Loaded(FALSE)}, new \in {Loaded(FALSE)'} : KeepsOff(old, new, about', envKey)
  BY <1>1, <1>3, StepKeepsOff
<1> QED
  BY <1>2, <1>3, TypedInit, TypedStep, PTL DEF Spec, SavesTouchOnlyTheirOwn
---------------------------------------------------------------------------
\* A preset owns its scale

AgreesAll(c) == Agrees(c.base) /\ \A i \in DOMAIN c.profiles : Agrees(c.profiles[i].values)

\* Neither of the two settings of a preset is changed by what a write makes of them.
LEMMA FixedAgrees ==
    ASSUME NEW v, Agrees(v), NEW w, DOMAIN w = DOMAIN v,
           \A k \in DOMAIN v : w[k] = Fixed(k, v[k])
    PROVE  Agrees(w)
<1> SUFFICES ASSUME "photo_preset" \in DOMAIN w PROVE Agrees(w)
  BY DEF Agrees
<1>1. /\ "photo_preset" \in DOMAIN v /\ "image_scale" \in DOMAIN v /\ v["photo_preset"] \in Presets
      /\ v["photo_preset"] = "small" => v["image_scale"] = 2
      /\ v["photo_preset"] = "default" => v["image_scale"] = 4
  BY DEF Agrees
<1>2. \A x : Fixed("photo_preset", x) = FixedPreset(x)
  BY DEF Fixed, Numbers, Switches
<1>3. "image_scale" \in Numbers /\ \A x : Fixed("image_scale", x) = FixedNumber("image_scale", x)
  BY DEF Fixed, Numbers, Switches
<1>4. w["photo_preset"] = v["photo_preset"]
  BY <1>1, <1>2 DEF FixedPreset
<1>5. 2 # Junk /\ 4 # Junk
  BY SettingsAssumption
<1>6. 2 \in Within("image_scale") /\ 4 \in Within("image_scale")
  BY DEF Within, SETTINGS_BOUNDS
<1>7. FixedNumber("image_scale", 2) = 2 /\ FixedNumber("image_scale", 4) = 4
  BY <1>3, <1>5, <1>6, Bounds DEF FixedNumber
<1> QED
  BY <1>1, <1>3, <1>4, <1>7 DEF Agrees

LEMMA StrippedAgrees ==
    ASSUME NEW v, Agrees(v), NEW w, DOMAIN w = DOMAIN v,
           \A k \in DOMAIN v : w[k] = Stripped(k, v[k])
    PROVE  Agrees(w)
BY DEF Agrees, Stripped

LEMMA DefaultsAgree == AgreesAll(Defaults)
<1>1. Defaults.base = DEFAULT_CONFIG /\ Defaults.profiles = <<>> /\ DOMAIN <<>> = {}
  BY DEF Defaults
<1>2. Agrees(DEFAULT_CONFIG)
  BY DEF Agrees, DEFAULT_CONFIG, Presets
<1> QED
  BY <1>1, <1>2 DEF AgreesAll

\* What was asked in agreement is on disk in agreement.
LEMMA WriteAgrees ==
    ASSUME NEW asked, IsAsked(asked), AgreesAll(asked)
    PROVE  AgreesAll(CoercedConfig(CoercedConfig(asked)))
<1>1. PICK a, f : a = CoercedConfig(asked) /\ f = CoercedConfig(a)
  OBVIOUS
<1>2. /\ IsConfig(a) /\ Len(a.profiles) = Len(asked.profiles)
      /\ \A k \in Keys : a.base[k] = Fixed(k, asked.base[k])
      /\ \A i \in 1..Len(asked.profiles) : a.profiles[i] = NewRow(asked.profiles[i])
  BY <1>1, AskedOnce
<1>3. /\ IsConfig(f) /\ Len(f.profiles) = Len(a.profiles)
      /\ \A k \in Keys : f.base[k] = Stripped(k, a.base[k])
      /\ \A i \in 1..Len(a.profiles) : Comes(a.profiles[i], f.profiles[i])
  BY <1>1, <1>2, ConfigTwice DEF IsSettled
<1>4. DOMAIN asked.base = Keys /\ DOMAIN a.base = Keys /\ DOMAIN f.base = Keys
  BY <1>2, <1>3 DEF IsAsked, IsConfig
<1>5. Agrees(f.base)
  <2>1. Agrees(a.base)
    BY <1>2, <1>4, FixedAgrees DEF AgreesAll
  <2> QED
    BY <1>3, <1>4, <2>1, StrippedAgrees
<1>6. IsList(asked.profiles) /\ IsList(f.profiles)
  BY <1>3 DEF IsAsked, IsConfig, IsGoodList
<1>7. ASSUME NEW i \in 1..Len(asked.profiles) PROVE Agrees(f.profiles[i].values)
  <2>1. PICK p, q : p = asked.profiles[i] /\ q = f.profiles[i]
    OBVIOUS
  <2>2. IsFields(p.values) /\ IsWhole(p.values) /\ Agrees(p.values)
    BY <1>6, <2>1, ListDomain DEF IsList, AgreesAll
  <2>3. PICK v : v = CoercedProfile(p.values)
    OBVIOUS
  <2>4. DOMAIN v = DOMAIN p.values /\ \A k \in DOMAIN p.values : v[k] = Fixed(k, p.values[k])
    BY <2>2, <2>3, CoercedProfileIs DEF IsWhole
  <2>5. Agrees(v)
    BY <2>2, <2>4, FixedAgrees
  <2>6. a.profiles[i].values = v
    <3>1. NewRow(p).values = v
      BY <2>3 DEF NewRow
    <3>2. a.profiles[i] = NewRow(p)
      BY <1>2, <2>1
    <3> QED
      BY <3>1, <3>2
  <2>7. DOMAIN q.values = DOMAIN v /\ \A k \in DOMAIN v : q.values[k] = Stripped(k, v[k])
    BY <1>2, <1>3, <2>1, <2>6 DEF Comes
  <2> QED
    BY <2>1, <2>5, <2>7, StrippedAgrees
<1>8. DOMAIN f.profiles = 1..Len(asked.profiles)
  BY <1>2, <1>3, <1>6, ListDomain
<1>9. AgreesAll(f)
  BY <1>5, <1>7, <1>8 DEF AgreesAll
<1> QED
  BY <1>1, <1>9

\* Of a file that nobody has edited, what a write left.
AgreeInv ==
    ~byHand /\ file \notin {Absent, Damaged} => IsSettled(file) /\ AgreesAll(file)

LEMMA LoadedAgrees ==
    ASSUME AgreeInv, ~byHand, NEW glitch \in BOOLEAN PROVE AgreesAll(Loaded(glitch))
<1>1. CASE glitch \/ file \in {Absent, Damaged}
  <2>1. Loaded(glitch) = Defaults
    BY <1>1 DEF Loaded
  <2> QED
    BY <2>1, DefaultsAgree
<1>2. CASE ~glitch /\ file \notin {Absent, Damaged}
  <2>1. Loaded(glitch) = CoercedConfig(file)
    BY <1>2 DEF Loaded
  <2>2. IsSettled(file) /\ AgreesAll(file)
    BY <1>2 DEF AgreeInv
  <2>3. CoercedConfig(file) = file
    BY <2>2, ConfigTwice DEF IsSettled
  <2> QED
    BY <2>1, <2>2, <2>3
<1> QED
  BY <1>1, <1>2

\* What is asked of a file in agreement is in agreement.
LEMMA SettingsAgree ==
    ASSUME Typed, AgreeInv, ~byHand, NEW changes, AsksSettings(Loaded(FALSE).profiles, changes),
           NEW asked, Saves(changes, Loaded(FALSE).profiles, asked)
    PROVE  AgreesAll(asked)
<1>1. PICK old, env : old = Loaded(FALSE) /\ env = envKey
  OBVIOUS
<1>2. AgreesAll(old)
  BY <1>1, LoadedAgrees
<1>3. /\ DOMAIN asked.base = Keys /\ asked.profiles = old.profiles
      /\ DOMAIN changes = Keys /\ Agrees(changes)
      /\ \A k \in Keys : asked.base[k] = IF k \in DOMAIN changes /\ ~(k = "api_key" /\ env) THEN changes[k] ELSE old.base[k]
  BY <1>1 DEF Saves, IsAsked, AsksSettings
<1>4. "photo_preset" \in Keys /\ "image_scale" \in Keys
  BY Schema DEF AllKeys
<1>5. asked.base["photo_preset"] = changes["photo_preset"] /\ asked.base["image_scale"] = changes["image_scale"]
  BY <1>3, <1>4
<1>6. Agrees(asked.base)
  BY <1>3, <1>4, <1>5 DEF Agrees
<1> QED
  BY <1>2, <1>3, <1>6 DEF AgreesAll

LEMMA ProfilesAgree ==
    ASSUME Typed, AgreeInv, ~byHand, NEW glitch \in BOOLEAN, NEW r, AsksProfiles(Loaded(glitch).profiles, r),
           NEW asked, Saves(<<>>, r, asked)
    PROVE  AgreesAll(asked)
<1>1. PICK old, read, env : old = Loaded(FALSE) /\ read = Loaded(glitch) /\ env = envKey
  OBVIOUS
<1>2. AgreesAll(old) /\ AgreesAll(read) /\ IsConfig(old)
  BY <1>1, LoadedAgrees, LoadedIs
<1>3. DOMAIN <<>> = {}
  OBVIOUS
<1>4. /\ DOMAIN asked.base = Keys /\ asked.profiles = r /\ DOMAIN old.base = Keys
      /\ \A k \in Keys : asked.base[k] = old.base[k]
      /\ \A j \in DOMAIN r : Agrees(r[j].values) \/ \E i \in DOMAIN read.profiles : r[j].values = read.profiles[i].values
  BY <1>1, <1>2, <1>3 DEF Saves, IsAsked, AsksProfiles, IsConfig
<1>5. "photo_preset" \in Keys /\ "image_scale" \in Keys
  BY Schema DEF AllKeys
<1>6. Agrees(asked.base)
  BY <1>2, <1>4, <1>5 DEF Agrees, AgreesAll
<1>7. \A j \in DOMAIN r : Agrees(r[j].values)
  BY <1>2, <1>4 DEF AgreesAll
<1> QED
  BY <1>4, <1>6, <1>7 DEF AgreesAll

LEMMA AgreeStep == ASSUME Typed, AgreeInv, [Next]_vars PROVE AgreeInv'
<1>1. CASE UNCHANGED vars
  BY <1>1 DEF AgreeInv, vars
<1>2. CASE FirstRead
  <2>1. PICK f : f = file'
    OBVIOUS
  <2>2. IsSettled(f) /\ AgreesAll(f)
    BY <1>2, <2>1, DefaultsSettled, DefaultsAgree DEF FirstRead
  <2> QED
    BY <2>1, <2>2 DEF AgreeInv
<1>3. CASE HandEdit
  BY <1>3 DEF HandEdit, AgreeInv
<1>4. CASE Next /\ ~FirstRead /\ ~HandEdit
  <2>1. CASE byHand
    <3>1. byHand' = byHand
      BY <1>4, Steps DEF AsksSettings, AsksProfiles
    <3> QED
      BY <2>1, <3>1 DEF AgreeInv
  <2>2. CASE ~byHand
    <3>1. ASSUME NEW changes, NEW r, NEW asked, Saves(changes, r, asked), AgreesAll(asked)
          PROVE  AgreeInv'
      <4>1. PICK f : f = file'
        OBVIOUS
      <4>2. IsSettled(f)
        BY <3>1, <4>1 DEF Saves
      <4>3. f = CoercedConfig(CoercedConfig(asked)) /\ IsAsked(asked)
        BY <3>1, <4>1 DEF Saves
      <4>4. AgreesAll(f)
        BY <3>1, <4>3, WriteAgrees
      <4> QED
        BY <4>1, <4>2, <4>4 DEF AgreeInv
    <3>2. CASE \E changes : AsksSettings(Loaded(FALSE).profiles, changes)
      <4>1. PICK changes : AsksSettings(Loaded(FALSE).profiles, changes)
        BY <3>2
      <4>2. PICK asked : Saves(changes, Loaded(FALSE).profiles, asked)
        BY <4>1, SettingsSaves
      <4> QED
        BY <2>2, <3>1, <4>1, <4>2, SettingsAgree
    <3>3. CASE \E glitch \in BOOLEAN : \E r : Read(glitch) /\ AsksProfiles(Loaded(glitch).profiles, r)
      <4>1. PICK glitch \in BOOLEAN : \E r : Read(glitch) /\ AsksProfiles(Loaded(glitch).profiles, r)
        BY <3>3
      <4>2. PICK r : AsksProfiles(Loaded(glitch).profiles, r)
        BY <4>1
      <4>3. PICK asked : Saves(<<>>, r, asked)
        BY <4>2, ProfilesSaves
      <4> QED
        BY <2>2, <3>1, <4>2, <4>3, ProfilesAgree
    <3> QED
      BY <1>4, <3>2, <3>3, Steps
  <2> QED
    BY <2>1, <2>2
<1> QED
  BY <1>1, <1>2, <1>3, <1>4

\* Of two settings of one unit a profile has both or none.
LEMMA WholePreset ==
    ASSUME NEW v, IsWhole(v), "photo_preset" \in DOMAIN v \/ "image_scale" \in DOMAIN v
    PROVE  "photo_preset" \in DOMAIN v /\ "image_scale" \in DOMAIN v
<1>1. PICK u \in Units : u \subseteq DOMAIN v /\ ("photo_preset" \in u \/ "image_scale" \in u)
  BY DEF IsWhole, WholeUnits
<1>2. u = {"photo_preset", "image_scale"}
  BY <1>1 DEF Units
<1> QED
  BY <1>1, <1>2

LEMMA AgreeShows ==
    ASSUME NEW c, IsConfig(c), AgreesAll(c),
           NEW n \in {DEFAULT} \union {c.profiles[i].name : i \in DOMAIN c.profiles}
    PROVE  LET shown == Effective(c, n)
           IN shown.photo_preset \in DOMAIN PRESETS => shown.image_scale = PRESETS[shown.photo_preset]
<1>1. PICK v : v = Customised(c, n)
  OBVIOUS
<1>2. "photo_preset" \in Keys /\ "image_scale" \in Keys
  BY Schema DEF AllKeys
<1>3. PICK preset, scale : /\ preset = Effective(c, n)["photo_preset"]
                           /\ scale = Effective(c, n)["image_scale"]
  OBVIOUS
<1>4. /\ preset = IF "photo_preset" \in DOMAIN v THEN v["photo_preset"] ELSE c.base["photo_preset"]
      /\ scale = IF "image_scale" \in DOMAIN v THEN v["image_scale"] ELSE c.base["image_scale"]
  BY <1>1, <1>2, <1>3 DEF Effective
<1>5. Agrees(v) /\ IsWhole(v)
  <2>1. CASE n = DEFAULT
    <3>1. v = <<>> /\ DOMAIN <<>> = {}
      BY <1>1, <2>1 DEF Customised
    <3> QED
      BY <3>1, NothingIs DEF Agrees
  <2>2. CASE n # DEFAULT
    <3>1. IndexOf(c, n) \in DOMAIN c.profiles
      BY <2>2 DEF IndexOf
    <3>2. v = c.profiles[IndexOf(c, n)].values
      BY <1>1, <2>2 DEF Customised, Profile
    <3>3. \A i \in DOMAIN c.profiles : IsWhole(c.profiles[i].values)
      BY DEF IsConfig, IsGoodList, IsList
    <3> QED
      BY <3>1, <3>2, <3>3 DEF AgreesAll
  <2> QED
    BY <2>1, <2>2
<1>6. Agrees(c.base) /\ DOMAIN c.base = Keys
  BY DEF AgreesAll, IsConfig
<1>7. (preset = "small" => scale = 2) /\ (preset = "default" => scale = 4)
  BY <1>2, <1>4, <1>5, <1>6, WholePreset DEF Agrees
<1>8. /\ DOMAIN PRESETS = {"small", "default"}
      /\ PRESETS["small"] = 2 /\ PRESETS["default"] = 4
  BY DEF PRESETS
<1>9. preset \in DOMAIN PRESETS => scale = PRESETS[preset]
  BY <1>7, <1>8
<1> QED
  BY <1>3, <1>9

\* "the stored Settings can never say 'small' beside Default's scale" (config_store.py:1045-1047):
\* whatever is posted and whichever reads fail, no screen is shown a preset beside the scale of
\* another, of a file that nobody has edited.
THEOREM PresetsOwnTheirScales == Spec => []PresetOwnsItsScale
<1>1. Init => AgreeInv
  BY DEF Init, AgreeInv
<1>2. AgreeInv => PresetOwnsItsScale
  BY AgreeShows DEF AgreeInv, IsSettled, PresetOwnsItsScale
<1>3. Typed /\ AgreeInv /\ [Next]_vars => AgreeInv'
  BY AgreeStep
<1> QED
  BY <1>1, <1>2, <1>3, TypedInit, TypedStep, PTL DEF Spec

-----------------------------------------------------------------------------
(* SyncGate.                                                               *)

USE SyncGateAssumption DEF Threads, Mishaps

(* Every variable keeps its shape and JOB_LOCK belongs to the one thread   *)
(* that is inside run_sync, apply_settings or import_snapshot's locked     *)
(* part.                                                                   *)
THEOREM Typing == GateSpec => []TypeOK
<1>1. GateInit => TypeOK
  BY DEF GateInit, TypeOK, Configs, NoPlan, Holding, Running
<1>2. TypeOK /\ [GateNext]_gateVars => TypeOK'
  <2> SUFFICES ASSUME TypeOK, [GateNext]_gateVars PROVE TypeOK'
    OBVIOUS
  <2> USE DEF TypeOK, Goto, Take, Free, Holding, Running
  <2>1. ASSUME NEW t \in Threads,
               ClearBegins(t) \/ ClearEnds(t) \/ SyncLocks(t)
        PROVE  TypeOK'
    BY <2>1 DEF ClearBegins, ClearEnds, SyncLocks, disk, locals
  <2>2. ASSUME NEW t \in Threads,
               SyncBegins(t) \/ ReadCreds(t) \/ Fetch(t) \/ SyncTaps(t)
        PROVE  TypeOK'
    BY <2>2 DEF SyncBegins, ReadCreds, Fetch, SyncTaps, disk, locals
  <2>3. ASSUME NEW t \in Threads, Gate(t) PROVE TypeOK'
    BY <2>3 DEF Gate, SyncReturns, disk, locals
  <2>4. ASSUME NEW t \in Threads, RebuildBegins(t) \/ SyncEnds(t)
        PROVE  TypeOK'
    BY <2>4 DEF RebuildBegins, SyncEnds, SyncReturns, disk, locals
  <2>5. ASSUME NEW t \in Threads, NEW b \in Batches,
               ClearEntry(t, b) \/ WriteEntry(t, b) \/ RebuildRemoves(t, b)
        PROVE  TypeOK'
    BY <2>5 DEF ClearEntry, WriteEntry, RebuildRemoves, disk, locals
  <2>6. ASSUME NEW t \in Threads, SyncFails(t) PROVE TypeOK'
    BY <2>6 DEF SyncFails, SyncReturns, Happens, disk, locals
  <2>7. ASSUME NEW wanted \in BOOLEAN, NEW key \in BOOLEAN, Save(wanted, key)
        PROVE  TypeOK'
    <3>1. config' \in Configs
      BY <2>7 DEF Save, Configs
    <3>2. QED BY <2>7, <3>1 DEF Save, Happens, locals
  <2>8. ASSUME NEW wanted \in BOOLEAN, NEW key \in BOOLEAN,
               NEW keepSyncing \in BOOLEAN,
               ImportBegins(wanted, key, keepSyncing)
        PROVE  TypeOK'
    <3>1. plan' \in [wanted : BOOLEAN, key : {"clear", "fill", "leave"},
                     skip : BOOLEAN]
      BY <2>8 DEF ImportBegins
    <3>2. QED BY <2>8, <3>1 DEF ImportBegins, Happens, disk
  <2>9. ASSUME ImportStep PROVE TypeOK'
    <3>1. CASE ImportSettings
      <4>1. config' \in Configs
        BY <3>1 DEF ImportSettings, Configs
      <4>2. QED BY <3>1, <4>1 DEF ImportSettings, locals
    <3>2. CASE ImportRefused
      BY <3>2 DEF ImportRefused, NoPlan, disk
    <3>3. CASE ImportFiles
      BY <3>3 DEF ImportFiles, NoPlan
    <3>4. QED BY <2>9, <3>1, <3>2, <3>3 DEF ImportStep
  <2>10. ASSUME NEW now \in SUBSET Batches, BrewerEdits(now) PROVE TypeOK'
    BY <2>10 DEF BrewerEdits, Happens, disk, locals
  <2>11. ASSUME NEW new \in Configs, HandEdits(new) PROVE TypeOK'
    BY <2>11 DEF HandEdits, Happens, locals
  <2>12. ASSUME Crash PROVE TypeOK'
    BY <2>12 DEF Crash, Happens, NoPlan, disk
  <2>13. ASSUME UNCHANGED gateVars PROVE TypeOK'
    BY <2>13 DEF gateVars, disk, locals
  <2>14. QED
    BY <2>1, <2>2, <2>3, <2>4, <2>5, <2>6, <2>7, <2>8, <2>9, <2>10, <2>11,
       <2>12, <2>13 DEF GateNext, SyncStep
<1>3. QED BY <1>1, <1>2, PTL DEF GateSpec

-----------------------------------------------------------------------------
(* A thread that writes or rebuilds data/upcoming has JOB_LOCK, so nobody  *)
(* else touches the directory: what it has written is still there.         *)
RebuildInv ==
  \A t \in Threads :
    /\ pc[t] = "write"   => todo \subseteq keep /\ keep \ todo \subseteq entries
    /\ pc[t] = "rebuild" => keep \subseteq entries

(* What turned the previews off, when no hand, crash or import did, is a   *)
(* Save: it waits for JOB_LOCK, or has it, while there is anything to      *)
(* clear or anybody who writes.                                            *)
GateInv ==
  /\ pc[Loop] \in {"waitImport", "restore"} => hurt["import"] # 0
  /\ Unhurt({"hand", "crash", "import"}) /\ ~UpcomingWanted =>
       /\ entries # {} => pc[Loop] \in {"saveWait", "saveClear"}
       /\ \A t \in Threads : pc[t] = "write" => pc[Loop] = "saveWait"

(* A step changes data/upcoming only as the holder of JOB_LOCK.            *)
LEMMA RebuildInvNext ==
  ASSUME TypeOK, TypeOK', RebuildInv, [GateNext]_gateVars
  PROVE  RebuildInv'
<1> USE DEF TypeOK, RebuildInv, Goto, Take, Free, Holding
<1>1. ASSUME NEW t \in Threads,
             SyncBegins(t) \/ ClearBegins(t) \/ ClearEnds(t) \/ ReadCreds(t)
               \/ SyncLocks(t) \/ Fetch(t) \/ SyncTaps(t) \/ Gate(t)
      PROVE  RebuildInv'
  BY <1>1 DEF SyncBegins, ClearBegins, ClearEnds, ReadCreds, SyncLocks, Fetch,
              SyncTaps, Gate, SyncReturns, disk, locals
<1>2. ASSUME NEW t \in Threads,
             RebuildBegins(t) \/ SyncEnds(t) \/ SyncFails(t)
      PROVE  RebuildInv'
  BY <1>2 DEF RebuildBegins, SyncEnds, SyncFails, SyncReturns, disk, locals
<1>3. ASSUME NEW t \in Threads, NEW b \in Batches,
             ClearEntry(t, b) \/ WriteEntry(t, b) \/ RebuildRemoves(t, b)
      PROVE  RebuildInv'
  BY <1>3 DEF ClearEntry, WriteEntry, RebuildRemoves, locals
<1>4. ASSUME NEW wanted, NEW key, Save(wanted, key) PROVE RebuildInv'
  BY <1>4 DEF Save, locals
<1>5. ASSUME NEW wanted, NEW key, NEW keepSyncing,
             ImportBegins(wanted, key, keepSyncing)
      PROVE  RebuildInv'
  BY <1>5 DEF ImportBegins, disk
<1>6. ASSUME ImportStep PROVE RebuildInv'
  BY <1>6 DEF ImportStep, ImportSettings, ImportRefused, ImportFiles, disk,
              locals
<1>7. ASSUME Crash PROVE RebuildInv'
  BY <1>7 DEF Crash
<1>8. ASSUME NEW now, BrewerEdits(now) PROVE RebuildInv'
  BY <1>8 DEF BrewerEdits, disk, locals
<1>9. ASSUME NEW new, HandEdits(new) PROVE RebuildInv'
  BY <1>9 DEF HandEdits, locals
<1>10. CASE UNCHANGED gateVars
  BY <1>10 DEF gateVars, disk, locals
<1>11. QED
  BY <1>1, <1>2, <1>3, <1>4, <1>5, <1>6, <1>7, <1>8, <1>9, <1>10
     DEF GateNext, SyncStep

(* "Rebuilt, not merged", however syncs, Saves and imports interleave.     *)
THEOREM RebuildExact == GateSpec => RebuiltNotMerged
<1>1. GateInit => RebuildInv
  BY DEF GateInit, RebuildInv
<1>2. TypeOK /\ TypeOK' /\ RebuildInv /\ [GateNext]_gateVars => RebuildInv'
  BY RebuildInvNext
<1>3. RebuildInv => [\A t \in Threads : SyncEnds(t) => entries = keep]_gateVars
  BY DEF RebuildInv, SyncEnds
<1>4. QED BY Typing, <1>1, <1>2, <1>3, PTL DEF GateSpec, RebuiltNotMerged

LEMMA GateInvNext ==
  ASSUME TypeOK, TypeOK', GateInv, [GateNext]_gateVars
  PROVE  GateInv'
<1> USE DEF TypeOK, GateInv, Goto, Take, Free, Holding, Unhurt, UpcomingWanted
<1>1. ASSUME NEW t \in Threads,
             SyncBegins(t) \/ ClearBegins(t) \/ ClearEnds(t) \/ ReadCreds(t)
               \/ SyncLocks(t) \/ Fetch(t) \/ SyncTaps(t)
      PROVE  GateInv'
  BY <1>1 DEF SyncBegins, ClearBegins, ClearEnds, ReadCreds, SyncLocks, Fetch,
              SyncTaps, disk, locals
<1>2. ASSUME NEW t \in Threads,
             Gate(t) \/ RebuildBegins(t) \/ SyncEnds(t) \/ SyncFails(t)
      PROVE  GateInv'
  BY <1>2 DEF Gate, RebuildBegins, SyncEnds, SyncFails, SyncReturns, Happens,
              disk, locals
<1>3. ASSUME NEW t \in Threads, NEW b \in Batches,
             ClearEntry(t, b) \/ WriteEntry(t, b) \/ RebuildRemoves(t, b)
      PROVE  GateInv'
  BY <1>3 DEF ClearEntry, WriteEntry, RebuildRemoves, locals
<1>4. ASSUME NEW wanted \in BOOLEAN, NEW key \in BOOLEAN, Save(wanted, key)
      PROVE  GateInv'
  BY <1>4 DEF Save, Happens, Configs, locals
<1>5. ASSUME NEW wanted, NEW key, NEW keepSyncing,
             ImportBegins(wanted, key, keepSyncing)
      PROVE  GateInv'
  BY <1>5 DEF ImportBegins, Happens, disk
<1>6. ASSUME ImportStep PROVE GateInv'
  BY <1>6 DEF ImportStep, ImportSettings, ImportRefused, ImportFiles, disk,
              locals
<1>7. ASSUME Crash PROVE GateInv'
  BY <1>7 DEF Crash, Happens
<1>8. ASSUME NEW now, BrewerEdits(now) PROVE GateInv'
  BY <1>8 DEF BrewerEdits, Happens, disk, locals
<1>9. ASSUME NEW new, HandEdits(new) PROVE GateInv'
  BY <1>9 DEF HandEdits, Happens, locals
<1>10. CASE UNCHANGED gateVars
  BY <1>10 DEF gateVars, disk, locals
<1>11. QED
  BY <1>1, <1>2, <1>3, <1>4, <1>5, <1>6, <1>7, <1>8, <1>9, <1>10
     DEF GateNext, SyncStep

(* While nobody wants previews, data/upcoming is empty or about to be      *)
(* cleared by the Save that turned them off.                               *)
THEOREM GateStaysHonest == GateSpec => []GateHonest
<1>1. GateInit => GateInv
  BY DEF GateInit, GateInv
<1>2. TypeOK /\ TypeOK' /\ GateInv /\ [GateNext]_gateVars => GateInv'
  BY GateInvNext
<1>3. GateInv => GateHonest
  BY DEF GateInv, GateHonest
<1>4. QED BY Typing, <1>1, <1>2, <1>3, PTL DEF GateSpec
=============================================================================
