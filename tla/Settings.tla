------------------------------ MODULE Settings ------------------------------
(***************************************************************************)
(* config.json: the Default profile's Settings and the Display profiles,   *)
(* each of which customises whole units of them and follows the Default    *)
(* profile in the rest (config_store.py, admin_ops.py; ADR-0007).          *)
(*                                                                         *)
(* Settings stand for their kind: one bounded number (num_taps, venue-     *)
(* wide), a unit of a switch and a number (pagination), a unit of a preset *)
(* and the scale it owns (tap photo size), a switch alone, the two that    *)
(* hold text which is stripped and then cut (a label, and the names of the *)
(* ticked albums, a set as it is to photo_library.ready_photos), and a     *)
(* credential, which is never cut.  The file may be edited by hand into    *)
(* anything; every read brings it within bounds (_coerce), and so does     *)
(* every write, twice.  The routes run one at a time; what can go wrong    *)
(* between two reads of one request is a read that fails (a glitch).       *)
(***************************************************************************)
EXTENDS Integers, Sequences, FiniteSets, SequencesExt

CONSTANTS Names,        \* what a screen, a form or config.json may call a profile
          Canon,        \* normalize_profile_name: Names -> the canonical name, or NoName
          Submissions,  \* what the Settings form may post
          HandFiles,    \* what a person may leave in config.json
          MAX_OPS, MAX_GLITCHES,   \* bounds on the runs
          Junk, NoName, Absent, Damaged

VARIABLES file,      \* config.json: a Config, or Absent, or Damaged
          envKey,    \* whether the environment manages the credential
          answer,    \* the Settings the last write returned
          about,     \* the profiles the last step was about (not in the code)
          byHand,    \* whether a person has edited config.json (not in the code)
          ops, glitches

vars == <<file, envKey, answer, about, byHand, ops, glitches>>

DEFAULT == "default"
Profiles == {Canon[n] : n \in Names} \ {NoName}

---------------------------------------------------------------------------
\* The schema

BaseOnly == {"num_taps", "api_key"}                             \* NEVER_CUSTOMISABLE
Units == {{"paginate", "page_size"}, {"photo_preset", "image_scale"},
          {"show_upcoming"}, {"upcoming_label"},
         {"album_all", "album_selection"}}                     \* CUSTOMISABLE_UNITS
Keys == BaseOnly \union UNION Units

Numbers == {"num_taps", "page_size", "image_scale"}
Switches == {"paginate", "show_upcoming", "album_all"}

DEFAULT_CONFIG ==
    [num_taps |-> 0, api_key |-> "", paginate |-> FALSE, page_size |-> 2,
     photo_preset |-> "default", image_scale |-> 4,
     show_upcoming |-> FALSE, upcoming_label |-> "Coming up",
     album_all |-> TRUE, album_selection |-> {}]

SETTINGS_BOUNDS == [num_taps |-> <<0, 2>>, page_size |-> <<1, 3>>, image_scale |-> <<1, 4>>]
PRESETS == [small |-> 2, default |-> 4]      \* TAP_PHOTO_PRESETS, in quarters of the full size

\* What may be under a key: a value of its kind, or junk; what is no list of albums stands
\* for a list of junk.  (The literals are strings, which the provers are told by naming them.)
Literals == {"", "too long", "cut ", "cut", "Coming up", "junk", "small", "default", "custom"}
Texts == STRING \union Literals
Selections == SUBSET (Texts \union {Junk})
FieldValues(k) ==
    CASE k \in Numbers          -> {Junk} \union Int
      [] k \in Switches         -> {Junk} \union BOOLEAN
      [] k = "album_selection"  -> Selections
      [] OTHER                  -> {Junk} \union Texts
AnyValue == Int \union Texts \union BOOLEAN \union {Junk} \union Selections

\* A config.json that can be read has a part of the schema in it, a profile whole or in part.
IsFields(values) ==
    /\ DOMAIN values \subseteq Keys
    /\ values = [k \in DOMAIN values |-> values[k]]
    /\ \A k \in DOMAIN values : values[k] \in FieldValues(k)
IsStored(cfg) ==
    /\ cfg = [base |-> cfg.base, profiles |-> cfg.profiles] /\ IsFields(cfg.base)
    /\ Len(cfg.profiles) \in Nat /\ DOMAIN cfg.profiles = 1..Len(cfg.profiles)
    /\ \A i \in DOMAIN cfg.profiles :
          LET p == cfg.profiles[i]
          IN p.name \in Names /\ p.ua \in BOOLEAN /\ IsFields(p.values)
Written == [base : [Keys -> AnyValue],
            profiles : Seq([name : Names, values : UNION {[K -> AnyValue] : K \in SUBSET Keys}, ua : BOOLEAN])]

\* A canonical name is its own canonical name, and none is "default"; the form posts all of
\* the schema; a file that is absent or damaged is no config.
ASSUME SettingsAssumption ==
    /\ NoName \notin Names /\ DEFAULT \notin Profiles
    /\ Canon \in [Names -> Names \union {NoName}] /\ \A n \in Profiles : Canon[n] = n
    /\ \A posted \in Submissions : IsFields(posted) /\ DOMAIN posted = Keys
    /\ \A cfg \in HandFiles : IsStored(cfg)
    /\ Absent \notin Written /\ Damaged \notin Written
    /\ Junk \notin Int /\ Junk \notin Texts
    /\ MAX_OPS \in Nat /\ MAX_GLITCHES \in Nat

---------------------------------------------------------------------------
\* _coerce

Clamped(v, bounds) == IF v < bounds[1] THEN bounds[1] ELSE IF v > bounds[2] THEN bounds[2] ELSE v

Text(v) == IF v = Junk THEN "junk" ELSE v       \* str()

\* .strip()[:limit]: a text too long is cut, here just after a space, and the next time
\* it is coerced that space is stripped.
Cut(t) == CASE t = "too long" -> "cut " [] t = "cut " -> "cut" [] OTHER -> t

CoercedLabel(v) == IF v = "" THEN DEFAULT_CONFIG.upcoming_label ELSE Cut(v)

\* _coerce_album_selection: no blanks, and no name twice, though cutting may make two alike.
CoercedSelection(v) == {Cut(t) : t \in v \ {Junk}} \ {""}

PresetForScale(scale) ==
    IF \E p \in DOMAIN PRESETS : PRESETS[p] = scale
    THEN CHOOSE p \in DOMAIN PRESETS : PRESETS[p] = scale ELSE "custom"

\* A stored preset is trusted if there is one of the name; a missing one is read off the scale.
CoercedPreset(cfg, scale) ==
    CASE "photo_preset" \notin DOMAIN cfg                      -> PresetForScale(scale)
      [] "photo_preset" \in DOMAIN cfg /\ cfg.photo_preset \in DOMAIN PRESETS \union {"custom"}
                                                               -> cfg.photo_preset
      [] OTHER                                                 -> DEFAULT_CONFIG.photo_preset

Merged(cfg) == [k \in Keys |-> IF k \in DOMAIN cfg THEN cfg[k] ELSE DEFAULT_CONFIG[k]]

Coerced(cfg) ==
    LET merged == Merged(cfg)
        number(k) == IF merged[k] = Junk THEN DEFAULT_CONFIG[k] ELSE Clamped(merged[k], SETTINGS_BOUNDS[k])
    IN [k \in Keys |->
          CASE k \in Numbers             -> number(k)
            [] k = "photo_preset"        -> CoercedPreset(cfg, number("image_scale"))
            [] k = "upcoming_label"      -> CoercedLabel(Text(merged[k]))
            [] k = "album_selection"     -> CoercedSelection(merged[k])
            [] k = "api_key"             -> Text(merged[k])
            [] k \in Switches            -> merged[k] # FALSE]     \* bool(): junk is true

Only(f, keys) == [k \in keys |-> f[k]]
WholeUnits(values) == UNION {u \in Units : u \subseteq DOMAIN values}
CoercedProfile(values) == Only(Coerced(Only(values, WholeUnits(values))), WholeUnits(values))

\* Names that are no profile name are dropped; of two that differ in case only, the later's
\* values win in the place of the earlier.
PutProfile(out, p) ==
    LET n   == Canon[p.name]
        new == [name |-> n, values |-> CoercedProfile(p.values), ua |-> p.ua]
    IN IF n = NoName THEN out
       ELSE IF \E i \in DOMAIN out : out[i].name = n
            THEN [i \in DOMAIN out |-> IF out[i].name = n THEN new ELSE out[i]]
            ELSE Append(out, new)
CoercedProfiles(stored) ==
    LET upTo[i \in 0..Len(stored)] == IF i = 0 THEN <<>> ELSE PutProfile(upTo[i-1], stored[i])
    IN upTo[Len(stored)]

CoercedConfig(cfg) == [base |-> Coerced(cfg.base), profiles |-> CoercedProfiles(cfg.profiles)]

Defaults == [base |-> DEFAULT_CONFIG, profiles |-> <<>>]

\* load_config: never refuses.
Loaded(glitch) ==
    IF glitch \/ file = Damaged THEN Defaults
    ELSE IF file = Absent THEN Defaults ELSE CoercedConfig(file)

---------------------------------------------------------------------------
\* resolve_effective: what a screen is shown

Has(cfg, n) == \E i \in DOMAIN cfg.profiles : cfg.profiles[i].name = n
IndexOf(cfg, n) == CHOOSE i \in DOMAIN cfg.profiles : cfg.profiles[i].name = n
Profile(cfg, n) == cfg.profiles[IndexOf(cfg, n)]

\* A screen asks for a name (or for none), and its browser is one that a profile's
\* User-Agent text may match.
Screens == [asked : Names \union {NoName, DEFAULT}, tv : BOOLEAN]

ChosenProfile(cfg, s) ==
    LET matching == {i \in DOMAIN cfg.profiles : s.tv /\ cfg.profiles[i].ua} IN
    IF s.asked = DEFAULT THEN DEFAULT
    ELSE IF s.asked # NoName
         THEN IF Has(cfg, Canon[s.asked]) THEN Canon[s.asked] ELSE DEFAULT
    ELSE IF matching # {} THEN cfg.profiles[Min(matching)].name ELSE DEFAULT

Customised(cfg, n) == IF n = DEFAULT THEN <<>> ELSE Profile(cfg, n).values
Effective(cfg, n) ==
    [k \in Keys |-> IF k \in DOMAIN Customised(cfg, n) THEN Customised(cfg, n)[k] ELSE cfg.base[k]]

---------------------------------------------------------------------------
\* Writing

\* Mutant: the credentials of the form are written whatever the environment manages.
WritableAlways(changes) == changes

\* _drop_env_managed_credentials
Writable(changes) == Only(changes, DOMAIN changes \ (IF envKey THEN {"api_key"} ELSE {}))

Updated(base, changes) ==
    [k \in DOMAIN base |-> IF k \in DOMAIN changes THEN changes[k] ELSE base[k]]

\* Mutant: what was asked is returned instead of what was saved.
UpdateConfigEchoes(changes, profiles) ==
    LET cfg   == Loaded(FALSE)
        asked == [base |-> Updated(cfg.base, Writable(changes)), profiles |-> profiles]
    IN /\ file # Damaged
       /\ file' = CoercedConfig(asked)
       /\ answer' = asked

\* update_config, which refuses an unreadable file and coerces before save_config coerces again.
UpdateConfig(changes, profiles) ==
    LET cfg   == Loaded(FALSE)
        clean == CoercedConfig([base |-> Updated(cfg.base, Writable(changes)), profiles |-> profiles])
    IN /\ file # Damaged
       /\ file' = CoercedConfig(clean)
       /\ answer' = clean

\* Mutant: the sliders are saved beside whatever preset was picked.
ResolvedAsPosted(values) == values

\* _resolve_preset: a named preset owns its scale.
Resolved(values) ==
    IF "photo_preset" \notin DOMAIN values THEN values
    ELSE LET p == values.photo_preset IN
         IF p \in DOMAIN PRESETS
         THEN [values EXCEPT !.image_scale = PRESETS[p]] ELSE [values EXCEPT !.photo_preset = "custom"]

Operate(names) == ops < MAX_OPS /\ ops' = ops + 1 /\ about' = names
                  /\ UNCHANGED <<envKey, byHand>>

\* The first read of an operation, load_config's, may be the one that fails.
Read(glitch) ==
    IF glitch THEN glitches < MAX_GLITCHES /\ glitches' = glitches + 1 ELSE UNCHANGED glitches

\* admin_ops.save_settings, apply_settings: the Default profile's Save.
SaveSettings(posted) ==
    /\ Operate({DEFAULT}) /\ Read(FALSE)
    /\ UpdateConfig(Resolved(posted), Loaded(FALSE).profiles)

\* admin_ops._write_profiles, with the profiles the change made of the ones it read.
WriteProfiles(profiles) == UpdateConfig(<<>>, profiles)

CreateProfile(n, glitch) ==
    LET cfg == Loaded(glitch) IN
    /\ Operate({n}) /\ Read(glitch) /\ ~Has(cfg, n)
    /\ WriteProfiles(Append(cfg.profiles, [name |-> n, values |-> <<>>, ua |-> FALSE]))

RenamedProfile(p, old, new) == IF p.name = old THEN [p EXCEPT !.name = new] ELSE p
RenameProfile(old, new, glitch) ==
    LET cfg == Loaded(glitch) IN
    /\ Operate({old, new}) /\ Read(glitch) /\ Has(cfg, old) /\ (new # old => ~Has(cfg, new))
    /\ WriteProfiles([i \in DOMAIN cfg.profiles |-> RenamedProfile(cfg.profiles[i], old, new)])

DeleteProfile(n, glitch) ==
    LET cfg == Loaded(glitch) IN
    /\ Operate({n}) /\ Read(glitch) /\ Has(cfg, n)
    /\ WriteProfiles(RemoveAt(cfg.profiles, IndexOf(cfg, n)))

\* admin_ops.save_profile: exactly the units that are customised, from a full submission.
SavedValues(units, posted) == Resolved(Only(posted, UNION units))
SaveProfile(n, units, posted, ua, glitch) ==
    LET cfg == Loaded(glitch) IN
    /\ Operate({n}) /\ Read(glitch) /\ Has(cfg, n)
    /\ WriteProfiles([i \in DOMAIN cfg.profiles |->
                        IF cfg.profiles[i].name = n
                        THEN [name |-> n, values |-> SavedValues(units, posted), ua |-> ua]
                        ELSE cfg.profiles[i]])

\* load_config, run by whoever reads first, writes the defaults where there is no file.
FirstRead ==
    /\ file = Absent /\ file' = CoercedConfig(Defaults) /\ about' = {}
    /\ UNCHANGED <<envKey, answer, byHand, ops, glitches>>

\* A person edits, breaks or removes config.json.
HandEdit ==
    /\ ops < MAX_OPS /\ ops' = ops + 1
    /\ file' \in HandFiles \union {Absent, Damaged} /\ file' # file
    /\ about' = Profiles \union {DEFAULT} /\ byHand' = TRUE
    /\ UNCHANGED <<envKey, answer, glitches>>

Init ==
    /\ file = Absent /\ envKey \in BOOLEAN /\ answer = Defaults
    /\ about = {} /\ byHand = FALSE /\ ops = 0 /\ glitches = 0

Next ==
    \/ \E posted \in Submissions : SaveSettings(posted)
    \/ \E glitch \in BOOLEAN, n \in Profiles :
         \/ CreateProfile(n, glitch) \/ DeleteProfile(n, glitch)
         \/ \E new \in Profiles : RenameProfile(n, new, glitch)
         \/ \E units \in SUBSET Units, posted \in Submissions, ua \in BOOLEAN :
               SaveProfile(n, units, posted, ua, glitch)
    \/ FirstRead
    \/ HandEdit

Spec == Init /\ [][Next]_vars

---------------------------------------------------------------------------
\* Properties

\* What a setting loses on its way through one more write: the space that a text of it
\* was cut after.  (Not in the code.)
Trimmed(t) == IF t = "cut " THEN "cut" ELSE t
Stripped(k, x) ==
    CASE k = "upcoming_label"  -> Trimmed(x)
      [] k = "album_selection" -> {Trimmed(t) : t \in x}
      [] OTHER                 -> x

\* What a screen shows changes only by an operation on its own profile, or, in a setting its
\* profile follows, by a Save of the Default profile; and no Save changes a credential that
\* the environment manages.  This goes through every read and write of the whole file,
\* whatever a person had left in it (admin_ops.py:228-238, config_store.py:1019-1037).  The
\* one exception is the space after which a label or the name of a ticked album of theirs
\* was cut: a write strips it.
SavesTouchOnlyTheirOwn ==
    [][\A old \in {Loaded(FALSE)}, new \in {Loaded(FALSE)'}, s \in Screens :
          LET n == ChosenProfile(old, s)
              m == ChosenProfile(new, s)
          IN {n, m} \intersect about' \subseteq {DEFAULT} =>
                /\ m = n
                /\ \A k \in Keys :
                      \/ DEFAULT \in about' /\ k \notin DOMAIN Customised(old, n) /\ ~(k = "api_key" /\ envKey)
                      \/ about' = Profiles \union {DEFAULT}
                      \/ Effective(new, n)[k] = Effective(old, n)[k]
                      \/ Effective(new, n)[k] = Stripped(k, Effective(old, n)[k])]_vars

\* "callers must read the returned dict rather than assume": what a write returns is what
\* is on disk and what the next read gives, but for the space after which a text was cut:
\* a label or a ticked album's name is stripped of it again on its way to disk, where two
\* names may so become one (config_store.py:745-746, :823, :1019-1038).
Alike(a, b) == DOMAIN a = DOMAIN b /\ \A k \in DOMAIN a : b[k] = Stripped(k, a[k])
ReadBackAsSaved ==
    [][answer' # answer =>
          /\ file' = Loaded(FALSE)'
          /\ Alike(answer'.base, file'.base)
          /\ Len(answer'.profiles) = Len(file'.profiles)
          /\ \A i \in DOMAIN file'.profiles :
                /\ Alike(answer'.profiles[i].values, file'.profiles[i].values)
                /\ answer'.profiles[i].name = file'.profiles[i].name]_vars

\* "the stored Settings can never say 'small' beside Default's scale" (config_store.py:1045-1047),
\* in the Default profile and in every other, unless a person wrote it.
PresetOwnsItsScale ==
    ~byHand /\ file \notin {Absent, Damaged} =>
        \A n \in {DEFAULT} \union {file.profiles[i].name : i \in DOMAIN file.profiles} :
            LET shown == Effective(file, n)
            IN shown.photo_preset \in DOMAIN PRESETS => shown.image_scale = PRESETS[shown.photo_preset]

\* "so a transient read failure can never clobber the operator's saved settings with
\* defaults" (config_store.py:1022-1024): a change made while one read failed keeps every
\* profile the file had.
GlitchClobbersNothing ==
    [][glitches' # glitches /\ file \notin {Absent, Damaged} =>
          LET kept == CoercedProfiles(file.profiles)
          IN \A i \in DOMAIN kept : \E j \in DOMAIN file'.profiles : file'.profiles[j] = kept[i]]_vars
=============================================================================
