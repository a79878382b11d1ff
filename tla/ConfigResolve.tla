--------------------------- MODULE ConfigResolve ---------------------------
(***************************************************************************)
(* Layered configuration: resolve() of crates/shellctl over the files of   *)
(* an image and of its consumers, which are edited at any time between two *)
(* resolutions.  A file is NoFile, Bad (unreadable, not the TOML of the    *)
(* schema, an unknown field or a value no enumeration has) or the record   *)
(* of what it sets.  Keys whose schema has a single value are left out.    *)
(***************************************************************************)
EXTENDS Integers, Sequences, SequencesExt

CONSTANTS
  DropIns,      \* file names in profile.d, numbered in lexical order
  TomlFiles,    \* those that end in .toml
  Patches,      \* contents of a profile or drop-in
  Defaults,     \* contents of defaults.toml
  Rules,        \* what a window rule can say
  ValidRules,   \* those with an app_id and without an empty title
  NoFile, Bad, Unset, Error

\* The types serde decodes into.
Modes == {"auto", "float"}
Configs == [schema_version : Nat, mode : Modes, maximum : Nat, wine : BOOLEAN,
            rules : Seq(Rules)]
ConfigPatches == [schema_version : Nat, mode : Modes \cup {Unset}, maximum : Nat \cup {Unset},
                  wine : BOOLEAN \cup {Unset}, rules : Seq(Rules)]

ASSUME FilesAssumption ==
  /\ DropIns \subseteq Nat /\ TomlFiles \subseteq DropIns
  /\ Defaults \subseteq Configs /\ Patches \subseteq ConfigPatches
  /\ {NoFile, Bad, Error} \cap (Patches \cup Defaults) = {} /\ NoFile # Bad
  /\ Error \notin Configs /\ Unset \notin Modes \cup Nat \cup BOOLEAN

VARIABLES
  defaults, builtin_profile, local_profile,
  profile_d,   \* the drop-ins
  listing      \* their names as the directory lists them

vars == <<defaults, builtin_profile, local_profile, profile_d, listing>>

-----------------------------------------------------------------------------
(* resolve(). *)

Usable(rules) == \A i \in DOMAIN rules : rules[i] \in ValidRules

validate_config(config) ==
  config.schema_version = 1 /\ config.maximum \in 1..6 /\ Usable(config.rules)

\* Mutant: the defaults are validated only with everything over them.
ParseDefaultsOnly(file) == IF file \in {NoFile, Bad} THEN Error ELSE file

parse_defaults(file) ==
  IF file \in {NoFile, Bad} \/ ~validate_config(file) THEN Error ELSE file

\* Mutant: a patch is validated as if it were a whole configuration.
ParseAsConfig(file) ==
  IF file = Bad \/ file.schema_version # 1 \/ ~Usable(file.rules) \/ file.maximum \notin 1..6
  THEN Error ELSE file

parse_patch(file) ==
  IF file = Bad \/ file.schema_version # 1 \/ ~Usable(file.rules) THEN Error ELSE file

Set(new, old) == IF new = Unset THEN old ELSE new

\* Mutant: the rules of a later layer come first.
RulesFirst(config, patch) ==
  [config EXCEPT !.mode = Set(patch.mode, @), !.maximum = Set(patch.maximum, @),
                 !.wine = Set(patch.wine, @), !.rules = patch.rules \o @]

apply_patch(config, patch) ==
  [config EXCEPT !.mode = Set(patch.mode, @), !.maximum = Set(patch.maximum, @),
                 !.wine = Set(patch.wine, @), !.rules = @ \o patch.rules]

\* A profile of the consumer hides the one of the image.
profile_path == IF local_profile # NoFile THEN local_profile ELSE builtin_profile

InDirectoryOrder(paths) == paths

\* Vec::sort of the collected paths, which are the names of different files.
sorted(paths) ==
  CHOOSE s \in [DOMAIN paths -> ToSet(paths)] :
    ToSet(s) = ToSet(paths) /\ \A i, j \in DOMAIN s : i < j => s[i] < s[j]

\* The entries of the directory that end in .toml.
collected ==
  LET paths[k \in 0..Len(listing)] ==
        IF k = 0 THEN << >>
        ELSE IF listing[k] \in TomlFiles THEN Append(paths[k - 1], listing[k])
        ELSE paths[k - 1]
  IN  paths[Len(listing)]

drop_in_paths == sorted(collected)

\* The first error ends the resolution.
Layer(config, file) ==
  IF config = Error \/ parse_patch(file) = Error THEN Error
  ELSE apply_patch(config, parse_patch(file))

\* The profile over the defaults, then one drop-in after the other.
layered(paths) ==
  LET upto[k \in 0..Len(paths)] ==
        IF k = 0 THEN Layer(parse_defaults(defaults), profile_path)
        ELSE Layer(upto[k - 1], profile_d[paths[k]])
  IN  upto[Len(paths)]

resolve ==
  IF profile_path = NoFile THEN Error
  ELSE LET config == layered(drop_in_paths)
       IN  IF config # Error /\ validate_config(config) THEN config ELSE Error

-----------------------------------------------------------------------------
(* The files. *)

Init ==
  /\ defaults \in Defaults \cup {Bad}
  /\ builtin_profile = NoFile /\ local_profile = NoFile
  /\ profile_d = [n \in DropIns |-> NoFile] /\ listing = << >>

Files == Patches \cup {Bad}

EditProfile ==
  /\ \/ builtin_profile' \in Files /\ UNCHANGED local_profile
     \/ local_profile' \in Files \cup {NoFile} /\ UNCHANGED builtin_profile
  /\ UNCHANGED <<defaults, profile_d, listing>>

\* A new name goes to any place of the directory.
AddDropIn(n) ==
  /\ profile_d[n] = NoFile
  /\ \E file \in Files : profile_d' = [profile_d EXCEPT ![n] = file]
  /\ \E i \in 1..(Len(listing) + 1) : listing' = InsertAt(listing, i, n)
  /\ UNCHANGED <<defaults, builtin_profile, local_profile>>

RemoveDropIn(n) ==
  /\ profile_d[n] # NoFile
  /\ profile_d' = [profile_d EXCEPT ![n] = NoFile]
  /\ \E i \in DOMAIN listing : listing[i] = n /\ listing' = RemoveAt(listing, i)
  /\ UNCHANGED <<defaults, builtin_profile, local_profile>>

Next == EditProfile \/ \E n \in DropIns : AddDropIn(n) \/ RemoveDropIn(n)

Spec == Init /\ [][Next]_vars

-----------------------------------------------------------------------------
(* Properties. *)

\* The files that count, by rank: 0 the defaults, 1 the profile, then the
\* drop-ins by name.
Ranks == {0, 1} \cup {n + 2 : n \in {m \in TomlFiles : profile_d[m] # NoFile}}
Content(rank) ==
  IF rank = 0 THEN defaults ELSE IF rank = 1 THEN profile_path ELSE profile_d[rank - 2]

Highest(ranks) == CHOOSE r \in ranks : \A q \in ranks : q <= r

\* docs/configuration.md:3: each key has the value of the highest layer that
\* sets it, in whatever order the directory lists the drop-ins (lib.rs:243).
HighestLayerWins ==
  resolve # Error =>
    /\ resolve.mode = Content(Highest({r \in Ranks : Content(r).mode # Unset})).mode
    /\ resolve.maximum = Content(Highest({r \in Ranks : Content(r).maximum # Unset})).maximum
    /\ resolve.wine = Content(Highest({r \in Ranks : Content(r).wine # Unset})).wine

\* layoutd lets the last matching rule win, so the order in which layers add
\* rules decides: the last rule is the last one of the highest layer that has
\* any, and no rule of any layer is lost (lib.rs:342).
HighestRuleWins ==
  LET ruling == {r \in Ranks : Content(r).rules # << >>}
  IN  resolve # Error /\ ruling # {} =>
        /\ Last(resolve.rules) = Last(Content(Highest(ruling)).rules)
        /\ \A r \in ruling : ToSet(Content(r).rules) \subseteq ToSet(resolve.rules)

\* A configuration is refused for a defect of a file that counts, never for
\* one that is hidden or not named .toml, nor for a maximum that a higher
\* layer corrects (lib.rs:244).
RefusedForADefect ==
  resolve = Error =>
    \/ profile_path = NoFile
    \/ \E r \in Ranks : Content(r) = Bad
    \/ \E r \in Ranks : Content(r).schema_version # 1 \/ ~Usable(Content(r).rules)
    \/ defaults.maximum \notin 1..6
    \/ Content(Highest({r \in Ranks : Content(r).maximum # Unset})).maximum \notin 1..6

\* A defect is never masked: the other files of an accepted configuration would
\* not hide a bad one, however low its layer and whatever the layers above set
\* instead; of the defaults that goes for the maximum too (lib.rs:244, 264).
NoDefectIsMasked ==
  resolve # Error =>
    /\ \A r \in Ranks : /\ Content(r) # Bad /\ Content(r).schema_version = 1
                       /\ Usable(Content(r).rules)
    /\ defaults.maximum \in 1..6
=============================================================================
