------------------------------ MODULE Recipes -------------------------------
(***************************************************************************)
(* The build recipes (pv-release/recipe.rs): what a recipe file must       *)
(* satisfy to be loaded, and the release that a build takes from it.       *)
(*                                                                         *)
(* A recipe is a record                                                    *)
(*   [kind, resources, platforms, default, revision, minimum, license,     *)
(*    notice, tracks, expected, default_extensions, optional, frankenphp]; *)
(* lists of the file are sequences, because duplicates matter.  A track is *)
(* [name, upstream, common, sources]: `common` tells whether it has one    *)
(* source for every platform, `sources` lists the platforms with a source  *)
(* of their own.  Names of tracks and upstream versions are sequences of   *)
(* numbers.  The syntax of single values (names, URLs, digests, relative   *)
(* paths, line breaks) is not modelled.                                    *)
(***************************************************************************)
EXTENDS Naturals, Sequences, SequencesExt

CONSTANTS NotLoaded, RequiredExtensions   \* REQUIRED_PHP_EXTENSIONS

NoDuplicates(list) == Cardinality(ToSet(list)) = Len(list)

-----------------------------------------------------------------------------
(* The header *)

parse_resource_list(recipe) == recipe.resources # <<>> /\ NoDuplicates(recipe.resources)
parse_platform_list(recipe) == recipe.platforms # <<>> /\ NoDuplicates(recipe.platforms)

validate_exact_file_list(files, expected) == files = <<expected>>
validate_required_file(files, required) == required \in ToSet(files)

\* PHP and Composer ship exactly the standard legal files, the others at least those.
RecipeHeader_from_raw(recipe) ==
  /\ parse_resource_list(recipe)
  /\ parse_platform_list(recipe)
  /\ IF recipe.kind \in {"php", "composer"}
     THEN /\ validate_exact_file_list(recipe.license, "LICENSE")
          /\ validate_exact_file_list(recipe.notice, "NOTICE")
     ELSE /\ validate_required_file(recipe.license, "LICENSE")
          /\ validate_required_file(recipe.notice, "NOTICE")

validate_exact_resources(recipe, expected) == ToSet(recipe.resources) = expected
validate_exact_platforms(recipe, expected) == ToSet(recipe.platforms) = expected

TrackNames(recipe) == {recipe.tracks[i].name : i \in 1..Len(recipe.tracks)}
UniqueTrackNames(recipe) == Cardinality(TrackNames(recipe)) = Len(recipe.tracks)

validate_default_track_exists(recipe) == recipe.default \in TrackNames(recipe)

-----------------------------------------------------------------------------
(* The PHP recipe *)

\* major.minor.patch under the track major.minor.
validate_php_track_version(track) ==
  Len(track.upstream) = 3 /\ track.name = SubSeq(track.upstream, 1, 2)

parse_php_tracks(recipe) ==
  /\ UniqueTrackNames(recipe)
  /\ \A i \in 1..Len(recipe.tracks) : validate_php_track_version(recipe.tracks[i])

validate_expected_extensions(recipe) == ToSet(recipe.expected) = RequiredExtensions

validate_build_extensions(recipe) ==
  recipe.default_extensions # <<>> /\ ToSet(recipe.default_extensions) \subseteq ToSet(recipe.expected)

validate_extension_list(extensions) == NoDuplicates(extensions)

validate_extension_lists_do_not_overlap(recipe) ==
  ToSet(recipe.default_extensions) \cap ToSet(recipe.optional) = {}

PhpSettings_from_raw(recipe) ==
  /\ validate_expected_extensions(recipe)
  /\ validate_extension_list(recipe.default_extensions)
  /\ validate_build_extensions(recipe)
  /\ validate_extension_list(recipe.optional)
  /\ validate_extension_lists_do_not_overlap(recipe)

PhpRecipe_from_raw(recipe) ==
  /\ validate_exact_resources(recipe, {"php", "frankenphp"})
  /\ validate_exact_platforms(recipe, {"darwin-arm64", "darwin-amd64"})
  /\ PhpSettings_from_raw(recipe)
  /\ parse_php_tracks(recipe)

-----------------------------------------------------------------------------
(* The Composer recipe and the recipes of the backing resources *)

ComposerRecipe_from_raw(recipe) ==
  /\ validate_exact_resources(recipe, {"composer"})
  /\ validate_exact_platforms(recipe, {"any"})
  /\ Len(recipe.tracks) = 1
  /\ recipe.tracks[1].name = <<2>>

\* One source for all, or exactly one for each platform of the recipe.
parse_backing_sources(recipe, track) ==
  \/ track.common /\ track.sources = <<>>
  \/ ~track.common /\ NoDuplicates(track.sources) /\ ToSet(track.sources) = ToSet(recipe.platforms)

parse_backing_tracks(recipe) ==
  /\ UniqueTrackNames(recipe)
  /\ \A i \in 1..Len(recipe.tracks) : parse_backing_sources(recipe, recipe.tracks[i])

BackingRecipe_from_raw(recipe) ==
  /\ validate_exact_resources(recipe, {recipe.kind})
  /\ validate_exact_platforms(recipe, {"darwin-arm64", "darwin-amd64"})
  /\ parse_backing_tracks(recipe)

\* Does the recipe load?
load(recipe) ==
  /\ RecipeHeader_from_raw(recipe)
  /\ CASE recipe.kind = "php"      -> PhpRecipe_from_raw(recipe)
       [] recipe.kind = "composer" -> ComposerRecipe_from_raw(recipe)
       [] OTHER                    -> BackingRecipe_from_raw(recipe)
  /\ validate_default_track_exists(recipe)

-----------------------------------------------------------------------------
(* What a build takes from a recipe *)

TrackNamed(recipe, name) ==
  LET i == CHOOSE j \in 1..Len(recipe.tracks) : recipe.tracks[j].name = name
  IN recipe.tracks[i]

\* FrankenPHP is released under the version of the PHP that it embeds and its own.
php_recipe_env(recipe, resource, track) ==
  IF resource = "frankenphp"
  THEN <<track.upstream, recipe.frankenphp>>
  ELSE <<track.upstream>>

composer_recipe_env(track) == <<track.upstream>>

source_for_platform(track, platform) == track.common \/ platform \in ToSet(track.sources)

backing_recipe_env(track) == <<track.upstream>>

\* The release asked for, NotLoaded when the recipe does not offer it.
recipe_env(recipe, resource, name, platform) ==
  IF ~(/\ load(recipe)
       /\ resource \in ToSet(recipe.resources)
       /\ name \in TrackNames(recipe)
       /\ platform \in ToSet(recipe.platforms)
       /\ recipe.kind \in {"php", "composer"} \/ source_for_platform(TrackNamed(recipe, name), platform))
  THEN NotLoaded
  ELSE LET track == TrackNamed(recipe, name)
           upstream == CASE recipe.kind = "php"      -> php_recipe_env(recipe, resource, track)
                         [] recipe.kind = "composer" -> composer_recipe_env(track)
                         [] OTHER                    -> backing_recipe_env(track)
       IN [resource |-> resource, track |-> name, platform |-> platform,
           version |-> <<upstream, recipe.revision>>, minimum |-> recipe.minimum]
=============================================================================
