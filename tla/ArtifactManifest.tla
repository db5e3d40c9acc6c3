-------------------------- MODULE ArtifactManifest --------------------------
(***************************************************************************)
(* The artifact manifest as a value: how the release tool generates it     *)
(* from release records and revocations (pv-release/manifest.rs) and how   *)
(* every PV parses it and selects from it (resources/manifest.rs).         *)
(*                                                                         *)
(* A manifest is [minimum, defaults, artifacts]; an artifact is its release *)
(* record with a flag `revoked`.  Versions are pairs <<upstream, revision>>, *)
(* PV versions and timestamps numbers, names of tracks sequences of numbers. *)
(***************************************************************************)
EXTENDS Naturals, Sequences, FiniteSets, FiniteSetsExt, Functions

CONSTANTS None, PvVersion   \* the version of PV that parses

-----------------------------------------------------------------------------
(* Platforms and names *)

TargetPlatforms == {"darwin-arm64", "darwin-amd64"}

matches(artifact, target) == artifact.platform \in {"any", target}
is_exact(artifact) == artifact.platform # "any"

\* The canonical names of the registry.
Registry == {"php", "frankenphp", "composer", "redis", "mysql", "postgres", "mailpit", "rustfs"}

resource_supports_php_extensions(resource) == resource \in {"php", "frankenphp"}

-----------------------------------------------------------------------------
(* Selection in a track, a set of artifacts *)

TrackOf(manifest, resource, track) ==
  {a \in manifest.artifacts : a.resource = resource /\ a.track = track}

resource_tracks(manifest) == {<<a.resource, a.track>> : a \in manifest.artifacts}

\* Of every version the exact artifact, or else the portable one.
platform_selected_candidates(track, target) ==
  {a \in track :
     /\ matches(a, target)
     /\ is_exact(a) \/ ~\E b \in track : matches(b, target) /\ is_exact(b) /\ b.version = a.version}

\* A parsed track has no two candidates of the same time.
best_candidate(candidates) ==
  IF candidates = {} THEN None ELSE CHOOSE a \in candidates : \A b \in candidates : b.at <= a.at

\* The newest artifact that is not revoked.
select_latest(track, target) ==
  best_candidate({a \in platform_selected_candidates(track, target) : ~a.revoked})

-----------------------------------------------------------------------------
(* Parsing *)

validate_platform_specificity(track) ==
  \A a, b \in track : a.version = b.version => is_exact(a) = is_exact(b)

validate_unique_published_at_slots(track) ==
  \A target \in TargetPlatforms :
    \A a, b \in platform_selected_candidates(track, target) : a.at = b.at => a = b

ManifestArtifact_from_raw(artifact) ==
  artifact.extensions # {} => resource_supports_php_extensions(artifact.resource)

ManifestTrack_from_raw(track) ==
  /\ \A a, b \in track : a.version = b.version /\ a.platform = b.platform => a = b
  /\ \A a \in track : ManifestArtifact_from_raw(a)
  /\ validate_platform_specificity(track)
  /\ validate_unique_published_at_slots(track)

ManifestResource_from_raw(manifest, resource) ==
  LET tracks == {rt[2] : rt \in {x \in resource_tracks(manifest) : x[1] = resource}}
  IN /\ \A t \in tracks : ManifestTrack_from_raw(TrackOf(manifest, resource, t))
     /\ manifest.defaults[resource] \in tracks

\* Does PV `version` accept the manifest?
parse(manifest, version) ==
  /\ manifest.minimum <= version
  /\ \A rt \in resource_tracks(manifest) :
       rt[1] \in Registry /\ ManifestResource_from_raw(manifest, rt[1])

-----------------------------------------------------------------------------
(* Generation *)

\* The identity of a release, and of what a revocation names.
release_key(record) == <<record.resource, record.track, record.version, record.platform>>
target_key(revocation) == release_key(revocation)
replacement_key(revocation) ==
  <<revocation.resource, revocation.track, revocation.replacement, revocation.platform>>

validate_replacement(records, revocations, revocation) ==
  revocation.replacement # None =>
    /\ replacement_key(revocation) # target_key(revocation)
    /\ \E r \in records : release_key(r) = replacement_key(revocation)
    /\ ~\E other \in revocations : target_key(other) = replacement_key(revocation)

from_record(record, revocations) ==
  [f \in DOMAIN record \cup {"revoked"} |->
     IF f = "revoked" THEN \E v \in revocations : target_key(v) = release_key(record) ELSE record[f]]

ResourcesOf(records) == {r.resource : r \in records}
TracksOf(records, resource) == {r.track : r \in {s \in records : s.resource = resource}}

\* Explicit, or the only track there is.
HasDefaultTrack(records, defaults, resource) ==
  IF resource \in DOMAIN defaults
  THEN defaults[resource] \in TracksOf(records, resource)
  ELSE Cardinality(TracksOf(records, resource)) = 1

default_track_for_resource(records, defaults, resource) ==
  IF resource \in DOMAIN defaults
  THEN defaults[resource]
  ELSE CHOOSE t \in TracksOf(records, resource) : TRUE

validate_manifest_defaults(records, defaults) ==
  \A resource \in DOMAIN defaults : defaults[resource] \in TracksOf(records, resource)

\* The manifest, or None when the records do not make one.
generate_manifest_json(records, revocations, defaults) ==
  LET manifest == [minimum |-> Max({r.minimum : r \in records}),
                   defaults |-> [resource \in ResourcesOf(records) |->
                                   default_track_for_resource(records, defaults, resource)],
                   artifacts |-> {from_record(r, revocations) : r \in records}]
  IN IF /\ records # {}
        /\ \A v \in revocations : \E r \in records : release_key(r) = target_key(v)
        /\ \A v \in revocations : validate_replacement(records, revocations, v)
        /\ validate_manifest_defaults(records, defaults)
        /\ \A resource \in ResourcesOf(records) : HasDefaultTrack(records, defaults, resource)
        /\ parse(manifest, PvVersion)
     THEN manifest ELSE None
=============================================================================
