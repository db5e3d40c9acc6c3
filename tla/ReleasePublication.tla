------------------------- MODULE ReleasePublication -------------------------
(***************************************************************************)
(* Releases: recipe builds, the publication of their artifacts and of PV   *)
(* itself to the bucket that every PV reads, and the installer script.     *)
(*                                                                         *)
(* The workflows are .github/workflows/artifact-recipes.yml,               *)
(* artifact-publication.yml, app-release.yml and app-publication.yml; the  *)
(* checks they run are pv-release's (publication.rs, app_publication.rs,   *)
(* app.rs, archive.rs, record.rs, fixture.rs).  A publication stages a     *)
(* plan from what the bucket holds and then uploads object by object; it   *)
(* may die between two uploads.  Each publication workflow runs one job at *)
(* a time (its concurrency group); the two run side by side.               *)
(***************************************************************************)
EXTENDS ArtifactManifest, Recipes

CONSTANTS
  Kinds,               \* the recipe files: "php", "composer" and backing resources
  Trees, FirstTree,    \* the commits: [recipes : [Kinds -> recipe], defaults]
  AppVersions,         \* versions of PV that may be released
  RequiredPlatforms,   \* required_native_platforms of the publication
  MaxRuns, MaxEdits, MaxRevocations, MaxFaults

VARIABLES
  tree,         \* the checked-out commit
  edits,        \* its number
  runs,         \* runs of the build workflows so far
  now,          \* the clock, in steps that published_at tells apart
  builds,       \* the finished runs of this commit: no other can be published
  bucket,       \* objects by key
  revocations,  \* objects under revocations/
  jobs,         \* per publication workflow the uploads it still has to make
  faults

vars == <<tree, edits, runs, now, builds, bucket, revocations, jobs, faults>>

\* Objects that are written once, and the entry points that are overwritten.
Immutable(name, id) == [name |-> name, id |-> id]
StableManifest == [name |-> "manifest.json", id |-> None]
StableInstaller == [name |-> "install.sh", id |-> None]
StableAppManifest == [name |-> "pv-app-manifest.json", id |-> None]
Stable == {StableManifest, StableInstaller, StableAppManifest}

Object(key) == IF key \in DOMAIN bucket THEN bucket[key] ELSE None
\* The release records of the bucket.
published_records == {bucket[key] : key \in {k \in DOMAIN bucket : k.name = "record"}}

-----------------------------------------------------------------------------
(* Recipe builds *)

\* What a recipe script packs: its digest, and what is wrong with it: several
\* top-level directories or unsafe paths, no legal files, other modules than the
\* record says, a program that does not run or hangs.
Defects == {"none", "layout", "legal", "modules", "smoke"}
Archive(digest, defect) == [digest |-> digest, defect |-> defect]
\* Only PHP's artifacts have modules.
Possible(defect, records) == defect = "modules" => \A r \in records : r.extensions # {}

archive_path_components(archive) == archive.defect # "layout"

validate_archive(archive) == archive_path_components(archive) /\ archive.defect # "legal"

verify_archive(record, archive) ==
  /\ record.digest = archive.digest
  /\ archive.defect # "modules"

run_smoke_hook_with_timeout(archive) == archive.defect # "smoke"

\* What every recipe script runs before it hands an archive over.
validate_archive_for_record_file_with_smoke_hook(record, archive) ==
  validate_archive(archive) /\ verify_archive(record, archive) /\ run_smoke_hook_with_timeout(archive)

validate_php_extensions(record) ==
  record.extensions # {} => resource_supports_php_extensions(record.resource)

ReleaseRecord_from_json(record) == validate_php_extensions(record) /\ record.resource \in Registry

\* The loadable modules belong to PHP's two artifacts.
write_release_record(env, extensions, at, digest) ==
  [resource |-> env.resource, track |-> env.track, version |-> env.version,
   platform |-> env.platform, minimum |-> env.minimum, at |-> at, digest |-> digest,
   extensions |-> extensions]

\* The release of a recipe as a record; the fixtures have one time and no modules.
Release(recipe, resource, track, platform, at, digest) ==
  LET env == recipe_env(recipe, resource, track, platform)
  IN write_release_record(env,
       IF recipe.kind = "php" /\ at > 0 THEN ToSet(recipe.optional) ELSE {}, at, digest)

generate_recipe_fixtures_with_backing(recipes) ==
  UNION {{Release(recipes[k], resource, track, platform, 0, 0) :
            resource \in ToSet(recipes[k].resources), track \in TrackNames(recipes[k]),
            platform \in ToSet(recipes[k].platforms)} : k \in DOMAIN recipes}

\* Mutant: the fixtures' manifest is not generated.
ValidateRecipesOnly(commit) == \A k \in Kinds : load(commit.recipes[k])

\* The job that every build of the workflow needs.
validate(commit) ==
  /\ \A k \in Kinds : load(commit.recipes[k])
  /\ generate_manifest_json(generate_recipe_fixtures_with_backing(commit.recipes), {},
                            commit.defaults) # None

\* The input platform `all` is the preview matrix; Composer is built once.
PlatformMatrix(kind, platform) ==
  IF kind = "composer" THEN {"any"} ELSE IF platform = "all" THEN {"darwin-arm64"} ELSE {platform}

\* A run of the recipes of the chosen tracks of each kind, and platform.  A failed
\* build leaves nothing that could be published.
BuildArtifacts(tracks, platform, at) ==
  LET run == runs + 1
      built == UNION {{Release(tree.recipes[k], resource, track, p, at, run) :
                         resource \in ToSet(tree.recipes[k].resources), track \in tracks[k],
                         p \in PlatformMatrix(k, platform)} : k \in DOMAIN tracks}
  IN /\ runs < MaxRuns
     /\ validate(tree)
     /\ \E defect \in {d \in Defects : Possible(d, built)} :
          /\ \A record \in built :
               /\ ReleaseRecord_from_json(record)
               /\ validate_archive_for_record_file_with_smoke_hook(record, Archive(run, defect))
          /\ builds' = builds \cup {[workflow |-> "Artifact Recipes", run |-> run, records |-> built,
                                    defect |-> defect, all |-> DOMAIN tracks = Kinds]}
     /\ now' = at
     /\ runs' = run
     /\ UNCHANGED <<tree, edits, bucket, revocations, jobs, faults>>

\* Somebody pushes a commit.
EditRecipes(commit) ==
  /\ edits < MaxEdits
  /\ commit # tree
  /\ tree' = commit
  /\ edits' = edits + 1
  /\ builds' = {}
  /\ UNCHANGED <<runs, now, bucket, revocations, jobs, faults>>

\* A maintainer uploads a revocation, checked against the published records.
Revoke(revocation) ==
  /\ Cardinality(revocations) < MaxRevocations
  /\ \A v \in revocations : target_key(v) # target_key(revocation)
  /\ generate_manifest_json(published_records, revocations \cup {revocation}, tree.defaults) # None
  /\ revocations' = revocations \cup {revocation}
  /\ UNCHANGED <<tree, edits, runs, now, builds, bucket, jobs, faults>>

-----------------------------------------------------------------------------
(* Publication of artifacts *)

validate_default_release_record_platform_matrix(defaults, records) ==
  \A resource \in DOMAIN defaults :
    LET platforms == {r.platform : r \in {s \in records : s.resource = resource /\ s.track = defaults[resource]}}
    IN IF resource = "composer" THEN "any" \in platforms ELSE RequiredPlatforms \subseteq platforms

validate_public_portable_track(track) ==
  LET selected == select_latest(track, "darwin-arm64")
  IN selected # None /\ selected.platform = "any"

selects_expected_platform(track, platform) ==
  LET selected == select_latest(track, platform)
  IN selected # None /\ selected.platform = platform

validate_public_manifest_platform_matrix(manifest) ==
  \A rt \in resource_tracks(manifest) :
    LET track == TrackOf(manifest, rt[1], rt[2])
    IN IF rt[1] = "composer"
       THEN validate_public_portable_track(track)
       ELSE \A platform \in RequiredPlatforms : selects_expected_platform(track, platform)

\* Mutant: the manifest lists the candidates only.
CandidatesOnly(published, candidates) == candidates
combine_manifest_records(published, candidates) == published \cup candidates

\* The candidates in the order of their paths.
CandidateSeq(candidates) == SetToSeq(candidates)

\* The archives of a run by release, one of them damaged on its way (or None).
ArchivesOf(build, damaged) ==
  [r \in build.records |-> Archive(IF r = damaged THEN 0 ELSE r.digest, build.defect)]

\* Mutant: every record before the archives.
RecordsBeforeArchives(run, candidates, archives, manifest) ==
  LET records == CandidateSeq(candidates)
      upload(name, i) == [key |-> Immutable(name, release_key(records[i])),
                          body |-> IF name = "record" THEN records[i] ELSE archives[records[i]]]
  IN [i \in 1..Len(records) |-> upload("record", i)] \o [i \in 1..Len(records) |-> upload("archive", i)]
     \o <<[key |-> Immutable("manifest", run), body |-> manifest],
          [key |-> StableManifest, body |-> manifest]>>

\* Archive and record of each candidate, the versioned manifest, the stable one.
publication_plan(run, candidates, archives, manifest) ==
  LET records == CandidateSeq(candidates)
      uploads == [i \in 1..Len(records) |->
                    <<[key |-> Immutable("archive", release_key(records[i])), body |-> archives[records[i]]],
                      [key |-> Immutable("record", release_key(records[i])), body |-> records[i]]>>]
  IN FlattenSeq(uploads) \o <<[key |-> Immutable("manifest", run), body |-> manifest],
                              [key |-> StableManifest, body |-> manifest]>>

\* The plan, or None when a check refuses.
prepare_publication(run, candidates, archives, published, revoked, defaults) ==
  LET manifest == generate_manifest_json(combine_manifest_records(published, candidates), revoked, defaults)
  IN IF /\ candidates # {}
        /\ \A c \in candidates : ReleaseRecord_from_json(c)
        /\ \A c \in candidates, p \in published : release_key(c) # release_key(p)
        /\ \A c \in candidates : validate_archive(archives[c]) /\ verify_archive(c, archives[c])
        /\ validate_default_release_record_platform_matrix(defaults, published \cup candidates)
        /\ manifest # None
        /\ validate_public_manifest_platform_matrix(manifest)
     THEN publication_plan(run, candidates, archives, manifest) ELSE None

\* The source run is a successful one of this commit.
StageArtifacts(build, damaged) ==
  /\ jobs["artifact"] = None
  /\ build.workflow = "Artifact Recipes"
  /\ LET plan == prepare_publication(build.run, build.records, ArchivesOf(build, damaged),
                                     published_records, revocations, tree.defaults)
     IN plan # None /\ jobs' = [jobs EXCEPT !["artifact"] = plan]
  /\ UNCHANGED <<tree, edits, runs, now, builds, bucket, revocations, faults>>

-----------------------------------------------------------------------------
(* PV itself *)

\* A run of app-release.yml: a binary and a record for every platform.
write_app_release_record(version, platform, run, at) ==
  [version |-> version, platform |-> platform, minimum |-> Min(AppVersions), at |-> at, digest |-> run]

BuildApp(version, platforms) ==
  LET run == runs + 1
  IN /\ runs < MaxRuns
     /\ runs' = run
     /\ builds' = builds \cup
          {[workflow |-> "PV App Release", run |-> run,
            records |-> {write_app_release_record(version, p, run, now) : p \in platforms},
            defect |-> "none", all |-> FALSE]}
     /\ UNCHANGED <<tree, edits, now, bucket, revocations, jobs, faults>>

\* The records of one release agree, one record for each platform.
validate_app_record_group(records) ==
  \A r, s \in records :
    /\ r.version = s.version /\ r.minimum = s.minimum /\ r.at = s.at
    /\ r.platform = s.platform => r = s

generate_app_manifest_json(records) ==
  IF records # {} /\ validate_app_record_group(records)
  THEN LET first == CHOOSE r \in records : TRUE
       IN [version |-> first.version, minimum |-> first.minimum, at |-> first.at,
           assets |-> {[platform |-> r.platform, digest |-> r.digest] : r \in records}]
  ELSE None

installer_asset(records, platform) ==
  LET found == {r \in records : r.platform = platform}
  IN IF found = {} THEN None ELSE (CHOOSE r \in found : TRUE).digest

generate_app_installer_script(records) ==
  LET manifest == generate_app_manifest_json(records)
  IN IF manifest = None THEN None
     ELSE [version |-> manifest.version,
           asset |-> [platform \in TargetPlatforms |-> installer_asset(records, platform)]]

\* Mutant: only the manifest tells the current version.
ManifestVersionOnly == IF Object(StableAppManifest) = None THEN 0 ELSE Object(StableAppManifest).version

\* The newer of the two entry points, 0 when there is none.
current_stable_app_version ==
  Max({0} \cup {Object(key).version : key \in {k \in {StableAppManifest, StableInstaller} : Object(k) # None}})

validate_candidate_is_not_older_than_current(records) ==
  \A r \in records : r.version >= current_stable_app_version

BinaryKey(version, platform) == Immutable("binary", <<version, platform>>)

\* The binary that was downloaded for a record, and the check of it.
BinaryOf(record, damaged) == IF record = damaged THEN 0 ELSE record.digest
verify_binary(record, damaged) == BinaryOf(record, damaged) = record.digest

app_publication_plan(run, records, damaged, manifest, installer) ==
  LET candidates == SetToSeq(records)
      uploads == [i \in 1..Len(candidates) |->
                    LET r == candidates[i]
                    IN <<[key |-> BinaryKey(r.version, r.platform), body |-> BinaryOf(r, damaged)],
                         [key |-> Immutable("app-record", <<r.version, r.platform>>), body |-> r]>>]
  IN FlattenSeq(uploads) \o
     <<[key |-> Immutable("app-manifest", run), body |-> manifest],
       [key |-> Immutable("installer", run), body |-> installer],
       [key |-> StableInstaller, body |-> installer],
       [key |-> StableAppManifest, body |-> manifest]>>

\* The workflow wants a binary for Apple silicon.
stage_app_publication(build, damaged) ==
  LET manifest == generate_app_manifest_json(build.records)
      installer == generate_app_installer_script(build.records)
  IN IF /\ "darwin-arm64" \in {r.platform : r \in build.records}
        /\ validate_candidate_is_not_older_than_current(build.records)
        /\ manifest # None
        /\ installer # None
        /\ \A r \in build.records : verify_binary(r, damaged)
     THEN app_publication_plan(build.run, build.records, damaged, manifest, installer) ELSE None

StageApp(build, damaged) ==
  /\ jobs["app"] = None
  /\ build.workflow = "PV App Release"
  /\ LET plan == stage_app_publication(build, damaged)
     IN plan # None /\ jobs' = [jobs EXCEPT !["app"] = plan]
  /\ UNCHANGED <<tree, edits, runs, now, builds, bucket, revocations, faults>>

-----------------------------------------------------------------------------
(* Uploads *)

\* The job of workflow w is at an end.
Ended(w) == jobs' = [jobs EXCEPT ![w] = None]

\* `if-none-match: *`.  Of PV's own objects one that is there with the same
\* content will do; of the artifacts' none will.
upload_immutable_object(w, upload) ==
  /\ upload.key \notin Stable
  /\ \/ /\ upload.key \notin DOMAIN bucket
        /\ bucket' = (upload.key :> upload.body) @@ bucket
        /\ jobs' = [jobs EXCEPT ![w] = Tail(@)]
     \/ /\ upload.key \in DOMAIN bucket
        /\ w = "app" /\ bucket[upload.key] = upload.body
        /\ jobs' = [jobs EXCEPT ![w] = Tail(@)]
        /\ UNCHANGED bucket
     \/ /\ upload.key \in DOMAIN bucket
        /\ ~(w = "app" /\ bucket[upload.key] = upload.body)
        /\ Ended(w)
        /\ UNCHANGED bucket

publish_stable(w, upload) ==
  /\ upload.key \in Stable
  /\ bucket' = (upload.key :> upload.body) @@ bucket
  /\ IF Len(jobs[w]) = 1 THEN Ended(w) ELSE jobs' = [jobs EXCEPT ![w] = Tail(@)]

UploadNext(w) ==
  /\ jobs[w] # None
  /\ upload_immutable_object(w, Head(jobs[w])) \/ publish_stable(w, Head(jobs[w]))
  /\ UNCHANGED <<tree, edits, runs, now, builds, revocations, faults>>

\* The job is cancelled, or an upload fails.
JobDies(w) ==
  /\ jobs[w] # None
  /\ faults < MaxFaults
  /\ faults' = faults + 1
  /\ Ended(w)
  /\ UNCHANGED <<tree, edits, runs, now, builds, bucket, revocations>>

\* What the installer looks for on a machine, and whether it accepts it.
select_asset(installer, platform) == installer.asset[platform]
verify_download(installer, platform) ==
  Object(BinaryKey(installer.version, platform)) = select_asset(installer, platform)

-----------------------------------------------------------------------------
Init ==
  /\ tree = FirstTree
  /\ edits = 0
  /\ runs = 0
  /\ now = 1
  /\ builds = {}
  /\ bucket = <<>>
  /\ revocations = {}
  /\ jobs = [w \in {"artifact", "app"} |-> None]
  /\ faults = 0

\* All tracks of a resource, or one of them.
TracksInput(kind) ==
  {TrackNames(tree.recipes[kind])} \cup {{t} : t \in TrackNames(tree.recipes[kind])}

Replacements(record) ==
  {None} \cup {r.version : r \in {s \in published_records : s.resource = record.resource}}

Next ==
  \/ \E platform \in {"all", "darwin-amd64"}, at \in {now, now + 1} :
       \/ BuildArtifacts([k \in Kinds |-> TrackNames(tree.recipes[k])], platform, at)
       \/ \E kind \in Kinds : \E tracks \in TracksInput(kind) :
            BuildArtifacts(kind :> tracks, platform, at)
  \/ \E commit \in Trees : EditRecipes(commit)
  \/ \E record \in published_records : \E replacement \in Replacements(record) :
       Revoke([resource |-> record.resource, track |-> record.track, version |-> record.version,
               platform |-> record.platform, replacement |-> replacement])
  \/ \E build \in builds : \E damaged \in build.records \cup {None} :
       StageArtifacts(build, damaged) \/ StageApp(build, damaged)
  \/ \E version \in AppVersions, platforms \in {{"darwin-arm64"}, TargetPlatforms} :
       BuildApp(version, platforms)
  \/ \E w \in DOMAIN jobs : UploadNext(w) \/ JobDies(w)

Spec == Init /\ [][Next]_vars

-----------------------------------------------------------------------------
(* Properties *)

\* What a manifest offers is there, and every track has something for every
\* platform that the publications promise.
ManifestInstalls(manifest) ==
  /\ \A a \in manifest.artifacts :
       LET archive == Object(Immutable("archive", release_key(a)))
       IN archive # None /\ archive = Archive(a.digest, "none")
  /\ \A rt \in resource_tracks(manifest), platform \in RequiredPlatforms :
       \E a \in TrackOf(manifest, rt[1], rt[2]) :
         ~a.revoked /\ a.platform \in {"any", platform}

\* Whatever publication died where, every manifest, installer and app manifest
\* that can be downloaded or was ever downloaded names objects
\* that are in the bucket with the digest it states.
ClientsCanInstall ==
  /\ \A key \in DOMAIN bucket : key.name \in {"manifest", "manifest.json"} => ManifestInstalls(bucket[key])
  /\ \A key \in DOMAIN bucket : key.name \in {"installer", "install.sh"} =>
       \A platform \in TargetPlatforms :
         select_asset(bucket[key], platform) # None => verify_download(bucket[key], platform)
  /\ \A key \in DOMAIN bucket : key.name \in {"app-manifest", "pv-app-manifest.json"} =>
       \A asset \in bucket[key].assets :
         Object(BinaryKey(bucket[key].version, asset.platform)) = asset.digest

\* A publication never takes an artifact out of the stable manifest, changes
\* what it says of it, or makes a revoked one available again.
NothingWithdrawn ==
  [][LET old == Object(StableManifest)
         new == Object(StableManifest)'
     IN old # None =>
          /\ new # None
          /\ \A a \in old.artifacts : \E b \in new.artifacts :
               /\ release_key(b) = release_key(a) /\ b.digest = a.digest
               /\ a.revoked => b.revoked]_vars

\* A complete build is one of all recipes that covers every track published so
\* far and is newer than all of them.
Complete(build) ==
  /\ build.workflow = "Artifact Recipes" /\ build.all
  /\ RequiredPlatforms \subseteq {r.platform : r \in build.records}
  /\ \A p \in published_records :
       \E r \in build.records : r.resource = p.resource /\ r.track = p.track
  /\ \A p \in published_records, r \in build.records : r.at > p.at /\ release_key(r) # release_key(p)

\* An archive whose record was never uploaded: no staging sees it.
Unrecorded(key) == key.name = "archive" /\ Immutable("record", key.id) \notin DOMAIN bucket

\* What interrupted publications and revocations leave behind does not block
\* releases: a complete build of recipes that passed the build workflow's checks
\* is never refused by the publication's, and every object its plan writes once is
\* still free, so that its uploads reach the stable manifest.  The one exception is
\* the workflow's: an archive that was uploaded without its record is refused as an
\* existing object, and only a new version or revision gets past it.
CompleteBuildPublishes ==
  \A build \in builds : Complete(build) =>
    LET plan == prepare_publication(build.run, build.records, ArchivesOf(build, None), published_records,
                                    revocations, tree.defaults)
    IN /\ plan # None
       /\ \A i \in DOMAIN plan :
            plan[i].key \in DOMAIN bucket => plan[i].key \in Stable \/ Unrecorded(plan[i].key)

\* Neither entry point of PV itself ever goes back to an older version, and the
\* installer is at least as new as the manifest that updates use.
AppNeverOlder ==
  [][/\ \A key \in {StableInstaller, StableAppManifest} :
          Object(key) # None => Object(key)' # None /\ Object(key)'.version >= Object(key).version
     /\ Object(StableAppManifest)' # None =>
          Object(StableInstaller)'.version >= Object(StableAppManifest)'.version]_vars
=============================================================================
