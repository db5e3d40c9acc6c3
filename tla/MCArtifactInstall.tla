------------------------- MODULE MCArtifactInstall -------------------------
(* Instances of ArtifactInstall for TLC. *)
EXTENDS ArtifactInstall

\* Up to four manifests: all new, FrankenPHP alone unchanged, and a revocation
\* that makes earlier versions the latest again.
AllVersions == <<[php |-> 1, frankenphp |-> 1, composer |-> 1],
                 [php |-> 2, frankenphp |-> 2, composer |-> 2],
                 [php |-> 3, frankenphp |-> 2, composer |-> 3],
                 [php |-> 1, frankenphp |-> 3, composer |-> 1]>>
MCVersion == SubSeq(AllVersions, 1, MaxEdition)
=============================================================================
