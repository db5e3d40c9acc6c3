------------------------ MODULE MCReleasePublication ------------------------
(* Instances of ReleasePublication for TLC. *)
EXTENDS ReleasePublication

Recipe(kind, resources, platforms, tracks) ==
  [kind |-> kind, resources |-> resources, platforms |-> platforms, default |-> tracks[1].name,
   revision |-> 1, minimum |-> 1, license |-> <<"LICENSE">>, notice |-> <<"NOTICE">>,
   tracks |-> tracks, expected |-> <<>>, default_extensions |-> <<>>, optional |-> <<>>, frankenphp |-> 1]
Track(name, upstream) == [name |-> name, upstream |-> upstream, common |-> TRUE, sources |-> <<>>]

Darwin == <<"darwin-arm64", "darwin-amd64">>
Php == [Recipe("php", <<"frankenphp", "php">>, Darwin, <<Track(<<8, 5>>, <<8, 5, 1>>)>>)
          EXCEPT !.expected = <<"curl", "intl">>, !.default_extensions = <<"curl">>, !.optional = <<"redis">>]
Composer == Recipe("composer", <<"composer">>, <<"any">>, <<Track(<<2>>, <<2, 8>>)>>)
Redis == Recipe("redis", <<"redis">>, Darwin, <<Track(<<8, 8>>, <<8, 8, 0>>)>>)

Tree(php, composer, redis) ==
  [recipes |-> [k \in {"php", "composer", "redis"} |->
                  CASE k = "php" -> php [] k = "composer" -> composer [] OTHER -> redis],
   defaults |-> [r \in {"php", "frankenphp", "composer", "redis"} |->
                   CASE r = "composer" -> <<2>> [] r = "redis" -> <<8, 8>> [] OTHER -> <<8, 5>>]]

Base == Tree(Php, Composer, Redis)
\* New revisions and versions, a second track, and commits that the checks of the
\* recipes refuse.
MCTrees ==
  { Base,
    Tree([Php EXCEPT !.revision = 2], [Composer EXCEPT !.revision = 2],
         [Redis EXCEPT !.revision = 2]),
    Tree([Php EXCEPT !.revision = 2], [Composer EXCEPT !.revision = 2],
         [Redis EXCEPT !.revision = 2, !.minimum = 3]),
    Tree([Php EXCEPT !.tracks = <<Track(<<8, 5>>, <<8, 4, 1>>)>>], Composer, Redis),
    Tree(Php, [Composer EXCEPT !.platforms = <<"any", "darwin-arm64">>], Redis),
    Tree(Php, Composer, [Redis EXCEPT !.tracks = Append(@, Track(<<9>>, <<9, 0, 0>>))]) }
=============================================================================
