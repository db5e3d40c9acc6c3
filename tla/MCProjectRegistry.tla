------------------------- MODULE MCProjectRegistry -------------------------
(* Instances of ProjectRegistry for TLC. *)
EXTENDS ProjectRegistry

MCSlugs == <<"shop", "shop-1">>

\* Served with and without an additional hostname (the slug the other project may
\* get, and the name a user may give it), resource-only, a fixed and a floating PHP version, extensions.
MCConfigs ==
  { Config(TRUE, {"shop-1"}, Php("8.3", {"redis"}), FALSE),
    Config(TRUE, {}, Php(None, {}), TRUE),
    Config(FALSE, {"shop-1"}, None, FALSE) }

\* Three commands and edits together, in any mix.
ThreeChanges == commands + edits <= 3

\* The base name of both directories is the same: nothing tells them apart.
PathSymmetry == Permutations(Paths)
=============================================================================
