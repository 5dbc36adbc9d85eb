--------------------------- MODULE MCLoadPipeline ---------------------------
(* Datasets for model checking LoadPipeline: two versions of the same keys, *)
(* and one that overlaps them only partly (a rolling window).               *)
EXTENDS LoadPipeline, TLC

CONSTANTS k1, k2, k3

X == << <<k1, "x">>, <<k2, "x">> >>
Y == << <<k1, "y">>, <<k2, "y">> >>
Z == << <<k2, "z">>, <<k3, "z">> >>

TwoVersions  == {X, Y}
ThreeVersions == {X, Y, Z}
=============================================================================
