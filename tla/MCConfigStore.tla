--------------------------- MODULE MCConfigStore ----------------------------
(* Where the editors run: all in one server, or one of them at a shell.     *)
EXTENDS ConfigStore, TLC

CONSTANTS s, sh, a, b, x, y, z

Together == (a :> s) @@ (b :> s)
Apart    == (a :> s) @@ (b :> sh)

AnyHomes == {Together, Apart}
OneHome  == {Together}
=============================================================================
