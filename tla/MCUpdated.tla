----------------------------- MODULE MCUpdated -----------------------------
(* Updated on small instances.                                             *)
EXTENDS Updated, TLC

CONSTANTS f1, f2

MCFiles == {f1, f2}

MCPackage(signed, kind, ver) == [signed |-> signed, kind |-> kind, ver |-> ver]

\* One package of any sort next to a good one with an older version.
MCPackages ==
    f1 :> {MCPackage("good", "plain", 3), MCPackage("good", "cmd", 3),
           MCPackage("good", "norepo", 3), MCPackage("good", "post", 3),
           MCPackage("good", "pre", 3), MCPackage("bad", "plain", 3),
           MCPackage("garbage", "plain", 3), MCPackage("none", "plain", 3),
           MCPackage("none", "broken", 3)}
    @@ f2 :> {MCPackage("good", "plain", 2)}

\* Two good packages, in either order of their versions.
MCGoodPackages ==
    f1 :> {MCPackage("good", "plain", 3)} @@ f2 :> {MCPackage("good", "plain", 2)}
=============================================================================
