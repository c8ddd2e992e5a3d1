---------------------------- MODULE MCRunLifecycle ----------------------------
(***************************************************************************)
(* Instances of RunLifecycle for TLC.                                      *)
(***************************************************************************)
EXTENDS RunLifecycle, TLC

CONSTANTS r1, r2, p1, p2, k1, k2, k3, c1, c2

OneRun        == {r1}
OneParty      == {p1}
TwoPackages   == {k1, k2}
ThreePackages == {k1, k2, k3}

(* What a package finds, as a sequence of pairs.                           *)
TwoCandidates == {c1, c2}
Finding(s)    == [q \in TwoCandidates |-> Cardinality({i \in DOMAIN s : s[i] = q})]
Nothing       == {Finding(<< >>)}
OneOrBoth     == {Finding(<<c1>>), Finding(<<c1, c2>>)}
SomeTwice     == {Finding(<< >>), Finding(<<c1, c1>>), Finding(<<c1, c2>>)}
TheSame       == {Finding(<<c1>>)}

AnyPackage    == Permutations(Package)
AllFailures   == {"limit", "solver limit", "internal"}
AnyResultType == {"groups", "permutations", "similarity_scores"}
Everything    == Run \union {"project"}
==============================================================================
