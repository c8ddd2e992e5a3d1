----------------------------- MODULE MCRunScheduler -----------------------------
(***************************************************************************)
(* Instances of RunScheduler for TLC.                                      *)
(***************************************************************************)
EXTENDS RunScheduler

CONSTANTS r1, r2, p1, p2

OneRun     == {r1}
TwoRuns    == {r1, r2}
OneParty   == {p1}
TwoParties == {p1, p2}
AllSizings == {"agree", "bounds", "multiple", p1}
Everything == Run \union {"project"}
==============================================================================
