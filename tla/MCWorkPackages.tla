---- MODULE MCWorkPackages ----
(* Three data providers with up to two encodings each; two rows in one     *)
(* block of two providers already need splitting.                          *)
EXTENDS WorkPackages, TLC

CONSTANTS a, b
Names        == {a, b}
NameSymmetry == Permutations(Names)

ThreeProviders == {1, 2, 3}
TwoProviders   == {1, 2}
TwoTwoOne == [d \in ThreeProviders |-> IF d = 3 THEN 1 ELSE 2]
TwoEach   == [d \in TwoProviders |-> 2]

(* Every format is used by someone; "map" includes the uploads of          *)
(* "clknblocks".                                                           *)
MixedFormats == [d \in ThreeProviders |->
                    IF d = 2 THEN {"map", "clks", "binary"} ELSE {"clknblocks", "clks", "binary"}]
InRowOrder   == [d \in TwoProviders |-> {"clknblocks"}]
ByMap        == [d \in TwoProviders |-> {"map"}]
Unblocked    == [d \in TwoProviders |-> {"clks", "binary"}]

SomeSimilar == {{<<1, 0, 2, 0>>, <<1, 0, 2, 1>>, <<1, 1, 2, 0>>, <<2, 1, 3, 0>>}}
OneSimilar  == {{<<1, 0, 2, 0>>}}
===============================
