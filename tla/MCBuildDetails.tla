--------------------------- MODULE MCBuildDetails ---------------------------
(***************************************************************************)
(* Instances of BuildDetails, and of RunAndLog in it, for TLC.             *)
(***************************************************************************)
EXTENDS BuildDetails

CONSTANTS stdout, stderr

BothStreams == {stdout, stderr}

ThreeAndOne == [s \in BothStreams |-> IF s = stdout THEN 3 ELSE 1]

SecondAndOnly == {<<stdout, 2>>, <<stderr, 1>>}

NoLongLine == {}
=============================================================================
