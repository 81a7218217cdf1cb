---- MODULE MCReleasePipeline ----
(* An instance of ReleasePipeline for TLC.                                   *)
EXTENDS ReleasePipeline, TLC

First == <<0, 1, 3>>

\* Each is above the one before it, by another component.
ThreeVersions == {First, <<0, 2, 0>>, <<1, 0, 1>>}

Symmetry == Permutations(Branches) \cup Permutations(Runs)
====
