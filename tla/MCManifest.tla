------------------------------ MODULE MCManifest ------------------------------
EXTENDS Manifest, TLC
Symmetry == Permutations(Handles)
Compacting == {"note", "materialise", "rollup"}
Following  == {"note", "follow", "rollup"}
Shelving   == {"attach", "remove", "archive"}
OneByOne   == {Compacting, Following, Shelving}
JustReading == {Compacting}
=============================================================================
