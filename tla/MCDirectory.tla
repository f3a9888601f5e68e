----------------------------- MODULE MCDirectory ------------------------------
EXTENDS Directory, TLC
Symmetry == Permutations(Sessions)
OneByOne == {{"fail"}, {"read", "fail", "alone"}, {"operate", "read", "alone"}}
Watching == {{"read"}}
=============================================================================
