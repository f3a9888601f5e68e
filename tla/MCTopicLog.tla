----------------------------- MODULE MCTopicLog -----------------------------
EXTENDS TopicLog, TLC
Symmetry == Permutations(Handles)
=============================================================================
