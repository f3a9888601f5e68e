-------------------------------- MODULE MCMail --------------------------------
EXTENDS Mail, TLC
Symmetry == Permutations(Provisioners)
Trouble == {{"fail"}, {"slow"}, {"fail", "slow", "alone"}}
Quiet == {{"fail", "alone"}}
=============================================================================
