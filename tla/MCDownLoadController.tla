------------------------ MODULE MCDownLoadController ------------------------
EXTENDS DownLoadController, TLC

Symmetry == Permutations(Tasks) \cup Permutations(Xfers)
=============================================================================
