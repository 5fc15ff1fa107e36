--------------------------- MODULE MCDownLoadTool ---------------------------
EXTENDS DownLoadTool, TLC

Symmetry == Permutations(Tasks) \cup Permutations(Xfers)
              \cup Permutations(BgIds) \cup Permutations(Timers)
=============================================================================
