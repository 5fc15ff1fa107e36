--------------------------- MODULE MCDownLoadTask ---------------------------
EXTENDS DownLoadTask, TLC

CONSTANTS u1, u2

\* The last components of the two addresses.
MCLastName == (u1 :> "a.zip") @@ (u2 :> "b.pdf")
=============================================================================
