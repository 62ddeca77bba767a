---------------------------- MODULE MCDownloadLinks ----------------------------
(* Instances of DownloadLinks for TLC. *)
EXTENDS DownloadLinks, TLC

CONSTANTS p1, p2, q1, q2, k1, v1, i1, i2

LinksSymmetry == Permutations(Caller) \union Permutations(Id)

===============================================================================
