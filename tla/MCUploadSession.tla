---------------------------- MODULE MCUploadSession ----------------------------
(* Instances of UploadSession for TLC. *)
EXTENDS UploadSession, TLC

CONSTANTS c1, c2, k1, k2, x1, x2

ClientSymmetry == Permutations(Client)

\* Every snapshot gets an id of its own (Kopia): a retry of the same version gets
\* another one.
FreshSnapshots == [s \in Session |-> Source]

\* The bytes of all versions are equal and so are their ids (Xet).
EqualBytes == [s \in Session |-> {x1}]

===============================================================================
