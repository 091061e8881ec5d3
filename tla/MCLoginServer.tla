--------------------------- MODULE MCLoginServer ---------------------------
(* Instances of LoginServer for TLC.                                       *)
EXTENDS LoginServer, TLC

(* Connections are interchangeable, and so are workers.                    *)
Symmetry == Permutations(Conns) \cup Permutations(Workers)

=============================================================================
