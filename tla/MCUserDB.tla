----------------------------- MODULE MCUserDB -----------------------------
(* Instances of UserDB for TLC.                                            *)
EXTENDS UserDB, TLC

(* Workers, users and passwords are interchangeable.                       *)
Symmetry == Permutations(Workers) \cup Permutations(Users) \cup Permutations(Pwds)

=============================================================================
