------------------------- MODULE MCCertificateSync -------------------------
(* CertificateSync on a small instance: up to seven certificates of three years. *)
EXTENDS CertificateSync, TLC

MCYearOf == [c \in 1..MaxListed |-> IF c = 1 THEN 1 ELSE IF c <= 3 THEN 2 ELSE 3]

Symmetry == Permutations(Runners)
=============================================================================
