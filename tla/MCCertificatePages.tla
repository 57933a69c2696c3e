------------------------- MODULE MCCertificatePages -------------------------
(* A small instance of CertificatePages. *)
EXTENDS CertificatePages

MCThree == 1..3
=============================================================================
