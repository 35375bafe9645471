---------------------------- MODULE MCCertificates ----------------------------
(* Certificates on one piece that changes hands once, for TLC. *)
EXTENDS Certificates, TLC
===============================================================================
