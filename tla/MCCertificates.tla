--------------------------- MODULE MCCertificates ---------------------------
(* Instances of Certificates for TLC: the proxy and a run of `nkl trust`.     *)
EXTENDS Certificates

CONSTANTS c, t1
=============================================================================
