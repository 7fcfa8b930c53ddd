--------------------------- MODULE MCCertReloader ---------------------------
(* Overlapping handshakes and two rotations, for TLC. *)
EXTENDS CertReloader
=============================================================================
