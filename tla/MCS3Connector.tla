----------------------------- MODULE MCS3Connector -----------------------------
(* Small instances of S3Connector for TLC: three names in listing order,   *)
(* the second of a type that is not allowed.                               *)
EXTENDS S3Connector

MCObjects == 1 .. 3
MCAllowed == {1, 3}

=============================================================================
