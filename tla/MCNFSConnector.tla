----------------------------- MODULE MCNFSConnector -----------------------------
(* Small instances of NFSConnector for TLC: two files.                     *)
EXTENDS NFSConnector

MCFiles == 1 .. 2

=============================================================================
