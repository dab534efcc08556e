----------------------------- MODULE MCAcpClient -----------------------------
(* Small instances of AcpClient for TLC.                                      *)
EXTENDS AcpClient
=============================================================================
