---------------------------- MODULE MCUDSListen -----------------------------
(* A finite instance of UDSListen for TLC.                                  *)
EXTENDS UDSListen
=============================================================================
