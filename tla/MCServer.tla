------------------------------ MODULE MCServer ------------------------------
(* A finite instance of Server for TLC.                                     *)
EXTENDS Server

CONSTANTS user, auth

McContents == {{}, {user}}
=============================================================================
