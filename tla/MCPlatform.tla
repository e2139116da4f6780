----------------------------- MODULE MCPlatform ----------------------------
(***************************************************************************)
(* Platform with threads that make any number of calls.                    *)
(***************************************************************************)
EXTENDS Platform
=============================================================================
