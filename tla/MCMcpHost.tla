----------------------------- MODULE MCMcpHost -----------------------------
(* Two sessions that boot and share the host; the user of one of them.     *)
EXTENDS McpHost

CONSTANTS t1, t2
=============================================================================
