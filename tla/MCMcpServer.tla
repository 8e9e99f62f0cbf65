---------------------------- MODULE MCMcpServer ----------------------------
(* Two resources and three tool calls, which may all be under way at once. *)
EXTENDS McpServer

CONSTANTS i1, i2, c1, c2, c3
=============================================================================
