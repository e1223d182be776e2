---------------------------- MODULE MCMcpRuntime ----------------------------
(* A small instance of McpRuntime: two tool calls and one of the doctor. *)
EXTENDS McpRuntime

CONSTANTS t1, t2, d1
=============================================================================
