----------------------------- MODULE MCFileLock -----------------------------
(* The MCP server, with two instances of the project open, and a command   *)
(* of the CLI or a git hook.                                               *)
EXTENDS FileLock

MCInstances == {"mcp1", "mcp2", "cli"}
MCPids == {10, 20}
MCPidOf == [i \in MCInstances |-> IF i = "cli" THEN 20 ELSE 10]
============================================================================
