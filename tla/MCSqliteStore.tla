---------------------------- MODULE MCSqliteStore ----------------------------
(***************************************************************************)
(* Two processes on one file: two calls share the first, one call runs in  *)
(* the second.                                                             *)
(***************************************************************************)
EXTENDS SqliteStore

MCProcOf == [c \in Calls |-> IF c \in {"c1", "c2"} THEN "p" ELSE "q"]
=============================================================================
