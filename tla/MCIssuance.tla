----------------------------- MODULE MCIssuance ------------------------------
(***************************************************************************)
(* Two authorizations.  In the shared instance two processes issue the     *)
(* first while it is being closed, and one issues the second; in the       *)
(* recovery instance one process issues both.                              *)
(***************************************************************************)
EXTENDS Issuance

MCValidUntil == [r \in Records |-> 2]
MCProcOf == [c \in Calls |-> IF c = "c1" THEN "p" ELSE "q"]
MCRecordOf == [c \in Calls \cup Closers |-> IF c = "c3" THEN "s" ELSE "r"]

OneProcOf == [c \in Calls |-> "p"]
=============================================================================
