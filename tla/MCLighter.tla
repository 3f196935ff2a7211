------------------------------ MODULE MCLighter ------------------------------
(* LighterIssuance for TLC: two signer processes on one key, one issuing a  *)
(* resting order and the other an order that does not rest.                 *)
EXTENDS LighterIssuance

MCValidUntil == [r \in Records |-> 2]
MCOrderExpiry == [r \in Records |-> IF r = "rest" THEN 3 ELSE 0]
MCProcOf == [c \in Calls |-> IF c = "c1" THEN "p1" ELSE "p2"]
MCRecordOf == [c \in Calls |-> IF c = "c1" THEN "rest" ELSE "ioc"]
=============================================================================
