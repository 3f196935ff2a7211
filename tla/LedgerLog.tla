------------------------------ MODULE LedgerLog ------------------------------
(***************************************************************************)
(* What a ledger store promises (packages/ledger/src/store.ts): one log    *)
(* per principal, extended by one whole batch at a time, each accepted by  *)
(* the reducer in the state it extends.                                    *)
(*                                                                         *)
(* A batch is named by the request that planned it.  The reducer is        *)
(* represented by the two refusals that concurrent callers provoke: a      *)
(* request already in the log is refused (RESERVATION_EXISTS and its like) *)
(* and one that no longer fits is refused (INSUFFICIENT_AVAILABLE).        *)
(***************************************************************************)
EXTENDS Naturals, Sequences

CONSTANTS
    Requests,   \* the batches callers want committed
    Limit       \* how many fit

VARIABLE log

Committed == {log[i] : i \in 1 .. Len(log)}

Accepts(r) == r \notin Committed /\ Len(log) < Limit

LogInit == log = <<>>

AppendBatch(r) == Accepts(r) /\ log' = Append(log, r)

LogNext == \E r \in Requests : AppendBatch(r)

LogSpec == LogInit /\ [][LogNext]_log
=============================================================================
