-------------------------------- MODULE Sums --------------------------------
(***************************************************************************)
(* Finite sums, used by every module that states a conservation law.       *)
(*                                                                         *)
(* The sum is a recursive function over Nat and not one of the folds of    *)
(* the community modules: their defining equation is a fact with an        *)
(* operator parameter, which the installed provers cannot instantiate,     *)
(* while SumTo's equation is proved in SumsProofs.                         *)
(***************************************************************************)
EXTENDS Integers, Sequences

(***************************************************************************)
(* f[1] + ... + f[n], for a function (a sequence) f of integers.           *)
(***************************************************************************)
SumTo(f, n) ==
    LET sum[i \in Nat] == IF i = 0 THEN 0 ELSE sum[i - 1] + f[i] IN sum[n]
=============================================================================
