--------------------------- MODULE MCAuthorityLedger ---------------------------
(***************************************************************************)
(* Instances of AuthorityLedger for TLC.                                   *)
(*                                                                         *)
(* The lineage instance: a root, a child that drops the budget dimension,  *)
(* a grandchild that states it again with a larger limit than the root,    *)
(* and a child that widens its parent, which may never register.           *)
(***************************************************************************)
EXTENDS AuthorityLedger, TLC

CONSTANTS act1, act2, art1, art2

\* Two attempts can be admitted; nothing tells actions or artifacts apart.
MCSymmetry == Permutations({act1, act2}) \cup Permutations({art1, art2})

MCDims == {"budget", "epoch"}
MCDim == [d \in MCDims |->
    IF d = "budget"
    THEN [measure |-> "usd", restoration |-> "NONE", unit |-> 1, anchor |-> 0, length |-> 1]
    ELSE [measure |-> "usd", restoration |-> "EPOCH", unit |-> 1, anchor |-> 1, length |-> 1]]

MCGrants == {"root", "child", "grandchild", "wide"}
MCGrant ==
    [g \in MCGrants |->
        CASE g = "root" ->
               [parent |-> Root, issuer |-> "principal", holder |-> "a", modules |-> {"m"},
                depth |-> 2, notBefore |-> 0, expiresAt |-> 3, strict |-> 0,
                limit |-> [d \in {"budget", "epoch"} |-> IF d = "budget" THEN 3 ELSE 2]]
          [] g = "child" ->
               [parent |-> "root", issuer |-> "a", holder |-> "b", modules |-> {"m"},
                depth |-> 1, notBefore |-> 0, expiresAt |-> 3, strict |-> 0,
                limit |-> [d \in {} |-> 0]]
          [] g = "grandchild" ->
               [parent |-> "child", issuer |-> "b", holder |-> "b", modules |-> {"m"},
                depth |-> 0, notBefore |-> 0, expiresAt |-> 3, strict |-> 1,
                limit |-> [d \in {"budget"} |-> 4]]
          [] OTHER ->
               [parent |-> "child", issuer |-> "b", holder |-> "b", modules |-> {"m", "n"},
                depth |-> 0, notBefore |-> 0, expiresAt |-> 3, strict |-> 0,
                limit |-> [d \in {} |-> 0]]]

MCPolicies == {"p1"}
MCPolicy == [p \in MCPolicies |->
    [sequence |-> 1, strict |-> 0, limit |-> [d \in {} |-> 0]]]

MCContributions ==
    {<<[measure |-> "usd", atoms |-> 1, required |-> TRUE]>>,
     <<[measure |-> "usd", atoms |-> 1, required |-> TRUE],
       [measure |-> "usd", atoms |-> 1, required |-> FALSE]>>}

(***************************************************************************)
(* The policy instance: one root under three policies.  The second drops   *)
(* the budget ceiling and tightens the capacity ceiling; the third states  *)
(* the budget ceiling again.  The capacity counts in units of two.         *)
(***************************************************************************)
PolicyDims == {"budget", "capacity"}
PolicyDim == [d \in PolicyDims |->
    IF d = "budget"
    THEN [measure |-> "usd", restoration |-> "NONE", unit |-> 1, anchor |-> 0, length |-> 1]
    ELSE [measure |-> "usd", restoration |-> "CAPACITY", unit |-> 2, anchor |-> 0, length |-> 1]]

PolicyGrants == {"root"}
PolicyGrant == [g \in PolicyGrants |->
    [parent |-> Root, issuer |-> "principal", holder |-> "a", modules |-> {"m"},
     depth |-> 0, notBefore |-> 0, expiresAt |-> 2, strict |-> 0,
     limit |-> [d \in {"capacity"} |-> 6]]]

PolicyPolicies == {"p1", "p2", "p3"}
PolicyPolicy == [p \in PolicyPolicies |->
    CASE p = "p1" -> [sequence |-> 1, strict |-> 0, limit |-> [d \in PolicyDims |-> 8]]
      [] p = "p2" -> [sequence |-> 2, strict |-> 0, limit |-> [d \in {"capacity"} |-> 4]]
      [] OTHER -> [sequence |-> 3, strict |-> 0, limit |-> [d \in PolicyDims |-> 8]]]

PolicyContributions ==
    {<<[measure |-> "usd", atoms |-> 3, required |-> TRUE]>>,
     <<[measure |-> "usd", atoms |-> 4, required |-> TRUE]>>,
     <<[measure |-> "usd", atoms |-> 2, required |-> TRUE],
       [measure |-> "usd", atoms |-> 2, required |-> FALSE]>>}
=============================================================================
