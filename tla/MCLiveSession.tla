---------------------------- MODULE MCLiveSession ---------------------------
(***************************************************************************)
(* Instances of LiveSession for TLC: two agents that share one resource.   *)
(***************************************************************************)
EXTENDS LiveSession

CONSTANTS a, b, cash

MCRoles == {a, b}
MCResources == {cash}
MCUses == [q \in MCResources |-> MCRoles]

\* Any two of the sizes 2 and 3 compete for the 3 that are left, and 3 is over a's own limit.
MCLimit == [q \in MCResources |-> 3]
MCOwn == [r \in MCRoles |-> IF r = a THEN 2 ELSE 3]
MCMinimum == [r \in MCRoles |-> 1]

=============================================================================
