----------------------------- MODULE MCPortfolio -----------------------------
(***************************************************************************)
(* Two agents share cash and risk, in a HYBRID mandate with one atom of    *)
(* each preferred for each; the second agent has a maximum of its own for  *)
(* cash.  Its first proposal is larger than that, its next two are within  *)
(* it and share a sequence; the first agent's second one is inadmissible.  *)
(* The action of the first proposal may not compile, and that of the       *)
(* fourth may charge more than it declares.                                *)
(* Agents may release, repeat themselves, relay one another, or send a     *)
(* copy whose signature does not verify.                                   *)
(***************************************************************************)
EXTENDS Portfolio, TLC

Vector(cash, risk) == [cash |-> cash, risk |-> risk]

MCLimit == Vector(5, 3)
MCHardMax == <<[r \in {} |-> 0], [cash |-> 3]>>
MCPreferred == <<Vector(1, 1), Vector(1, 1)>>

Signed(agent, sequence, demand, minimum, utility, admissible) ==
    [agent |-> agent, sequence |-> sequence, demand |-> demand, minimum |-> minimum,
     utility |-> utility, admissible |-> admissible]

MCProposal ==
    <<Signed(1, 1, Vector(3, 2), Vector(1, 0), 5, TRUE),
      Signed(2, 1, Vector(4, 1), Vector(1, 0), 9, TRUE),
      Signed(2, 2, Vector(2, 2), Vector(1, 1), 7, TRUE),
      Signed(2, 2, Vector(1, 0), Vector(1, 0), 3, TRUE),
      Signed(1, 2, Vector(1, 0), Vector(1, 0), 3, FALSE)>>

MCMayCharge ==
    <<{Vector(3, 2), NoCharge}, {Vector(4, 1)}, {Vector(2, 2)}, {Vector(1, 0), Vector(3, 0)},
      {Vector(1, 0)}>>

MCRelease == <<[agent |-> 2, sequence |-> 1, amounts |-> Vector(1, 0)]>>

Propose(p) == [kind |-> "PROPOSE", id |-> p, authentic |-> TRUE]
Give(x) == [kind |-> "RELEASE", id |-> x, authentic |-> TRUE]
Unsigned(m) == [m EXCEPT !.authentic = FALSE]

MCSays ==
    <<{Propose(1), Propose(3), Propose(5), Unsigned(Propose(1)), Unsigned(Give(1))},
      {Propose(2), Propose(3), Propose(4), Give(1), Unsigned(Propose(3))}>>

RunSymmetry == Permutations(Runs)
=============================================================================
