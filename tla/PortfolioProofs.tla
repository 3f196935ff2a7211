--------------------------- MODULE PortfolioProofs ---------------------------
(***************************************************************************)
(* Portfolio, for every mandate, number of agents, set of messages, number *)
(* of rounds and of concurrent calls: the allocation book conserves every  *)
(* limit; the ledger refuses a verified child only when what its call read *)
(* is stale; a reduction target is the most there is; and the verifier     *)
(* agrees with the Room.                                                   *)
(***************************************************************************)
EXTENDS Portfolio, SumsProofs, FiniteSetTheorems

------------------------------------------------------------------------------
(* Books.                                                                   *)

BookTyped(b) ==
    /\ b = [allocated |-> b.allocated, committed |-> b.committed, lots |-> b.lots, log |-> b.log]
    /\ b.allocated \in [Agents -> [Resources -> Int]]
    /\ b.committed \in [Agents -> [Resources -> Int]]
    /\ b.lots \in Seq([Resources -> Int])

BookOK(b) == BookTyped(b) /\ BookInvariant(b)

\* What the agents of a book are allocated of r, together.
AllocatedSum(b, r) == SumTo([a \in Agents |-> b.allocated[a][r]], N)

(***************************************************************************)
(* A book of a valid mandate starts conserved.                             *)
(***************************************************************************)
LEMMA InitialBookOK == BookOK(InitialBook)
<1> DEFINE b == InitialBook
           left == [r \in Resources |-> Limit[r] - SumTo([a \in Agents |-> Preferred[a][r]], N)]
<1>1. /\ b.allocated = Preferred
      /\ b.committed = [a \in Agents |-> [r \in Resources |-> 0]]
      /\ b.lots = <<left>>
      /\ b = [allocated |-> b.allocated, committed |-> b.committed, lots |-> b.lots, log |-> b.log]
  BY DEF InitialBook
<1>2. \A r \in Resources : /\ SumTo([a \in Agents |-> Preferred[a][r]], N) \in Int
                           /\ left[r] \in Int /\ left[r] >= 0
  <2> TAKE r \in Resources
  <2>1. \A i \in 1 .. N : [a \in Agents |-> Preferred[a][r]][i] \in Int
    BY PortfolioAssumption DEF Agents, Vectors
  <2>2. SumTo([a \in Agents |-> Preferred[a][r]], N) \in Int
    <3> HIDE DEF left
    <3> QED BY <2>1, SumToInt, PortfolioAssumption
  <2>3. SumTo([a \in Agents |-> Preferred[a][r]], N) <= Limit[r]
    BY MandateAssumption DEF ValidMandate
  <2> DEFINE s == SumTo([a \in Agents |-> Preferred[a][r]], N)
  <2>4. left[r] = Limit[r] - s
    OBVIOUS
  <2>5. Limit[r] \in Nat
    BY PortfolioAssumption DEF Vectors
  <2> HIDE DEF left, s
  <2>6. s \in Int /\ s <= Limit[r]
    BY <2>2, <2>3 DEF s
  <2>7. left[r] \in Int /\ left[r] >= 0
    BY <2>4, <2>5, <2>6
  <2> QED
    BY <2>2, <2>7
<1>3. left \in [Resources -> Int]
  BY <1>2
<1> HIDE DEF b, left
<1>4. BookTyped(b)
  <2>1. b.lots \in Seq([Resources -> Int])
    BY <1>1, <1>3
  <2>2. b.allocated \in [Agents -> [Resources -> Int]]
    BY <1>1, PortfolioAssumption DEF Vectors
  <2>3. b.committed \in [Agents -> [Resources -> Int]]
    BY <1>1
  <2> QED
    BY <1>1, <2>1, <2>2, <2>3 DEF BookTyped
<1>5. ASSUME NEW r \in Resources
      PROVE  SumTo([a \in Agents |-> b.allocated[a][r]], N) + Pooled(b, r) = Limit[r]
  <2> DEFINE f == [i \in DOMAIN b.lots |-> b.lots[i][r]]
             s == SumTo([a \in Agents |-> Preferred[a][r]], N)
  <2>1. Len(b.lots) = 1 /\ f[1] = left[r]
    BY <1>1
  <2>2. SumTo(f, 0) = 0
    BY SumToEquation
  <2>3. SumTo(f, 1) = SumTo(f, 0) + f[1]
    BY SumToEquation
  <2>4. Pooled(b, r) = SumTo(f, 1)
    BY <2>1 DEF Pooled
  <2>5. SumTo([a \in Agents |-> b.allocated[a][r]], N) = s
    BY <1>1
  <2>6. left[r] = Limit[r] - s
    BY DEF left
  <2>7. s \in Int /\ Limit[r] \in Int /\ left[r] \in Int
    BY <1>2, PortfolioAssumption DEF Vectors
  <2> HIDE DEF f, s
  <2> QED
    BY <2>1, <2>2, <2>3, <2>4, <2>5, <2>6, <2>7
<1>6. ASSUME NEW a \in Agents, NEW r \in Resources
      PROVE  /\ b.committed[a][r] <= b.allocated[a][r]
             /\ b.allocated[a][r] <= IF Mode = "PREALLOCATED" THEN Preferred[a][r] ELSE AgentCap(a, r)
  <2>1. b.allocated[a][r] = Preferred[a][r] /\ b.committed[a][r] = 0 /\ Preferred[a][r] \in Nat
    BY <1>1, PortfolioAssumption DEF Vectors
  <2>2. CASE r \in DOMAIN HardMax[a]
    BY <2>1, <2>2, MandateAssumption DEF ValidMandate, AgentCap
  <2>3. CASE r \notin DOMAIN HardMax[a]
    <3> DEFINE f == [x \in Agents |-> Preferred[x][r]]
    <3>1. \A i \in 1 .. N : f[i] \in Nat
      BY PortfolioAssumption DEF Agents, Vectors
    <3>2. f[a] = Preferred[a][r] /\ a \in 1 .. N /\ SumTo(f, N) <= Limit[r] /\ N \in Nat
      BY MandateAssumption, PortfolioAssumption DEF ValidMandate, Agents
    <3>3. Limit[r] \in Nat
      BY PortfolioAssumption DEF Vectors
    <3> HIDE DEF f
    <3>4. f[a] <= SumTo(f, N) /\ SumTo(f, N) \in Nat
      BY <3>1, <3>2, SumToNat
    <3> QED
      BY <2>1, <2>3, <3>2, <3>3, <3>4 DEF AgentCap
  <2> QED
    BY <2>2, <2>3
<1>7. \A i \in DOMAIN b.lots : \A r \in Resources : b.lots[i][r] >= 0
  <2>1. DOMAIN b.lots = {1} /\ b.lots[1] = left
    BY <1>1
  <2> QED
    BY <2>1, <1>2
<1> QED
  BY <1>4, <1>5, <1>6, <1>7 DEF BookOK, BookInvariant, b

(***************************************************************************)
(* A commitment the book admits keeps it conserved.                        *)
(***************************************************************************)
LEMMA CommittedOK ==
    ASSUME NEW b, BookOK(b), NEW op, op.agent \in Agents, op.amounts \in Vectors, MayCommit(b, op)
    PROVE  BookOK(Committed(b, op))
<1> DEFINE c == Committed(b, op)
           e == [b.committed EXCEPT ![op.agent] = [r \in Resources |-> @[r] + op.amounts[r]]]
<1>1. /\ c.allocated = b.allocated
      /\ c.committed = e
      /\ c.lots = b.lots
      /\ c = [allocated |-> c.allocated, committed |-> c.committed, lots |-> c.lots, log |-> c.log]
  <2>1. c = [b EXCEPT !.committed = e, !.log = Append(@, op)]
    BY DEF Committed
  <2>2. b = [allocated |-> b.allocated, committed |-> b.committed, lots |-> b.lots, log |-> b.log]
    BY DEF BookOK, BookTyped
  <2> HIDE DEF c, e
  <2>3. c = [allocated |-> b.allocated, committed |-> e, lots |-> b.lots, log |-> Append(b.log, op)]
    BY <2>1, <2>2
  <2> QED
    BY <2>3
<1>2. e \in [Agents -> [Resources -> Int]]
  BY DEF BookOK, BookTyped, Vectors
<1>3. \A a \in Agents : \A r \in Resources : e[a][r] <= b.allocated[a][r]
  BY DEF BookOK, BookTyped, BookInvariant, Vectors, MayCommit
<1> HIDE DEF c, e
<1>4. BookTyped(c)
  BY <1>1, <1>2 DEF BookOK, BookTyped
<1>5. \A r \in Resources : Pooled(c, r) = Pooled(b, r)
  BY <1>1 DEF Pooled
<1>6. BookInvariant(c)
  BY <1>1, <1>3, <1>5 DEF BookOK, BookInvariant
<1> QED
  BY <1>4, <1>6 DEF BookOK, c

(***************************************************************************)
(* A release the book admits moves what it releases to a lot of its own.   *)
(***************************************************************************)
LEMMA ReleasedOK ==
    ASSUME NEW b, BookOK(b), NEW op, op.agent \in Agents, op.amounts \in Vectors, MayRelease(b, op)
    PROVE  BookOK(Released(b, op))
<1> DEFINE c == Released(b, op)
           e == [b.allocated EXCEPT ![op.agent] = [r \in Resources |-> @[r] - op.amounts[r]]]
           l == Append(b.lots, op.amounts)
<1>1. /\ c.allocated = e
      /\ c.committed = b.committed
      /\ c.lots = l
      /\ c = [allocated |-> c.allocated, committed |-> c.committed, lots |-> c.lots, log |-> c.log]
  <2>1. c = [b EXCEPT !.allocated = e, !.lots = l, !.log = Append(@, op)]
    BY DEF Released
  <2>2. b = [allocated |-> b.allocated, committed |-> b.committed, lots |-> b.lots, log |-> b.log]
    BY DEF BookOK, BookTyped
  <2> HIDE DEF c, e, l
  <2>3. c = [allocated |-> e, committed |-> b.committed, lots |-> l, log |-> Append(b.log, op)]
    BY <2>1, <2>2
  <2> QED
    BY <2>3
<1>2. e \in [Agents -> [Resources -> Int]]
  BY DEF BookOK, BookTyped, Vectors
<1>3. \A a \in Agents : \A r \in Resources :
         b.committed[a][r] <= e[a][r] /\ e[a][r] <= b.allocated[a][r]
  BY DEF BookOK, BookTyped, BookInvariant, Vectors, MayRelease, Unused
<1>4. op.amounts \in [Resources -> Int] /\ \A r \in Resources : op.amounts[r] >= 0
  BY DEF Vectors
<1>5. /\ Len(b.lots) \in Nat
      /\ Len(l) = Len(b.lots) + 1
      /\ l \in Seq([Resources -> Int])
      /\ DOMAIN b.lots = 1 .. Len(b.lots)
      /\ DOMAIN l = 1 .. (Len(b.lots) + 1)
      /\ \A i \in 1 .. Len(b.lots) : l[i] = b.lots[i]
      /\ l[Len(b.lots) + 1] = op.amounts
  BY <1>4 DEF BookOK, BookTyped
<1>6. ASSUME NEW r \in Resources
      PROVE  /\ AllocatedSum(c, r) = AllocatedSum(b, r) - op.amounts[r]
             /\ AllocatedSum(b, r) \in Int
  <2> DEFINE f == [a \in Agents |-> b.allocated[a][r]]
             g == [a \in Agents |-> e[a][r]]
  <2>1. /\ \A i \in 1 .. N : f[i] \in Int /\ g[i] \in Int
        /\ \A i \in 1 .. N : i # op.agent => g[i] = f[i]
        /\ g[op.agent] - f[op.agent] = - op.amounts[r]
    <3>1. b.allocated \in [Agents -> [Resources -> Int]] /\ op.amounts[r] \in Int
      BY <1>4 DEF BookOK, BookTyped
    <3>2. \A i \in Agents : f[i] = b.allocated[i][r] /\ g[i] = e[i][r]
      OBVIOUS
    <3>3. \A i \in Agents : e[i][r] = IF i = op.agent THEN b.allocated[i][r] - op.amounts[r]
                                                     ELSE b.allocated[i][r]
      BY <3>1
    <3>4. \A i \in Agents : b.allocated[i][r] \in Int
      BY <3>1
    <3> HIDE DEF f, g, e, c
    <3>5. \A i \in Agents : f[i] \in Int /\ g[i] \in Int
      BY <3>1, <3>2, <3>3, <3>4
    <3>6. \A i \in Agents : i # op.agent => g[i] = f[i]
      BY <3>2, <3>3
    <3>7. g[op.agent] - f[op.agent] = - op.amounts[r]
      BY <3>1, <3>2, <3>3, <3>4
    <3> QED
      BY <3>5, <3>6, <3>7 DEF Agents
  <2>2. op.agent \in 1 .. N /\ N \in Nat
    BY PortfolioAssumption DEF Agents
  <2>3. AllocatedSum(b, r) = SumTo(f, N) /\ AllocatedSum(c, r) = SumTo(g, N)
    BY <1>1 DEF AllocatedSum
  <2> HIDE DEF f, g, c, e, l
  <2>4. SumTo(g, N) = SumTo(f, N) + (g[op.agent] - f[op.agent])
    <3> DEFINE k == op.agent
    <3>1. N \in Nat /\ k \in 1 .. N
      BY <2>2
    <3>2. \A i \in 1 .. N : f[i] \in Int /\ g[i] \in Int
      BY <2>1
    <3>3. \A i \in 1 .. N : i # k => g[i] = f[i]
      BY <2>1
    <3> HIDE DEF k
    <3>4. SumTo(g, N) = SumTo(f, N) + (g[k] - f[k])
      BY <3>1, <3>2, <3>3, SumToUpdate, Zenon
    <3> QED
      BY <3>4 DEF k
  <2>5. SumTo(f, N) \in Int
    BY <2>1, <2>2, SumToInt
  <2> QED
    BY <2>1, <2>3, <2>4, <2>5, <1>4
<1>7. ASSUME NEW r \in Resources
      PROVE  /\ Pooled(c, r) = Pooled(b, r) + op.amounts[r]
             /\ Pooled(b, r) \in Int
  <2> DEFINE f == [i \in DOMAIN b.lots |-> b.lots[i][r]]
             g == [i \in DOMAIN l |-> l[i][r]]
  <2> HIDE DEF c, e, l
  <2>1. /\ \A i \in 1 .. Len(b.lots) : g[i] = f[i]
        /\ g[Len(b.lots) + 1] = op.amounts[r]
    BY <1>5
  <2>2. \A i \in 1 .. Len(b.lots) : f[i] \in Int
    BY DEF BookOK, BookTyped
  <2>3. Pooled(b, r) = SumTo(f, Len(b.lots)) /\ Pooled(c, r) = SumTo(g, Len(b.lots) + 1)
    BY <1>1, <1>5 DEF Pooled
  <2> HIDE DEF f, g
  <2>4. SumTo(g, Len(b.lots) + 1) = SumTo(f, Len(b.lots)) + g[Len(b.lots) + 1]
    BY <2>1, <1>5, SumToAppend
  <2>5. SumTo(f, Len(b.lots)) \in Int
    BY <2>2, <1>5, SumToInt
  <2> QED
    BY <2>1, <2>3, <2>4, <2>5
<1> HIDE DEF c, e, l
<1>8. BookTyped(c)
  BY <1>1, <1>2, <1>5 DEF BookOK, BookTyped
<1>9. ASSUME NEW r \in Resources PROVE AllocatedSum(c, r) + Pooled(c, r) = Limit[r]
  <2>1. AllocatedSum(b, r) + Pooled(b, r) = Limit[r]
    BY DEF BookOK, BookInvariant, AllocatedSum
  <2> QED
    BY <2>1, <1>4, <1>6, <1>7
<1>10. ASSUME NEW a \in Agents, NEW r \in Resources
       PROVE  /\ c.committed[a][r] <= c.allocated[a][r]
              /\ c.allocated[a][r] <= IF Mode = "PREALLOCATED" THEN Preferred[a][r] ELSE AgentCap(a, r)
  <2>1. b.allocated[a][r] <= IF Mode = "PREALLOCATED" THEN Preferred[a][r] ELSE AgentCap(a, r)
    BY DEF BookOK, BookInvariant
  <2>2. /\ (IF Mode = "PREALLOCATED" THEN Preferred[a][r] ELSE AgentCap(a, r)) \in Int
        /\ b.allocated[a][r] \in Int /\ e[a][r] \in Int
    BY <1>2, PortfolioAssumption DEF AgentCap, Vectors, BookOK, BookTyped
  <2> QED
    BY <2>1, <2>2, <1>1, <1>3
<1>11. ASSUME NEW i \in DOMAIN l, NEW r \in Resources PROVE l[i][r] >= 0
  <2>1. CASE i = Len(b.lots) + 1
    BY <2>1, <1>4, <1>5
  <2>2. CASE i \in 1 .. Len(b.lots)
    BY <2>2, <1>5 DEF BookOK, BookInvariant
  <2> QED
    BY <2>1, <2>2, <1>5
<1>12. BookInvariant(c)
  BY <1>1, <1>9, <1>10, <1>11 DEF BookInvariant, AllocatedSum
<1> QED
  BY <1>8, <1>12 DEF BookOK, c

(***************************************************************************)
(* A function over an initial segment is a sequence.                       *)
(***************************************************************************)
LEMMA FunctionIsSequence ==
    ASSUME NEW S, NEW n \in Nat, NEW f \in [1 .. n -> S]
    PROVE  f \in Seq(S) /\ Len(f) = n
  OBVIOUS

(***************************************************************************)
(* A claim the book admits moves what it claims from its lot to the agent. *)
(***************************************************************************)
LEMMA ClaimedOK ==
    ASSUME NEW b, BookOK(b), NEW op, op.agent \in Agents, op.resource \in Resources,
           op.amount \in Int, op.lot \in DOMAIN b.lots, MayClaim(b, op)
    PROVE  BookOK(Claimed(b, op))
<1> DEFINE c == Claimed(b, op)
           e == [b.allocated EXCEPT ![op.agent][op.resource] = @ + op.amount]
           l == [b.lots EXCEPT ![op.lot][op.resource] = @ - op.amount]
<1>0. /\ b.allocated \in [Agents -> [Resources -> Int]]
      /\ b.committed \in [Agents -> [Resources -> Int]]
      /\ b.lots \in Seq([Resources -> Int])
      /\ b = [allocated |-> b.allocated, committed |-> b.committed, lots |-> b.lots, log |-> b.log]
      /\ Len(b.lots) \in Nat
      /\ DOMAIN b.lots = 1 .. Len(b.lots)
  BY DEF BookOK, BookTyped
<1>1. /\ c.allocated = e
      /\ c.committed = b.committed
      /\ c.lots = l
      /\ c = [allocated |-> c.allocated, committed |-> c.committed, lots |-> c.lots, log |-> c.log]
  <2>1. c = [b EXCEPT !.allocated = e, !.lots = l, !.log = Append(@, op)]
    BY DEF Claimed
  <2> HIDE DEF c, e, l
  <2>2. c = [allocated |-> e, committed |-> b.committed, lots |-> l, log |-> Append(b.log, op)]
    BY <2>1, <1>0
  <2> QED
    BY <2>2
<1>2. e \in [Agents -> [Resources -> Int]]
  <2> DEFINE x == [b.allocated[op.agent] EXCEPT ![op.resource] = @ + op.amount]
  <2>1. x \in [Resources -> Int]
    BY <1>0
  <2>2. e = [b.allocated EXCEPT ![op.agent] = x]
    OBVIOUS
  <2> HIDE DEF e, x
  <2> QED
    BY <2>1, <2>2, <1>0
<1>3. \A a \in Agents : \A r \in Resources :
         e[a][r] = IF a = op.agent /\ r = op.resource THEN b.allocated[a][r] + op.amount
                                                      ELSE b.allocated[a][r]
  BY <1>0
<1>4. \A i \in DOMAIN b.lots : \A r \in Resources :
         l[i][r] = IF i = op.lot /\ r = op.resource THEN b.lots[i][r] - op.amount
                                                    ELSE b.lots[i][r]
  <2> DEFINE y == [b.lots[op.lot] EXCEPT ![op.resource] = @ - op.amount]
  <2>1. \A r \in Resources : y[r] = IF r = op.resource THEN b.lots[op.lot][r] - op.amount
                                                        ELSE b.lots[op.lot][r]
    BY <1>0
  <2>2. l = [b.lots EXCEPT ![op.lot] = y]
    OBVIOUS
  <2> HIDE DEF l, y
  <2>3. \A i \in DOMAIN b.lots : l[i] = IF i = op.lot THEN y ELSE b.lots[i]
    BY <2>2
  <2> QED
    BY <2>1, <2>3
<1>5. l \in Seq([Resources -> Int]) /\ Len(l) = Len(b.lots) /\ DOMAIN l = DOMAIN b.lots
  <2>1. \A i \in DOMAIN b.lots : b.lots[i] \in [Resources -> Int]
    BY <1>0
  <2>2. l \in [1 .. Len(b.lots) -> [Resources -> Int]]
    BY <2>1, <1>0
  <2> HIDE DEF l, c, e
  <2>3. DOMAIN l = 1 .. Len(b.lots)
    BY <2>2
  <2>4. l \in Seq([Resources -> Int]) /\ Len(l) = Len(b.lots)
    BY <2>2, <1>0, FunctionIsSequence
  <2> QED
    BY <2>3, <2>4, <1>0
<1>6. \A a \in Agents : \A r \in Resources : b.allocated[a][r] \in Int /\ b.committed[a][r] \in Int
  BY <1>0
<1>7. \A i \in DOMAIN b.lots : \A r \in Resources : b.lots[i][r] \in Int
  BY <1>0
<1>8. /\ Mode # "PREALLOCATED" /\ op.amount > 0
      /\ op.amount <= b.lots[op.lot][op.resource]
      /\ b.allocated[op.agent][op.resource] + op.amount <= AgentCap(op.agent, op.resource)
  BY DEF MayClaim
<1> HIDE DEF c, e, l
<1>9. ASSUME NEW r \in Resources
      PROVE  /\ AllocatedSum(b, r) \in Int
             /\ AllocatedSum(c, r) = AllocatedSum(b, r) + IF r = op.resource THEN op.amount ELSE 0
  <2> DEFINE f == [a \in Agents |-> b.allocated[a][r]]
             g == [a \in Agents |-> e[a][r]]
  <2>1. \A i \in Agents : f[i] = b.allocated[i][r] /\ g[i] = e[i][r]
    OBVIOUS
  <2>2. AllocatedSum(b, r) = SumTo(f, N) /\ AllocatedSum(c, r) = SumTo(g, N)
    BY <1>1 DEF AllocatedSum
  <2> HIDE DEF f, g
  <2>3. \A i \in Agents : f[i] \in Int /\ g[i] \in Int
    BY <2>1, <1>3, <1>6
  <2>4. \A i \in Agents : i # op.agent => g[i] = f[i]
    BY <2>1, <1>3
  <2>5. g[op.agent] - f[op.agent] = IF r = op.resource THEN op.amount ELSE 0
    BY <2>1, <1>3, <1>6
  <2>6. SumTo(g, N) = SumTo(f, N) + (g[op.agent] - f[op.agent])
    <3>1. Agents = 1 .. N /\ N \in Nat /\ op.agent \in 1 .. N
      BY PortfolioAssumption DEF Agents
    <3>2. \A i \in 1 .. N : f[i] \in Int /\ g[i] \in Int
      BY <2>3, <3>1
    <3> DEFINE k == op.agent
    <3>3. N \in Nat /\ k \in 1 .. N /\ \A i \in 1 .. N : i # k => g[i] = f[i]
      BY <2>4, <3>1
    <3> HIDE DEF k
    <3>4. SumTo(g, N) = SumTo(f, N) + (g[k] - f[k])
      BY <3>2, <3>3, SumToUpdate, Zenon
    <3> QED
      BY <3>4 DEF k
  <2>7. SumTo(f, N) \in Int
    BY <2>3, SumToInt, PortfolioAssumption DEF Agents
  <2> QED
    BY <2>2, <2>5, <2>6, <2>7
<1>10. ASSUME NEW r \in Resources
       PROVE  /\ Pooled(b, r) \in Int
              /\ Pooled(c, r) = Pooled(b, r) - IF r = op.resource THEN op.amount ELSE 0
  <2> DEFINE f == [i \in DOMAIN b.lots |-> b.lots[i][r]]
             g == [i \in DOMAIN l |-> l[i][r]]
             n == Len(b.lots)
  <2>1. \A i \in 1 .. n : f[i] = b.lots[i][r] /\ g[i] = l[i][r]
    BY <1>0, <1>5
  <2>2. Pooled(b, r) = SumTo(f, n) /\ Pooled(c, r) = SumTo(g, n)
    BY <1>1, <1>5 DEF Pooled
  <2>3. n \in Nat /\ op.lot \in 1 .. n /\ DOMAIN b.lots = 1 .. n
    BY <1>0
  <2> HIDE DEF f, g, n
  <2>9. \A i \in 1 .. n : b.lots[i][r] \in Int
    BY <2>3, <1>7
  <2>10. \A i \in 1 .. n : l[i][r] = IF i = op.lot /\ r = op.resource THEN b.lots[i][r] - op.amount
                                                                     ELSE b.lots[i][r]
    BY <2>3, <1>4
  <2>11. \A i \in 1 .. n :
            /\ f[i] \in Int
            /\ g[i] = IF i = op.lot /\ r = op.resource THEN f[i] - op.amount ELSE f[i]
    BY <2>1, <2>9, <2>10
  <2>4. \A i \in 1 .. n : f[i] \in Int /\ g[i] \in Int
    BY <2>11
  <2>5. \A i \in 1 .. n : i # op.lot => g[i] = f[i]
    BY <2>11
  <2>6. g[op.lot] - f[op.lot] = IF r = op.resource THEN - op.amount ELSE 0
    BY <2>3, <2>11
  <2>7. SumTo(g, n) = SumTo(f, n) + (g[op.lot] - f[op.lot])
    <3> DEFINE k == op.lot
    <3>1. n \in Nat /\ k \in 1 .. n /\ \A i \in 1 .. n : i # k => g[i] = f[i]
      BY <2>3, <2>5
    <3> HIDE DEF k
    <3>2. SumTo(g, n) = SumTo(f, n) + (g[k] - f[k])
      BY <2>4, <3>1, SumToUpdate, Zenon
    <3> QED
      BY <3>2 DEF k
  <2>8. SumTo(f, n) \in Int
    BY <2>3, <2>4, SumToInt
  <2> QED
    BY <2>2, <2>6, <2>7, <2>8
<1>11. ASSUME NEW r \in Resources PROVE AllocatedSum(c, r) + Pooled(c, r) = Limit[r]
  <2>1. AllocatedSum(b, r) + Pooled(b, r) = Limit[r]
    BY DEF BookOK, BookInvariant, AllocatedSum
  <2> QED
    BY <2>1, <1>9, <1>10
<1>12. ASSUME NEW a \in Agents, NEW r \in Resources
       PROVE  c.committed[a][r] <= c.allocated[a][r] /\ c.allocated[a][r] <= AgentCap(a, r)
  <2>1. b.committed[a][r] <= b.allocated[a][r] /\ b.allocated[a][r] <= AgentCap(a, r)
    BY <1>8 DEF BookOK, BookInvariant
  <2> QED
    BY <2>1, <1>1, <1>3, <1>6, <1>8
<1>13. ASSUME NEW i \in DOMAIN l, NEW r \in Resources PROVE l[i][r] >= 0
  <2>1. b.lots[i][r] >= 0
    BY <1>5 DEF BookOK, BookInvariant
  <2>2. CASE i = op.lot /\ r = op.resource
    <3>1. l[i][r] = b.lots[i][r] - op.amount /\ op.amount <= b.lots[i][r] /\ b.lots[i][r] \in Int
      BY <2>2, <1>4, <1>7, <1>8
    <3> QED
      BY <3>1
  <2>3. CASE ~(i = op.lot /\ r = op.resource)
    BY <2>1, <2>3, <1>4, <1>5
  <2> QED
    BY <2>2, <2>3
<1>14. BookInvariant(c)
  BY <1>1, <1>8, <1>11, <1>12, <1>13 DEF BookInvariant, AllocatedSum
<1>15. BookTyped(c)
  BY <1>0, <1>1, <1>2, <1>5 DEF BookTyped
<1> QED
  BY <1>14, <1>15 DEF BookOK, c

------------------------------------------------------------------------------
(* The Room.                                                                *)

\* What the Room's proof needs of its other variables.
RoomTyped ==
    /\ inbox \in [Agents -> Message]
    /\ eligible \subseteq Proposals /\ later \subseteq Proposals

RoomInv == RoomTyped /\ BookOK(book)

(***************************************************************************)
(* An initial Room is typed and its book conserved.                        *)
(***************************************************************************)
LEMMA RoomInit == Init => RoomInv
  BY InitialBookOK DEF Init, RoomInv, RoomTyped, Message

(***************************************************************************)
(* An accepted proposal is committed within the book.                      *)
(***************************************************************************)
LEMMA AcceptOK ==
    ASSUME BookOK(book), NEW p \in Proposals, Accept(p)
    PROVE  BookOK(book')
<1> DEFINE op == CommitOp(p)
<1>1. op.kind = "COMMIT" /\ op.agent \in Agents /\ op.amounts \in Vectors
  BY PortfolioAssumption DEF CommitOp
<1>2. MayApply(book, op) /\ book' = Apply(book, op)
  BY DEF Accept
<1> HIDE DEF op
<1>3. MayCommit(book, op) /\ book' = Committed(book, op)
  BY <1>1, <1>2 DEF MayApply, Apply
<1> QED
  BY <1>1, <1>3, CommittedOK

(***************************************************************************)
(* Taking a release leaves the book conserved, applied or not.             *)
(***************************************************************************)
LEMMA HandleReleaseOK ==
    ASSUME RoomInv, HandleRelease
    PROVE  RoomInv'
<1>1. PICK sender \in Agents :
         LET x == inbox[sender].id
             owner == Release[x].agent
             applies == /\ owner = sender
                        /\ inbox[sender].authentic
                        /\ Release[x].sequence > lastRelease[owner]
                        /\ MayApply(book, ReleaseOp(x))
         IN  /\ First(sender, Releasing)
             /\ book' = IF applies THEN Apply(book, ReleaseOp(x)) ELSE book
             /\ inbox' = [inbox EXCEPT ![sender] = Idle]
  BY DEF HandleRelease
<1> DEFINE x == inbox[sender].id
           op == ReleaseOp(x)
<1>2. x \in Releases
  <2>1. inbox[sender] \in Message /\ inbox[sender].kind = "RELEASE"
    BY <1>1 DEF RoomInv, RoomTyped, First, Releasing
  <2> QED
    BY <2>1 DEF Message, Idle
<1>3. op.kind = "RELEASE" /\ op.agent \in Agents /\ op.amounts \in Vectors
  BY <1>2, PortfolioAssumption DEF ReleaseOp
<1>4. book' = book \/ (MayApply(book, op) /\ book' = Apply(book, op))
  BY <1>1
<1>5. RoomTyped'
  BY <1>1 DEF HandleRelease, RoomInv, RoomTyped, Message
<1> HIDE DEF op, x
<1>6. book' = book \/ (MayRelease(book, op) /\ book' = Released(book, op))
  BY <1>3, <1>4 DEF MayApply, Apply
<1>7. BookOK(book')
  <2>1. CASE book' = book
    BY <2>1 DEF RoomInv
  <2>2. CASE MayRelease(book, op) /\ book' = Released(book, op)
    BY <2>2, <1>3, ReleasedOK DEF RoomInv
  <2> QED
    BY <2>1, <2>2, <1>6
<1> QED
  BY <1>5, <1>7 DEF RoomInv

(***************************************************************************)
(* A step of a plan, a claim or its commitment, leaves the book conserved. *)
(***************************************************************************)
LEMMA DecideLaterOK ==
    ASSUME RoomInv, DecideLater
    PROVE  RoomInv'
<1>1. PICK p \in later :
         \/ Accept(p) /\ later' = later \ {p}
         \/ /\ \E r \in Demanded(p), lot \in DOMAIN book.lots :
                  /\ MayApply(book, ClaimOp(p, r, lot))
                  /\ book' = Apply(book, ClaimOp(p, r, lot))
            /\ later' = later
         \/ later' = later \ {p} /\ book' = book
  BY DEF DecideLater
<1>2. p \in Proposals /\ BookOK(book)
  BY DEF RoomInv, RoomTyped
<1>3. RoomTyped'
  BY <1>1 DEF DecideLater, RoomInv, RoomTyped
<1>4. CASE Accept(p)
  BY <1>2, <1>3, <1>4, AcceptOK DEF RoomInv
<1>5. CASE book' = book
  BY <1>2, <1>3, <1>5 DEF RoomInv
<1>6. ASSUME NEW r \in Demanded(p), NEW lot \in DOMAIN book.lots,
             MayApply(book, ClaimOp(p, r, lot)), book' = Apply(book, ClaimOp(p, r, lot))
      PROVE  RoomInv'
  <2> DEFINE op == ClaimOp(p, r, lot)
  <2>1. /\ op.kind = "CLAIM" /\ op.agent = Proposal[p].agent /\ op.resource = r /\ op.lot = lot
        /\ op.amount = IF book.lots[lot][r] < Lacking(p, r) THEN book.lots[lot][r]
                                                            ELSE Lacking(p, r)
    BY DEF ClaimOp
  <2>2. r \in Resources /\ Proposal[p].agent \in Agents /\ Proposal[p].demand[r] \in Int
    BY <1>2, PortfolioAssumption DEF Demanded, Vectors
  <2>3. book.lots[lot][r] \in Int /\ Lacking(p, r) \in Int
    BY <1>2, <2>2 DEF BookOK, BookTyped, Lacking, Unused
  <2>4. MayApply(book, op) /\ book' = Apply(book, op)
    BY <1>6
  <2> HIDE DEF op
  <2>5. MayClaim(book, op) /\ book' = Claimed(book, op)
    BY <2>1, <2>4 DEF MayApply, Apply
  <2>6. op.agent \in Agents /\ op.resource \in Resources /\ op.amount \in Int /\ op.lot \in DOMAIN book.lots
    BY <2>1, <2>2, <2>3
  <2>7. BookOK(book')
    BY <1>2, <2>5, <2>6, ClaimedOK
  <2> QED
    BY <1>3, <2>7 DEF RoomInv
<1> QED
  BY <1>1, <1>4, <1>5, <1>6

(***************************************************************************)
(* Every step preserves the Room's invariant.                              *)
(***************************************************************************)
LEMMA RoomInvStep == RoomInv /\ [Next]_vars => RoomInv'
<1> SUFFICES ASSUME RoomInv, [Next]_vars PROVE RoomInv'
  OBVIOUS
<1>1. CASE Act
  <2>1. inbox' \in [Agents -> Message]
    BY <1>1 DEF Act, RoomInv, RoomTyped
  <2> QED
    BY <1>1, <2>1 DEF Act, RoomInv, RoomTyped
<1>2. CASE HandleRelease
  BY <1>2, HandleReleaseOK
<1>3. CASE Screen
  <2>1. PICK sender \in Agents : /\ NextSender(sender)
                                 /\ inbox' = [inbox EXCEPT ![sender] = Idle]
                                 /\ eligible' = eligible \/ eligible' = eligible \cup {inbox[sender].id}
    BY <1>3 DEF Screen
  <2>2. inbox[sender].id \in Proposals
    <3>1. inbox[sender] \in Message /\ inbox[sender].kind = "PROPOSE"
      BY <2>1 DEF RoomInv, RoomTyped, NextSender, Proposing
    <3> QED
      BY <3>1 DEF Message, Idle
  <2>3. inbox' \in [Agents -> Message]
    BY <2>1 DEF RoomInv, RoomTyped, Message
  <2> QED
    BY <1>3, <2>1, <2>2, <2>3 DEF Screen, RoomInv, RoomTyped
<1>4. CASE EndScreening
  BY <1>4 DEF EndScreening, RoomInv, RoomTyped
<1>5. CASE DecideOversize
  BY <1>5 DEF DecideOversize, RoomInv, RoomTyped
<1>6. CASE DecideEligible
  <2>1. PICK p \in eligible : /\ eligible' = eligible \ {p}
                              /\ \/ Accept(p) /\ later' = later
                                 \/ later' = later \cup {p} /\ book' = book
    BY <1>6 DEF DecideEligible
  <2>2. p \in Proposals /\ BookOK(book)
    BY DEF RoomInv, RoomTyped
  <2>3. RoomTyped'
    BY <1>6, <2>1, <2>2 DEF DecideEligible, RoomInv, RoomTyped
  <2>4. BookOK(book')
    BY <2>1, <2>2, AcceptOK
  <2> QED
    BY <2>3, <2>4 DEF RoomInv
<1>7. CASE DecideLater
  BY <1>7, DecideLaterOK
<1>8. CASE EndRound
  BY <1>8 DEF EndRound, RoomInv, RoomTyped
<1>9. CASE Verify
  <2>1. RoomTyped' /\ book' = InitialBook
    BY <1>9 DEF Verify, EmptyRoom, RoomTyped, Message
  <2> QED
    BY <2>1, InitialBookOK DEF RoomInv
<1>10. CASE UNCHANGED roomVars
  BY <1>10 DEF roomVars, RoomInv, RoomTyped
<1>11. CASE \E n \in Runs : Start(n) \/ TakeChild(n) \/ DecideChild(n) \/ Attempt(n) \/ CompareAndAppend(n)
  <2>1. inbox' = inbox /\ book' = book /\ eligible' = eligible /\ later' = later
    BY <1>11 DEF Start, TakeChild, DecideChild, Attempt, CompareAndAppend, roomVars
  <2> QED
    BY <2>1 DEF RoomInv, RoomTyped
<1>12. CASE \E p \in Proposals : Close(p) \/ Consume(p)
  BY <1>10, <1>12 DEF Close, Consume
<1>13. CASE Revoke
  BY <1>10, <1>13 DEF Revoke
<1> QED
  BY <1>1, <1>2, <1>3, <1>4, <1>5, <1>6, <1>7, <1>8, <1>9, <1>10, <1>11, <1>12, <1>13
     DEF Next, RoomStep, vars

(***************************************************************************)
(* For every valid mandate and every sequence of messages, no atom of a    *)
(* limit is ever held twice or lost by the allocation book                 *)
(* (checkBookInvariant of allocation.ts).                                  *)
(***************************************************************************)
THEOREM BookIsConserved == Spec => []BookConserved
<1>1. RoomInv => BookConserved
  BY DEF RoomInv, BookOK, BookConserved
<1> QED
  BY <1>1, RoomInit, RoomInvStep, PTL DEF Spec

------------------------------------------------------------------------------
(* Demands.                                                                 *)

DemandTable(ps, r) == [p \in Proposals |-> IF p \in ps THEN Proposal[p].demand[r] ELSE 0]

(***************************************************************************)
(* The entries a sum of demands adds.                                      *)
(***************************************************************************)
LEMMA DemandEntries ==
    ASSUME NEW ps, NEW r \in Resources
    PROVE  /\ ProposalCount \in Nat
           /\ \A i \in 1 .. ProposalCount :
                 /\ DemandTable(ps, r)[i] = IF i \in ps THEN Proposal[i].demand[r] ELSE 0
                 /\ Proposal[i].demand[r] \in Nat
                 /\ DemandTable(ps, r)[i] \in Nat
           /\ DemandOf(ps, r) = SumTo(DemandTable(ps, r), ProposalCount)
<1>1. \A i \in Proposals : Proposal[i].demand \in Vectors
  BY PortfolioAssumption
<1>2. \A i \in Proposals : Proposal[i].demand[r] \in Nat
  BY <1>1 DEF Vectors
<1>3. \A i \in Proposals : DemandTable(ps, r)[i] = IF i \in ps THEN Proposal[i].demand[r] ELSE 0
  BY DEF DemandTable
<1>4. DemandOf(ps, r) = SumTo(DemandTable(ps, r), ProposalCount)
  BY DEF DemandOf, DemandTable
<1>5. Proposals = 1 .. ProposalCount /\ ProposalCount \in Nat
  BY PortfolioAssumption DEF Proposals
<1> QED
  BY <1>2, <1>3, <1>4, <1>5

(***************************************************************************)
(* A demand is a natural number.                                           *)
(***************************************************************************)
LEMMA DemandNat ==
    ASSUME NEW ps, NEW r \in Resources
    PROVE  DemandOf(ps, r) \in Nat
<1> DEFINE f == DemandTable(ps, r)
<1>1. ProposalCount \in Nat /\ \A i \in 1 .. ProposalCount : f[i] \in Nat
  BY DemandEntries
<1>2. DemandOf(ps, r) = SumTo(f, ProposalCount)
  BY DemandEntries
<1> HIDE DEF f
<1>3. SumTo(f, ProposalCount) \in Nat
  BY <1>1, SumToNat
<1> QED
  BY <1>2, <1>3

(***************************************************************************)
(* Only the proposals themselves are counted.                              *)
(***************************************************************************)
LEMMA DemandSame ==
    ASSUME NEW ps, NEW qs, NEW r \in Resources, \A p \in Proposals : p \in ps <=> p \in qs
    PROVE  DemandOf(ps, r) = DemandOf(qs, r)
<1>1. DemandTable(ps, r) = DemandTable(qs, r)
  BY DEF DemandTable
<1> QED
  BY <1>1, DemandEntries

(***************************************************************************)
(* Nothing is demanded by no proposal.                                     *)
(***************************************************************************)
LEMMA DemandEmpty ==
    ASSUME NEW r \in Resources
    PROVE  DemandOf({}, r) = 0
<1> DEFINE f == DemandTable({}, r)
<1>1. ProposalCount \in Nat /\ \A i \in 1 .. ProposalCount : f[i] = 0
  BY DemandEntries
<1>2. DemandOf({}, r) = SumTo(f, ProposalCount)
  BY DemandEntries
<1> HIDE DEF f
<1> DEFINE S == {m \in Nat : m <= ProposalCount => SumTo(f, m) = 0}
<1>3. 0 \in S
  <2>1. SumTo(f, 0) = 0
    BY SumToEquation
  <2> QED
    BY <2>1
<1>4. ASSUME NEW m \in Nat, m \in S PROVE m + 1 \in S
  <2>1. SumTo(f, m + 1) = SumTo(f, m) + f[m + 1]
    BY SumToEquation
  <2>2. m + 1 <= ProposalCount => SumTo(f, m) = 0 /\ f[m + 1] = 0
    BY <1>1, <1>4
  <2> QED
    BY <2>1, <2>2
<1> HIDE DEF S
<1>5. Nat \subseteq S
  BY <1>3, <1>4, NatSetInduction
<1> QED
  BY <1>1, <1>2, <1>5 DEF S

(***************************************************************************)
(* The demands of disjoint sets of proposals add up.                       *)
(***************************************************************************)
LEMMA DemandUnion ==
    ASSUME NEW ps, NEW qs, NEW r \in Resources, ps \cap qs = {}
    PROVE  DemandOf(ps \cup qs, r) = DemandOf(ps, r) + DemandOf(qs, r)
<1> DEFINE f == DemandTable(ps, r)
           g == DemandTable(qs, r)
           h == DemandTable(ps \cup qs, r)
<1>1. ProposalCount \in Nat
  BY DemandEntries
<1>2. \A i \in 1 .. ProposalCount : /\ f[i] = IF i \in ps THEN Proposal[i].demand[r] ELSE 0
                                    /\ f[i] \in Nat /\ Proposal[i].demand[r] \in Nat
  BY DemandEntries
<1>3. \A i \in 1 .. ProposalCount : /\ g[i] = IF i \in qs THEN Proposal[i].demand[r] ELSE 0
                                    /\ g[i] \in Nat
  BY DemandEntries
<1>4. \A i \in 1 .. ProposalCount : h[i] = IF i \in ps \cup qs THEN Proposal[i].demand[r] ELSE 0
  BY DemandEntries
<1>5. /\ DemandOf(ps, r) = SumTo(f, ProposalCount)
      /\ DemandOf(qs, r) = SumTo(g, ProposalCount)
      /\ DemandOf(ps \cup qs, r) = SumTo(h, ProposalCount)
  BY DemandEntries
<1> HIDE DEF f, g, h
<1>6. \A i \in 1 .. ProposalCount : f[i] \in Int /\ g[i] \in Int /\ h[i] = f[i] + g[i]
  <2> TAKE i \in 1 .. ProposalCount
  <2>1. ~(i \in ps /\ i \in qs)
    OBVIOUS
  <2> QED
    BY <1>2, <1>3, <1>4, <2>1
<1>7. SumTo(h, ProposalCount) = SumTo(f, ProposalCount) + SumTo(g, ProposalCount)
  BY <1>1, <1>6, SumToAdd
<1> QED
  BY <1>5, <1>7

(***************************************************************************)
(* Fewer proposals demand no more.                                         *)
(***************************************************************************)
LEMMA DemandMonotone ==
    ASSUME NEW ps, NEW qs, NEW r \in Resources, ps \subseteq qs
    PROVE  DemandOf(ps, r) <= DemandOf(qs, r)
<1>1. ps \cup (qs \ ps) = qs /\ ps \cap (qs \ ps) = {}
  OBVIOUS
<1>2. DemandOf(qs, r) = DemandOf(ps, r) + DemandOf(qs \ ps, r)
  BY <1>1, DemandUnion
<1> QED
  BY <1>2, DemandNat

(***************************************************************************)
(* Two sets of proposals demand no more than one and the other.            *)
(***************************************************************************)
LEMMA DemandBoth ==
    ASSUME NEW ps, NEW qs, NEW r \in Resources
    PROVE  DemandOf(ps \cup qs, r) <= DemandOf(ps, r) + DemandOf(qs, r)
<1>1. ps \cup (qs \ ps) = ps \cup qs /\ ps \cap (qs \ ps) = {} /\ qs \ ps \subseteq qs
  OBVIOUS
<1>2. DemandOf(ps \cup qs, r) = DemandOf(ps, r) + DemandOf(qs \ ps, r)
  BY <1>1, DemandUnion
<1>3. DemandOf(qs \ ps, r) <= DemandOf(qs, r)
  BY <1>1, DemandMonotone
<1> QED
  BY <1>2, <1>3, DemandNat

(***************************************************************************)
(* One proposal demands what it demands.                                   *)
(***************************************************************************)
LEMMA DemandOne ==
    ASSUME NEW p \in Proposals, NEW r \in Resources
    PROVE  DemandOf({p}, r) = Proposal[p].demand[r]
<1> DEFINE f == DemandTable({}, r)
           g == DemandTable({p}, r)
<1>1. ProposalCount \in Nat /\ p \in 1 .. ProposalCount
  BY PortfolioAssumption DEF Proposals
<1>2. \A i \in 1 .. ProposalCount : f[i] = 0
  BY DemandEntries
<1>3. \A i \in 1 .. ProposalCount : /\ g[i] = IF i = p THEN Proposal[i].demand[r] ELSE 0
                                    /\ Proposal[i].demand[r] \in Nat
  BY DemandEntries
<1>4. DemandOf({}, r) = SumTo(f, ProposalCount) /\ DemandOf({p}, r) = SumTo(g, ProposalCount)
  BY DemandEntries
<1> HIDE DEF f, g
<1>5. \A i \in 1 .. ProposalCount : f[i] \in Int /\ g[i] \in Int
  BY <1>2, <1>3
<1>6. \A i \in 1 .. ProposalCount : i # p => g[i] = f[i]
  BY <1>2, <1>3
<1>7. SumTo(g, ProposalCount) = SumTo(f, ProposalCount) + (g[p] - f[p])
  BY <1>1, <1>5, <1>6, SumToUpdate, Zenon
<1>8. g[p] = Proposal[p].demand[r] /\ f[p] = 0 /\ Proposal[p].demand[r] \in Nat
  BY <1>1, <1>2, <1>3
<1>9. SumTo(f, ProposalCount) = 0
  BY <1>4, DemandEmpty
<1> QED
  BY <1>4, <1>7, <1>8, <1>9

(***************************************************************************)
(* One more proposal adds its own demand.                                  *)
(***************************************************************************)
LEMMA DemandAdd ==
    ASSUME NEW ps, NEW p \in Proposals, NEW r \in Resources, p \notin ps
    PROVE  DemandOf(ps \cup {p}, r) = DemandOf(ps, r) + Proposal[p].demand[r]
<1>1. ps \cap {p} = {}
  OBVIOUS
<1>2. DemandOf(ps \cup {p}, r) = DemandOf(ps, r) + DemandOf({p}, r)
  BY <1>1, DemandUnion
<1> QED
  BY <1>2, DemandOne

------------------------------------------------------------------------------
(* The ledger.                                                              *)

\* The proposals reserved, ever.
Spent == {p \in Proposals : held[p] # "none"}

\* Every reservation charges exactly what its proposal demands.
ChargesHeld == charges = [p \in Proposals |-> charges[p]] /\ \A p \in Spent : Exact(p, charges[p])

LedgerOK ==
    /\ held \in [Proposals -> {"none", "active", "closed", "consumed"}]
    /\ ChargesHeld
    /\ revoked \in BOOLEAN
    /\ \A r \in Resources : DemandOf(Charged, r) <= Limit[r]
    /\ \A a \in Agents : \A r \in DOMAIN HardMax[a] : DemandOf(By(Charged, a), r) <= HardMax[a][r]

\* The ways the ledger changes, or does not.
LedgerRests == held' = held /\ charges' = charges /\ revoked' = revoked
Reserves(p) == /\ LedgerAllows(p, Proposal[p].demand)
               /\ held' = [held EXCEPT ![p] = "active"]
               /\ charges' = [charges EXCEPT ![p] = Proposal[p].demand]
               /\ revoked' = revoked
Settles(p) == /\ held[p] = "active"
              /\ \E v \in {"closed", "consumed"} : held' = [held EXCEPT ![p] = v]
              /\ charges' = charges /\ revoked' = revoked
Withdraws == ~revoked /\ revoked' = TRUE /\ held' = held /\ charges' = charges

(***************************************************************************)
(* While every reservation charges the demand of its proposal, the ledger  *)
(* has left what the demands leave of the mandate's limits.                *)
(***************************************************************************)
LEMMA ChargesAreDemands ==
    ASSUME LedgerOK
    PROVE  /\ \A r \in Resources : Available(r) = Limit[r] - DemandOf(Charged, r)
           /\ \A a \in Agents : \A r \in Resources :
                 OwnAvailable(a, r) = HardMax[a][r] - DemandOf(By(Charged, a), r)
<1>1. ASSUME NEW ps, ps \subseteq Charged, NEW r \in Resources
      PROVE  ChargeOf(ps, r) = DemandOf(ps, r)
  <2>1. \A p \in ps : charges[p][r] = Proposal[p].demand[r]
    BY <1>1 DEF LedgerOK, ChargesHeld, Exact, Charged, Spent
  <2>2. [p \in Proposals |-> IF p \in ps THEN charges[p][r] ELSE 0]
           = [p \in Proposals |-> IF p \in ps THEN Proposal[p].demand[r] ELSE 0]
    BY <2>1
  <2> QED
    BY <2>2 DEF ChargeOf, DemandOf
<1>2. \A a : By(Charged, a) \subseteq Charged
  BY DEF By
<1> QED
  BY <1>1, <1>2 DEF Available, OwnAvailable

(***************************************************************************)
(* The ledger's version is a natural number.                               *)
(***************************************************************************)
LEMMA VersionNat == Version \in Nat
<1>1. IsFiniteSet(Proposals)
  BY PortfolioAssumption, FS_Interval DEF Proposals
<1> DEFINE S == {p \in Proposals : held[p] # "none"}
           T == {p \in Proposals : held[p] \in {"closed", "consumed"}}
<1>2. S \subseteq Proposals /\ T \subseteq Proposals
  OBVIOUS
<1>3. Version = Cardinality(S) + Cardinality(T) + (IF revoked THEN 1 ELSE 0)
  BY DEF Version
<1> HIDE DEF S, T
<1>4. IsFiniteSet(S) /\ IsFiniteSet(T)
  BY <1>1, <1>2, FS_Subset
<1>5. Cardinality(S) \in Nat /\ Cardinality(T) \in Nat
  BY <1>4, FS_CardinalityType
<1> QED
  BY <1>3, <1>5

(***************************************************************************)
(* Every change of the ledger moves its version (the compare-and-append of *)
(* engine.ts relies on it), and a proposal once reserved stays so.         *)
(***************************************************************************)
LEMMA VersionMoves ==
    ASSUME LedgerOK, NEW p \in Proposals, Reserves(p) \/ Settles(p)
    PROVE  Version' = Version + 1 /\ Spent \subseteq Spent'
<1>1. IsFiniteSet(Proposals)
  BY PortfolioAssumption, FS_Interval DEF Proposals
<1> DEFINE S == {q \in Proposals : held[q] # "none"}
           T == {q \in Proposals : held[q] \in {"closed", "consumed"}}
           S1 == {q \in Proposals : held'[q] # "none"}
           T1 == {q \in Proposals : held'[q] \in {"closed", "consumed"}}
<1>2. S \subseteq Proposals /\ T \subseteq Proposals
  OBVIOUS
<1> DEFINE k == IF revoked THEN 1 ELSE 0
<1>3. /\ Version = Cardinality(S) + Cardinality(T) + k
      /\ Version' = Cardinality(S1) + Cardinality(T1) + k
      /\ k \in Nat
  BY DEF Version, Reserves, Settles
<1> HIDE DEF k
<1>4. Spent = S /\ Spent' = S1
  BY DEF Spent
<1>5. CASE Reserves(p)
  <2>1. held[p] = "none" /\ held' = [held EXCEPT ![p] = "active"] /\ p \in DOMAIN held
    BY <1>5 DEF Reserves, LedgerAllows, LedgerOK
  <2>2. \A q \in Proposals : held'[q] = IF q = p THEN "active" ELSE held[q]
    BY <2>1
  <2>3. p \notin S /\ S1 = S \cup {p} /\ T1 = T
    BY <2>1, <2>2
  <2> HIDE DEF S, T, S1, T1
  <2>4. IsFiniteSet(S) /\ IsFiniteSet(T)
    BY <1>1, <1>2, FS_Subset
  <2>5. Cardinality(S1) = Cardinality(S) + 1
    BY <2>3, <2>4, FS_AddElement
  <2>6. Cardinality(S) \in Nat /\ Cardinality(T) \in Nat
    BY <2>4, FS_CardinalityType
  <2>7. Version' = Version + 1
    BY <1>3, <2>3, <2>5, <2>6
  <2> QED
    BY <2>7, <2>3, <1>4
<1>6. CASE Settles(p)
  <2>1. PICK v \in {"closed", "consumed"} : held' = [held EXCEPT ![p] = v]
    BY <1>6 DEF Settles
  <2>2. held[p] = "active" /\ p \in DOMAIN held
    BY <1>6 DEF Settles, LedgerOK
  <2>3. \A q \in Proposals : held'[q] = IF q = p THEN v ELSE held[q]
    BY <2>1, <2>2 DEF LedgerOK
  <2>4. p \notin T /\ T1 = T \cup {p} /\ S1 = S
    BY <2>2, <2>3
  <2> HIDE DEF S, T, S1, T1
  <2>5. IsFiniteSet(S) /\ IsFiniteSet(T)
    BY <1>1, <1>2, FS_Subset
  <2>6. Cardinality(T1) = Cardinality(T) + 1
    BY <2>4, <2>5, FS_AddElement
  <2>7. Cardinality(S) \in Nat /\ Cardinality(T) \in Nat
    BY <2>5, FS_CardinalityType
  <2>8. Version' = Version + 1
    BY <1>3, <2>4, <2>6, <2>7
  <2> QED
    BY <2>8, <2>4, <1>4
<1> QED
  BY <1>5, <1>6

(***************************************************************************)
(* A reservation charges its proposal alone; a settlement charges nothing. *)
(***************************************************************************)
LEMMA ChargeMoves ==
    ASSUME LedgerOK, NEW p \in Proposals, Reserves(p) \/ Settles(p)
    PROVE  /\ held' \in [Proposals -> {"none", "active", "closed", "consumed"}]
           /\ Reserves(p) => Charged' = Charged \cup {p} /\ p \notin Spent /\ ChargesHeld'
           /\ Settles(p) => Charged' \subseteq Charged /\ ChargesHeld'
<1>1. held' \in [Proposals -> {"none", "active", "closed", "consumed"}]
  BY DEF LedgerOK, Reserves, Settles
<1>2. ASSUME Reserves(p)
      PROVE  Charged' = Charged \cup {p} /\ p \notin Spent /\ ChargesHeld'
  <2>1. held[p] = "none" /\ held' = [held EXCEPT ![p] = "active"] /\ p \in DOMAIN held
    BY <1>2 DEF Reserves, LedgerAllows, LedgerOK
  <2>2. \A q \in Proposals : held'[q] = IF q = p THEN "active" ELSE held[q]
    BY <2>1 DEF LedgerOK
  <2>3. Spent' = Spent \cup {p}
    BY <2>1, <2>2 DEF Spent
  <2>4. /\ charges' = [q \in Proposals |-> charges'[q]] /\ charges'[p] = Proposal[p].demand
        /\ \A q \in Proposals : q # p => charges'[q] = charges[q]
    BY <1>2 DEF Reserves, LedgerOK, ChargesHeld
  <2>5. ChargesHeld'
    BY <2>3, <2>4 DEF ChargesHeld, LedgerOK, Exact, Spent
  <2> QED
    BY <2>1, <2>2, <2>5 DEF Charged, Spent
<1>3. ASSUME Settles(p) PROVE Charged' \subseteq Charged /\ ChargesHeld'
  <2>1. \E v \in {"closed", "consumed"} : held' = [held EXCEPT ![p] = v]
    BY <1>3 DEF Settles
  <2>2. held[p] = "active" /\ \A q \in Proposals : q # p => held'[q] = held[q]
    BY <1>3, <2>1 DEF Settles, LedgerOK
  <2>3. Spent' = Spent /\ charges' = charges
    BY <1>3, <2>1, <2>2 DEF Settles, Spent, LedgerOK
  <2>4. ChargesHeld'
    BY <2>3 DEF ChargesHeld, LedgerOK, Exact
  <2> QED
    BY <2>2, <2>4 DEF Charged
<1> QED
  BY <1>1, <1>2, <1>3

(***************************************************************************)
(* No change of the ledger charges more than the mandate's limits.         *)
(***************************************************************************)
LEMMA LedgerStep ==
    ASSUME LedgerOK, NEW p \in Proposals, Reserves(p) \/ Settles(p)
    PROVE  LedgerOK' /\ \A S : S \subseteq Spent => Charged' \cap S \subseteq Charged \cap S
<1>1. CASE Settles(p)
  <2>1. Charged' \subseteq Charged
    BY <1>1, ChargeMoves
  <2>2. \A r \in Resources : DemandOf(Charged', r) <= Limit[r]
    <3> TAKE r \in Resources
    <3>1. DemandOf(Charged', r) <= DemandOf(Charged, r)
      BY <2>1, DemandMonotone
    <3>2. DemandOf(Charged', r) \in Nat /\ DemandOf(Charged, r) \in Nat /\ Limit[r] \in Nat
      BY DemandNat, PortfolioAssumption DEF Vectors
    <3> QED
      BY <3>1, <3>2 DEF LedgerOK
  <2>3. \A a \in Agents : \A r \in DOMAIN HardMax[a] :
           DemandOf(By(Charged', a), r) <= HardMax[a][r]
    <3> TAKE a \in Agents
    <3> TAKE r \in DOMAIN HardMax[a]
    <3>1. r \in Resources /\ HardMax[a][r] \in Nat
      BY PortfolioAssumption DEF Vectors
    <3>2. By(Charged', a) \subseteq By(Charged, a)
      BY <2>1 DEF By
    <3>3. DemandOf(By(Charged', a), r) <= DemandOf(By(Charged, a), r)
      BY <3>1, <3>2, DemandMonotone
    <3>4. DemandOf(By(Charged', a), r) \in Nat /\ DemandOf(By(Charged, a), r) \in Nat
      BY <3>1, DemandNat
    <3> QED
      BY <3>1, <3>3, <3>4 DEF LedgerOK
  <2>4. LedgerOK'
    <3>1. revoked' \in BOOLEAN
      BY <1>1, Zenon DEF Settles, LedgerOK
    <3> QED
      BY <1>1, <2>2, <2>3, <3>1, ChargeMoves DEF LedgerOK
  <2> QED
    BY <2>1, <2>4
<1>2. CASE Reserves(p)
  <2>1. Charged' = Charged \cup {p} /\ p \notin Spent /\ p \notin Charged
    BY <1>2, ChargeMoves DEF Charged, Spent
  <2> DEFINE b == Proposal[p].agent
  <2>2. /\ \A r \in Resources : Proposal[p].demand[r] <= Limit[r] - DemandOf(Charged, r)
        /\ \A r \in DOMAIN HardMax[b] :
              Proposal[p].demand[r] <= HardMax[b][r] - DemandOf(By(Charged, b), r)
    <3>1. b \in Agents /\ \A r \in DOMAIN HardMax[b] : r \in Resources
      BY PortfolioAssumption
    <3> QED
      BY <1>2, <3>1, ChargesAreDemands DEF Reserves, LedgerAllows
  <2>3. \A r \in Resources : DemandOf(Charged', r) <= Limit[r]
    <3> TAKE r \in Resources
    <3>1. DemandOf(Charged', r) = DemandOf(Charged, r) + Proposal[p].demand[r]
      BY <2>1, DemandAdd
    <3>2. DemandOf(Charged, r) \in Nat /\ Limit[r] \in Nat /\ Proposal[p].demand[r] \in Nat
      BY DemandNat, PortfolioAssumption DEF Vectors
    <3> QED
      BY <2>2, <3>1, <3>2
  <2>4. \A a \in Agents : \A r \in DOMAIN HardMax[a] :
           DemandOf(By(Charged', a), r) <= HardMax[a][r]
    <3> TAKE a \in Agents
    <3> TAKE r \in DOMAIN HardMax[a]
    <3>1. r \in Resources /\ HardMax[a][r] \in Nat /\ Proposal[p].demand[r] \in Nat
      BY PortfolioAssumption DEF Vectors
    <3>2. CASE a # b
      <4>1. By(Charged', a) = By(Charged, a)
        BY <2>1, <3>2 DEF By
      <4> QED
        BY <4>1 DEF LedgerOK
    <3>3. CASE a = b
      <4>1. By(Charged', a) = By(Charged, a) \cup {p} /\ p \notin By(Charged, a)
        BY <2>1, <3>3 DEF By
      <4>2. DemandOf(By(Charged', a), r) = DemandOf(By(Charged, a), r) + Proposal[p].demand[r]
        BY <3>1, <4>1, DemandAdd
      <4>3. DemandOf(By(Charged, a), r) \in Nat
        BY <3>1, DemandNat
      <4>4. Proposal[p].demand[r] <= HardMax[a][r] - DemandOf(By(Charged, a), r)
        BY <2>2, <3>3
      <4> QED
        BY <3>1, <4>2, <4>3, <4>4
    <3> QED
      BY <3>2, <3>3
  <2>5. LedgerOK'
    <3>1. revoked' \in BOOLEAN
      BY <1>2, Zenon DEF Reserves, LedgerOK
    <3> QED
      BY <1>2, <2>3, <2>4, <3>1, ChargeMoves DEF LedgerOK
  <2> QED
    BY <2>1, <2>5
<1> QED
  BY <1>1, <1>2

------------------------------------------------------------------------------
(* The calls of runPortfolio.                                               *)

IsCall(c) ==
    DOMAIN c = {"pc", "avail", "before", "todo", "child", "charge", "version",
                "attempt", "got", "refused"}

\* What call n read of the ledger still covers what was reserved before it read.
AvailOK(n) ==
    LET av == runs[n].avail
        old == Charged \cap runs[n].before
    IN  /\ \A r \in Resources :
              av.portfolio[r] \in Nat /\ av.portfolio[r] + DemandOf(old, r) <= Limit[r]
        /\ \A a \in Agents :
              /\ DOMAIN av.agents[a] = DOMAIN HardMax[a]
              /\ \A r \in DOMAIN HardMax[a] :
                    /\ av.agents[a][r] \in Nat
                    /\ av.agents[a][r] + DemandOf(By(old, a), r) <= HardMax[a][r]

\* The children of call n that are not refused: to be reserved, in hand, or reserved.
Asked(n) == runs[n].todo \cup runs[n].got \cup ({runs[n].child} \ {0})

AskedTyped(n) ==
    /\ Asked(n) \subseteq Proposals
    /\ runs[n].pc \in {"idle", "room"} => Asked(n) = {}
    /\ runs[n].pc \in {"decide", "attempt", "append"} <=> runs[n].child # 0
    /\ runs[n].child \notin runs[n].todo \cup runs[n].got
    /\ runs[n].todo \cap runs[n].got = {}

\* All of them fit what the call read of the ledger.
Fit(ps, av) ==
    \A r \in Resources :
        /\ DemandOf(ps, r) <= av.portfolio[r]
        /\ \A a \in Agents : DemandOf(By(ps, a), r) <= Headroom(av, a, r)

\* An attempt is for exactly the child's demand, an append at the version read of one the ledger allows.
AppendOK(n) ==
    /\ runs[n].pc \in {"attempt", "append"} => Exact(runs[n].child, runs[n].charge)
    /\ runs[n].pc = "append" =>
          /\ runs[n].version \in Nat /\ runs[n].version <= Version
          /\ runs[n].version = Version => LedgerAllows(runs[n].child, runs[n].charge)

CallOK(n) ==
    /\ IsCall(runs[n])
    /\ runs[n].before \subseteq Spent
    /\ AvailOK(n)
    /\ AskedTyped(n)
    /\ Fit(Asked(n), runs[n].avail)
    /\ AppendOK(n)

CallsOK == runs = [n \in Runs |-> runs[n]] /\ \A n \in Runs : CallOK(n)

(***************************************************************************)
(* The headroom of an agent is a natural number, at most what the ledger   *)
(* had for the mandate and for the agent.                                  *)
(***************************************************************************)
LEMMA HeadroomBounds ==
    ASSUME NEW n \in Runs, AvailOK(n), NEW a \in Agents, NEW r \in Resources
    PROVE  LET av == runs[n].avail IN
           /\ av.portfolio[r] \in Nat /\ Headroom(av, a, r) \in Nat
           /\ Headroom(av, a, r) <= av.portfolio[r]
           /\ av.portfolio[r] <= Limit[r]
           /\ r \in DOMAIN HardMax[a] => /\ av.agents[a][r] \in Nat
                                         /\ Headroom(av, a, r) <= av.agents[a][r]
                                         /\ Headroom(av, a, r) <= HardMax[a][r]
<1> DEFINE av == runs[n].avail
           old == Charged \cap runs[n].before
<1>1. /\ av.portfolio[r] \in Nat /\ av.portfolio[r] + DemandOf(old, r) <= Limit[r]
      /\ DOMAIN av.agents[a] = DOMAIN HardMax[a]
      /\ r \in DOMAIN HardMax[a] => /\ av.agents[a][r] \in Nat
                                    /\ av.agents[a][r] + DemandOf(By(old, a), r) <= HardMax[a][r]
  BY DEF AvailOK
<1>2. /\ DemandOf(old, r) \in Nat /\ DemandOf(By(old, a), r) \in Nat
      /\ Limit[r] \in Nat
      /\ r \in DOMAIN HardMax[a] => HardMax[a][r] \in Nat
  BY DemandNat, PortfolioAssumption DEF Vectors
<1> HIDE DEF av, old
<1>3. av.portfolio[r] <= Limit[r] /\ (r \in DOMAIN HardMax[a] => av.agents[a][r] <= HardMax[a][r])
  BY <1>1, <1>2
<1>4. CASE r \in DOMAIN HardMax[a] /\ av.agents[a][r] <= av.portfolio[r]
  <2>1. Headroom(av, a, r) = av.agents[a][r]
    BY <1>1, <1>4 DEF Headroom
  <2> QED
    BY <2>1, <1>1, <1>2, <1>3, <1>4 DEF av
<1>5. CASE ~(r \in DOMAIN HardMax[a] /\ av.agents[a][r] <= av.portfolio[r])
  <2>1. Headroom(av, a, r) = av.portfolio[r]
    BY <1>1, <1>5 DEF Headroom
  <2>2. r \in DOMAIN HardMax[a] => av.portfolio[r] < av.agents[a][r]
    BY <1>1, <1>5
  <2>3. r \in DOMAIN HardMax[a] => av.portfolio[r] <= HardMax[a][r]
    BY <1>1, <1>2, <1>3, <2>2
  <2> QED
    BY <2>1, <2>2, <2>3, <1>1, <1>2, <1>3 DEF av
<1> QED
  BY <1>4, <1>5

(***************************************************************************)
(* What a call read covers what was reserved before, as long as no more of *)
(* that is charged.                                                        *)
(***************************************************************************)
LEMMA AvailKept ==
    ASSUME NEW n \in Runs, AvailOK(n),
           runs'[n].avail = runs[n].avail,
           Charged' \cap runs'[n].before \subseteq Charged \cap runs[n].before
    PROVE  AvailOK(n)'
<1> DEFINE av == runs[n].avail
           old == Charged \cap runs[n].before
           new == Charged' \cap runs'[n].before
<1>1. new \subseteq old /\ \A a : By(new, a) \subseteq By(old, a)
  BY DEF By
<1>2. /\ \A r \in Resources :
              av.portfolio[r] \in Nat /\ av.portfolio[r] + DemandOf(old, r) <= Limit[r]
      /\ \A a \in Agents :
              /\ DOMAIN av.agents[a] = DOMAIN HardMax[a]
              /\ \A r \in DOMAIN HardMax[a] :
                    /\ av.agents[a][r] \in Nat
                    /\ av.agents[a][r] + DemandOf(By(old, a), r) <= HardMax[a][r]
  BY DEF AvailOK
<1> HIDE DEF av, old, new
<1>3. \A r \in Resources : av.portfolio[r] + DemandOf(new, r) <= Limit[r]
  <2> TAKE r \in Resources
  <2>1. DemandOf(new, r) <= DemandOf(old, r)
    BY <1>1, DemandMonotone
  <2>2. DemandOf(new, r) \in Nat /\ DemandOf(old, r) \in Nat /\ Limit[r] \in Nat
    BY DemandNat, PortfolioAssumption DEF Vectors
  <2> QED
    BY <2>1, <2>2, <1>2
<1>4. \A a \in Agents : \A r \in DOMAIN HardMax[a] :
         av.agents[a][r] + DemandOf(By(new, a), r) <= HardMax[a][r]
  <2> TAKE a \in Agents
  <2> TAKE r \in DOMAIN HardMax[a]
  <2>1. r \in Resources /\ HardMax[a][r] \in Nat
    BY PortfolioAssumption DEF Vectors
  <2>2. DemandOf(By(new, a), r) <= DemandOf(By(old, a), r)
    BY <1>1, <2>1, DemandMonotone
  <2>3. DemandOf(By(new, a), r) \in Nat /\ DemandOf(By(old, a), r) \in Nat
    BY <2>1, DemandNat
  <2> QED
    BY <2>1, <2>2, <2>3, <1>2
<1> QED
  BY <1>2, <1>3, <1>4 DEF AvailOK, av, new

(***************************************************************************)
(* Fewer children fit as well.                                             *)
(***************************************************************************)
LEMMA FewerFit ==
    ASSUME NEW n \in Runs, AvailOK(n), NEW ps, NEW qs, qs \subseteq ps, Fit(ps, runs[n].avail)
    PROVE  Fit(qs, runs[n].avail)
<1> DEFINE av == runs[n].avail
<1>1. ASSUME NEW r \in Resources PROVE DemandOf(qs, r) <= av.portfolio[r]
  <2>1. DemandOf(qs, r) <= DemandOf(ps, r) /\ DemandOf(ps, r) <= av.portfolio[r]
    BY DemandMonotone DEF Fit
  <2>2. DemandOf(qs, r) \in Nat /\ DemandOf(ps, r) \in Nat /\ av.portfolio[r] \in Nat
    BY DemandNat DEF AvailOK
  <2> QED
    BY <2>1, <2>2
<1>2. ASSUME NEW r \in Resources, NEW a \in Agents
      PROVE  DemandOf(By(qs, a), r) <= Headroom(av, a, r)
  <2>1. By(qs, a) \subseteq By(ps, a)
    BY DEF By
  <2>2. DemandOf(By(qs, a), r) <= DemandOf(By(ps, a), r)
    BY <2>1, DemandMonotone
  <2>3. DemandOf(By(ps, a), r) <= Headroom(av, a, r)
    BY DEF Fit
  <2>4. DemandOf(By(qs, a), r) \in Nat /\ DemandOf(By(ps, a), r) \in Nat
    BY DemandNat
  <2>5. Headroom(av, a, r) \in Nat
    BY HeadroomBounds
  <2> HIDE DEF av
  <2> QED
    BY <2>2, <2>3, <2>4, <2>5
<1> QED
  BY <1>1, <1>2 DEF Fit

(***************************************************************************)
(* What every step may do to the ledger.                                   *)
(***************************************************************************)
LedgerMoves == LedgerRests \/ Withdraws \/ \E p \in Proposals : Reserves(p) \/ Settles(p)

(***************************************************************************)
(* Whatever a step does to the ledger, nothing is charged beyond a limit,  *)
(* nothing reserved before is charged anew, and the version tells whether  *)
(* the ledger moved.                                                       *)
(***************************************************************************)
LEMMA MovesKept ==
    ASSUME LedgerOK, LedgerMoves
    PROVE  /\ LedgerOK' /\ Spent \subseteq Spent'
           /\ \A S : S \subseteq Spent => Charged' \cap S \subseteq Charged \cap S
           /\ Version \in Nat /\ Version' \in Nat /\ Version <= Version'
           /\ Version' = Version => LedgerRests
<1>1. CASE LedgerRests
  <2>1. held' = held /\ charges' = charges /\ revoked' = revoked
    BY <1>1 DEF LedgerRests
  <2>2. Spent' = Spent /\ Charged' = Charged /\ Version' = Version
    BY <2>1 DEF Spent, Charged, Version
  <2>3. LedgerOK'
    BY <2>1, <2>2 DEF LedgerOK, ChargesHeld, Exact
  <2> QED
    BY <1>1, <2>2, <2>3, VersionNat
<1>2. ASSUME NEW p \in Proposals, Reserves(p) \/ Settles(p)
      PROVE  /\ LedgerOK' /\ Spent \subseteq Spent'
             /\ \A S : S \subseteq Spent => Charged' \cap S \subseteq Charged \cap S
             /\ Version' = Version + 1
  BY <1>2, LedgerStep, VersionMoves
<1>3. CASE Withdraws
  <2>1. held' = held /\ charges' = charges /\ ~revoked /\ revoked' = TRUE
    BY <1>3 DEF Withdraws
  <2>2. Spent' = Spent /\ Charged' = Charged
    BY <2>1 DEF Spent, Charged
  <2>3. LedgerOK'
    BY <2>1, <2>2 DEF LedgerOK, ChargesHeld, Exact
  <2>4. Version' = Version + 1
    <3> DEFINE k == Cardinality({p \in Proposals : held[p] # "none"})
                     + Cardinality({p \in Proposals : held[p] \in {"closed", "consumed"}})
    <3>1. Version = k + (IF revoked THEN 1 ELSE 0) /\ Version' = k + (IF revoked' THEN 1 ELSE 0)
      BY <2>1 DEF Version
    <3> HIDE DEF k
    <3>2. Version = k + 0 /\ Version' = k + 1
      BY <2>1, <3>1
    <3>3. k \in Nat
      <4>1. IsFiniteSet(Proposals)
        BY PortfolioAssumption, FS_Interval DEF Proposals
      <4> QED
        BY <4>1, FS_Subset, FS_CardinalityType DEF k
    <3> QED
      BY <3>2, <3>3
  <2> QED
    BY <2>2, <2>3, <2>4, VersionNat
<1> QED
  BY <1>1, <1>2, <1>3, VersionNat DEF LedgerMoves

(***************************************************************************)
(* A call that asks for no more than before keeps its invariant.           *)
(***************************************************************************)
LEMMA CallMoves ==
    ASSUME LedgerOK, LedgerMoves, NEW n \in Runs, CallOK(n),
           IsCall(runs[n])', AskedTyped(n)', AppendOK(n)', Asked(n)' \subseteq Asked(n),
           runs'[n].avail = runs[n].avail, runs'[n].before = runs[n].before
    PROVE  CallOK(n)'
<1>1. runs[n].before \subseteq Spent /\ AvailOK(n) /\ Fit(Asked(n), runs[n].avail)
  BY DEF CallOK
<1>2. Spent \subseteq Spent' /\ Charged' \cap runs[n].before \subseteq Charged \cap runs[n].before
  BY <1>1, MovesKept
<1>3. AvailOK(n)'
  BY <1>1, <1>2, AvailKept
<1>4. Fit(Asked(n)', runs[n].avail)
  BY <1>1, FewerFit
<1>5. Fit(Asked(n), runs[n].avail)'
  BY <1>4 DEF Fit, Headroom, DemandOf, By
<1> QED
  BY <1>1, <1>2, <1>3, <1>5 DEF CallOK

(***************************************************************************)
(* A call that does not move keeps its invariant, whatever the others do.  *)
(***************************************************************************)
LEMMA CallWaits ==
    ASSUME LedgerOK, LedgerMoves, NEW n \in Runs, CallOK(n), runs'[n] = runs[n]
    PROVE  CallOK(n)'
<1>1. IsCall(runs[n])' /\ AskedTyped(n)' /\ Asked(n)' = Asked(n)
  BY DEF CallOK, IsCall, AskedTyped, Asked
<1>2. AppendOK(n)'
  <2> SUFFICES ASSUME runs[n].pc = "append"
               PROVE  /\ runs[n].version \in Nat /\ runs[n].version <= Version'
                      /\ runs[n].version = Version' => LedgerAllows(runs[n].child, runs[n].charge)'
    BY DEF CallOK, AppendOK, Exact
  <2>1. /\ runs[n].version \in Nat /\ runs[n].version <= Version
        /\ runs[n].version = Version => LedgerAllows(runs[n].child, runs[n].charge)
    BY DEF CallOK, AppendOK
  <2>2. Version \in Nat /\ Version' \in Nat /\ Version <= Version' /\ (Version' = Version => LedgerRests)
    BY MovesKept
  <2>3. LedgerRests => (LedgerAllows(runs[n].child, runs[n].charge)
                           => LedgerAllows(runs[n].child, runs[n].charge)')
    BY DEF LedgerRests, LedgerAllows, Available, OwnAvailable, ChargeOf, Charged
  <2>4. runs[n].version <= Version'
    BY <2>1, <2>2
  <2>5. ASSUME runs[n].version = Version' PROVE Version' = Version
    BY <2>1, <2>2, <2>5
  <2> QED
    BY <2>1, <2>2, <2>3, <2>4, <2>5
<1> QED
  BY <1>1, <1>2, CallMoves

(***************************************************************************)
(* One call moves, the others wait.                                        *)
(***************************************************************************)
LEMMA OneCallMoves ==
    ASSUME LedgerOK, LedgerMoves, CallsOK, NEW n \in Runs, NEW c,
           runs' = [runs EXCEPT ![n] = c], CallOK(n)'
    PROVE  LedgerOK' /\ CallsOK'
<1>1. LedgerOK'
  BY MovesKept
<1>2. runs' = [m \in Runs |-> runs'[m]] /\ \A m \in Runs : m # n => runs'[m] = runs[m]
  BY DEF CallsOK
<1>3. \A m \in Runs : m # n => CallOK(m)'
  BY <1>2, CallWaits DEF CallsOK
<1> QED
  BY <1>1, <1>2, <1>3 DEF CallsOK

(***************************************************************************)
(* The next child is taken from the ones to be reserved.                   *)
(***************************************************************************)
LEMMA TakeChildOK ==
    ASSUME LedgerOK, CallsOK, NEW n \in Runs, TakeChild(n)
    PROVE  LedgerOK' /\ CallsOK'
<1> DEFINE c == runs[n]
<1>1. PICK p \in runs[n].todo : \E q \in MayCharge[p] :
         runs' = [runs EXCEPT ![n] = [runs[n] EXCEPT !.pc = "decide", !.child = p, !.charge = q,
                                                     !.todo = @ \ {p}]]
  BY Zenon DEF TakeChild
<1>2. c.pc = "reserve" /\ LedgerRests
  BY DEF TakeChild, Reserving, LedgerRests
<1>3. CallOK(n) /\ IsCall(c) /\ n \in DOMAIN runs
  BY DEF CallsOK, CallOK
<1>0. PICK q : runs' = [runs EXCEPT ![n] = [runs[n] EXCEPT !.pc = "decide", !.child = p,
                                                           !.charge = q, !.todo = @ \ {p}]]
  BY <1>1, Zenon
<1> DEFINE d == [runs[n] EXCEPT !.pc = "decide", !.child = p, !.charge = q, !.todo = @ \ {p}]
<1>4. runs' = [runs EXCEPT ![n] = d]
  BY <1>0
<1>5. /\ d.todo = c.todo \ {p} /\ d.got = c.got /\ d.child = p /\ d.pc = "decide"
      /\ d.avail = c.avail /\ d.before = c.before /\ IsCall(d)
  BY <1>3 DEF IsCall
<1> HIDE DEF d
<1>6. /\ Asked(n) \subseteq Proposals /\ c.child = 0
      /\ c.todo \cap c.got = {}
  BY <1>2, <1>3 DEF CallOK, AskedTyped
<1>7. p \in Proposals /\ p # 0
  BY <1>6, PortfolioAssumption DEF Asked, Proposals
<1>8. /\ runs'[n].todo = c.todo \ {p} /\ runs'[n].got = c.got /\ runs'[n].child = p
      /\ runs'[n].pc = "decide"
      /\ runs'[n].avail = c.avail /\ runs'[n].before = c.before
      /\ IsCall(runs[n])'
  BY <1>3, <1>4, <1>5 DEF IsCall
<1>9. Asked(n)' = Asked(n)
  BY <1>6, <1>7, <1>8 DEF Asked
<1>10. AskedTyped(n)'
  BY <1>6, <1>7, <1>8, <1>9 DEF AskedTyped
<1>11. AppendOK(n)'
  BY <1>8 DEF AppendOK
<1>12. CallOK(n)'
  BY <1>2, <1>3, <1>8, <1>9, <1>10, <1>11, CallMoves DEF LedgerMoves
<1> QED
  BY <1>2, <1>4, <1>12, OneCallMoves DEF LedgerMoves

(***************************************************************************)
(* A call that gives its child up asks for less.                           *)
(***************************************************************************)
LEMMA GiveUpOK ==
    ASSUME LedgerOK, CallsOK, NEW n \in Runs, LedgerRests, NEW d,
           runs' = [runs EXCEPT ![n] = d], IsCall(d),
           d.pc = "reserve", d.todo = runs[n].todo, d.got = runs[n].got, d.child = 0,
           d.avail = runs[n].avail, d.before = runs[n].before
    PROVE  LedgerOK' /\ CallsOK'
<1>1. CallOK(n) /\ n \in DOMAIN runs
  BY DEF CallsOK, CallOK
<1>2. runs'[n] = d
  BY <1>1
<1>3. Asked(n)' = d.todo \cup d.got
  BY <1>2 DEF Asked
<1>4. Asked(n)' \subseteq Asked(n)
  BY <1>3 DEF Asked
<1>5. Asked(n) \subseteq Proposals /\ runs[n].todo \cap runs[n].got = {}
  BY <1>1 DEF CallOK, AskedTyped
<1>6. 0 \notin Proposals
  BY PortfolioAssumption DEF Proposals
<1>7. AskedTyped(n)'
  BY <1>2, <1>3, <1>4, <1>5, <1>6 DEF AskedTyped
<1>8. AppendOK(n)' /\ IsCall(runs[n])'
  BY <1>2 DEF AppendOK, IsCall
<1>9. LedgerMoves
  BY DEF LedgerMoves
<1>10. runs'[n].avail = runs[n].avail /\ runs'[n].before = runs[n].before
  BY <1>2
<1>11. CallOK(n)'
  BY <1>1, <1>4, <1>7, <1>8, <1>9, <1>10, CallMoves
<1> QED
  BY <1>9, <1>11, OneCallMoves

(***************************************************************************)
(* A refused child is given up.                                            *)
(***************************************************************************)
LEMMA RefuseOK ==
    ASSUME LedgerOK, CallsOK, NEW n \in Runs, Refuse(n), LedgerRests
    PROVE  LedgerOK' /\ CallsOK'
<1> DEFINE c == runs[n]
           d == [runs[n] EXCEPT !.pc = "reserve", !.refused = @ \cup {runs[n].child},
                                !.child = 0, !.charge = NoCharge, !.attempt = 0, !.version = 0]
<1>1. runs' = [runs EXCEPT ![n] = d]
  BY Zenon DEF Refuse
<1>2. IsCall(c)
  BY DEF CallsOK, CallOK
<1>3. /\ IsCall(d) /\ d.pc = "reserve" /\ d.todo = c.todo /\ d.got = c.got /\ d.child = 0
      /\ d.avail = c.avail /\ d.before = c.before
  BY <1>2 DEF IsCall
<1> HIDE DEF d
<1> QED
  BY <1>1, <1>3, GiveUpOK

(***************************************************************************)
(* A call that keeps its child in hand, and moves on.                      *)
(***************************************************************************)
LEMMA KeepChildOK ==
    ASSUME LedgerOK, CallsOK, NEW n \in Runs, LedgerRests, NEW d,
           runs' = [runs EXCEPT ![n] = d], IsCall(d),
           runs[n].pc \in {"decide", "attempt", "append"}, d.pc \in {"attempt", "append"},
           d.todo = runs[n].todo, d.got = runs[n].got, d.child = runs[n].child,
           d.avail = runs[n].avail, d.before = runs[n].before, Exact(d.child, d.charge),
           d.pc = "append" => d.version = Version /\ LedgerAllows(d.child, d.charge)
    PROVE  LedgerOK' /\ CallsOK'
<1>1. CallOK(n) /\ n \in DOMAIN runs
  BY DEF CallsOK, CallOK
<1>2. runs'[n] = d
  BY <1>1
<1>3. Asked(n)' = Asked(n)
  BY <1>2 DEF Asked
<1>4. AskedTyped(n)'
  BY <1>1, <1>2, <1>3 DEF CallOK, AskedTyped
<1>5. Version' = Version /\ (LedgerAllows(d.child, d.charge) => LedgerAllows(d.child, d.charge)')
  <2>1. Version' = Version
    BY DEF LedgerRests, Version
  <2>2. LedgerAllows(d.child, d.charge) => LedgerAllows(d.child, d.charge)'
    BY DEF LedgerRests, LedgerAllows, Available, OwnAvailable, ChargeOf, Charged
  <2> QED
    BY <2>1, <2>2
<1>6. AppendOK(n)'
  BY <1>2, <1>5, VersionNat DEF AppendOK, Exact
<1>7. LedgerMoves /\ IsCall(runs[n])'
  BY <1>2 DEF LedgerMoves, IsCall
<1>8. runs'[n].avail = runs[n].avail /\ runs'[n].before = runs[n].before
  BY <1>2
<1>9. CallOK(n)'
  BY <1>1, <1>3, <1>4, <1>6, <1>7, <1>8, CallMoves
<1> QED
  BY <1>7, <1>9, OneCallMoves

(***************************************************************************)
(* The pure decision on a child keeps it or gives it up.                   *)
(***************************************************************************)
LEMMA DecideChildOK ==
    ASSUME LedgerOK, CallsOK, NEW n \in Runs, DecideChild(n)
    PROVE  LedgerOK' /\ CallsOK'
<1> DEFINE c == runs[n]
           d == [runs[n] EXCEPT !.pc = "attempt", !.attempt = 1]
<1>1. LedgerRests /\ c.pc = "decide" /\ IsCall(c)
  BY DEF DecideChild, Reserving, CallsOK, CallOK, LedgerRests
<1>2. (Exact(c.child, c.charge) /\ runs' = [runs EXCEPT ![n] = d]) \/ Refuse(n)
  BY Zenon DEF DecideChild
<1>3. /\ IsCall(d) /\ d.pc = "attempt" /\ d.todo = c.todo /\ d.got = c.got /\ d.child = c.child
      /\ d.avail = c.avail /\ d.before = c.before /\ d.charge = c.charge
  BY <1>1 DEF IsCall
<1> HIDE DEF d
<1>4. CASE Exact(c.child, c.charge) /\ runs' = [runs EXCEPT ![n] = d]
  BY <1>1, <1>3, <1>4, KeepChildOK
<1> QED
  BY <1>1, <1>2, <1>4, RefuseOK

(***************************************************************************)
(* An attempt reads the version its decision was made at.                  *)
(***************************************************************************)
LEMMA AttemptOK ==
    ASSUME LedgerOK, CallsOK, NEW n \in Runs, Attempt(n)
    PROVE  LedgerOK' /\ CallsOK'
<1> DEFINE c == runs[n]
           d == [runs[n] EXCEPT !.pc = "append", !.version = Version]
<1>1. LedgerRests /\ c.pc = "attempt" /\ IsCall(c)
  BY DEF Attempt, Reserving, CallsOK, CallOK, LedgerRests
<1>2. (LedgerAllows(c.child, c.charge) /\ runs' = [runs EXCEPT ![n] = d]) \/ Refuse(n)
  BY Zenon DEF Attempt, Decides
<1>3. /\ IsCall(d) /\ d.pc = "append" /\ d.todo = c.todo /\ d.got = c.got /\ d.child = c.child
      /\ d.avail = c.avail /\ d.before = c.before /\ d.version = Version /\ d.charge = c.charge
  BY <1>1 DEF IsCall
<1> HIDE DEF d
<1>4. Exact(c.child, c.charge)
  BY <1>1 DEF CallsOK, CallOK, AppendOK
<1>5. CASE LedgerAllows(c.child, c.charge) /\ runs' = [runs EXCEPT ![n] = d]
  BY <1>1, <1>3, <1>4, <1>5, KeepChildOK
<1> QED
  BY <1>1, <1>2, <1>5, RefuseOK

(***************************************************************************)
(* An append at the version read reserves the child; any other leaves the  *)
(* ledger alone.                                                           *)
(***************************************************************************)
LEMMA CompareAndAppendOK ==
    ASSUME LedgerOK, CallsOK, NEW n \in Runs, CompareAndAppend(n)
    PROVE  LedgerOK' /\ CallsOK'
<1> DEFINE c == runs[n]
           e == [runs[n] EXCEPT !.pc = "reserve", !.got = @ \cup {runs[n].child},
                                !.child = 0, !.charge = NoCharge, !.attempt = 0, !.version = 0]
           d == [runs[n] EXCEPT !.pc = "attempt", !.attempt = @ + 1, !.version = 0]
           g == [runs[n] EXCEPT !.pc = "reserve", !.child = 0, !.charge = NoCharge,
                                !.attempt = 0, !.version = 0]
<1>1. c.pc = "append" /\ IsCall(c) /\ CallOK(n) /\ n \in DOMAIN runs
  BY DEF CompareAndAppend, Reserving, CallsOK, CallOK
<1>2. \/ /\ runs[n].version = Version
         /\ held' = [held EXCEPT ![runs[n].child] = "active"]
         /\ charges' = [charges EXCEPT ![runs[n].child] = runs[n].charge] /\ revoked' = revoked
         /\ runs' = [runs EXCEPT ![n] = e]
      \/ runs' = [runs EXCEPT ![n] = d] /\ LedgerRests
      \/ runs' = [runs EXCEPT ![n] = g] /\ LedgerRests
  BY Zenon DEF CompareAndAppend, LedgerRests
<1>3. /\ IsCall(d) /\ d.pc = "attempt" /\ d.todo = c.todo /\ d.got = c.got /\ d.child = c.child
      /\ d.avail = c.avail /\ d.before = c.before /\ d.charge = c.charge
  BY <1>1 DEF IsCall
<1>4. /\ IsCall(g) /\ g.pc = "reserve" /\ g.todo = c.todo /\ g.got = c.got /\ g.child = 0
      /\ g.avail = c.avail /\ g.before = c.before
  BY <1>1 DEF IsCall
<1>5. /\ IsCall(e) /\ e.pc = "reserve" /\ e.todo = c.todo /\ e.got = c.got \cup {c.child}
      /\ e.child = 0 /\ e.avail = c.avail /\ e.before = c.before
  BY <1>1 DEF IsCall
<1> HIDE DEF d, e, g
<1>6. CASE runs' = [runs EXCEPT ![n] = d] /\ LedgerRests
  <2>1. Exact(c.child, c.charge)
    BY <1>1 DEF CallOK, AppendOK
  <2> QED
    BY <1>1, <1>3, <1>6, <2>1, KeepChildOK
<1>7. CASE runs' = [runs EXCEPT ![n] = g] /\ LedgerRests
  BY <1>4, <1>7, GiveUpOK
<1>8. CASE /\ runs[n].version = Version
           /\ held' = [held EXCEPT ![runs[n].child] = "active"]
           /\ charges' = [charges EXCEPT ![runs[n].child] = runs[n].charge] /\ revoked' = revoked
           /\ runs' = [runs EXCEPT ![n] = e]
  <2>1. /\ Asked(n) \subseteq Proposals /\ c.child # 0 /\ c.child \notin c.todo \cup c.got
        /\ c.todo \cap c.got = {}
    BY <1>1 DEF CallOK, AskedTyped
  <2>2. c.child \in Proposals
    BY <2>1 DEF Asked
  <2>3. LedgerAllows(c.child, c.charge) /\ c.charge = Proposal[c.child].demand
    BY <1>1, <1>8 DEF CallOK, AppendOK, Exact
  <2>4. Reserves(c.child)
    BY <1>8, <2>3 DEF Reserves
  <2>5. LedgerMoves
    BY <2>2, <2>4 DEF LedgerMoves
  <2>6. runs'[n] = e
    BY <1>1, <1>8
  <2>7. Asked(n)' = Asked(n)
    BY <1>5, <2>1, <2>6 DEF Asked
  <2>8. 0 \notin Proposals
    BY PortfolioAssumption DEF Proposals
  <2>9. AskedTyped(n)'
    <3>1. e.todo \cap e.got = {} /\ e.child \notin e.todo \cup e.got
      BY <1>5, <2>1, <2>8 DEF Asked
    <3> QED
      BY <1>5, <2>1, <2>6, <2>7, <3>1 DEF AskedTyped
  <2>10. AppendOK(n)' /\ IsCall(runs[n])'
    BY <1>5, <2>6 DEF AppendOK, IsCall
  <2>11. runs'[n].avail = runs[n].avail /\ runs'[n].before = runs[n].before
    BY <1>5, <2>6
  <2>12. CallOK(n)'
    BY <1>1, <2>5, <2>7, <2>9, <2>10, <2>11, CallMoves
  <2> QED
    BY <1>8, <2>5, <2>12, OneCallMoves
<1> QED
  BY <1>2, <1>6, <1>7, <1>8

(***************************************************************************)
(* What a call reads when it starts covers all that is charged.            *)
(***************************************************************************)
LEMMA AvailabilityRead ==
    ASSUME LedgerOK
    PROVE  /\ \A r \in Resources :
                 /\ AvailabilityNow.portfolio[r] \in Nat
                 /\ AvailabilityNow.portfolio[r] + DemandOf(Charged, r) = Limit[r]
           /\ \A a \in Agents :
                 /\ DOMAIN AvailabilityNow.agents[a] = DOMAIN HardMax[a]
                 /\ \A r \in DOMAIN HardMax[a] :
                       /\ AvailabilityNow.agents[a][r] \in Nat
                       /\ AvailabilityNow.agents[a][r] + DemandOf(By(Charged, a), r) = HardMax[a][r]
<1>1. ASSUME NEW r \in Resources
      PROVE  /\ AvailabilityNow.portfolio[r] \in Nat
             /\ AvailabilityNow.portfolio[r] + DemandOf(Charged, r) = Limit[r]
  <2>1. AvailabilityNow.portfolio[r] = Limit[r] - DemandOf(Charged, r)
    BY ChargesAreDemands DEF AvailabilityNow
  <2>2. DemandOf(Charged, r) \in Nat /\ Limit[r] \in Nat /\ DemandOf(Charged, r) <= Limit[r]
    BY DemandNat, PortfolioAssumption DEF Vectors, LedgerOK
  <2> QED
    BY <2>1, <2>2
<1>2. ASSUME NEW a \in Agents
      PROVE  DOMAIN AvailabilityNow.agents[a] = DOMAIN HardMax[a]
  BY DEF AvailabilityNow
<1>3. ASSUME NEW a \in Agents, NEW r \in DOMAIN HardMax[a]
      PROVE  /\ AvailabilityNow.agents[a][r] \in Nat
             /\ AvailabilityNow.agents[a][r] + DemandOf(By(Charged, a), r) = HardMax[a][r]
  <2>1. r \in Resources /\ HardMax[a][r] \in Nat
    BY PortfolioAssumption DEF Vectors
  <2>2. AvailabilityNow.agents[a][r] = HardMax[a][r] - DemandOf(By(Charged, a), r)
    BY <2>1, ChargesAreDemands DEF AvailabilityNow
  <2>3. DemandOf(By(Charged, a), r) \in Nat /\ DemandOf(By(Charged, a), r) <= HardMax[a][r]
    BY <2>1, DemandNat DEF LedgerOK
  <2> QED
    BY <2>1, <2>2, <2>3
<1> QED
  BY <1>1, <1>2, <1>3

(***************************************************************************)
(* Nothing asked for fits whatever was read.                               *)
(***************************************************************************)
LEMMA NothingFits ==
    ASSUME NEW n \in Runs, AvailOK(n)
    PROVE  Fit({}, runs[n].avail)
<1>1. \A a : By({}, a) = {}
  BY DEF By
<1>2. \A r \in Resources : DemandOf({}, r) = 0
  BY DemandEmpty
<1>3. \A r \in Resources : runs[n].avail.portfolio[r] \in Nat
  BY DEF AvailOK
<1>4. \A a \in Agents : \A r \in Resources : Headroom(runs[n].avail, a, r) \in Nat
  BY HeadroomBounds
<1>5. \A r \in Resources : DemandOf({}, r) <= runs[n].avail.portfolio[r]
  BY <1>2, <1>3
<1>6. \A r \in Resources : \A a \in Agents :
         DemandOf(By({}, a), r) <= Headroom(runs[n].avail, a, r)
  BY <1>1, <1>2, <1>4
<1> QED
  BY <1>5, <1>6 DEF Fit

\* Call n has read the ledger as it is and has asked for nothing.
Fresh(n) ==
    /\ LedgerOK
    /\ IsCall(runs[n]) /\ runs[n].avail = AvailabilityNow
    /\ runs[n].before = {} \/ runs[n].before = Spent
    /\ runs[n].todo = {} /\ runs[n].got = {} /\ runs[n].child = 0
    /\ runs[n].pc \in {"idle", "room"}

FreshIsOK == \A n \in Runs : Fresh(n) => CallOK(n)

(***************************************************************************)
(* A call that has read the ledger and asked for nothing.                  *)
(***************************************************************************)
LEMMA FreshCall == FreshIsOK
<1> SUFFICES ASSUME NEW n \in Runs, Fresh(n) PROVE CallOK(n)
  BY DEF FreshIsOK
<1> USE DEF Fresh
<1>1. AvailOK(n)
  <2> DEFINE old == Charged \cap runs[n].before
  <2>1. old \subseteq Charged /\ \A a : By(old, a) \subseteq By(Charged, a)
    BY DEF By
  <2> HIDE DEF old
  <2>2. \A r \in Resources :
           AvailabilityNow.portfolio[r] \in Nat /\ AvailabilityNow.portfolio[r] + DemandOf(old, r) <= Limit[r]
    <3> TAKE r \in Resources
    <3>1. DemandOf(old, r) <= DemandOf(Charged, r) /\ DemandOf(old, r) \in Nat /\ DemandOf(Charged, r) \in Nat
      BY <2>1, DemandMonotone, DemandNat
    <3>2. /\ AvailabilityNow.portfolio[r] \in Nat
          /\ AvailabilityNow.portfolio[r] + DemandOf(Charged, r) = Limit[r]
      BY AvailabilityRead
    <3> QED
      BY <3>1, <3>2
  <2>3. \A a \in Agents : \A r \in DOMAIN HardMax[a] :
           /\ AvailabilityNow.agents[a][r] \in Nat
           /\ AvailabilityNow.agents[a][r] + DemandOf(By(old, a), r) <= HardMax[a][r]
    <3> TAKE a \in Agents
    <3> TAKE r \in DOMAIN HardMax[a]
    <3>1. r \in Resources
      BY PortfolioAssumption
    <3>2. /\ DemandOf(By(old, a), r) <= DemandOf(By(Charged, a), r)
          /\ DemandOf(By(old, a), r) \in Nat /\ DemandOf(By(Charged, a), r) \in Nat
      BY <2>1, <3>1, DemandMonotone, DemandNat
    <3>3. /\ AvailabilityNow.agents[a][r] \in Nat
          /\ AvailabilityNow.agents[a][r] + DemandOf(By(Charged, a), r) = HardMax[a][r]
      BY AvailabilityRead
    <3> QED
      BY <3>2, <3>3
  <2>4. \A a \in Agents : DOMAIN AvailabilityNow.agents[a] = DOMAIN HardMax[a]
    BY AvailabilityRead
  <2> QED
    BY <2>2, <2>3, <2>4 DEF AvailOK, old
<1>2. Asked(n) = {}
  BY DEF Asked
<1>3. Fit(Asked(n), runs[n].avail)
  BY <1>1, <1>2, NothingFits
<1>4. AskedTyped(n) /\ AppendOK(n) /\ runs[n].before \subseteq Spent
  BY <1>2 DEF AskedTyped, AppendOK
<1> QED
  BY <1>1, <1>3, <1>4 DEF CallOK

(***************************************************************************)
(* Every call starts idle, with an empty ledger.                           *)
(***************************************************************************)
LEMMA CallsInit == Init => LedgerOK /\ CallsOK
<1> SUFFICES ASSUME Init PROVE LedgerOK /\ CallsOK
  OBVIOUS
<1>1. /\ held = [p \in Proposals |-> "none"] /\ runs = [n \in Runs |-> NoRunYet]
      /\ charges = [p \in Proposals |-> [r \in Resources |-> 0]] /\ revoked = FALSE
  BY DEF Init
<1>2. Charged = {} /\ \A a : By(Charged, a) = {}
  BY <1>1 DEF Charged, By
<1>3. LedgerOK
  <2>1. \A r \in Resources : DemandOf({}, r) = 0
    BY DemandEmpty
  <2>2. \A r \in Resources : Limit[r] \in Nat
    BY PortfolioAssumption DEF Vectors
  <2>3. \A a \in Agents : \A r \in DOMAIN HardMax[a] : r \in Resources /\ HardMax[a][r] \in Nat
    BY PortfolioAssumption DEF Vectors
  <2>4. held \in [Proposals -> {"none", "active", "closed", "consumed"}]
    BY <1>1
  <2>5. \A r \in Resources : DemandOf(Charged, r) <= Limit[r]
    BY <1>2, <2>1, <2>2
  <2>6. \A a \in Agents : \A r \in DOMAIN HardMax[a] : DemandOf(By(Charged, a), r) = 0
    BY <1>2, <2>1, <2>3
  <2>7. \A a \in Agents : \A r \in DOMAIN HardMax[a] : DemandOf(By(Charged, a), r) <= HardMax[a][r]
    BY <2>3, <2>6
  <2>8. ChargesHeld /\ revoked \in BOOLEAN
    BY <1>1 DEF ChargesHeld, Spent
  <2> QED
    BY <2>4, <2>5, <2>7, <2>8 DEF LedgerOK
<1>4. ASSUME NEW n \in Runs PROVE CallOK(n)
  <2>1. runs[n] = NoRunYet
    BY <1>1
  <2>2. /\ IsCall(runs[n]) /\ runs[n].avail = AvailabilityNow /\ runs[n].before = {}
        /\ runs[n].todo = {} /\ runs[n].got = {} /\ runs[n].child = 0 /\ runs[n].pc = "idle"
    BY <2>1 DEF NoRunYet, IsCall
  <2> QED
    BY <1>3, <2>2, FreshCall DEF Fresh, FreshIsOK
<1>5. runs = [n \in Runs |-> runs[n]]
  BY <1>1
<1> QED
  BY <1>3, <1>4, <1>5 DEF CallsOK

(***************************************************************************)
(* A call that starts has read the ledger as it is.                        *)
(***************************************************************************)
LEMMA StartOK ==
    ASSUME LedgerOK, CallsOK, NEW n \in Runs, Start(n)
    PROVE  LedgerOK' /\ CallsOK' /\ AvailOK(n)' /\ runs'[n].pc = "room"
<1> DEFINE d == [NoRunYet EXCEPT !.pc = "room", !.before = {p \in Proposals : held[p] # "none"}]
<1>1. runs' = [runs EXCEPT ![n] = d] /\ LedgerRests
  BY DEF Start, LedgerRests
<1>2. /\ IsCall(d) /\ d.avail = AvailabilityNow /\ d.before = Spent
      /\ d.todo = {} /\ d.got = {} /\ d.child = 0 /\ d.pc = "room"
  BY DEF NoRunYet, IsCall, Spent
<1> HIDE DEF d
<1>3. runs'[n] = d
  BY <1>1 DEF CallsOK
<1>4. LedgerOK' /\ Spent' = Spent /\ AvailabilityNow' = AvailabilityNow /\ LedgerMoves
  <2>1. LedgerMoves
    BY <1>1 DEF LedgerMoves
  <2>2. LedgerOK'
    BY <2>1, MovesKept
  <2>3. Spent' = Spent /\ Charged' = Charged
    BY <1>1 DEF Spent, Charged, LedgerRests
  <2>4. charges' = charges
    BY <1>1 DEF LedgerRests
  <2>5. AvailabilityNow' = AvailabilityNow
    BY <2>3, <2>4, Zenon DEF AvailabilityNow, Available, OwnAvailable, ChargeOf
  <2> QED
    BY <2>1, <2>2, <2>3, <2>5
<1>5. /\ IsCall(runs[n])' /\ runs'[n].avail = AvailabilityNow' /\ runs'[n].before = Spent'
      /\ runs'[n].todo = {} /\ runs'[n].got = {} /\ runs'[n].child = 0 /\ runs'[n].pc = "room"
  BY <1>2, <1>3, <1>4 DEF IsCall
<1>6. CallOK(n)'
  <2>1. FreshIsOK'
    BY FreshCall, PTL
  <2>2. Fresh(n)'
    BY <1>4, <1>5 DEF Fresh
  <2> QED
    BY <2>1, <2>2 DEF FreshIsOK
<1>7. LedgerOK' /\ CallsOK'
  BY <1>1, <1>4, <1>6, OneCallMoves
<1> QED
  BY <1>5, <1>6, <1>7 DEF CallOK

(***************************************************************************)
(* A verified Room asks for what it accepted, any other for nothing.       *)
(***************************************************************************)
LEMMA VerifyOK ==
    ASSUME LedgerOK, CallsOK, host \in Runs, runs[host].pc = "room", accepted \subseteq Proposals,
           Verify
    PROVE  LedgerOK' /\ CallsOK'
<1>0. PICK n \in Runs : n = host
  OBVIOUS
<1> DEFINE c == runs[n]
           t == IF Verified THEN accepted ELSE {}
           d == [runs[n] EXCEPT !.pc = "reserve", !.todo = t]
<1>1. runs' = [runs EXCEPT ![n] = d] /\ LedgerRests
  BY <1>0, Zenon DEF Verify, LedgerRests
<1>2. CallOK(n) /\ IsCall(c) /\ n \in DOMAIN runs /\ AvailOK(n) /\ c.before \subseteq Spent
  BY DEF CallsOK, CallOK
<1>3. /\ IsCall(d) /\ d.pc = "reserve" /\ d.todo = t /\ d.got = c.got /\ d.child = c.child
      /\ d.avail = c.avail /\ d.before = c.before
  BY <1>2 DEF IsCall
<1>4. t \subseteq Proposals
  OBVIOUS
<1>5. Fit(t, c.avail)
  <2>1. CASE Verified
    <3>1. AvailabilityVerified
      BY <2>1 DEF Verified
    <3> QED
      BY <1>0, <2>1, <3>1 DEF AvailabilityVerified, Fit
  <2>2. CASE ~Verified
    BY <1>2, <2>2, NothingFits
  <2> QED
    BY <2>1, <2>2
<1> HIDE DEF d, t
<1>6. Asked(n) = {} /\ c.child = 0 /\ c.got = {}
  <2>1. Asked(n) = {} /\ c.child = 0
    BY <1>0, <1>2 DEF CallOK, AskedTyped
  <2> QED
    BY <2>1 DEF Asked
<1>7. runs'[n] = d
  BY <1>1, <1>2
<1>8. Asked(n)' = t
  BY <1>3, <1>6, <1>7 DEF Asked
<1>9. 0 \notin Proposals
  BY PortfolioAssumption DEF Proposals
<1>10. AskedTyped(n)'
  <2>1. runs'[n].pc = "reserve" /\ runs'[n].todo = t /\ runs'[n].got = {} /\ runs'[n].child = 0
    BY <1>3, <1>6, <1>7
  <2> QED
    BY <1>4, <1>8, <1>9, <2>1 DEF AskedTyped
<1>11. AppendOK(n)' /\ IsCall(runs[n])'
  BY <1>3, <1>7 DEF AppendOK, IsCall
<1>12. Charged' = Charged /\ Spent' = Spent /\ LedgerMoves
  BY <1>1 DEF Charged, Spent, LedgerMoves, LedgerRests
<1>13. AvailOK(n)'
  BY <1>2, <1>3, <1>7, <1>12, AvailKept
<1>14. Fit(Asked(n), runs[n].avail)'
  <2>1. Fit(Asked(n)', runs'[n].avail)
    BY <1>3, <1>5, <1>7, <1>8
  <2> QED
    BY <2>1 DEF Fit, Headroom, DemandOf, By
<1>15. CallOK(n)'
  BY <1>2, <1>3, <1>7, <1>10, <1>11, <1>12, <1>13, <1>14 DEF CallOK
<1> QED
  BY <1>1, <1>12, <1>15, OneCallMoves

(***************************************************************************)
(* A reservation is settled, or the root revoked, while the calls wait.    *)
(***************************************************************************)
LEMMA SettleOK ==
    ASSUME LedgerOK, CallsOK, Revoke \/ \E p \in Proposals : Close(p) \/ Consume(p)
    PROVE  LedgerOK' /\ CallsOK'
<1>1. LedgerMoves /\ runs' = runs
  <2>1. CASE Revoke
    BY <2>1 DEF Revoke, Withdraws, LedgerMoves
  <2>2. ASSUME NEW p \in Proposals, Close(p) \/ Consume(p) PROVE Settles(p) /\ runs' = runs
    BY <2>2 DEF Close, Consume, Settles
  <2> QED
    BY <2>1, <2>2 DEF LedgerMoves
<1>2. LedgerMoves
  BY <1>1
<1>3. LedgerOK'
  BY <1>2, MovesKept
<1>4. \A n \in Runs : CallOK(n)'
  BY <1>1, <1>2, CallWaits DEF CallsOK
<1> QED
  BY <1>1, <1>3, <1>4 DEF CallsOK

(***************************************************************************)
(* A step that touches neither the ledger nor the calls.                   *)
(***************************************************************************)
LEMMA CallsQuiet ==
    ASSUME LedgerOK, CallsOK, LedgerRests, runs' = runs
    PROVE  LedgerOK' /\ CallsOK'
<1>1. LedgerMoves
  BY DEF LedgerMoves
<1>2. LedgerOK'
  BY <1>1, MovesKept
<1>3. \A n \in Runs : CallOK(n)'
  BY <1>1, CallWaits DEF CallsOK
<1> QED
  BY <1>2, <1>3 DEF CallsOK

------------------------------------------------------------------------------
(* The Room and its host.                                                   *)

\* One call at a time is inside the Room, and a target is of the last decision.
HostOK ==
    /\ phase = "none" <=> host = NoHost
    /\ host # NoHost => host \in Runs /\ runs[host].pc = "room"
    /\ phase # "decide" => target = NoTarget

\* The steps inside a Room.
Discussion ==
    \/ Act \/ HandleRelease \/ Screen \/ EndScreening
    \/ DecideOversize \/ DecideEligible \/ DecideLater \/ EndRound

(***************************************************************************)
(* A discussion goes on inside its call, and nothing outside it moves.     *)
(***************************************************************************)
LEMMA DiscussionKeeps ==
    ASSUME Discussion
    PROVE  LedgerRests /\ runs' = runs /\ host' = host /\ phase # "none" /\ phase' # "none"
<1>1. CASE Act
  BY <1>1 DEF Act, LedgerRests
<1>2. CASE HandleRelease
  BY <1>2 DEF HandleRelease, LedgerRests
<1>3. CASE Screen
  BY <1>3 DEF Screen, LedgerRests
<1>4. CASE EndScreening
  BY <1>4 DEF EndScreening, LedgerRests
<1>5. CASE DecideOversize
  BY <1>5 DEF DecideOversize, LedgerRests
<1>6. CASE DecideEligible
  BY <1>6 DEF DecideEligible, LedgerRests
<1>7. CASE DecideLater
  BY <1>7 DEF DecideLater, LedgerRests
<1>8. CASE EndRound
  BY <1>8 DEF EndRound, LedgerRests
<1> QED
  BY <1>1, <1>2, <1>3, <1>4, <1>5, <1>6, <1>7, <1>8 DEF Discussion

(***************************************************************************)
(* A reduction target is forgotten when the decisions are over.            *)
(***************************************************************************)
LEMMA TargetForgotten ==
    ASSUME HostOK, Discussion, phase' # "decide"
    PROVE  target' = NoTarget
<1>1. CASE Act \/ HandleRelease \/ Screen \/ EndScreening
  <2>1. phase # "decide" /\ target' = target
    <3>1. CASE Act
      BY <3>1 DEF Act
    <3>2. CASE HandleRelease
      BY <3>2 DEF HandleRelease
    <3>3. CASE Screen
      BY <3>3 DEF Screen
    <3>4. CASE EndScreening
      BY <3>4 DEF EndScreening
    <3> QED
      BY <1>1, <3>1, <3>2, <3>3, <3>4
  <2> QED
    BY <2>1 DEF HostOK
<1>2. CASE DecideOversize \/ DecideEligible \/ DecideLater
  BY <1>2 DEF DecideOversize, DecideEligible, DecideLater
<1>3. CASE EndRound
  BY <1>3 DEF EndRound
<1> QED
  BY <1>1, <1>2, <1>3 DEF Discussion

\* The steps of the calls outside the Room.
Reservation ==
    \/ \E n \in Runs : TakeChild(n) \/ DecideChild(n) \/ Attempt(n) \/ CompareAndAppend(n)
    \/ \E p \in Proposals : Close(p) \/ Consume(p)
    \/ Revoke

(***************************************************************************)
(* The calls reserve, and reservations settle, while no Room is in session.*)
(***************************************************************************)
LEMMA ReservationKeeps ==
    ASSUME Reservation
    PROVE  host = NoHost /\ host' = host /\ UNCHANGED roomVars
<1>1. ASSUME NEW n \in Runs, TakeChild(n) \/ DecideChild(n) \/ Attempt(n) \/ CompareAndAppend(n)
      PROVE  host = NoHost /\ host' = host /\ UNCHANGED roomVars
  <2>1. CASE TakeChild(n)
    BY <2>1 DEF TakeChild, Reserving
  <2>2. CASE DecideChild(n)
    BY <2>2 DEF DecideChild, Reserving
  <2>3. CASE Attempt(n)
    BY <2>3 DEF Attempt, Reserving
  <2>4. CASE CompareAndAppend(n)
    BY <2>4 DEF CompareAndAppend, Reserving
  <2> QED
    BY <1>1, <2>1, <2>2, <2>3, <2>4
<1>2. ASSUME NEW p \in Proposals, Close(p) \/ Consume(p)
      PROVE  host = NoHost /\ host' = host /\ UNCHANGED roomVars
  BY <1>2 DEF Close, Consume
<1>3. CASE Revoke
  BY <1>3 DEF Revoke
<1> QED
  BY <1>1, <1>2, <1>3 DEF Reservation

(***************************************************************************)
(* Every step is of a discussion, a verification, a start or a reservation.*)
(***************************************************************************)
LEMMA Steps ==
    ASSUME [Next]_vars
    PROVE  \/ Discussion \/ Verify \/ Reservation \/ UNCHANGED vars
           \/ \E n \in Runs : Start(n)
  BY DEF Next, RoomStep, Discussion, Reservation

(***************************************************************************)
(* One call at a time is inside the Room.                                  *)
(***************************************************************************)
LEMMA HostStep ==
    ASSUME HostOK, LedgerOK, CallsOK, [Next]_vars
    PROVE  HostOK'
<1>1. CASE Discussion
  BY <1>1, DiscussionKeeps, TargetForgotten DEF HostOK
<1>2. CASE Verify
  BY <1>2 DEF Verify, EmptyRoom, HostOK
<1>3. CASE Reservation
  <2>1. host = NoHost /\ host' = host /\ phase' = phase /\ target' = target
    BY <1>3, ReservationKeeps DEF roomVars
  <2> QED
    BY <2>1 DEF HostOK
<1>4. ASSUME NEW n \in Runs, Start(n) PROVE HostOK'
  <2>0. host' = n /\ phase' = "act" /\ host = NoHost /\ target' = target
    BY <1>4 DEF Start
  <2>1. runs'[n].pc = "room" /\ host' = n /\ phase' = "act" /\ host = NoHost /\ target' = target
    BY <1>4, <2>0, StartOK
  <2>2. n # NoHost /\ phase' # "none"
    BY <2>1, PortfolioAssumption
  <2>3. target' = NoTarget
    BY <2>1 DEF HostOK
  <2> QED
    BY <2>1, <2>2, <2>3 DEF HostOK
<1>5. CASE UNCHANGED vars
  BY <1>5 DEF HostOK, vars, roomVars
<1> QED
  BY <1>1, <1>2, <1>3, <1>4, <1>5, Steps

(***************************************************************************)
(* Every step keeps the ledger within the mandate and the calls' claims on *)
(* it justified.                                                           *)
(***************************************************************************)
LEMMA CallsStep ==
    ASSUME HostOK, LedgerOK, CallsOK, accepted \subseteq Proposals, [Next]_vars
    PROVE  LedgerOK' /\ CallsOK'
<1>1. CASE Discussion
  BY <1>1, DiscussionKeeps, CallsQuiet
<1>2. CASE Verify
  <2>1. host \in Runs /\ runs[host].pc = "room"
    BY <1>2 DEF Verify, HostOK
  <2> QED
    BY <1>2, <2>1, VerifyOK
<1>3. CASE Reservation
  <2>1. ASSUME NEW n \in Runs, TakeChild(n) \/ DecideChild(n) \/ Attempt(n) \/ CompareAndAppend(n)
        PROVE  LedgerOK' /\ CallsOK'
    BY <2>1, TakeChildOK, DecideChildOK, AttemptOK, CompareAndAppendOK
  <2>2. CASE Revoke \/ \E p \in Proposals : Close(p) \/ Consume(p)
    BY <2>2, SettleOK
  <2> QED
    BY <1>3, <2>1, <2>2 DEF Reservation
<1>4. ASSUME NEW n \in Runs, Start(n) PROVE LedgerOK' /\ CallsOK'
  BY <1>4, StartOK
<1>5. CASE UNCHANGED vars
  BY <1>5, CallsQuiet DEF vars, LedgerRests
<1> QED
  BY <1>1, <1>2, <1>3, <1>4, <1>5, Steps

------------------------------------------------------------------------------
(* Screening.                                                               *)

\* The proposals that passed the screening.
Passed == accepted \cup eligible \cup later

ScreenOK ==
    /\ accepted \subseteq Proposals /\ oversize \subseteq Proposals
    /\ byDigest \in [Proposals -> {"none", "good", "bad"}]
    /\ lastProposal \in [Agents -> Int]
    /\ \A p \in oversize : QuantityOnly(p)
    /\ \A p \in Passed : /\ Derivable(p) /\ byDigest[p] # "none"
                         /\ Proposal[p].sequence <= lastProposal[Proposal[p].agent]
    /\ \A p, q \in Passed : p # q /\ Proposal[p].agent = Proposal[q].agent
                               => Proposal[p].sequence # Proposal[q].sequence

(***************************************************************************)
(* A screened proposal is newer than every one that passed.                *)
(***************************************************************************)
LEMMA ScreenedOK ==
    ASSUME RoomInv, ScreenOK, Screen
    PROVE  ScreenOK'
<1>1. PICK sender \in Agents :
         LET m     == inbox[sender]
             p     == m.id
             agent == Proposal[p].agent
             extra == agent # sender \/ Replayed(p, m.authentic)
         IN  /\ NextSender(sender)
             /\ byDigest' = [byDigest EXCEPT ![p] = Signature(m)]
             /\ lastProposal' =
                   [lastProposal EXCEPT ![agent] =
                       IF m.authentic /\ Proposal[p].sequence > @ THEN Proposal[p].sequence ELSE @]
             /\ eligible' = IF m.authentic /\ Derivable(p) /\ ~extra
                            THEN eligible \cup {p} ELSE eligible
             /\ oversize' = IF m.authentic /\ QuantityOnly(p) /\ ~extra
                            THEN oversize \cup {p} ELSE oversize
  BY Zenon DEF Screen
<1> DEFINE m == inbox[sender]
           p == inbox[sender].id
           agent == Proposal[p].agent
<1>2. p \in Proposals
  <2>1. m \in Message /\ m.kind = "PROPOSE"
    BY <1>1 DEF RoomInv, RoomTyped, NextSender, Proposing
  <2> QED
    BY <2>1 DEF Message, Idle
<1>3. agent \in Agents /\ Proposal[p].sequence \in Nat
  BY <1>2, PortfolioAssumption
<1>4. accepted' = accepted /\ later' = later
  BY DEF Screen
<1>5. /\ eligible' = eligible
         \/ /\ eligible' = eligible \cup {p}
            /\ m.authentic /\ Derivable(p) /\ ~(Proposal[p].sequence <= lastProposal[agent])
      /\ oversize' = oversize \/ (oversize' = oversize \cup {p} /\ QuantityOnly(p))
  BY <1>1 DEF Replayed
<1>6. Signature(m) \in {"good", "bad"}
  BY DEF Signature
<1>7. /\ byDigest' = [byDigest EXCEPT ![p] = Signature(m)]
      /\ lastProposal' = [lastProposal EXCEPT ![agent] =
             IF m.authentic /\ Proposal[p].sequence > @ THEN Proposal[p].sequence ELSE @]
  BY <1>1
<1> HIDE DEF m, p, agent
<1>8. /\ byDigest' \in [Proposals -> {"none", "good", "bad"}]
      /\ byDigest'[p] # "none" /\ \A q \in Proposals : q # p => byDigest'[q] = byDigest[q]
  BY <1>2, <1>6, <1>7 DEF ScreenOK
<1>9. lastProposal \in [Agents -> Int]
  BY DEF ScreenOK
<1>10. /\ lastProposal' \in [Agents -> Int]
       /\ \A a \in Agents : lastProposal[a] <= lastProposal'[a]
       /\ m.authentic /\ ~(Proposal[p].sequence <= lastProposal[agent])
             => lastProposal'[agent] = Proposal[p].sequence
  <2> DEFINE new == IF m.authentic /\ Proposal[p].sequence > lastProposal[agent]
                    THEN Proposal[p].sequence ELSE lastProposal[agent]
  <2>1. lastProposal' = [lastProposal EXCEPT ![agent] = new]
    BY <1>7
  <2>2. /\ new \in Int /\ lastProposal[agent] <= new /\ lastProposal[agent] \in Int
        /\ m.authentic /\ ~(Proposal[p].sequence <= lastProposal[agent]) => new = Proposal[p].sequence
    BY <1>3, <1>9
  <2> HIDE DEF new
  <2> QED
    BY <1>3, <1>9, <2>1, <2>2
<1>11. Passed \subseteq Proposals /\ \A q \in Passed : Proposal[q].agent \in Agents /\ Proposal[q].sequence \in Nat
  <2>1. Passed \subseteq Proposals
    BY DEF Passed, ScreenOK, RoomInv, RoomTyped
  <2> QED
    BY <2>1, PortfolioAssumption
<1>12. \A q \in Passed : /\ Derivable(q) /\ byDigest'[q] # "none"
                         /\ Proposal[q].sequence <= lastProposal'[Proposal[q].agent]
  <2> TAKE q \in Passed
  <2>1. Derivable(q) /\ byDigest[q] # "none" /\ Proposal[q].sequence <= lastProposal[Proposal[q].agent]
    BY DEF ScreenOK
  <2>2. byDigest'[q] # "none"
    BY <1>8, <1>11, <2>1
  <2>3. /\ Proposal[q].agent \in Agents /\ Proposal[q].sequence \in Nat
        /\ lastProposal[Proposal[q].agent] \in Int /\ lastProposal'[Proposal[q].agent] \in Int
        /\ lastProposal[Proposal[q].agent] <= lastProposal'[Proposal[q].agent]
    BY <1>9, <1>10, <1>11
  <2> QED
    BY <2>1, <2>2, <2>3
<1>13. /\ \A q \in Passed' : /\ Derivable(q) /\ byDigest'[q] # "none"
                             /\ Proposal[q].sequence <= lastProposal'[Proposal[q].agent]
       /\ \A q, x \in Passed' : q # x /\ Proposal[q].agent = Proposal[x].agent
                                   => Proposal[q].sequence # Proposal[x].sequence
  <2>1. CASE eligible' = eligible
    <3>1. Passed' = Passed
      BY <1>4, <2>1 DEF Passed
    <3> QED
      BY <1>12, <3>1 DEF ScreenOK
  <2>2. CASE /\ eligible' = eligible \cup {p} /\ m.authentic /\ Derivable(p)
             /\ ~(Proposal[p].sequence <= lastProposal[agent])
    <3>1. Passed' = Passed \cup {p}
      BY <1>4, <2>2 DEF Passed
    <3>2. lastProposal'[agent] = Proposal[p].sequence
      BY <1>10, <2>2
    <3>3. /\ Derivable(p) /\ byDigest'[p] # "none"
          /\ Proposal[p].sequence <= lastProposal'[Proposal[p].agent]
      BY <1>3, <1>8, <2>2, <3>2 DEF agent
    <3>4. \A q \in Passed : Proposal[q].agent = Proposal[p].agent
                               => Proposal[q].sequence # Proposal[p].sequence
      BY <2>2 DEF ScreenOK, agent
    <3> QED
      BY <1>12, <3>1, <3>3, <3>4 DEF ScreenOK
  <2> QED
    BY <1>5, <2>1, <2>2
<1>14. oversize' \subseteq Proposals /\ \A q \in oversize' : QuantityOnly(q)
  BY <1>2, <1>5 DEF ScreenOK
<1> QED
  BY <1>4, <1>8, <1>10, <1>13, <1>14 DEF ScreenOK

(***************************************************************************)
(* Decisions leave fewer proposals to decide.                              *)
(***************************************************************************)
LEMMA ScreenLess ==
    ASSUME ScreenOK, Passed' \subseteq Passed, oversize' \subseteq oversize,
           accepted' \subseteq Proposals, byDigest' = byDigest, lastProposal' = lastProposal
    PROVE  ScreenOK'
<1>1. \A p \in Passed' : /\ Derivable(p) /\ byDigest'[p] # "none"
                         /\ Proposal[p].sequence <= lastProposal'[Proposal[p].agent]
  BY DEF ScreenOK
<1>2. \A p, q \in Passed' : p # q /\ Proposal[p].agent = Proposal[q].agent
                               => Proposal[p].sequence # Proposal[q].sequence
  BY DEF ScreenOK
<1>3. \A p \in oversize' : QuantityOnly(p)
  BY DEF ScreenOK
<1> QED
  BY <1>1, <1>2, <1>3 DEF ScreenOK

(***************************************************************************)
(* What passed the screening is never of a sequence used before.           *)
(***************************************************************************)
LEMMA ScreenStep ==
    ASSUME RoomInv, ScreenOK, [Next]_vars
    PROVE  ScreenOK'
<1>1. CASE UNCHANGED <<accepted, eligible, later, oversize, byDigest, lastProposal>>
  BY <1>1, ScreenLess DEF ScreenOK, Passed
<1>2. CASE Discussion
  <2>1. CASE Act
    BY <1>1, <2>1 DEF Act
  <2>2. CASE HandleRelease
    BY <1>1, <2>2 DEF HandleRelease
  <2>3. CASE Screen
    BY <2>3, ScreenedOK
  <2>4. CASE EndScreening
    BY <1>1, <2>4 DEF EndScreening
  <2>5. CASE DecideOversize
    <3>1. /\ oversize' \subseteq oversize /\ Passed' = Passed /\ accepted' = accepted
          /\ byDigest' = byDigest /\ lastProposal' = lastProposal
      BY <2>5 DEF DecideOversize, Passed
    <3> QED
      BY <3>1, ScreenLess DEF ScreenOK
  <2>6. CASE DecideEligible
    <3>1. PICK p \in eligible : /\ eligible' = eligible \ {p}
                                /\ \/ accepted' = accepted \cup {p} /\ later' = later
                                   \/ accepted' = accepted /\ later' = later \cup {p}
      BY <2>6 DEF DecideEligible, Accept
    <3>2. Passed' \subseteq Passed /\ accepted' \subseteq Proposals
      BY <3>1 DEF Passed, ScreenOK, RoomInv, RoomTyped
    <3>3. byDigest' = byDigest /\ lastProposal' = lastProposal /\ oversize' = oversize
      BY <2>6 DEF DecideEligible
    <3> QED
      BY <3>2, <3>3, ScreenLess
  <2>7. CASE DecideLater
    <3>1. PICK p \in later : /\ later' = later \ {p} \/ later' = later
                             /\ accepted' = accepted \cup {p} \/ accepted' = accepted
      BY <2>7 DEF DecideLater, Accept
    <3>2. byDigest' = byDigest /\ lastProposal' = lastProposal /\ oversize' = oversize /\ eligible' = eligible
      BY <2>7 DEF DecideLater
    <3>3. Passed' \subseteq Passed /\ accepted' \subseteq Proposals
      BY <3>1, <3>2 DEF Passed, ScreenOK, RoomInv, RoomTyped
    <3> QED
      BY <3>2, <3>3, ScreenLess
  <2>8. CASE EndRound
    BY <1>1, <2>8 DEF EndRound
  <2> QED
    BY <1>2, <2>1, <2>2, <2>3, <2>4, <2>5, <2>6, <2>7, <2>8 DEF Discussion
<1>3. CASE Verify
  <2>1. /\ accepted' = {} /\ eligible' = {} /\ later' = {} /\ oversize' = {}
        /\ byDigest' = [p \in Proposals |-> "none"] /\ lastProposal' = [a \in Agents |-> -1]
    BY <1>3 DEF Verify, EmptyRoom
  <2>2. Passed' = {}
    BY <2>1 DEF Passed
  <2>3. byDigest' \in [Proposals -> {"none", "good", "bad"}] /\ lastProposal' \in [Agents -> Int]
    BY <2>1
  <2> QED
    BY <2>1, <2>2, <2>3 DEF ScreenOK
<1>4. CASE Reservation
  BY <1>1, <1>4, ReservationKeeps DEF roomVars
<1>5. ASSUME NEW n \in Runs, Start(n) PROVE ScreenOK'
  BY <1>1, <1>5 DEF Start
<1>6. CASE UNCHANGED vars
  BY <1>1, <1>6 DEF vars, roomVars
<1> QED
  BY <1>2, <1>3, <1>4, <1>5, <1>6, Steps

------------------------------------------------------------------------------
(* Refusals.                                                                *)

(***************************************************************************)
(* While the ledger holds nothing but what was reserved before the call    *)
(* read it and what the call reserved itself, its child is allowed.        *)
(***************************************************************************)
LEMMA AllowedUnlessStale ==
    ASSUME LedgerOK, NEW n \in Runs, CallOK(n), runs[n].child # 0, held[runs[n].child] = "none",
           ~revoked, runs[n].charge = Proposal[runs[n].child].demand,
           Spent \subseteq runs[n].before \cup runs[n].got
    PROVE  LedgerAllows(runs[n].child, runs[n].charge)
<1> DEFINE c == runs[n].child
           av == runs[n].avail
           got == runs[n].got
           old == Charged \cap runs[n].before
           b == Proposal[c].agent
<1>1. Asked(n) \subseteq Proposals /\ c \notin got /\ Fit(Asked(n), av) /\ AvailOK(n)
  BY DEF CallOK, AskedTyped
<1>2. c \in Proposals /\ got \cup {c} \subseteq Asked(n)
  BY <1>1 DEF Asked
<1>3. b \in Agents
  BY <1>2, PortfolioAssumption
<1>4. Charged \subseteq old \cup got
  BY DEF Charged, Spent
<1>5. Fit(got \cup {c}, av)
  BY <1>1, <1>2, FewerFit
<1>6. /\ \A r \in Resources : av.portfolio[r] \in Nat /\ av.portfolio[r] + DemandOf(old, r) <= Limit[r]
      /\ \A r \in DOMAIN HardMax[b] :
            /\ av.agents[b][r] \in Nat
            /\ av.agents[b][r] + DemandOf(By(old, b), r) <= HardMax[b][r]
  BY <1>1, <1>3 DEF AvailOK
<1>7. By(Charged, b) \subseteq By(old, b) \cup By(got, b)
  BY <1>4 DEF By
<1>8. By(got \cup {c}, b) = By(got, b) \cup {c} /\ c \notin By(got, b)
  BY <1>1 DEF By
<1> HIDE DEF c, av, got, old, b
<1>9. ASSUME NEW r \in Resources PROVE Proposal[c].demand[r] <= Limit[r] - DemandOf(Charged, r)
  <2>1. DemandOf(Charged, r) <= DemandOf(old \cup got, r)
    BY <1>4, DemandMonotone
  <2>2. DemandOf(old \cup got, r) <= DemandOf(old, r) + DemandOf(got, r)
    BY DemandBoth
  <2>3. DemandOf(got \cup {c}, r) = DemandOf(got, r) + Proposal[c].demand[r]
    BY <1>1, <1>2, DemandAdd
  <2>4. DemandOf(got \cup {c}, r) <= av.portfolio[r]
    BY <1>5 DEF Fit
  <2>5. /\ DemandOf(Charged, r) \in Nat /\ DemandOf(old \cup got, r) \in Nat
        /\ DemandOf(old, r) \in Nat /\ DemandOf(got, r) \in Nat
    BY DemandNat
  <2>6. Limit[r] \in Nat /\ Proposal[c].demand[r] \in Nat
    BY <1>2, PortfolioAssumption DEF Vectors
  <2>7. av.portfolio[r] \in Nat /\ av.portfolio[r] + DemandOf(old, r) <= Limit[r]
    BY <1>6
  <2> QED
    BY <2>1, <2>2, <2>3, <2>4, <2>5, <2>6, <2>7
<1>10. ASSUME NEW r \in DOMAIN HardMax[b]
       PROVE  Proposal[c].demand[r] <= HardMax[b][r] - DemandOf(By(Charged, b), r)
  <2>0. r \in Resources /\ HardMax[b][r] \in Nat
    BY <1>3, PortfolioAssumption DEF Vectors
  <2>1. DemandOf(By(Charged, b), r) <= DemandOf(By(old, b) \cup By(got, b), r)
    BY <1>7, <2>0, DemandMonotone
  <2>2. DemandOf(By(old, b) \cup By(got, b), r) <= DemandOf(By(old, b), r) + DemandOf(By(got, b), r)
    BY <2>0, DemandBoth
  <2>3. DemandOf(By(got \cup {c}, b), r) = DemandOf(By(got, b), r) + Proposal[c].demand[r]
    <3> DEFINE ps == By(got, b)
    <3>1. c \in Proposals /\ c \notin ps /\ r \in Resources
      BY <1>2, <1>8, <2>0
    <3> HIDE DEF ps
    <3>2. DemandOf(ps \cup {c}, r) = DemandOf(ps, r) + Proposal[c].demand[r]
      BY <3>1, DemandAdd
    <3> QED
      BY <1>8, <3>2 DEF ps
  <2>4. DemandOf(By(got \cup {c}, b), r) <= Headroom(av, b, r)
    BY <1>3, <1>5, <2>0 DEF Fit
  <2>5. Headroom(av, b, r) \in Nat /\ Headroom(av, b, r) <= av.agents[b][r]
    BY <1>1, <1>3, <2>0, HeadroomBounds DEF av
  <2>6. /\ DemandOf(By(Charged, b), r) \in Nat /\ DemandOf(By(old, b) \cup By(got, b), r) \in Nat
        /\ DemandOf(By(old, b), r) \in Nat /\ DemandOf(By(got, b), r) \in Nat
    BY <2>0, DemandNat
  <2>7. Proposal[c].demand[r] \in Nat
    BY <1>2, <2>0, PortfolioAssumption DEF Vectors
  <2>8. av.agents[b][r] \in Nat /\ av.agents[b][r] + DemandOf(By(old, b), r) <= HardMax[b][r]
    BY <1>6
  <2> QED
    BY <2>0, <2>1, <2>2, <2>3, <2>4, <2>5, <2>6, <2>7, <2>8
<1>11. held[c] = "none" /\ runs[n].charge = Proposal[c].demand
  BY DEF c
<1>12. \A r \in DOMAIN HardMax[b] : r \in Resources
  BY <1>3, PortfolioAssumption
<1>13. /\ \A r \in Resources : runs[n].charge[r] <= Available(r)
       /\ \A r \in DOMAIN HardMax[b] : runs[n].charge[r] <= OwnAvailable(b, r)
  BY <1>3, <1>9, <1>10, <1>11, <1>12, ChargesAreDemands
<1> QED
  BY <1>11, <1>13 DEF LedgerAllows, b, c

\* The decision on the child in hand, and on what it charges.
Reservable(n) == Decides(n) /\ Exact(runs[n].child, runs[n].charge)

(***************************************************************************)
(* A child newly refused is the one in hand, and the engine does not       *)
(* decide it or decides a charge that is not its demand.                   *)
(***************************************************************************)
LEMMA RefusedStep ==
    ASSUME HostOK, LedgerOK, CallsOK, [Next]_vars, NEW n \in Runs,
           NEW p \in runs'[n].refused \ runs[n].refused
    PROVE  p = runs[n].child /\ runs[n].child # 0 /\ ~Reservable(n)
<1>1. CallOK(n) /\ IsCall(runs[n]) /\ n \in DOMAIN runs
  BY DEF CallsOK, CallOK
<1>2. CASE runs' = runs
  BY <1>2
<1>3. CASE Discussion
  BY <1>2, <1>3, DiscussionKeeps
<1>4. CASE Verify
  <2>1. host \in Runs
    BY <1>4 DEF Verify, HostOK
  <2>2. IsCall(runs[host]) /\ host \in DOMAIN runs
    BY <2>1 DEF CallsOK, CallOK
  <2>3. PICK t : runs' = [runs EXCEPT ![host] = [runs[host] EXCEPT !.pc = "reserve", !.todo = t]]
    BY <1>4, Zenon DEF Verify
  <2> QED
    BY <1>1, <2>2, <2>3 DEF IsCall
<1>5. ASSUME NEW m \in Runs, Start(m) PROVE FALSE
  <2> DEFINE d == [NoRunYet EXCEPT !.pc = "room", !.before = {q \in Proposals : held[q] # "none"}]
  <2>1. runs' = [runs EXCEPT ![m] = d]
    BY <1>5 DEF Start
  <2>2. d.refused = {}
    BY DEF NoRunYet
  <2> HIDE DEF d
  <2> QED
    BY <1>1, <2>1, <2>2
<1>6. ASSUME NEW m \in Runs, TakeChild(m) \/ DecideChild(m) \/ Attempt(m) \/ CompareAndAppend(m)
      PROVE  p = runs[n].child /\ runs[n].child # 0 /\ ~Reservable(n)
  <2>1. IsCall(runs[m]) /\ m \in DOMAIN runs /\ CallOK(m)
    BY DEF CallsOK, CallOK
  <2>2. CASE TakeChild(m)
    <3>1. PICK q, k : runs' = [runs EXCEPT ![m] = [runs[m] EXCEPT !.pc = "decide", !.child = q,
                                                                  !.charge = k, !.todo = @ \ {q}]]
      BY <2>2, Zenon DEF TakeChild
    <3> QED
      BY <1>1, <2>1, <3>1 DEF IsCall
  <2>3. ASSUME Refuse(m), ~Reservable(m), runs[m].pc \in {"decide", "attempt"}
        PROVE  p = runs[n].child /\ runs[n].child # 0 /\ ~Reservable(n)
    <3> DEFINE d == [runs[m] EXCEPT !.pc = "reserve", !.refused = @ \cup {runs[m].child},
                                    !.child = 0, !.charge = NoCharge, !.attempt = 0, !.version = 0]
    <3>1. runs' = [runs EXCEPT ![m] = d]
      BY <2>3, Zenon DEF Refuse
    <3>2. d.refused = runs[m].refused \cup {runs[m].child}
      BY <2>1 DEF IsCall
    <3> HIDE DEF d
    <3>3. n = m /\ p = runs[m].child
      BY <1>1, <2>1, <3>1, <3>2
    <3>4. runs[m].child # 0
      BY <2>1, <2>3 DEF CallOK, AskedTyped
    <3> QED
      BY <2>3, <3>3, <3>4
  <2>4. CASE DecideChild(m)
    <3> DEFINE d == [runs[m] EXCEPT !.pc = "attempt", !.attempt = 1]
    <3>1. runs' = [runs EXCEPT ![m] = d] \/ (Refuse(m) /\ ~Reservable(m))
      BY <2>4, Zenon DEF DecideChild, Reservable
    <3>2. d.refused = runs[m].refused
      BY <2>1 DEF IsCall
    <3>3. runs[m].pc = "decide"
      BY <2>4 DEF DecideChild, Reserving
    <3> HIDE DEF d
    <3>4. CASE runs' = [runs EXCEPT ![m] = d]
      BY <1>1, <2>1, <3>2, <3>4
    <3> QED
      BY <2>3, <3>1, <3>3, <3>4
  <2>5. CASE Attempt(m)
    <3> DEFINE d == [runs[m] EXCEPT !.pc = "append", !.version = Version]
    <3>1. runs' = [runs EXCEPT ![m] = d] \/ (Refuse(m) /\ ~Reservable(m))
      BY <2>5, Zenon DEF Attempt, Reservable
    <3>2. d.refused = runs[m].refused
      BY <2>1 DEF IsCall
    <3>3. runs[m].pc = "attempt"
      BY <2>5 DEF Attempt, Reserving
    <3> HIDE DEF d
    <3>4. CASE runs' = [runs EXCEPT ![m] = d]
      BY <1>1, <2>1, <3>2, <3>4
    <3> QED
      BY <2>3, <3>1, <3>3, <3>4
  <2>6. CASE CompareAndAppend(m)
    <3> DEFINE e == [runs[m] EXCEPT !.pc = "reserve", !.got = @ \cup {runs[m].child},
                                    !.child = 0, !.charge = NoCharge, !.attempt = 0, !.version = 0]
               d == [runs[m] EXCEPT !.pc = "attempt", !.attempt = @ + 1, !.version = 0]
               g == [runs[m] EXCEPT !.pc = "reserve", !.child = 0, !.charge = NoCharge,
                                    !.attempt = 0, !.version = 0]
    <3>1. \/ runs' = [runs EXCEPT ![m] = e] \/ runs' = [runs EXCEPT ![m] = d]
          \/ runs' = [runs EXCEPT ![m] = g]
      BY <2>6, Zenon DEF CompareAndAppend
    <3>2. e.refused = runs[m].refused /\ d.refused = runs[m].refused /\ g.refused = runs[m].refused
      BY <2>1 DEF IsCall
    <3> HIDE DEF d, e, g
    <3> QED
      BY <1>1, <2>1, <3>1, <3>2
  <2> QED
    BY <1>6, <2>2, <2>4, <2>5, <2>6
<1>7. CASE Revoke \/ \E q \in Proposals : Close(q) \/ Consume(q)
  BY <1>2, <1>7 DEF Close, Consume, Revoke
<1>8. CASE UNCHANGED vars
  BY <1>2, <1>8 DEF vars
<1> QED
  BY <1>2, <1>3, <1>4, <1>5, <1>6, <1>7, <1>8, Steps DEF Reservation

(***************************************************************************)
(* A step that refuses a child does so for staleness, unless the child is  *)
(* not decided or misstates its demand.                                    *)
(***************************************************************************)
LEMMA RefusalStep ==
    ASSUME HostOK, LedgerOK, CallsOK, [Next]_vars
    PROVE  \A n \in Runs : \A p \in runs'[n].refused \ runs[n].refused :
              \/ runs[n].charge = NoCharge
              \/ runs[n].charge # Proposal[p].demand
              \/ held[p] # "none" \/ revoked
              \/ \E q \in Proposals : /\ held[q] # "none"
                                      /\ q \notin runs[n].before \cup runs[n].got
<1> SUFFICES ASSUME NEW n \in Runs, NEW p \in runs'[n].refused \ runs[n].refused,
                    runs[n].charge # NoCharge, runs[n].charge = Proposal[p].demand,
                    held[p] = "none", ~revoked,
                    ~ \E q \in Proposals : /\ held[q] # "none"
                                           /\ q \notin runs[n].before \cup runs[n].got
             PROVE  FALSE
  OBVIOUS
<1>1. p = runs[n].child /\ runs[n].child # 0 /\ ~Reservable(n)
  BY RefusedStep
<1>2. Spent \subseteq runs[n].before \cup runs[n].got
  BY DEF Spent
<1>3. CallOK(n)
  BY DEF CallsOK
<1>4. LedgerAllows(runs[n].child, runs[n].charge)
  BY <1>1, <1>2, <1>3, AllowedUnlessStale
<1> QED
  BY <1>1, <1>4 DEF Reservable, Decides, Exact

------------------------------------------------------------------------------
(* Accepting within what the ledger had room for.                           *)

\* What the Room accepted fits what its call read of the ledger.
FitOK ==
    /\ phase = "none" => accepted = {}
    /\ phase # "none" => Fit(accepted, runs[host].avail)

(***************************************************************************)
(* An accepted demand that fits the ledger leaves everything accepted      *)
(* within it.                                                              *)
(***************************************************************************)
LEMMA AcceptFits ==
    ASSUME NEW n \in Runs, n = host, AvailOK(n), NEW p \in Proposals,
           Fit(accepted, runs[n].avail), FitsLedger(Proposal[p].agent, Proposal[p].demand)
    PROVE  Fit(accepted \cup {p}, runs[n].avail)
<1> DEFINE av == runs[n].avail
           b == Proposal[p].agent
<1>1. CASE p \in accepted
  <2>1. accepted \cup {p} = accepted
    BY <1>1
  <2> QED
    BY <2>1
<1>2. CASE p \notin accepted
  <2>1. b \in Agents /\ \A r \in Resources : Proposal[p].demand[r] \in Nat
    BY PortfolioAssumption DEF Vectors
  <2>2. \A r \in Resources : Proposal[p].demand[r] > 0 =>
           /\ DemandOf(accepted, r) + Proposal[p].demand[r] <= av.portfolio[r]
           /\ DemandOf(By(accepted, b), r) + Proposal[p].demand[r] <= Headroom(av, b, r)
    BY DEF FitsLedger
  <2>3. \A r \in Resources :
           /\ DemandOf(accepted, r) <= av.portfolio[r]
           /\ \A a \in Agents : DemandOf(By(accepted, a), r) <= Headroom(av, a, r)
    BY DEF Fit
  <2>4. By(accepted \cup {p}, b) = By(accepted, b) \cup {p} /\ p \notin By(accepted, b)
    BY <1>2 DEF By
  <2>5. \A a : a # b => By(accepted \cup {p}, a) = By(accepted, a)
    BY DEF By
  <2> HIDE DEF av, b
  <2>6. ASSUME NEW r \in Resources PROVE DemandOf(accepted \cup {p}, r) <= av.portfolio[r]
    <3>1. DemandOf(accepted \cup {p}, r) = DemandOf(accepted, r) + Proposal[p].demand[r]
      BY <1>2, DemandAdd
    <3>2. DemandOf(accepted, r) \in Nat /\ Proposal[p].demand[r] \in Nat
      BY <2>1, DemandNat
    <3>3. CASE Proposal[p].demand[r] > 0
      BY <2>2, <3>1, <3>3
    <3>4. CASE Proposal[p].demand[r] = 0
      BY <2>3, <3>1, <3>2, <3>4
    <3> QED
      BY <3>2, <3>3, <3>4
  <2>7. ASSUME NEW r \in Resources PROVE DemandOf(By(accepted \cup {p}, b), r) <= Headroom(av, b, r)
    <3> DEFINE ps == By(accepted, b)
    <3>0. p \notin ps
      BY <2>4
    <3> HIDE DEF ps
    <3>1. DemandOf(ps \cup {p}, r) = DemandOf(ps, r) + Proposal[p].demand[r]
      BY <3>0, DemandAdd
    <3>2. DemandOf(ps, r) \in Nat /\ Proposal[p].demand[r] \in Nat
      BY <2>1, DemandNat
    <3>3. DemandOf(ps \cup {p}, r) <= Headroom(av, b, r)
      <4>1. CASE Proposal[p].demand[r] > 0
        BY <2>2, <3>1, <4>1 DEF ps
      <4>2. CASE Proposal[p].demand[r] = 0
        <5>1. DemandOf(ps, r) <= Headroom(av, b, r)
          BY <2>1, <2>3 DEF ps
        <5>2. DemandOf(ps \cup {p}, r) = DemandOf(ps, r)
          BY <3>1, <3>2, <4>2
        <5> QED
          BY <5>1, <5>2
      <4> QED
        BY <3>2, <4>1, <4>2
    <3> QED
      BY <2>4, <3>3 DEF ps
  <2>8. ASSUME NEW r \in Resources, NEW a \in Agents
        PROVE  DemandOf(By(accepted \cup {p}, a), r) <= Headroom(av, a, r)
    <3>1. CASE a = b
      BY <2>7, <3>1
    <3>2. CASE a # b
      BY <2>3, <2>5, <3>2
    <3> QED
      BY <3>1, <3>2
  <2> QED
    BY <2>6, <2>8 DEF Fit, av
<1> QED
  BY <1>1, <1>2

(***************************************************************************)
(* Everything accepted stays within what the call read of the ledger.      *)
(***************************************************************************)
LEMMA FitStep ==
    ASSUME RoomInv, HostOK, LedgerOK, CallsOK, ScreenOK, FitOK, [Next]_vars
    PROVE  FitOK'
<1>1. CASE Discussion
  <2>0. /\ LedgerRests /\ runs' = runs /\ host' = host /\ phase # "none" /\ phase' # "none"
        /\ host \in Runs /\ Fit(accepted, runs[host].avail)
    BY <1>1, DiscussionKeeps DEF HostOK, FitOK
  <2>1. \/ accepted' = accepted
        \/ \E p \in Proposals : /\ accepted' = accepted \cup {p}
                                /\ FitsLedger(Proposal[p].agent, Proposal[p].demand)
    <3>1. CASE Act
      BY <3>1 DEF Act
    <3>2. CASE HandleRelease
      BY <3>2 DEF HandleRelease
    <3>3. CASE Screen
      BY <3>3 DEF Screen
    <3>4. CASE EndScreening \/ EndRound
      BY <3>4 DEF EndScreening, EndRound
    <3>5. CASE DecideOversize
      BY <3>5 DEF DecideOversize
    <3>6. CASE DecideEligible
      <4>1. eligible \subseteq Proposals
        BY DEF RoomInv, RoomTyped
      <4>2. \/ accepted' = accepted
            \/ \E p \in eligible : /\ accepted' = accepted \cup {p}
                                   /\ FitsLedger(Proposal[p].agent, Proposal[p].demand)
        BY <3>6, Zenon DEF DecideEligible, Accept
      <4> QED
        BY <4>1, <4>2
    <3>7. CASE DecideLater
      <4>1. later \subseteq Proposals
        BY DEF RoomInv, RoomTyped
      <4>2. \/ accepted' = accepted
            \/ \E p \in later : /\ accepted' = accepted \cup {p}
                                /\ FitsLedger(Proposal[p].agent, Proposal[p].demand)
        BY <3>7, Zenon DEF DecideLater, Accept
      <4> QED
        BY <4>1, <4>2
    <3> QED
      BY <1>1, <3>1, <3>2, <3>3, <3>4, <3>5, <3>6, <3>7 DEF Discussion
  <2>2. Fit(accepted', runs[host].avail)
    <3>1. AvailOK(host)
      BY <2>0 DEF CallsOK, CallOK
    <3> QED
      BY <2>0, <2>1, <3>1, AcceptFits
  <2>3. Fit(accepted, runs[host].avail)'
    BY <2>0, <2>2 DEF Fit, Headroom, DemandOf, By
  <2> QED
    BY <2>0, <2>3 DEF FitOK
<1>2. CASE Verify
  BY <1>2 DEF Verify, EmptyRoom, FitOK
<1>3. CASE Reservation
  <2>1. host = NoHost /\ phase' = phase /\ accepted' = accepted
    BY <1>3, ReservationKeeps DEF roomVars
  <2> QED
    BY <2>1 DEF FitOK, HostOK
<1>4. ASSUME NEW n \in Runs, Start(n) PROVE FitOK'
  <2>1. host' = n /\ phase' = "act" /\ host = NoHost /\ accepted' = accepted
    BY <1>4 DEF Start
  <2>2. accepted' = {}
    BY <2>1 DEF HostOK, FitOK
  <2>3. CallOK(n)' /\ runs'[n].pc = "room"
    BY <1>4, StartOK DEF CallsOK
  <2>4. Asked(n)' = {} /\ Fit(Asked(n), runs[n].avail)'
    BY <2>3 DEF CallOK, AskedTyped
  <2>5. Fit({}, runs[n].avail)'
    BY <2>4 DEF Fit, Headroom, DemandOf, By
  <2>6. Fit(accepted, runs[host].avail)'
    BY <2>1, <2>2, <2>5 DEF Fit, Headroom, DemandOf, By
  <2> QED
    BY <2>1, <2>6 DEF FitOK
<1>5. CASE UNCHANGED vars
  <2>1. phase' = phase /\ accepted' = accepted /\ runs' = runs /\ host' = host
    BY <1>5 DEF vars, roomVars
  <2>2. phase # "none" => Fit(accepted, runs[host].avail)'
    BY <2>1 DEF FitOK, Fit, Headroom, DemandOf, By
  <2> QED
    BY <2>1, <2>2 DEF FitOK
<1> QED
  BY <1>1, <1>2, <1>3, <1>4, <1>5, Steps

------------------------------------------------------------------------------
(* Reduction targets.                                                       *)

(***************************************************************************)
(* The least of three numbers is at most each, and at least any number     *)
(* that all three are.                                                     *)
(***************************************************************************)
LEMMA LeastOfThree ==
    ASSUME NEW x \in Int, NEW y \in Int, NEW z \in Int
    PROVE  /\ Min({x, y, z}) \in Int
           /\ \A w \in Int : w <= Min({x, y, z}) <=> w <= x /\ w <= y /\ w <= z
<1> DEFINE S == {x, y, z}
<1>1. \E m \in S : \A v \in S : m <= v
  <2>1. CASE x <= y /\ x <= z
    BY <2>1
  <2>2. CASE y <= x /\ y <= z
    BY <2>2
  <2>3. CASE z <= x /\ z <= y
    BY <2>3
  <2> QED
    BY <2>1, <2>2, <2>3
<1>2. Min(S) \in S /\ \A v \in S : Min(S) <= v
  BY <1>1, Zenon DEF Min
<1> DEFINE m == Min(S)
<1>3. m \in {x, y, z} /\ m <= x /\ m <= y /\ m <= z
  BY <1>2
<1> HIDE DEF m
<1>4. m \in Int /\ \A w \in Int : w <= m <=> w <= x /\ w <= y /\ w <= z
  BY <1>3
<1> QED
  BY <1>4 DEF m

(***************************************************************************)
(* What the lots hold of a resource is never negative.                     *)
(***************************************************************************)
LEMMA PooledNat ==
    ASSUME NEW b, BookOK(b), NEW r \in Resources
    PROVE  Pooled(b, r) \in Nat
<1> DEFINE n == Len(b.lots)
           f == [i \in DOMAIN b.lots |-> b.lots[i][r]]
<1>1. n \in Nat /\ DOMAIN b.lots = 1 .. n
  BY DEF BookOK, BookTyped
<1>2. \A i \in 1 .. n : b.lots[i][r] \in Int /\ b.lots[i][r] >= 0
  BY <1>1 DEF BookOK, BookTyped, BookInvariant
<1>3. \A i \in 1 .. n : f[i] \in Nat
  BY <1>1, <1>2
<1> HIDE DEF n, f
<1>4. SumTo(f, n) \in Nat
  BY <1>1, <1>3, SumToNat
<1> QED
  BY <1>4 DEF Pooled, f, n

\* What plan asks of agent a to commit w of r.
PlanAt(b, a, r, w) ==
    w - Unused(b, a, r) > 0 =>
        /\ Mode # "PREALLOCATED"
        /\ w - Unused(b, a, r) <= Pooled(b, r)
        /\ b.allocated[a][r] + (w - Unused(b, a, r)) <= AgentCap(a, r)

(***************************************************************************)
(* Obtainable is exactly what can be planned of one resource.              *)
(***************************************************************************)
LEMMA ObtainablePlans ==
    ASSUME NEW b, BookOK(b), NEW a \in Agents, NEW r \in Resources
    PROVE  /\ Obtainable(b, a, r) \in Nat
           /\ \A w \in Int : PlanAt(b, a, r, w) <=> w <= Obtainable(b, a, r)
<1> DEFINE al == b.allocated[a][r]
           cm == b.committed[a][r]
           un == Unused(b, a, r)
           pl == Pooled(b, r)
           cp == AgentCap(a, r)
           ob == Obtainable(b, a, r)
<1>1. al \in Int /\ cm \in Int /\ cm <= al
  BY DEF BookOK, BookTyped, BookInvariant
<1>2. un = al - cm
  BY DEF Unused
<1>3. pl \in Nat
  BY PooledNat
<1>4. cp \in Nat
  BY PortfolioAssumption DEF AgentCap, Vectors
<1>5. Mode # "PREALLOCATED" => al <= cp
  BY DEF BookOK, BookInvariant
<1>6. ob = un + (IF Mode = "PREALLOCATED" THEN 0 ELSE IF cp - al < pl THEN cp - al ELSE pl)
  BY DEF Obtainable
<1>7. \A w \in Int : PlanAt(b, a, r, w) <=>
         (w - un > 0 => Mode # "PREALLOCATED" /\ w - un <= pl /\ al + (w - un) <= cp)
  BY DEF PlanAt
<1> HIDE DEF al, cm, un, pl, cp, ob
<1>8. un \in Nat
  BY <1>1, <1>2
<1>9. CASE Mode = "PREALLOCATED"
  <2>1. ob = un
    BY <1>6, <1>8, <1>9
  <2>2. \A w \in Int : PlanAt(b, a, r, w) <=> ~(w - un > 0)
    BY <1>7, <1>9
  <2>3. \A w \in Int : ~(w - un > 0) <=> w <= ob
    BY <2>1, <1>8
  <2> QED
    BY <1>8, <2>1, <2>2, <2>3 DEF ob
<1>10. CASE Mode # "PREALLOCATED"
  <2>1. al <= cp /\ ob = un + (IF cp - al < pl THEN cp - al ELSE pl)
    BY <1>5, <1>6, <1>10
  <2>2. ob \in Nat
    BY <2>1, <1>1, <1>3, <1>4, <1>8
  <2>3. \A w \in Int : PlanAt(b, a, r, w) <=>
           (w - un > 0 => w - un <= pl /\ al + (w - un) <= cp)
    BY <1>7, <1>10
  <2>4. ASSUME NEW w \in Int
        PROVE  (w - un > 0 => w - un <= pl /\ al + (w - un) <= cp) <=> w <= ob
    BY <2>1, <1>1, <1>3, <1>4, <1>8
  <2> QED
    BY <2>2, <2>3, <2>4 DEF ob
<1> QED
  BY <1>9, <1>10

\* What fitsLedger asks of agent a to commit w of r.
FitsAt(a, r, w) ==
    w > 0 => /\ DemandOf(accepted, r) + w <= runs[host].avail.portfolio[r]
             /\ DemandOf(By(accepted, a), r) + w <= Headroom(runs[host].avail, a, r)

\* The most that both allow.
MostAt(a, r) ==
    Min({Obtainable(book, a, r),
         Headroom(runs[host].avail, a, r) - DemandOf(By(accepted, a), r),
         runs[host].avail.portfolio[r] - DemandOf(accepted, r)})

(***************************************************************************)
(* An amount of one resource can be planned and fits the ledger exactly    *)
(* when it is at most MostAt, or not positive.                             *)
(***************************************************************************)
LEMMA MostIsMost ==
    ASSUME BookOK(book), host \in Runs, AvailOK(host), NEW a \in Agents, NEW r \in Resources
    PROVE  /\ MostAt(a, r) \in Int
           /\ \A w \in Int : FitsAt(a, r, w) /\ PlanAt(book, a, r, w)
                                <=> w <= 0 \/ w <= MostAt(a, r)
<1> DEFINE ob == Obtainable(book, a, r)
           hd == Headroom(runs[host].avail, a, r)
           pf == runs[host].avail.portfolio[r]
           mine == DemandOf(By(accepted, a), r)
           all == DemandOf(accepted, r)
           most == MostAt(a, r)
<1>1. ob \in Nat /\ \A w \in Int : PlanAt(book, a, r, w) <=> w <= ob
  BY ObtainablePlans
<1>2. hd \in Nat /\ pf \in Nat
  BY HeadroomBounds
<1>3. mine \in Nat /\ all \in Nat
  BY DemandNat
<1>4. most = Min({ob, hd - mine, pf - all})
  BY DEF MostAt
<1>5. \A w \in Int : FitsAt(a, r, w) <=> (w > 0 => all + w <= pf /\ mine + w <= hd)
  BY DEF FitsAt
<1> HIDE DEF ob, hd, pf, mine, all, most
<1>6. hd - mine \in Int /\ pf - all \in Int
  BY <1>2, <1>3
<1>7. most \in Int /\ \A w \in Int : w <= most <=> w <= ob /\ w <= hd - mine /\ w <= pf - all
  BY <1>1, <1>4, <1>6, LeastOfThree
<1>8. ASSUME NEW w \in Int
      PROVE  FitsAt(a, r, w) /\ PlanAt(book, a, r, w) <=> w <= 0 \/ w <= most
  <2>1. PlanAt(book, a, r, w) <=> w <= ob
    BY <1>1
  <2>2. FitsAt(a, r, w) <=> (w > 0 => all + w <= pf /\ mine + w <= hd)
    BY <1>5
  <2>3. w <= most <=> w <= ob /\ w <= hd - mine /\ w <= pf - all
    BY <1>7
  <2>4. w <= 0 => w <= ob
    BY <1>1
  <2>5. /\ all + w <= pf <=> w <= pf - all
        /\ mine + w <= hd <=> w <= hd - mine
    BY <1>2, <1>3
  <2>6. w <= 0 <=> ~(w > 0)
    OBVIOUS
  <2> QED
    BY <2>1, <2>2, <2>3, <2>4, <2>5, <2>6
<1> QED
  BY <1>7, <1>8 DEF most

\* The checks that accept a demand of agent a.
Acceptable(a, want) == FitsLedger(a, want) /\ CanPlan(a, want)

(***************************************************************************)
(* A demand is acceptable when each of its amounts is.                     *)
(***************************************************************************)
LEMMA AcceptableAt ==
    ASSUME BookOK(book), host \in Runs, AvailOK(host), NEW a \in Agents,
           NEW want, \A r \in Resources : want[r] \in Int
    PROVE  Acceptable(a, want)
               <=> \A r \in Resources : want[r] <= 0 \/ want[r] <= MostAt(a, r)
<1>1. FitsLedger(a, want) <=> \A r \in Resources : FitsAt(a, r, want[r])
  BY Zenon DEF FitsLedger, FitsAt
<1>2. CanPlan(a, want) <=> \A r \in Resources : PlanAt(book, a, r, want[r])
  BY Zenon DEF CanPlan, PlanAt
<1>3. \A r \in Resources :
         FitsAt(a, r, want[r]) /\ PlanAt(book, a, r, want[r])
             <=> want[r] <= 0 \/ want[r] <= MostAt(a, r)
  BY MostIsMost
<1> QED
  BY <1>1, <1>2, <1>3 DEF Acceptable

(***************************************************************************)
(* A target is acceptable, and with one more atom of a demanded resource   *)
(* it is not.                                                              *)
(***************************************************************************)
LEMMA TargetIsMost ==
    ASSUME BookOK(book), host \in Runs, AvailOK(host), NEW p \in Proposals
    PROVE  LET a == Proposal[p].agent
               t == TargetFor(p)
           IN  /\ Acceptable(a, t)
               /\ \A r \in Demanded(p) : ~Acceptable(a, [t EXCEPT ![r] = @ + 1])
<1> DEFINE a == Proposal[p].agent
           t == TargetFor(p)
<1>1. a \in Agents
  BY PortfolioAssumption
<1>2. t = [r \in Resources |-> IF r \in Demanded(p) /\ MostAt(a, r) > 0 THEN MostAt(a, r) ELSE 0]
  BY Zenon DEF TargetFor, MostAt
<1> HIDE DEF a, t
<1>3. \A r \in Resources : MostAt(a, r) \in Int
  BY <1>1, MostIsMost
<1>4. \A r \in Resources : t[r] \in Int /\ (t[r] <= 0 \/ t[r] <= MostAt(a, r))
  BY <1>2, <1>3
<1>5. Acceptable(a, t)
  BY <1>1, <1>4, AcceptableAt
<1>6. ASSUME NEW r \in Demanded(p) PROVE ~Acceptable(a, [t EXCEPT ![r] = @ + 1])
  <2> DEFINE u == [t EXCEPT ![r] = @ + 1]
  <2>1. r \in Resources
    BY DEF Demanded
  <2>2. u[r] = t[r] + 1 /\ \A s \in Resources : u[s] \in Int
    BY <1>2, <1>4, <2>1
  <2>3. t[r] \in Int /\ t[r] = IF MostAt(a, r) > 0 THEN MostAt(a, r) ELSE 0
    BY <1>2, <1>4, <2>1
  <2> HIDE DEF u
  <2>4. ~(u[r] <= 0 \/ u[r] <= MostAt(a, r))
    BY <1>3, <2>1, <2>2, <2>3
  <2>5. ~Acceptable(a, u)
    BY <1>1, <2>1, <2>2, <2>4, AcceptableAt
  <2> QED
    BY <2>5 DEF u
<1> QED
  BY <1>5, <1>6 DEF a, t

\* A target is of a proposal the checks refuse, from the Room as it is.
IsTargetOf(p) ==
    /\ target = [proposal |-> p, amounts |-> TargetFor(p)]
    /\ ~Acceptable(Proposal[p].agent, Proposal[p].demand)

TargetOK == target # NoTarget => \E p \in Proposals : IsTargetOf(p)

(***************************************************************************)
(* Such a target is the most there is.                                     *)
(***************************************************************************)
LEMMA TargetsAreMost ==
    ASSUME RoomInv, HostOK, CallsOK, TargetOK
    PROVE  ReductionTargetIsMost
<1> SUFFICES ASSUME target # NoTarget PROVE ReductionTargetIsMost
  BY DEF ReductionTargetIsMost
<1>1. PICK p \in Proposals : IsTargetOf(p)
  BY DEF TargetOK
<1>2. target.proposal = p /\ target.amounts = TargetFor(p)
  BY <1>1 DEF IsTargetOf
<1>3. host \in Runs
  BY DEF HostOK
<1>4. BookOK(book) /\ AvailOK(host)
  BY <1>3 DEF RoomInv, CallsOK, CallOK
<1>5. /\ Acceptable(Proposal[p].agent, TargetFor(p))
      /\ \A r \in Demanded(p) : ~Acceptable(Proposal[p].agent, [TargetFor(p) EXCEPT ![r] = @ + 1])
  BY <1>3, <1>4, TargetIsMost
<1>6. ~Acceptable(Proposal[p].agent, Proposal[p].demand)
  BY <1>1 DEF IsTargetOf
<1> QED
  BY <1>2, <1>5, <1>6, Zenon DEF ReductionTargetIsMost, Acceptable

(***************************************************************************)
(* A demand beyond the mandate is beyond what the ledger had room for.     *)
(***************************************************************************)
LEMMA OversizeRefused ==
    ASSUME host \in Runs, AvailOK(host), NEW p \in Proposals, QuantityOnly(p)
    PROVE  ~Acceptable(Proposal[p].agent, Proposal[p].demand)
<1> DEFINE a == Proposal[p].agent
           d == Proposal[p].demand
           hd(r) == Headroom(runs[host].avail, a, r)
           pf(r) == runs[host].avail.portfolio[r]
<1>1. a \in Agents /\ \A r \in Resources : d[r] \in Nat /\ Limit[r] \in Nat
  BY PortfolioAssumption DEF Vectors
<1>2. \/ \E r \in DOMAIN HardMax[a] : ~(d[r] <= HardMax[a][r])
      \/ \E r \in Resources : ~(d[r] <= Limit[r])
  BY DEF QuantityOnly, WithinMandate
<1>3. DOMAIN HardMax[a] \subseteq Resources /\ \A r \in DOMAIN HardMax[a] : HardMax[a][r] \in Nat
  BY <1>1, PortfolioAssumption DEF Vectors
<1>4. \A r \in Resources : /\ pf(r) \in Nat /\ hd(r) \in Nat /\ pf(r) <= Limit[r]
                           /\ r \in DOMAIN HardMax[a] => hd(r) <= HardMax[a][r]
  BY <1>1, HeadroomBounds
<1>5. ASSUME NEW r \in Resources, d[r] > 0, FitsLedger(a, d)
      PROVE  DemandOf(accepted, r) + d[r] <= pf(r) /\ DemandOf(By(accepted, a), r) + d[r] <= hd(r)
  BY <1>5 DEF FitsLedger
<1>6. \A r \in Resources : DemandOf(accepted, r) \in Nat /\ DemandOf(By(accepted, a), r) \in Nat
  BY DemandNat
<1> HIDE DEF a, d, hd, pf
<1>7. ASSUME FitsLedger(a, d), NEW r \in Resources
      PROVE  d[r] <= Limit[r] /\ (r \in DOMAIN HardMax[a] => d[r] <= HardMax[a][r])
  <2>1. CASE d[r] > 0
    <3>1. d[r] <= pf(r) /\ d[r] <= hd(r)
      BY <1>1, <1>4, <1>5, <1>6, <1>7, <2>1
    <3> QED
      BY <3>1, <1>1, <1>3, <1>4
  <2>2. CASE ~(d[r] > 0)
    <3>1. d[r] = 0
      BY <1>1, <2>2
    <3> QED
      BY <3>1, <1>1, <1>3
  <2> QED
    BY <2>1, <2>2
<1> QED
  BY <1>2, <1>3, <1>7 DEF Acceptable, a, d

(***************************************************************************)
(* A decision to reduce sets such a target.                                *)
(***************************************************************************)
LEMMA ReduceSetsTarget ==
    ASSUME NEW p \in Proposals, ReduceOrReject(p),
           ~Acceptable(Proposal[p].agent, Proposal[p].demand),
           UNCHANGED <<book, accepted, runs, host>>
    PROVE  TargetOK'
<1>1. target' = NoTarget \/ target' = [proposal |-> p, amounts |-> TargetFor(p)]
  BY Zenon DEF ReduceOrReject
<1>2. TargetFor(p)' = TargetFor(p)
  BY DEF TargetFor, Obtainable, Unused, Pooled, DemandOf, By
<1>3. ~Acceptable(Proposal[p].agent, Proposal[p].demand)'
  BY Zenon DEF Acceptable, FitsLedger, CanPlan, Unused, Pooled, Headroom, DemandOf, By
<1>4. CASE target' = NoTarget
  <2>1. (target = NoTarget)'
    BY <1>4 DEF NoTarget
  <2> QED
    BY <2>1 DEF TargetOK
<1>5. CASE target' = [proposal |-> p, amounts |-> TargetFor(p)]
  <2>1. IsTargetOf(p)'
    BY <1>2, <1>3, <1>5 DEF IsTargetOf
  <2> QED
    BY <2>1 DEF TargetOK
<1> QED
  BY <1>1, <1>4, <1>5

(***************************************************************************)
(* Every step leaves no target, or one from the Room as it is.             *)
(***************************************************************************)
LEMMA TargetStep ==
    ASSUME RoomInv, HostOK, LedgerOK, CallsOK, ScreenOK, TargetOK, [Next]_vars
    PROVE  TargetOK'
<1>0. ASSUME target' = NoTarget PROVE TargetOK'
  <2>1. (target = NoTarget)'
    BY <1>0 DEF NoTarget
  <2> QED
    BY <2>1 DEF TargetOK
<1>1. ASSUME target' = target, phase # "decide" PROVE TargetOK'
  BY <1>0, <1>1 DEF HostOK
<1>2. ASSUME phase = "decide" PROVE host \in Runs /\ AvailOK(host)
  BY <1>2 DEF HostOK, CallsOK, CallOK
<1>3. CASE Act
  BY <1>1, <1>3 DEF Act
<1>4. CASE HandleRelease
  BY <1>1, <1>4 DEF HandleRelease
<1>5. CASE Screen
  BY <1>1, <1>5 DEF Screen
<1>6. CASE EndScreening
  BY <1>1, <1>6 DEF EndScreening
<1>7. CASE DecideOversize
  <2>1. PICK p \in oversize : ReduceOrReject(p)
    BY <1>7 DEF DecideOversize
  <2>2. phase = "decide" /\ UNCHANGED <<book, accepted, runs, host>>
    BY <1>7 DEF DecideOversize
  <2>3. p \in Proposals /\ QuantityOnly(p)
    BY DEF ScreenOK
  <2> QED
    BY <1>2, <2>1, <2>2, <2>3, OversizeRefused, ReduceSetsTarget
<1>8. CASE DecideEligible
  BY <1>0, <1>8 DEF DecideEligible, Accept
<1>9. CASE DecideLater
  <2>1. PICK p \in later :
           \/ target' = NoTarget
           \/ /\ ~(FitsLedger(Proposal[p].agent, Proposal[p].demand)
                     /\ CanPlan(Proposal[p].agent, Proposal[p].demand))
              /\ ReduceOrReject(p)
              /\ UNCHANGED <<book, accepted>>
    BY <1>9, Zenon DEF DecideLater, Accept
  <2>2. p \in Proposals
    BY DEF RoomInv, RoomTyped
  <2>3. runs' = runs /\ host' = host
    BY <1>9 DEF DecideLater
  <2>4. ASSUME ~(FitsLedger(Proposal[p].agent, Proposal[p].demand)
                     /\ CanPlan(Proposal[p].agent, Proposal[p].demand)),
               ReduceOrReject(p), UNCHANGED <<book, accepted>>
        PROVE  TargetOK'
    <3>1. ~Acceptable(Proposal[p].agent, Proposal[p].demand)
      BY <2>4 DEF Acceptable
    <3>2. UNCHANGED <<book, accepted, runs, host>>
      BY <2>3, <2>4
    <3> QED
      BY <2>2, <2>4, <3>1, <3>2, ReduceSetsTarget
  <2> QED
    BY <1>0, <2>1, <2>4
<1>10. CASE EndRound
  BY <1>0, <1>10 DEF EndRound
<1>11. CASE Verify
  <2>1. phase' = "none" /\ target' = NoTarget
    BY <1>11 DEF Verify, EmptyRoom
  <2> QED
    BY <1>0, <2>1
<1>12. CASE Reservation
  <2>1. phase # "decide" /\ target' = target
    BY <1>12, ReservationKeeps DEF HostOK, roomVars
  <2> QED
    BY <1>1, <2>1
<1>13. ASSUME NEW n \in Runs, Start(n) PROVE TargetOK'
  <2>1. phase # "decide" /\ target' = target
    BY <1>13 DEF Start, HostOK
  <2> QED
    BY <1>1, <2>1
<1>14. CASE UNCHANGED vars
  <2>1. UNCHANGED <<book, accepted, runs, host, target>>
    BY <1>14 DEF vars, roomVars
  <2>2. CASE target = NoTarget
    BY <1>0, <2>1, <2>2
  <2>3. CASE target # NoTarget
    <3>1. PICK p \in Proposals : IsTargetOf(p)
      BY <2>3 DEF TargetOK
    <3>2. TargetFor(p)' = TargetFor(p)
      BY <2>1 DEF TargetFor, Obtainable, Unused, Pooled, DemandOf, By
    <3>3. ~Acceptable(Proposal[p].agent, Proposal[p].demand)'
      BY <2>1, <3>1, Zenon
         DEF IsTargetOf, Acceptable, FitsLedger, CanPlan, Unused, Pooled, Headroom, DemandOf, By
    <3>4. IsTargetOf(p)'
      BY <2>1, <3>1, <3>2, <3>3 DEF IsTargetOf
    <3> QED
      BY <3>4 DEF TargetOK
  <2> QED
    BY <2>2, <2>3
<1> QED
  BY <1>3, <1>4, <1>5, <1>6, <1>7, <1>8, <1>9, <1>10, <1>11, <1>12, <1>13, <1>14, Steps
     DEF Discussion

------------------------------------------------------------------------------
(* Replaying the operations of a book.                                      *)

ReplayStart == [ok |-> TRUE, book |-> InitialBook]

ReplayNext(s, op) ==
    IF s.ok /\ MayApply(s.book, op)
    THEN [ok |-> TRUE, book |-> Apply(s.book, op)]
    ELSE [ok |-> FALSE, book |-> s.book]

\* g is the table of what the first operations of ops, up to n, result in.
IsReplay(ops, n, g) ==
    g = [i \in 0 .. n |-> IF i = 0 THEN ReplayStart ELSE ReplayNext(g[i - 1], ops[i])]

(***************************************************************************)
(* Every log has a table.                                                  *)
(***************************************************************************)
LEMMA ReplayExists ==
    ASSUME NEW ops
    PROVE  \A n \in Nat : \E g : IsReplay(ops, n, g)
<1> DEFINE P == {n \in Nat : \E g : IsReplay(ops, n, g)}
<1>1. 0 \in P
  <2>1. IsReplay(ops, 0, [i \in 0 .. 0 |-> ReplayStart])
    BY DEF IsReplay
  <2> QED
    BY <2>1
<1>2. ASSUME NEW n \in Nat, n \in P
      PROVE  n + 1 \in P
  <2>1. PICK g : IsReplay(ops, n, g)
    BY <1>2
  <2> DEFINE h == [i \in 0 .. (n + 1) |-> IF i = n + 1 THEN ReplayNext(g[n], ops[n + 1]) ELSE g[i]]
  <2>2. \A i \in 0 .. n : h[i] = g[i]
    OBVIOUS
  <2>3. h[n + 1] = ReplayNext(g[n], ops[n + 1])
    OBVIOUS
  <2>4. \A i \in 0 .. n : g[i] = IF i = 0 THEN ReplayStart ELSE ReplayNext(g[i - 1], ops[i])
    BY <2>1 DEF IsReplay
  <2>5. h = [i \in 0 .. (n + 1) |-> h[i]]
    OBVIOUS
  <2> HIDE DEF h
  <2>6. ASSUME NEW i \in 0 .. (n + 1)
        PROVE  h[i] = IF i = 0 THEN ReplayStart ELSE ReplayNext(h[i - 1], ops[i])
    <3>1. CASE i = n + 1
      <4>1. i # 0 /\ i - 1 = n /\ n \in 0 .. n
        BY <3>1
      <4> QED
        BY <3>1, <4>1, <2>2, <2>3
    <3>2. CASE i \in 0 .. n
      <4>1. i # 0 => i - 1 \in 0 .. n
        BY <3>2
      <4> QED
        BY <3>2, <4>1, <2>2, <2>4
    <3> QED
      BY <3>1, <3>2
  <2>7. IsReplay(ops, n + 1, h)
    BY <2>5, <2>6 DEF IsReplay
  <2> QED
    BY <2>7
<1> HIDE DEF P
<1>3. Nat \subseteq P
  BY <1>1, <1>2, NatSetInduction
<1> QED
  BY <1>3 DEF P

(***************************************************************************)
(* The tables of two logs agree as long as the logs do.                    *)
(***************************************************************************)
LEMMA ReplaysAgree ==
    ASSUME NEW ops, NEW more, NEW n \in Nat, NEW m \in Nat, n <= m, NEW g, NEW h,
           \A i \in 1 .. n : more[i] = ops[i],
           IsReplay(ops, n, g), IsReplay(more, m, h)
    PROVE  h[n] = g[n]
<1> DEFINE P == {i \in Nat : i <= n => h[i] = g[i]}
<1>1. /\ \A i \in 0 .. n : g[i] = IF i = 0 THEN ReplayStart ELSE ReplayNext(g[i - 1], ops[i])
      /\ \A i \in 0 .. m : h[i] = IF i = 0 THEN ReplayStart ELSE ReplayNext(h[i - 1], more[i])
  BY DEF IsReplay
<1>2. 0 \in P
  BY <1>1
<1>3. ASSUME NEW i \in Nat, i \in P
      PROVE  i + 1 \in P
  <2> SUFFICES ASSUME i + 1 <= n PROVE h[i + 1] = g[i + 1]
    OBVIOUS
  <2>1. /\ i + 1 \in 0 .. n /\ i + 1 \in 0 .. m /\ i + 1 \in 1 .. n
        /\ i + 1 # 0 /\ (i + 1) - 1 = i /\ i <= n
    OBVIOUS
  <2>2. h[i] = g[i]
    BY <1>3, <2>1
  <2>3. g[i + 1] = ReplayNext(g[i], ops[i + 1]) /\ h[i + 1] = ReplayNext(h[i], more[i + 1])
    BY <1>1, <2>1
  <2> QED
    BY <2>1, <2>2, <2>3
<1> HIDE DEF P
<1>4. Nat \subseteq P
  BY <1>2, <1>3, NatSetInduction
<1> QED
  BY <1>4 DEF P

\* The table Replay reads.
Replays(ops) == CHOOSE g : IsReplay(ops, Len(ops), g)

(***************************************************************************)
(* Replay reads the end of its log's table.                                *)
(***************************************************************************)
LEMMA ReplayIsLast ==
    ASSUME NEW ops, Len(ops) \in Nat
    PROVE  IsReplay(ops, Len(ops), Replays(ops)) /\ Replay(ops) = Replays(ops)[Len(ops)]
<1>1. IsReplay(ops, Len(ops), Replays(ops))
  BY ReplayExists, Zenon DEF Replays
<1>2. Replay(ops) = Replays(ops)[Len(ops)]
  BY Zenon DEF Replay, Replays, IsReplay, ReplayStart, ReplayNext
<1> QED
  BY <1>1, <1>2

(***************************************************************************)
(* The empty log replays to the initial book.                              *)
(***************************************************************************)
LEMMA ReplayEmpty == Replay(<<>>) = ReplayStart
<1>1. Len(<<>>) = 0 /\ 0 \in 0 .. 0
  OBVIOUS
<1>2. IsReplay(<<>>, 0, Replays(<<>>)) /\ Replay(<<>>) = Replays(<<>>)[0]
  BY <1>1, ReplayIsLast
<1> QED
  BY <1>1, <1>2 DEF IsReplay

(***************************************************************************)
(* One more operation is applied to what the others result in.             *)
(***************************************************************************)
LEMMA ReplayAppend ==
    ASSUME NEW S, NEW ops \in Seq(S), NEW op
    PROVE  Replay(Append(ops, op)) = ReplayNext(Replay(ops), op)
<1> DEFINE more == Append(ops, op)
           n == Len(ops)
           g == Replays(ops)
           h == Replays(more)
<1>1. /\ n \in Nat /\ Len(more) = n + 1 /\ more[n + 1] = op
      /\ \A i \in 1 .. n : more[i] = ops[i]
  OBVIOUS
<1> HIDE DEF more
<1>2. IsReplay(ops, n, g) /\ Replay(ops) = g[n]
  BY <1>1, ReplayIsLast
<1>3. IsReplay(more, n + 1, h) /\ Replay(more) = h[n + 1]
  BY <1>1, ReplayIsLast
<1> HIDE DEF n, g, h
<1>4. h[n] = g[n]
  BY <1>1, <1>2, <1>3, ReplaysAgree
<1>5. n + 1 \in 0 .. (n + 1) /\ n + 1 # 0 /\ (n + 1) - 1 = n
  BY <1>1
<1>6. h[n + 1] = ReplayNext(h[n], more[n + 1])
  BY <1>3, <1>5 DEF IsReplay
<1> QED
  BY <1>1, <1>2, <1>3, <1>4, <1>6 DEF more

------------------------------------------------------------------------------
(* What the log of a book says.                                             *)

Claims ==
    [kind : {"CLAIM"}, id : Proposals \X Resources \X Nat, agent : Agents, lot : Nat,
     resource : Resources, amount : Int]

Operations == {CommitOp(p) : p \in Proposals} \cup {ReleaseOp(x) : x \in Releases} \cup Claims

Unique(ops) ==
    \A i, j \in DOMAIN ops : ops[i].kind = ops[j].kind /\ ops[i].id = ops[j].id => i = j

\* The log of a book is of distinct operations, and replays to the book.
LogOK(b) ==
    /\ b.log \in Seq(Operations)
    /\ Unique(b.log)
    /\ Replay(b.log) = [ok |-> TRUE, book |-> b]

(***************************************************************************)
(* The kind of an operation says which one it is.                          *)
(***************************************************************************)
LEMMA OperationKinds ==
    ASSUME NEW op \in Operations
    PROVE  /\ op.kind \in {"COMMIT", "RELEASE", "CLAIM"}
           /\ op.kind = "COMMIT" => op.id \in Proposals /\ op = CommitOp(op.id)
           /\ op.kind = "RELEASE" => op.id \in Releases /\ op = ReleaseOp(op.id)
<1>1. ASSUME NEW p \in Proposals, op = CommitOp(p)
      PROVE  op.kind = "COMMIT" /\ op.id = p
  BY <1>1 DEF CommitOp
<1>2. ASSUME NEW x \in Releases, op = ReleaseOp(x)
      PROVE  op.kind = "RELEASE" /\ op.id = x
  BY <1>2 DEF ReleaseOp
<1>3. ASSUME op \in Claims PROVE op.kind = "CLAIM"
  BY <1>3 DEF Claims
<1>4. \/ \E p \in Proposals : op = CommitOp(p)
      \/ \E x \in Releases : op = ReleaseOp(x)
      \/ op \in Claims
  BY DEF Operations
<1> QED
  BY <1>1, <1>2, <1>3, <1>4

(***************************************************************************)
(* Applying an operation logs it.                                          *)
(***************************************************************************)
LEMMA AppliedIsLogged ==
    ASSUME NEW b, BookTyped(b), NEW op, op.kind \in {"COMMIT", "RELEASE", "CLAIM"}
    PROVE  Apply(b, op).log = Append(b.log, op)
<1>1. b = [allocated |-> b.allocated, committed |-> b.committed, lots |-> b.lots, log |-> b.log]
  BY DEF BookTyped
<1>2. Committed(b, op).log = Append(b.log, op)
  BY <1>1 DEF Committed
<1>3. Released(b, op).log = Append(b.log, op)
  BY <1>1 DEF Released
<1>4. Claimed(b, op).log = Append(b.log, op)
  BY <1>1 DEF Claimed
<1> QED
  BY <1>2, <1>3, <1>4 DEF Apply

(***************************************************************************)
(* An operation a book admits keeps its log distinct and replayable.       *)
(***************************************************************************)
LEMMA LogGrows ==
    ASSUME NEW b, BookTyped(b), LogOK(b), NEW op \in Operations, MayApply(b, op)
    PROVE  /\ LogOK(Apply(b, op))
           /\ Apply(b, op).log = Append(b.log, op)
<1> DEFINE c == Apply(b, op)
           n == Len(b.log)
<1>1. c.log = Append(b.log, op)
  BY OperationKinds, AppliedIsLogged
<1>2. b.log \in Seq(Operations) /\ Unique(b.log) /\ Replay(b.log) = [ok |-> TRUE, book |-> b]
  BY DEF LogOK
<1>3. Replay(c.log) = [ok |-> TRUE, book |-> c]
  <2>1. Replay(Append(b.log, op)) = ReplayNext(Replay(b.log), op)
    BY <1>2, ReplayAppend
  <2>2. ReplayNext([ok |-> TRUE, book |-> b], op) = [ok |-> TRUE, book |-> c]
    BY DEF ReplayNext
  <2> HIDE DEF c
  <2> QED
    BY <1>1, <1>2, <2>1, <2>2
<1> HIDE DEF c
<1>4. /\ n \in Nat /\ DOMAIN b.log = 1 .. n /\ DOMAIN c.log = 1 .. (n + 1)
      /\ c.log[n + 1] = op /\ \A i \in 1 .. n : c.log[i] = b.log[i]
      /\ c.log \in Seq(Operations)
  BY <1>1, <1>2
<1>5. \A i \in 1 .. n : ~(b.log[i].kind = op.kind /\ b.log[i].id = op.id)
  BY <1>4 DEF MayApply, AppliedBefore
<1>6. Unique(c.log)
  <2> SUFFICES ASSUME NEW i \in 1 .. (n + 1), NEW j \in 1 .. (n + 1),
                      c.log[i].kind = c.log[j].kind, c.log[i].id = c.log[j].id
               PROVE  i = j
    BY <1>4 DEF Unique
  <2> HIDE DEF n
  <2>1. (i = n + 1 \/ i \in 1 .. n) /\ (j = n + 1 \/ j \in 1 .. n)
    BY <1>4
  <2>2. CASE i \in 1 .. n /\ j \in 1 .. n
    <3>1. b.log[i].kind = b.log[j].kind /\ b.log[i].id = b.log[j].id
      BY <1>4, <2>2
    <3> QED
      BY <1>2, <1>4, <2>2, <3>1 DEF Unique
  <2>3. CASE i \in 1 .. n /\ j = n + 1
    BY <1>4, <1>5, <2>3
  <2>4. CASE i = n + 1 /\ j \in 1 .. n
    BY <1>4, <1>5, <2>4
  <2> QED
    BY <2>1, <2>2, <2>3, <2>4
<1> QED
  BY <1>1, <1>3, <1>4, <1>6 DEF LogOK, c

(***************************************************************************)
(* The initial book has an empty log.                                      *)
(***************************************************************************)
LEMMA InitialLogOK == LogOK(InitialBook) /\ InitialBook.log = <<>>
<1>1. InitialBook.log = <<>>
  BY DEF InitialBook
<1> HIDE DEF InitialBook
<1>2. Replay(InitialBook.log) = [ok |-> TRUE, book |-> InitialBook]
  BY <1>1, ReplayEmpty DEF ReplayStart
<1> QED
  BY <1>1, <1>2 DEF LogOK, Unique

\* The commitments logged are those of the accepted proposals.
CommitsOK ==
    /\ \A i \in DOMAIN book.log : book.log[i].kind = "COMMIT" => book.log[i].id \in accepted
    /\ \A p \in accepted : \E i \in DOMAIN book.log : /\ book.log[i].kind = "COMMIT"
                                                      /\ book.log[i].id = p

\* Releases i and j of the log are of one agent.
SameAgent(i, j) == Release[book.log[i].id].agent = Release[book.log[j].id].agent

\* The releases logged were submitted, each agent's in sequence.
ReleasesOK ==
    /\ byRelease \in [Releases -> {"none", "good", "bad"}]
    /\ lastRelease \in [Agents -> Int]
    /\ \A i \in DOMAIN book.log : book.log[i].kind = "RELEASE" =>
          /\ byRelease[book.log[i].id] # "none"
          /\ Release[book.log[i].id].sequence <= lastRelease[Release[book.log[i].id].agent]
          /\ \A j \in DOMAIN book.log :
                book.log[j].kind = "RELEASE" /\ j < i /\ SameAgent(j, i)
                    => Release[book.log[j].id].sequence < Release[book.log[i].id].sequence

RecordOK == LogOK(book) /\ CommitsOK /\ ReleasesOK

(***************************************************************************)
(* Every accepted proposal is committed, exactly once.                     *)
(***************************************************************************)
LEMMA CommittedOnce ==
    ASSUME RecordOK
    PROVE  CommitsVerified
<1>1. ASSUME NEW i \in OpsOf("COMMIT")
      PROVE  book.log[i].id \in accepted /\ book.log[i] = CommitOp(book.log[i].id)
  <2>1. i \in DOMAIN book.log /\ book.log[i].kind = "COMMIT"
    BY DEF OpsOf
  <2>2. book.log[i] \in Operations
    BY <2>1 DEF RecordOK, LogOK
  <2> QED
    BY <2>1, <2>2, OperationKinds DEF RecordOK, CommitsOK
<1>2. ASSUME NEW p \in accepted
      PROVE  Cardinality({i \in OpsOf("COMMIT") : book.log[i].id = p}) = 1
  <2>1. PICK i \in DOMAIN book.log : book.log[i].kind = "COMMIT" /\ book.log[i].id = p
    BY DEF RecordOK, CommitsOK
  <2>2. ASSUME NEW j \in OpsOf("COMMIT"), book.log[j].id = p PROVE j = i
    BY <2>1, <2>2 DEF OpsOf, RecordOK, LogOK, Unique
  <2>3. {j \in OpsOf("COMMIT") : book.log[j].id = p} = {i}
    BY <2>1, <2>2 DEF OpsOf
  <2> QED
    BY <2>3, FS_Singleton
<1> QED
  BY <1>1, <1>2 DEF CommitsVerified

(***************************************************************************)
(* The releases of the log are genuine and in sequence, unless one was     *)
(* submitted again with a bad signature.                                   *)
(***************************************************************************)
LEMMA ReleasedInSequence ==
    ASSUME RecordOK, ~ \E i \in OpsOf("RELEASE") : byRelease[book.log[i].id] = "bad"
    PROVE  ReleasesVerified
<1>1. ASSUME NEW i \in OpsOf("RELEASE")
      PROVE  /\ i \in DOMAIN book.log /\ book.log[i].kind = "RELEASE"
             /\ book.log[i].id \in Releases /\ book.log[i] = ReleaseOp(book.log[i].id)
  <2>1. i \in DOMAIN book.log /\ book.log[i].kind = "RELEASE"
    BY DEF OpsOf
  <2>2. book.log[i] \in Operations
    BY <2>1 DEF RecordOK, LogOK
  <2> QED
    BY <2>1, <2>2, OperationKinds
<1>2. ASSUME NEW i \in OpsOf("RELEASE")
      PROVE  /\ book.log[i].agent = Release[book.log[i].id].agent
             /\ book.log[i].amounts = Release[book.log[i].id].amounts
  <2> DEFINE op == book.log[i]
             x == book.log[i].id
  <2>1. op = ReleaseOp(x)
    BY <1>1
  <2> HIDE DEF op, x
  <2>2. op.agent = Release[x].agent /\ op.amounts = Release[x].amounts
    BY <2>1 DEF ReleaseOp
  <2> QED
    BY <2>2 DEF op, x
<1>3. ASSUME NEW i \in OpsOf("RELEASE") PROVE byRelease[book.log[i].id] = "good"
  <2>1. byRelease[book.log[i].id] \in {"none", "good", "bad"} \ {"none", "bad"}
    BY <1>1 DEF RecordOK, ReleasesOK
  <2> QED
    BY <2>1
<1>4. ASSUME NEW i \in OpsOf("RELEASE"), NEW j \in OpsOf("RELEASE"),
             j < i, book.log[j].agent = book.log[i].agent
      PROVE  Release[book.log[j].id].sequence < Release[book.log[i].id].sequence
  <2>1. SameAgent(j, i)
    BY <1>2, <1>4 DEF SameAgent
  <2> QED
    BY <1>1, <1>4, <2>1 DEF RecordOK, ReleasesOK
<1> QED
  BY <1>2, <1>3, <1>4, Zenon DEF ReleasesVerified

(***************************************************************************)
(* The verifier accepts such a Room, but for a copy with a bad signature.  *)
(***************************************************************************)
LEMMA RoomIsVerified ==
    ASSUME RoomInv, ScreenOK, FitOK, RecordOK
    PROVE  RoomVerifies
<1> SUFFICES ASSUME phase = "verify",
                    ~ \E p \in accepted : byDigest[p] = "bad",
                    ~ \E i \in OpsOf("RELEASE") : byRelease[book.log[i].id] = "bad"
             PROVE  Verified
  BY DEF RoomVerifies
<1>1. Replay(book.log).ok /\ BookInvariant(Replay(book.log).book)
  <2>1. Replay(book.log) = [ok |-> TRUE, book |-> book] /\ BookInvariant(book)
    BY DEF RecordOK, LogOK, RoomInv, BookOK
  <2> QED
    BY <2>1
<1>2. ProposalsVerified
  <2>1. ASSUME NEW p \in accepted
        PROVE  byDigest[p] = "good" /\ Derivable(p)
    <3>1. p \in Passed /\ p \in Proposals
      BY DEF Passed, ScreenOK
    <3>2. byDigest[p] \in {"none", "good", "bad"} /\ byDigest[p] # "none" /\ Derivable(p)
      BY <3>1 DEF ScreenOK
    <3> QED
      BY <3>2
  <2>2. ASSUME NEW p \in accepted, NEW q \in By(accepted, Proposal[p].agent), q # p
        PROVE  Proposal[q].sequence # Proposal[p].sequence
    <3>1. p \in Passed /\ q \in Passed /\ Proposal[q].agent = Proposal[p].agent
      BY DEF Passed, By
    <3> QED
      BY <2>2, <3>1 DEF ScreenOK
  <2> QED
    BY <2>1, <2>2 DEF ProposalsVerified
<1>3. ReleasesVerified
  BY ReleasedInSequence
<1>4. ClaimsVerified
  BY DEF ClaimsVerified, OpsOf, RecordOK, LogOK, Unique
<1>5. CommitsVerified
  BY CommittedOnce
<1>6. AvailabilityVerified
  <2>1. Fit(accepted, runs[host].avail)
    BY DEF FitOK
  <2> QED
    BY <2>1, Zenon DEF Fit, AvailabilityVerified
<1> QED
  BY <1>1, <1>2, <1>3, <1>4, <1>5, <1>6 DEF Verified

(***************************************************************************)
(* A step that leaves the book and what it records alone.                  *)
(***************************************************************************)
LEMMA RecordKept ==
    ASSUME RecordOK, UNCHANGED <<book, accepted, byRelease, lastRelease>>
    PROVE  RecordOK'
<1>1. LogOK(book)'
  BY DEF RecordOK
<1>2. CommitsOK'
  BY DEF RecordOK, CommitsOK
<1>3. ReleasesOK'
  BY DEF RecordOK, ReleasesOK, SameAgent
<1> QED
  BY <1>1, <1>2, <1>3 DEF RecordOK

\* The log has one more operation, op.
Logged(op) ==
    LET n == Len(book.log) IN
    /\ n \in Nat /\ DOMAIN book.log = 1 .. n /\ DOMAIN book'.log = 1 .. (n + 1)
    /\ book'.log[n + 1] = op
    /\ \A i \in 1 .. n : book'.log[i] = book.log[i]

(***************************************************************************)
(* An operation the book admits is logged.                                 *)
(***************************************************************************)
LEMMA LoggedOK ==
    ASSUME RoomInv, RecordOK, NEW op \in Operations, MayApply(book, op), book' = Apply(book, op)
    PROVE  LogOK(book') /\ Logged(op)
<1>1. BookTyped(book) /\ LogOK(book)
  BY DEF RoomInv, BookOK, RecordOK
<1>2. LogOK(book') /\ book'.log = Append(book.log, op)
  BY <1>1, LogGrows
<1>3. book.log \in Seq(Operations)
  BY <1>1 DEF LogOK
<1> QED
  BY <1>2, <1>3 DEF Logged

(***************************************************************************)
(* An operation other than a commitment leaves the commitments as they are.*)
(***************************************************************************)
LEMMA CommitsKept ==
    ASSUME CommitsOK, NEW op, op.kind # "COMMIT", Logged(op), accepted' = accepted
    PROVE  CommitsOK'
<1> DEFINE n == Len(book.log)
<1>1. /\ n \in Nat /\ DOMAIN book.log = 1 .. n /\ DOMAIN book'.log = 1 .. (n + 1)
      /\ book'.log[n + 1] = op
      /\ \A i \in 1 .. n : book'.log[i] = book.log[i]
  BY DEF Logged
<1>2. /\ \A i \in 1 .. n : book.log[i].kind = "COMMIT" => book.log[i].id \in accepted
      /\ \A p \in accepted : \E i \in 1 .. n : book.log[i].kind = "COMMIT" /\ book.log[i].id = p
  BY <1>1 DEF CommitsOK
<1> HIDE DEF n
<1>3. \A i \in 1 .. (n + 1) : i = n + 1 \/ i \in 1 .. n
  BY <1>1
<1>4. \A i \in DOMAIN book'.log : book'.log[i].kind = "COMMIT" => book'.log[i].id \in accepted
  BY <1>1, <1>2, <1>3
<1>5. \A p \in accepted : \E i \in DOMAIN book'.log : /\ book'.log[i].kind = "COMMIT"
                                                      /\ book'.log[i].id = p
  <2>1. \A i \in 1 .. n : i \in DOMAIN book'.log
    BY <1>1
  <2> QED
    BY <1>1, <1>2, <2>1
<1> QED
  BY <1>4, <1>5 DEF CommitsOK

(***************************************************************************)
(* An operation other than a release leaves the releases as they are.      *)
(***************************************************************************)
LEMMA ReleasesKept ==
    ASSUME ReleasesOK, NEW op, op.kind # "RELEASE", Logged(op), UNCHANGED <<byRelease, lastRelease>>
    PROVE  ReleasesOK'
<1> DEFINE n == Len(book.log)
<1>1. /\ n \in Nat /\ DOMAIN book.log = 1 .. n /\ DOMAIN book'.log = 1 .. (n + 1)
      /\ book'.log[n + 1] = op
      /\ \A i \in 1 .. n : book'.log[i] = book.log[i]
  BY DEF Logged
<1> HIDE DEF n
<1>2. ASSUME NEW i \in DOMAIN book'.log, book'.log[i].kind = "RELEASE"
      PROVE  i \in DOMAIN book.log /\ book.log[i].kind = "RELEASE" /\ book'.log[i] = book.log[i]
  <2>1. i = n + 1 \/ i \in 1 .. n
    BY <1>1
  <2> QED
    BY <1>1, <1>2, <2>1
<1>3. ASSUME NEW i \in DOMAIN book'.log, book'.log[i].kind = "RELEASE"
      PROVE  /\ byRelease[book'.log[i].id] # "none"
             /\ Release[book'.log[i].id].sequence <= lastRelease[Release[book'.log[i].id].agent]
  BY <1>2, <1>3 DEF ReleasesOK
<1>4. ASSUME NEW i \in DOMAIN book'.log, book'.log[i].kind = "RELEASE",
             NEW j \in DOMAIN book'.log, book'.log[j].kind = "RELEASE", j < i, SameAgent(j, i)'
      PROVE  Release[book'.log[j].id].sequence < Release[book'.log[i].id].sequence
  <2>1. /\ i \in DOMAIN book.log /\ book.log[i].kind = "RELEASE" /\ book'.log[i] = book.log[i]
        /\ j \in DOMAIN book.log /\ book.log[j].kind = "RELEASE" /\ book'.log[j] = book.log[j]
    BY <1>2, <1>4
  <2>2. SameAgent(j, i)
    BY <1>4, <2>1 DEF SameAgent
  <2> QED
    BY <1>4, <2>1, <2>2 DEF ReleasesOK
<1> QED
  BY <1>3, <1>4 DEF ReleasesOK

(***************************************************************************)
(* An accepted proposal is committed in the log.                           *)
(***************************************************************************)
LEMMA AcceptRecorded ==
    ASSUME RoomInv, RecordOK, NEW p \in Proposals, Accept(p), UNCHANGED <<byRelease, lastRelease>>
    PROVE  RecordOK'
<1> DEFINE op == CommitOp(p)
           n == Len(book.log)
<1>1. op \in Operations /\ op.kind = "COMMIT" /\ op.id = p
  BY DEF Operations, CommitOp
<1>2. MayApply(book, op) /\ book' = Apply(book, op) /\ accepted' = accepted \cup {p}
  BY DEF Accept
<1> HIDE DEF op
<1>3. LogOK(book') /\ Logged(op)
  BY <1>1, <1>2, LoggedOK
<1>4. ReleasesOK'
  BY <1>1, <1>3, ReleasesKept DEF RecordOK
<1>5. /\ n \in Nat /\ DOMAIN book.log = 1 .. n /\ DOMAIN book'.log = 1 .. (n + 1)
      /\ book'.log[n + 1] = op
      /\ \A i \in 1 .. n : book'.log[i] = book.log[i]
  BY <1>3 DEF Logged
<1>6. /\ \A i \in 1 .. n : book.log[i].kind = "COMMIT" => book.log[i].id \in accepted
      /\ \A q \in accepted : \E i \in 1 .. n : book.log[i].kind = "COMMIT" /\ book.log[i].id = q
  BY <1>5 DEF RecordOK, CommitsOK
<1> HIDE DEF n
<1>7. /\ \A i \in 1 .. (n + 1) : i = n + 1 \/ i \in 1 .. n
      /\ \A i \in 1 .. n : i \in 1 .. (n + 1)
      /\ n + 1 \in 1 .. (n + 1)
  BY <1>5
<1>8. \A i \in DOMAIN book'.log : book'.log[i].kind = "COMMIT" => book'.log[i].id \in accepted'
  BY <1>1, <1>2, <1>5, <1>6, <1>7
<1>9. ASSUME NEW q \in accepted'
      PROVE  \E i \in DOMAIN book'.log : book'.log[i].kind = "COMMIT" /\ book'.log[i].id = q
  <2>1. CASE q = p
    BY <1>1, <1>5, <1>7, <2>1
  <2>2. CASE q \in accepted
    <3>1. PICK i \in 1 .. n : book.log[i].kind = "COMMIT" /\ book.log[i].id = q
      BY <1>6, <2>2
    <3>2. i \in DOMAIN book'.log /\ book'.log[i] = book.log[i]
      BY <1>5, <1>7
    <3> QED
      BY <3>1, <3>2
  <2> QED
    BY <1>2, <2>1, <2>2
<1>10. CommitsOK'
  BY <1>8, <1>9 DEF CommitsOK
<1> QED
  BY <1>3, <1>4, <1>10 DEF RecordOK

(***************************************************************************)
(* A claim of a plan is logged.                                            *)
(***************************************************************************)
LEMMA ClaimRecorded ==
    ASSUME RoomInv, RecordOK, NEW p \in Proposals, NEW r \in Demanded(p),
           NEW lot \in DOMAIN book.lots,
           MayApply(book, ClaimOp(p, r, lot)), book' = Apply(book, ClaimOp(p, r, lot)),
           UNCHANGED <<accepted, byRelease, lastRelease>>
    PROVE  RecordOK'
<1> DEFINE op == ClaimOp(p, r, lot)
           amount == IF book.lots[lot][r] < Lacking(p, r) THEN book.lots[lot][r] ELSE Lacking(p, r)
<1>1. op = [kind |-> "CLAIM", id |-> <<p, r, lot>>, agent |-> Proposal[p].agent, lot |-> lot,
            resource |-> r, amount |-> amount]
  BY DEF ClaimOp
<1>2. r \in Resources /\ Proposal[p].agent \in Agents /\ Proposal[p].demand[r] \in Int
  BY PortfolioAssumption DEF Demanded, Vectors
<1>3. book.lots[lot][r] \in Int /\ Lacking(p, r) \in Int /\ lot \in Nat
  BY <1>2 DEF RoomInv, BookOK, BookTyped, Lacking, Unused
<1>4. MayApply(book, op) /\ book' = Apply(book, op)
  OBVIOUS
<1>5. amount \in Int
  BY <1>3
<1> HIDE DEF op, amount
<1>6. op \in Operations /\ op.kind = "CLAIM"
  <2>1. <<p, r, lot>> \in Proposals \X Resources \X Nat
    BY <1>2, <1>3
  <2>2. op \in Claims
    BY <1>1, <1>2, <1>3, <1>5, <2>1 DEF Claims
  <2> QED
    BY <1>1, <2>2 DEF Operations
<1>7. LogOK(book') /\ Logged(op)
  BY <1>4, <1>6, LoggedOK
<1>8. CommitsOK'
  BY <1>6, <1>7, CommitsKept DEF RecordOK
<1>9. ReleasesOK'
  BY <1>6, <1>7, ReleasesKept DEF RecordOK
<1> QED
  BY <1>7, <1>8, <1>9 DEF RecordOK

(***************************************************************************)
(* An applied release is logged, the newest of its agent.                  *)
(***************************************************************************)
LEMMA ReleaseRecorded ==
    ASSUME RoomInv, RecordOK, NEW x \in Releases, NEW word \in {"good", "bad"},
           Release[x].sequence > lastRelease[Release[x].agent],
           MayApply(book, ReleaseOp(x)), book' = Apply(book, ReleaseOp(x)),
           byRelease' = [byRelease EXCEPT ![x] = word],
           lastRelease' = [lastRelease EXCEPT ![Release[x].agent] = Release[x].sequence],
           accepted' = accepted
    PROVE  RecordOK'
<1> DEFINE op == ReleaseOp(x)
           n == Len(book.log)
           id(i) == book.log[i].id
<1>1. op \in Operations /\ op.kind = "RELEASE" /\ op.id = x
  BY DEF Operations, ReleaseOp
<1>2. MayApply(book, op) /\ book' = Apply(book, op)
  OBVIOUS
<1> HIDE DEF op
<1>3. LogOK(book') /\ Logged(op)
  BY <1>1, <1>2, LoggedOK
<1>4. CommitsOK'
  BY <1>1, <1>3, CommitsKept DEF RecordOK
<1>5. /\ n \in Nat /\ DOMAIN book.log = 1 .. n /\ DOMAIN book'.log = 1 .. (n + 1)
      /\ book'.log[n + 1] = op
      /\ \A i \in 1 .. n : book'.log[i] = book.log[i]
  BY <1>3 DEF Logged
<1>6. /\ byRelease \in [Releases -> {"none", "good", "bad"}] /\ lastRelease \in [Agents -> Int]
      /\ \A y \in Releases : Release[y].agent \in Agents /\ Release[y].sequence \in Int
  BY PortfolioAssumption DEF RecordOK, ReleasesOK
<1>7. /\ byRelease' \in [Releases -> {"none", "good", "bad"}] /\ lastRelease' \in [Agents -> Int]
      /\ byRelease'[x] # "none" /\ \A y \in Releases : y # x => byRelease'[y] = byRelease[y]
      /\ lastRelease'[Release[x].agent] = Release[x].sequence
      /\ \A a \in Agents : lastRelease[a] <= lastRelease'[a]
  BY <1>6
<1> HIDE DEF n
<1>8. ASSUME NEW i \in 1 .. n, book.log[i].kind = "RELEASE"
      PROVE  id(i) \in Releases /\ book'.log[i] = book.log[i]
  <2>1. book.log[i] \in Operations
    BY <1>5 DEF RecordOK, LogOK
  <2> QED
    BY <1>5, <1>8, <2>1, OperationKinds
<1>9. \A i \in 1 .. n : book.log[i].kind = "RELEASE" =>
         /\ byRelease[id(i)] # "none"
         /\ Release[id(i)].sequence <= lastRelease[Release[id(i)].agent]
         /\ \A j \in 1 .. n : book.log[j].kind = "RELEASE" /\ j < i /\ SameAgent(j, i)
                                => Release[id(j)].sequence < Release[id(i)].sequence
  BY <1>5, Zenon DEF RecordOK, ReleasesOK
<1>10. /\ \A i \in 1 .. (n + 1) : i = n + 1 \/ i \in 1 .. n
       /\ \A i \in 1 .. n : i < n + 1
       /\ \A i \in 1 .. n, j \in 1 .. (n + 1) : j < i => j \in 1 .. n
       /\ ~(n + 1 < n + 1)
  BY <1>5
<1>11. ASSUME NEW i \in 1 .. (n + 1), book'.log[i].kind = "RELEASE"
       PROVE  /\ byRelease'[book'.log[i].id] # "none"
              /\ Release[book'.log[i].id].sequence <= lastRelease'[Release[book'.log[i].id].agent]
  <2>1. CASE i = n + 1
    BY <1>1, <1>5, <1>6, <1>7, <2>1
  <2>2. CASE i \in 1 .. n
    <3>1. book'.log[i] = book.log[i] /\ id(i) \in Releases
      BY <1>5, <1>8, <1>11, <2>2
    <3> DEFINE y == book.log[i].id
               s == Release[y].sequence
               l == lastRelease[Release[y].agent]
               m == lastRelease'[Release[y].agent]
    <3>2. byRelease[y] # "none" /\ s <= l
      BY <1>9, <1>11, <2>2, <3>1
    <3>3. s \in Int /\ l \in Int /\ m \in Int /\ l <= m
      BY <1>6, <1>7, <3>1
    <3>4. byRelease'[y] # "none"
      BY <1>7, <3>1, <3>2
    <3> HIDE DEF s, l, m
    <3>5. s <= m
      BY <3>2, <3>3
    <3> QED
      BY <3>1, <3>4, <3>5 DEF s, m
  <2> QED
    BY <1>10, <2>1, <2>2
<1>12. ASSUME NEW i \in 1 .. (n + 1), book'.log[i].kind = "RELEASE",
              NEW j \in 1 .. (n + 1), book'.log[j].kind = "RELEASE", j < i, SameAgent(j, i)'
       PROVE  Release[book'.log[j].id].sequence < Release[book'.log[i].id].sequence
  <2>0. j \in 1 .. n
    BY <1>10, <1>12
  <2>1. book'.log[j] = book.log[j] /\ id(j) \in Releases /\ book.log[j].kind = "RELEASE"
    BY <1>5, <1>8, <1>12, <2>0
  <2>2. CASE i = n + 1
    <3>1. book'.log[i].id = x
      BY <1>1, <1>5, <2>2
    <3>2. Release[id(j)].agent = Release[x].agent
      BY <1>12, <2>1, <3>1 DEF SameAgent
    <3> DEFINE s == Release[id(j)].sequence
               l == lastRelease[Release[x].agent]
    <3>3. s <= l
      BY <1>9, <2>0, <2>1, <3>2
    <3>4. s \in Int /\ l \in Int /\ Release[x].sequence \in Int /\ l < Release[x].sequence
      BY <1>6, <2>1
    <3> HIDE DEF s, l
    <3>5. s < Release[x].sequence
      BY <3>3, <3>4
    <3> QED
      BY <2>1, <3>1, <3>5 DEF s
  <2>3. CASE i \in 1 .. n
    <3>1. book'.log[i] = book.log[i] /\ book.log[i].kind = "RELEASE"
      BY <1>5, <1>12, <2>3
    <3>2. SameAgent(j, i)
      BY <1>12, <2>1, <3>1 DEF SameAgent
    <3> QED
      BY <1>9, <1>12, <2>0, <2>1, <2>3, <3>1, <3>2
  <2> QED
    BY <1>10, <2>2, <2>3
<1>13. ReleasesOK'
  BY <1>5, <1>7, <1>11, <1>12 DEF ReleasesOK
<1> QED
  BY <1>3, <1>4, <1>13 DEF RecordOK

(***************************************************************************)
(* A release that is not applied is only remembered as submitted.          *)
(***************************************************************************)
LEMMA ReleaseIgnored ==
    ASSUME RecordOK, NEW x \in Releases, NEW word \in {"good", "bad"},
           byRelease' = [byRelease EXCEPT ![x] = word],
           UNCHANGED <<book, lastRelease, accepted>>
    PROVE  RecordOK'
<1>1. LogOK(book)' /\ CommitsOK'
  BY DEF RecordOK, CommitsOK
<1>2. /\ byRelease' \in [Releases -> {"none", "good", "bad"}]
      /\ byRelease'[x] # "none" /\ \A y : y # x => byRelease'[y] = byRelease[y]
  BY DEF RecordOK, ReleasesOK
<1>3. ASSUME NEW i \in DOMAIN book.log, book.log[i].kind = "RELEASE"
      PROVE  byRelease'[book.log[i].id] # "none"
  BY <1>2, <1>3 DEF RecordOK, ReleasesOK
<1>4. ReleasesOK'
  BY <1>2, <1>3 DEF RecordOK, ReleasesOK, SameAgent
<1> QED
  BY <1>1, <1>4 DEF RecordOK

(***************************************************************************)
(* Every step keeps the record: the log, what it commits and what it       *)
(* releases.                                                               *)
(***************************************************************************)
LEMMA RecordStep ==
    ASSUME RoomInv, RecordOK, [Next]_vars
    PROVE  RecordOK'
<1>1. CASE Act
  BY <1>1, RecordKept DEF Act
<1>2. CASE HandleRelease
  <2>1. PICK sender \in Agents :
           LET x == inbox[sender].id
               owner == Release[x].agent
               applies == /\ owner = sender
                          /\ inbox[sender].authentic
                          /\ Release[x].sequence > lastRelease[owner]
                          /\ MayApply(book, ReleaseOp(x))
           IN  /\ First(sender, Releasing)
               /\ byRelease' = [byRelease EXCEPT ![x] = Signature(inbox[sender])]
               /\ book' = IF applies THEN Apply(book, ReleaseOp(x)) ELSE book
               /\ lastRelease' = IF applies
                                 THEN [lastRelease EXCEPT ![owner] = Release[x].sequence]
                                 ELSE lastRelease
    BY <1>2, Zenon DEF HandleRelease
  <2> DEFINE x == inbox[sender].id
             word == Signature(inbox[sender])
             applies == /\ Release[x].agent = sender
                        /\ inbox[sender].authentic
                        /\ Release[x].sequence > lastRelease[Release[x].agent]
                        /\ MayApply(book, ReleaseOp(x))
  <2>2. x \in Releases
    <3>1. inbox[sender] \in Message /\ inbox[sender].kind = "RELEASE"
      BY <2>1 DEF RoomInv, RoomTyped, First, Releasing
    <3> QED
      BY <3>1 DEF Message, Idle
  <2>3. word \in {"good", "bad"} /\ accepted' = accepted
    BY <1>2 DEF Signature, HandleRelease
  <2>4. /\ byRelease' = [byRelease EXCEPT ![x] = word]
        /\ book' = IF applies THEN Apply(book, ReleaseOp(x)) ELSE book
        /\ lastRelease' = IF applies
                          THEN [lastRelease EXCEPT ![Release[x].agent] = Release[x].sequence]
                          ELSE lastRelease
    BY <2>1, Zenon
  <2>5. applies => /\ Release[x].sequence > lastRelease[Release[x].agent]
                   /\ MayApply(book, ReleaseOp(x))
    OBVIOUS
  <2> HIDE DEF x, word, applies
  <2>6. CASE applies
    BY <2>2, <2>3, <2>4, <2>5, <2>6, ReleaseRecorded
  <2>7. CASE ~applies
    BY <2>2, <2>3, <2>4, <2>7, ReleaseIgnored
  <2> QED
    BY <2>6, <2>7
<1>3. CASE Screen
  BY <1>3, RecordKept DEF Screen
<1>4. CASE EndScreening \/ EndRound \/ DecideOversize
  <2>1. UNCHANGED <<book, accepted, byRelease, lastRelease>>
    BY <1>4 DEF EndScreening, EndRound, DecideOversize
  <2> QED
    BY <2>1, RecordKept
<1>5. CASE DecideEligible
  <2>1. byRelease' = byRelease /\ lastRelease' = lastRelease
    BY <1>5 DEF DecideEligible
  <2>2. \/ \E p \in eligible : Accept(p)
        \/ book' = book /\ accepted' = accepted
    BY <1>5, Zenon DEF DecideEligible
  <2>3. eligible \subseteq Proposals
    BY DEF RoomInv, RoomTyped
  <2> QED
    BY <2>1, <2>2, <2>3, AcceptRecorded, RecordKept
<1>6. CASE DecideLater
  <2>1. byRelease' = byRelease /\ lastRelease' = lastRelease
    BY <1>6 DEF DecideLater
  <2>2. PICK p \in later :
           \/ Accept(p)
           \/ /\ \E r \in Demanded(p), lot \in DOMAIN book.lots :
                    /\ MayApply(book, ClaimOp(p, r, lot))
                    /\ book' = Apply(book, ClaimOp(p, r, lot))
              /\ accepted' = accepted
           \/ book' = book /\ accepted' = accepted
    BY <1>6, Zenon DEF DecideLater
  <2>3. p \in Proposals
    BY DEF RoomInv, RoomTyped
  <2>4. CASE Accept(p)
    BY <2>1, <2>3, <2>4, AcceptRecorded
  <2>5. ASSUME NEW r \in Demanded(p), NEW lot \in DOMAIN book.lots,
               MayApply(book, ClaimOp(p, r, lot)), book' = Apply(book, ClaimOp(p, r, lot)),
               accepted' = accepted
        PROVE  RecordOK'
    BY <2>1, <2>3, <2>5, ClaimRecorded
  <2>6. CASE book' = book /\ accepted' = accepted
    BY <2>1, <2>6, RecordKept
  <2> QED
    BY <2>2, <2>4, <2>5, <2>6
<1>7. CASE Verify
  <2>1. /\ book' = InitialBook /\ accepted' = {}
        /\ byRelease' = [x \in Releases |-> "none"] /\ lastRelease' = [a \in Agents |-> -1]
    BY <1>7 DEF Verify, EmptyRoom
  <2>2. LogOK(book') /\ book'.log = <<>>
    BY <2>1, InitialLogOK
  <2>3. DOMAIN book'.log = {}
    BY <2>2
  <2>4. CommitsOK' /\ ReleasesOK'
    BY <2>1, <2>3 DEF CommitsOK, ReleasesOK
  <2> QED
    BY <2>2, <2>4 DEF RecordOK
<1>8. CASE Reservation
  BY <1>8, ReservationKeeps, RecordKept DEF roomVars
<1>9. ASSUME NEW n \in Runs, Start(n) PROVE RecordOK'
  BY <1>9, RecordKept DEF Start
<1>10. CASE UNCHANGED vars
  BY <1>10, RecordKept DEF vars, roomVars
<1> QED
  BY <1>1, <1>2, <1>3, <1>4, <1>5, <1>6, <1>7, <1>8, <1>9, <1>10, Steps DEF Discussion

------------------------------------------------------------------------------
(* The portfolio's theorems.                                                *)

PortfolioInv ==
    RoomInv /\ HostOK /\ LedgerOK /\ CallsOK /\ ScreenOK /\ FitOK /\ TargetOK /\ RecordOK

(***************************************************************************)
(* The invariant holds at first.                                           *)
(***************************************************************************)
LEMMA PortfolioInit == Init => PortfolioInv
<1> SUFFICES ASSUME Init PROVE PortfolioInv
  OBVIOUS
<1>1. RoomInv /\ LedgerOK /\ CallsOK
  BY RoomInit, CallsInit
<1>2. HostOK /\ FitOK /\ TargetOK
  BY DEF Init, HostOK, FitOK, TargetOK
<1>3. ScreenOK
  <2>1. /\ accepted = {} /\ eligible = {} /\ later = {} /\ oversize = {}
        /\ byDigest = [p \in Proposals |-> "none"] /\ lastProposal = [a \in Agents |-> -1]
    BY DEF Init
  <2> QED
    BY <2>1 DEF ScreenOK, Passed
<1>4. RecordOK
  <2>1. /\ book = InitialBook /\ accepted = {}
        /\ byRelease = [x \in Releases |-> "none"] /\ lastRelease = [a \in Agents |-> -1]
    BY DEF Init
  <2>2. LogOK(book) /\ book.log = <<>>
    BY <2>1, InitialLogOK
  <2>3. DOMAIN book.log = {}
    BY <2>2
  <2>4. CommitsOK /\ ReleasesOK
    BY <2>1, <2>3 DEF CommitsOK, ReleasesOK
  <2> QED
    BY <2>2, <2>4 DEF RecordOK
<1> QED
  BY <1>1, <1>2, <1>3, <1>4 DEF PortfolioInv

(***************************************************************************)
(* Every step preserves it.                                                *)
(***************************************************************************)
LEMMA PortfolioStep == PortfolioInv /\ [Next]_vars => PortfolioInv'
<1> SUFFICES ASSUME PortfolioInv, [Next]_vars PROVE PortfolioInv'
  OBVIOUS
<1>1. RoomInv /\ HostOK /\ LedgerOK /\ CallsOK /\ ScreenOK /\ FitOK /\ TargetOK /\ RecordOK
  BY DEF PortfolioInv
<1>2. RoomInv' /\ HostOK' /\ RecordOK'
  BY <1>1, RoomInvStep, HostStep, RecordStep
<1>3. LedgerOK' /\ CallsOK'
  <2>1. accepted \subseteq Proposals
    BY <1>1 DEF ScreenOK
  <2> QED
    BY <1>1, <2>1, CallsStep
<1>4. ScreenOK' /\ FitOK' /\ TargetOK'
  BY <1>1, ScreenStep, FitStep, TargetStep
<1> QED
  BY <1>2, <1>3, <1>4 DEF PortfolioInv

(***************************************************************************)
(* The inductive invariant of the Room, the calls and the ledger.          *)
(***************************************************************************)
LEMMA PortfolioAlways == Spec => []PortfolioInv
  BY PortfolioInit, PortfolioStep, PTL DEF Spec

(***************************************************************************)
(* A verified child that charges what it declared is refused only for      *)
(* staleness: for any number of calls, in any interleaving with each other *)
(* and with the executor, whatever the other children charge, on an        *)
(* unchanged ledger Room, verifier and ledger agree about it.              *)
(***************************************************************************)
THEOREM RefusalsAreStale == Spec => HonestRefusedOnlyWhenStale
<1> DEFINE Refusal ==
      \A n \in Runs : \A p \in runs'[n].refused \ runs[n].refused :
          \/ runs[n].charge = NoCharge
          \/ runs[n].charge # Proposal[p].demand
          \/ held[p] # "none" \/ revoked
          \/ \E q \in Proposals : /\ held[q] # "none"
                                  /\ q \notin runs[n].before \cup runs[n].got
<1>1. PortfolioInv /\ [Next]_vars => [Refusal]_vars
  BY RefusalStep DEF PortfolioInv
<1>2. Spec => [][Refusal]_vars
  BY <1>1, PortfolioAlways, PTL DEF Spec
<1> QED
  BY <1>2 DEF HonestRefusedOnlyWhenStale

(***************************************************************************)
(* A REDUCE_REQUESTED target is the most there is: the checks that refused *)
(* the demand accept the target, and not one more atom of any demanded     *)
(* resource.                                                               *)
(***************************************************************************)
THEOREM TargetsAreTheMost == Spec => []ReductionTargetIsMost
<1>1. PortfolioInv => ReductionTargetIsMost
  BY TargetsAreMost DEF PortfolioInv
<1> QED
  BY <1>1, PortfolioAlways, PTL

(***************************************************************************)
(* The verifier accepts what the Room produced, unless an accepted         *)
(* proposal or an applied release was sent once more under a bad           *)
(* signature.                                                              *)
(***************************************************************************)
THEOREM RoomAlwaysVerifies == Spec => []RoomVerifies
<1>1. PortfolioInv => RoomVerifies
  BY RoomIsVerified DEF PortfolioInv
<1> QED
  BY <1>1, PortfolioAlways, PTL
=============================================================================
