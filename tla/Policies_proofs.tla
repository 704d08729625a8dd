--------------------------- MODULE Policies_proofs ---------------------------
(***************************************************************************)
(* For a list of policies of any length: the order of evaluation is a      *)
(* permutation of the list by scope, decision and declaration, Evaluate    *)
(* answers with the first policy of that order that decides, and the rules *)
(* handed to the harness are the list's, in the same order.                *)
(***************************************************************************)
EXTENDS Policies, FiniteSetTheorems, WellFoundedInduction, TLAPS

----------------------------------------------------------------------------
\* The order.

LEMMA RanksAre ==
  ASSUME NEW ps \in Seq(Policy), NEW i \in DOMAIN ps
  PROVE  /\ policyScope(ps[i]) \in 0..2 /\ decisionRank(ps[i].decision) \in 0..2
         /\ i \in Nat
BY DEF policyScope, decisionRank

\* What Precedes compares, one thing after the other.
Earlier(ps, i, j) ==
  LET s == policyScope(ps[i])
      t == policyScope(ps[j])
      a == decisionRank(ps[i].decision)
      b == decisionRank(ps[j].decision)
  IN \/ s < t
     \/ s = t /\ (a < b \/ (a = b /\ i < j))

LEMMA PrecedesIsEarlier ==
  ASSUME NEW ps \in Seq(Policy), NEW i \in DOMAIN ps, NEW j \in DOMAIN ps
  PROVE  Precedes(ps, i, j) <=> Earlier(ps, i, j)
<1> DEFINE a == <<policyScope(ps[i]), decisionRank(ps[i].decision), i>>
           b == <<policyScope(ps[j]), decisionRank(ps[j].decision), j>>
<1>1. Precedes(ps, i, j) <=> \E k \in 1..3 : a[k] < b[k] /\ \A l \in 1..(k - 1) : a[l] = b[l]
  BY DEF Precedes
<1>2. /\ a[1] = policyScope(ps[i]) /\ b[1] = policyScope(ps[j])
      /\ a[2] = decisionRank(ps[i].decision) /\ b[2] = decisionRank(ps[j].decision)
      /\ a[3] = i /\ b[3] = j
  OBVIOUS
<1> HIDE DEF a, b
<1>3. /\ 1..3 = {1, 2, 3} /\ 1..(1 - 1) = {} /\ 1..(2 - 1) = {1} /\ 1..(3 - 1) = {1, 2}
  OBVIOUS
<1>4. Precedes(ps, i, j) <=> \/ a[1] < b[1] /\ \A l \in 1..(1 - 1) : a[l] = b[l]
                             \/ a[2] < b[2] /\ \A l \in 1..(2 - 1) : a[l] = b[l]
                             \/ a[3] < b[3] /\ \A l \in 1..(3 - 1) : a[l] = b[l]
  BY <1>1, <1>3
<1>5. Precedes(ps, i, j) <=> \/ a[1] < b[1]
                             \/ a[2] < b[2] /\ a[1] = b[1]
                             \/ a[3] < b[3] /\ a[1] = b[1] /\ a[2] = b[2]
  BY <1>3, <1>4
<1>6. {a[1], a[2], a[3], b[1], b[2], b[3]} \subseteq Int
  BY <1>2, RanksAre
<1>7. Earlier(ps, i, j) <=> \/ a[1] < b[1]
                            \/ a[1] = b[1] /\ (a[2] < b[2] \/ (a[2] = b[2] /\ a[3] < b[3]))
  BY <1>2 DEF Earlier
<1>8. QED
  BY <1>5, <1>6, <1>7

\* It is a strict total order on the places of a list.
LEMMA OrderIsTotal ==
  ASSUME NEW ps \in Seq(Policy)
  PROVE  /\ \A i \in DOMAIN ps : ~Precedes(ps, i, i)
         /\ \A i, j \in DOMAIN ps : i # j => Precedes(ps, i, j) \/ Precedes(ps, j, i)
         /\ \A i, j, k \in DOMAIN ps :
              Precedes(ps, i, j) /\ Precedes(ps, j, k) => Precedes(ps, i, k)
<1>1. ASSUME NEW i \in DOMAIN ps
      PROVE  ~Precedes(ps, i, i)
  BY RanksAre, PrecedesIsEarlier DEF Earlier
<1>2. ASSUME NEW i \in DOMAIN ps, NEW j \in DOMAIN ps, i # j
      PROVE  Precedes(ps, i, j) \/ Precedes(ps, j, i)
  <2> DEFINE s == policyScope(ps[i])
             t == policyScope(ps[j])
             a == decisionRank(ps[i].decision)
             b == decisionRank(ps[j].decision)
  <2>1. s \in Nat /\ t \in Nat /\ a \in Nat /\ b \in Nat /\ i \in Nat /\ j \in Nat
    BY RanksAre
  <2>2. /\ Precedes(ps, i, j) <=> s < t \/ (s = t /\ (a < b \/ (a = b /\ i < j)))
        /\ Precedes(ps, j, i) <=> t < s \/ (t = s /\ (b < a \/ (b = a /\ j < i)))
    BY PrecedesIsEarlier DEF Earlier
  <2> HIDE DEF s, t, a, b
  <2>3. QED
    BY <1>2, <2>1, <2>2
<1>3. ASSUME NEW i \in DOMAIN ps, NEW j \in DOMAIN ps, NEW k \in DOMAIN ps,
             Precedes(ps, i, j), Precedes(ps, j, k)
      PROVE  Precedes(ps, i, k)
  <2> DEFINE s == policyScope(ps[i])
             t == policyScope(ps[j])
             u == policyScope(ps[k])
             a == decisionRank(ps[i].decision)
             b == decisionRank(ps[j].decision)
             c == decisionRank(ps[k].decision)
  <2>1. {s, t, u, a, b, c, i, j, k} \subseteq Nat
    BY RanksAre
  <2>2. /\ s < t \/ (s = t /\ (a < b \/ (a = b /\ i < j)))
        /\ t < u \/ (t = u /\ (b < c \/ (b = c /\ j < k)))
        /\ Precedes(ps, i, k) <=> s < u \/ (s = u /\ (a < c \/ (a = c /\ i < k)))
    BY <1>3, PrecedesIsEarlier DEF Earlier
  <2> HIDE DEF s, t, u, a, b, c
  <2>3. QED
    BY <2>1, <2>2
<1>4. QED
  BY <1>1, <1>2, <1>3

\* The place of policy i in the order: how many come before it, and one more.
Before(ps, i) == {j \in DOMAIN ps : Precedes(ps, j, i)}

LEMMA PlacesAre ==
  ASSUME NEW ps \in Seq(Policy)
  PROVE  /\ DOMAIN ps = 1..Len(ps) /\ Len(ps) \in Nat
         /\ IsFiniteSet(DOMAIN ps) /\ Cardinality(DOMAIN ps) = Len(ps)
         /\ \A i \in DOMAIN ps : /\ IsFiniteSet(Before(ps, i))
                                 /\ Cardinality(Before(ps, i)) \in 0..(Len(ps) - 1)
         /\ \A i, j \in DOMAIN ps : Precedes(ps, i, j) =>
              Cardinality(Before(ps, i)) < Cardinality(Before(ps, j))
<1>1. DOMAIN ps = 1..Len(ps) /\ Len(ps) \in Nat
  OBVIOUS
<1>2. IsFiniteSet(DOMAIN ps) /\ Cardinality(DOMAIN ps) = Len(ps)
  BY <1>1, FS_Interval
<1>3. ASSUME NEW i \in DOMAIN ps
      PROVE  /\ IsFiniteSet(Before(ps, i)) /\ Cardinality(Before(ps, i)) \in Nat
             /\ Cardinality(Before(ps, i)) < Len(ps)
  <2>1. Before(ps, i) \in SUBSET DOMAIN ps /\ i \notin Before(ps, i)
    BY OrderIsTotal DEF Before
  <2>2. IsFiniteSet(Before(ps, i)) /\ Cardinality(Before(ps, i)) <= Len(ps)
        /\ (Cardinality(DOMAIN ps) = Cardinality(Before(ps, i)) => DOMAIN ps = Before(ps, i))
    BY <1>2, <2>1, FS_Subset
  <2>3. Cardinality(Before(ps, i)) \in Nat
    BY <2>2, FS_CardinalityType
  <2>4. QED
    BY <1>1, <1>2, <2>1, <2>2, <2>3
<1>4. ASSUME NEW i \in DOMAIN ps, NEW j \in DOMAIN ps, Precedes(ps, i, j)
      PROVE  Cardinality(Before(ps, i)) < Cardinality(Before(ps, j))
  <2>1. Before(ps, i) \in SUBSET Before(ps, j) /\ i \in Before(ps, j) /\ i \notin Before(ps, i)
    BY <1>4, OrderIsTotal DEF Before
  <2>2. /\ Cardinality(Before(ps, i)) <= Cardinality(Before(ps, j))
        /\ Cardinality(Before(ps, j)) = Cardinality(Before(ps, i)) => Before(ps, j) = Before(ps, i)
    BY <1>3, <2>1, FS_Subset
  <2>3. Cardinality(Before(ps, i)) \in Nat /\ Cardinality(Before(ps, j)) \in Nat
    BY <1>3
  <2>4. QED
    BY <2>1, <2>2, <2>3
<1>5. QED
  BY <1>1, <1>2, <1>3, <1>4

\* Sorted is a permutation of the places of the list, in that order.
LEMMA SortedIsTheOrder ==
  ASSUME NEW ps \in Seq(Policy)
  PROVE  /\ Sorted(ps) \in [DOMAIN ps -> DOMAIN ps]
         /\ \A i \in DOMAIN ps : \E k \in DOMAIN ps : Sorted(ps)[k] = i
         /\ \A k, l \in DOMAIN ps : k < l => Precedes(ps, Sorted(ps)[k], Sorted(ps)[l])
<1> DEFINE D == DOMAIN ps
           place == [i \in D |-> Cardinality(Before(ps, i)) + 1]
<1>1. D = 1..Len(ps) /\ Len(ps) \in Nat /\ IsFiniteSet(D)
  BY PlacesAre
<1>2. \A i \in D : place[i] \in D /\ Cardinality(Before(ps, i)) = place[i] - 1
  BY PlacesAre
<1>3. \A i, j \in D : Precedes(ps, i, j) => place[i] < place[j]
  BY PlacesAre
<1>4. place \in [D -> D]
  BY <1>2
<1> HIDE DEF place
<1>5. \A i, j \in D : place[i] = place[j] => i = j
  <2>1. \A i, j \in D : place[i] = place[j] => ~Precedes(ps, i, j) /\ ~Precedes(ps, j, i)
    BY <1>1, <1>2, <1>3
  <2>2. QED
    BY <2>1, OrderIsTotal
<1>6. \A k \in D : \E i \in D : place[i] = k
  <2>1. place \in Injection(D, D)
    BY <1>4, <1>5 DEF Injection, IsInjective
  <2>2. place \in Surjection(D, D)
    BY <1>1, <2>1, FS_Injection
  <2>3. QED
    BY <2>2 DEF Surjection
<1>7. \A k \in D : Sorted(ps)[k] \in D /\ place[Sorted(ps)[k]] = k
  <2>1. TAKE k \in D
  <2>2. Sorted(ps)[k] = CHOOSE i \in D : Cardinality({j \in D : Precedes(ps, j, i)}) = k - 1
    BY DEF Sorted
  <2>3. \E i \in D : Cardinality({j \in D : Precedes(ps, j, i)}) = k - 1
    BY <1>2, <1>6 DEF Before
  <2>4. Sorted(ps)[k] \in D /\ Cardinality(Before(ps, Sorted(ps)[k])) = k - 1
    BY <2>2, <2>3 DEF Before
  <2>5. QED
    BY <1>1, <1>2, <2>4
<1>8. Sorted(ps) \in [D -> D]
  BY <1>7 DEF Sorted
<1>9. \A i \in D : Sorted(ps)[place[i]] = i
  BY <1>2, <1>5, <1>7
<1>10. \A k, l \in D : k < l => Precedes(ps, Sorted(ps)[k], Sorted(ps)[l])
  <2>1. TAKE k, l \in D
  <2>2. HAVE k < l
  <2>3. ~Precedes(ps, Sorted(ps)[l], Sorted(ps)[k]) /\ Sorted(ps)[k] # Sorted(ps)[l]
    BY <1>1, <1>3, <1>7, <2>2
  <2>4. QED
    BY <1>7, <2>3, OrderIsTotal
<1>11. QED
  BY <1>2, <1>8, <1>9, <1>10

----------------------------------------------------------------------------
\* Evaluate.

LEMMA LeastNatural ==
  ASSUME NEW S, S \subseteq Nat, S # {}
  PROVE  /\ Min(S) \in S /\ \A k \in S : Min(S) <= k
         /\ \A m \in S : (\A k \in S : m <= k) => m = Min(S)
<1>1. PICK m \in S : \A k \in S : <<k, m>> \notin OpToRel(<, Nat)
  BY NatLessThanWellFounded, WFMin
<1>2. \A k \in S : ~(k < m)
  BY <1>1, Zenon DEF OpToRel
<1>3. \A k \in S : m <= k
  BY <1>2
<1>4. Min(S) \in S /\ \A k \in S : Min(S) <= k
  BY <1>3 DEF Min
<1>5. ASSUME NEW n \in S, \A k \in S : n <= k PROVE n = Min(S)
  <2>1. n \in Nat /\ Min(S) \in Nat /\ n <= Min(S) /\ Min(S) <= n
    BY <1>4, <1>5
  <2>2. \A a, b \in Nat : a <= b /\ b <= a => a = b
    OBVIOUS
  <2>3. QED
    BY <2>1, <2>2
<1>6. QED
  BY <1>4, <1>5

\* The policies that decide a call.
Deciding(ps, call) == {i \in DOMAIN ps : Considered(ps[i], call) # "continue"}

\* Evaluate answers with the first of them, in the order.
LEMMA EvaluateIsFirst ==
  ASSUME NEW ps \in Seq(Policy), NEW call
  PROVE  /\ Deciding(ps, call) = {} => Evaluate(ps, call) = "allow"
         /\ Deciding(ps, call) # {} =>
              \E i \in Deciding(ps, call) :
                /\ \A j \in Deciding(ps, call) : j = i \/ Precedes(ps, i, j)
                /\ Evaluate(ps, call) = Considered(ps[i], call)
<1> DEFINE order == Sorted(ps)
           ks == {k \in DOMAIN order : Considered(ps[order[k]], call) # "continue"}
<1>1. /\ order \in [DOMAIN ps -> DOMAIN ps] /\ DOMAIN ps = 1..Len(ps) /\ Len(ps) \in Nat
      /\ \A i \in DOMAIN ps : \E k \in DOMAIN ps : order[k] = i
      /\ \A k, l \in DOMAIN ps : k < l => Precedes(ps, order[k], order[l])
  BY SortedIsTheOrder, PlacesAre
<1>2. Evaluate(ps, call) = IF ks = {} THEN "allow" ELSE Considered(ps[order[Min(ks)]], call)
  BY DEF Evaluate
<1> HIDE DEF order
<1>3. ks = {k \in DOMAIN ps : order[k] \in Deciding(ps, call)} /\ ks \subseteq Nat
  BY <1>1 DEF Deciding
<1>4. \A i \in Deciding(ps, call) : \E k \in ks : order[k] = i
  BY <1>1, <1>3 DEF Deciding
<1>5. CASE ks = {}
  BY <1>2, <1>4, <1>5
<1>6. CASE ks # {}
  <2> HIDE DEF ks
  <2>1. Min(ks) \in ks /\ \A k \in ks : Min(ks) <= k
    BY <1>3, <1>6, LeastNatural
  <2> DEFINE i == order[Min(ks)]
  <2>2. i \in Deciding(ps, call) /\ Evaluate(ps, call) = Considered(ps[i], call)
    BY <1>2, <1>3, <1>6, <2>1
  <2>3. ASSUME NEW j \in Deciding(ps, call), j # i PROVE Precedes(ps, i, j)
    <3>1. PICK k \in ks : order[k] = j
      BY <1>4
    <3>2. Min(ks) < k /\ k \in DOMAIN ps /\ Min(ks) \in DOMAIN ps
      BY <1>3, <2>1, <2>3, <3>1
    <3>3. QED
      BY <1>1, <3>1, <3>2
  <2>4. QED
    BY <2>2, <2>3
<1>7. QED
  BY <1>5, <1>6

\* The policies that apply are those that decide.
LEMMA ApplyingDecides ==
  ASSUME NEW ps \in Seq(Policy), NEW call, NEW i \in DOMAIN ps
  PROVE  /\ i \in Applies(ps, call) <=> i \in Deciding(ps, call)
         /\ i \in Applies(ps, call) =>
              Considered(ps[i], call) =
                IF ps[i].when # "error" /\ Approves(ps[i]) THEN "allow" ELSE "deny"
<1> DEFINE p == ps[i]
           c == Considered(p, call)
<1>1. c = IF p.marker \/ ~matchesTarget(p, call) \/ p.when = "differs" THEN "continue"
          ELSE IF p.when # "error" /\ Approves(p) THEN "allow" ELSE "deny"
  BY DEF Considered
<1>2. i \in Applies(ps, call) <=> ~p.marker /\ matchesTarget(p, call) /\ p.when # "differs"
  BY DEF Applies
<1>3. i \in Deciding(ps, call) <=> c # "continue"
  BY DEF Deciding
<1>4. QED
  BY <1>1, <1>2, <1>3

\* So Evaluate answers what the doc of Policy says, for every list and call.
THEOREM EvaluateIsDocumented ==
  ASSUME NEW ps \in Seq(Policy), NEW call
  PROVE  Evaluate(ps, call) = Documented(ps, call)
<1> DEFINE A == Applies(ps, call)
           B == Restrictive(ps, call)
<1>1. A = Deciding(ps, call) /\ A \subseteq DOMAIN ps
  BY ApplyingDecides DEF Applies, Deciding
<1>2. CASE A = {}
  BY <1>1, <1>2, EvaluateIsFirst DEF Documented
<1>3. CASE A # {}
  <2>1. PICK i \in A : /\ \A j \in A : j = i \/ Precedes(ps, i, j)
                       /\ Evaluate(ps, call) = Considered(ps[i], call)
    BY <1>1, <1>3, EvaluateIsFirst
  <2> DEFINE scope(j) == policyScope(ps[j])
             rank(j) == decisionRank(ps[j].decision)
  <2>2. \A j \in A : /\ scope(j) \in 0..2 /\ rank(j) \in 0..2 /\ j \in Nat
                     /\ ps[j].decision \in Decisions
                     /\ rank(j) = 0 <=> ps[j].decision = "deny"
                     /\ rank(j) = 1 <=> ps[j].decision = "ask"
    <3>1. TAKE j \in A
    <3>2. j \in DOMAIN ps /\ ps[j] \in Policy
      BY <1>1
    <3>3. scope(j) \in 0..2 /\ rank(j) \in 0..2 /\ j \in Nat
      BY <3>2, RanksAre
    <3>4. ps[j].decision \in Decisions
      BY <3>2 DEF Policy
    <3>5. QED
      BY <3>3, <3>4 DEF decisionRank, Decisions
  <2>3. \A j \in A : \/ j = i
                     \/ scope(i) < scope(j)
                     \/ scope(i) = scope(j) /\ rank(i) < rank(j)
                     \/ scope(i) = scope(j) /\ rank(i) = rank(j) /\ i < j
    BY <1>1, <2>1, PrecedesIsEarlier DEF Earlier
  <2> HIDE DEF scope, rank
  <2>4. Specific(ps, call) = {j \in A : scope(j) = scope(i)}
    <3>1. Specific(ps, call) = {j \in A : \A k \in A : scope(j) <= scope(k)}
      BY DEF Specific, scope
    <3>2. \A k \in A : scope(i) <= scope(k)
      BY <2>2, <2>3
    <3>3. \A j \in A : (\A k \in A : scope(j) <= scope(k)) <=> scope(j) = scope(i)
      BY <2>2, <3>2
    <3>4. QED
      BY <3>1, <3>3
  <2>5. \A j \in Specific(ps, call) : rank(i) <= rank(j)
    BY <2>2, <2>3, <2>4
  <2>6. B = {j \in Specific(ps, call) : rank(j) = rank(i)}
    <3> DEFINE Strict(d) == {j \in Specific(ps, call) : ps[j].decision = d}
    <3>1. B = IF Strict("deny") # {} THEN Strict("deny")
              ELSE IF Strict("ask") # {} THEN Strict("ask")
              ELSE Specific(ps, call)
      BY DEF Restrictive
    <3>2. /\ Strict("deny") = {j \in Specific(ps, call) : rank(j) = 0}
          /\ Strict("ask") = {j \in Specific(ps, call) : rank(j) = 1}
      BY <2>2, <2>4
    <3> HIDE DEF Strict
    <3>3. i \in Specific(ps, call) /\ rank(i) \in 0..2
      BY <2>2, <2>4
    <3>4. CASE rank(i) = 0
      BY <3>1, <3>2, <3>3, <3>4
    <3>5. CASE rank(i) = 1
      <4>1. Strict("deny") = {} /\ i \in Strict("ask")
        BY <2>5, <3>2, <3>3, <3>5
      <4>2. QED
        BY <3>1, <3>2, <3>5, <4>1
    <3>6. CASE rank(i) = 2
      <4>1. \A j \in Specific(ps, call) : rank(j) = 2
        BY <2>2, <2>4, <2>5, <3>6
      <4>2. Strict("deny") = {} /\ Strict("ask") = {}
        BY <3>2, <4>1
      <4>3. QED
        BY <3>1, <3>6, <4>1, <4>2
    <3>7. QED
      BY <3>3, <3>4, <3>5, <3>6
  <2>7. i = Min(B)
    <3>1. i \in B /\ B \subseteq Nat
      BY <2>2, <2>4, <2>6
    <3>2. \A j \in B : i <= j
      BY <2>2, <2>3, <2>4, <2>6
    <3>3. QED
      BY <3>1, <3>2, LeastNatural
  <2>8. Considered(ps[i], call) =
          IF ps[i].when # "error" /\ Approves(ps[i]) THEN "allow" ELSE "deny"
    BY <1>1, ApplyingDecides
  <2>9. QED
    BY <1>3, <2>1, <2>7, <2>8 DEF Documented, Approves
<1>4. QED
  BY <1>2, <1>3

----------------------------------------------------------------------------
\* The rules the harness is given.

\* Going through the list in the order, the first policy that decides answers.
LEMMA EvaluateInOrder ==
  ASSUME NEW ps \in Seq(Policy), NEW call
  PROVE  /\ (\A k \in DOMAIN ps : Considered(ps[Sorted(ps)[k]], call) = "continue") =>
              Evaluate(ps, call) = "allow"
         /\ \A k \in DOMAIN ps :
              /\ Considered(ps[Sorted(ps)[k]], call) # "continue"
              /\ \A l \in 1..(k - 1) : Considered(ps[Sorted(ps)[l]], call) = "continue"
              => Evaluate(ps, call) = Considered(ps[Sorted(ps)[k]], call)
<1> DEFINE order == Sorted(ps)
           ks == {k \in DOMAIN order : Considered(ps[order[k]], call) # "continue"}
<1>1. DOMAIN order = DOMAIN ps /\ DOMAIN ps = 1..Len(ps) /\ Len(ps) \in Nat
  BY SortedIsTheOrder
<1>2. Evaluate(ps, call) = IF ks = {} THEN "allow" ELSE Considered(ps[order[Min(ks)]], call)
  BY DEF Evaluate
<1>3. ASSUME NEW k \in DOMAIN ps, Considered(ps[order[k]], call) # "continue",
             \A l \in 1..(k - 1) : Considered(ps[order[l]], call) = "continue"
      PROVE  k = Min(ks) /\ ks # {}
  <2>1. k \in ks /\ ks \subseteq Nat
    BY <1>1, <1>3
  <2>2. \A l \in ks : k <= l
    BY <1>1, <1>3
  <2> HIDE DEF ks
  <2>3. QED
    BY <2>1, <2>2, LeastNatural
<1>4. QED
  BY <1>1, <1>2, <1>3

\* policyConfig leaves the order as it is, and what the order depends on.
LEMMA RulesAre ==
  ASSUME NEW ps \in Seq(Policy)
  PROVE  LET given == policyConfig(ps).rules
         IN /\ DOMAIN given = DOMAIN ps
            /\ Sorted(given) = Sorted(ps)
            /\ \A i \in DOMAIN ps :
                 given[i] = [server |-> ps[i].server, tool |-> ps[i].tool,
                             decision |-> ps[i].decision, marker |-> ps[i].marker,
                             id |-> IF isDynamic(ps[i]) THEN i ELSE 0]
<1> DEFINE given == policyConfig(ps).rules
<1>1. /\ DOMAIN given = DOMAIN ps
      /\ \A i \in DOMAIN ps :
           given[i] = [server |-> ps[i].server, tool |-> ps[i].tool,
                       decision |-> ps[i].decision, marker |-> ps[i].marker,
                       id |-> IF isDynamic(ps[i]) THEN i ELSE 0]
  BY DEF policyConfig
<1> HIDE DEF given
<1>2. \A i \in DOMAIN ps : /\ policyScope(given[i]) = policyScope(ps[i])
                           /\ given[i].decision = ps[i].decision
  BY <1>1 DEF policyScope
<1>3. \A i, j \in DOMAIN ps : Precedes(given, j, i) <=> Precedes(ps, j, i)
  BY <1>2 DEF Precedes
<1>4. \A i \in DOMAIN ps : {j \in DOMAIN given : Precedes(given, j, i)}
                             = {j \in DOMAIN ps : Precedes(ps, j, i)}
  BY <1>1, <1>3
<1> DEFINE Place(i) == Cardinality({j \in DOMAIN ps : Precedes(ps, j, i)})
           Place2(i) == Cardinality({j \in DOMAIN given : Precedes(given, j, i)})
<1>5. \A i \in DOMAIN ps : Place(i) = Place2(i)
  BY <1>4
<1>6. \A k \in DOMAIN ps : (CHOOSE i \in DOMAIN given : Place2(i) = k - 1)
                             = (CHOOSE i \in DOMAIN ps : Place(i) = k - 1)
  <2> HIDE DEF Place, Place2
  <2>1. TAKE k \in DOMAIN ps
  <2>2. \A i : (i \in DOMAIN given /\ Place2(i) = k - 1) <=> (i \in DOMAIN ps /\ Place(i) = k - 1)
    BY <1>1, <1>5
  <2>3. QED
    BY <2>2
<1>7. Sorted(given) = Sorted(ps)
  <2>1. /\ Sorted(given) = [k \in DOMAIN given |-> CHOOSE i \in DOMAIN given : Place2(i) = k - 1]
        /\ Sorted(ps) = [k \in DOMAIN ps |-> CHOOSE i \in DOMAIN ps : Place(i) = k - 1]
    BY DEF Sorted
  <2> HIDE DEF Place, Place2
  <2>2. QED
    BY <1>1, <1>6, <2>1
<1>8. QED
  BY <1>1, <1>7 DEF given

\* The client answers one of three things, and denies a rule it does not know.
LEMMA DecisionsAre ==
  ASSUME NEW ps \in Seq(Policy)
  PROVE  /\ \A id : PolicyDecision(ps, id) \in {"allow", "deny", "noMatch"}
         /\ PolicyDecision(ps, Len(ps) + 1) = "deny"
<1>1. Len(ps) + 1 \notin DOMAIN ps
  BY PlacesAre
<1>2. DOMAIN policyConfig(ps).dynamic \subseteq DOMAIN ps
  BY DEF policyConfig
<1>3. QED
  BY <1>1, <1>2 DEF PolicyDecision

\* A rule the harness applies itself, or asks the client about, comes to what
\* Evaluate makes of its policy.
LEMMA RulesAnswerAlike ==
  ASSUME NEW ps \in Seq(Policy), NEW call, NEW i \in DOMAIN ps
  PROVE  /\ ~ps[i].marker /\ matchesTarget(ps[i], call) /\ ~isDynamic(ps[i]) =>
              Considered(ps[i], call) = IF ps[i].decision = "approve" THEN "allow" ELSE "deny"
         /\ matchesTarget(ps[i], call) /\ isDynamic(ps[i]) =>
              Considered(ps[i], call) =
                IF PolicyDecision(ps, i) = "noMatch" THEN "continue" ELSE PolicyDecision(ps, i)
<1> DEFINE dynamic == policyConfig(ps).dynamic
<1>1. dynamic = [j \in {k \in DOMAIN ps : isDynamic(ps[k])} |-> ps[j]]
  BY DEF policyConfig
<1>2. \A id : PolicyDecision(ps, id) =
         IF id \notin DOMAIN dynamic THEN "deny"
         ELSE IF dynamic[id].when = "differs" THEN "noMatch"
         ELSE IF dynamic[id].when # "error" /\ Approves(dynamic[id]) THEN "allow"
         ELSE "deny"
  BY DEF PolicyDecision
<1> HIDE DEF dynamic
<1>3. ASSUME ~ps[i].marker, matchesTarget(ps[i], call), ~isDynamic(ps[i])
      PROVE  Considered(ps[i], call) = IF ps[i].decision = "approve" THEN "allow" ELSE "deny"
  <2>1. ps[i].when = "none" /\ ps[i].decision # "ask"
    BY <1>3 DEF isDynamic
  <2>2. QED
    BY <1>3, <2>1 DEF Considered, Approves
<1>4. ASSUME matchesTarget(ps[i], call), isDynamic(ps[i])
      PROVE  Considered(ps[i], call) =
               IF PolicyDecision(ps, i) = "noMatch" THEN "continue" ELSE PolicyDecision(ps, i)
  <2>1. i \in DOMAIN dynamic /\ dynamic[i] = ps[i] /\ ~ps[i].marker
    BY <1>1, <1>4 DEF isDynamic
  <2>2. QED
    BY <1>2, <1>4, <2>1 DEF Considered
<1>5. QED
  BY <1>3, <1>4
=============================================================================
