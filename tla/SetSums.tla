------------------------------ MODULE SetSums ------------------------------
(***************************************************************************)
(* Sums over finite sets, for the proofs. The models write a sum with      *)
(* MapThenSumSet, which takes the summed expression as an operator; no     *)
(* lemma can be stated about that in a form the provers can use. Here the  *)
(* summands are a function f, Total(f, S) is their sum over S, and a proof *)
(* first shows that the MapThenSumSet it speaks of is a Total.             *)
(*                                                                         *)
(* There is no induction rule without an operator parameter either. Every  *)
(* induction over subsets is an argument about a least counterexample.     *)
(***************************************************************************)
EXTENDS Integers, FiniteSetsExt, FiniteSetTheorems, WellFoundedInduction, TLAPS

Some(s) == CHOOSE x \in s : TRUE

\* g[s] is the sum of f over s, for every s \subseteq S.
IsSum(g, f, S) ==
  g = [s \in SUBSET S |-> IF s = {} THEN 0 ELSE f[Some(s)] + g[s \ {Some(s)}]]

Total(f, S) == (CHOOSE g : IsSum(g, f, S))[S]

-----------------------------------------------------------------------------
\* A non-empty family of subsets of a finite set has a least member: one with
\* no proper subset in the family.
LEMMA LeastSubset ==
  ASSUME NEW S, IsFiniteSet(S), NEW D, D \subseteq SUBSET S, D # {}
  PROVE  \E s \in D : \A t \in D : ~(t \subseteq s /\ t # s)
<1>1. FiniteSubsetsOf(S) = SUBSET S
  BY FS_FiniteSubsetsOfFinite
<1>2. IsWellFoundedOn(StrictSubsetOrdering(S), SUBSET S)
  BY <1>1, FS_StrictSubsetOrderingWellFounded
<1>3. PICK s \in D : \A t \in D : <<t, s>> \notin StrictSubsetOrdering(S)
  BY <1>2, WFMin
<1>4. ASSUME NEW t \in D, t \subseteq s, t # s  PROVE FALSE
  <2>1. t \in SUBSET S /\ s \in SUBSET S
    OBVIOUS
  <2>2. <<t, s>> \in StrictSubsetOrdering(S)
    BY <1>4, <2>1 DEF StrictSubsetOrdering
  <2> QED
    BY <1>3, <1>4, <2>2
<1> QED
  BY <1>4

LEMMA SomeMember ==
  ASSUME NEW s, s # {}
  PROVE  Some(s) \in s
BY DEF Some

\* One step of the recursion.
LEMMA SumAt ==
  ASSUME NEW S, NEW f, NEW g, IsSum(g, f, S), NEW s \in SUBSET S
  PROVE  /\ s = {} => g[s] = 0
         /\ s # {} => g[s] = f[Some(s)] + g[s \ {Some(s)}]
BY DEF IsSum

LEMMA SumFromSteps ==
  ASSUME NEW S, NEW f, NEW g, DOMAIN g = SUBSET S, g = [s \in SUBSET S |-> g[s]],
         \A s \in SUBSET S : g[s] = IF s = {} THEN 0 ELSE f[Some(s)] + g[s \ {Some(s)}]
  PROVE  IsSum(g, f, S)
BY DEF IsSum

\* Sums of the same summands over different sets agree on common subsets.
LEMMA SumsAgree ==
  ASSUME NEW S, IsFiniteSet(S), NEW T, S \subseteq T, NEW f,
         NEW g, IsSum(g, f, S), NEW h, IsSum(h, f, T)
  PROVE  \A s \in SUBSET S : g[s] = h[s]
<1> DEFINE D == {s \in SUBSET S : g[s] # h[s]}
<1> SUFFICES ASSUME D # {} PROVE FALSE
  OBVIOUS
<1>1. PICK s \in D : \A t \in D : ~(t \subseteq s /\ t # s)
  <2>1. D \subseteq SUBSET S
    OBVIOUS
  <2> HIDE DEF D
  <2> QED
    BY <2>1, LeastSubset
<1>2. s \in SUBSET S /\ s \in SUBSET T
  OBVIOUS
<1>3. s # {}
  BY <1>2, SumAt
<1>4. Some(s) \in s
  BY <1>3, SomeMember
<1> DEFINE t == s \ {Some(s)}
<1>5. t \in SUBSET S /\ t \subseteq s /\ t # s
  BY <1>2, <1>4
<1>6. g[t] = h[t]
  BY <1>1, <1>5
<1>7. g[s] = f[Some(s)] + g[t] /\ h[s] = f[Some(s)] + h[t]
  BY <1>2, <1>3, SumAt
<1> QED
  BY <1>6, <1>7

\* Every family of summands has a sum.
LEMMA SumExists ==
  ASSUME NEW S, IsFiniteSet(S), NEW f
  PROVE  \E g : IsSum(g, f, S)
<1> DEFINE D == {s \in SUBSET S : ~ \E g : IsSum(g, f, s)}
<1> SUFFICES ASSUME D # {} PROVE FALSE
  <2>1. S \in SUBSET S
    OBVIOUS
  <2> QED
    BY <2>1
<1>1. PICK s \in D : \A t \in D : ~(t \subseteq s /\ t # s)
  <2>1. D \subseteq SUBSET S
    OBVIOUS
  <2> HIDE DEF D
  <2> QED
    BY <2>1, LeastSubset
<1> DEFINE G(t) == CHOOSE g : IsSum(g, f, t)
           rest(t) == t \ {Some(t)}
           new == [t \in SUBSET s |->
                     IF t = {} THEN 0 ELSE f[Some(t)] + G(rest(t))[rest(t)]]
<1>2. s \in SUBSET S /\ ~ \E g : IsSum(g, f, s)
  OBVIOUS
<1>3. ASSUME NEW t \in SUBSET s, t # s  PROVE IsSum(G(t), f, t) /\ IsFiniteSet(t)
  <2>1. t \in SUBSET S /\ t \notin D
    BY <1>1, <1>2, <1>3
  <2>2. \E g : IsSum(g, f, t)
    BY <2>1
  <2>3. IsSum(G(t), f, t)
    BY <2>2
  <2> QED
    BY <2>1, <2>3, FS_Subset
<1>4. ASSUME NEW t \in SUBSET s, t # {}
      PROVE  new[rest(t)] = G(rest(t))[rest(t)]
  <2> DEFINE u == rest(t)
  <2>1. Some(t) \in t
    BY <1>4, SomeMember
  <2>2. u \in SUBSET s /\ u # s
    BY <2>1
  <2>3. IsSum(G(u), f, u) /\ IsFiniteSet(u)
    BY <1>3, <2>2
  <2>4. CASE u = {}
    <3>1. G(u)[u] = 0
      BY <2>3, <2>4, SumAt
    <3> QED
      BY <3>1, <2>2, <2>4
  <2>5. CASE u # {}
    <3> DEFINE v == rest(u)
    <3>1. Some(u) \in u
      BY <2>5, SomeMember
    <3>2. v \in SUBSET s /\ v # s /\ v \in SUBSET u
      BY <3>1, <2>2
    <3>3. IsSum(G(v), f, v) /\ IsFiniteSet(v)
      BY <1>3, <3>2
    <3>4. G(v)[v] = G(u)[v]
      <4> HIDE DEF G, v, u
      <4> QED
        BY <2>3, <3>2, <3>3, SumsAgree
    <3>5. u \in SUBSET u
      OBVIOUS
    <3>6. G(u)[u] = f[Some(u)] + G(u)[v]
      <4> HIDE DEF G, u
      <4> QED
        BY <2>3, <2>5, <3>5, SumAt
    <3>7. new[u] = f[Some(u)] + G(v)[v]
      BY <2>2, <2>5
    <3> QED
      BY <3>4, <3>6, <3>7
  <2> QED
    BY <2>4, <2>5
<1>5. \A t \in SUBSET s : t # {} => new[t] = f[Some(t)] + new[rest(t)]
  BY <1>4
<1>6. IsSum(new, f, s)
  <2>1. DOMAIN new = SUBSET s /\ new = [t \in SUBSET s |-> new[t]]
    OBVIOUS
  <2>2. new[{}] = 0
    OBVIOUS
  <2>3. \A t \in SUBSET s :
          new[t] = IF t = {} THEN 0 ELSE f[Some(t)] + new[t \ {Some(t)}]
    <3> TAKE t \in SUBSET s
    <3>1. CASE t = {}
      BY <2>2, <3>1
    <3>2. CASE t # {}
      <4>1. new[t] = f[Some(t)] + new[rest(t)]
        BY <1>5, <3>2
      <4> HIDE DEF new
      <4> QED
        BY <4>1, <3>2
    <3> QED
      BY <3>1, <3>2
  <2> HIDE DEF new
  <2> QED
    BY <2>1, <2>3, SumFromSteps
<1> QED
  BY <1>2, <1>6

\* Total is the value of any function that satisfies the recursion.
LEMMA TotalIsSum ==
  ASSUME NEW S, IsFiniteSet(S), NEW f, NEW g, IsSum(g, f, S)
  PROVE  \A s \in SUBSET S : g[s] = Total(f, s)
<1> TAKE s \in SUBSET S
<1>1. IsFiniteSet(s)
  BY FS_Subset
<1> DEFINE G == CHOOSE h : IsSum(h, f, s)
<1>2. IsSum(G, f, s)
  BY <1>1, SumExists
<1>3. s \in SUBSET s /\ s \subseteq S
  OBVIOUS
<1>4. G[s] = g[s]
  <2> HIDE DEF G
  <2> QED
    BY <1>1, <1>2, <1>3, SumsAgree
<1> QED
  BY <1>4 DEF Total

-----------------------------------------------------------------------------
(* What sums over finite sets satisfy                                      *)

LEMMA TotalEmpty ==
  ASSUME NEW f
  PROVE  Total(f, {}) = 0
<1>1. IsFiniteSet({})
  BY FS_EmptySet
<1>2. PICK g : IsSum(g, f, {})
  BY <1>1, SumExists
<1>3. {} \in SUBSET {}
  OBVIOUS
<1>4. g[{}] = 0
  BY <1>2, <1>3, SumAt
<1> QED
  BY <1>1, <1>2, <1>3, <1>4, TotalIsSum

LEMMA TotalUnfold ==
  ASSUME NEW S, IsFiniteSet(S), S # {}, NEW f
  PROVE  Total(f, S) = f[Some(S)] + Total(f, S \ {Some(S)})
<1>1. PICK g : IsSum(g, f, S)
  BY SumExists
<1>2. S \in SUBSET S /\ S \ {Some(S)} \in SUBSET S
  OBVIOUS
<1>3. g[S] = f[Some(S)] + g[S \ {Some(S)}]
  BY <1>1, <1>2, SumAt
<1> QED
  BY <1>1, <1>2, <1>3, TotalIsSum

LEMMA TotalType ==
  ASSUME NEW S, IsFiniteSet(S), NEW f, \A x \in S : f[x] \in Int
  PROVE  Total(f, S) \in Int
<1> DEFINE D == {s \in SUBSET S : Total(f, s) \notin Int}
<1> SUFFICES ASSUME D # {} PROVE FALSE
  <2>1. S \in SUBSET S
    OBVIOUS
  <2> QED
    BY <2>1
<1>1. PICK s \in D : \A t \in D : ~(t \subseteq s /\ t # s)
  <2>1. D \subseteq SUBSET S
    OBVIOUS
  <2> HIDE DEF D
  <2> QED
    BY <2>1, LeastSubset
<1>2. s \in SUBSET S /\ IsFiniteSet(s) /\ Total(f, s) \notin Int
  BY FS_Subset
<1>3. s # {}
  BY <1>2, TotalEmpty
<1>4. Some(s) \in s
  BY <1>3, SomeMember
<1>5. Total(f, s \ {Some(s)}) \in Int
  BY <1>1, <1>4
<1>6. Total(f, s) = f[Some(s)] + Total(f, s \ {Some(s)})
  BY <1>2, <1>3, TotalUnfold
<1> QED
  BY <1>2, <1>4, <1>5, <1>6

\* The order in which elements are taken out does not matter.
LEMMA TotalRemove ==
  ASSUME NEW S, IsFiniteSet(S), NEW f, \A x \in S : f[x] \in Int, NEW a \in S
  PROVE  Total(f, S) = f[a] + Total(f, S \ {a})
<1> DEFINE D == {s \in SUBSET S : \E x \in s : Total(f, s) # f[x] + Total(f, s \ {x})}
<1> SUFFICES ASSUME D # {} PROVE FALSE
  <2>1. S \in SUBSET S
    OBVIOUS
  <2> QED
    BY <2>1
<1>1. PICK s \in D : \A t \in D : ~(t \subseteq s /\ t # s)
  <2>1. D \subseteq SUBSET S
    OBVIOUS
  <2> HIDE DEF D
  <2> QED
    BY <2>1, LeastSubset
<1>2. PICK x \in s : Total(f, s) # f[x] + Total(f, s \ {x})
  OBVIOUS
<1> DEFINE y == Some(s)
<1>3. s \in SUBSET S /\ IsFiniteSet(s) /\ y \in s
  BY <1>2, FS_Subset, SomeMember
<1>4. Total(f, s) = f[y] + Total(f, s \ {y})
  BY <1>2, <1>3, TotalUnfold
<1>5. x # y
  BY <1>2, <1>4
<1> HIDE DEF y
<1>6. s \ {y} \notin D /\ s \ {x} \notin D
  <2>1. s \ {y} \subseteq s /\ s \ {y} # s /\ s \ {x} \subseteq s /\ s \ {x} # s
    BY <1>2, <1>3
  <2> QED
    BY <1>1, <2>1
<1>7. Total(f, s \ {y}) = f[x] + Total(f, (s \ {y}) \ {x})
  BY <1>3, <1>5, <1>6
<1>8. Total(f, s \ {x}) = f[y] + Total(f, (s \ {x}) \ {y})
  BY <1>3, <1>5, <1>6
<1>9. (s \ {y}) \ {x} = (s \ {x}) \ {y}
  OBVIOUS
<1>10. Total(f, (s \ {x}) \ {y}) \in Int
  <2>1. IsFiniteSet((s \ {x}) \ {y})
    BY <1>3, FS_RemoveElement
  <2> QED
    BY <1>3, <2>1, TotalType
<1>11. f[x] \in Int /\ f[y] \in Int
  BY <1>3
<1> HIDE DEF D
<1>12. Total(f, s) = f[y] + (f[x] + Total(f, (s \ {x}) \ {y}))
  BY <1>4, <1>7, <1>9
<1>13. f[x] + Total(f, s \ {x}) = f[x] + (f[y] + Total(f, (s \ {x}) \ {y}))
  BY <1>8
<1> QED
  BY <1>2, <1>10, <1>11, <1>12, <1>13

LEMMA TotalAdd ==
  ASSUME NEW S, IsFiniteSet(S), NEW a, a \notin S, NEW f, \A x \in S \cup {a} : f[x] \in Int
  PROVE  Total(f, S \cup {a}) = f[a] + Total(f, S)
<1>1. IsFiniteSet(S \cup {a}) /\ a \in S \cup {a} /\ (S \cup {a}) \ {a} = S
  BY FS_AddElement
<1>2. Total(f, S \cup {a}) = f[a] + Total(f, (S \cup {a}) \ {a})
  BY <1>1, TotalRemove
<1> QED
  BY <1>1, <1>2

\* Only the summands at members of the set matter.
LEMMA TotalEqual ==
  ASSUME NEW S, IsFiniteSet(S), NEW f, NEW g, \A x \in S : f[x] = g[x]
  PROVE  Total(f, S) = Total(g, S)
<1> DEFINE D == {s \in SUBSET S : Total(f, s) # Total(g, s)}
<1> SUFFICES ASSUME D # {} PROVE FALSE
  <2>1. S \in SUBSET S
    OBVIOUS
  <2> QED
    BY <2>1
<1>1. PICK s \in D : \A t \in D : ~(t \subseteq s /\ t # s)
  <2>1. D \subseteq SUBSET S
    OBVIOUS
  <2> HIDE DEF D
  <2> QED
    BY <2>1, LeastSubset
<1>2. s \in SUBSET S /\ IsFiniteSet(s) /\ Total(f, s) # Total(g, s)
  BY FS_Subset
<1>3. s # {}
  BY <1>2, TotalEmpty
<1>4. Some(s) \in s
  BY <1>3, SomeMember
<1>5. Total(f, s \ {Some(s)}) = Total(g, s \ {Some(s)})
  BY <1>1, <1>4
<1>6. /\ Total(f, s) = f[Some(s)] + Total(f, s \ {Some(s)})
      /\ Total(g, s) = g[Some(s)] + Total(g, s \ {Some(s)})
  BY <1>2, <1>3, TotalUnfold
<1> QED
  BY <1>2, <1>4, <1>5, <1>6

\* The sum of sums is the sum over both.
LEMMA TotalPlus ==
  ASSUME NEW S, IsFiniteSet(S), NEW f, NEW g, NEW h,
         \A x \in S : f[x] \in Int /\ g[x] \in Int /\ h[x] = f[x] + g[x]
  PROVE  Total(h, S) = Total(f, S) + Total(g, S)
<1> DEFINE D == {s \in SUBSET S : Total(h, s) # Total(f, s) + Total(g, s)}
<1> SUFFICES ASSUME D # {} PROVE FALSE
  <2>1. S \in SUBSET S
    OBVIOUS
  <2> QED
    BY <2>1
<1>1. PICK s \in D : \A t \in D : ~(t \subseteq s /\ t # s)
  <2>1. D \subseteq SUBSET S
    OBVIOUS
  <2> HIDE DEF D
  <2> QED
    BY <2>1, LeastSubset
<1>2. s \in SUBSET S /\ IsFiniteSet(s) /\ Total(h, s) # Total(f, s) + Total(g, s)
  BY FS_Subset
<1>3. s # {}
  <2>1. Total(f, {}) = 0 /\ Total(g, {}) = 0 /\ Total(h, {}) = 0
    BY TotalEmpty
  <2>2. 0 = Total(f, {}) + Total(g, {})
    BY <2>1
  <2> HIDE DEF D
  <2> QED
    BY <1>2, <2>1, <2>2
<1> DEFINE x == Some(s)
           t == s \ {x}
<1>4. x \in s
  BY <1>3, SomeMember
<1>5. Total(h, t) = Total(f, t) + Total(g, t)
  BY <1>1, <1>4
<1>6. /\ Total(f, s) = f[x] + Total(f, t)
      /\ Total(g, s) = g[x] + Total(g, t)
      /\ Total(h, s) = h[x] + Total(h, t)
  BY <1>2, <1>3, TotalUnfold
<1>7. IsFiniteSet(t) /\ t \in SUBSET S
  BY <1>2, FS_RemoveElement
<1>8. Total(f, t) \in Int /\ Total(g, t) \in Int
  BY <1>7, TotalType
<1>9. f[x] \in Int /\ g[x] \in Int /\ h[x] = f[x] + g[x]
  BY <1>2, <1>4
<1> HIDE DEF x, t
<1> QED
  BY <1>2, <1>5, <1>6, <1>8, <1>9

LEMMA TotalConstant ==
  ASSUME NEW S, IsFiniteSet(S), NEW f, NEW c \in Int, \A x \in S : f[x] = c
  PROVE  Total(f, S) = c * Cardinality(S)
<1> DEFINE D == {s \in SUBSET S : Total(f, s) # c * Cardinality(s)}
<1> SUFFICES ASSUME D # {} PROVE FALSE
  <2>1. S \in SUBSET S
    OBVIOUS
  <2> QED
    BY <2>1
<1>1. PICK s \in D : \A t \in D : ~(t \subseteq s /\ t # s)
  <2>1. D \subseteq SUBSET S
    OBVIOUS
  <2> HIDE DEF D
  <2> QED
    BY <2>1, LeastSubset
<1>2. s \in SUBSET S /\ IsFiniteSet(s) /\ Total(f, s) # c * Cardinality(s)
  BY FS_Subset
<1>3. s # {}
  <2>1. Cardinality({}) = 0 /\ c * 0 = 0
    BY FS_EmptySet
  <2> QED
    BY <1>2, <2>1, TotalEmpty
<1> DEFINE x == Some(s)
           t == s \ {x}
<1>4. x \in s
  BY <1>3, SomeMember
<1>5. Total(f, t) = c * Cardinality(t)
  BY <1>1, <1>4
<1>6. Total(f, s) = f[x] + Total(f, t)
  BY <1>2, <1>3, TotalUnfold
<1>7. Cardinality(t) = Cardinality(s) - 1 /\ Cardinality(s) \in Nat
  BY <1>2, <1>4, FS_RemoveElement, FS_CardinalityType
<1>8. f[x] = c
  BY <1>2, <1>4
<1> HIDE DEF x, t
<1>9. c + c * (Cardinality(s) - 1) = c * Cardinality(s)
  BY <1>7
<1> QED
  BY <1>2, <1>5, <1>6, <1>7, <1>8, <1>9

LEMMA TotalZero ==
  ASSUME NEW S, IsFiniteSet(S), NEW f, \A x \in S : f[x] = 0
  PROVE  Total(f, S) = 0
<1>1. Total(f, S) = 0 * Cardinality(S)
  BY TotalConstant
<1> QED
  BY <1>1, FS_CardinalityType

\* Summands that cancel one by one have sums that cancel.
LEMMA TotalCancels ==
  ASSUME NEW S, IsFiniteSet(S), NEW f, NEW g,
         \A x \in S : f[x] \in Int /\ g[x] \in Int /\ f[x] + g[x] = 0
  PROVE  Total(f, S) + Total(g, S) = 0
<1> DEFINE zero == [x \in S |-> 0]
<1>1. \A x \in S : zero[x] = f[x] + g[x] /\ zero[x] = 0
  OBVIOUS
<1> HIDE DEF zero
<1>2. Total(zero, S) = Total(f, S) + Total(g, S)
  BY <1>1, TotalPlus
<1>3. Total(zero, S) = 0
  BY <1>1, TotalZero
<1> QED
  BY <1>2, <1>3

\* Summands that are zero can be left out.
LEMMA TotalRestrict ==
  ASSUME NEW S, IsFiniteSet(S), NEW T, T \subseteq S, NEW f,
         \A x \in S : f[x] \in Int, \A x \in S \ T : f[x] = 0
  PROVE  Total(f, S) = Total(f, T)
<1> DEFINE D == {s \in SUBSET S : T \subseteq s /\ Total(f, s) # Total(f, T)}
<1> SUFFICES ASSUME D # {} PROVE FALSE
  <2>1. S \in SUBSET S
    OBVIOUS
  <2> QED
    BY <2>1
<1>1. PICK s \in D : \A t \in D : ~(t \subseteq s /\ t # s)
  <2>1. D \subseteq SUBSET S
    OBVIOUS
  <2> HIDE DEF D
  <2> QED
    BY <2>1, LeastSubset
<1>2. s \in SUBSET S /\ IsFiniteSet(s) /\ T \subseteq s /\ Total(f, s) # Total(f, T)
  BY FS_Subset
<1>3. PICK x \in s : x \notin T
  BY <1>2
<1>4. Total(f, s \ {x}) = Total(f, T)
  BY <1>1, <1>2, <1>3
<1>5. Total(f, s) = f[x] + Total(f, s \ {x})
  BY <1>2, TotalRemove
<1>6. IsFiniteSet(T) /\ f[x] = 0
  BY <1>2, <1>3, FS_Subset
<1>7. Total(f, T) \in Int
  BY <1>6, TotalType
<1> QED
  BY <1>2, <1>4, <1>5, <1>6, <1>7

-----------------------------------------------------------------------------
\* What each owes the other cancels over any number of people: a table with
\* M[p][q] + M[q][p] = 0 for every pair has a sum of row sums of zero.
LEMMA TotalSkew ==
  ASSUME NEW S, IsFiniteSet(S), NEW M,
         \A p, q \in S : M[p][q] \in Int /\ M[p][q] + M[q][p] = 0
  PROVE  Total([p \in S |-> Total(M[p], S)], S) = 0
<1> DEFINE Sums(s) == [p \in S |-> Total(M[p], s)]
           D == {s \in SUBSET S : Total(Sums(s), s) # 0}
<1> SUFFICES ASSUME D # {} PROVE FALSE
  <2>1. S \in SUBSET S
    OBVIOUS
  <2> QED
    BY <2>1
<1>1. PICK s \in D : \A t \in D : ~(t \subseteq s /\ t # s)
  <2>1. D \subseteq SUBSET S
    OBVIOUS
  <2> HIDE DEF D
  <2> QED
    BY <2>1, LeastSubset
<1>2. s \subseteq S /\ IsFiniteSet(s) /\ Total(Sums(s), s) # 0
  BY <1>1, FS_Subset
<1>3. s # {}
  <2> HIDE DEF Sums
  <2> QED
    BY <1>2, TotalEmpty
<1>4. PICK a : a \in s
  BY <1>3
<1> DEFINE t == s \ {a}
           column == [p \in S |-> M[p][a]]
<1>5. t \subseteq S /\ IsFiniteSet(t) /\ a \in S
  BY <1>2, <1>4, FS_RemoveElement
<1>6. Total(Sums(t), t) = 0
  <2>1. t \notin D
    BY <1>1, <1>4
  <2> QED
    BY <2>1, <1>5
<1>7. \A p \in S : Total(M[p], s) \in Int /\ Total(M[p], t) \in Int
  <2> HIDE DEF t
  <2> QED
    BY <1>2, <1>5, TotalType
<1>8. \A p \in S : Total(M[p], s) = M[p][a] + Total(M[p], t)
  BY <1>2, <1>4, TotalRemove
<1>9. Total(Sums(s), s) = Total(M[a], s) + Total(Sums(s), t)
  <2>1. \A p \in s : Sums(s)[p] = Total(M[p], s) /\ Sums(s)[p] \in Int
    BY <1>2, <1>7
  <2> HIDE DEF Sums
  <2> QED
    BY <2>1, <1>2, <1>4, TotalRemove
<1>10. Total(Sums(s), t) = Total(column, t) + Total(Sums(t), t)
  <2>1. \A p \in t : /\ column[p] \in Int /\ Sums(t)[p] \in Int
                     /\ Sums(s)[p] = column[p] + Sums(t)[p]
    <3> HIDE DEF t
    <3> QED
      BY <1>5, <1>7, <1>8
  <2> HIDE DEF t, Sums, column
  <2> QED
    BY <2>1, <1>5, TotalPlus
<1>11. M[a][a] = 0
  <2>1. \A x \in Int : x + x = 0 => x = 0
    OBVIOUS
  <2>2. M[a][a] \in Int /\ M[a][a] + M[a][a] = 0
    BY <1>5
  <2> QED
    BY <2>1, <2>2
<1>12. Total(M[a], t) + Total(column, t) = 0
  <2>1. \A p \in t : /\ M[a][p] \in Int /\ column[p] \in Int
                     /\ M[a][p] + column[p] = 0
    <3> HIDE DEF t
    <3> QED
      BY <1>5
  <2> HIDE DEF t, column
  <2> QED
    BY <2>1, <1>5, TotalCancels
<1>13. Total(column, t) \in Int
  <2>1. \A p \in t : column[p] \in Int
    <3> HIDE DEF t
    <3> QED
      BY <1>5
  <2> HIDE DEF t, column
  <2> QED
    BY <2>1, <1>5, TotalType
<1> HIDE DEF t, column, Sums
<1>14. Total(M[a], s) = M[a][a] + Total(M[a], t) /\ Total(M[a], t) \in Int
  BY <1>5, <1>7, <1>8
<1> QED
  BY <1>2, <1>6, <1>9, <1>10, <1>11, <1>12, <1>13, <1>14

=============================================================================
