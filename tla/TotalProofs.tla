----------------------------- MODULE TotalProofs -----------------------------
(***************************************************************************)
(* Lemmas about sums over finite sets (Totals.tla): what a total is does   *)
(* not depend on the order of its summands. Induction is over the subsets  *)
(* of the set, by the minimal element of the set of counterexamples.       *)
(***************************************************************************)
EXTENDS Totals, FiniteSetTheorems, TLAPS

\* The definition of Total, unfolded once.
Some(s) == CHOOSE x \in s : TRUE
Sum(f, g, s) == IF s = {} THEN 0 ELSE f[Some(s)] + g[s \ {Some(s)}]

\* The functions that sum f over every subset of S.
Sums(f, S) == {g \in [SUBSET S -> Int] : \A s \in SUBSET S : g[s] = Sum(f, g, s)}

Summable(f, S) == IsFiniteSet(S) /\ \A x \in S : f[x] \in Int

LEMMA SomeOf == ASSUME NEW s, s # {} PROVE Some(s) \in s
  BY DEF Some

\* A set of subsets of a finite set has a minimal element.
LEMMA SmallestSubset ==
  ASSUME NEW S, IsFiniteSet(S), NEW T, T \subseteq SUBSET S, T # {}
  PROVE  \E s \in T : \A r \in T : r \subseteq s => r = s
  <1>1. IsWellFoundedOn(StrictSubsetOrdering(S), FiniteSubsetsOf(S))
    BY FS_StrictSubsetOrderingWellFounded
  <1>2. T \subseteq FiniteSubsetsOf(S)
    BY FS_FiniteSubsetsOfFinite
  <1>3. \E s \in T : \A r \in T : <<r, s>> \notin StrictSubsetOrdering(S)
    BY <1>1, <1>2, WFMin
  <1> QED
    BY <1>3 DEF StrictSubsetOrdering

\* Induction over a finite set, one element at a time: T is what has been shown.
LEMMA SubsetInduction ==
  ASSUME NEW S, IsFiniteSet(S), NEW T, {} \in T,
         \A s \in SUBSET S : \A x \in s : s \ {x} \in T => s \in T
  PROVE  SUBSET S \subseteq T
  <1> DEFINE bad == {s \in SUBSET S : s \notin T}
  <1> SUFFICES ASSUME bad # {} PROVE FALSE
    OBVIOUS
  <1>1. PICK s \in bad : \A r \in bad : r \subseteq s => r = s
    <2>2. bad \subseteq SUBSET S
      OBVIOUS
    <2> HIDE DEF bad
    <2> QED
      BY <2>2, SmallestSubset
  <1>2. PICK x \in s : TRUE
    BY <1>1
  <1>3. s \ {x} \in T
    BY <1>1, <1>2
  <1> QED
    BY <1>1, <1>2, <1>3

\* Two such functions agree where both are defined.
LEMMA SumsAgree ==
  ASSUME NEW f, NEW S, NEW R, Summable(f, S), NEW g \in Sums(f, S), NEW h \in Sums(f, R)
  PROVE  \A s \in SUBSET (S \cap R) : g[s] = h[s]
  <1> DEFINE bad == {s \in SUBSET S : s \subseteq R /\ g[s] # h[s]}
  <1> SUFFICES ASSUME bad # {} PROVE FALSE
    OBVIOUS
  <1>1. PICK s \in bad : \A r \in bad : r \subseteq s => r = s
    <2>1. IsFiniteSet(S)
      BY DEF Summable
    <2>2. bad \subseteq SUBSET S
      OBVIOUS
    <2> HIDE DEF bad
    <2> QED
      BY <2>1, <2>2, SmallestSubset
  <1>2. g[s] = Sum(f, g, s) /\ h[s] = Sum(f, h, s)
    BY <1>1 DEF Sums
  <1>3. s # {}
    BY <1>1, <1>2 DEF Sum
  <1>4. Some(s) \in s
    BY <1>3, SomeOf
  <1>5. g[s \ {Some(s)}] = h[s \ {Some(s)}]
    BY <1>1, <1>4
  <1> QED
    BY <1>1, <1>2, <1>3, <1>5 DEF Sum

\* There is one.
LEMMA SumsExist == ASSUME NEW f, NEW S, Summable(f, S) PROVE Sums(f, S) # {}
  <1> DEFINE bad == {s \in SUBSET S : Sums(f, s) = {}}
  <1> SUFFICES ASSUME bad # {} PROVE FALSE
    OBVIOUS
  <1>1. PICK s \in bad : \A r \in bad : r \subseteq s => r = s
    <2>1. IsFiniteSet(S)
      BY DEF Summable
    <2>2. bad \subseteq SUBSET S
      OBVIOUS
    <2> HIDE DEF bad
    <2> QED
      BY <2>1, <2>2, SmallestSubset
  <1>2. \A r \in SUBSET S : Summable(f, r)
    BY FS_Subset DEF Summable
  <1> DEFINE part(r) == CHOOSE g : g \in Sums(f, r)
             top == IF s = {} THEN 0 ELSE f[Some(s)] + part(s \ {Some(s)})[s \ {Some(s)}]
             all == [r \in SUBSET s |-> IF r = s THEN top ELSE part(r)[r]]
  <1>3. ASSUME NEW r \in SUBSET s, r # s PROVE part(r) \in Sums(f, r) /\ part(r)[r] \in Int
    <2>1. part(r) \in Sums(f, r)
      BY <1>1, <1>3
    <2> QED
      BY <2>1 DEF Sums
  <1>4. s # {} => Some(s) \in s /\ s \ {Some(s)} \in SUBSET s /\ s \ {Some(s)} # s
    BY SomeOf
  <1>5. top \in Int
    <2>1. CASE s = {}
      BY <2>1
    <2>2. CASE s # {}
      <3>1. part(s \ {Some(s)})[s \ {Some(s)}] \in Int
        BY <1>3, <1>4, <2>2
      <3>2. f[Some(s)] \in Int
        BY <1>1, <1>4, <2>2 DEF Summable
      <3> QED
        BY <2>2, <3>1, <3>2
    <2> QED
      BY <2>1, <2>2
  <1>6. all \in [SUBSET s -> Int]
    BY <1>3, <1>5
  <1>7. ASSUME NEW r \in SUBSET s PROVE all[r] = Sum(f, all, r)
    <2>1. CASE r = {}
      <3>1. CASE s = {}
        BY <2>1, <3>1 DEF Sum
      <3>2. CASE s # {}
        <4>1. part(r) \in Sums(f, r)
          BY <1>3, <2>1, <3>2
        <4> QED
          BY <2>1, <3>2, <4>1 DEF Sums, Sum
      <3> QED
        BY <3>1, <3>2
    <2>2. CASE r # {}
      <3> DEFINE rest == r \ {Some(r)}
      <3>1. Some(r) \in r /\ rest \in SUBSET s /\ rest # s /\ rest \subseteq r
        BY <2>2, SomeOf
      <3>2. all[rest] = part(rest)[rest]
        BY <3>1
      <3>3. CASE r = s
        BY <2>2, <3>2, <3>3 DEF Sum
      <3>4. CASE r # s
        <4>1. part(r) \in Sums(f, r) /\ part(rest) \in Sums(f, rest)
          BY <1>3, <3>1, <3>4
        <4>2. Summable(f, r)
          BY <1>1, <1>2
        <4>3. part(r)[rest] = part(rest)[rest]
          BY <3>1, <4>1, <4>2, SumsAgree
        <4>4. part(r)[r] = f[Some(r)] + part(r)[rest]
          BY <2>2, <4>1 DEF Sums, Sum
        <4> QED
          BY <2>2, <3>2, <3>4, <4>3, <4>4 DEF Sum
      <3> QED
        BY <3>3, <3>4
    <2> QED
      BY <2>1, <2>2
  <1>8. all \in Sums(f, s)
    <2> HIDE DEF all
    <2> QED
      BY <1>6, <1>7 DEF Sums
  <1> QED
    BY <1>1, <1>8

\* Total is what such a function says.
LEMMA TotalOfSums ==
  ASSUME NEW f, NEW S, Summable(f, S), NEW g \in Sums(f, S)
  PROVE  Total(f, S) = g[S]
  <1> DEFINE iter == CHOOSE h : h = [s \in SUBSET S |-> Sum(f, h, s)]
  <1>1. Total(f, S) = iter[S]
    BY DEF Total, MapThenSumSet, MapThenFoldSet, Sum, Some
  <1>2. g = [s \in SUBSET S |-> Sum(f, g, s)]
    BY DEF Sums
  <1>3. iter = [s \in SUBSET S |-> Sum(f, iter, s)]
    BY <1>2
  <1> HIDE DEF iter
  <1>4. \A s \in SUBSET S : iter[s] = g[s]
    <2> DEFINE bad == {s \in SUBSET S : iter[s] # g[s]}
    <2> SUFFICES ASSUME bad # {} PROVE FALSE
      OBVIOUS
    <2>1. PICK s \in bad : \A r \in bad : r \subseteq s => r = s
      <3>1. IsFiniteSet(S)
        BY DEF Summable
      <3>2. bad \subseteq SUBSET S
        OBVIOUS
      <3> HIDE DEF bad
      <3> QED
        BY <3>1, <3>2, SmallestSubset
    <2>2. g[s] = Sum(f, g, s) /\ iter[s] = Sum(f, iter, s)
      BY <1>3, <2>1 DEF Sums
    <2>3. s # {}
      BY <2>1, <2>2 DEF Sum
    <2>4. Some(s) \in s
      BY <2>3, SomeOf
    <2>5. g[s \ {Some(s)}] = iter[s \ {Some(s)}]
      BY <2>1, <2>4
    <2> QED
      BY <2>1, <2>2, <2>3, <2>5 DEF Sum
  <1> QED
    BY <1>1, <1>4

-----------------------------------------------------------------------------
(* What Total does. *)

LEMMA TotalEmpty == ASSUME NEW f PROVE Total(f, {}) = 0
  <1>1. Summable(f, {})
    BY FS_EmptySet DEF Summable
  <1>2. PICK g : g \in Sums(f, {})
    BY <1>1, SumsExist
  <1> QED
    BY <1>1, <1>2, TotalOfSums DEF Sums, Sum

\* One function tells the totals of all subsets.
LEMMA TotalOfSubset ==
  ASSUME NEW f, NEW S, Summable(f, S), NEW g \in Sums(f, S), NEW s \in SUBSET S
  PROVE  Summable(f, s) /\ Total(f, s) = g[s]
  <1>1. Summable(f, s)
    BY FS_Subset DEF Summable
  <1>2. PICK h : h \in Sums(f, s)
    BY <1>1, SumsExist
  <1>3. g[s] = h[s]
    BY <1>2, SumsAgree
  <1> QED
    BY <1>1, <1>2, <1>3, TotalOfSums

LEMMA TotalType == ASSUME NEW f, NEW S, Summable(f, S) PROVE Total(f, S) \in Int
  <1>1. PICK g : g \in Sums(f, S)
    BY SumsExist
  <1>2. Total(f, S) = g[S]
    BY <1>1, TotalOfSums
  <1>3. g \in [SUBSET S -> Int] /\ S \in SUBSET S
    BY <1>1 DEF Sums
  <1> QED
    BY <1>2, <1>3

\* Whichever element is taken out, it is its summand that is missing.
LEMMA TotalRemove ==
  ASSUME NEW f, NEW S, Summable(f, S), NEW x \in S
  PROVE  Total(f, S) = f[x] + Total(f, S \ {x})
  <1>1. PICK g : g \in Sums(f, S)
    BY SumsExist
  <1> DEFINE bad == {s \in SUBSET S : \E y \in s : g[s] # f[y] + g[s \ {y}]}
  <1>2. bad = {}
    <2> SUFFICES ASSUME bad # {} PROVE FALSE
      OBVIOUS
    <2>1. PICK s \in bad : \A r \in bad : r \subseteq s => r = s
      <3>1. IsFiniteSet(S) /\ bad \subseteq SUBSET S
        BY DEF Summable
      <3> HIDE DEF bad
      <3> QED
        BY <3>1, SmallestSubset
    <2>2. PICK y \in s : g[s] # f[y] + g[s \ {y}]
      BY <2>1
    <2> DEFINE z == Some(s)
    <2>3. z \in s
      BY <2>2, SomeOf
    <2>4. g[s] = f[z] + g[s \ {z}]
      BY <1>1, <2>1, <2>3 DEF Sums, Sum
    <2>5. y # z
      BY <2>2, <2>4
    <2> HIDE DEF z
    <2>6. PICK rest \in SUBSET S :
            /\ rest = (s \ {z}) \ {y}
            /\ rest = (s \ {y}) \ {z}
      BY <2>1
    <2>7. s \ {z} \notin bad /\ s \ {y} \notin bad
      BY <2>1, <2>2, <2>3
    <2>8. g[s \ {z}] = f[y] + g[rest]
      BY <2>1, <2>2, <2>5, <2>6, <2>7
    <2>9. g[s \ {y}] = f[z] + g[rest]
      BY <2>1, <2>3, <2>5, <2>6, <2>7
    <2>10. f[y] \in Int /\ f[z] \in Int /\ g[rest] \in Int
      BY <1>1, <2>1, <2>2, <2>3, <2>6 DEF Summable, Sums
    <2> QED
      BY <2>2, <2>4, <2>8, <2>9, <2>10
  <1>3. g[S] = f[x] + g[S \ {x}]
    BY <1>2
  <1>4. Total(f, S) = g[S] /\ Total(f, S \ {x}) = g[S \ {x}]
    BY <1>1, TotalOfSubset
  <1> QED
    BY <1>3, <1>4

LEMMA SubsetSummable ==
  ASSUME NEW f, NEW S, Summable(f, S), NEW s \in SUBSET S
  PROVE  Summable(f, s)
  BY FS_Subset DEF Summable

\* A total of naturals is natural.
LEMMA TotalNat ==
  ASSUME NEW f, NEW S, IsFiniteSet(S), \A x \in S : f[x] \in Nat
  PROVE  Total(f, S) \in Nat
  <1>1. Summable(f, S)
    BY DEF Summable
  <1> DEFINE T == {s \in SUBSET S : Total(f, s) \in Nat}
  <1>2. {} \in T
    BY TotalEmpty
  <1>3. ASSUME NEW s \in SUBSET S, NEW x \in s, s \ {x} \in T PROVE s \in T
    <2>1. Total(f, s) = f[x] + Total(f, s \ {x})
      BY <1>1, SubsetSummable, TotalRemove
    <2> QED
      BY <1>3, <2>1
  <1>4. SUBSET S \subseteq T
    <2> HIDE DEF T
    <2> QED
      BY <1>2, <1>3, SubsetInduction
  <1> QED
    BY <1>4

\* Totals add up.
LEMMA TotalPlus ==
  ASSUME NEW f, NEW g, NEW h, NEW S, Summable(f, S), Summable(g, S),
         \A x \in S : h[x] = f[x] + g[x]
  PROVE  Total(h, S) = Total(f, S) + Total(g, S)
  <1>1. Summable(h, S) /\ IsFiniteSet(S)
    BY DEF Summable
  <1> DEFINE T == {s \in SUBSET S : Total(h, s) = Total(f, s) + Total(g, s)}
  <1>2. {} \in T
    BY TotalEmpty
  <1>3. ASSUME NEW s \in SUBSET S, NEW x \in s, s \ {x} \in T PROVE s \in T
    <2>1. /\ Total(f, s) = f[x] + Total(f, s \ {x})
          /\ Total(g, s) = g[x] + Total(g, s \ {x})
          /\ Total(h, s) = h[x] + Total(h, s \ {x})
      BY <1>1, SubsetSummable, TotalRemove
    <2>2. f[x] \in Int /\ g[x] \in Int /\ h[x] = f[x] + g[x]
      BY DEF Summable
    <2>3. /\ Total(f, s \ {x}) \in Int /\ Total(g, s \ {x}) \in Int
      BY SubsetSummable, TotalType
    <2> QED
      BY <1>3, <2>1, <2>2, <2>3
  <1>4. SUBSET S \subseteq T
    <2> HIDE DEF T
    <2> QED
      BY <1>1, <1>2, <1>3, SubsetInduction
  <1> QED
    BY <1>4

\* A total of zeros.
LEMMA TotalZero ==
  ASSUME NEW f, NEW S, IsFiniteSet(S), \A x \in S : f[x] = 0
  PROVE  Total(f, S) = 0
  <1>1. Summable(f, S) /\ \A x \in S : f[x] = f[x] + f[x]
    BY DEF Summable
  <1>2. Total(f, S) = Total(f, S) + Total(f, S)
    BY <1>1, TotalPlus
  <1>3. Total(f, S) \in Int
    BY <1>1, TotalType
  <1>4. PICK n \in Int : n = Total(f, S)
    BY <1>3
  <1>5. n = n + n
    BY <1>2, <1>4
  <1>6. n = 0
    BY <1>5
  <1> QED
    BY <1>4, <1>6

\* A total depends on the summands only.
LEMMA TotalSame ==
  ASSUME NEW f, NEW g, NEW S, Summable(f, S), \A x \in S : g[x] = f[x]
  PROVE  Total(g, S) = Total(f, S)
  <1> DEFINE zero == [x \in S |-> 0]
  <1>1. /\ \A x \in S : zero[x] = 0
        /\ IsFiniteSet(S)
    BY DEF Summable
  <1> HIDE DEF zero
  <1>2. Summable(zero, S) /\ \A x \in S : g[x] = f[x] + zero[x]
    BY <1>1 DEF Summable
  <1>3. Total(g, S) = Total(f, S) + Total(zero, S)
    BY <1>2, TotalPlus
  <1>4. Total(zero, S) = 0 /\ Total(f, S) \in Int
    BY <1>1, TotalZero, TotalType
  <1> QED
    BY <1>3, <1>4

\* The total of one summand, and of two disjoint sets.
LEMMA TotalOne ==
  ASSUME NEW f, NEW x, f[x] \in Int
  PROVE  Total(f, {x}) = f[x]
  <1>1. Summable(f, {x})
    BY FS_Singleton DEF Summable
  <1>2. Total(f, {x}) = f[x] + Total(f, {x} \ {x})
    BY <1>1, TotalRemove
  <1>3. {x} \ {x} = {}
    OBVIOUS
  <1> QED
    BY <1>2, <1>3, TotalEmpty

LEMMA TotalUnion ==
  ASSUME NEW f, NEW S, NEW R, Summable(f, S), Summable(f, R), S \cap R = {}
  PROVE  Summable(f, S \cup R) /\ Total(f, S \cup R) = Total(f, S) + Total(f, R)
  <1>1. IsFiniteSet(S) /\ Summable(f, S \cup R)
    BY FS_Union DEF Summable
  <1> DEFINE T == {s \in SUBSET S : Total(f, s \cup R) = Total(f, s) + Total(f, R)}
  <1>2. {} \in T
    <2>1. {} \cup R = R /\ Total(f, R) \in Int
      BY TotalType
    <2> QED
      BY <2>1, TotalEmpty
  <1>3. ASSUME NEW s \in SUBSET S, NEW x \in s, s \ {x} \in T PROVE s \in T
    <2>1. Summable(f, s) /\ Summable(f, s \cup R) /\ Summable(f, s \ {x})
      <3>1. s \cup R \in SUBSET (S \cup R)
        OBVIOUS
      <3> QED
        BY <1>1, <3>1, SubsetSummable
    <2>2. Total(f, s) = f[x] + Total(f, s \ {x})
      BY <2>1, TotalRemove
    <2>3. Total(f, s \cup R) = f[x] + Total(f, (s \cup R) \ {x})
      BY <2>1, TotalRemove
    <2>4. (s \cup R) \ {x} = (s \ {x}) \cup R
      OBVIOUS
    <2>5. f[x] \in Int /\ Total(f, s \ {x}) \in Int /\ Total(f, R) \in Int
      BY <2>1, TotalType DEF Summable
    <2>6. Total(f, (s \ {x}) \cup R) = Total(f, s \ {x}) + Total(f, R)
      BY <1>3
    <2>7. PICK a \in Int, b \in Int, c \in Int :
            a = f[x] /\ b = Total(f, s \ {x}) /\ c = Total(f, R)
      BY <2>5
    <2>8. Total(f, s \cup R) = a + (b + c)
      BY <2>3, <2>4, <2>6, <2>7
    <2>9. Total(f, s) = a + b
      BY <2>2, <2>7
    <2>10. Total(f, s \cup R) = Total(f, s) + Total(f, R)
      BY <2>7, <2>8, <2>9
    <2> QED
      BY <2>10
  <1>4. SUBSET S \subseteq T
    <2> HIDE DEF T
    <2> QED
      BY <1>1, <1>2, <1>3, SubsetInduction
  <1> QED
    BY <1>1, <1>4

\* A set that two disjoint parts make up.
LEMMA TotalSplit ==
  ASSUME NEW f, NEW A, NEW B, NEW U, Summable(f, A), Summable(f, B), A \cap B = {}, U = A \cup B
  PROVE  Total(f, U) = Total(f, A) + Total(f, B)
  BY TotalUnion

\* Summing by owner: each summand is in the share of one owner.
LEMMA TotalByOwner ==
  ASSUME NEW f, NEW S, Summable(f, S), NEW P, IsFiniteSet(P), NEW owner,
         \A x \in S : owner[x] \in P,
         NEW part, \A q \in P : part[q] = {x \in S : owner[x] = q},
         NEW share, \A q \in P : share[q] = Total(f, part[q])
  PROVE  Summable(share, P) /\ Total(share, P) = Total(f, S)
  <1>1. \A q \in P : share[q] \in Int
    <2> TAKE q \in P
    <2>1. part[q] \in SUBSET S
      OBVIOUS
    <2>2. Summable(f, part[q])
      BY <2>1, SubsetSummable
    <2> QED
      BY <2>2, TotalType
  <1>2. Summable(share, P)
    BY <1>1 DEF Summable
  <1> DEFINE of(Q) == {x \in S : owner[x] \in Q}
             T == {Q \in SUBSET P : Total(share, Q) = Total(f, of(Q))}
  <1>3. {} \in T
    <2>1. of({}) = {}
      OBVIOUS
    <2> QED
      BY <2>1, TotalEmpty
  <1>4. ASSUME NEW Q \in SUBSET P, NEW q \in Q, Q \ {q} \in T PROVE Q \in T
    <2>1. PICK mine \in SUBSET S : mine = {x \in S : owner[x] = q}
      OBVIOUS
    <2>2. PICK rest \in SUBSET S : rest = of(Q \ {q})
      OBVIOUS
    <2>3. Total(f, of(Q)) = Total(f, mine) + Total(f, rest)
      <3>1. of(Q) = mine \cup rest /\ mine \cap rest = {}
        BY <2>1, <2>2
      <3>2. Summable(f, mine) /\ Summable(f, rest)
        BY SubsetSummable
      <3>3. PICK whole : whole = of(Q)
        OBVIOUS
      <3>4. Total(f, whole) = Total(f, mine) + Total(f, rest)
        <4>1. whole = mine \cup rest /\ mine \cap rest = {}
          BY <3>1, <3>3
        <4> QED
          BY <3>2, <4>1, TotalSplit
      <3> HIDE DEF of
      <3> QED
        BY <3>3, <3>4
    <2>4. Total(share, Q) = share[q] + Total(share, Q \ {q})
      BY <1>2, SubsetSummable, TotalRemove
    <2>5. Total(share, Q \ {q}) = Total(f, rest) /\ share[q] = Total(f, mine)
      BY <1>4, <2>1, <2>2
    <2> QED
      BY <2>3, <2>4, <2>5
  <1>5. SUBSET P \subseteq T
    <2> HIDE DEF T
    <2> QED
      BY <1>3, <1>4, SubsetInduction
  <1>6. of(P) = S
    OBVIOUS
  <1> QED
    BY <1>2, <1>5, <1>6

\* A total changes by what one summand changes by.
LEMMA TotalExcept ==
  ASSUME NEW f, NEW g, NEW S, Summable(f, S), Summable(g, S), NEW x \in S,
         \A y \in S \ {x} : g[y] = f[y]
  PROVE  Total(g, S) = Total(f, S) + g[x] - f[x]
  <1>1. /\ Total(f, S) = f[x] + Total(f, S \ {x})
        /\ Total(g, S) = g[x] + Total(g, S \ {x})
    BY TotalRemove
  <1>2. Summable(f, S \ {x})
    BY SubsetSummable
  <1>3. Total(g, S \ {x}) = Total(f, S \ {x}) /\ Total(f, S \ {x}) \in Int
    BY <1>2, TotalSame, TotalType
  <1>4. f[x] \in Int /\ g[x] \in Int
    BY DEF Summable
  <1> QED
    BY <1>1, <1>3, <1>4

\* The total of a function that is zero but in one place.
LEMMA TotalPoint ==
  ASSUME NEW f, NEW S, Summable(f, S), NEW x \in S, \A y \in S \ {x} : f[y] = 0
  PROVE  Total(f, S) = f[x]
  <1>1. Total(f, S) = f[x] + Total(f, S \ {x})
    BY TotalRemove
  <1>2. IsFiniteSet(S \ {x})
    BY SubsetSummable DEF Summable
  <1>3. Total(f, S \ {x}) = 0
    BY <1>2, TotalZero
  <1>4. f[x] \in Int
    BY DEF Summable
  <1> QED
    BY <1>1, <1>3, <1>4

\* Larger summands, a larger total.
LEMMA TotalAtMost ==
  ASSUME NEW f, NEW g, NEW S, Summable(f, S), Summable(g, S), \A x \in S : f[x] <= g[x]
  PROVE  Total(f, S) <= Total(g, S)
  <1>1. PICK more : more = [x \in S |-> g[x] - f[x]]
    OBVIOUS
  <1>2. \A x \in S : more[x] \in Nat /\ g[x] = f[x] + more[x]
    BY <1>1 DEF Summable
  <1>3. IsFiniteSet(S) /\ Summable(more, S)
    BY <1>2 DEF Summable
  <1>4. Total(g, S) = Total(f, S) + Total(more, S)
    BY <1>2, <1>3, TotalPlus
  <1>5. Total(more, S) \in Nat /\ Total(f, S) \in Int
    BY <1>2, <1>3, TotalNat, TotalType
  <1> QED
    BY <1>4, <1>5
=============================================================================
