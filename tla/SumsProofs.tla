----------------------------- MODULE SumsProofs -----------------------------
(***************************************************************************)
(* What a sum over a finite set is, how it compares, splits and groups,    *)
(* and what is largest in one.  A sum is a fold, and the fold a recursive  *)
(* function over the subsets of the set: that the recursion has a          *)
(* solution, and what holds of it, is shown on a smallest subset for which *)
(* it would not.                                                           *)
(***************************************************************************)
EXTENDS Sums, FiniteSetTheorems, WellFoundedInduction, TLAPS

-----------------------------------------------------------------------------
(* The recursion behind a sum has a solution on every finite set.          *)

Chosen(s) == CHOOSE x \in s : TRUE

\* One step of the recursion, and a solution of it.
Step(f, S, g) ==
  [s \in SUBSET S |-> IF s = {} THEN 0 ELSE f[Chosen(s)] + g[s \ {Chosen(s)}]]
Partial(f, S) == CHOOSE g : g = Step(f, S, g)

LEMMA SumIsPartial ==
  ASSUME NEW f, NEW S
  PROVE  SumOver(f, S) = Partial(f, S)[S]
  BY DEF SumOver, MapThenSumSet, MapThenFoldSet, Partial, Step, Chosen

\* Among some subsets of a finite set one contains no other of them.
LEMMA SmallestSubset ==
  ASSUME NEW S, IsFiniteSet(S), NEW Bad, Bad \subseteq SUBSET S, Bad # {}
  PROVE  \E T \in Bad : \A U \in Bad : U \subseteq T => U = T
  <1>1. IsWellFoundedOn(StrictSubsetOrdering(S), SUBSET S)
    BY FS_StrictSubsetOrderingWellFounded, FS_FiniteSubsetsOfFinite
  <1>2. PICK T \in Bad : \A U \in Bad : <<U, T>> \notin StrictSubsetOrdering(S)
    BY <1>1, WFMin
  <1>3. ASSUME NEW U \in Bad, U \subseteq T, U # T PROVE FALSE
    BY <1>2, <1>3 DEF StrictSubsetOrdering
  <1> QED BY <1>3

LEMMA ChosenIsIn == ASSUME NEW s, s # {} PROVE Chosen(s) \in s
  BY DEF Chosen

\* Solutions on two sets agree on the subsets of both.
LEMMA SolutionsAgree ==
  ASSUME NEW f, NEW A, NEW B, IsFiniteSet(A),
         NEW g, g = Step(f, A, g), NEW h, h = Step(f, B, h),
         NEW u, u \subseteq A, u \subseteq B
  PROVE  g[u] = h[u]
  <1> DEFINE Bad == {T \in SUBSET A : T \subseteq B /\ g[T] # h[T]}
  <1> SUFFICES ASSUME g[u] # h[u] PROVE FALSE
    OBVIOUS
  <1>1. Bad # {} /\ Bad \subseteq SUBSET A
    OBVIOUS
  <1>2. PICK T \in Bad : \A U \in Bad : U \subseteq T => U = T
    <2> HIDE DEF Bad
    <2> QED BY <1>1, SmallestSubset
  <1>3. CASE T = {}
    BY <1>3 DEF Step
  <1>4. CASE T # {}
    <2>1. Chosen(T) \in T
      BY <1>4, ChosenIsIn
    <2>2. g[T] = f[Chosen(T)] + g[T \ {Chosen(T)}]
      BY <1>4 DEF Step
    <2>3. h[T] = f[Chosen(T)] + h[T \ {Chosen(T)}]
      BY <1>4 DEF Step
    <2>4. T \ {Chosen(T)} \notin Bad
      BY <1>2, <2>1
    <2> QED BY <2>2, <2>3, <2>4
  <1> QED BY <1>3, <1>4

LEMMA SolutionExists ==
  ASSUME NEW f, NEW S, IsFiniteSet(S)
  PROVE  \E g : g = Step(f, S, g)
  <1> DEFINE Bad == {T \in SUBSET S : ~ \E g : g = Step(f, T, g)}
  <1> SUFFICES ASSUME S \in Bad PROVE FALSE
    OBVIOUS
  <1>1. PICK T \in Bad : \A U \in Bad : U \subseteq T => U = T
    <2>1. Bad # {} /\ Bad \subseteq SUBSET S
      OBVIOUS
    <2> HIDE DEF Bad
    <2> QED BY <2>1, SmallestSubset
  <1>2. T \subseteq S /\ ~ \E g : g = Step(f, T, g)
    OBVIOUS
  <1>3. \A U \in SUBSET T : U # T => Partial(f, U) = Step(f, U, Partial(f, U))
    <2> TAKE U \in SUBSET T
    <2> HAVE U # T
    <2>1. U \notin Bad
      BY <1>1
    <2>2. \E g : g = Step(f, U, g)
      BY <1>2, <2>1
    <2> QED BY <2>2 DEF Partial
  <1>4. \A U \in SUBSET T : IsFiniteSet(U)
    BY <1>2, FS_Subset
  <1>5. ASSUME NEW U \in SUBSET T, U # T, U # {}
        PROVE  Partial(f, U)[U] = f[Chosen(U)] + Partial(f, U \ {Chosen(U)})[U \ {Chosen(U)}]
    <2>1. Chosen(U) \in U
      BY <1>5, ChosenIsIn
    <2> DEFINE V == U \ {Chosen(U)}
    <2>2. V \in SUBSET T /\ V # T /\ V \subseteq U
      BY <1>5
    <2> HIDE DEF V
    <2>3. Partial(f, U)[V] = Partial(f, V)[V]
      BY <1>3, <1>4, <1>5, <2>2, SolutionsAgree
    <2>4. Partial(f, U)[U] = f[Chosen(U)] + Partial(f, U)[V]
      BY <1>3, <1>5 DEF Step, V
    <2> QED BY <2>3, <2>4 DEF V
  <1>6. ASSUME {} # T PROVE Partial(f, {})[{}] = 0
    BY <1>3, <1>6 DEF Step
  <1> DEFINE Value(s) == IF s = {} THEN 0
                         ELSE f[Chosen(s)] + Partial(f, s \ {Chosen(s)})[s \ {Chosen(s)}]
             g == [s \in SUBSET T |-> Value(s)]
  <1>7. g = Step(f, T, g)
    <2> SUFFICES ASSUME NEW s \in SUBSET T, s # {}
                 PROVE  g[s] = f[Chosen(s)] + g[s \ {Chosen(s)}]
      BY DEF Step
    <2>1. Chosen(s) \in s
      BY ChosenIsIn
    <2> DEFINE V == s \ {Chosen(s)}
    <2>2. V \in SUBSET T /\ V # T
      BY <2>1
    <2> HIDE DEF V
    <2>3. CASE V = {}
      <3>1. T # {}
        BY <2>1
      <3>2. g[s] = f[Chosen(s)] + Partial(f, V)[V]
        BY DEF V
      <3> QED BY <3>1, <3>2, <1>6, <2>3, <2>2 DEF V
    <2>4. CASE V # {}
      <3>1. g[V] = f[Chosen(V)] + Partial(f, V \ {Chosen(V)})[V \ {Chosen(V)}]
        BY <2>2, <2>4
      <3>2. g[V] = Partial(f, V)[V]
        BY <3>1, <2>2, <2>4, <1>5
      <3> QED BY <3>2 DEF V
    <2> QED BY <2>3, <2>4
  <1> QED BY <1>2, <1>7

LEMMA SumEmpty == ASSUME NEW f PROVE SumOver(f, {}) = 0
  <1>1. Partial(f, {}) = Step(f, {}, Partial(f, {}))
    BY SolutionExists, FS_EmptySet DEF Partial
  <1> QED BY <1>1, SumIsPartial DEF Step

LEMMA SumChosen ==
  ASSUME NEW f, NEW S, IsFiniteSet(S), S # {}
  PROVE  SumOver(f, S) = f[Chosen(S)] + SumOver(f, S \ {Chosen(S)})
  <1> DEFINE R == S \ {Chosen(S)}
  <1>1. R \subseteq S /\ IsFiniteSet(R)
    BY FS_Subset
  <1> HIDE DEF R
  <1>2. /\ Partial(f, S) = Step(f, S, Partial(f, S))
        /\ Partial(f, R) = Step(f, R, Partial(f, R))
    BY <1>1, SolutionExists DEF Partial
  <1>3. Partial(f, R)[R] = Partial(f, S)[R]
    BY <1>1, <1>2, SolutionsAgree
  <1>4. Partial(f, S)[S] = f[Chosen(S)] + Partial(f, S)[R]
    BY <1>2 DEF Step, R
  <1> QED BY <1>3, <1>4, SumIsPartial DEF R

-----------------------------------------------------------------------------
(* What a sum is. *)

LEMMA SumIsInt ==
  ASSUME NEW f, NEW S, IsFiniteSet(S), \A x \in S : f[x] \in Int
  PROVE  SumOver(f, S) \in Int
  <1> DEFINE Bad == {T \in SUBSET S : SumOver(f, T) \notin Int}
  <1> SUFFICES ASSUME S \in Bad PROVE FALSE
    OBVIOUS
  <1>1. PICK T \in Bad : \A U \in Bad : U \subseteq T => U = T
    <2>1. Bad # {} /\ Bad \subseteq SUBSET S
      OBVIOUS
    <2> HIDE DEF Bad
    <2> QED BY <2>1, SmallestSubset
  <1>2. T # {}
    BY SumEmpty
  <1>3. IsFiniteSet(T) /\ Chosen(T) \in T
    BY <1>2, FS_Subset, ChosenIsIn
  <1>4. SumOver(f, T \ {Chosen(T)}) \in Int
    BY <1>1, <1>3
  <1> QED BY <1>2, <1>3, <1>4, SumChosen

\* Any element may be taken out first.
LEMMA SumWithout ==
  ASSUME NEW f, NEW S, IsFiniteSet(S), \A x \in S : f[x] \in Int, NEW a \in S
  PROVE  SumOver(f, S) = f[a] + SumOver(f, S \ {a})
  <1> DEFINE Bad == {T \in SUBSET S : \E x \in T : SumOver(f, T) # f[x] + SumOver(f, T \ {x})}
  <1> SUFFICES ASSUME S \in Bad PROVE FALSE
    OBVIOUS
  <1>1. PICK T \in Bad : \A U \in Bad : U \subseteq T => U = T
    <2>1. Bad # {} /\ Bad \subseteq SUBSET S
      OBVIOUS
    <2> HIDE DEF Bad
    <2> QED BY <2>1, SmallestSubset
  <1>2. PICK x \in T : SumOver(f, T) # f[x] + SumOver(f, T \ {x})
    OBVIOUS
  <1> DEFINE c == Chosen(T)
             both == T \ {c, x}
  <1>3. T \in SUBSET S /\ c \in T
    BY ChosenIsIn
  <1>4. IsFiniteSet(T) /\ IsFiniteSet(T \ {x})
    BY <1>3, FS_Subset
  <1>5. SumOver(f, T) = f[c] + SumOver(f, T \ {c})
    BY <1>4, SumChosen
  <1>6. c # x
    BY <1>2, <1>5
  <1>7. T \ {c} \notin Bad /\ T \ {x} \notin Bad
    BY <1>1, <1>3
  <1>8. SumOver(f, T \ {c}) = f[x] + SumOver(f, both)
    <2>1. x \in T \ {c} /\ (T \ {c}) \ {x} = both /\ T \ {c} \in SUBSET S
      BY <1>3, <1>6
    <2> QED BY <1>7, <2>1
  <1>9. SumOver(f, T \ {x}) = f[c] + SumOver(f, both)
    <2>1. c \in T \ {x} /\ (T \ {x}) \ {c} = both /\ T \ {x} \in SUBSET S
      BY <1>3, <1>6
    <2> QED BY <1>7, <2>1
  <1>10. f[x] \in Int /\ f[c] \in Int /\ SumOver(f, both) \in Int
    <2>1. both \subseteq S
      BY <1>3
    <2>2. IsFiniteSet(both)
      BY <2>1, FS_Subset
    <2> QED BY <1>3, <2>1, <2>2, SumIsInt
  <1> QED BY <1>2, <1>5, <1>8, <1>9, <1>10

LEMMA SumWith ==
  ASSUME NEW f, NEW S, IsFiniteSet(S), NEW a, a \notin S, \A x \in S \cup {a} : f[x] \in Int
  PROVE  SumOver(f, S \cup {a}) = f[a] + SumOver(f, S)
  <1>1. IsFiniteSet(S \cup {a}) /\ (S \cup {a}) \ {a} = S
    BY FS_AddElement
  <1> QED BY <1>1, SumWithout

-----------------------------------------------------------------------------
(* Comparing sums. *)

LEMMA SumIsAbove ==
  ASSUME NEW f, NEW g, NEW S, IsFiniteSet(S),
         \A x \in S : f[x] \in Int /\ g[x] \in Int /\ f[x] <= g[x]
  PROVE  SumOver(f, S) <= SumOver(g, S)
  <1> DEFINE Bad == {T \in SUBSET S : ~(SumOver(f, T) <= SumOver(g, T))}
  <1> SUFFICES ASSUME S \in Bad PROVE FALSE
    OBVIOUS
  <1>1. PICK T \in Bad : \A U \in Bad : U \subseteq T => U = T
    <2>1. Bad # {} /\ Bad \subseteq SUBSET S
      OBVIOUS
    <2> HIDE DEF Bad
    <2> QED BY <2>1, SmallestSubset
  <1>2. T # {}
    <2>1. SumOver(f, {}) = 0 /\ SumOver(g, {}) = 0
      BY SumEmpty
    <2>2. {} \notin Bad
      BY <2>1
    <2> QED BY <2>2
  <1> DEFINE c == Chosen(T)
             R == T \ {c}
  <1>3. c \in T /\ c \in S /\ R \in SUBSET S /\ R \notin Bad
    BY <1>1, <1>2, ChosenIsIn
  <1>4. IsFiniteSet(T) /\ IsFiniteSet(R)
    BY <1>3, FS_Subset
  <1>5. SumOver(f, R) \in Int /\ SumOver(g, R) \in Int
    BY <1>3, <1>4, SumIsInt
  <1>6. SumOver(f, R) <= SumOver(g, R)
    BY <1>3
  <1>7. SumOver(f, T) = f[c] + SumOver(f, R) /\ SumOver(g, T) = g[c] + SumOver(g, R)
    BY <1>2, <1>4, SumChosen
  <1>8. f[c] \in Int /\ g[c] \in Int /\ f[c] <= g[c]
    BY <1>3
  <1> HIDE DEF c, R
  <1>9. SumOver(f, T) <= SumOver(g, T)
    BY <1>5, <1>6, <1>7, <1>8
  <1> QED BY <1>9

LEMMA SumIsSame ==
  ASSUME NEW f, NEW g, NEW S, IsFiniteSet(S), \A x \in S : f[x] = g[x]
  PROVE  SumOver(f, S) = SumOver(g, S)
  <1> DEFINE Bad == {T \in SUBSET S : SumOver(f, T) # SumOver(g, T)}
  <1> SUFFICES ASSUME S \in Bad PROVE FALSE
    OBVIOUS
  <1>1. PICK T \in Bad : \A U \in Bad : U \subseteq T => U = T
    <2>1. Bad # {} /\ Bad \subseteq SUBSET S
      OBVIOUS
    <2> HIDE DEF Bad
    <2> QED BY <2>1, SmallestSubset
  <1>2. T # {}
    BY SumEmpty
  <1>3. Chosen(T) \in T /\ T \ {Chosen(T)} \notin Bad
    BY <1>1, <1>2, ChosenIsIn
  <1>4. IsFiniteSet(T)
    BY FS_Subset
  <1> QED BY <1>2, <1>3, <1>4, SumChosen

LEMMA SumIsNat ==
  ASSUME NEW f, NEW S, IsFiniteSet(S), \A x \in S : f[x] \in Nat
  PROVE  SumOver(f, S) \in Nat
  <1> DEFINE z == [x \in S |-> 0]
  <1>1. SumOver(z, S) = 0
    <2> DEFINE Bad == {T \in SUBSET S : SumOver(z, T) # 0}
    <2> SUFFICES ASSUME S \in Bad PROVE FALSE
      OBVIOUS
    <2>1. PICK T \in Bad : \A U \in Bad : U \subseteq T => U = T
      <3>1. Bad # {} /\ Bad \subseteq SUBSET S
        OBVIOUS
      <3> HIDE DEF Bad
      <3> QED BY <3>1, SmallestSubset
    <2>2. T # {}
      BY SumEmpty
    <2>3. Chosen(T) \in T /\ T \ {Chosen(T)} \notin Bad /\ z[Chosen(T)] = 0
      BY <2>1, <2>2, ChosenIsIn
    <2>4. IsFiniteSet(T)
      BY FS_Subset
    <2>5. SumOver(z, T) = z[Chosen(T)] + SumOver(z, T \ {Chosen(T)})
      BY <2>2, <2>4, SumChosen
    <2> QED BY <2>3, <2>5
  <1>2. \A x \in S : z[x] \in Int /\ f[x] \in Int /\ z[x] <= f[x]
    OBVIOUS
  <1>3. SumOver(z, S) <= SumOver(f, S)
    <2> HIDE DEF z
    <2> QED BY <1>2, SumIsAbove
  <1>4. SumOver(f, S) \in Int
    BY SumIsInt
  <1> QED BY <1>1, <1>3, <1>4

-----------------------------------------------------------------------------
(* Taking sums apart. *)

LEMMA SumOfUnion ==
  ASSUME NEW f, NEW S, NEW T, IsFiniteSet(S), IsFiniteSet(T), S \cap T = {},
         \A x \in S \cup T : f[x] \in Int
  PROVE  SumOver(f, S \cup T) = SumOver(f, S) + SumOver(f, T)
  <1> DEFINE Bad == {U \in SUBSET S : SumOver(f, U \cup T) # SumOver(f, U) + SumOver(f, T)}
  <1> SUFFICES ASSUME S \in Bad PROVE FALSE
    OBVIOUS
  <1>1. PICK U \in Bad : \A V \in Bad : V \subseteq U => V = U
    <2>1. Bad # {} /\ Bad \subseteq SUBSET S
      OBVIOUS
    <2> HIDE DEF Bad
    <2> QED BY <2>1, SmallestSubset
  <1>2. SumOver(f, T) \in Int
    BY SumIsInt
  <1>3. U # {}
    <2>1. SumOver(f, {}) = 0 /\ {} \cup T = T
      BY SumEmpty
    <2>2. {} \notin Bad
      BY <1>2, <2>1
    <2> QED BY <2>2
  <1> DEFINE c == Chosen(U)
             R == U \ {c}
  <1>4. c \in U /\ R \in SUBSET S /\ R \notin Bad
    BY <1>1, <1>3, ChosenIsIn
  <1>5. IsFiniteSet(U) /\ IsFiniteSet(R)
    BY <1>4, FS_Subset
  <1>6. IsFiniteSet(U \cup T)
    BY <1>5, FS_Union
  <1>7. SumOver(f, U \cup T) = f[c] + SumOver(f, (U \cup T) \ {c})
    BY <1>4, <1>6, SumWithout
  <1>8. (U \cup T) \ {c} = R \cup T
    BY <1>4
  <1>9. SumOver(f, R \cup T) = SumOver(f, R) + SumOver(f, T)
    BY <1>4
  <1>10. SumOver(f, U) = f[c] + SumOver(f, R)
    BY <1>3, <1>5, SumChosen
  <1>11. f[c] \in Int /\ SumOver(f, R) \in Int
    BY <1>4, <1>5, SumIsInt
  <1>12. SumOver(f, U \cup T) = f[c] + SumOver(f, R \cup T)
    BY <1>7, <1>8
  <1>13. SumOver(f, U \cup T) # SumOver(f, U) + SumOver(f, T)
    OBVIOUS
  <1> HIDE DEF c, R, Bad
  <1> QED BY <1>2, <1>9, <1>10, <1>11, <1>12, <1>13

LEMMA SumOfMore ==
  ASSUME NEW f, NEW S, NEW T, IsFiniteSet(T), S \subseteq T, \A x \in T : f[x] \in Nat
  PROVE  SumOver(f, S) <= SumOver(f, T)
  <1>1. IsFiniteSet(S) /\ IsFiniteSet(T \ S) /\ S \cap (T \ S) = {} /\ S \cup (T \ S) = T
    BY FS_Subset
  <1>2. SumOver(f, T) = SumOver(f, S) + SumOver(f, T \ S)
    BY <1>1, SumOfUnion
  <1>3. SumOver(f, S) \in Nat /\ SumOver(f, T \ S) \in Nat
    BY <1>1, SumIsNat
  <1> QED BY <1>2, <1>3

\* A sum is the sum of the sums of its groups.
LEMMA SumOfGroups ==
  ASSUME NEW f, NEW S, IsFiniteSet(S), NEW K, IsFiniteSet(K), NEW key,
         \A x \in S : f[x] \in Int /\ key[x] \in K
  PROVE  SumOver([k \in K |-> SumOver(f, {x \in S : key[x] = k})], K) = SumOver(f, S)
  <1> DEFINE Group(k) == {x \in S : key[x] = k}
             Within(L) == {x \in S : key[x] \in L}
             g == [k \in K |-> SumOver(f, Group(k))]
             Bad == {L \in SUBSET K : SumOver(g, L) # SumOver(f, Within(L))}
  <1>1. \A k \in K : IsFiniteSet(Group(k)) /\ g[k] \in Int
    <2> TAKE k \in K
    <2>1. IsFiniteSet(Group(k))
      BY FS_Subset
    <2>2. SumOver(f, Group(k)) \in Int
      BY <2>1, SumIsInt
    <2> QED BY <2>1, <2>2
  <1>2. Within(K) = S
    OBVIOUS
  <1> HIDE DEF g
  <1> SUFFICES ASSUME K \in Bad PROVE FALSE
    BY <1>2 DEF g
  <1>3. PICK L \in Bad : \A U \in Bad : U \subseteq L => U = L
    <2>1. Bad # {} /\ Bad \subseteq SUBSET K
      OBVIOUS
    <2> HIDE DEF Bad
    <2> QED BY <2>1, SmallestSubset
  <1>4. L # {}
    <2>1. SumOver(f, {}) = 0 /\ SumOver(g, {}) = 0 /\ Within({}) = {}
      BY SumEmpty
    <2>2. {} \notin Bad
      BY <2>1
    <2> QED BY <2>2
  <1> DEFINE c == Chosen(L)
             R == L \ {c}
  <1>5. c \in L /\ c \in K /\ R \in SUBSET K /\ R \notin Bad
    BY <1>3, <1>4, ChosenIsIn
  <1>6. IsFiniteSet(L) /\ IsFiniteSet(Within(R)) /\ IsFiniteSet(Group(c))
    BY <1>5, FS_Subset
  <1>7. SumOver(g, L) = g[c] + SumOver(g, R)
    BY <1>4, <1>6, SumChosen
  <1>8. g[c] = SumOver(f, Group(c))
    BY <1>5 DEF g
  <1>9. SumOver(g, R) = SumOver(f, Within(R))
    BY <1>5
  <1>10. SumOver(f, Within(R) \cup Group(c)) = SumOver(f, Within(R)) + SumOver(f, Group(c))
    <2>1. Within(R) \cap Group(c) = {} /\ \A x \in Within(R) \cup Group(c) : f[x] \in Int
      OBVIOUS
    <2> HIDE DEF Within, Group
    <2> QED BY <2>1, <1>6, SumOfUnion
  <1>11. Within(R) \cup Group(c) = Within(L)
    BY <1>5
  <1>12. SumOver(f, Within(L)) = SumOver(f, Within(R)) + SumOver(f, Group(c))
    BY <1>10, <1>11
  <1>13. SumOver(f, Within(R)) \in Int /\ SumOver(f, Group(c)) \in Int
    BY <1>6, SumIsInt
  <1>14. SumOver(g, L) # SumOver(f, Within(L))
    OBVIOUS
  <1> HIDE DEF c, R, Bad, Within, Group
  <1> QED BY <1>7, <1>8, <1>9, <1>12, <1>13, <1>14

LEMMA SumOfOne == ASSUME NEW f, NEW a, f[a] \in Int PROVE SumOver(f, {a}) = f[a]
  <1>1. {} \cup {a} = {a} /\ IsFiniteSet({})
    BY FS_EmptySet
  <1>2. SumOver(f, {} \cup {a}) = f[a] + SumOver(f, {})
    BY <1>1, SumWith
  <1> QED BY <1>1, <1>2, SumEmpty

\* What is summed may be told by another name, one for each.
LEMMA SumByName ==
  ASSUME NEW f, NEW S, IsFiniteSet(S), NEW name, NEW g, NEW T,
         \A x \in S : f[x] \in Int /\ name[x] \in T /\ g[name[x]] = f[x],
         \A x, y \in S : name[x] = name[y] => x = y,
         \A t \in T : \E x \in S : name[x] = t
  PROVE  IsFiniteSet(T) /\ SumOver(g, T) = SumOver(f, S)
  <1>1. IsFiniteSet(T)
    <2> DEFINE named == [x \in S |-> name[x]]
    <2>1. named \in Surjection(S, T)
      BY DEF Surjection
    <2> QED BY <2>1, FS_Surjection
  <1> DEFINE Group(t) == {x \in S : name[x] = t}
             h == [t \in T |-> SumOver(f, Group(t))]
  <1>2. SumOver(h, T) = SumOver(f, S)
    BY <1>1, SumOfGroups
  <1>3. \A t \in T : h[t] = g[t]
    <2> TAKE t \in T
    <2> PICK x \in S : name[x] = t
      OBVIOUS
    <2>1. Group(t) = {x}
      OBVIOUS
    <2>2. SumOver(f, {x}) = f[x] /\ f[x] = g[t]
      BY SumOfOne
    <2> QED BY <2>1, <2>2
  <1>4. SumOver(h, T) = SumOver(g, T)
    <2> HIDE DEF h
    <2> QED BY <1>1, <1>3, SumIsSame
  <1> QED BY <1>1, <1>2, <1>4

LEMMA CountByName ==
  ASSUME NEW S, IsFiniteSet(S), NEW name, NEW T, \A x \in S : name[x] \in T,
         \A x, y \in S : name[x] = name[y] => x = y,
         \A t \in T : \E x \in S : name[x] = t
  PROVE  IsFiniteSet(T) /\ Cardinality(T) = Cardinality(S)
  <1> DEFINE named == [x \in S |-> name[x]]
  <1>1. named \in Surjection(S, T) /\ named \in Injection(S, T)
    BY DEF Surjection, Injection, IsInjective
  <1> HIDE DEF named
  <1> QED BY <1>1, FS_Surjection

LEMMA CardinalityIsSum ==
  ASSUME NEW S, IsFiniteSet(S), NEW one, \A x \in S : one[x] = 1
  PROVE  Cardinality(S) = SumOver(one, S)
  <1> DEFINE Bad == {T \in SUBSET S : Cardinality(T) # SumOver(one, T)}
  <1> SUFFICES ASSUME S \in Bad PROVE FALSE
    OBVIOUS
  <1>1. PICK T \in Bad : \A U \in Bad : U \subseteq T => U = T
    <2>1. Bad # {} /\ Bad \subseteq SUBSET S
      OBVIOUS
    <2> HIDE DEF Bad
    <2> QED BY <2>1, SmallestSubset
  <1>2. T # {}
    <2>1. {} \notin Bad
      BY SumEmpty, FS_EmptySet
    <2> QED BY <2>1
  <1>3. Chosen(T) \in T /\ T \ {Chosen(T)} \notin Bad
    BY <1>1, <1>2, ChosenIsIn
  <1>4. IsFiniteSet(T)
    BY FS_Subset
  <1>5. SumOver(one, T) = 1 + SumOver(one, T \ {Chosen(T)})
    BY <1>2, <1>3, <1>4, SumChosen
  <1>6. Cardinality(T \ {Chosen(T)}) = Cardinality(T) - 1 /\ Cardinality(T) \in Nat
    BY <1>3, <1>4, FS_RemoveElement, FS_CardinalityType
  <1> QED BY <1>3, <1>5, <1>6

\* And so is a count the sum of the counts of its groups.
LEMMA CountOfGroups ==
  ASSUME NEW S, IsFiniteSet(S), NEW K, IsFiniteSet(K), NEW key, \A x \in S : key[x] \in K
  PROVE  SumOver([k \in K |-> Cardinality({x \in S : key[x] = k})], K) = Cardinality(S)
  <1> DEFINE one == [x \in S |-> 1]
             Group(k) == {x \in S : key[x] = k}
             g == [k \in K |-> Cardinality(Group(k))]
             h == [k \in K |-> SumOver(one, Group(k))]
  <1>1. \A k \in K : g[k] = h[k]
    <2> TAKE k \in K
    <2>1. IsFiniteSet(Group(k)) /\ \A x \in Group(k) : one[x] = 1
      BY FS_Subset
    <2> HIDE DEF one, Group
    <2> QED BY <2>1, CardinalityIsSum
  <1>2. SumOver(h, K) = SumOver(one, S)
    BY SumOfGroups
  <1>3. SumOver(g, K) = SumOver(h, K)
    <2> HIDE DEF g, h
    <2> QED BY <1>1, SumIsSame
  <1>4. Cardinality(S) = SumOver(one, S)
    BY CardinalityIsSum
  <1> QED BY <1>2, <1>3, <1>4

-----------------------------------------------------------------------------
(* What is largest. *)

\* Some of a finite set of integers is the largest, and Max finds it.
LEMMA MaxIsLargest ==
  ASSUME NEW S, IsFiniteSet(S), S \subseteq Int, S # {}
  PROVE  Max(S) \in S /\ \A x \in S : x <= Max(S)
<1> DEFINE Bad == {T \in SUBSET S : T # {} /\ ~ \E x \in T : \A y \in T : x >= y}
<1>1. Bad = {}
  <2> SUFFICES ASSUME Bad # {} PROVE FALSE
    OBVIOUS
  <2>1. PICK T \in Bad : \A U \in Bad : U \subseteq T => U = T
    <3>1. Bad # {} /\ Bad \subseteq SUBSET S
      OBVIOUS
    <3> HIDE DEF Bad
    <3> QED
      BY ONLY IsFiniteSet(S), <3>1, SmallestSubset
  <2>2. PICK a \in T : TRUE
    BY <2>1
  <2>3. T \subseteq Int /\ ~ \E x \in T : \A y \in T : x >= y
    BY <2>1
  <2>4. CASE T \ {a} = {}
    BY <2>2, <2>3, <2>4
  <2>5. CASE T \ {a} # {}
    <3>1. T \ {a} \notin Bad /\ T \ {a} \in SUBSET S
      BY <2>1, <2>2
    <3>2. PICK b \in T \ {a} : \A y \in T \ {a} : b >= y
      BY <2>5, <3>1
    <3>3. CASE b >= a
      BY <2>3, <3>2, <3>3
    <3>4. CASE ~(b >= a)
      <4>1. \A y \in T : a >= y
        BY <2>2, <2>3, <3>2, <3>4
      <4> QED
        BY <2>2, <2>3, <4>1
    <3> QED
      BY <3>3, <3>4
  <2> QED
    BY <2>4, <2>5
<1>2. \E x \in S : \A y \in S : x >= y
  BY <1>1
<1>3. Max(S) \in S /\ \A y \in S : Max(S) >= y
  BY <1>2 DEF Max
<1> QED
  BY <1>3

\* The largest of what a finite set is mapped to, or 0.
LEMMA LargestOf ==
  ASSUME NEW S, IsFiniteSet(S), NEW f, \A x \in S : f[x] \in Int,
         NEW T, T = {0} \cup {f[x] : x \in S}
  PROVE  Max(T) \in Int /\ \A x \in S : f[x] <= Max(T)
<1> DEFINE U == {f[x] : x \in S}
           g == [x \in S |-> f[x]]
<1>1. IsFiniteSet(U)
  <2>1. g \in Surjection(S, U)
    BY DEF Surjection
  <2> HIDE DEF g, U
  <2> QED
    BY <2>1, FS_Surjection
<1>2. IsFiniteSet({0} \cup U)
  <2> HIDE DEF U
  <2> QED
    BY <1>1, FS_Singleton, FS_Union
<1>3. IsFiniteSet(T) /\ T \subseteq Int /\ T # {}
  BY <1>2
<1>4. Max(T) \in T /\ \A x \in T : x <= Max(T)
  BY ONLY <1>3, MaxIsLargest
<1> QED
  BY <1>3, <1>4

\* Of a finite set, one is the largest by any measure.
LEMMA LargestBy ==
  ASSUME NEW S, IsFiniteSet(S), S # {}, NEW f, \A x \in S : f[x] \in Int
  PROVE  \E x \in S : \A y \in S : f[y] <= f[x]
<1> DEFINE T == {f[x] : x \in S}
           g == [x \in S |-> f[x]]
<1>1. IsFiniteSet(T)
  <2>1. g \in Surjection(S, T)
    BY DEF Surjection
  <2> HIDE DEF g, T
  <2> QED
    BY <2>1, FS_Surjection
<1>2. T \subseteq Int /\ T # {}
  OBVIOUS
<1>3. Max(T) \in T /\ \A x \in T : x <= Max(T)
  <2> HIDE DEF T
  <2> QED
    BY ONLY <1>1, <1>2, MaxIsLargest
<1>4. PICK x \in S : f[x] = Max(T)
  BY <1>3
<1>5. \A y \in S : f[y] <= f[x]
  BY <1>3, <1>4
<1> QED
  BY <1>5
=============================================================================
