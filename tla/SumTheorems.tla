----------------------------- MODULE SumTheorems -----------------------------
(***************************************************************************)
(* Facts about SumFunctionOnSet of the community modules, the sum of f[x]   *)
(* over the x of a finite set, which the models of contracts use to relate  *)
(* an account to the records it pays for.  The fold takes the elements in   *)
(* an order of its own; nothing here depends on that order.                 *)
(***************************************************************************)
EXTENDS FiniteSetsExt, FiniteSetTheorems, TLAPS

\* A set of subsets of a finite set has a minimal member: induction over a
\* finite set, read as the least counterexample.
LEMMA LeastSet ==
    ASSUME NEW S, IsFiniteSet(S), NEW B \in SUBSET (SUBSET S), B # {}
    PROVE  \E T \in B : \A U \in SUBSET T : U # T => U \notin B
<1> DEFINE R == StrictSubsetOrdering(S)
<1>1. IsWellFoundedOn(R, FiniteSubsetsOf(S)) BY FS_StrictSubsetOrderingWellFounded
<1>2. FiniteSubsetsOf(S) = SUBSET S BY FS_FiniteSubsetsOfFinite
<1>3. \E T \in B : \A U \in B : ~ (<<U, T>> \in R)
  <2> HIDE DEF R
  <2> QED BY <1>1, <1>2, WFMin
<1>4. \A T, U \in SUBSET S : U \subseteq T /\ U # T => <<U, T>> \in R
  BY DEF StrictSubsetOrdering
<1> HIDE DEF R
<1> QED BY <1>3, <1>4

\* The same as an induction: what holds of a subset of S whenever it holds of
\* that set's proper subsets holds of S.
LEMMA SetInduction ==
    ASSUME NEW S, IsFiniteSet(S), NEW Good,
           ASSUME NEW T \in SUBSET S, \A U \in SUBSET T : U # T => U \in Good
           PROVE  T \in Good
    PROVE  S \in Good
<1> DEFINE B == {T \in SUBSET S : T \notin Good}
<1> SUFFICES ASSUME S \notin Good PROVE FALSE OBVIOUS
<1>1. B \in SUBSET (SUBSET S) /\ B # {} OBVIOUS
<1>2. PICK T \in B : \A U \in SUBSET T : U # T => U \notin B
  <2> HIDE DEF B
  <2> QED BY <1>1, LeastSet
<1>3. T \in SUBSET S /\ T \notin Good OBVIOUS
<1>4. \A U \in SUBSET T : U # T => U \in Good BY <1>2
<1> HIDE DEF B
<1> QED BY <1>3, <1>4

-----------------------------------------------------------------------------
\* The recursive function behind the fold exists and is unique.

Pick(s) == CHOOSE x \in s : TRUE
Body(f, S, g) == [s \in SUBSET S |-> IF s = {} THEN 0 ELSE f[Pick(s)] + g[s \ {Pick(s)}]]
Iter(f, S)    == CHOOSE g : g = Body(f, S, g)

(* The library's sum over a set is the value of the iteration at that set. *)
LEMMA SumIsIter ==
    ASSUME NEW f, NEW S
    PROVE  SumFunctionOnSet(f, S) = Iter(f, S)[S]
BY DEF SumFunctionOnSet, FoldFunctionOnSet, MapThenFoldSet, Iter, Body, Pick

(* The element the iteration takes is one of the set. *)
LEMMA PickIsMember == ASSUME NEW s, s # {} PROVE Pick(s) \in s
BY DEF Pick

\* One step of the recursion.
Solves(f, S, g) == g = Body(f, S, g)

(* What a solution of the iteration is at a subset. *)
LEMMA BodyStep ==
    ASSUME NEW f, NEW S, NEW g, Solves(f, S, g), NEW s \in SUBSET S
    PROVE  g[s] = IF s = {} THEN 0 ELSE f[Pick(s)] + g[s \ {Pick(s)}]
<1>1. Body(f, S, g)[s] = IF s = {} THEN 0 ELSE f[Pick(s)] + g[s \ {Pick(s)}] BY DEF Body
<1> QED BY <1>1 DEF Solves

\* Solutions over two sets agree on what both have.
LEMMA SolutionsAgree ==
    ASSUME NEW f, NEW S, NEW T, NEW g, NEW h, Solves(f, S, g), Solves(f, T, h),
           NEW W, W \subseteq S, W \subseteq T, IsFiniteSet(W)
    PROVE  g[W] = h[W]
<1> DEFINE B == {V \in SUBSET W : g[V] # h[V]}
<1> SUFFICES ASSUME g[W] # h[W] PROVE FALSE OBVIOUS
<1>1. W \in B OBVIOUS
<1>2. PICK V \in B : \A U \in SUBSET V : U # V => U \notin B
  <2>1. B \in SUBSET (SUBSET W) /\ B # {} BY <1>1
  <2> HIDE DEF B
  <2> QED BY <2>1, LeastSet
<1>3. V \in SUBSET S /\ V \in SUBSET T /\ V \in SUBSET W OBVIOUS
<1>4. g[V] # h[V] OBVIOUS
<1>5. CASE V = {} 
  <2>1. g[V] = 0 BY <1>3, <1>5, BodyStep
  <2>2. h[V] = 0 BY <1>3, <1>5, BodyStep
  <2> QED BY <1>4, <2>1, <2>2
<1>6. CASE V # {}
  <2> DEFINE x == Pick(V)
             U == V \ {x}
  <2>1. x \in V BY <1>6, PickIsMember
  <2>2. g[V] = f[x] + g[U] BY <1>3, <1>6, BodyStep
  <2>3. h[V] = f[x] + h[U] BY <1>3, <1>6, BodyStep
  <2>4. g[U] = h[U]
    <3>1. U \in SUBSET V /\ U # V BY <2>1
    <3>2. U \notin B
      <4> HIDE DEF B
      <4> QED BY <1>2, <3>1
    <3> QED BY <1>3, <3>1, <3>2
  <2> HIDE DEF x, U
  <2> QED BY <1>4, <2>2, <2>3, <2>4
<1> QED BY <1>5, <1>6

(* The iteration has a solution on every finite set. *)
LEMMA SolutionExists ==
    ASSUME NEW f, NEW S, IsFiniteSet(S)
    PROVE  Solves(f, S, Iter(f, S))
<1> DEFINE Solved(T) == \E g : Solves(f, T, g)
           B == {T \in SUBSET S : ~Solved(T)}
<1>1. B = {}
  <2> SUFFICES ASSUME B # {} PROVE FALSE OBVIOUS
  <2>1. PICK T \in B : \A U \in SUBSET T : U # T => U \notin B
    <3>1. B \in SUBSET (SUBSET S) OBVIOUS
    <3> HIDE DEF B
    <3> QED BY <3>1, LeastSet
  <2>2. T \in SUBSET S /\ ~Solved(T) OBVIOUS
  <2>3. \A U \in SUBSET T : IsFiniteSet(U) BY <2>2, FS_Subset
  <2> DEFINE G(U) == Iter(f, U)
             g == [s \in SUBSET T |-> IF s = {} THEN 0
                                      ELSE f[Pick(s)] + G(s \ {Pick(s)})[s \ {Pick(s)}]]
  <2>4. ASSUME NEW U \in SUBSET T, U # T PROVE Solves(f, U, G(U))
    <3>1. Solved(U)
      <4> HIDE DEF Solved
      <4> QED BY <2>1, <2>2, <2>4
    <3> QED BY <3>1 DEF Iter, Solves
  <2>5. ASSUME NEW s \in SUBSET T, s # {}
        PROVE  g[s \ {Pick(s)}] = G(s \ {Pick(s)})[s \ {Pick(s)}]
    <3> DEFINE U == s \ {Pick(s)}
               V == U \ {Pick(U)}
    <3>1. Pick(s) \in s BY <2>5, PickIsMember
    <3>2. U \in SUBSET T /\ U # T /\ Solves(f, U, G(U)) BY <2>4, <3>1
    <3>3. CASE U = {}
      <4>1. G(U)[U] = 0 BY <3>2, <3>3, BodyStep
      <4>2. g[U] = 0 BY <3>3
      <4> QED BY <4>1, <4>2
    <3>4. CASE U # {}
      <4>1. Pick(U) \in U BY <3>4, PickIsMember
      <4>2. V \in SUBSET T /\ V # T /\ V \in SUBSET U /\ V \in SUBSET (U \cap V) BY <3>2, <4>1
      <4>3. Solves(f, V, G(V)) BY <2>4, <4>2
      <4>4. G(U)[U] = f[Pick(U)] + G(U)[V]
        <5> HIDE DEF G, U
        <5> QED BY <3>2, <3>4, BodyStep
      <4>5. IsFiniteSet(V) BY <2>3, <4>2
      <4>6. G(U)[V] = G(V)[V]
        <5> HIDE DEF G, U, V
        <5> QED BY <3>2, <4>2, <4>3, <4>5, SolutionsAgree
      <4>7. g[U] = f[Pick(U)] + G(V)[V]
        <5> HIDE DEF G
        <5> QED BY <3>2, <3>4
      <4>8. g[U] = G(U)[U]
        <5> HIDE DEF G, g, U, V
        <5> QED BY <4>4, <4>6, <4>7
      <4> QED BY <4>8
    <3> QED BY <3>3, <3>4
  <2>6. Solves(f, T, g)
    <3>1. g = [s \in SUBSET T |-> IF s = {} THEN 0 ELSE f[Pick(s)] + g[s \ {Pick(s)}]]
      <4>1. \A s \in SUBSET T : s # {} => g[s] = f[Pick(s)] + g[s \ {Pick(s)}]
        <5>1. \A s \in SUBSET T : s # {} => g[s] = f[Pick(s)] + G(s \ {Pick(s)})[s \ {Pick(s)}]
          <6> HIDE DEF G
          <6> QED OBVIOUS
        <5> HIDE DEF g, G
        <5> QED BY <2>5, <5>1
      <4>2. g[{}] = 0 OBVIOUS
      <4>3. g = [s \in SUBSET T |-> g[s]] 
        <5> HIDE DEF G
        <5> QED OBVIOUS
      <4> HIDE DEF g
      <4> QED BY <4>1, <4>2, <4>3
    <3> HIDE DEF g
    <3> QED BY <3>1 DEF Body, Solves
  <2> HIDE DEF g
  <2> QED BY <2>2, <2>6
<1>2. Solved(S)
  <2> HIDE DEF Solved
  <2> QED BY <1>1
<1> QED BY <1>2 DEF Iter, Solves

-----------------------------------------------------------------------------
\* What the sum of f over S is.

\* Nothing adds up to nothing.
LEMMA SumEmpty == ASSUME NEW f PROVE SumFunctionOnSet(f, {}) = 0
<1>1. Solves(f, {}, Iter(f, {})) BY FS_EmptySet, SolutionExists
<1>2. Iter(f, {})[{}] = 0 BY <1>1, BodyStep
<1> QED BY <1>2, SumIsIter

\* The fold takes one element and sums up the rest.
LEMMA SumPick ==
    ASSUME NEW f, NEW S, IsFiniteSet(S), S # {}
    PROVE  SumFunctionOnSet(f, S) = f[Pick(S)] + SumFunctionOnSet(f, S \ {Pick(S)})
<1> DEFINE U == S \ {Pick(S)}
<1>1. U \subseteq S /\ IsFiniteSet(U) BY FS_RemoveElement
<1>2. Solves(f, S, Iter(f, S)) /\ Solves(f, U, Iter(f, U)) BY <1>1, SolutionExists
<1>3. Iter(f, S)[S] = f[Pick(S)] + Iter(f, S)[U] BY <1>2, BodyStep
<1>4. Iter(f, S)[U] = Iter(f, U)[U]
  <2> HIDE DEF U
  <2> QED BY <1>1, <1>2, SolutionsAgree
<1> HIDE DEF U
<1>5. SumFunctionOnSet(f, S) = f[Pick(S)] + SumFunctionOnSet(f, U) BY <1>3, <1>4, SumIsIter
<1> QED BY <1>5 DEF U

\* The sum of integers is one.
LEMMA SumIsInt ==
    ASSUME NEW f, NEW S, IsFiniteSet(S), \A x \in S : f[x] \in Int
    PROVE  SumFunctionOnSet(f, S) \in Int
<1> DEFINE Good == {T \in SUBSET S : SumFunctionOnSet(f, T) \in Int}
<1>1. ASSUME NEW T \in SUBSET S, \A U \in SUBSET T : U # T => U \in Good
      PROVE  T \in Good
  <2>1. CASE T = {} BY <2>1, SumEmpty
  <2>2. CASE T # {}
    <3> DEFINE x == Pick(T)
    <3>1. x \in T BY <2>2, PickIsMember
    <3>2. SumFunctionOnSet(f, T) = f[x] + SumFunctionOnSet(f, T \ {x}) BY <2>2, SumPick, FS_Subset
    <3> HIDE DEF x
    <3>3. T \ {x} \in Good BY <1>1, <3>1
    <3> QED BY <3>1, <3>2, <3>3
  <2> QED BY <2>1, <2>2
<1>2. S \in Good
  <2> HIDE DEF Good
  <2> QED BY <1>1, SetInduction
<1> QED BY <1>2

\* It does not matter which element is taken out first.
LEMMA SumRemove ==
    ASSUME NEW f, NEW S, IsFiniteSet(S), \A x \in S : f[x] \in Int, NEW z \in S
    PROVE  SumFunctionOnSet(f, S) = f[z] + SumFunctionOnSet(f, S \ {z})
<1> DEFINE Good == {T \in SUBSET S : \A y \in T :
                       SumFunctionOnSet(f, T) = f[y] + SumFunctionOnSet(f, T \ {y})}
<1>1. ASSUME NEW T \in SUBSET S, \A U \in SUBSET T : U # T => U \in Good
      PROVE  T \in Good
  <2> SUFFICES ASSUME NEW y \in T
               PROVE  SumFunctionOnSet(f, T) = f[y] + SumFunctionOnSet(f, T \ {y})
    OBVIOUS
  <2> DEFINE p == Pick(T)
             U == T \ {p}
             V == T \ {y}
             W == T \ {p, y}
  <2>1. p \in T BY PickIsMember
  <2>2. SumFunctionOnSet(f, T) = f[p] + SumFunctionOnSet(f, U) BY SumPick, FS_Subset
  <2>3. CASE y = p BY <2>2, <2>3
  <2>4. CASE y # p
    <3>1. U \in Good /\ V \in Good BY <1>1, <2>1
    <3>2. SumFunctionOnSet(f, U) = f[y] + SumFunctionOnSet(f, W)
      <4>1. y \in U /\ U \ {y} = W BY <2>4
      <4> QED BY <3>1, <4>1
    <3>3. SumFunctionOnSet(f, V) = f[p] + SumFunctionOnSet(f, W)
      <4>1. p \in V /\ V \ {p} = W BY <2>1, <2>4
      <4> QED BY <3>1, <4>1
    <3>4. SumFunctionOnSet(f, W) \in Int BY SumIsInt, FS_Subset
    <3> HIDE DEF p, U, V, W
    <3>5. f[p] \in Int /\ f[y] \in Int BY <2>1
    <3> QED BY <2>2, <3>2, <3>3, <3>4, <3>5 DEF V
  <2> QED BY <2>3, <2>4
<1>2. S \in Good
  <2> HIDE DEF Good
  <2> QED BY <1>1, SetInduction
<1> QED BY <1>2

\* A new element counts once.
LEMMA SumAdd ==
    ASSUME NEW f, NEW S, IsFiniteSet(S), NEW z, z \notin S, \A x \in S \cup {z} : f[x] \in Int
    PROVE  SumFunctionOnSet(f, S \cup {z}) = SumFunctionOnSet(f, S) + f[z]
<1> DEFINE T == S \cup {z}
<1>1. IsFiniteSet(T) /\ z \in T /\ T \ {z} = S BY FS_AddElement
<1>2. SumFunctionOnSet(f, T) = f[z] + SumFunctionOnSet(f, T \ {z})
  <2> HIDE DEF T
  <2> QED BY <1>1, SumRemove DEF T
<1>3. SumFunctionOnSet(f, S) \in Int BY SumIsInt
<1>4. SumFunctionOnSet(f, T) = f[z] + SumFunctionOnSet(f, S)
  <2> HIDE DEF T
  <2> QED BY <1>1, <1>2
<1>5. f[z] \in Int OBVIOUS
<1>6. SumFunctionOnSet(f, T) = SumFunctionOnSet(f, S) + f[z]
  <2> HIDE DEF T
  <2> QED BY <1>3, <1>4, <1>5
<1> QED BY <1>6

\* Two functions with the same values add up to the same.
LEMMA SumSame ==
    ASSUME NEW f, NEW g, NEW S, IsFiniteSet(S), \A x \in S : f[x] = g[x]
    PROVE  SumFunctionOnSet(f, S) = SumFunctionOnSet(g, S)
<1> DEFINE Good == {T \in SUBSET S : SumFunctionOnSet(f, T) = SumFunctionOnSet(g, T)}
<1>1. ASSUME NEW T \in SUBSET S, \A U \in SUBSET T : U # T => U \in Good
      PROVE  T \in Good
  <2>1. CASE T = {} BY <2>1, SumEmpty
  <2>2. CASE T # {}
    <3> DEFINE x == Pick(T)
    <3>1. x \in T BY <2>2, PickIsMember
    <3>2. SumFunctionOnSet(f, T) = f[x] + SumFunctionOnSet(f, T \ {x}) BY <2>2, SumPick, FS_Subset
    <3>3. SumFunctionOnSet(g, T) = g[x] + SumFunctionOnSet(g, T \ {x}) BY <2>2, SumPick, FS_Subset
    <3> HIDE DEF x
    <3>4. T \ {x} \in Good BY <1>1, <3>1
    <3> QED BY <3>1, <3>2, <3>3, <3>4
  <2> QED BY <2>1, <2>2
<1>2. S \in Good
  <2> HIDE DEF Good
  <2> QED BY <1>1, SetInduction
<1> QED BY <1>2

\* A function that changes at one element changes the sum by as much.
LEMMA SumChange ==
    ASSUME NEW f, NEW g, NEW S, IsFiniteSet(S), NEW z \in S,
           \A x \in S : f[x] \in Int /\ g[x] \in Int, \A x \in S \ {z} : g[x] = f[x]
    PROVE  SumFunctionOnSet(g, S) = SumFunctionOnSet(f, S) - f[z] + g[z]
<1> DEFINE T == S \ {z}
<1>1. IsFiniteSet(T) BY FS_Subset
<1>2. SumFunctionOnSet(f, S) = f[z] + SumFunctionOnSet(f, T) BY SumRemove
<1>3. SumFunctionOnSet(g, S) = g[z] + SumFunctionOnSet(g, T) BY SumRemove
<1>4. SumFunctionOnSet(g, T) = SumFunctionOnSet(f, T) BY <1>1, SumSame
<1>5. SumFunctionOnSet(f, T) \in Int BY <1>1, SumIsInt
<1> QED BY <1>2, <1>3, <1>4, <1>5

\* Smaller terms make a smaller sum.
LEMMA SumMonotone ==
    ASSUME NEW f, NEW g, NEW S, IsFiniteSet(S),
           \A x \in S : f[x] \in Int /\ g[x] \in Int /\ f[x] <= g[x]
    PROVE  SumFunctionOnSet(f, S) <= SumFunctionOnSet(g, S)
<1> DEFINE Good == {T \in SUBSET S : SumFunctionOnSet(f, T) <= SumFunctionOnSet(g, T)}
<1>1. ASSUME NEW T \in SUBSET S, \A U \in SUBSET T : U # T => U \in Good
      PROVE  T \in Good
  <2>1. CASE T = {} BY <2>1, SumEmpty
  <2>2. CASE T # {}
    <3> DEFINE x == Pick(T)
    <3>1. x \in T BY <2>2, PickIsMember
    <3>2. SumFunctionOnSet(f, T) = f[x] + SumFunctionOnSet(f, T \ {x}) BY <2>2, SumPick, FS_Subset
    <3>3. SumFunctionOnSet(g, T) = g[x] + SumFunctionOnSet(g, T \ {x}) BY <2>2, SumPick, FS_Subset
    <3> HIDE DEF x
    <3>4. T \ {x} \in Good BY <1>1, <3>1
    <3>5. IsFiniteSet(T \ {x}) BY FS_Subset
    <3>6. SumFunctionOnSet(f, T \ {x}) \in Int /\ SumFunctionOnSet(g, T \ {x}) \in Int BY <3>5, SumIsInt
    <3>7. f[x] \in Int /\ g[x] \in Int /\ f[x] <= g[x] BY <3>1
    <3> QED BY <3>2, <3>3, <3>4, <3>6, <3>7
  <2> QED BY <2>1, <2>2
<1>2. S \in Good
  <2> HIDE DEF Good
  <2> QED BY <1>1, SetInduction
<1> QED BY <1>2

\* Terms that are all zero add up to nothing.
LEMMA SumZero ==
    ASSUME NEW f, NEW S, IsFiniteSet(S), \A x \in S : f[x] = 0
    PROVE  SumFunctionOnSet(f, S) = 0
<1> DEFINE Good == {T \in SUBSET S : SumFunctionOnSet(f, T) = 0}
<1>1. ASSUME NEW T \in SUBSET S, \A U \in SUBSET T : U # T => U \in Good
      PROVE  T \in Good
  <2>1. CASE T = {} BY <2>1, SumEmpty
  <2>2. CASE T # {}
    <3> DEFINE x == Pick(T)
    <3>1. x \in T BY <2>2, PickIsMember
    <3>2. SumFunctionOnSet(f, T) = f[x] + SumFunctionOnSet(f, T \ {x}) BY <2>2, SumPick, FS_Subset
    <3> HIDE DEF x
    <3>3. T \ {x} \in Good BY <1>1, <3>1
    <3> QED BY <3>1, <3>2, <3>3
  <2> QED BY <2>1, <2>2
<1>2. S \in Good
  <2> HIDE DEF Good
  <2> QED BY <1>1, SetInduction
<1> QED BY <1>2

\* Two sets that share nothing are summed up one after the other.
LEMMA SumDisjoint ==
    ASSUME NEW f, NEW S, NEW R, IsFiniteSet(S), IsFiniteSet(R), S \cap R = {},
           \A x \in S \cup R : f[x] \in Int
    PROVE  SumFunctionOnSet(f, S \cup R) = SumFunctionOnSet(f, S) + SumFunctionOnSet(f, R)
<1> DEFINE Good == {T \in SUBSET R :
                      SumFunctionOnSet(f, S \cup T) = SumFunctionOnSet(f, S) + SumFunctionOnSet(f, T)}
<1>1. ASSUME NEW T \in SUBSET R, \A U \in SUBSET T : U # T => U \in Good
      PROVE  T \in Good
  <2>1. CASE T = {}
    <3>1. SumFunctionOnSet(f, S) \in Int BY SumIsInt
    <3>2. S \cup T = S BY <2>1
    <3> QED BY <2>1, <3>1, <3>2, SumEmpty
  <2>2. CASE T # {}
    <3>1. PICK x \in T : TRUE BY <2>2
    <3> DEFINE U == T \ {x}
               A == S \cup T
    <3>2. IsFiniteSet(T) /\ IsFiniteSet(U) /\ IsFiniteSet(A) BY FS_Subset, FS_Union
    <3>3. SumFunctionOnSet(f, T) = f[x] + SumFunctionOnSet(f, U) BY <3>2, SumRemove
    <3>4. SumFunctionOnSet(f, A) = f[x] + SumFunctionOnSet(f, A \ {x})
      <4>1. x \in A /\ \A y \in A : f[y] \in Int OBVIOUS
      <4> HIDE DEF A
      <4> QED BY <3>2, <4>1, SumRemove
    <3>5. A \ {x} = S \cup U OBVIOUS
    <3>6. U \in Good BY <1>1
    <3>7. SumFunctionOnSet(f, S) \in Int /\ SumFunctionOnSet(f, U) \in Int BY <3>2, SumIsInt
    <3>8. f[x] \in Int OBVIOUS
    <3>9. SumFunctionOnSet(f, A) = SumFunctionOnSet(f, S) + SumFunctionOnSet(f, T)
      <4>1. SumFunctionOnSet(f, S \cup U) = SumFunctionOnSet(f, S) + SumFunctionOnSet(f, U) BY <3>6
      <4>2. SumFunctionOnSet(f, A \ {x}) = SumFunctionOnSet(f, S) + SumFunctionOnSet(f, U)
        <5> HIDE DEF A, U
        <5> QED BY <3>5, <4>1
      <4> HIDE DEF A, U
      <4> QED BY <3>3, <3>4, <3>7, <3>8, <4>2
    <3> QED BY <3>9
  <2> QED BY <2>1, <2>2
<1>2. R \in Good
  <2> HIDE DEF Good
  <2> QED BY <1>1, SetInduction
<1> QED BY <1>2

\* Natural terms have a natural sum, and a part adds up to no more.
LEMMA SumIsNat ==
    ASSUME NEW f, NEW S, IsFiniteSet(S), \A x \in S : f[x] \in Nat
    PROVE  SumFunctionOnSet(f, S) \in Nat
<1> DEFINE g == [x \in S |-> 0]
<1>1. SumFunctionOnSet(g, S) = 0 BY SumZero
<1>2. \A x \in S : f[x] \in Int /\ g[x] \in Int /\ g[x] <= f[x] OBVIOUS
<1> HIDE DEF g
<1>3. SumFunctionOnSet(f, S) \in Int BY <1>2, SumIsInt
<1> QED BY <1>1, <1>2, <1>3, SumMonotone

(* A sum of natural numbers is at least each of them. *)
LEMMA SumAtLeast ==
    ASSUME NEW f, NEW S, IsFiniteSet(S), \A x \in S : f[x] \in Nat, NEW z \in S
    PROVE  f[z] <= SumFunctionOnSet(f, S)
<1> DEFINE T == S \ {z}
<1>1. IsFiniteSet(T) /\ \A x \in T : f[x] \in Nat BY FS_Subset
<1>2. \A x \in S : f[x] \in Int OBVIOUS
<1>3. SumFunctionOnSet(f, S) = f[z] + SumFunctionOnSet(f, T) BY <1>2, SumRemove
<1> HIDE DEF T
<1>4. SumFunctionOnSet(f, T) \in Nat BY <1>1, SumIsNat
<1> QED BY <1>3, <1>4

(* A sum of natural numbers is at least the sum of a part. *)
LEMMA SumOfPart ==
    ASSUME NEW f, NEW S, IsFiniteSet(S), \A x \in S : f[x] \in Nat, NEW T \in SUBSET S
    PROVE  SumFunctionOnSet(f, T) <= SumFunctionOnSet(f, S)
<1> DEFINE R == S \ T
<1>1. IsFiniteSet(T) /\ IsFiniteSet(R) /\ T \cap R = {} /\ T \cup R = S BY FS_Subset
<1>2. \A x \in T \cup R : f[x] \in Int BY <1>1
<1>3. SumFunctionOnSet(f, T) \in Nat /\ SumFunctionOnSet(f, R) \in Nat BY <1>1, SumIsNat
<1> HIDE DEF R
<1>4. SumFunctionOnSet(f, T \cup R) = SumFunctionOnSet(f, T) + SumFunctionOnSet(f, R)
  BY <1>1, <1>2, SumDisjoint
<1>5. SumFunctionOnSet(f, S) = SumFunctionOnSet(f, T) + SumFunctionOnSet(f, R) BY <1>1, <1>4, Zenon
<1> QED BY <1>3, <1>5
-----------------------------------------------------------------------------
\* Intervals and partitions.

\* A finite set of integers has a greatest element.
LEMMA Greatest ==
    ASSUME NEW T \in SUBSET Int, IsFiniteSet(T), T # {}
    PROVE  \E m \in T : \A x \in T : x <= m
<1> DEFINE Good == {U \in SUBSET T : U = {} \/ \E m \in U : \A x \in U : x <= m}
<1>1. ASSUME NEW U \in SUBSET T, \A V \in SUBSET U : V # U => V \in Good
      PROVE  U \in Good
  <2> SUFFICES ASSUME NEW y \in U PROVE \E m \in U : \A x \in U : x <= m OBVIOUS
  <2>1. U \ {y} \in Good BY <1>1
  <2>2. CASE U \ {y} = {} BY <2>2
  <2>3. CASE \E m \in U \ {y} : \A x \in U \ {y} : x <= m
    <3> PICK m \in U \ {y} : \A x \in U \ {y} : x <= m BY <2>3
    <3>1. m \in Int /\ y \in Int /\ \A x \in U : x \in Int OBVIOUS
    <3>2. CASE y <= m BY <3>1, <3>2
    <3>3. CASE m < y BY <3>1, <3>3
    <3> QED BY <3>1, <3>2, <3>3
  <2> QED BY <2>1, <2>2, <2>3
<1>2. T \in Good
  <2> HIDE DEF Good
  <2> QED BY <1>1, SetInduction
<1> QED BY <1>2

\* Induction up to a number.
LEMMA UpTo ==
    ASSUME NEW n \in Nat, NEW Good, 0 \in Good,
           ASSUME NEW k \in 0..(n - 1), k \in Good
           PROVE  k + 1 \in Good
    PROVE  n \in Good
<1> DEFINE T == {k \in 0..n : \A j \in 0..k : j \in Good}
<1>1. T \in SUBSET Int /\ 0 \in T OBVIOUS
<1>2. IsFiniteSet(T)
  <2>1. IsFiniteSet(0..n) BY FS_Interval
  <2>2. T \in SUBSET (0..n) OBVIOUS
  <2> HIDE DEF T
  <2> QED BY <2>1, <2>2, FS_Subset
<1>3. PICK m \in T : \A x \in T : x <= m
  <2> HIDE DEF T
  <2> QED BY <1>1, <1>2, Greatest
<1>4. m \in 0..n /\ m \in Good BY <1>3
<1>5. m = n
  <2> SUFFICES ASSUME m # n PROVE FALSE OBVIOUS
  <2>1. m \in 0..(n - 1) BY <1>4
  <2>2. m + 1 \in Good BY <1>4, <2>1
  <2>3. m + 1 \in T BY <1>3, <2>1, <2>2
  <2> HIDE DEF T
  <2> QED BY <1>3, <1>4, <2>3
<1> QED BY <1>4, <1>5

\* A set in disjoint parts is summed up part by part.
LEMMA SumParts ==
    ASSUME NEW f, NEW S, IsFiniteSet(S), \A x \in S : f[x] \in Int,
           NEW T, IsFiniteSet(T), NEW part \in [T -> SUBSET S],
           \A t, u \in T : t # u => part[t] \cap part[u] = {}
    PROVE  SumFunctionOnSet([t \in T |-> SumFunctionOnSet(f, part[t])], T)
             = SumFunctionOnSet(f, UNION {part[t] : t \in T})
<1> DEFINE g     == [t \in T |-> SumFunctionOnSet(f, part[t])]
           Of(U) == UNION {part[t] : t \in U}
           Good  == {U \in SUBSET T : SumFunctionOnSet(g, U) = SumFunctionOnSet(f, Of(U))}
<1>1. ASSUME NEW U \in SUBSET T, \A V \in SUBSET U : V # U => V \in Good
      PROVE  U \in Good
  <2>1. CASE U = {}
    <3>1. Of(U) = {} BY <2>1
    <3>2. SumFunctionOnSet(g, U) = 0
      <4> HIDE DEF g
      <4> QED BY <2>1, SumEmpty
    <3>3. SumFunctionOnSet(f, Of(U)) = 0 BY <3>1, SumEmpty
    <3> QED BY <3>2, <3>3
  <2>2. CASE U # {}
    <3>1. PICK t \in U : TRUE BY <2>2
    <3> DEFINE V == U \ {t}
    <3>2. SumFunctionOnSet(g, V) = SumFunctionOnSet(f, Of(V))
      <4>1. V \in Good BY <1>1
      <4> QED BY <4>1
    <3>3. \A u \in T : g[u] \in Int
      <4> SUFFICES ASSUME NEW u \in T PROVE SumFunctionOnSet(f, part[u]) \in Int OBVIOUS
      <4>1. IsFiniteSet(part[u]) /\ \A x \in part[u] : f[x] \in Int BY FS_Subset
      <4> QED BY <4>1, SumIsInt
    <3>4. g[t] = SumFunctionOnSet(f, part[t]) OBVIOUS
    <3>5. SumFunctionOnSet(g, U) = g[t] + SumFunctionOnSet(g, V)
      <4>1. IsFiniteSet(U) /\ \A u \in U : g[u] \in Int BY <3>3, FS_Subset
      <4> HIDE DEF g
      <4> QED BY <4>1, SumRemove
    <3>6. Of(U) = part[t] \cup Of(V) /\ part[t] \cap Of(V) = {} OBVIOUS
    <3>7. IsFiniteSet(part[t]) /\ IsFiniteSet(Of(V))
      <4>1. part[t] \in SUBSET S /\ Of(V) \in SUBSET S OBVIOUS
      <4> HIDE DEF Of, V
      <4> QED BY <4>1, FS_Subset
    <3>8. \A x \in part[t] \cup Of(V) : f[x] \in Int OBVIOUS
    <3>9. SumFunctionOnSet(f, part[t] \cup Of(V))
            = SumFunctionOnSet(f, part[t]) + SumFunctionOnSet(f, Of(V))
      <4> HIDE DEF Of, V
      <4> QED BY <3>6, <3>7, <3>8, SumDisjoint
    <3>10. SumFunctionOnSet(f, Of(U)) = SumFunctionOnSet(g, U)
      <4>1. SumFunctionOnSet(f, Of(U)) = SumFunctionOnSet(f, part[t] \cup Of(V)) BY <3>6
      <4> HIDE DEF Of, V, g
      <4> QED BY <3>2, <3>4, <3>5, <3>9, <4>1
    <3> QED BY <3>10
  <2> QED BY <2>1, <2>2
<1>2. T \in Good
  <2> HIDE DEF Good
  <2> QED BY <1>1, SetInduction
<1> QED BY <1>2

\* A sum over a set that is cut into parts is the sum of the parts' sums.
Partition(part, T, S) ==
    /\ IsFiniteSet(S) /\ IsFiniteSet(T)
    /\ part \in [T -> SUBSET S]
    /\ \A t, u \in T : t # u => part[t] \cap part[u] = {}
    /\ UNION {part[t] : t \in T} = S
SumByParts(f, part, T) == SumFunctionOnSet([t \in T |-> SumFunctionOnSet(f, part[t])], T)

(* Summing part by part is summing. *)
LEMMA SumPartition ==
    ASSUME NEW f, NEW part, NEW T, NEW S, Partition(part, T, S), \A x \in S : f[x] \in Int
    PROVE  SumByParts(f, part, T) = SumFunctionOnSet(f, S)
<1>1. /\ IsFiniteSet(S) /\ IsFiniteSet(T) /\ part \in [T -> SUBSET S]
      /\ \A t, u \in T : t # u => part[t] \cap part[u] = {}
      /\ UNION {part[t] : t \in T} = S
  BY DEF Partition
<1>2. SumByParts(f, part, T) = SumFunctionOnSet(f, UNION {part[t] : t \in T})
  BY <1>1, SumParts DEF SumByParts
<1> QED BY <1>1, <1>2

\* Where terms balance, n of one for n of another and a rest, the sums do.
LEMMA SumBalance ==
    ASSUME NEW n \in Nat, NEW f, NEW g, NEW h, NEW S, IsFiniteSet(S),
           \A x \in S : f[x] \in Int, \A x \in S : g[x] \in Int, \A x \in S : h[x] \in Int,
           \A x \in S : n * f[x] <= n * g[x] + h[x]
    PROVE  n * SumFunctionOnSet(f, S) <= n * SumFunctionOnSet(g, S) + SumFunctionOnSet(h, S)
<1> DEFINE Balanced(T) == n * SumFunctionOnSet(f, T) <= n * SumFunctionOnSet(g, T) + SumFunctionOnSet(h, T)
           Good == {T \in SUBSET S : Balanced(T)}
<1>1. ASSUME NEW T \in SUBSET S, \A U \in SUBSET T : U # T => U \in Good
      PROVE  T \in Good
  <2>1. CASE T = {} BY <2>1, SumEmpty
  <2>2. CASE T # {}
    <3> DEFINE x == Pick(T)
               F == SumFunctionOnSet(f, T \ {x})
               G == SumFunctionOnSet(g, T \ {x})
               H == SumFunctionOnSet(h, T \ {x})
    <3>1. x \in T BY <2>2, PickIsMember
    <3>2. IsFiniteSet(T) BY FS_Subset
    <3>3. SumFunctionOnSet(f, T) = f[x] + F BY <2>2, <3>2, SumPick
    <3>4. SumFunctionOnSet(g, T) = g[x] + G BY <2>2, <3>2, SumPick
    <3>5. SumFunctionOnSet(h, T) = h[x] + H BY <2>2, <3>2, SumPick
    <3> HIDE DEF x
    <3>6. Balanced(T \ {x}) BY <1>1, <3>1
    <3>7. IsFiniteSet(T \ {x}) BY FS_Subset
    <3>8. F \in Int BY <3>7, SumIsInt
    <3>9. G \in Int BY <3>7, SumIsInt
    <3>10. H \in Int BY <3>7, SumIsInt
    <3>11. f[x] \in Int /\ g[x] \in Int /\ h[x] \in Int /\ n * f[x] <= n * g[x] + h[x] BY <3>1
    <3>12. n * F <= n * G + H BY <3>6
    <3> HIDE DEF F, G, H
    <3>13. n * (f[x] + F) = n * f[x] + n * F /\ n * (g[x] + G) = n * g[x] + n * G
      BY <3>8, <3>9, <3>11
    <3>14. n * f[x] \in Int /\ n * F \in Int /\ n * g[x] \in Int /\ n * G \in Int BY <3>8, <3>9, <3>11
    <3>15. n * (f[x] + F) <= n * (g[x] + G) + (h[x] + H)
      BY <3>10, <3>11, <3>12, <3>13, <3>14
    <3> QED BY <3>3, <3>4, <3>5, <3>15
  <2> QED BY <2>1, <2>2
<1>2. S \in Good
  <2> HIDE DEF Good
  <2> QED BY <1>1, SetInduction
<1> QED BY <1>2

\* A sum with at most one term that is not zero is that term.
LEMMA SumSingle ==
    ASSUME NEW f, NEW S, IsFiniteSet(S), \A x \in S : f[x] \in Int,
           \A x, y \in S : f[x] # 0 /\ f[y] # 0 => x = y
    PROVE  \/ SumFunctionOnSet(f, S) = 0
           \/ \E x \in S : f[x] # 0 /\ SumFunctionOnSet(f, S) = f[x]
<1>1. CASE \A x \in S : f[x] = 0 BY <1>1, SumZero
<1>2. CASE \E x \in S : f[x] # 0
  <2>1. PICK x \in S : f[x] # 0 BY <1>2
  <2>2. SumFunctionOnSet(f, S) = f[x] + SumFunctionOnSet(f, S \ {x}) BY SumRemove
  <2>3. IsFiniteSet(S \ {x}) BY FS_Subset
  <2>4. \A y \in S \ {x} : f[y] = 0 BY <2>1
  <2>5. SumFunctionOnSet(f, S \ {x}) = 0 BY <2>3, <2>4, SumZero
  <2> QED BY <2>1, <2>2, <2>5
<1> QED BY <1>1, <1>2

=============================================================================
