------------------------------ MODULE SumLemmas ------------------------------
(***************************************************************************)
(* Sums over finite sets, for the totals of the ledger and of the payouts. *)
(* MapThenSumSet of the community modules folds a set with a recursive     *)
(* function; these lemmas show that the function exists, that it does not  *)
(* depend on the order in which elements are picked, and what adding,      *)
(* changing and comparing summands does to the sum.  Summands are given as *)
(* a function w, because the provers cannot instantiate operators.         *)
(***************************************************************************)
EXTENDS Integers, FiniteSets, FiniteSetsExt, FiniteSetTheorems, WellFoundedInduction, TLAPS

SumOver(w, S) == MapThenSumSet(LAMBDA x : w[x], S)

Pick(s) == CHOOSE x \in s : TRUE

\* What the fold asks of the function it iterates.
Unfold(w, g, s) == IF s = {} THEN 0 ELSE w[Pick(s)] + g[s \ {Pick(s)}]

Iterates(w, S, g) == \A s \in SUBSET S : g[s] = Unfold(w, g, s)

\* Induction over the numbers, for a set given by what its members satisfy.
LEMMA NumbersBelow ==
    ASSUME NEW I, 0 \in I, \A n \in Nat : n \in I => n + 1 \in I
    PROVE  Nat \subseteq I
<1> SUFFICES ASSUME Nat \ I # {} PROVE FALSE
    OBVIOUS
<1>1. PICK n \in Nat \ I : \A m \in Nat \ I : ~(<<m, n>> \in OpToRel(<, Nat))
    BY NatLessThanWellFounded, WFMin
<1>2. n # 0 /\ n - 1 \in Nat
    OBVIOUS
<1>3. <<n - 1, n>> \in OpToRel(<, Nat)
    BY <1>2 DEF OpToRel
<1>4. n - 1 \in I
    BY <1>1, <1>2, <1>3
<1>5. (n - 1) + 1 \in I
    BY <1>2, <1>4
<1> QED BY <1>5

\* A set with one element less is smaller by one.
LEMMA Smaller ==
    ASSUME NEW S, IsFiniteSet(S), NEW x \in S
    PROVE  /\ IsFiniteSet(S \ {x})
           /\ Cardinality(S) \in Nat
           /\ Cardinality(S \ {x}) \in Nat
           /\ Cardinality(S) = Cardinality(S \ {x}) + 1
<1>1. IsFiniteSet(S \ {x}) /\ Cardinality(S \ {x}) = Cardinality(S) - 1
    BY FS_RemoveElement
<1>2. Cardinality(S) \in Nat /\ Cardinality(S \ {x}) \in Nat
    BY <1>1, FS_CardinalityType
<1> QED BY <1>1, <1>2

\* A non-empty set has the element that the fold picks.
LEMMA Picked ==
    ASSUME NEW s, s # {}
    PROVE  Pick(s) \in s
BY DEF Pick

-----------------------------------------------------------------------------
(* The fold is a function, and only one.                                     *)

LEMMA FoldUpTo ==
    ASSUME NEW w, NEW S, IsFiniteSet(S), NEW n \in Nat
    PROVE  \E g : \A s \in SUBSET S : Cardinality(s) <= n => g[s] = Unfold(w, g, s)
<1> DEFINE Upto(m) == \E g : \A s \in SUBSET S : Cardinality(s) <= m => g[s] = Unfold(w, g, s)
           I == {m \in Nat : Upto(m)}
<1>0. \A s \in SUBSET S : IsFiniteSet(s) /\ Cardinality(s) \in Nat
    BY FS_Subset, FS_CardinalityType
<1>1. 0 \in I
    <2> DEFINE g == [s \in SUBSET S |-> 0]
    <2>1. ASSUME NEW s \in SUBSET S, Cardinality(s) <= 0 PROVE g[s] = Unfold(w, g, s)
        <3>1. s = {}
            BY <1>0, <2>1, FS_EmptySet
        <3> QED BY <3>1 DEF Unfold
    <2> HIDE DEF g
    <2>2. Upto(0)
        BY <2>1
    <2> QED BY <2>2
<1>2. ASSUME NEW m \in Nat, m \in I PROVE m + 1 \in I
    <2>1. PICK g : \A s \in SUBSET S : Cardinality(s) <= m => g[s] = Unfold(w, g, s)
        BY <1>2
    <2> DEFINE h == [s \in SUBSET S |-> IF Cardinality(s) <= m THEN g[s] ELSE Unfold(w, g, s)]
    <2>2. ASSUME NEW s \in SUBSET S, Cardinality(s) <= m + 1 PROVE h[s] = Unfold(w, h, s)
        <3>1. CASE s = {}
            <4>1. Cardinality(s) <= m
                BY <3>1, FS_EmptySet
            <4> QED BY <2>1, <3>1, <4>1 DEF Unfold
        <3>2. CASE s # {}
            <4> DEFINE t == s \ {Pick(s)}
            <4>1. t \in SUBSET S /\ Cardinality(s) \in Nat /\ Cardinality(t) \in Nat /\ Cardinality(s) = Cardinality(t) + 1
                BY <1>0, <3>2, Picked, Smaller
            <4>2. Cardinality(t) <= m
                BY <2>2, <4>1
            <4>3. h[t] = g[t]
                BY <4>1, <4>2
            <4>4. Unfold(w, h, s) = Unfold(w, g, s)
                BY <3>2, <4>3 DEF Unfold
            <4>5. h[s] = Unfold(w, g, s)
                BY <2>1
            <4> QED BY <4>4, <4>5
        <3> QED BY <3>1, <3>2
    <2> HIDE DEF h
    <2>3. Upto(m + 1)
        BY <2>2
    <2> QED BY <2>3
<1> HIDE DEF I
<1>3. n \in I
    BY <1>1, <1>2, NumbersBelow
<1> QED BY <1>3 DEF I

LEMMA FoldExists ==
    ASSUME NEW w, NEW S, IsFiniteSet(S)
    PROVE  \E g : g = [s \in SUBSET S |-> Unfold(w, g, s)]
<1>1. Cardinality(S) \in Nat /\ \A s \in SUBSET S : Cardinality(s) <= Cardinality(S)
    BY FS_Subset, FS_CardinalityType
<1>2. PICK g : \A s \in SUBSET S : Cardinality(s) <= Cardinality(S) => g[s] = Unfold(w, g, s)
    BY <1>1, FoldUpTo
<1> DEFINE h == [s \in SUBSET S |-> g[s]]
<1>3. \A s \in SUBSET S : h[s] = g[s] /\ (s # {} => h[s \ {Pick(s)}] = g[s \ {Pick(s)}])
    OBVIOUS
<1>4. \A s \in SUBSET S : g[s] = Unfold(w, h, s)
    BY <1>1, <1>2, <1>3 DEF Unfold
<1>5. h = [s \in SUBSET S |-> Unfold(w, h, s)]
    BY <1>4
<1> QED BY <1>5

LEMMA FoldUnique ==
    ASSUME NEW w, NEW v, NEW S, IsFiniteSet(S), NEW g, NEW h, Iterates(w, S, g), Iterates(v, S, h),
           \A x \in S : w[x] = v[x]
    PROVE  g[S] = h[S]
<1> DEFINE I == {n \in Nat : \A s \in SUBSET S : Cardinality(s) = n => g[s] = h[s]}
<1>0. \A s \in SUBSET S : IsFiniteSet(s) /\ Cardinality(s) \in Nat
    BY FS_Subset, FS_CardinalityType
<1>1. 0 \in I
    BY <1>0, FS_EmptySet DEF Iterates, Unfold
<1>2. ASSUME NEW n \in Nat, n \in I PROVE n + 1 \in I
    <2> SUFFICES ASSUME NEW s \in SUBSET S, Cardinality(s) = n + 1 PROVE g[s] = h[s]
        OBVIOUS
    <2>1. s # {}
        BY FS_EmptySet
    <2> DEFINE t == s \ {Pick(s)}
    <2>2. Pick(s) \in S /\ t \in SUBSET S /\ Cardinality(t) = n
        BY <1>0, <2>1, Picked, Smaller
    <2>3. g[t] = h[t] /\ w[Pick(s)] = v[Pick(s)]
        BY <1>2, <2>2
    <2> QED BY <2>1, <2>3 DEF Iterates, Unfold
<1> HIDE DEF I
<1>3. Cardinality(S) \in I
    BY <1>0, <1>1, <1>2, NumbersBelow
<1> QED BY <1>3 DEF I

-----------------------------------------------------------------------------
(* What a sum is.                                                            *)

LEMMA SumIterates ==
    ASSUME NEW w, NEW S, IsFiniteSet(S)
    PROVE  \E g : Iterates(w, S, g) /\ SumOver(w, S) = g[S]
<1> DEFINE it == CHOOSE g : g = [s \in SUBSET S |-> Unfold(w, g, s)]
<1>1. SumOver(w, S) = it[S]
    BY DEF SumOver, MapThenSumSet, MapThenFoldSet, Unfold, Pick
<1>2. it = [s \in SUBSET S |-> Unfold(w, it, s)]
    BY FoldExists
<1> HIDE DEF it
<1>3. Iterates(w, S, it)
    BY <1>2 DEF Iterates
<1> QED BY <1>1, <1>3

\* The sum of nothing, and the sum of a set as its picked element and the rest.
LEMMA SumUnfolds ==
    ASSUME NEW w, NEW S, IsFiniteSet(S)
    PROVE  /\ S = {} => SumOver(w, S) = 0
           /\ S # {} => SumOver(w, S) = w[Pick(S)] + SumOver(w, S \ {Pick(S)})
<1>1. PICK g : Iterates(w, S, g) /\ SumOver(w, S) = g[S]
    BY SumIterates
<1>2. CASE S = {}
    BY <1>1, <1>2 DEF Iterates, Unfold
<1>3. CASE S # {}
    <2> DEFINE T == S \ {Pick(S)}
    <2>1. IsFiniteSet(T) /\ T \subseteq S
        BY <1>3, Picked, Smaller
    <2>2. PICK h : Iterates(w, T, h) /\ SumOver(w, T) = h[T]
        BY <2>1, SumIterates
    <2>3. Iterates(w, T, g)
        BY <1>1, <2>1 DEF Iterates
    <2>4. g[T] = h[T]
        BY <2>1, <2>2, <2>3, FoldUnique
    <2>5. g[S] = w[Pick(S)] + g[T]
        BY <1>1, <1>3 DEF Iterates, Unfold
    <2> QED BY <1>1, <1>3, <2>2, <2>4, <2>5
<1> QED BY <1>2, <1>3

\* Only the summands of the set's members count.
LEMMA SumSame ==
    ASSUME NEW w, NEW v, NEW S, IsFiniteSet(S), \A x \in S : w[x] = v[x]
    PROVE  SumOver(w, S) = SumOver(v, S)
<1>1. PICK g : Iterates(w, S, g) /\ SumOver(w, S) = g[S]
    BY SumIterates
<1>2. PICK h : Iterates(v, S, h) /\ SumOver(v, S) = h[S]
    BY SumIterates
<1> QED BY <1>1, <1>2, FoldUnique

LEMMA SumIsInteger ==
    ASSUME NEW w, NEW S, IsFiniteSet(S), \A x \in S : w[x] \in Int
    PROVE  SumOver(w, S) \in Int
<1> DEFINE I == {n \in Nat : \A s \in SUBSET S : Cardinality(s) = n => SumOver(w, s) \in Int}
<1>0. \A s \in SUBSET S : IsFiniteSet(s) /\ Cardinality(s) \in Nat
    BY FS_Subset, FS_CardinalityType
<1>1. 0 \in I
    <2>1. ASSUME NEW s \in SUBSET S, Cardinality(s) = 0 PROVE SumOver(w, s) = 0
        BY <1>0, <2>1, FS_EmptySet, SumUnfolds
    <2> QED BY <2>1
<1>2. ASSUME NEW n \in Nat, n \in I PROVE n + 1 \in I
    <2> SUFFICES ASSUME NEW s \in SUBSET S, Cardinality(s) = n + 1 PROVE SumOver(w, s) \in Int
        OBVIOUS
    <2>1. s # {}
        BY FS_EmptySet
    <2> DEFINE t == s \ {Pick(s)}
    <2>2. Pick(s) \in S /\ t \in SUBSET S /\ Cardinality(t) = n
        BY <1>0, <2>1, Picked, Smaller
    <2>3. SumOver(w, s) = w[Pick(s)] + SumOver(w, t)
        BY <1>0, <2>1, SumUnfolds
    <2>4. SumOver(w, t) \in Int /\ w[Pick(s)] \in Int
        BY <1>2, <2>2
    <2> QED BY <2>3, <2>4
<1> HIDE DEF I
<1>3. Cardinality(S) \in I
    BY <1>0, <1>1, <1>2, NumbersBelow
<1> QED BY <1>3 DEF I

\* Any member can be taken out of the sum first.
LEMMA SumWithout ==
    ASSUME NEW w, NEW S, IsFiniteSet(S), \A y \in S : w[y] \in Int, NEW x \in S
    PROVE  SumOver(w, S) = w[x] + SumOver(w, S \ {x})
<1> DEFINE I == {n \in Nat : \A s \in SUBSET S : Cardinality(s) = n =>
                                \A y \in s : SumOver(w, s) = w[y] + SumOver(w, s \ {y})}
<1>0. \A s \in SUBSET S : IsFiniteSet(s) /\ Cardinality(s) \in Nat
    BY FS_Subset, FS_CardinalityType
<1>a. \A s \in SUBSET S : SumOver(w, s) \in Int
    BY <1>0, SumIsInteger
<1>1. 0 \in I
    BY <1>0, FS_EmptySet
<1>2. ASSUME NEW n \in Nat, n \in I PROVE n + 1 \in I
    <2> SUFFICES ASSUME NEW s \in SUBSET S, Cardinality(s) = n + 1, NEW y \in s
                 PROVE  SumOver(w, s) = w[y] + SumOver(w, s \ {y})
        OBVIOUS
    <2> DEFINE p == Pick(s)
    <2>1. p \in s
        BY Picked
    <2> HIDE DEF p
    <2>2. SumOver(w, s) = w[p] + SumOver(w, s \ {p})
        BY <1>0, <2>1, SumUnfolds DEF p
    <2>3. CASE y # p
        <3>1. Cardinality(s \ {p}) = n /\ Cardinality(s \ {y}) = n
            BY <1>0, <2>1, Smaller
        <3>2. SumOver(w, s \ {p}) = w[y] + SumOver(w, (s \ {p}) \ {y})
            BY <1>2, <2>3, <3>1
        <3>3. SumOver(w, s \ {y}) = w[p] + SumOver(w, (s \ {y}) \ {p})
            BY <1>2, <2>1, <2>3, <3>1
        <3>4. (s \ {p}) \ {y} = (s \ {y}) \ {p}
            OBVIOUS
        <3>5. w[p] \in Int /\ w[y] \in Int /\ SumOver(w, (s \ {p}) \ {y}) \in Int
            BY <1>a, <2>1
        <3> DEFINE rest == SumOver(w, (s \ {p}) \ {y})
        <3>6. SumOver(w, s) = w[p] + (w[y] + rest) /\ SumOver(w, s \ {y}) = w[p] + rest
            BY <2>2, <3>2, <3>3, <3>4
        <3> HIDE DEF rest
        <3>7. \A a, b, r \in Int : a + (b + r) = b + (a + r)
            OBVIOUS
        <3> QED BY <3>5, <3>6, <3>7 DEF rest
    <2> QED BY <2>2, <2>3
<1> HIDE DEF I
<1>3. Cardinality(S) \in I
    BY <1>0, <1>1, <1>2, NumbersBelow
<1> QED BY <1>3 DEF I

\* A summand that changes changes the sum by as much.
LEMMA SumChanged ==
    ASSUME NEW w, NEW v, NEW S, IsFiniteSet(S), NEW x \in S,
           \A y \in S : w[y] \in Int /\ v[y] \in Int,
           \A y \in S \ {x} : v[y] = w[y]
    PROVE  SumOver(v, S) = SumOver(w, S) + v[x] - w[x]
<1>1. SumOver(v, S) = v[x] + SumOver(v, S \ {x}) /\ SumOver(w, S) = w[x] + SumOver(w, S \ {x})
    BY SumWithout
<1>2. IsFiniteSet(S \ {x})
    BY Smaller
<1>3. SumOver(v, S \ {x}) = SumOver(w, S \ {x})
    BY <1>2, SumSame
<1>4. SumOver(w, S \ {x}) \in Int /\ v[x] \in Int /\ w[x] \in Int
    BY <1>2, SumIsInteger
<1> QED BY <1>1, <1>3, <1>4

\* A new member brings its summand.
LEMMA SumWith ==
    ASSUME NEW w, NEW S, IsFiniteSet(S), NEW x, x \notin S, \A y \in S \cup {x} : w[y] \in Int
    PROVE  SumOver(w, S \cup {x}) = SumOver(w, S) + w[x]
<1>1. IsFiniteSet(S \cup {x}) /\ (S \cup {x}) \ {x} = S
    BY FS_AddElement
<1>2. SumOver(w, S \cup {x}) = w[x] + SumOver(w, S)
    BY <1>1, SumWithout
<1>3. SumOver(w, S) \in Int /\ w[x] \in Int
    BY SumIsInteger
<1> QED BY <1>2, <1>3

-----------------------------------------------------------------------------
(* More about sums, each by adding one element at a time.                    *)

\* Induction over a finite set, for a set of its subsets.
LEMMA OneByOne ==
    ASSUME NEW S, IsFiniteSet(S), NEW F, {} \in F,
           \A s \in SUBSET S : \A x \in S \ s : s \in F => s \cup {x} \in F
    PROVE  S \in F
<1> DEFINE I == {n \in Nat : \A s \in SUBSET S : Cardinality(s) = n => s \in F}
<1>0. \A s \in SUBSET S : IsFiniteSet(s) /\ Cardinality(s) \in Nat
    BY FS_Subset, FS_CardinalityType
<1>1. 0 \in I
    BY <1>0, FS_EmptySet
<1>2. ASSUME NEW n \in Nat, n \in I PROVE n + 1 \in I
    <2> SUFFICES ASSUME NEW s \in SUBSET S, Cardinality(s) = n + 1 PROVE s \in F
        OBVIOUS
    <2>a. s # {}
        <3>1. Cardinality({}) = 0 /\ n + 1 # 0
            BY FS_EmptySet
        <3> QED BY <3>1
    <2>1. PICK x \in s : TRUE
        BY <2>a
    <2>2. Cardinality(s \ {x}) = n
        BY <1>0, <2>1, Smaller
    <2>3. s \ {x} \in F /\ x \in S \ (s \ {x}) /\ s \ {x} \in SUBSET S
        BY <1>2, <2>1, <2>2
    <2>4. (s \ {x}) \cup {x} \in F
        BY <2>3
    <2>5. (s \ {x}) \cup {x} = s
        BY <2>1
    <2> QED BY <2>4, <2>5
<1> HIDE DEF I
<1>3. Cardinality(S) \in I
    BY <1>0, <1>1, <1>2, NumbersBelow
<1> QED BY <1>3 DEF I

LEMMA SumOfNone ==
    ASSUME NEW w
    PROVE  SumOver(w, {}) = 0
BY SumUnfolds, FS_EmptySet

\* A sum over part of a set is the sum over the set with zeros elsewhere.
LEMMA SumRestricted ==
    ASSUME NEW S, IsFiniteSet(S), NEW T, NEW w, \A x \in S : w[x] \in Int,
           NEW v, \A x \in S : v[x] = IF x \in T THEN w[x] ELSE 0
    PROVE  SumOver(v, S) = SumOver(w, S \cap T)
<1> DEFINE F == {s \in SUBSET S : SumOver(v, s) = SumOver(w, s \cap T)}
<1>0. \A s \in SUBSET S : IsFiniteSet(s) /\ IsFiniteSet(s \cap T)
    BY FS_Subset
<1>1. {} \in F
    BY SumOfNone
<1>2. ASSUME NEW s \in SUBSET S, NEW x \in S \ s, s \in F PROVE s \cup {x} \in F
    <2>0. \A y \in s \cup {x} : v[y] \in Int
        OBVIOUS
    <2>1. SumOver(v, s \cup {x}) = SumOver(v, s) + v[x]
        BY <1>0, <2>0, SumWith
    <2>2. SumOver(w, s \cap T) \in Int
        BY <1>0, SumIsInteger
    <2>3. CASE x \in T
        <3>1. (s \cup {x}) \cap T = (s \cap T) \cup {x}
            BY <2>3
        <3>2. SumOver(w, (s \cap T) \cup {x}) = SumOver(w, s \cap T) + w[x]
            BY <1>0, SumWith
        <3> QED BY <1>2, <2>1, <2>3, <3>1, <3>2
    <2>4. CASE x \notin T
        <3>1. (s \cup {x}) \cap T = s \cap T
            BY <2>4
        <3>2. SumOver(v, s) = SumOver(w, s \cap T)
            BY <1>2
        <3>4. v[x] = 0
            BY <2>4
        <3>3. SumOver(w, (s \cup {x}) \cap T) = SumOver(w, s \cap T)
            BY <3>1, Zenon
        <3>5. SumOver(v, s \cup {x}) = SumOver(w, s \cap T) + 0
            BY <2>1, <3>2, <3>4, Zenon
        <3>6. SumOver(w, s \cap T) + 0 = SumOver(w, s \cap T)
            BY <2>2
        <3> QED BY <3>3, <3>5, <3>6, Zenon
    <2> QED BY <2>3, <2>4
<1> HIDE DEF F
<1>3. S \in F
    BY <1>1, <1>2, OneByOne
<1> QED BY <1>3 DEF F

\* Sums of larger numbers are larger.
LEMMA SumGrows ==
    ASSUME NEW S, IsFiniteSet(S), NEW w, NEW v,
           \A x \in S : w[x] \in Int /\ v[x] \in Int /\ w[x] <= v[x]
    PROVE  SumOver(w, S) <= SumOver(v, S)
<1> DEFINE F == {s \in SUBSET S : SumOver(w, s) <= SumOver(v, s)}
<1>0. \A s \in SUBSET S : IsFiniteSet(s)
    BY FS_Subset
<1>1. {} \in F
    BY SumOfNone
<1>2. ASSUME NEW s \in SUBSET S, NEW x \in S \ s, s \in F PROVE s \cup {x} \in F
    <2>1. SumOver(w, s \cup {x}) = SumOver(w, s) + w[x] /\ SumOver(v, s \cup {x}) = SumOver(v, s) + v[x]
        BY <1>0, SumWith
    <2>2. SumOver(w, s) \in Int /\ SumOver(v, s) \in Int
        BY <1>0, SumIsInteger
    <2> QED BY <1>2, <2>1, <2>2
<1> HIDE DEF F
<1>3. S \in F
    BY <1>1, <1>2, OneByOne
<1> QED BY <1>3 DEF F

\* A sum of natural numbers is one, and is zero only if each of them is.
LEMMA SumOfNaturals ==
    ASSUME NEW S, IsFiniteSet(S), NEW w, \A x \in S : w[x] \in Nat
    PROVE  /\ SumOver(w, S) \in Nat
           /\ \A x \in S : w[x] <= SumOver(w, S)
<1> DEFINE F == {s \in SUBSET S : SumOver(w, s) \in Nat}
<1>0. \A s \in SUBSET S : IsFiniteSet(s)
    BY FS_Subset
<1>1. {} \in F
    BY SumOfNone
<1>2. ASSUME NEW s \in SUBSET S, NEW x \in S \ s, s \in F PROVE s \cup {x} \in F
    <2>1. SumOver(w, s \cup {x}) = SumOver(w, s) + w[x]
        BY <1>0, SumWith
    <2> QED BY <1>2, <2>1
<1>3. \A s \in SUBSET S : s \in F
    <2> SUFFICES ASSUME NEW s \in SUBSET S PROVE s \in F
        OBVIOUS
    <2> HIDE DEF F
    <2>1. IsFiniteSet(s) /\ \A t \in SUBSET s : \A x \in s \ t : t \in F => t \cup {x} \in F
        BY <1>0, <1>2
    <2> QED BY <1>1, <2>1, OneByOne
<1>4. ASSUME NEW x \in S PROVE w[x] <= SumOver(w, S)
    <2>1. SumOver(w, S) = w[x] + SumOver(w, S \ {x})
        BY SumWithout
    <2>2. SumOver(w, S \ {x}) \in Nat
        BY <1>3
    <2> QED BY <2>1, <2>2
<1> QED BY <1>3, <1>4

\* Sums add summand by summand.
LEMMA SumAdds ==
    ASSUME NEW S, IsFiniteSet(S), NEW u, NEW v, NEW w,
           \A x \in S : u[x] \in Int /\ v[x] \in Int /\ w[x] = u[x] + v[x]
    PROVE  SumOver(w, S) = SumOver(u, S) + SumOver(v, S)
<1> DEFINE F == {s \in SUBSET S : SumOver(w, s) = SumOver(u, s) + SumOver(v, s)}
<1>0. \A s \in SUBSET S : IsFiniteSet(s)
    BY FS_Subset
<1>1. {} \in F
    BY SumOfNone
<1>2. ASSUME NEW s \in SUBSET S, NEW x \in S \ s, s \in F PROVE s \cup {x} \in F
    <2>1. /\ SumOver(u, s \cup {x}) = SumOver(u, s) + u[x]
          /\ SumOver(v, s \cup {x}) = SumOver(v, s) + v[x]
        BY <1>0, SumWith
    <2>2. SumOver(w, s \cup {x}) = SumOver(w, s) + w[x]
        BY <1>0, SumWith
    <2>3. SumOver(u, s) \in Int /\ SumOver(v, s) \in Int /\ u[x] \in Int /\ v[x] \in Int
        BY <1>0, SumIsInteger
    <2>4. SumOver(w, s) = SumOver(u, s) + SumOver(v, s)
        BY <1>2
    <2>5. \A a, b, c, d \in Int : (a + b) + (c + d) = (a + c) + (b + d)
        OBVIOUS
    <2>6. SumOver(w, s \cup {x}) = SumOver(u, s \cup {x}) + SumOver(v, s \cup {x})
        BY <2>1, <2>2, <2>3, <2>4, <2>5
    <2> QED BY <2>6
<1> HIDE DEF F
<1>3. S \in F
    BY <1>1, <1>2, OneByOne
<1> QED BY <1>3 DEF F

LEMMA SumOfZeros ==
    ASSUME NEW S, IsFiniteSet(S), NEW w, \A x \in S : w[x] = 0
    PROVE  SumOver(w, S) = 0
<1>1. SumOver(w, S) = SumOver(w, S \cap {})
    BY SumRestricted
<1> QED BY <1>1, SumOfNone

-----------------------------------------------------------------------------
(* Sums over sets that are put together from others.                         *)

\* The values of a function on a finite set are finitely many.
LEMMA FiniteImage ==
    ASSUME NEW S, IsFiniteSet(S), NEW f
    PROVE  IsFiniteSet({f[x] : x \in S})
<1> DEFINE Img(s) == {f[x] : x \in s}
           F == {s \in SUBSET S : IsFiniteSet(Img(s))}
<1>1. {} \in F
    <2>1. Img({}) = {}
        OBVIOUS
    <2> QED BY <2>1, FS_EmptySet
<1>2. ASSUME NEW s \in SUBSET S, NEW x \in S \ s, s \in F PROVE s \cup {x} \in F
    <2>1. Img(s \cup {x}) = Img(s) \cup {f[x]}
        OBVIOUS
    <2>2. IsFiniteSet(Img(s))
        BY <1>2
    <2> HIDE DEF Img
    <2>3. IsFiniteSet(Img(s) \cup {f[x]})
        BY <2>2, FS_AddElement
    <2> QED BY <2>1, <2>3
<1> HIDE DEF F
<1>3. S \in F
    BY <1>1, <1>2, OneByOne
<1> QED BY <1>3 DEF F

\* The sum over two sets with no member in common is the sum of their sums.
LEMMA SumOfBoth ==
    ASSUME NEW S, NEW T, IsFiniteSet(S), IsFiniteSet(T), S \cap T = {},
           NEW w, \A x \in S \cup T : w[x] \in Int
    PROVE  SumOver(w, S \cup T) = SumOver(w, S) + SumOver(w, T)
<1> DEFINE U == S \cup T
           u == [x \in U |-> IF x \in S THEN w[x] ELSE 0]
           v == [x \in U |-> IF x \in T THEN w[x] ELSE 0]
<1>1. IsFiniteSet(U) /\ U \cap S = S /\ U \cap T = T
    BY FS_Union
<1>2. \A x \in U : u[x] = IF x \in S THEN w[x] ELSE 0
    OBVIOUS
<1>3. \A x \in U : v[x] = IF x \in T THEN w[x] ELSE 0
    OBVIOUS
<1>4. \A x \in U : u[x] \in Int /\ v[x] \in Int /\ w[x] = u[x] + v[x]
    <2> TAKE x \in U
    <2>1. w[x] \in Int /\ (x \in S \/ x \in T) /\ ~(x \in S /\ x \in T)
        OBVIOUS
    <2> QED BY <1>2, <1>3, <2>1
<1>a. \A x \in U : w[x] \in Int
    OBVIOUS
<1> HIDE DEF U, u, v
<1>5. SumOver(w, U) = SumOver(u, U) + SumOver(v, U)
    BY <1>1, <1>4, SumAdds
<1>6. SumOver(u, U) = SumOver(w, U \cap S) /\ SumOver(v, U) = SumOver(w, U \cap T)
    BY <1>1, <1>2, <1>3, <1>a, SumRestricted
<1> QED BY <1>1, <1>5, <1>6 DEF U

\* Summands can be named by the values of a function that keeps them apart.
LEMMA SumRenamed ==
    ASSUME NEW S, IsFiniteSet(S), NEW f, \A x, y \in S : f[x] = f[y] => x = y,
           NEW w, \A x \in S : w[x] \in Int, NEW v, \A x \in S : v[f[x]] = w[x]
    PROVE  SumOver(v, {f[x] : x \in S}) = SumOver(w, S)
<1> DEFINE Img(s) == {f[x] : x \in s}
           F == {s \in SUBSET S : SumOver(v, Img(s)) = SumOver(w, s)}
<1>0. \A s \in SUBSET S : IsFiniteSet(s)
    BY FS_Subset
<1>1. {} \in F
    <2>1. Img({}) = {}
        OBVIOUS
    <2>2. SumOver(v, Img({})) = 0 /\ SumOver(w, {}) = 0
        BY <2>1, SumOfNone
    <2> QED BY <2>2
<1>2. ASSUME NEW s \in SUBSET S, NEW x \in S \ s, s \in F PROVE s \cup {x} \in F
    <2>1. Img(s \cup {x}) = Img(s) \cup {f[x]} /\ f[x] \notin Img(s)
        OBVIOUS
    <2>2. IsFiniteSet(s) /\ IsFiniteSet(Img(s))
        BY <1>0, FiniteImage
    <2>3. \A y \in Img(s) \cup {f[x]} : v[y] \in Int
        OBVIOUS
    <2>4. SumOver(v, Img(s)) = SumOver(w, s)
        BY <1>2
    <2> HIDE DEF Img
    <2>5. SumOver(v, Img(s) \cup {f[x]}) = SumOver(v, Img(s)) + v[f[x]]
        BY <2>1, <2>2, <2>3, SumWith
    <2>6. SumOver(w, s \cup {x}) = SumOver(w, s) + w[x]
        BY <2>2, SumWith
    <2>7. SumOver(v, Img(s \cup {x})) = SumOver(w, s \cup {x})
        BY <2>1, <2>4, <2>5, <2>6
    <2> QED BY <2>7
<1> HIDE DEF F
<1>3. S \in F
    BY <1>1, <1>2, OneByOne
<1> QED BY <1>3 DEF F

\* The members that a function puts into b.
PartOf(S, part, b) == {x \in S : part[x] = b}

\* If every summand is in one part, the sum is the sum of the parts' sums.
LEMMA SumByParts ==
    ASSUME NEW S, IsFiniteSet(S), NEW w, \A x \in S : w[x] \in Int,
           NEW B, IsFiniteSet(B), NEW part \in [S -> B],
           NEW v, \A b \in B : v[b] = SumOver(w, PartOf(S, part, b))
    PROVE  SumOver(v, B) = SumOver(w, S)
<1> DEFINE In(s, b) == {x \in s : part[x] = b}
           Parts(s) == [b \in B |-> SumOver(w, In(s, b))]
           F == {s \in SUBSET S : SumOver(Parts(s), B) = SumOver(w, s)}
<1>0. \A s \in SUBSET S : IsFiniteSet(s)
    BY FS_Subset
<1>a. \A s \in SUBSET S, b \in B : IsFiniteSet(In(s, b)) /\ SumOver(w, In(s, b)) \in Int
    <2> TAKE s \in SUBSET S, b \in B
    <2>1. In(s, b) \in SUBSET S
        OBVIOUS
    <2> HIDE DEF In
    <2>2. IsFiniteSet(In(s, b))
        BY <1>0, <2>1
    <2> QED BY <2>1, <2>2, SumIsInteger
<1>1. {} \in F
    <2>1. \A b \in B : Parts({})[b] = 0
        <3> TAKE b \in B
        <3>1. In({}, b) = {}
            OBVIOUS
        <3> HIDE DEF In
        <3> QED BY <3>1, SumOfNone
    <2> HIDE DEF Parts
    <2>2. SumOver(Parts({}), B) = 0 /\ SumOver(w, {}) = 0
        BY <2>1, SumOfZeros, SumOfNone
    <2> QED BY <2>2
<1>2. ASSUME NEW s \in SUBSET S, NEW x \in S \ s, s \in F PROVE s \cup {x} \in F
    <2> DEFINE t == s \cup {x}
               b == part[x]
    <2>0. b \in B /\ t \in SUBSET S
        OBVIOUS
    <2>1. In(t, b) = In(s, b) \cup {x} /\ x \notin In(s, b)
        OBVIOUS
    <2>2. \A a \in B \ {b} : In(t, a) = In(s, a)
        OBVIOUS
    <2>3. \A y \in In(s, b) \cup {x} : w[y] \in Int
        OBVIOUS
    <2>4. \A a \in B : Parts(t)[a] = SumOver(w, In(t, a)) /\ Parts(s)[a] = SumOver(w, In(s, a))
        OBVIOUS
    <2>5. SumOver(Parts(s), B) = SumOver(w, s)
        BY <1>2
    <2>5a. SumOver(w, t) = SumOver(w, s) + w[x]
        BY <1>0, SumWith
    <2> HIDE DEF In, Parts, t, b
    <2>6. SumOver(w, In(t, b)) = SumOver(w, In(s, b)) + w[x]
        BY <1>a, <2>0, <2>1, <2>3, SumWith
    <2>7. \A a \in B : Parts(t)[a] \in Int /\ Parts(s)[a] \in Int
        BY <1>a, <2>0, <2>4
    <2>8. \A a \in B \ {b} : Parts(t)[a] = Parts(s)[a]
        BY <2>2, <2>4
    <2>9. SumOver(Parts(t), B) = SumOver(Parts(s), B) + Parts(t)[b] - Parts(s)[b]
        BY <2>0, <2>7, <2>8, SumChanged
    <2>10. Parts(t)[b] = Parts(s)[b] + w[x]
        BY <2>0, <2>4, <2>6
    <2>11. SumOver(Parts(s), B) \in Int /\ Parts(s)[b] \in Int /\ w[x] \in Int
        BY <2>0, <2>7, SumIsInteger
    <2>12. \A a, c, d \in Int : a + (c + d) - c = a + d
        OBVIOUS
    <2>13. SumOver(Parts(t), B) = SumOver(Parts(s), B) + w[x]
        BY <2>9, <2>10, <2>11, <2>12
    <2>14. SumOver(Parts(t), B) = SumOver(w, t)
        BY <2>5, <2>5a, <2>13
    <2> QED BY <2>0, <2>14 DEF t
<1>3. S \in F
    <2> HIDE DEF F
    <2> QED BY <1>1, <1>2, OneByOne
<1>4. SumOver(Parts(S), B) = SumOver(w, S)
    BY <1>3
<1>5. \A b \in B : v[b] = Parts(S)[b]
    BY DEF PartOf
<1> HIDE DEF Parts
<1>6. SumOver(v, B) = SumOver(Parts(S), B)
    BY <1>5, SumSame
<1> QED BY <1>4, <1>6
=============================================================================
