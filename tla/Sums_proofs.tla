----------------------------- MODULE Sums_proofs -----------------------------
(***************************************************************************)
(* Induction, sums and folds.  SumFunction is a fold.  An induction over a *)
(* finite set is one over its size, taken from the least counterexample    *)
(* (LeastOf), for a set of subsets: no theorem of the library that takes   *)
(* an operator is needed.                                                  *)
(***************************************************************************)
EXTENDS Integers, Functions, FiniteSetsExt, FiniteSetTheorems, WellFoundedInduction, TLAPS

-----------------------------------------------------------------------------
(* Induction on the naturals, for sets                                     *)

LEMMA LeastOf ==
    ASSUME NEW T \in SUBSET Nat, T # {}
    PROVE  \E n \in T : \A m \in T : n <= m
<1> DEFINE R == {ss \in Nat \X Nat : ss[1] < ss[2]}
<1>1. IsWellFoundedOn(R, Nat)
  BY NatLessThanWellFounded DEF OpToRel
<1>2. \A m, k \in Nat : <<m, k>> \in R <=> m < k
  OBVIOUS
<1> HIDE DEF R
<1>3. PICK n \in T : \A m \in T : <<m, n>> \notin R
  BY <1>1, WFMin
<1>4. \A m \in T : n <= m
  <2> TAKE m \in T
  <2>1. ~(m < n)
    BY <1>2, <1>3
  <2> QED BY <2>1
<1> QED BY <1>4

\* a set that has 0 and with each number the next one has them all
LEMMA Induction ==
    ASSUME NEW S, 0 \in S, \A n \in Nat : n \in S => n + 1 \in S
    PROVE  Nat \subseteq S
<1> SUFFICES ASSUME Nat \ S # {} PROVE FALSE
  OBVIOUS
<1>1. PICK n \in Nat \ S : \A m \in Nat \ S : n <= m
  BY LeastOf
<1>2. n - 1 \in Nat
  BY <1>1
<1>3. n - 1 \in S
  BY <1>1, <1>2
<1> QED BY <1>1, <1>2, <1>3

-----------------------------------------------------------------------------
(* Sums                                                                    *)

Chosen(s) == CHOOSE x \in s : TRUE

\* h maps each subset of S to its sum of f.
SumsUp(h, f, S) ==
    h = [s \in SUBSET S |-> IF s = {} THEN 0 ELSE f[Chosen(s)] + h[s \ {Chosen(s)}]]

SumTable(f, S) == CHOOSE h : SumsUp(h, f, S)

LEMMA SumIsTabled ==
    ASSUME NEW f, NEW S
    PROVE  SumFunctionOnSet(f, S) = SumTable(f, S)[S]
BY Zenon DEF SumFunctionOnSet, FoldFunctionOnSet, MapThenFoldSet, SumTable, SumsUp, Chosen

LEMMA Shrinks ==
    ASSUME NEW S, IsFiniteSet(S), NEW s \in SUBSET S, NEW x \in s
    PROVE  /\ IsFiniteSet(s) /\ Cardinality(s) \in Nat \ {0}
           /\ Cardinality(s \ {x}) = Cardinality(s) - 1
BY FS_Subset, FS_RemoveElement, FS_CardinalityType, FS_EmptySet

LEMMA SumTableExists ==
    ASSUME NEW S, IsFiniteSet(S), NEW f, \A x \in S : f[x] \in Int
    PROVE  \E h \in [SUBSET S -> Int] : SumsUp(h, f, S)
<1> DEFINE Value(s, h) == IF s = {} THEN 0 ELSE f[Chosen(s)] + h[s \ {Chosen(s)}]
           Upto(n) == \E h \in [SUBSET S -> Int] :
                         \A s \in SUBSET S : Cardinality(s) <= n => h[s] = Value(s, h)
           P == {n \in Nat : Upto(n)}
<1>1. \A s \in SUBSET S : IsFiniteSet(s) /\ Cardinality(s) \in Nat
  BY FS_Subset, FS_CardinalityType
<1>2. \A s \in SUBSET S : s # {} => Chosen(s) \in s /\ s \ {Chosen(s)} \in SUBSET S
  BY DEF Chosen
<1>3. 0 \in P
  <2>1. \A s \in SUBSET S : Cardinality(s) <= 0 => s = {}
    BY <1>1, FS_EmptySet
  <2> DEFINE h == [s \in SUBSET S |-> 0]
  <2>2. h \in [SUBSET S -> Int] /\ \A s \in SUBSET S : Cardinality(s) <= 0 => h[s] = Value(s, h)
    BY <2>1
  <2> QED BY <2>2
<1>4. ASSUME NEW n \in Nat, n \in P PROVE n + 1 \in P
  <2>1. PICK h \in [SUBSET S -> Int] :
               \A s \in SUBSET S : Cardinality(s) <= n => h[s] = Value(s, h)
    BY <1>4
  <2> DEFINE k == [s \in SUBSET S |-> Value(s, h)]
  <2>2. \A s \in SUBSET S : Value(s, h) \in Int
    BY <1>2
  <2>3. k \in [SUBSET S -> Int]
    BY <2>2
  <2>4. ASSUME NEW s \in SUBSET S, Cardinality(s) <= n + 1 PROVE k[s] = Value(s, k)
    <3>1. CASE s = {}
      BY <3>1
    <3>2. CASE s # {}
      <4>1. PICK x \in s : x = Chosen(s)
        BY <1>2, <3>2
      <4>2. Cardinality(s \ {x}) <= n /\ s \ {x} \in SUBSET S
        BY <1>1, <2>4, Shrinks
      <4>3. h[s \ {x}] = Value(s \ {x}, h)
        BY <2>1, <4>2
      <4>4. k[s \ {x}] = h[s \ {x}]
        BY <4>2, <4>3
      <4>5. k[s] = f[x] + h[s \ {x}]
        BY <3>2, <4>1
      <4> QED BY <3>2, <4>1, <4>4, <4>5
    <3> QED BY <3>1, <3>2
  <2> HIDE DEF k
  <2> QED BY <2>3, <2>4
<1> HIDE DEF P
<1>5. Cardinality(S) \in P
  BY <1>1, <1>3, <1>4, Induction
<1>6. PICK h \in [SUBSET S -> Int] :
               \A s \in SUBSET S : Cardinality(s) <= Cardinality(S) => h[s] = Value(s, h)
  BY <1>5 DEF P
<1>7. \A s \in SUBSET S : h[s] = Value(s, h)
  BY <1>6, FS_Subset
<1>8. h = [s \in SUBSET S |-> Value(s, h)]
  BY <1>7
<1> QED BY <1>8 DEF SumsUp

Takes(h, f, S) ==
    /\ h \in [SUBSET S -> Int]
    /\ h[{}] = 0
    /\ \A s \in SUBSET S : \A x \in s : h[s] = f[x] + h[s \ {x}]

\* Which element is taken out first makes no difference.
LEMMA SumTableTakes ==
    ASSUME NEW S, IsFiniteSet(S), NEW f, \A x \in S : f[x] \in Int,
           NEW h, SumsUp(h, f, S)
    PROVE  Takes(h, f, S)
<1> DEFINE Ok(s) == h[s] \in Int /\ \A x \in s : h[s] = f[x] + h[s \ {x}]
           P == {n \in Nat : \A s \in SUBSET S : Cardinality(s) <= n => Ok(s)}
<1>1. \A s \in SUBSET S : IsFiniteSet(s) /\ Cardinality(s) \in Nat
  BY FS_Subset, FS_CardinalityType
<1>2. \A s \in SUBSET S : s # {} => Chosen(s) \in s /\ s \ {Chosen(s)} \in SUBSET S
  BY DEF Chosen
<1>3. \A s \in SUBSET S : h[s] = IF s = {} THEN 0 ELSE f[Chosen(s)] + h[s \ {Chosen(s)}]
  BY DEF SumsUp
<1>4. \E d : h = [s \in SUBSET S |-> d[s]]
  <2>1. h = [s \in SUBSET S |-> [t \in SUBSET S |-> IF t = {} THEN 0 ELSE f[Chosen(t)] + h[t \ {Chosen(t)}]][s]]
    BY DEF SumsUp
  <2> QED BY <2>1
<1>5. h[{}] = 0
  BY <1>3
<1>6. 0 \in P
  <2>1. \A s \in SUBSET S : Cardinality(s) <= 0 => s = {}
    BY <1>1, FS_EmptySet
  <2>2. Ok({})
    BY <1>5
  <2> HIDE DEF Ok
  <2>3. \A s \in SUBSET S : Cardinality(s) <= 0 => Ok(s)
    BY <2>1, <2>2
  <2> QED BY <2>3
<1>7. ASSUME NEW n \in Nat, n \in P PROVE n + 1 \in P
  <2> SUFFICES ASSUME NEW s \in SUBSET S, Cardinality(s) <= n + 1 PROVE Ok(s)
    OBVIOUS
  <2>1. CASE s = {}
    BY <2>1, <1>5
  <2>2. CASE s # {}
    <3>1. PICK c \in s : c = Chosen(s)
      BY <1>2, <2>2
    <3>2. h[s] = f[c] + h[s \ {c}]
      BY <1>3, <2>2, <3>1
    <3>3. ASSUME NEW t \in SUBSET S, NEW x \in s, t \subseteq s \ {x} PROVE Ok(t)
      <4>1. Cardinality(s \ {x}) <= n
        BY <1>1, Shrinks
      <4>2. Cardinality(t) <= n
        BY <1>1, <3>3, <4>1, FS_Subset
      <4> QED BY <1>7, <4>2
    <3>4. ASSUME NEW x \in s, x # c PROVE h[s] = f[x] + h[s \ {x}]
      <4>1. PICK r \in SUBSET S : r = (s \ {c}) \ {x} /\ r = (s \ {x}) \ {c}
        OBVIOUS
      <4>2. Ok(s \ {c}) /\ Ok(s \ {x}) /\ Ok(r)
        BY <3>3, <4>1
      <4>3. h[s \ {c}] = f[x] + h[r] /\ h[s \ {x}] = f[c] + h[r] /\ h[r] \in Int
        BY <3>4, <4>1, <4>2
      <4>4. f[x] \in Int /\ f[c] \in Int
        OBVIOUS
      <4> HIDE DEF Ok
      <4> QED BY <3>2, <4>3, <4>4
    <3>5. h[s \ {c}] \in Int
      BY <3>3
    <3>6. f[c] \in Int
      OBVIOUS
    <3>7. h[s] \in Int
      BY <3>2, <3>5, <3>6
    <3>8. \A x \in s : h[s] = f[x] + h[s \ {x}]
      BY <3>2, <3>4
    <3> QED BY <3>7, <3>8
  <2> QED BY <2>1, <2>2
<1> HIDE DEF P
<1>8. \A s \in SUBSET S : Ok(s)
  <2>1. Nat \subseteq P
    BY <1>6, <1>7, Induction
  <2> QED BY <1>1, <2>1 DEF P
<1> QED BY <1>4, <1>5, <1>8 DEF Takes

\* Tables of one function, or of functions that agree, agree.
LEMMA SumTablesAgree ==
    ASSUME NEW S, NEW T, IsFiniteSet(S), IsFiniteSet(T), NEW f, NEW g,
           \A x \in S : f[x] \in Int, \A x \in T : g[x] \in Int,
           NEW U \in SUBSET (S \cap T), \A x \in U : f[x] = g[x],
           NEW h, SumsUp(h, f, S), NEW k, SumsUp(k, g, T)
    PROVE  h[U] = k[U]
<1> DEFINE P == {n \in Nat : \A s \in SUBSET U : Cardinality(s) <= n => h[s] = k[s]}
<1>0. IsFiniteSet(U)
  BY FS_Subset
<1>1. \A s \in SUBSET U : IsFiniteSet(s) /\ Cardinality(s) \in Nat
  BY <1>0, FS_Subset, FS_CardinalityType
<1>2. /\ h[{}] = 0 /\ k[{}] = 0
      /\ \A s \in SUBSET S : \A x \in s : h[s] = f[x] + h[s \ {x}]
      /\ \A s \in SUBSET T : \A x \in s : k[s] = g[x] + k[s \ {x}]
  <2>1. Takes(h, f, S) /\ Takes(k, g, T)
    BY SumTableTakes
  <2> QED BY <2>1 DEF Takes
<1>3. 0 \in P
  <2>1. \A s \in SUBSET U : Cardinality(s) <= 0 => s = {}
    BY <1>1, FS_EmptySet
  <2> QED BY <1>2, <2>1
<1>4. ASSUME NEW n \in Nat, n \in P PROVE n + 1 \in P
  <2> SUFFICES ASSUME NEW s \in SUBSET U, Cardinality(s) <= n + 1 PROVE h[s] = k[s]
    OBVIOUS
  <2>1. CASE s = {}
    BY <2>1, <1>2
  <2>2. CASE s # {}
    <3>1. PICK x \in s : TRUE
      BY <2>2
    <3>2. Cardinality(s \ {x}) <= n
      BY <1>0, <1>1, Shrinks
    <3>3. h[s \ {x}] = k[s \ {x}]
      BY <1>4, <3>2
    <3> QED BY <1>2, <3>3
  <2> QED BY <2>1, <2>2
<1> HIDE DEF P
<1>5. Nat \subseteq P
  BY <1>3, <1>4, Induction
<1> QED BY <1>1, <1>5 DEF P

LEMMA SumTableSums ==
    ASSUME NEW S, IsFiniteSet(S), NEW f, \A x \in S : f[x] \in Int
    PROVE  SumsUp(SumTable(f, S), f, S)
BY SumTableExists DEF SumTable

\* What follows is all that is used of sums.

LEMMA SumAgrees ==
    ASSUME NEW S, IsFiniteSet(S), NEW f, NEW g, \A x \in S : f[x] \in Int /\ f[x] = g[x]
    PROVE  SumFunctionOnSet(f, S) = SumFunctionOnSet(g, S)
<1>1. SumsUp(SumTable(f, S), f, S) /\ SumsUp(SumTable(g, S), g, S)
  BY SumTableSums
<1>2. SumTable(f, S)[S] = SumTable(g, S)[S]
  BY <1>1, SumTablesAgree
<1> QED BY <1>2, SumIsTabled

LEMMA SumEmpty == ASSUME NEW f PROVE SumFunctionOnSet(f, {}) = 0
<1>1. IsFiniteSet({})
  BY FS_EmptySet
<1>2. SumsUp(SumTable(f, {}), f, {})
  BY <1>1, SumTableSums
<1>3. SumTable(f, {})[{}] = 0
  BY <1>1, <1>2, SumTableTakes DEF Takes
<1> QED BY <1>3, SumIsTabled

LEMMA SumType ==
    ASSUME NEW S, IsFiniteSet(S), NEW f, \A x \in S : f[x] \in Int
    PROVE  SumFunctionOnSet(f, S) \in Int
<1>1. SumsUp(SumTable(f, S), f, S)
  BY SumTableSums
<1>2. SumTable(f, S) \in [SUBSET S -> Int]
  BY <1>1, SumTableTakes DEF Takes
<1> QED BY <1>2, SumIsTabled

LEMMA SumTakes ==
    ASSUME NEW S, IsFiniteSet(S), NEW f, \A x \in S : f[x] \in Int, NEW x \in S
    PROVE  SumFunctionOnSet(f, S) = f[x] + SumFunctionOnSet(f, S \ {x})
<1>0. IsFiniteSet(S \ {x})
  BY FS_RemoveElement
<1>1. SumsUp(SumTable(f, S), f, S) /\ SumsUp(SumTable(f, S \ {x}), f, S \ {x})
  BY <1>0, SumTableSums
<1>2. SumTable(f, S)[S] = f[x] + SumTable(f, S)[S \ {x}]
  <2>1. PICK h : h = SumTable(f, S) /\ SumsUp(h, f, S)
    BY <1>1
  <2>2. Takes(h, f, S)
    BY <2>1, SumTableTakes
  <2> QED BY <2>1, <2>2 DEF Takes
<1>3. SumTable(f, S)[S \ {x}] = SumTable(f, S \ {x})[S \ {x}]
  <2>1. S \ {x} \in SUBSET (S \cap (S \ {x}))
    OBVIOUS
  <2>2. \A y \in S \ {x} : f[y] \in Int
    OBVIOUS
  <2> QED BY <1>0, <1>1, <2>1, <2>2, SumTablesAgree
<1> QED BY <1>2, <1>3, SumIsTabled

\* a set of subsets of S that has {}, and with each set the larger ones, has S
LEMMA SetInduction ==
    ASSUME NEW S, IsFiniteSet(S), NEW C, {} \in C,
           \A T \in SUBSET S : \A x \in S \ T : T \in C => T \cup {x} \in C
    PROVE  S \in C
<1> DEFINE P == {n \in Nat : \A T \in SUBSET S : Cardinality(T) = n => T \in C}
<1>1. \A T \in SUBSET S : IsFiniteSet(T) /\ Cardinality(T) \in Nat
  BY FS_Subset, FS_CardinalityType
<1>2. 0 \in P
  <2>1. \A T \in SUBSET S : Cardinality(T) = 0 => T = {}
    BY <1>1, FS_EmptySet
  <2> QED BY <2>1
<1>3. ASSUME NEW n \in Nat, n \in P PROVE n + 1 \in P
  <2> SUFFICES ASSUME NEW T \in SUBSET S, Cardinality(T) = n + 1 PROVE T \in C
    OBVIOUS
  <2>1. PICK x \in T : TRUE
    BY <1>3, FS_EmptySet
  <2>2. Cardinality(T \ {x}) = n
    BY <1>1, <1>3, Shrinks
  <2>3. T \ {x} \in C /\ T \ {x} \in SUBSET S /\ x \in S \ (T \ {x})
    BY <1>3, <2>2
  <2>4. (T \ {x}) \cup {x} \in C
    BY <2>3
  <2>5. T = (T \ {x}) \cup {x}
    OBVIOUS
  <2> QED BY <2>4, <2>5
<1> HIDE DEF P
<1>4. Nat \subseteq P
  BY <1>2, <1>3, Induction
<1> QED BY <1>1, <1>4 DEF P

LEMMA SumAdds ==
    ASSUME NEW S, IsFiniteSet(S), NEW x, x \notin S, NEW f, \A y \in S \cup {x} : f[y] \in Int
    PROVE  SumFunctionOnSet(f, S \cup {x}) = f[x] + SumFunctionOnSet(f, S)
<1>1. IsFiniteSet(S \cup {x})
  BY FS_AddElement
<1>2. (S \cup {x}) \ {x} = S
  OBVIOUS
<1> DEFINE T == S \cup {x}
<1>3. x \in T /\ T \ {x} = S /\ IsFiniteSet(T) /\ \A y \in T : f[y] \in Int
  BY <1>1
<1> HIDE DEF T
<1>4. SumFunctionOnSet(f, T) = f[x] + SumFunctionOnSet(f, T \ {x})
  BY <1>3, SumTakes
<1> QED BY <1>3, <1>4 DEF T

\* One value of the function changes: the sum of g is that of f with g[x] in place of f[x].
SumShifts(f, g, S, x) == SumFunctionOnSet(g, S) = (SumFunctionOnSet(f, S) - f[x]) + g[x]

LEMMA SumChanges ==
    ASSUME NEW S, IsFiniteSet(S), NEW f, NEW g, NEW x \in S,
           \A y \in S : f[y] \in Int /\ g[y] \in Int,
           \A y \in S \ {x} : f[y] = g[y]
    PROVE  SumShifts(f, g, S, x)
<1>1. IsFiniteSet(S \ {x})
  BY FS_RemoveElement
<1>2. PICK r \in Int : r = SumFunctionOnSet(f, S \ {x}) /\ r = SumFunctionOnSet(g, S \ {x})
  <2>1. SumFunctionOnSet(f, S \ {x}) = SumFunctionOnSet(g, S \ {x})
    BY <1>1, SumAgrees
  <2>2. SumFunctionOnSet(f, S \ {x}) \in Int
    BY <1>1, SumType
  <2> QED BY <2>1, <2>2
<1>3. SumFunctionOnSet(f, S) = f[x] + r
  BY <1>2, SumTakes
<1>4. SumFunctionOnSet(g, S) = g[x] + r
  BY <1>2, SumTakes
<1>5. f[x] \in Int /\ g[x] \in Int
  OBVIOUS
<1> QED BY <1>3, <1>4, <1>5 DEF SumShifts

\* Sums of numbers not below others are not below theirs.
LEMMA SumMonotone ==
    ASSUME NEW S, IsFiniteSet(S), NEW f, NEW g,
           \A x \in S : f[x] \in Int /\ g[x] \in Int /\ f[x] <= g[x]
    PROVE  SumFunctionOnSet(f, S) <= SumFunctionOnSet(g, S)
<1> DEFINE C == {T \in SUBSET S : SumFunctionOnSet(f, T) <= SumFunctionOnSet(g, T)}
<1>1. {} \in C
  BY SumEmpty
<1>2. ASSUME NEW T \in SUBSET S, NEW x \in S \ T, T \in C PROVE T \cup {x} \in C
  <2>1. IsFiniteSet(T)
    BY FS_Subset
  <2>2. SumFunctionOnSet(f, T) \in Int /\ SumFunctionOnSet(g, T) \in Int
    BY <2>1, SumType
  <2>3. SumFunctionOnSet(f, T \cup {x}) = f[x] + SumFunctionOnSet(f, T)
    BY <2>1, SumAdds
  <2>4. SumFunctionOnSet(g, T \cup {x}) = g[x] + SumFunctionOnSet(g, T)
    BY <2>1, SumAdds
  <2>5. f[x] \in Int /\ g[x] \in Int /\ f[x] <= g[x]
    OBVIOUS
  <2>6. SumFunctionOnSet(f, T) <= SumFunctionOnSet(g, T)
    BY <1>2
  <2>7. SumFunctionOnSet(f, T \cup {x}) <= SumFunctionOnSet(g, T \cup {x})
    BY <2>2, <2>3, <2>4, <2>5, <2>6
  <2> QED BY <2>7
<1> HIDE DEF C
<1>3. S \in C
  BY <1>1, <1>2, SetInduction
<1> QED BY <1>3 DEF C

LEMMA SumPlus ==
    ASSUME NEW S, IsFiniteSet(S), NEW f, NEW g, NEW h,
           \A x \in S : f[x] \in Int /\ g[x] \in Int /\ h[x] = f[x] + g[x]
    PROVE  SumFunctionOnSet(h, S) = SumFunctionOnSet(f, S) + SumFunctionOnSet(g, S)
<1> DEFINE C == {T \in SUBSET S : SumFunctionOnSet(h, T)
                                    = SumFunctionOnSet(f, T) + SumFunctionOnSet(g, T)}
<1>1. {} \in C
  BY SumEmpty
<1>2. ASSUME NEW T \in SUBSET S, NEW x \in S \ T, T \in C PROVE T \cup {x} \in C
  <2>1. IsFiniteSet(T) /\ \A y \in S : h[y] \in Int
    BY FS_Subset
  <2>2. SumFunctionOnSet(f, T) \in Int /\ SumFunctionOnSet(g, T) \in Int
    BY <2>1, SumType
  <2>3. SumFunctionOnSet(f, T \cup {x}) = f[x] + SumFunctionOnSet(f, T)
    BY <2>1, SumAdds
  <2>4. SumFunctionOnSet(g, T \cup {x}) = g[x] + SumFunctionOnSet(g, T)
    BY <2>1, SumAdds
  <2>5. SumFunctionOnSet(h, T \cup {x}) = h[x] + SumFunctionOnSet(h, T)
    BY <2>1, SumAdds
  <2>6. f[x] \in Int /\ g[x] \in Int /\ h[x] = f[x] + g[x]
    OBVIOUS
  <2>7. SumFunctionOnSet(h, T) = SumFunctionOnSet(f, T) + SumFunctionOnSet(g, T)
    BY <1>2
  <2>8. SumFunctionOnSet(h, T \cup {x})
          = SumFunctionOnSet(f, T \cup {x}) + SumFunctionOnSet(g, T \cup {x})
    BY <2>2, <2>3, <2>4, <2>5, <2>6, <2>7
  <2> QED BY <2>8
<1> HIDE DEF C
<1>3. S \in C
  BY <1>1, <1>2, SetInduction
<1> QED BY <1>3 DEF C

\* k times c, and the sum of as many numbers that are c at most
LEMMA SumOfEquals ==
    ASSUME NEW S, IsFiniteSet(S), NEW c \in Int
    PROVE  SumFunctionOnSet([x \in S |-> c], S) = c * Cardinality(S)
<1> DEFINE f == [x \in S |-> c]
           C == {T \in SUBSET S : SumFunctionOnSet(f, T) = c * Cardinality(T)}
<1>1. {} \in C
  BY SumEmpty, FS_EmptySet
<1>2. ASSUME NEW T \in SUBSET S, NEW x \in S \ T, T \in C PROVE T \cup {x} \in C
  <2>1. IsFiniteSet(T) /\ f[x] = c /\ \A y \in S : f[y] \in Int
    BY FS_Subset
  <2>2. SumFunctionOnSet(f, T \cup {x}) = f[x] + SumFunctionOnSet(f, T)
    <3> HIDE DEF f
    <3> QED BY <2>1, SumAdds
  <2>3. Cardinality(T \cup {x}) = Cardinality(T) + 1 /\ Cardinality(T) \in Nat
    BY <2>1, FS_AddElement, FS_CardinalityType
  <2>4. SumFunctionOnSet(f, T) = c * Cardinality(T)
    BY <1>2
  <2> HIDE DEF f
  <2>5. PICK n \in Nat : n = Cardinality(T)
    BY <2>3
  <2>6. c + c * n = c * (n + 1)
    BY SMT
  <2>7. SumFunctionOnSet(f, T \cup {x}) = c * Cardinality(T \cup {x})
    BY <2>1, <2>2, <2>3, <2>4, <2>5, <2>6
  <2> QED BY <2>7
<1> HIDE DEF C
<1>3. S \in C
  BY <1>1, <1>2, SetInduction
<1> QED BY <1>3 DEF C

LEMMA SumNat ==
    ASSUME NEW S, IsFiniteSet(S), NEW f, \A x \in S : f[x] \in Nat
    PROVE  SumFunctionOnSet(f, S) \in Nat
<1>0. PICK c \in Int : c = 0
  OBVIOUS
<1> DEFINE z == [x \in S |-> c]
<1>1. SumFunctionOnSet(z, S) = c * Cardinality(S)
  BY SumOfEquals
<1>2. Cardinality(S) \in Nat /\ SumFunctionOnSet(f, S) \in Int
  BY FS_CardinalityType, SumType
<1>3. \A x \in S : z[x] \in Int /\ f[x] \in Int /\ z[x] <= f[x]
  BY <1>0
<1> HIDE DEF z
<1>4. SumFunctionOnSet(z, S) <= SumFunctionOnSet(f, S)
  BY <1>3, SumMonotone
<1> QED BY <1>0, <1>1, <1>2, <1>4

\* One of several numbers is no more than their sum.
LEMMA SumCovers ==
    ASSUME NEW S, IsFiniteSet(S), NEW f, \A x \in S : f[x] \in Nat, NEW x \in S
    PROVE  f[x] <= SumFunctionOnSet(f, S)
<1>1. IsFiniteSet(S \ {x})
  BY FS_RemoveElement
<1>2. SumFunctionOnSet(f, S) = f[x] + SumFunctionOnSet(f, S \ {x})
  BY SumTakes
<1>3. SumFunctionOnSet(f, S \ {x}) \in Nat
  BY <1>1, SumNat
<1>4. f[x] \in Nat
  OBVIOUS
<1> QED BY <1>2, <1>3, <1>4

\* It does not matter how the terms are named.
LEMMA SumRenamed ==
    ASSUME NEW S, IsFiniteSet(S), NEW T, NEW h, NEW f, NEW g,
           \A x \in S : h[x] \in T /\ f[x] = g[h[x]],
           \A y \in T : g[y] \in Int /\ \E x \in S : y = h[x],
           \A x, y \in S : h[x] = h[y] => x = y
    PROVE  IsFiniteSet(T) /\ SumFunctionOnSet(f, S) = SumFunctionOnSet(g, T)
<1> DEFINE Of(U) == {h[x] : x \in U}
           C == {U \in SUBSET S : /\ IsFiniteSet(Of(U))
                                  /\ SumFunctionOnSet(f, U) = SumFunctionOnSet(g, Of(U))}
<1>1. {} \in C
  <2>1. Of({}) = {}
    OBVIOUS
  <2> QED BY <2>1, SumEmpty, FS_EmptySet
<1>2. ASSUME NEW U \in SUBSET S, NEW x \in S \ U, U \in C PROVE U \cup {x} \in C
  <2>1. IsFiniteSet(U) /\ \A y \in S : f[y] \in Int
    BY FS_Subset
  <2>2. Of(U \cup {x}) = Of(U) \cup {h[x]} /\ h[x] \notin Of(U)
    OBVIOUS
  <2>3. Of(U) \subseteq T /\ h[x] \in T
    OBVIOUS
  <2>4. IsFiniteSet(Of(U)) /\ SumFunctionOnSet(f, U) = SumFunctionOnSet(g, Of(U))
    BY <1>2
  <2> HIDE DEF Of
  <2>5. SumFunctionOnSet(f, U \cup {x}) = f[x] + SumFunctionOnSet(f, U)
    BY <2>1, SumAdds
  <2>6. SumFunctionOnSet(g, Of(U) \cup {h[x]}) = g[h[x]] + SumFunctionOnSet(g, Of(U))
    <3>1. PICK y \in T : y = h[x]
      BY <2>3
    <3>2. \A z \in Of(U) \cup {y} : g[z] \in Int
      BY <2>3, <3>1
    <3> QED BY <2>2, <2>4, <3>1, <3>2, SumAdds
  <2>7. IsFiniteSet(Of(U) \cup {h[x]})
    BY <2>4, FS_AddElement
  <2>8. f[x] = g[h[x]]
    OBVIOUS
  <2>9. SumFunctionOnSet(f, U \cup {x}) = SumFunctionOnSet(g, Of(U \cup {x}))
    BY <2>2, <2>4, <2>5, <2>6, <2>8
  <2>10. IsFiniteSet(Of(U \cup {x}))
    BY <2>2, <2>7
  <2> QED BY <2>9, <2>10
<1>3. Of(S) = T
  OBVIOUS
<1> HIDE DEF C, Of
<1>4. S \in C
  BY <1>1, <1>2, SetInduction
<1> QED BY <1>3, <1>4 DEF C

LEMMA SumIs == ASSUME NEW f PROVE SumFunction(f) = SumFunctionOnSet(f, DOMAIN f)
BY Zenon DEF SumFunction, SumFunctionOnSet
\* Terms that are nothing may be left out.
LEMMA SumOfPart ==
    ASSUME NEW S, IsFiniteSet(S), NEW T \in SUBSET S, NEW f,
           \A x \in S : f[x] \in Int, \A x \in S \ T : f[x] = 0
    PROVE  SumFunctionOnSet(f, S) = SumFunctionOnSet(f, T)
<1> DEFINE C == {U \in SUBSET (S \ T) : SumFunctionOnSet(f, T \cup U) = SumFunctionOnSet(f, T)}
<1>1. {} \in C
  <2>1. T \cup {} = T
    OBVIOUS
  <2> QED BY <2>1
<1>2. ASSUME NEW U \in SUBSET (S \ T), NEW x \in (S \ T) \ U, U \in C PROVE U \cup {x} \in C
  <2>1. IsFiniteSet(T \cup U)
    BY FS_Subset
  <2>2. PICK V : V = T \cup U /\ x \notin V /\ \A y \in V \cup {x} : f[y] \in Int
    OBVIOUS
  <2>3. SumFunctionOnSet(f, V \cup {x}) = f[x] + SumFunctionOnSet(f, V)
    BY <2>1, <2>2, SumAdds
  <2>4. SumFunctionOnSet(f, V) = SumFunctionOnSet(f, T) /\ f[x] = 0
    BY <1>2, <2>2
  <2>5. SumFunctionOnSet(f, V) \in Int
    BY <2>1, <2>2, SumType
  <2>6. T \cup (U \cup {x}) = V \cup {x}
    BY <2>2
  <2>7. SumFunctionOnSet(f, V \cup {x}) = SumFunctionOnSet(f, T)
    BY ONLY <2>3, <2>4, <2>5
  <2>8. SumFunctionOnSet(f, T \cup (U \cup {x})) = SumFunctionOnSet(f, T)
    BY Zenon, <2>6, <2>7
  <2> QED BY <2>8
<1>3. IsFiniteSet(S \ T)
  BY FS_Subset
<1> HIDE DEF C
<1>4. S \ T \in C
  BY <1>1, <1>2, <1>3, SetInduction
<1>5. T \cup (S \ T) = S
  OBVIOUS
<1> QED BY <1>4, <1>5 DEF C

\* A sum over two sets apart from each other.
LEMMA SumOfTwo ==
    ASSUME NEW S, IsFiniteSet(S), NEW T, IsFiniteSet(T), S \cap T = {}, NEW f,
           \A x \in S \cup T : f[x] \in Int
    PROVE  SumFunctionOnSet(f, S \cup T) = SumFunctionOnSet(f, S) + SumFunctionOnSet(f, T)
<1> DEFINE C == {U \in SUBSET T : SumFunctionOnSet(f, S \cup U)
                                    = SumFunctionOnSet(f, S) + SumFunctionOnSet(f, U)}
<1>0. SumFunctionOnSet(f, S) \in Int
  BY SumType
<1>1. {} \in C
  <2>1. S \cup {} = S
    OBVIOUS
  <2> QED BY <1>0, <2>1, SumEmpty
<1>2. ASSUME NEW U \in SUBSET T, NEW x \in T \ U, U \in C PROVE U \cup {x} \in C
  <2>1. IsFiniteSet(U) /\ IsFiniteSet(S \cup U)
    BY FS_Subset, FS_Union
  <2>2. PICK V : V = S \cup U /\ x \notin V /\ \A y \in V \cup {x} : f[y] \in Int
    OBVIOUS
  <2>3. SumFunctionOnSet(f, V \cup {x}) = f[x] + SumFunctionOnSet(f, V)
    BY <2>1, <2>2, SumAdds
  <2>4. SumFunctionOnSet(f, U \cup {x}) = f[x] + SumFunctionOnSet(f, U)
    BY <2>1, SumAdds
  <2>5. SumFunctionOnSet(f, V) = SumFunctionOnSet(f, S) + SumFunctionOnSet(f, U)
    BY <1>2, <2>2
  <2>6. SumFunctionOnSet(f, U) \in Int /\ f[x] \in Int
    BY <2>1, SumType
  <2>7. SumFunctionOnSet(f, V \cup {x}) = SumFunctionOnSet(f, S) + SumFunctionOnSet(f, U \cup {x})
    BY ONLY <1>0, <2>3, <2>4, <2>5, <2>6
  <2>8. S \cup (U \cup {x}) = V \cup {x}
    BY <2>2
  <2>9. SumFunctionOnSet(f, S \cup (U \cup {x}))
          = SumFunctionOnSet(f, S) + SumFunctionOnSet(f, U \cup {x})
    BY Zenon, <2>7, <2>8
  <2> QED BY <2>9
<1> HIDE DEF C
<1>3. T \in C
  BY <1>1, <1>2, SetInduction
<1> QED BY <1>3 DEF C

-----------------------------------------------------------------------------
(* Folds over sequences, from left to right                                *)

\* FoldLeft over n elements takes the last of them first.
LEMMA Prefix ==
    ASSUME NEW n \in Nat \ {0}
    PROVE  1 .. n # {} /\ Max(1 .. n) = n /\ (1 .. n) \ {n} = 1 .. n - 1
<1>1. n \in 1 .. n /\ \A y \in 1 .. n : n >= y
  OBVIOUS
<1>2. \A x \in 1 .. n : (\A y \in 1 .. n : x >= y) => x = n
  BY <1>1
<1>3. Max(1 .. n) = n
  BY <1>1, <1>2 DEF Max
<1> QED BY <1>1, <1>3

LEMMA MaxIn ==
    ASSUME NEW n \in Nat, NEW s \in SUBSET (1 .. n), s # {}
    PROVE  Max(s) \in s
<1> DEFINE T == {k \in Nat : \A x \in s : x <= k}
<1>1. n \in T
  OBVIOUS
<1>2. PICK k \in T : \A m \in T : k <= m
  BY <1>1, LeastOf
<1>3. k \in s
  <2> SUFFICES ASSUME k \notin s PROVE FALSE
    OBVIOUS
  <2>1. \A x \in s : x <= k - 1 /\ 1 <= x
    BY <1>2
  <2>2. k - 1 \in Nat
    <3>1. PICK x \in s : TRUE
      OBVIOUS
    <3>2. x \in Int /\ 1 <= x /\ x <= k - 1 /\ k \in Nat
      BY <1>2, <2>1
    <3> QED BY ONLY <3>2
  <2>3. k - 1 \in T
    BY <2>1, <2>2
  <2> QED BY <1>2, <2>3
<1>4. \A y \in s : k >= y
  BY <1>2
<1> QED BY <1>3, <1>4 DEF Max

\* The table of the fold of G over the parts of 1 .. n.
Folds(h, n, base, G) ==
    h = [s \in SUBSET (1 .. n) |-> IF s = {} THEN base ELSE G[<<h[s \ {Max(s)}], Max(s)>>]]

\* There is one whose values stay in A.
LEMMA FoldTable ==
    ASSUME NEW n \in Nat, NEW A, NEW base \in A, NEW G \in [A \X (1 .. n) -> A]
    PROVE  \E h \in [SUBSET (1 .. n) -> A] : Folds(h, n, base, G)
<1> DEFINE S == 1 .. n
           Value(s, h) == IF s = {} THEN base ELSE G[<<h[s \ {Max(s)}], Max(s)>>]
           Upto(k) == \E h \in [SUBSET S -> A] :
                         \A s \in SUBSET S : Cardinality(s) <= k => h[s] = Value(s, h)
           P == {k \in Nat : Upto(k)}
<1>0. IsFiniteSet(S) /\ Cardinality(S) \in Nat
  BY FS_Interval, FS_CardinalityType
<1>1. \A s \in SUBSET S : IsFiniteSet(s) /\ Cardinality(s) \in Nat
  BY <1>0, FS_Subset, FS_CardinalityType
<1>2. \A s \in SUBSET S : s # {} => Max(s) \in s /\ s \ {Max(s)} \in SUBSET S
  BY MaxIn
<1>3. 0 \in P
  <2>1. \A s \in SUBSET S : Cardinality(s) <= 0 => s = {}
    BY <1>1, FS_EmptySet
  <2> DEFINE h == [s \in SUBSET S |-> base]
  <2>2. h \in [SUBSET S -> A] /\ \A s \in SUBSET S : Cardinality(s) <= 0 => h[s] = Value(s, h)
    BY <2>1
  <2> QED BY <2>2
<1>4. ASSUME NEW k \in Nat, k \in P PROVE k + 1 \in P
  <2>1. PICK h \in [SUBSET S -> A] :
               \A s \in SUBSET S : Cardinality(s) <= k => h[s] = Value(s, h)
    BY <1>4
  <2> DEFINE g == [s \in SUBSET S |-> Value(s, h)]
  <2>2. \A s \in SUBSET S : Value(s, h) \in A
    <3> TAKE s \in SUBSET S
    <3>1. CASE s = {}
      BY <3>1
    <3>2. CASE s # {}
      <4>1. h[s \ {Max(s)}] \in A /\ Max(s) \in 1 .. n
        BY <1>2, <3>2
      <4>2. <<h[s \ {Max(s)}], Max(s)>> \in A \X (1 .. n)
        BY <4>1
      <4>3. G[<<h[s \ {Max(s)}], Max(s)>>] \in A
        BY <4>2
      <4> QED BY <3>2, <4>3
    <3> QED BY <3>1, <3>2
  <2>3. g \in [SUBSET S -> A]
    BY <2>2
  <2>4. ASSUME NEW s \in SUBSET S, Cardinality(s) <= k + 1 PROVE g[s] = Value(s, g)
    <3>1. CASE s = {}
      BY <3>1
    <3>2. CASE s # {}
      <4>1. PICK x \in s : x = Max(s)
        BY <1>2, <3>2
      <4>2. Cardinality(s \ {x}) <= k /\ s \ {x} \in SUBSET S
        BY <1>0, <1>1, <2>4, Shrinks
      <4>3. h[s \ {x}] = Value(s \ {x}, h)
        BY <2>1, <4>2
      <4>4. g[s \ {x}] = h[s \ {x}]
        BY <4>2, <4>3
      <4>5. g[s] = G[<<h[s \ {x}], x>>]
        BY <3>2, <4>1
      <4> QED BY <3>2, <4>1, <4>4, <4>5
    <3> QED BY <3>1, <3>2
  <2> HIDE DEF g, Value
  <2>5. Upto(k + 1)
    BY <2>3, <2>4
  <2> HIDE DEF Upto
  <2> QED BY <2>5
<1> HIDE DEF P
<1>5. Cardinality(S) \in P
  BY <1>0, <1>3, <1>4, Induction
<1>6. PICK h \in [SUBSET S -> A] :
               \A s \in SUBSET S : Cardinality(s) <= Cardinality(S) => h[s] = Value(s, h)
  BY <1>5 DEF P
<1>7. \A s \in SUBSET S : h[s] = Value(s, h)
  BY <1>0, <1>6, FS_Subset
<1>8. h = [s \in SUBSET S |-> Value(s, h)]
  BY <1>7
<1>9. Folds(h, n, base, G)
  BY Zenon, <1>8 DEF Folds
<1> QED BY <1>9

\* A property of the first value that each next one keeps is one of all.
LEMMA StepsKeep ==
    ASSUME NEW n \in Nat, NEW P, 0 \in P, \A i \in 1 .. n : i - 1 \in P => i \in P
    PROVE  0 .. n \subseteq P
<1> DEFINE Q == {k \in Nat : k <= n => k \in P}
<1>1. 0 \in Q
  OBVIOUS
<1>2. ASSUME NEW k \in Nat, k \in Q PROVE k + 1 \in Q
  <2>1. k + 1 <= n => k + 1 \in 1 .. n /\ (k + 1) - 1 = k
    OBVIOUS
  <2> QED BY <1>2, <2>1
<1> HIDE DEF Q
<1>3. Nat \subseteq Q
  BY <1>1, <1>2, Induction
<1> QED BY <1>3 DEF Q

\* The values of a fold one after the other, from base to end.
Run(f, n, A, base, G, end) ==
    /\ f \in [0 .. n -> A] /\ f[0] = base /\ f[n] = end
    /\ \A i \in 1 .. n : f[i - 1] \in A /\ f[i] = G[<<f[i - 1], i>>]

LEMMA FoldRun ==
    ASSUME NEW n \in Nat, NEW A, NEW base \in A, NEW G \in [A \X (1 .. n) -> A], NEW T,
           T[{}] = base,
           \A i \in 1 .. n : T[(1 .. i) \ {i}] \in A => T[1 .. i] = G[<<T[(1 .. i) \ {i}], i>>]
    PROVE  \E f : Run(f, n, A, base, G, T[1 .. n])
<1> DEFINE P == {i \in 0 .. n : T[1 .. i] \in A}
           f == [i \in 0 .. n |-> T[1 .. i]]
<1>1. T[1 .. 0] = base
  <2>1. 1 .. 0 = {}
    OBVIOUS
  <2> QED BY Zenon, <2>1
<1>2. \A i \in 1 .. n : (1 .. i) \ {i} = 1 .. i - 1 /\ i - 1 \in 0 .. n /\ i \in 0 .. n
  OBVIOUS
<1>3. \A i \in 1 .. n : T[1 .. i - 1] \in A => T[1 .. i] = G[<<T[1 .. i - 1], i>>]
  BY <1>2
<1>4. 0 \in P
  BY <1>1
<1>5. ASSUME NEW i \in 1 .. n, i - 1 \in P PROVE i \in P
  <2>1. PICK u \in A : u = T[1 .. i - 1]
    BY <1>5
  <2>2. T[1 .. i] = G[<<u, i>>]
    BY <1>3, <2>1
  <2>3. T[1 .. i] \in A
    BY <2>2
  <2> QED BY <1>2, <2>3
<1>6. 0 .. n \subseteq P
  <2> HIDE DEF P
  <2> QED BY <1>4, <1>5, StepsKeep
<1>7. \A i \in 0 .. n : T[1 .. i] \in A
  BY <1>6
<1>8. f \in [0 .. n -> A] /\ \A i \in 0 .. n : f[i] = T[1 .. i]
  BY <1>7
<1> HIDE DEF f, P
<1>9. \A i \in 1 .. n : f[i - 1] \in A /\ f[i] = G[<<f[i - 1], i>>]
  BY <1>2, <1>3, <1>7, <1>8
<1>10. 0 \in 0 .. n /\ n \in 0 .. n
  OBVIOUS
<1>11. f[0] = base /\ f[n] = T[1 .. n]
  BY <1>1, <1>8, <1>10
<1>12. Run(f, n, A, base, G, T[1 .. n])
  BY <1>8, <1>9, <1>11 DEF Run
<1> QED BY <1>12

=============================================================================
