----------------------------- MODULE ReportProofs -----------------------------
(***************************************************************************)
(* What the reports are computed from: sums over finite sets, rows kept in *)
(* their order, tallies by a column, and the detail table. Of each, what   *)
(* holds for findings of any number and costs: a tally adds up to the sum  *)
(* of its rows, a document to the total of its scan, and the table shows   *)
(* the costliest finding of every check it has room for.                   *)
(***************************************************************************)
EXTENDS Reports, FiniteSetTheorems, SequenceTheorems, WellFoundedInduction, TLAPS

(***************************************************************************)
(* Finite sets: what holds of the empty set and of a set with one more     *)
(* element holds of all. (The library's induction takes an operator; here  *)
(* the subsets it holds of are a set.)                                     *)
(***************************************************************************)
LEMMA SetInduction ==
  ASSUME NEW S, NEW P, IsFiniteSet(S),
         {} \in P,
         \A T \in SUBSET S, x \in S : T \in P => T \cup {x} \in P
  PROVE  \A T \in SUBSET S : T \in P
<1>1. SUFFICES ASSUME NEW T0 \in SUBSET S, T0 \notin P PROVE FALSE
  OBVIOUS
<1> DEFINE R == StrictSubsetOrdering(S)
           Bad == {T \in SUBSET S : T \notin P}
<1>2. IsWellFoundedOn(R, SUBSET S)
  BY FS_StrictSubsetOrderingWellFounded, FS_FiniteSubsetsOfFinite
<1>3. Bad # {} /\ Bad \subseteq SUBSET S
  BY <1>1
<1>4. PICK T \in Bad : \A U \in Bad : ~ (<<U, T>> \in R)
  <2> HIDE DEF R, Bad
  <2> QED BY <1>2, <1>3, WFMin
<1>5. PICK x \in T : TRUE
  BY <1>4
<1>6. <<T \ {x}, T>> \in R
  BY <1>4, <1>5 DEF StrictSubsetOrdering
<1>7. T \ {x} \in P
  BY <1>4, <1>6
<1>8. (T \ {x}) \cup {x} = T
  BY <1>5
<1> QED
  BY <1>4, <1>5, <1>7, <1>8

\* Of subsets of a finite set there is always one that has no other within.
LEMMA Smallest ==
  ASSUME NEW S, NEW Bad, IsFiniteSet(S), Bad \subseteq SUBSET S, Bad # {}
  PROVE  \E T \in Bad : \A U \in Bad : U \subseteq T => U = T
<1>1. IsWellFoundedOn(StrictSubsetOrdering(S), SUBSET S)
  BY FS_StrictSubsetOrderingWellFounded, FS_FiniteSubsetsOfFinite
<1>2. PICK T \in Bad : \A U \in Bad : ~ (<<U, T>> \in StrictSubsetOrdering(S))
  BY <1>1, WFMin
<1> QED
  BY <1>2 DEF StrictSubsetOrdering

\* What holds of 0, and of n + 1 when of n, holds of every number.
LEMMA NatSetInduction ==
  ASSUME NEW T, 0 \in T, \A n \in Nat : n \in T => n + 1 \in T
  PROVE  \A n \in Nat : n \in T
<1>1. SUFFICES ASSUME NEW n0 \in Nat, n0 \notin T PROVE FALSE
  OBVIOUS
<1> DEFINE R == {ss \in Nat \X Nat : ss[1] < ss[2]}
           Bad == {n \in Nat : n \notin T}
<1>0. IsWellFoundedOn(R, Nat)
  BY NatLessThanWellFounded DEF OpToRel
<1>2. Bad # {} /\ Bad \subseteq Nat
  BY <1>1
<1>3. PICK m \in Bad : \A y \in Bad : ~ (<<y, m>> \in R)
  <2> HIDE DEF R, Bad
  <2> QED BY <1>0, <1>2, WFMin
<1>4. m # 0 /\ m \in Nat
  BY <1>3
<1>5. <<m - 1, m>> \in R /\ m - 1 \in Nat
  BY <1>4
<1>6. m - 1 \in T
  BY <1>3, <1>5
<1> QED
  BY <1>3, <1>4, <1>6, m = (m - 1) + 1

(***************************************************************************)
(* Sums. SumFunctionOnSet is a recursive function on subsets that takes    *)
(* the elements in whatever order CHOOSE gives; that such a function       *)
(* exists, and that the order does not matter, is shown here.              *)
(***************************************************************************)
One(s) == CHOOSE x \in s : TRUE
Recursion(f, g, D) == [s \in D |-> IF s = {} THEN 0 ELSE f[One(s)] + g[s \ {One(s)}]]
Adds(f, g, D) == g = Recursion(f, g, D)
UpTo(S, n) == {s \in SUBSET S : Cardinality(s) <= n}

\* The recursion by which the library sums has a solution on every finite set.
LEMMA AdditionExists ==
  ASSUME NEW S, NEW f, IsFiniteSet(S)
  PROVE  \E g : Adds(f, g, SUBSET S)
<1> DEFINE T == {n \in Nat : \E g : Adds(f, g, UpTo(S, n))}
<1>1. \A s \in SUBSET S : IsFiniteSet(s) /\ Cardinality(s) \in Nat
  BY FS_Subset, FS_CardinalityType
<1>2. 0 \in T
  <2>1. UpTo(S, 0) = {{}}
    BY <1>1, FS_EmptySet DEF UpTo
  <2>2. Adds(f, [s \in {{}} |-> 0], {{}})
    BY DEF Adds, Recursion
  <2> QED BY <2>1, <2>2
<1>3. \A n \in Nat : n \in T => n + 1 \in T
  <2> SUFFICES ASSUME NEW n \in Nat, n \in T PROVE n + 1 \in T
    OBVIOUS
  <2>1. PICK g : Adds(f, g, UpTo(S, n))
    OBVIOUS
  <2> DEFINE h == Recursion(f, g, UpTo(S, n + 1))
  <2>2. \A s \in UpTo(S, n + 1) : s # {} => s \ {One(s)} \in UpTo(S, n)
    <3> SUFFICES ASSUME NEW s \in UpTo(S, n + 1), s # {} PROVE s \ {One(s)} \in UpTo(S, n)
      OBVIOUS
    <3>1. One(s) \in s
      BY DEF One
    <3>2. Cardinality(s \ {One(s)}) = Cardinality(s) - 1
      BY <1>1, <3>1, FS_RemoveElement DEF UpTo
    <3> QED BY <1>1, <3>2 DEF UpTo
  <2>3. \A s \in UpTo(S, n) : h[s] = g[s]
    <3>1. UpTo(S, n) \subseteq UpTo(S, n + 1)
      BY <1>1 DEF UpTo
    <3>2. \A s \in UpTo(S, n) : g[s] = IF s = {} THEN 0 ELSE f[One(s)] + g[s \ {One(s)}]
      BY <2>1 DEF Adds, Recursion
    <3> QED BY <3>1, <3>2 DEF Recursion
  <2>4. Adds(f, h, UpTo(S, n + 1))
    BY <2>2, <2>3 DEF Adds, Recursion
  <2> QED BY <2>4
<1>4. Cardinality(S) \in T
  <2> HIDE DEF T
  <2> QED BY <1>2, <1>3, NatSetInduction, FS_CardinalityType
<1>5. UpTo(S, Cardinality(S)) = SUBSET S
  BY FS_Subset, <1>1 DEF UpTo
<1> QED
  BY <1>4, <1>5

\* It has only one solution.
LEMMA AdditionIsUnique ==
  ASSUME NEW S, NEW T, NEW f, NEW g, NEW h, IsFiniteSet(S), T \in SUBSET S,
         Adds(f, g, SUBSET S), Adds(f, h, SUBSET T)
  PROVE  \A s \in SUBSET T : g[s] = h[s]
<1> DEFINE Bad == {s \in SUBSET T : g[s] # h[s]}
<1> SUFFICES ASSUME Bad # {} PROVE FALSE
  OBVIOUS
<1>1. PICK s \in Bad : \A U \in Bad : U \subseteq s => U = s
  <2>1. Bad \subseteq SUBSET T /\ IsFiniteSet(T)
    BY FS_Subset
  <2> HIDE DEF Bad
  <2> QED BY <2>1, Smallest
<1>2. /\ g[s] = IF s = {} THEN 0 ELSE f[One(s)] + g[s \ {One(s)}]
      /\ h[s] = IF s = {} THEN 0 ELSE f[One(s)] + h[s \ {One(s)}]
  BY DEF Adds, Recursion
<1>3. s # {} => One(s) \in s
  BY DEF One
<1>4. s # {} => g[s \ {One(s)}] = h[s \ {One(s)}]
  BY <1>1, <1>3
<1> QED
  BY <1>2, <1>4

\* The sum is that solution.
LEMMA SumIsAddition ==
  ASSUME NEW S, NEW f, IsFiniteSet(S)
  PROVE  \E g : Adds(f, g, SUBSET S) /\ SumFunctionOnSet(f, S) = g[S]
<1> DEFINE iter == CHOOSE g : g = [s \in SUBSET S |-> IF s = {} THEN 0
                                 ELSE f[CHOOSE x \in s : TRUE] + g[s \ {CHOOSE x \in s : TRUE}]]
<1>1. SumFunctionOnSet(f, S) = iter[S]
  BY DEF SumFunctionOnSet, FoldFunctionOnSet, MapThenFoldSet
<1>2. \E g : g = [s \in SUBSET S |-> IF s = {} THEN 0
                    ELSE f[CHOOSE x \in s : TRUE] + g[s \ {CHOOSE x \in s : TRUE}]]
  <2>1. PICK g : Adds(f, g, SUBSET S)
    BY AdditionExists
  <2>2. g = [s \in SUBSET S |-> IF s = {} THEN 0
                ELSE f[CHOOSE x \in s : TRUE] + g[s \ {CHOOSE x \in s : TRUE}]]
    BY <2>1 DEF Adds, Recursion, One
  <2> QED BY <2>2
<1>3. iter = [s \in SUBSET S |-> IF s = {} THEN 0
                ELSE f[CHOOSE x \in s : TRUE] + iter[s \ {CHOOSE x \in s : TRUE}]]
  BY <1>2, Zenon
<1> HIDE DEF iter
<1>4. Adds(f, iter, SUBSET S)
  BY <1>3, Zenon DEF Adds, Recursion, One
<1> QED
  BY <1>1, <1>4

\* The sum of nothing is 0.
LEMMA SumOfNone ==
  ASSUME NEW f
  PROVE  SumFunctionOnSet(f, {}) = 0
BY SumIsAddition, FS_EmptySet DEF Adds, Recursion

\* By its definition a sum takes some one element out.
LEMMA SumTakesOne ==
  ASSUME NEW S, NEW f, IsFiniteSet(S), S # {}
  PROVE  SumFunctionOnSet(f, S) = f[One(S)] + SumFunctionOnSet(f, S \ {One(S)})
<1> DEFINE z == One(S)
           T == S \ {z}
<1>1. IsFiniteSet(T) /\ T \in SUBSET S
  BY FS_RemoveElement
<1>2. PICK g : Adds(f, g, SUBSET S) /\ SumFunctionOnSet(f, S) = g[S]
  BY SumIsAddition
<1>3. PICK h : Adds(f, h, SUBSET T) /\ SumFunctionOnSet(f, T) = h[T]
  BY <1>1, SumIsAddition
<1>4. g[T] = h[T]
  <2> HIDE DEF z, T
  <2>1. Adds(f, g, SUBSET S) /\ Adds(f, h, SUBSET T)
    BY <1>2, <1>3
  <2>2. \A s \in SUBSET T : g[s] = h[s]
    BY <1>1, <2>1, AdditionIsUnique
  <2> QED BY <2>2
<1>5. g[S] = f[z] + g[T]
  BY <1>2 DEF Adds, Recursion
<1> QED
  BY <1>2, <1>3, <1>4, <1>5

\* A sum of integers is an integer.
LEMMA SumIsInteger ==
  ASSUME NEW S, NEW f, IsFiniteSet(S), \A x \in S : f[x] \in Int
  PROVE  SumFunctionOnSet(f, S) \in Int
<1> DEFINE P == {s \in SUBSET S : SumFunctionOnSet(f, s) \notin Int}
<1> SUFFICES ASSUME P # {} PROVE FALSE
  OBVIOUS
<1>1. PICK s \in P : \A U \in P : U \subseteq s => U = s
  <2>1. P \subseteq SUBSET S
    OBVIOUS
  <2> HIDE DEF P
  <2> QED BY <2>1, Smallest
<1>2. s \in SUBSET S /\ SumFunctionOnSet(f, s) \notin Int
  OBVIOUS
<1>3. IsFiniteSet(s)
  BY <1>2, FS_Subset
<1>4. s # {}
  BY <1>2, SumOfNone
<1> DEFINE z == One(s)
<1>5. z \in s
  BY <1>4 DEF One
<1>6. s \ {z} \notin P
  <2> HIDE DEF z, P
  <2> QED BY <1>1, <1>5
<1>7. SumFunctionOnSet(f, s \ {z}) \in Int /\ f[z] \in Int
  BY <1>2, <1>5, <1>6
<1>8. SumFunctionOnSet(f, s) = f[z] + SumFunctionOnSet(f, s \ {z})
  BY <1>3, <1>4, SumTakesOne
<1> QED
  BY <1>2, <1>7, <1>8

\* Any element may be taken out first: the order does not matter.
LEMMA SumTakesAny ==
  ASSUME NEW S, NEW f, NEW y, IsFiniteSet(S), y \in S, \A x \in S : f[x] \in Int
  PROVE  SumFunctionOnSet(f, S) = f[y] + SumFunctionOnSet(f, S \ {y})
<1> DEFINE P == {s \in SUBSET S : \E x \in s :
                   SumFunctionOnSet(f, s) # f[x] + SumFunctionOnSet(f, s \ {x})}
<1> SUFFICES ASSUME P # {} PROVE FALSE
  OBVIOUS
<1>1. PICK s \in P : \A U \in P : U \subseteq s => U = s
  <2>1. P \subseteq SUBSET S
    OBVIOUS
  <2> HIDE DEF P
  <2> QED BY <2>1, Smallest
<1>2. PICK x \in s : SumFunctionOnSet(f, s) # f[x] + SumFunctionOnSet(f, s \ {x})
  BY <1>1
<1>3. s \in SUBSET S
  OBVIOUS
<1> DEFINE z == One(s)
<1>4. z \in s
  BY <1>2 DEF One
<1>5. \A t \in SUBSET s : IsFiniteSet(t) /\ \A v \in t : f[v] \in Int
  BY <1>3, FS_Subset
<1>6. SumFunctionOnSet(f, s) = f[z] + SumFunctionOnSet(f, s \ {z})
  BY <1>4, <1>5, SumTakesOne
<1>7. x # z
  BY <1>2, <1>6
<1> HIDE DEF z
<1>8. \A t \in SUBSET s : t # s =>
        \A v \in t : SumFunctionOnSet(f, t) = f[v] + SumFunctionOnSet(f, t \ {v})
  <2> SUFFICES ASSUME NEW t \in SUBSET s, t # s
               PROVE  t \notin P
    BY <1>3
  <2> HIDE DEF P
  <2> QED BY <1>1
<1>9. SumFunctionOnSet(f, s \ {z}) = f[x] + SumFunctionOnSet(f, (s \ {z}) \ {x})
  BY <1>4, <1>7, <1>8
<1>10. SumFunctionOnSet(f, s \ {x}) = f[z] + SumFunctionOnSet(f, (s \ {x}) \ {z})
  BY <1>4, <1>7, <1>8
<1>11. (s \ {z}) \ {x} = (s \ {x}) \ {z}
  OBVIOUS
<1>12. SumFunctionOnSet(f, (s \ {z}) \ {x}) \in Int /\ f[x] \in Int /\ f[z] \in Int
  <2>1. (s \ {z}) \ {x} \in SUBSET s
    OBVIOUS
  <2> QED BY <2>1, <1>4, <1>5, SumIsInteger
<1> DEFINE rest == SumFunctionOnSet(f, (s \ {z}) \ {x})
<1>13. SumFunctionOnSet(f, s) = f[z] + (f[x] + rest)
  BY <1>6, <1>9
<1>14. SumFunctionOnSet(f, s \ {x}) = f[z] + rest
  BY <1>10, <1>11
<1>15. rest \in Int /\ f[x] \in Int /\ f[z] \in Int
  BY <1>12
<1> HIDE DEF rest
<1>16. f[z] + (f[x] + rest) = f[x] + (f[z] + rest)
  BY <1>15
<1> QED
  BY <1>2, <1>13, <1>14, <1>16

\* One more element adds its value.
LEMMA SumAddsOne ==
  ASSUME NEW S, NEW f, NEW y, IsFiniteSet(S), y \notin S, \A x \in S \cup {y} : f[x] \in Int
  PROVE  SumFunctionOnSet(f, S \cup {y}) = f[y] + SumFunctionOnSet(f, S)
<1>1. IsFiniteSet(S \cup {y}) /\ (S \cup {y}) \ {y} = S
  BY FS_AddElement
<1> QED
  BY <1>1, SumTakesAny

\* The sum over two sets with nothing in common is that of one and the other.
LEMMA SumJoins ==
  ASSUME NEW A, NEW B, NEW f, IsFiniteSet(A), IsFiniteSet(B), A \cap B = {},
         \A x \in A \cup B : f[x] \in Int
  PROVE  SumFunctionOnSet(f, A \cup B) = SumFunctionOnSet(f, A) + SumFunctionOnSet(f, B)
<1> DEFINE P == {T \in SUBSET B : SumFunctionOnSet(f, A \cup T)
                                   = SumFunctionOnSet(f, A) + SumFunctionOnSet(f, T)}
<1>1. {} \in P
  <2>1. A \cup {} = A /\ SumFunctionOnSet(f, A) \in Int
    BY SumIsInteger
  <2> QED BY <2>1, SumOfNone
<1>2. \A T \in SUBSET B, x \in B : T \in P => T \cup {x} \in P
  <2> SUFFICES ASSUME NEW T \in SUBSET B, NEW x \in B, T \in P, x \notin T
               PROVE  T \cup {x} \in P
    <3>1. \A T \in SUBSET B, x \in B : x \in T => T \cup {x} = T
      OBVIOUS
    <3> HIDE DEF P
    <3> QED BY <3>1
  <2>1. IsFiniteSet(T) /\ IsFiniteSet(A \cup T) /\ x \notin A \cup T
    BY FS_Subset, FS_Union
  <2>2. SumFunctionOnSet(f, (A \cup T) \cup {x}) = f[x] + SumFunctionOnSet(f, A \cup T)
    BY <2>1, SumAddsOne
  <2>3. SumFunctionOnSet(f, T \cup {x}) = f[x] + SumFunctionOnSet(f, T)
    BY <2>1, SumAddsOne
  <2>4. /\ f[x] \in Int /\ SumFunctionOnSet(f, A) \in Int /\ SumFunctionOnSet(f, T) \in Int
    BY <2>1, SumIsInteger
  <2>5. SumFunctionOnSet(f, A \cup T) = SumFunctionOnSet(f, A) + SumFunctionOnSet(f, T)
    OBVIOUS
  <2>6. (A \cup T) \cup {x} = A \cup (T \cup {x})
    OBVIOUS
  <2>7. f[x] + (SumFunctionOnSet(f, A) + SumFunctionOnSet(f, T))
        = SumFunctionOnSet(f, A) + (f[x] + SumFunctionOnSet(f, T))
    BY <2>4
  <2>8. SumFunctionOnSet(f, A \cup (T \cup {x}))
        = SumFunctionOnSet(f, A) + SumFunctionOnSet(f, T \cup {x})
    BY <2>2, <2>3, <2>5, <2>6, <2>7, Zenon
  <2> QED BY <2>8
<1>3. B \in P
  <2> HIDE DEF P
  <2> QED BY <1>1, <1>2, SetInduction
<1> QED
  BY <1>3

\* Finitely many things have finitely many values.
LEMMA ImageIsFinite ==
  ASSUME NEW I, NEW c, IsFiniteSet(I)
  PROVE  IsFiniteSet({c[i] : i \in I})
<1> DEFINE V == {c[i] : i \in I}
           d == [i \in I |-> c[i]]
<1>1. d \in Surjection(I, V)
  BY DEF Surjection
<1> QED
  BY <1>1, FS_Surjection

\* The sums of the parts with each value make up the sum of the whole.
Parted(I, f, c, h, V, part) ==
  /\ \A i \in I : c[i] \in V
  /\ \A v \in V : \E i \in I : c[i] = v
  /\ \A v \in V : /\ h[v] = SumFunctionOnSet(f, part[v])
                  /\ part[v] \subseteq I /\ \A i \in I : i \in part[v] <=> c[i] = v

\* Sorted by a value and summed, and then summed over the values, nothing is lost.
LEMMA SumByValue ==
  ASSUME NEW I, NEW f, NEW c, NEW h, NEW V, NEW part,
         IsFiniteSet(I), \A i \in I : f[i] \in Int, Parted(I, f, c, h, V, part)
  PROVE  SumFunctionOnSet(h, V) = SumFunctionOnSet(f, I)
<1> DEFINE Of(W) == {i \in I : c[i] \in W}
           P == {W \in SUBSET V : SumFunctionOnSet(h, W) = SumFunctionOnSet(f, Of(W))}
<1>1. \A W : Of(W) \subseteq I /\ IsFiniteSet(Of(W)) /\ \A i \in Of(W) : f[i] \in Int
  BY FS_Subset
<1>2. \A v \in V : h[v] = SumFunctionOnSet(f, Of({v})) /\ h[v] \in Int
  <2> SUFFICES ASSUME NEW v \in V
               PROVE  h[v] = SumFunctionOnSet(f, Of({v})) /\ h[v] \in Int
    OBVIOUS
  <2> DEFINE A == Of({v})
  <2>1. part[v] = A
    BY DEF Parted
  <2>2. h[v] = SumFunctionOnSet(f, A)
    BY <2>1 DEF Parted
  <2>3. IsFiniteSet(A) /\ \A i \in A : f[i] \in Int
    BY <1>1
  <2>4. SumFunctionOnSet(f, A) \in Int
    <3> HIDE DEF A
    <3> QED BY <2>3, SumIsInteger
  <2> QED BY <2>2, <2>4
<1>3. IsFiniteSet(V)
  <2> DEFINE d == [i \in I |-> c[i]]
  <2>1. d \in Surjection(I, V)
    BY DEF Surjection, Parted
  <2> QED BY <2>1, FS_Surjection
<1>4. {} \in P
  <2>1. Of({}) = {}
    OBVIOUS
  <2> QED BY <2>1, SumOfNone
<1>5. \A W \in SUBSET V, v \in V : W \in P => W \cup {v} \in P
  <2> SUFFICES ASSUME NEW W \in SUBSET V, NEW v \in V, W \in P, v \notin W
               PROVE  W \cup {v} \in P
    <3>1. \A T \in SUBSET V, x \in V : x \in T => T \cup {x} = T
      OBVIOUS
    <3> HIDE DEF P
    <3> QED BY <3>1
  <2>1. SumFunctionOnSet(h, W \cup {v}) = h[v] + SumFunctionOnSet(h, W)
    <3>1. IsFiniteSet(W)
      BY <1>3, FS_Subset
    <3>2. \A x \in W \cup {v} : h[x] \in Int
      BY <1>2
    <3> HIDE DEF P, Of
    <3> QED BY <3>1, <3>2, SumAddsOne
  <2> DEFINE A == Of({v})
             B == Of(W)
  <2>2. Of(W \cup {v}) = A \cup B /\ A \cap B = {}
    OBVIOUS
  <2>3. SumFunctionOnSet(f, A \cup B) = SumFunctionOnSet(f, A) + SumFunctionOnSet(f, B)
    <3>1. /\ IsFiniteSet(A) /\ IsFiniteSet(B) /\ A \cap B = {}
          /\ \A i \in A \cup B : f[i] \in Int
      BY <1>1, <2>2
    <3> HIDE DEF A, B
    <3> QED BY <3>1, SumJoins
  <2>4. SumFunctionOnSet(h, W) = SumFunctionOnSet(f, B)
    OBVIOUS
  <2>5. h[v] = SumFunctionOnSet(f, A)
    BY <1>2
  <2>6. SumFunctionOnSet(h, W \cup {v}) = SumFunctionOnSet(f, Of(W \cup {v}))
    <3> HIDE DEF A, B, Of
    <3> QED BY <2>1, <2>2, <2>3, <2>4, <2>5
  <2> QED BY <2>6
<1>6. V \in P
  <2> HIDE DEF P
  <2>1. \A W \in SUBSET V : W \in P
    BY <1>3, <1>4, <1>5, SetInduction
  <2> QED BY <2>1
<1>7. Of(V) = I
  BY DEF Parted
<1> QED
  BY <1>6, <1>7

(***************************************************************************)
(* Pick keeps the chosen rows, in their order.                             *)
(***************************************************************************)
Picking(rows, chosen, u, n) ==
  u = [k \in 0 .. n |-> IF k = 0 THEN <<>>
                        ELSE IF chosen[k] THEN Append(u[k - 1], rows[k]) ELSE u[k - 1]]

\* A list can be gone through, keeping what is chosen.
LEMMA PickingExists ==
  ASSUME NEW rows, NEW chosen, NEW n \in Nat
  PROVE  \E u : Picking(rows, chosen, u, n)
<1> DEFINE T == {m \in Nat : \E u : Picking(rows, chosen, u, m)}
<1>1. 0 \in T
  <2>1. Picking(rows, chosen, [k \in 0 .. 0 |-> <<>>], 0)
    BY DEF Picking
  <2> QED BY <2>1
<1>2. \A m \in Nat : m \in T => m + 1 \in T
  <2> SUFFICES ASSUME NEW m \in Nat, m \in T PROVE m + 1 \in T
    OBVIOUS
  <2>1. PICK u : Picking(rows, chosen, u, m)
    OBVIOUS
  <2> DEFINE w == [k \in 0 .. m + 1 |-> IF k = 0 THEN <<>>
                     ELSE IF chosen[k] THEN Append(u[k - 1], rows[k]) ELSE u[k - 1]]
  <2>2. \A k \in 0 .. m : w[k] = u[k]
    <3>1. \A k \in 0 .. m : u[k] = IF k = 0 THEN <<>>
                 ELSE IF chosen[k] THEN Append(u[k - 1], rows[k]) ELSE u[k - 1]
      BY <2>1 DEF Picking
    <3>2. \A k \in 0 .. m : w[k] = IF k = 0 THEN <<>>
                 ELSE IF chosen[k] THEN Append(u[k - 1], rows[k]) ELSE u[k - 1]
      OBVIOUS
    <3> HIDE DEF w
    <3> QED BY <3>1, <3>2
  <2>3. \A k \in 0 .. m + 1 : k # 0 => k - 1 \in 0 .. m
    OBVIOUS
  <2>4. Picking(rows, chosen, w, m + 1)
    BY <2>2, <2>3 DEF Picking
  <2> QED BY <2>4
<1> HIDE DEF T
<1>3. n \in T
  BY <1>1, <1>2, NatSetInduction
<1> QED
  BY <1>3 DEF T

\* That is what Pick does.
LEMMA PickIsPicking ==
  ASSUME NEW rows, NEW chosen, Len(rows) \in Nat
  PROVE  \E u : Picking(rows, chosen, u, Len(rows)) /\ Pick(rows, chosen) = u[Len(rows)]
<1> DEFINE upto == CHOOSE u : u = [n \in 0 .. Len(rows) |->
                      IF n = 0 THEN <<>>
                      ELSE IF chosen[n] THEN Append(u[n - 1], rows[n]) ELSE u[n - 1]]
<1>1. Pick(rows, chosen) = upto[Len(rows)]
  BY DEF Pick
<1>2. \E u : u = [n \in 0 .. Len(rows) |->
                    IF n = 0 THEN <<>>
                    ELSE IF chosen[n] THEN Append(u[n - 1], rows[n]) ELSE u[n - 1]]
  <2>1. PICK u : Picking(rows, chosen, u, Len(rows))
    BY PickingExists
  <2> QED BY <2>1 DEF Picking
<1>3. upto = [n \in 0 .. Len(rows) |->
                IF n = 0 THEN <<>>
                ELSE IF chosen[n] THEN Append(upto[n - 1], rows[n]) ELSE upto[n - 1]]
  BY <1>2, Zenon
<1> HIDE DEF upto
<1> QED
  BY <1>1, <1>3 DEF Picking

\* What the first n rows come to: kept, each from a place of its own, the
\* chosen among 1 .. n.
Keeps(rows, chosen, n, kept, place) ==
  /\ place \in [1 .. Len(kept) -> {i \in 1 .. n : chosen[i]}]
  /\ \A k \in 1 .. Len(kept) : kept[k] = rows[place[k]]
  /\ \A k, l \in 1 .. Len(kept) : k < l => place[k] < place[l]
  /\ \A i \in 1 .. n : chosen[i] => \E k \in 1 .. Len(kept) : place[k] = i

\* Pick keeps the rows that are chosen, each at a later place than the one before.
LEMMA PickKeeps ==
  ASSUME NEW R, NEW rows \in Seq(R), NEW chosen
  PROVE  /\ Pick(rows, chosen) \in Seq(R)
         /\ \E place : Keeps(rows, chosen, Len(rows), Pick(rows, chosen), place)
<1>1. PICK u : Picking(rows, chosen, u, Len(rows)) /\ Pick(rows, chosen) = u[Len(rows)]
  BY PickIsPicking
<1> DEFINE T == {n \in Nat : n <= Len(rows) =>
                   u[n] \in Seq(R) /\ \E place : Keeps(rows, chosen, n, u[n], place)}
<1>2. /\ u[0] = <<>>
      /\ \A n \in Nat : n + 1 <= Len(rows) =>
           u[n + 1] = IF chosen[n + 1] THEN Append(u[n], rows[n + 1]) ELSE u[n]
  <2>1. \A k \in 0 .. Len(rows) : u[k] = IF k = 0 THEN <<>>
               ELSE IF chosen[k] THEN Append(u[k - 1], rows[k]) ELSE u[k - 1]
    BY <1>1 DEF Picking
  <2>2. \A n \in Nat : n + 1 <= Len(rows) =>
          n + 1 \in 0 .. Len(rows) /\ n + 1 # 0 /\ (n + 1) - 1 = n
    OBVIOUS
  <2>3. 0 \in 0 .. Len(rows)
    OBVIOUS
  <2> QED BY <2>1, <2>2, <2>3
<1>3. 0 \in T
  <2>1. <<>> \in Seq(R) /\ Len(<<>>) = 0
    OBVIOUS
  <2>2. Keeps(rows, chosen, 0, <<>>, [k \in 1 .. 0 |-> 0])
    BY <2>1 DEF Keeps
  <2> QED BY <1>2, <2>1, <2>2
<1>4. \A n \in Nat : n \in T => n + 1 \in T
  <2> SUFFICES ASSUME NEW n \in Nat, n \in T PROVE n + 1 \in T
    OBVIOUS
  <2> SUFFICES ASSUME n + 1 <= Len(rows)
               PROVE  /\ u[n + 1] \in Seq(R)
                      /\ \E place : Keeps(rows, chosen, n + 1, u[n + 1], place)
    OBVIOUS
  <2>1. u[n] \in Seq(R) /\ \E place : Keeps(rows, chosen, n, u[n], place)
    OBVIOUS
  <2>2. PICK place : Keeps(rows, chosen, n, u[n], place)
    BY <2>1
  <2>3. Len(u[n]) \in Nat /\ rows[n + 1] \in R
    BY <2>1
  <2>4. CASE ~ chosen[n + 1]
    <3>1. u[n + 1] = u[n]
      BY <1>2, <2>4
    <3>2. {i \in 1 .. n : chosen[i]} = {i \in 1 .. n + 1 : chosen[i]}
      BY <2>4
    <3>3. \A i \in 1 .. n + 1 : chosen[i] => i \in 1 .. n
      BY <2>4
    <3>4. Keeps(rows, chosen, n + 1, u[n], place)
      BY <2>2, <3>2, <3>3 DEF Keeps
    <3> QED BY <2>1, <3>1, <3>4
  <2>5. CASE chosen[n + 1]
    <3> DEFINE kept == Append(u[n], rows[n + 1])
               last == Len(u[n]) + 1
               to == [k \in 1 .. last |-> IF k = last THEN n + 1 ELSE place[k]]
    <3>1. u[n + 1] = kept
      BY <1>2, <2>5
    <3>2. /\ kept \in Seq(R) /\ Len(kept) = last /\ kept[last] = rows[n + 1]
          /\ \A k \in 1 .. Len(u[n]) : kept[k] = u[n][k]
      BY <2>1, <2>3
    <3>3. \A k \in 1 .. last : k # last => k \in 1 .. Len(u[n])
      BY <2>3
    <3>4. \A k \in 1 .. Len(u[n]) : place[k] \in 1 .. n /\ chosen[place[k]]
      BY <2>2 DEF Keeps
    <3>5. to \in [1 .. last -> {i \in 1 .. n + 1 : chosen[i]}]
      BY <2>5, <3>3, <3>4
    <3>6. \A k \in 1 .. last : kept[k] = rows[to[k]]
      BY <2>2, <3>2, <3>3 DEF Keeps
    <3>7. \A k, l \in 1 .. last : k < l => to[k] < to[l]
      <4> SUFFICES ASSUME NEW k \in 1 .. last, NEW l \in 1 .. last, k < l
                   PROVE  to[k] < to[l]
        OBVIOUS
      <4>1. k # last /\ k \in 1 .. Len(u[n])
        BY <2>3
      <4>2. CASE l = last
        BY <2>3, <3>4, <4>1, <4>2
      <4>3. CASE l # last
        <5>1. l \in 1 .. Len(u[n])
          BY <3>3, <4>3
        <5> QED BY <2>2, <4>1, <4>3, <5>1 DEF Keeps
      <4> QED BY <4>2, <4>3
    <3>8. \A i \in 1 .. n + 1 : chosen[i] => \E k \in 1 .. last : to[k] = i
      <4> SUFFICES ASSUME NEW i \in 1 .. n + 1, chosen[i]
                   PROVE  \E k \in 1 .. last : to[k] = i
        OBVIOUS
      <4>1. CASE i = n + 1
        <5>1. last \in 1 .. last /\ to[last] = n + 1
          BY <2>3
        <5> QED BY <4>1, <5>1
      <4>2. CASE i # n + 1
        <5>1. PICK k \in 1 .. Len(u[n]) : place[k] = i
          BY <2>2, <4>2 DEF Keeps
        <5>2. k \in 1 .. last /\ k # last
          BY <2>3
        <5> QED BY <5>1, <5>2
      <4> QED BY <4>1, <4>2
    <3> HIDE DEF kept, last, to
    <3>9. Keeps(rows, chosen, n + 1, kept, to)
      BY <3>2, <3>5, <3>6, <3>7, <3>8 DEF Keeps
    <3> QED BY <3>1, <3>2, <3>9
  <2> QED BY <2>4, <2>5
<1>5. Len(rows) \in T
  <2> HIDE DEF T
  <2> QED BY <1>3, <1>4, NatSetInduction
<1> QED
  BY <1>1, <1>5

\* Pick keeps as many as are chosen.
LEMMA PickLength ==
  ASSUME NEW R, NEW rows \in Seq(R), NEW chosen
  PROVE  /\ IsFiniteSet({i \in DOMAIN rows : chosen[i]})
         /\ Len(Pick(rows, chosen)) = Cardinality({i \in DOMAIN rows : chosen[i]})
<1> DEFINE n == Len(Pick(rows, chosen))
           places == {i \in 1 .. Len(rows) : chosen[i]}
<1>1. PICK place : Keeps(rows, chosen, Len(rows), Pick(rows, chosen), place)
  BY PickKeeps
<1>2. n \in Nat
  BY PickKeeps
<1>3. place \in Bijection(1 .. n, places)
  <2>1. place \in [1 .. n -> places] /\ \A i \in places : \E k \in 1 .. n : place[k] = i
    BY <1>1 DEF Keeps
  <2>2. ASSUME NEW k \in 1 .. n, NEW l \in 1 .. n, place[k] = place[l]
        PROVE  k = l
    <3>1. place[k] \in Nat /\ place[l] \in Nat
      BY <2>1
    <3>2. ~ (k < l) /\ ~ (l < k)
      BY <1>1, <2>2, <3>1 DEF Keeps
    <3> QED BY <1>2, <3>2
  <2> HIDE DEF n, places
  <2> QED BY <2>1, <2>2 DEF Bijection, Injection, Surjection, IsInjective
<1>4. Cardinality(places) = n /\ IsFiniteSet(places)
  <2>1. ExistsBijection(1 .. n, places)
    BY <1>3 DEF ExistsBijection
  <2> HIDE DEF n, places
  <2> QED BY <1>2, <2>1, FS_CountingElements, FS_NatBijection
<1>5. DOMAIN rows = 1 .. Len(rows)
  OBVIOUS
<1> QED
  BY <1>4, <1>5

\* Pick keeps all, if all are chosen.
LEMMA PickAll ==
  ASSUME NEW R, NEW rows \in Seq(R), NEW chosen, \A i \in DOMAIN rows : chosen[i]
  PROVE  Pick(rows, chosen) = rows
<1>1. PICK u : Picking(rows, chosen, u, Len(rows)) /\ Pick(rows, chosen) = u[Len(rows)]
  BY PickIsPicking
<1> DEFINE T == {n \in Nat : n <= Len(rows) =>
                   u[n] \in Seq(R) /\ Len(u[n]) = n /\ \A k \in 1 .. n : u[n][k] = rows[k]}
<1>2. /\ u[0] = <<>>
      /\ \A n \in Nat : n + 1 <= Len(rows) => u[n + 1] = Append(u[n], rows[n + 1])
  <2>1. \A k \in 0 .. Len(rows) : u[k] = IF k = 0 THEN <<>>
               ELSE IF chosen[k] THEN Append(u[k - 1], rows[k]) ELSE u[k - 1]
    BY <1>1 DEF Picking
  <2>2. \A n \in Nat : n + 1 <= Len(rows) =>
          /\ n + 1 \in 0 .. Len(rows) /\ n + 1 # 0 /\ (n + 1) - 1 = n
          /\ n + 1 \in DOMAIN rows
    OBVIOUS
  <2>3. 0 \in 0 .. Len(rows)
    OBVIOUS
  <2> QED BY <2>1, <2>2, <2>3
<1>3. 0 \in T
  <2>1. u[0] \in Seq(R) /\ Len(u[0]) = 0 /\ \A k \in 1 .. 0 : u[0][k] = rows[k]
    BY <1>2
  <2> QED BY <2>1
<1>4. \A n \in Nat : n \in T => n + 1 \in T
  <2> SUFFICES ASSUME NEW n \in Nat, n \in T PROVE n + 1 \in T
    OBVIOUS
  <2> SUFFICES ASSUME n + 1 <= Len(rows)
               PROVE  /\ u[n + 1] \in Seq(R) /\ Len(u[n + 1]) = n + 1
                      /\ \A k \in 1 .. n + 1 : u[n + 1][k] = rows[k]
    OBVIOUS
  <2>1. u[n] \in Seq(R) /\ Len(u[n]) = n /\ \A k \in 1 .. n : u[n][k] = rows[k]
    OBVIOUS
  <2>2. u[n + 1] = Append(u[n], rows[n + 1]) /\ rows[n + 1] \in R
    BY <1>2
  <2> QED BY <2>1, <2>2
<1>5. Len(rows) \in T
  <2> HIDE DEF T
  <2> QED BY <1>3, <1>4, NatSetInduction
<1>6. /\ u[Len(rows)] \in Seq(R) /\ Len(u[Len(rows)]) = Len(rows)
      /\ \A k \in 1 .. Len(rows) : u[Len(rows)][k] = rows[k]
  BY <1>5
<1> QED
  BY <1>1, <1>6

(***************************************************************************)
(* The figures.                                                            *)
(***************************************************************************)
Sums(tally) == SumFunction([v \in DOMAIN tally |-> tally[v].monthly_cost])
Charges(rows) == [i \in DOMAIN rows |-> Charge(rows[i])]

\* However rows are tallied, the tally adds up to the sum of them all.
LEMMA TallyAddsUp ==
  ASSUME NEW R, NEW rows \in Seq(R), NEW column, \A i \in DOMAIN rows : Charge(rows[i]) \in Int
  PROVE  Sums(Tally(rows, column)) = SumFunction(Charges(rows))
<1> DEFINE I == DOMAIN rows
           c == [i \in I |-> rows[i][column]]
           V == {rows[i][column] : i \in I}
           f == Charges(rows)
           part == [v \in V |-> {i \in I : rows[i][column] = v}]
           h == [v \in V |-> SumFunctionOnSet(f, {i \in I : rows[i][column] = v})]
<1>1. IsFiniteSet(I)
  BY FS_Interval
<1>2. \A i \in I : f[i] \in Int
  BY DEF Charges
<1>3. Parted(I, f, c, h, V, part)
  BY DEF Parted
<1>4. SumFunctionOnSet(h, V) = SumFunctionOnSet(f, I)
  <2> HIDE DEF I, c, V, f, part, h
  <2> QED BY <1>1, <1>2, <1>3, SumByValue
<1>5. h = [v \in DOMAIN Tally(rows, column) |-> Tally(rows, column)[v].monthly_cost]
  BY DEF Tally, Charges
<1>6. DOMAIN h = V /\ DOMAIN f = I
  BY DEF Charges
<1> QED
  BY <1>4, <1>5, <1>6 DEF Sums, SumFunction

\* An estimate rounded to cents is a number of cents.
LEMMA CentsAreNatural ==
  ASSUME NEW mills \in Nat
  PROVE  Cents(mills) \in Nat
<1>1. mills \div 10 \in Nat
  OBVIOUS
<1> QED
  BY <1>1 DEF Cents

\* The rows of a report.
IsRows(rows) ==
  /\ rows \in Seq(Range(rows))
  /\ \A row \in Range(rows) : "monthly_cost" \in DOMAIN row /\ row.monthly_cost \in Nat

\* A section of an answer, by any column, adds up to the cost of its rows.
LEMMA GroupAddsUp ==
  ASSUME NEW rows, IsRows(rows), NEW column
  PROVE  Monthly(rows) \in Int /\ Sums(group(rows, column)) = Monthly(rows)
<1> DEFINE f == [i \in DOMAIN rows |-> rows[i].monthly_cost]
<1>1. rows \in Seq(Range(rows)) /\ IsFiniteSet(DOMAIN rows)
  BY FS_Interval DEF IsRows
<1>2. \A i \in DOMAIN rows : Charge(rows[i]) = rows[i].monthly_cost /\ Charge(rows[i]) \in Int
  BY DEF IsRows, Range, Charge
<1>3. Charges(rows) = f
  BY <1>2 DEF Charges
<1>4. Monthly(rows) = SumFunction(f) /\ SumFunction(f) = SumFunctionOnSet(f, DOMAIN rows)
  BY DEF Monthly, Sum, SumFunction
<1>5. SumFunctionOnSet(f, DOMAIN rows) \in Int
  <2>1. \A i \in DOMAIN rows : f[i] \in Int
    BY <1>2
  <2> QED BY <1>1, <2>1, SumIsInteger
<1>6. Sums(Tally(rows, column)) = SumFunction(Charges(rows))
  BY <1>1, <1>2, TallyAddsUp
<1> QED
  BY <1>3, <1>4, <1>5, <1>6 DEF group

\* Rows that are picked are rows.
LEMMA PickedRows ==
  ASSUME NEW rows, IsRows(rows), NEW chosen
  PROVE  IsRows(Pick(rows, chosen))
<1> DEFINE kept == Pick(rows, chosen)
<1>1. kept \in Seq(Range(rows))
  BY PickKeeps DEF IsRows
<1>2. Range(kept) \subseteq Range(rows)
  BY <1>1 DEF Range
<1>3. kept \in Seq(Range(kept))
  BY <1>1 DEF Range
<1> QED
  BY <1>2, <1>3 DEF IsRows

\* A filter that asks for nothing lets everything through.
LEMMA UnfilteredIsAll ==
  ASSUME NEW rows, IsRows(rows)
  PROVE  filtered(rows, Unfiltered) = rows
<1> DEFINE chosen == [i \in DOMAIN rows |-> Matches(rows[i], Unfiltered)]
<1>1. \A i \in DOMAIN rows : chosen[i]
  BY DEF IsRows, Range, Matches, Unfiltered, Columns
<1>2. Pick(rows, chosen) = rows
  BY <1>1, PickAll DEF IsRows
<1> QED
  BY <1>2 DEF filtered, Where

(***************************************************************************)
(* What is made of the result of a scan.                                   *)
(***************************************************************************)
\* The total of a scan is that of the rows of its document, by check or not.
LEMMA ScanTotal ==
  ASSUME NEW r, IsScanResult(r), NEW caller
  PROVE  /\ IsRows(to_json(r, caller).findings)
         /\ total_monthly_cost(r) = Monthly(to_json(r, caller).findings)
         /\ Sums(Tally(r.findings, "check")) = total_monthly_cost(r)
         /\ Len(to_json(r, caller).findings) = Len(r.findings)
<1> DEFINE fs == r.findings
           rows == [i \in DOMAIN fs |-> to_dict(fs[i])]
<1>1. fs \in Seq(Range(fs)) /\ IsFiniteSet(DOMAIN fs) /\ DOMAIN fs = 1 .. Len(fs) /\ Len(fs) \in Nat
  BY FS_Interval DEF IsScanResult
<1>2. \A i \in DOMAIN fs : /\ Cents(fs[i].cost) \in Nat /\ Charge(fs[i]) = Cents(fs[i].cost)
                           /\ "monthly_cost" \in DOMAIN rows[i]
                           /\ rows[i].monthly_cost = Cents(fs[i].cost)
  BY CentsAreNatural DEF IsScanResult, Range, Charge, to_dict
<1>3. rows \in Seq(Range(rows)) /\ Len(rows) = Len(fs)
  <2>1. rows \in [1 .. Len(fs) -> Range(rows)]
    BY <1>1 DEF Range
  <2> HIDE DEF rows
  <2> QED BY <1>1, <2>1, SeqDef, LenProperties
<1>4. IsRows(rows)
  BY <1>2, <1>3 DEF IsRows, Range
<1>5. Monthly(rows) = SumFunction([i \in DOMAIN fs |-> Cents(fs[i].cost)])
  <2>1. [i \in DOMAIN rows |-> rows[i].monthly_cost] = [i \in DOMAIN fs |-> Cents(fs[i].cost)]
    BY <1>2
  <2> QED BY <2>1 DEF Monthly, Sum
<1>6. total_monthly_cost(r) = SumFunction([i \in DOMAIN fs |-> Cents(fs[i].cost)])
  BY DEF total_monthly_cost, Sum
<1>7. Charges(fs) = [i \in DOMAIN fs |-> Cents(fs[i].cost)]
  BY <1>2 DEF Charges
<1>8. Sums(Tally(fs, "check")) = SumFunction(Charges(fs))
  <2> HIDE DEF fs, rows
  <2>1. \A i \in DOMAIN fs : Charge(fs[i]) \in Int
    BY <1>2
  <2> QED BY <1>1, <2>1, TallyAddsUp
<1>9. to_json(r, caller).findings = rows
  BY DEF to_json
<1> HIDE DEF rows, fs
<1> QED
  BY <1>3, <1>4, <1>5, <1>6, <1>7, <1>8, <1>9 DEF fs

\* A filtered result is one a scan could have returned, and says as much of
\* what failed.
LEMMA HideIsScan ==
  ASSUME NEW r, IsScanResult(r), NEW min_cost
  PROVE  /\ IsScanResult(Hide(r, min_cost))
         /\ completely_failed(Hide(r, min_cost)) <=> completely_failed(r)
         /\ Hide(r, min_cost).attempted = r.attempted
         /\ r.findings = <<>> => Hide(r, min_cost) = r
         /\ Len(Hide(r, min_cost).findings) <= Len(r.findings)
<1> DEFINE fs == r.findings
           chosen == [i \in DOMAIN fs |-> fs[i].cost >= 10 * min_cost]
           kept == Pick(fs, chosen)
<1>0. fs \in Seq(Range(fs)) /\ DOMAIN fs = 1 .. Len(fs) /\ Len(fs) \in Nat
  BY DEF IsScanResult
<1>1. CASE min_cost = 0
  BY <1>0, <1>1 DEF Hide
<1>2. CASE min_cost # 0
  <2>1. Hide(r, min_cost) = [r EXCEPT !.findings = kept]
    BY <1>2 DEF Hide, Where
  <2>2. kept \in Seq(Range(fs)) /\ \E place : Keeps(fs, chosen, Len(fs), kept, place)
    BY <1>0, PickKeeps
  <2>3. PICK place : Keeps(fs, chosen, Len(fs), kept, place)
    BY <2>2
  <2>4. Len(kept) <= Len(fs)
    <3>1. /\ IsFiniteSet({i \in DOMAIN fs : chosen[i]})
          /\ Len(kept) = Cardinality({i \in DOMAIN fs : chosen[i]})
      BY <1>0, PickLength
    <3>2. Cardinality({i \in DOMAIN fs : chosen[i]}) <= Cardinality(DOMAIN fs)
      <4>1. IsFiniteSet(DOMAIN fs)
        BY <1>0, FS_Interval
      <4> HIDE DEF chosen, fs
      <4> QED BY <4>1, FS_Subset
    <3>3. Cardinality(DOMAIN fs) = Len(fs)
      BY <1>0, FS_Interval
    <3> QED BY <3>1, <3>2, <3>3
  <2> DEFINE h == [r EXCEPT !.findings = kept]
  <2>5. /\ r \in [findings : Seq(Range(fs)), attempted : Nat, errors : Nat, unavailable : Nat]
        /\ h.findings = kept /\ h.attempted = r.attempted /\ h.errors = r.errors
        /\ h.unavailable = r.unavailable
    BY DEF IsScanResult
  <2>6. kept \in Seq(Range(kept)) /\ Range(kept) \subseteq Range(fs)
        /\ DOMAIN kept = 1 .. Len(kept) /\ Len(kept) \in Nat
    <3> HIDE DEF kept
    <3> QED BY <2>2 DEF Range
  <2>7. h \in [findings : Seq(Range(kept)), attempted : Nat, errors : Nat, unavailable : Nat]
    <3> HIDE DEF kept
    <3> QED BY <2>5, <2>6
  <2>8. \A i, j \in DOMAIN kept : i < j => kept[j].cost <= kept[i].cost /\ kept[j] # kept[i]
    <3> SUFFICES ASSUME NEW i \in DOMAIN kept, NEW j \in DOMAIN kept, i < j
                 PROVE  kept[j].cost <= kept[i].cost /\ kept[j] # kept[i]
      OBVIOUS
    <3> HIDE DEF kept, chosen
    <3>1. /\ place[i] \in DOMAIN fs /\ place[j] \in DOMAIN fs /\ place[i] < place[j]
          /\ kept[i] = fs[place[i]] /\ kept[j] = fs[place[j]]
      BY <1>0, <2>3, <2>6 DEF Keeps
    <3> QED BY <3>1 DEF IsScanResult
  <2>9. completely_failed(h) <=> completely_failed(r)
    BY <2>5 DEF completely_failed
  <2>10. fs = <<>> => kept = <<>>
    <3> HIDE DEF kept
    <3> QED BY <1>0, <2>4, <2>6
  <2>11. \A f \in Range(kept) : f.cost \in Nat /\ "monthly_cost" \notin DOMAIN f
    <3> HIDE DEF kept
    <3> QED BY <2>6 DEF IsScanResult
  <2>12. IsScanResult(h)
    <3> HIDE DEF kept, h
    <3> QED BY <2>5, <2>7, <2>8, <2>9, <2>10, <2>11 DEF IsScanResult
  <2>13. fs = <<>> => h = r
    <3> HIDE DEF kept
    <3> QED BY <2>5, <2>10
  <2> HIDE DEF h, kept
  <2> QED BY <2>1, <2>4, <2>5, <2>9, <2>12, <2>13 DEF h
<1> QED
  BY <1>1, <1>2

(***************************************************************************)
(* Where each element has its place behind others, no two behind the same, *)
(* the elements are numbered by how many they are behind.                  *)
(***************************************************************************)
\* Elements of a finite order, numbered by how many come before, have the
\* numbers from 0 on, one each.
LEMMA Ranks ==
  ASSUME NEW S, IsFiniteSet(S), NEW before \in [S -> SUBSET S],
         \A i \in S : i \notin before[i],
         \A i, j \in S : i = j \/ i \in before[j] \/ j \in before[i],
         \A i, j \in S : i \in before[j] => before[i] \subseteq before[j]
  PROVE  [i \in S |-> Cardinality(before[i])] \in Bijection(S, 0 .. Cardinality(S) - 1)
<1> DEFINE rank == [i \in S |-> Cardinality(before[i])]
           N == 0 .. Cardinality(S) - 1
<1>1. Cardinality(S) \in Nat /\ IsFiniteSet(N) /\ Cardinality(N) = Cardinality(S)
  <2>1. Cardinality(S) \in Nat
    BY FS_CardinalityType
  <2>2. /\ IsFiniteSet(N)
        /\ Cardinality(N) = IF 0 > Cardinality(S) - 1 THEN 0 ELSE Cardinality(S) - 1 - 0 + 1
    BY <2>1, FS_Interval
  <2> HIDE DEF N
  <2> QED BY <2>1, <2>2
<1>2. \A i \in S : /\ IsFiniteSet(before[i]) /\ Cardinality(before[i]) \in Nat
                   /\ Cardinality(before[i]) < Cardinality(S)
  <2> SUFFICES ASSUME NEW i \in S
               PROVE  /\ IsFiniteSet(before[i]) /\ Cardinality(before[i]) \in Nat
                      /\ Cardinality(before[i]) < Cardinality(S)
    OBVIOUS
  <2>1. before[i] \in SUBSET S /\ before[i] # S
    OBVIOUS
  <2>2. IsFiniteSet(before[i]) /\ Cardinality(before[i]) <= Cardinality(S)
        /\ Cardinality(before[i]) # Cardinality(S)
    BY <2>1, FS_Subset
  <2>3. Cardinality(before[i]) \in Nat
    BY <2>2, FS_CardinalityType
  <2> QED BY <1>1, <2>2, <2>3
<1>3. rank \in [S -> N]
  BY <1>1, <1>2
<1>4. \A i, j \in S : i \in before[j] => rank[i] < rank[j]
  <2> SUFFICES ASSUME NEW i \in S, NEW j \in S, i \in before[j]
               PROVE  Cardinality(before[i]) < Cardinality(before[j])
    OBVIOUS
  <2>1. before[i] \in SUBSET before[j] /\ before[i] # before[j]
    OBVIOUS
  <2>2. /\ Cardinality(before[i]) <= Cardinality(before[j])
        /\ Cardinality(before[i]) # Cardinality(before[j])
    BY <1>2, <2>1, FS_Subset
  <2> QED BY <1>2, <2>2
<1>5. \A i, j \in S : rank[i] = rank[j] => i = j
  <2> SUFFICES ASSUME NEW i \in S, NEW j \in S, rank[i] = rank[j], i # j PROVE FALSE
    OBVIOUS
  <2>1. rank[i] \in Nat
    BY <1>2
  <2>2. rank[i] < rank[j] \/ rank[j] < rank[i]
    BY <1>4
  <2> HIDE DEF rank
  <2> QED BY <2>1, <2>2
<1> HIDE DEF rank, N
<1>6. rank \in Injection(S, N)
  BY <1>3, <1>5 DEF Injection, IsInjective
<1>7. rank \in Surjection(S, N)
  BY <1>1, <1>6, FS_Injection
<1>8. rank \in Bijection(S, N)
  BY <1>6, <1>7 DEF Bijection
<1> QED
  BY <1>8 DEF rank, N

\* Among numbers there is a smallest.
LEMMA LeastOf ==
  ASSUME NEW S, S \subseteq Nat, S # {}
  PROVE  \E m \in S : \A n \in S : m <= n
<1> DEFINE R == {ss \in Nat \X Nat : ss[1] < ss[2]}
<1>1. IsWellFoundedOn(R, Nat)
  BY NatLessThanWellFounded DEF OpToRel
<1>2. PICK m \in S : \A n \in S : ~ (<<n, m>> \in R)
  <2> HIDE DEF R
  <2> QED BY <1>1, WFMin
<1>3. \A n \in S : m <= n
  <2> SUFFICES ASSUME NEW n \in S, n < m PROVE FALSE
    OBVIOUS
  <2>1. <<n, m>> \in R
    OBVIOUS
  <2> QED BY <1>2, <2>1
<1> QED
  BY <1>3

\* The places of a list.
LEMMA PlacesOf ==
  ASSUME NEW R, NEW rows \in Seq(R)
  PROVE  /\ DOMAIN rows = 1 .. Len(rows) /\ Len(rows) \in Nat
         /\ IsFiniteSet(DOMAIN rows) /\ Cardinality(DOMAIN rows) = Len(rows)
<1>1. DOMAIN rows = 1 .. Len(rows) /\ Len(rows) \in Nat
  OBVIOUS
<1> QED
  BY <1>1, FS_Interval

\* The smaller of two numbers.
LEMMA SmallerOfTwo ==
  ASSUME NEW a \in Int, NEW b \in Int, a <= b
  PROVE  Min({a, b}) = a /\ Min({b, a}) = a
<1>1. \A x \in {a, b} : (\A y \in {a, b} : x <= y) => x = a
  OBVIOUS
<1>2. a \in {a, b} /\ \A y \in {a, b} : a <= y
  OBVIOUS
<1>3. {b, a} = {a, b}
  OBVIOUS
<1> QED
  BY <1>1, <1>2, <1>3 DEF Min

\* A bijection, in the facts the proofs below use.
LEMMA OneToOne ==
  ASSUME NEW S, NEW T, NEW f
  PROVE  f \in Bijection(S, T) <=>
           /\ f \in [S -> T]
           /\ \A a, b \in S : f[a] = f[b] => a = b
           /\ \A t \in T : \E s \in S : f[s] = t
BY DEF Bijection, Injection, Surjection, IsInjective

(***************************************************************************)
(* The detail table. The findings are ranked by how many are put ahead of  *)
(* them: the best of each check, then the costliest of the rest.           *)
(***************************************************************************)
Best(fs) == {i \in DOMAIN fs : \A j \in 1 .. i - 1 : fs[j].check # fs[i].check}
Ahead(fs) ==
  [i \in DOMAIN fs |-> IF i \in Best(fs) THEN {j \in Best(fs) : j < i}
                       ELSE Best(fs) \cup {j \in DOMAIN fs : j < i}]
Rank(fs) == [i \in DOMAIN fs |-> Cardinality(Ahead(fs)[i])]
Picked(fs, limit) == {i \in DOMAIN fs : Rank(fs)[i] < limit}

\* The findings are ranked from 0 on, one of each rank.
LEMMA RankNumbers ==
  ASSUME NEW R, NEW fs \in Seq(R)
  PROVE  Rank(fs) \in Bijection(DOMAIN fs, 0 .. Len(fs) - 1)
<1> DEFINE D == DOMAIN fs
           front == Ahead(fs)
<1>1. D = 1 .. Len(fs) /\ Len(fs) \in Nat /\ Best(fs) \subseteq D
  BY DEF Best
<1>2. IsFiniteSet(D) /\ Cardinality(D) = Len(fs)
  BY PlacesOf
<1>3. \A i, j \in D : j \in front[i] <=>
        IF i \in Best(fs) THEN j \in Best(fs) /\ j < i ELSE j \in Best(fs) \/ j < i
  BY DEF Ahead
<1>4. front \in [D -> SUBSET D]
  <2>1. \A i \in D : front[i] \subseteq D
    BY <1>1 DEF Ahead
  <2> QED BY <2>1 DEF Ahead
<1>9. D \subseteq Int
  BY <1>1
<1> HIDE DEF front, D
<1>5. \A i \in D : i \notin front[i]
  BY <1>9, <1>3
<1>6. \A i, j \in D : i = j \/ i \in front[j] \/ j \in front[i]
  BY <1>9, <1>3
<1>7. \A i, j \in D : i \in front[j] => front[i] \subseteq front[j]
  <2> SUFFICES ASSUME NEW i \in D, NEW j \in D, NEW k \in D, i \in front[j], k \in front[i]
               PROVE  k \in front[j]
    BY <1>4
  <2>1. i \in Int /\ j \in Int /\ k \in Int
    BY <1>9
  <2> QED BY <1>3, <2>1
<1>8. [i \in D |-> Cardinality(front[i])] \in Bijection(D, 0 .. Cardinality(D) - 1)
  BY <1>2, <1>4, <1>5, <1>6, <1>7, Ranks
<1> QED
  BY <1>2, <1>8 DEF Rank, front, D

\* Those picked are numbered from 0 on in the order of the report.
LEMMA PickedNumbers ==
  ASSUME NEW R, NEW fs \in Seq(R), NEW limit \in Int, 0 < limit, limit < Len(fs)
  PROVE  LET S == Picked(fs, limit)
         IN [i \in S |-> Cardinality({j \in S : j < i})] \in Bijection(S, 0 .. limit - 1)
<1> DEFINE D == DOMAIN fs
           S == Picked(fs, limit)
           N == 0 .. limit - 1
           r == [i \in S |-> Rank(fs)[i]]
           before == [i \in S |-> {j \in S : j < i}]
<1>1. D = 1 .. Len(fs) /\ Len(fs) \in Nat /\ S \subseteq D /\ S \in SUBSET D /\ IsFiniteSet(D)
  BY FS_Interval DEF Picked
<1>2. /\ Rank(fs) \in [D -> 0 .. Len(fs) - 1]
      /\ \A i, j \in D : Rank(fs)[i] = Rank(fs)[j] => i = j
      /\ \A k \in 0 .. Len(fs) - 1 : \E i \in D : Rank(fs)[i] = k
  <2> DEFINE all == 0 .. Len(fs) - 1
             rank == Rank(fs)
  <2>1. rank \in Bijection(D, all)
    BY RankNumbers
  <2> HIDE DEF D, all, rank
  <2>2. /\ rank \in [D -> all] /\ \A i, j \in D : rank[i] = rank[j] => i = j
        /\ \A k \in all : \E i \in D : rank[i] = k
    BY <2>1, OneToOne
  <2> QED BY <2>2 DEF all, rank
<1>3. r \in Bijection(S, N)
  <2>1. r \in [S -> N]
    BY <1>1, <1>2 DEF Picked
  <2>2. \A i, j \in S : r[i] = r[j] => i = j
    BY <1>1, <1>2
  <2>3. \A k \in N : \E i \in S : r[i] = k
    <3> SUFFICES ASSUME NEW k \in N PROVE \E i \in S : r[i] = k
      OBVIOUS
    <3>1. k \in 0 .. Len(fs) - 1 /\ k < limit
      BY <1>1
    <3>2. PICK i \in D : Rank(fs)[i] = k
      BY <1>2, <3>1
    <3> QED BY <3>1, <3>2 DEF Picked
  <2> HIDE DEF r, S, N
  <2> QED BY <2>1, <2>2, <2>3, OneToOne
<1>4. IsFiniteSet(S) /\ Cardinality(S) = limit
  <2>1. IsFiniteSet(S)
    <3> HIDE DEF S, D
    <3> QED BY <1>1, FS_Subset
  <2>2. Cardinality(N) = limit
    BY FS_Interval
  <2>3. ExistsBijection(S, N)
    BY <1>3 DEF ExistsBijection
  <2> HIDE DEF S, N
  <2>4. Cardinality(N) = Cardinality(S)
    BY <2>1, <2>3, FS_Bijection
  <2> QED BY <2>1, <2>2, <2>4
<1>5. before \in [S -> SUBSET S] /\ \A i \in S : before[i] = {j \in S : j < i}
  OBVIOUS
<1>6. /\ \A i \in S : i \notin before[i]
      /\ \A i, j \in S : i = j \/ i \in before[j] \/ j \in before[i]
      /\ \A i, j \in S : i \in before[j] => before[i] \subseteq before[j]
  <2> HIDE DEF before, S
  <2> QED BY <1>1, <1>5
<1>7. [i \in S |-> Cardinality(before[i])] \in Bijection(S, 0 .. Cardinality(S) - 1)
  <2> HIDE DEF before, S
  <2> QED BY <1>4, <1>5, <1>6, Ranks
<1>8. [i \in S |-> Cardinality(before[i])] = [i \in S |-> Cardinality({j \in S : j < i})]
  BY <1>5
<1> QED
  BY <1>4, <1>7, <1>8

\* The rows of the table are the findings picked, each in one row.
LEMMA RowsArePicked ==
  ASSUME NEW R, NEW fs \in Seq(R), NEW limit \in Int, 0 < limit, limit < Len(fs)
  PROVE  \E place \in Bijection(1 .. limit, Picked(fs, limit)) :
           /\ representative(fs, limit) \in Seq(R)
           /\ Len(representative(fs, limit)) = limit
           /\ \A k \in 1 .. limit : representative(fs, limit)[k] = fs[place[k]]
<1> DEFINE S == Picked(fs, limit)
           pos == [i \in S |-> Cardinality({j \in S : j < i})]
           place == [k \in 1 .. limit |->
                       CHOOSE i \in S : Cardinality({j \in S : j < i}) = k - 1]
           rows == representative(fs, limit)
<1>1. /\ pos \in [S -> 0 .. limit - 1]
      /\ \A i, j \in S : pos[i] = pos[j] => i = j
      /\ \A k \in 0 .. limit - 1 : \E i \in S : pos[i] = k
  <2>1. pos \in Bijection(S, 0 .. limit - 1)
    BY PickedNumbers
  <2> HIDE DEF pos, S
  <2> DEFINE N == 0 .. limit - 1
  <2>2. pos \in Bijection(S, N)
    BY <2>1
  <2> HIDE DEF N
  <2>3. /\ pos \in [S -> N] /\ \A i, j \in S : pos[i] = pos[j] => i = j
        /\ \A k \in N : \E i \in S : pos[i] = k
    BY <2>2, OneToOne
  <2> QED BY <2>3 DEF N
<1>2. \A k \in 1 .. limit : place[k] \in S /\ pos[place[k]] = k - 1
  <2> SUFFICES ASSUME NEW k \in 1 .. limit PROVE place[k] \in S /\ pos[place[k]] = k - 1
    OBVIOUS
  <2>1. k - 1 \in 0 .. limit - 1
    OBVIOUS
  <2>2. \E i \in S : Cardinality({j \in S : j < i}) = k - 1
    BY <1>1, <2>1
  <2>3. place[k] = CHOOSE i \in S : Cardinality({j \in S : j < i}) = k - 1
    OBVIOUS
  <2> HIDE DEF place, S
  <2> QED BY <2>2, <2>3
<1>3. place \in Bijection(1 .. limit, S)
  <2>1. place \in [1 .. limit -> S]
    BY <1>2
  <2> HIDE DEF place, S, pos
  <2>2. \A k, l \in 1 .. limit : place[k] = place[l] => k = l
    BY <1>2
  <2>3. \A i \in S : \E k \in 1 .. limit : place[k] = i
    <3> SUFFICES ASSUME NEW i \in S PROVE \E k \in 1 .. limit : place[k] = i
      OBVIOUS
    <3>1. pos[i] \in 0 .. limit - 1
      BY <1>1
    <3>2. pos[i] + 1 \in 1 .. limit /\ (pos[i] + 1) - 1 = pos[i]
      BY <3>1
    <3>3. place[pos[i] + 1] \in S /\ pos[place[pos[i] + 1]] = pos[i]
      BY <1>2, <3>2
    <3> QED BY <1>1, <3>2, <3>3
  <2> QED BY <2>1, <2>2, <2>3 DEF Bijection, Injection, Surjection, IsInjective
<1>4. rows = [k \in 1 .. limit |-> fs[place[k]]]
  <2>1. S = {i \in DOMAIN fs :
               Cardinality(IF i \in Best(fs) THEN {j \in Best(fs) : j < i}
                           ELSE Best(fs) \cup {j \in DOMAIN fs : j < i}) < limit}
    BY DEF Picked, Rank, Ahead
  <2>2. ~ (limit <= 0 \/ limit >= Len(fs))
    OBVIOUS
  <2> QED BY <2>1, <2>2 DEF representative, Best
<1>5. \A k \in 1 .. limit : fs[place[k]] \in R
  <2>1. \A i \in S : fs[i] \in R
    BY DEF Picked
  <2> HIDE DEF place, S
  <2> QED BY <1>2, <2>1
<1>6. rows \in Seq(R) /\ Len(rows) = limit
  <2>1. rows \in [1 .. limit -> R]
    BY <1>4, <1>5
  <2> HIDE DEF rows
  <2> QED BY <2>1, SeqDef, LenProperties
<1> QED
  BY <1>3, <1>4, <1>6

\* Every check has its costliest finding among those picked, if there is room
\* for one of each.
LEMMA BestArePicked ==
  ASSUME NEW r, IsScanResult(r), NEW c \in {r.findings[i].check : i \in DOMAIN r.findings}
  PROVE  LET fs == r.findings
             names == {fs[i].check : i \in DOMAIN fs}
         IN \E b \in DOMAIN fs :
              /\ fs[b].check = c
              /\ \A f \in Range(fs) : f.check = c => f.cost <= fs[b].cost
              /\ Rank(fs)[b] \in Nat /\ Rank(fs)[b] < Cardinality(names)
<1> DEFINE fs == r.findings
           D == DOMAIN fs
           names == {fs[i].check : i \in D}
           best == Best(fs)
           mine == {i \in D : fs[i].check = c}
<1>1. fs \in Seq(Range(fs)) /\ D = 1 .. Len(fs) /\ Len(fs) \in Nat /\ IsFiniteSet(D)
      /\ best \in SUBSET D
  BY FS_Interval DEF IsScanResult, Best
<1>2. PICK b \in mine : \A i \in mine : b <= i
  <2>1. mine \subseteq Nat /\ mine # {}
    BY <1>1
  <2> HIDE DEF mine
  <2> QED BY <2>1, LeastOf
<1>3. b \in D /\ fs[b].check = c /\ b \in best
  BY <1>1, <1>2 DEF Best
<1>4. \A f \in Range(fs) : f.check = c => f.cost <= fs[b].cost
  <2> SUFFICES ASSUME NEW i \in D, fs[i].check = c PROVE fs[i].cost <= fs[b].cost
    BY DEF Range
  <2>1. b <= i /\ fs[b].cost \in Nat
    BY <1>2, <1>3 DEF IsScanResult, Range
  <2>2. CASE b = i
    BY <2>1, <2>2
  <2>3. CASE b < i
    BY <1>3, <2>3 DEF IsScanResult
  <2> QED BY <1>1, <2>1, <2>2, <2>3
<1>5. IsFiniteSet(best) /\ IsFiniteSet(names) /\ Cardinality(best) <= Cardinality(names)
      /\ Cardinality(names) \in Nat /\ Cardinality(best) \in Nat
  <2> DEFINE checks == [i \in D |-> fs[i].check]
             its == [i \in best |-> fs[i].check]
  <2>1. IsFiniteSet(best)
    <3> HIDE DEF best, D
    <3> QED BY <1>1, FS_Subset
  <2>2. IsFiniteSet(names)
    <3>1. names = {checks[i] : i \in D}
      OBVIOUS
    <3> HIDE DEF checks, D, names
    <3> QED BY <1>1, <3>1, ImageIsFinite
  <2>3. its \in [best -> names] /\ \A i, j \in best : its[i] = its[j] => i = j
    BY <1>1 DEF Best
  <2> HIDE DEF its, names, best
  <2>4. its \in Injection(best, names)
    BY <2>3 DEF Injection, IsInjective
  <2> QED BY <2>1, <2>2, <2>4, FS_Injection, FS_CardinalityType
<1>6. Rank(fs)[b] = Cardinality({j \in best : j < b})
  BY <1>3 DEF Rank, Ahead
<1>7. /\ IsFiniteSet({j \in best : j < b})
      /\ Cardinality({j \in best : j < b}) \in Nat
      /\ Cardinality({j \in best : j < b}) < Cardinality(best)
  <2> DEFINE part == {j \in best : j < b}
  <2>1. part \in SUBSET best /\ part # best
    BY <1>1, <1>3
  <2> HIDE DEF part, best
  <2>2. /\ IsFiniteSet(part) /\ Cardinality(part) <= Cardinality(best)
        /\ Cardinality(part) # Cardinality(best)
    BY <1>5, <2>1, FS_Subset
  <2>3. Cardinality(part) \in Nat
    BY <2>2, FS_CardinalityType
  <2>4. Cardinality(part) < Cardinality(best)
    BY <1>5, <2>2, <2>3
  <2> QED BY <2>2, <2>3, <2>4 DEF part
<1>8. Rank(fs)[b] \in Nat /\ Rank(fs)[b] < Cardinality(names)
  <2> HIDE DEF best, names
  <2> QED BY <1>5, <1>6, <1>7
<1> QED
  BY <1>3, <1>4, <1>8

\* report.representative, in full: as many rows as there is room for, none
\* twice, and the costliest of each check if there is room for each check.
LEMMA TableShowsEveryCheck ==
  ASSUME NEW r, IsScanResult(r), NEW limit \in Int
  PROVE  LET fs == r.findings
             rows == representative(fs, limit)
             names == {fs[i].check : i \in DOMAIN fs}
         IN /\ Len(rows) = IF limit <= 0 THEN Len(fs) ELSE Min({limit, Len(fs)})
            /\ IsInjective(rows) /\ Range(rows) \subseteq Range(fs)
            /\ (limit <= 0 \/ Cardinality(names) <= limit) =>
                 \A c \in names :
                   \E i \in DOMAIN rows :
                     rows[i].check = c /\ \A f \in Range(fs) : f.check = c => f.cost <= rows[i].cost
<1> DEFINE fs == r.findings
           rows == representative(fs, limit)
           names == {fs[i].check : i \in DOMAIN fs}
<1>1. fs \in Seq(Range(fs)) /\ DOMAIN fs = 1 .. Len(fs) /\ Len(fs) \in Nat
  BY DEF IsScanResult
<1>2. \A i, j \in DOMAIN fs : fs[i] = fs[j] => i = j
  <2> SUFFICES ASSUME NEW i \in DOMAIN fs, NEW j \in DOMAIN fs, i # j PROVE fs[i] # fs[j]
    OBVIOUS
  <2>1. i < j \/ j < i
    BY <1>1
  <2> QED BY <2>1 DEF IsScanResult
<1>3. \A c \in names : \E b \in DOMAIN fs :
        /\ fs[b].check = c
        /\ \A f \in Range(fs) : f.check = c => f.cost <= fs[b].cost
        /\ Rank(fs)[b] \in Nat /\ Rank(fs)[b] < Cardinality(names)
  BY BestArePicked
<1>4. CASE limit <= 0 \/ limit >= Len(fs)
  <2>1. rows = fs
    BY <1>4 DEF representative
  <2>2. limit > 0 => Min({limit, Len(fs)}) = Len(fs)
    <3> SUFFICES ASSUME limit > 0 PROVE Min({limit, Len(fs)}) = Len(fs)
      OBVIOUS
    <3>1. Len(fs) <= limit /\ Len(fs) \in Int
      BY <1>1, <1>4
    <3> HIDE DEF fs
    <3> QED BY <3>1, SmallerOfTwo
  <2>3. Len(rows) = IF limit <= 0 THEN Len(fs) ELSE Min({limit, Len(fs)})
    BY <2>1, <2>2
  <2>4. IsInjective(rows) /\ Range(rows) \subseteq Range(fs)
    BY <1>2, <2>1 DEF IsInjective
  <2> HIDE DEF fs, rows, names
  <2>5. \A c \in names : \E i \in DOMAIN rows :
          rows[i].check = c /\ \A f \in Range(fs) : f.check = c => f.cost <= rows[i].cost
    BY <1>3, <2>1
  <2> QED BY <2>3, <2>4, <2>5 DEF fs, rows, names
<1>5. CASE 0 < limit /\ limit < Len(fs)
  <2> HIDE DEF fs, rows, names
  <2>1. PICK place \in Bijection(1 .. limit, Picked(fs, limit)) :
          /\ rows \in Seq(Range(fs)) /\ Len(rows) = limit
          /\ \A k \in 1 .. limit : rows[k] = fs[place[k]]
    BY <1>1, <1>5, RowsArePicked DEF rows
  <2>2. DOMAIN rows = 1 .. limit
    BY <2>1
  <2>3. /\ \A k \in 1 .. limit : place[k] \in DOMAIN fs
        /\ \A k, l \in 1 .. limit : place[k] = place[l] => k = l
        /\ \A i \in DOMAIN fs : Rank(fs)[i] < limit => \E k \in 1 .. limit : place[k] = i
    <3> DEFINE S == Picked(fs, limit)
               K == 1 .. limit
    <3>1. S = {i \in DOMAIN fs : Rank(fs)[i] < limit}
      BY DEF Picked
    <3>2. place \in Bijection(K, S)
      OBVIOUS
    <3> HIDE DEF S, K
    <3>3. /\ place \in [K -> S] /\ \A k, l \in K : place[k] = place[l] => k = l
          /\ \A i \in S : \E k \in K : place[k] = i
      BY <3>2, OneToOne
    <3> QED BY <3>1, <3>3 DEF K
  <2>4. IsInjective(rows)
    BY <1>2, <2>1, <2>2, <2>3 DEF IsInjective
  <2>5. Range(rows) \subseteq Range(fs)
    BY <2>1, <2>2 DEF Range
  <2>6. Min({limit, Len(fs)}) = limit
    <3>1. limit <= Len(fs) /\ Len(fs) \in Int
      BY <1>1, <1>5
    <3> QED BY <3>1, SmallerOfTwo
  <2>7. ASSUME Cardinality(names) <= limit, NEW c \in names
        PROVE  \E i \in DOMAIN rows :
                 rows[i].check = c /\ \A f \in Range(fs) : f.check = c => f.cost <= rows[i].cost
    <3>1. PICK b \in DOMAIN fs :
            /\ fs[b].check = c
            /\ \A f \in Range(fs) : f.check = c => f.cost <= fs[b].cost
            /\ Rank(fs)[b] \in Nat /\ Rank(fs)[b] < Cardinality(names)
      BY <1>3
    <3>2. Cardinality(names) \in Nat
      <4> DEFINE D == DOMAIN fs
                 checks == [i \in D |-> fs[i].check]
      <4>1. IsFiniteSet(D)
        BY <1>1, PlacesOf
      <4>2. names = {checks[i] : i \in D}
        BY DEF names, fs
      <4> HIDE DEF checks, D
      <4>3. IsFiniteSet({checks[i] : i \in D})
        BY <4>1, ImageIsFinite
      <4> QED BY <4>2, <4>3, FS_CardinalityType
    <3>3. Rank(fs)[b] < limit
      BY <2>7, <3>1, <3>2
    <3>4. PICK k \in 1 .. limit : place[k] = b
      BY <2>3, <3>3
    <3> QED BY <2>1, <2>2, <3>1, <3>4
  <2>8. Len(rows) = IF limit <= 0 THEN Len(fs) ELSE Min({limit, Len(fs)})
    BY <1>5, <2>1, <2>6
  <2>9. (limit <= 0 \/ Cardinality(names) <= limit) =>
          \A c \in names : \E i \in DOMAIN rows :
            rows[i].check = c /\ \A f \in Range(fs) : f.check = c => f.cost <= rows[i].cost
    BY <1>5, <2>7
  <2> QED BY <2>4, <2>5, <2>8, <2>9 DEF fs, rows, names
<1>6. (limit <= 0 \/ limit >= Len(fs)) \/ (0 < limit /\ limit < Len(fs))
  BY <1>1
<1> HIDE DEF fs, rows, names
<1> QED
  BY <1>4, <1>5, <1>6

\* What is picked was chosen.
LEMMA PickedWasChosen ==
  ASSUME NEW R, NEW rows \in Seq(R), NEW chosen
  PROVE  /\ DOMAIN Pick(rows, chosen) = 1 .. Len(Pick(rows, chosen))
         /\ Len(Pick(rows, chosen)) \in Nat
         /\ \A k \in DOMAIN Pick(rows, chosen) :
              \E i \in DOMAIN rows : chosen[i] /\ Pick(rows, chosen)[k] = rows[i]
<1> DEFINE kept == Pick(rows, chosen)
<1>1. kept \in Seq(R) /\ \E place : Keeps(rows, chosen, Len(rows), kept, place)
  BY PickKeeps
<1>2. PICK place : Keeps(rows, chosen, Len(rows), kept, place)
  BY <1>1
<1>3. DOMAIN kept = 1 .. Len(kept) /\ Len(kept) \in Nat /\ DOMAIN rows = 1 .. Len(rows)
  BY <1>1
<1> HIDE DEF kept
<1>4. \A k \in 1 .. Len(kept) :
        place[k] \in 1 .. Len(rows) /\ chosen[place[k]] /\ kept[k] = rows[place[k]]
  BY <1>2 DEF Keeps
<1>5. \A k \in DOMAIN kept : \E i \in DOMAIN rows : chosen[i] /\ kept[k] = rows[i]
  BY <1>3, <1>4
<1> QED
  BY <1>3, <1>5 DEF kept

\* What is chosen and what is not make up the whole.
LEMMA TwoHalves ==
  ASSUME NEW R, NEW rows \in Seq(R), NEW chosen, NEW others,
         \A i \in DOMAIN rows : others[i] <=> ~ chosen[i]
  PROVE  Len(Pick(rows, chosen)) + Len(Pick(rows, others)) = Len(rows)
<1> DEFINE D == DOMAIN rows
           A == {i \in D : chosen[i]}
           B == {i \in D : others[i]}
<1>1. /\ IsFiniteSet(A) /\ IsFiniteSet(B)
      /\ Len(Pick(rows, chosen)) = Cardinality(A) /\ Len(Pick(rows, others)) = Cardinality(B)
  BY PickLength
<1>2. A \cup B = D /\ A \cap B = {}
  OBVIOUS
<1>3. Cardinality(D) = Len(rows)
  BY PlacesOf
<1> HIDE DEF A, B, D
<1>4. Cardinality(A \cup B) = Cardinality(A) + Cardinality(B) - Cardinality(A \cap B)
  BY <1>1, FS_Union
<1>5. Cardinality(A \cap B) = 0 /\ Cardinality(A) \in Nat /\ Cardinality(B) \in Nat
  BY <1>1, <1>2, FS_EmptySet, FS_CardinalityType
<1>6. Cardinality(A \cup B) = Cardinality(A) + Cardinality(B)
  BY <1>4, <1>5
<1>7. Cardinality(D) = Cardinality(A) + Cardinality(B)
  BY <1>2, <1>6
<1> QED
  BY <1>1, <1>3, <1>7
===============================================================================
