----------------------------- MODULE BankingProofs -----------------------------
(***************************************************************************)
(* Four rules of the banking commands hold for any number of clients,      *)
(* accounts, customers, amounts and events, whatever races, fails or dies: *)
(* a customer name is used once, a deposit id once per account, and        *)
(* neither a withdrawal nor the first transfer from an account takes more  *)
(* than the events before it leave there.                                  *)
(*                                                                         *)
(* The argument is the one the application rests on.  A command decides on *)
(* events that contain everything it must not repeat or overdraw; what it  *)
(* decided on is a prefix of the matching events, up to the maximum it was *)
(* told; and the log takes its event only while that maximum is still the  *)
(* last match.                                                             *)
(*                                                                         *)
(* The balances are sums over sets of events.  What their proofs need of   *)
(* sums, and of sequences that are joined, comes first.                    *)
(***************************************************************************)
EXTENDS Banking, TLAPS, SequenceTheorems, FiniteSetTheorems, WellFoundedInduction

-----------------------------------------------------------------------------
(* Numbers.                                                                *)

(* A non-empty set of numbers has a least one.                             *)
LEMMA LeastNumber ==
  ASSUME NEW T, T \subseteq Nat, T # {}
  PROVE  \E n \in T : \A m \in T : n <= m
<1> DEFINE R == OpToRel(<, Nat)
<1>1. IsWellFoundedOn(R, Nat)
  BY NatLessThanWellFounded
<1>2. \E x \in T : \A y \in T : ~ (<<y, x>> \in R)
  BY <1>1, WFMin
<1>3. \A x, y \in Nat : <<y, x>> \in R <=> y < x
  BY DEF OpToRel
<1> HIDE DEF R
<1>4. PICK n \in T : \A m \in T : ~ (<<m, n>> \in R)
  BY <1>2
<1>5. \A m \in T : ~(m < n)
  BY <1>3, <1>4
<1>6. QED
  BY <1>5

(* Induction on the numbers: a set that holds 0 and with each number the   *)
(* next one holds them all.                                                *)
LEMMA AllNumbers ==
  ASSUME NEW G, 0 \in G, \A n \in Nat : n \in G => n + 1 \in G
  PROVE  \A n \in Nat : n \in G
<1> DEFINE T == {n \in Nat : n \notin G}
<1> SUFFICES ASSUME T # {} PROVE FALSE
  OBVIOUS
<1>1. PICK n \in T : \A m \in T : n <= m
  BY LeastNumber
<1>2. n # 0 /\ n - 1 \in Nat /\ n - 1 \notin T
  BY <1>1
<1>3. QED
  BY <1>1, <1>2

-----------------------------------------------------------------------------
(* Sums over finite sets.                                                  *)

(* The equation that a sum over the subsets of a set is defined by.        *)
Sums(g, f, S) ==
  g = [s \in S |-> IF s = {} THEN 0
                   ELSE f[CHOOSE x \in s : TRUE] + g[s \ {CHOOSE x \in s : TRUE}]]

(* The subsets that have no more than n elements.                          *)
UpTo(S, n) == {s \in SUBSET S : Cardinality(s) <= n}

(* The element that the sum over a subset begins with, and what is left    *)
(* without it.                                                             *)
LEMMA SmallerSubset ==
  ASSUME NEW S, IsFiniteSet(S), NEW s \in SUBSET S, s # {}
  PROVE  LET x == CHOOSE x \in s : TRUE
         IN  x \in s /\ s \ {x} \in SUBSET S /\ Cardinality(s \ {x}) = Cardinality(s) - 1
             /\ Cardinality(s) \in Nat /\ Cardinality(s) # 0
<1>1. IsFiniteSet(s)
  BY FS_Subset
<1>2. QED
  BY <1>1, FS_RemoveElement, FS_CardinalityType, FS_EmptySet

(* A subset of a finite set without one of its elements.                   *)
LEMMA OneLess ==
  ASSUME NEW S, IsFiniteSet(S), NEW s \in SUBSET S, NEW x \in s
  PROVE  /\ IsFiniteSet(s) /\ Cardinality(s) \in Nat
         /\ s \ {x} \in SUBSET S /\ IsFiniteSet(s \ {x})
         /\ Cardinality(s \ {x}) = Cardinality(s) - 1
<1>1. IsFiniteSet(s)
  BY FS_Subset
<1>2. QED
  BY <1>1, FS_RemoveElement, FS_CardinalityType

(* The equation has a solution: one for the subsets of up to n elements    *)
(* gives one for those of up to n + 1.                                     *)
LEMMA SumsExist ==
  ASSUME NEW f, NEW S, IsFiniteSet(S)
  PROVE  \E g : Sums(g, f, SUBSET S)
<1> DEFINE G == {n \in Nat : \E g : Sums(g, f, UpTo(S, n))}
<1>1. 0 \in G
  <2> DEFINE g == [s \in UpTo(S, 0) |-> 0]
  <2>1. ASSUME NEW s \in UpTo(S, 0), s # {} PROVE FALSE
    <3>1. s \in SUBSET S /\ Cardinality(s) <= 0
      BY DEF UpTo
    <3>2. Cardinality(s) \in Nat /\ Cardinality(s) # 0
      BY <2>1, <3>1, SmallerSubset
    <3>3. QED
      BY <3>1, <3>2
  <2>2. Sums(g, f, UpTo(S, 0))
    BY <2>1 DEF Sums
  <2>3. QED
    BY <2>2
<1>2. ASSUME NEW n \in Nat, n \in G PROVE n + 1 \in G
  <2>1. PICK h : Sums(h, f, UpTo(S, n))
    BY <1>2
  <2> DEFINE g == [s \in UpTo(S, n + 1) |->
                     IF s = {} THEN 0
                     ELSE f[CHOOSE x \in s : TRUE] + h[s \ {CHOOSE x \in s : TRUE}]]
  <2>2. \A s \in UpTo(S, n) : g[s] = h[s]
    <3>1. \A s \in UpTo(S, n) : s \in UpTo(S, n + 1)
      BY FS_Subset, FS_CardinalityType DEF UpTo
    <3>2. QED
      BY <2>1, <3>1 DEF Sums
  <2>3. ASSUME NEW s \in UpTo(S, n + 1), s # {}
        PROVE  g[s \ {CHOOSE x \in s : TRUE}] = h[s \ {CHOOSE x \in s : TRUE}]
    <3> HIDE DEF g
    <3>1. s \in SUBSET S /\ Cardinality(s) <= n + 1
      BY DEF UpTo
    <3>2. s \ {CHOOSE x \in s : TRUE} \in UpTo(S, n)
      BY <2>3, <3>1, SmallerSubset DEF UpTo
    <3>3. QED
      BY <2>2, <3>2
  <2>4. Sums(g, f, UpTo(S, n + 1))
    <3> DEFINE k == [s \in UpTo(S, n + 1) |->
                       IF s = {} THEN 0
                       ELSE f[CHOOSE x \in s : TRUE] + g[s \ {CHOOSE x \in s : TRUE}]]
    <3>1. ASSUME NEW s \in UpTo(S, n + 1) PROVE g[s] = k[s]
      <4> HIDE DEF g
      <4>1. CASE s = {}
        BY <4>1 DEF g
      <4>2. CASE s # {}
        <5>1. g[s] = f[CHOOSE x \in s : TRUE] + h[s \ {CHOOSE x \in s : TRUE}]
          BY <4>2 DEF g
        <5>2. QED
          BY <2>3, <4>2, <5>1
      <4>3. QED
        BY <4>1, <4>2
    <3>2. g = k
      BY <3>1
    <3>3. QED
      BY <3>2 DEF Sums
  <2>5. QED
    BY <2>4
<1>3. Cardinality(S) \in Nat /\ UpTo(S, Cardinality(S)) = SUBSET S
  BY FS_CardinalityType, FS_Subset DEF UpTo
<1>4. Cardinality(S) \in G
  <2> HIDE DEF G
  <2>1. QED
    BY <1>1, <1>2, <1>3, AllNumbers
<1>5. QED
  BY <1>3, <1>4

(* The sum of the community modules is the value of such a solution.       *)
LEMMA SumHasSums ==
  ASSUME NEW f, NEW S, IsFiniteSet(S)
  PROVE  \E g : Sums(g, f, SUBSET S) /\ SumFunctionOnSet(f, S) = g[S]
<1>1. SumFunctionOnSet(f, S) = (CHOOSE g : Sums(g, f, SUBSET S))[S]
  BY DEF Sums, SumFunctionOnSet, FoldFunctionOnSet, MapThenFoldSet
<1>2. QED
  BY <1>1, SumsExist

(* Two solutions agree wherever both are defined.                          *)
LEMMA SumsAgree ==
  ASSUME NEW f, NEW S, NEW T, NEW g, NEW h, IsFiniteSet(S), T \in SUBSET S,
         Sums(g, f, SUBSET S), Sums(h, f, SUBSET T)
  PROVE  g[T] = h[T]
<1> DEFINE G == {n \in Nat : \A s \in SUBSET T : Cardinality(s) = n => g[s] = h[s]}
<1>0. IsFiniteSet(T)
  BY FS_Subset
<1>1. 0 \in G
  BY <1>0, SmallerSubset DEF Sums
<1>2. ASSUME NEW n \in Nat, n \in G PROVE n + 1 \in G
  <2> SUFFICES ASSUME NEW s \in SUBSET T, Cardinality(s) = n + 1 PROVE g[s] = h[s]
    OBVIOUS
  <2>1. s # {}
    BY FS_EmptySet
  <2> DEFINE x == CHOOSE x \in s : TRUE
  <2>2. s \ {x} \in SUBSET T /\ Cardinality(s \ {x}) = n
    BY <1>0, <2>1, SmallerSubset
  <2>3. g[s \ {x}] = h[s \ {x}]
    BY <1>2, <2>2
  <2>4. g[s] = f[x] + g[s \ {x}]
    BY <2>1 DEF Sums
  <2>5. h[s] = f[x] + h[s \ {x}]
    BY <2>1 DEF Sums
  <2>6. QED
    BY <2>3, <2>4, <2>5
<1>3. \A n \in Nat : n \in G
  <2> HIDE DEF G
  <2>1. QED
    BY <1>1, <1>2, AllNumbers
<1>4. Cardinality(T) \in Nat
  BY <1>0, FS_CardinalityType
<1>5. QED
  BY <1>3, <1>4

(* A sum over a non-empty set is that of its first element and the others. *)
LEMMA SumEquation ==
  ASSUME NEW f, NEW S, IsFiniteSet(S)
  PROVE  SumFunctionOnSet(f, S) =
           IF S = {} THEN 0
           ELSE LET x == CHOOSE x \in S : TRUE IN f[x] + SumFunctionOnSet(f, S \ {x})
<1> DEFINE x == CHOOSE x \in S : TRUE
           T == S \ {x}
<1>1. PICK g : Sums(g, f, SUBSET S) /\ SumFunctionOnSet(f, S) = g[S]
  BY SumHasSums
<1>2. CASE S = {}
  BY <1>1, <1>2 DEF Sums
<1>3. CASE S # {}
  <2>1. T \in SUBSET S /\ IsFiniteSet(T)
    BY FS_Subset
  <2>3. g[S] = f[x] + g[T]
    BY <1>1, <1>3 DEF Sums
  <2> HIDE DEF T
  <2>2. PICK h : Sums(h, f, SUBSET T) /\ SumFunctionOnSet(f, T) = h[T]
    BY <2>1, SumHasSums
  <2>4. g[T] = h[T]
    <3>1. Sums(g, f, SUBSET S) /\ Sums(h, f, SUBSET T)
      BY <1>1, <2>2
    <3>2. QED
      BY <2>1, <3>1, SumsAgree
  <2>5. SumFunctionOnSet(f, S) = f[x] + SumFunctionOnSet(f, T)
    BY <1>1, <2>2, <2>3, <2>4
  <2>6. QED
    BY <1>3, <2>5 DEF T
<1>4. QED
  BY <1>2, <1>3

(* Induction on the subsets of a finite set: a collection that holds {}    *)
(* and with each subset those with one element more holds the set.         *)
LEMMA AllSubsets ==
  ASSUME NEW S, IsFiniteSet(S), NEW G, {} \in G,
         \A s \in SUBSET S : \A x \in S \ s : s \in G => s \cup {x} \in G
  PROVE  S \in G
<1> DEFINE H == {n \in Nat : \A s \in SUBSET S : Cardinality(s) = n => s \in G}
<1>1. 0 \in H
  BY SmallerSubset
<1>2. ASSUME NEW n \in Nat, n \in H PROVE n + 1 \in H
  <2> SUFFICES ASSUME NEW s \in SUBSET S, Cardinality(s) = n + 1 PROVE s \in G
    OBVIOUS
  <2>1. s # {}
    BY FS_EmptySet
  <2>2. PICK x \in s : s \ {x} \in SUBSET S /\ Cardinality(s \ {x}) = n
    <3>1. PICK x : x \in s
      BY <2>1
    <3>2. s \ {x} \in SUBSET S /\ Cardinality(s \ {x}) = Cardinality(s) - 1
      BY <3>1, OneLess, Zenon
    <3>3. Cardinality(s \ {x}) = n
      BY <3>2
    <3>4. QED
      BY <3>1, <3>2, <3>3, Zenon
  <2>3. s \ {x} \in G
    BY <1>2, <2>2
  <2>4. (s \ {x}) \cup {x} \in G
    BY <2>2, <2>3
  <2>5. (s \ {x}) \cup {x} = s
    BY <2>2
  <2>6. QED
    BY <2>4, <2>5
<1>3. \A n \in Nat : n \in H
  <2> HIDE DEF H
  <2>1. QED
    BY <1>1, <1>2, AllNumbers
<1>4. QED
  BY <1>3, FS_CardinalityType

(* The empty sum.                                                          *)
LEMMA SumOfNone == ASSUME NEW f PROVE SumFunctionOnSet(f, {}) = 0
BY FS_EmptySet, SumEquation

(* A sum may be begun with any element.                                    *)
LEMMA SumFrom ==
  ASSUME NEW f, NEW S, IsFiniteSet(S), \A s \in S : f[s] \in Int
  PROVE  /\ SumFunctionOnSet(f, S) \in Int
         /\ \A x \in S : SumFunctionOnSet(f, S) = f[x] + SumFunctionOnSet(f, S \ {x})
<1> DEFINE Good(s) == /\ SumFunctionOnSet(f, s) \in Int
                      /\ \A x \in s : SumFunctionOnSet(f, s) =
                                        f[x] + SumFunctionOnSet(f, s \ {x})
           H == {n \in Nat : \A s \in SUBSET S : Cardinality(s) <= n => Good(s)}
<1>1. Good({})
  BY SumOfNone
<1>2. 0 \in H
  <2>1. \A s \in SUBSET S : Cardinality(s) <= 0 => s = {}
    BY FS_CardinalityType, FS_EmptySet, FS_Subset
  <2>2. QED
    BY <1>1, <2>1
<1>3. ASSUME NEW n \in Nat, n \in H PROVE n + 1 \in H
  <2> SUFFICES ASSUME NEW s \in SUBSET S, Cardinality(s) <= n + 1, s # {} PROVE Good(s)
    BY <1>1
  <2>1. IsFiniteSet(s)
    BY FS_Subset
  <2>2. PICK y \in s : SumFunctionOnSet(f, s) = f[y] + SumFunctionOnSet(f, s \ {y})
    BY <2>1, SumEquation
  <2>3. ASSUME NEW t \in SUBSET s, t # s PROVE Good(t)
    <3>1. /\ t \in SUBSET S /\ Cardinality(t) <= Cardinality(s) /\ Cardinality(t) # Cardinality(s)
          /\ Cardinality(t) \in Nat /\ Cardinality(s) \in Nat
      BY <2>1, <2>3, FS_Subset, FS_CardinalityType
    <3>2. Cardinality(t) <= n
      BY <3>1
    <3>3. QED
      BY <1>3, <3>1, <3>2
  <2>4. \A x \in s : Good(s \ {x})
    BY <2>3
  <2>5. \A x \in s : f[x] \in Int /\ SumFunctionOnSet(f, s \ {x}) \in Int
    BY <2>4
  <2>6. ASSUME NEW x \in s, x # y
        PROVE  SumFunctionOnSet(f, s) = f[x] + SumFunctionOnSet(f, s \ {x})
    <3> DEFINE rest == SumFunctionOnSet(f, (s \ {x}) \ {y})
               whole == SumFunctionOnSet(f, s)
               withoutX == SumFunctionOnSet(f, s \ {x})
               withoutY == SumFunctionOnSet(f, s \ {y})
    <3>1. (s \ {y}) \ {x} = (s \ {x}) \ {y}
      OBVIOUS
    <3>2. withoutY = f[x] + rest
      <4>1. withoutY = f[x] + SumFunctionOnSet(f, (s \ {y}) \ {x})
        BY <2>4, <2>6
      <4>2. QED
        BY <3>1, <4>1
    <3>3. withoutX = f[y] + rest
      BY <2>4, <2>6
    <3>4. f[x] \in Int /\ f[y] \in Int /\ withoutX \in Int /\ withoutY \in Int
      BY <2>5
    <3>5. rest \in Int
      BY <2>3
    <3>6. whole = f[y] + withoutY
      BY <2>2
    <3> HIDE DEF rest, whole, withoutX, withoutY
    <3>7. whole = f[x] + withoutX
      BY <3>2, <3>3, <3>4, <3>5, <3>6
    <3>8. QED
      BY <3>7 DEF whole, withoutX
  <2>7. SumFunctionOnSet(f, s) \in Int
    BY <2>2, <2>5
  <2>8. \A x \in s : SumFunctionOnSet(f, s) = f[x] + SumFunctionOnSet(f, s \ {x})
    BY <2>2, <2>6
  <2>9. QED
    BY <2>7, <2>8
<1>4. \A n \in Nat : n \in H
  <2> HIDE DEF H
  <2>1. QED
    BY <1>2, <1>3, AllNumbers
<1>5. Cardinality(S) \in Nat /\ Good(S)
  BY <1>4, FS_CardinalityType
<1>6. QED
  BY <1>5

(* One element more.                                                       *)
LEMMA SumWithOneMore ==
  ASSUME NEW f, NEW S, IsFiniteSet(S), NEW x, x \notin S, \A s \in S \cup {x} : f[s] \in Int
  PROVE  SumFunctionOnSet(f, S \cup {x}) = f[x] + SumFunctionOnSet(f, S)
<1> DEFINE T == S \cup {x}
<1>1. IsFiniteSet(T) /\ T \ {x} = S /\ x \in T /\ \A s \in T : f[s] \in Int
  BY FS_AddElement
<1> HIDE DEF T
<1>2. SumFunctionOnSet(f, T) = f[x] + SumFunctionOnSet(f, T \ {x})
  BY <1>1, SumFrom
<1>3. SumFunctionOnSet(f, T) = f[x] + SumFunctionOnSet(f, S)
  BY <1>1, <1>2
<1>4. QED
  BY <1>3 DEF T

(* Renaming the elements does not change a sum.                            *)
LEMMA SumRenamed ==
  ASSUME NEW f, NEW S, IsFiniteSet(S), \A s \in S : f[s] \in Int,
         NEW g, NEW b, \A s \in S : g[b[s]] = f[s],
         \A s, t \in S : b[s] = b[t] => s = t
  PROVE  SumFunctionOnSet(g, {b[s] : s \in S}) = SumFunctionOnSet(f, S)
<1> DEFINE T(s) == {b[x] : x \in s}
           G == {s \in SUBSET S : /\ IsFiniteSet(T(s))
                                  /\ SumFunctionOnSet(g, T(s)) = SumFunctionOnSet(f, s)}
<1>1. {} \in G
  <2>1. T({}) = {}
    OBVIOUS
  <2>2. QED
    BY <2>1, SumOfNone, FS_EmptySet
<1>2. ASSUME NEW s \in SUBSET S, NEW x \in S \ s, s \in G PROVE s \cup {x} \in G
  <2>1. T(s \cup {x}) = T(s) \cup {b[x]} /\ b[x] \notin T(s)
    OBVIOUS
  <2>2. IsFiniteSet(T(s)) /\ SumFunctionOnSet(g, T(s)) = SumFunctionOnSet(f, s)
    BY <1>2
  <2>3. IsFiniteSet(s)
    BY FS_Subset
  <2>4. SumFunctionOnSet(f, s \cup {x}) = f[x] + SumFunctionOnSet(f, s)
    BY <2>3, SumWithOneMore
  <2>5. \A y \in T(s) \cup {b[x]} : g[y] \in Int
    OBVIOUS
  <2>6. SumFunctionOnSet(g, T(s) \cup {b[x]}) = g[b[x]] + SumFunctionOnSet(g, T(s))
    BY <2>1, <2>2, <2>5, SumWithOneMore
  <2>7. IsFiniteSet(T(s) \cup {b[x]})
    BY <2>2, FS_AddElement
  <2>8. s \cup {x} \in SUBSET S /\ g[b[x]] = f[x]
    OBVIOUS
  <2> HIDE DEF T
  <2>9. QED
    BY <2>1, <2>2, <2>4, <2>6, <2>7, <2>8
<1>3. S \in G
  <2> HIDE DEF G
  <2>1. QED
    BY <1>1, <1>2, AllSubsets
<1>4. QED
  BY <1>3

(* The sum over two sets that share nothing.                               *)
LEMMA SumOfBoth ==
  ASSUME NEW f, NEW S, IsFiniteSet(S), NEW T, IsFiniteSet(T), S \cap T = {},
         \A s \in S \cup T : f[s] \in Int
  PROVE  SumFunctionOnSet(f, S \cup T) = SumFunctionOnSet(f, S) + SumFunctionOnSet(f, T)
<1> DEFINE G == {t \in SUBSET T : SumFunctionOnSet(f, S \cup t) =
                                    SumFunctionOnSet(f, S) + SumFunctionOnSet(f, t)}
<1>1. SumFunctionOnSet(f, S) \in Int
  BY SumFrom
<1>2. {} \in G
  <2>1. S \cup {} = S
    OBVIOUS
  <2>2. QED
    BY <1>1, <2>1, SumOfNone
<1>3. ASSUME NEW t \in SUBSET T, NEW x \in T \ t, t \in G PROVE t \cup {x} \in G
  <2> DEFINE all == SumFunctionOnSet(f, S \cup t)
             alone == SumFunctionOnSet(f, t)
             first == SumFunctionOnSet(f, S)
             grown == SumFunctionOnSet(f, t \cup {x})
             total == SumFunctionOnSet(f, S \cup (t \cup {x}))
  <2>1. IsFiniteSet(t) /\ IsFiniteSet(S \cup t) /\ x \notin S \cup t
    BY FS_Subset, FS_Union
  <2>2. total = f[x] + all
    <3>1. S \cup (t \cup {x}) = (S \cup t) \cup {x}
      OBVIOUS
    <3>2. SumFunctionOnSet(f, (S \cup t) \cup {x}) = f[x] + all
      BY <2>1, SumWithOneMore
    <3>3. QED
      BY <3>1, <3>2
  <2>3. grown = f[x] + alone
    BY <2>1, SumWithOneMore
  <2>4. alone \in Int /\ f[x] \in Int
    BY <2>1, SumFrom
  <2>5. all = first + alone /\ first \in Int
    BY <1>1, <1>3
  <2> HIDE DEF all, alone, first, grown, total
  <2>6. total = first + grown
    BY <2>2, <2>3, <2>4, <2>5
  <2>7. QED
    BY <2>6 DEF total, first, grown
<1>4. T \in G
  <2> HIDE DEF G
  <2>1. QED
    BY <1>2, <1>3, AllSubsets
<1>5. QED
  BY <1>4

(* Elements that add nothing do not count.                                 *)
LEMMA SumOfZeros ==
  ASSUME NEW f, NEW S, IsFiniteSet(S), \A s \in S : f[s] = 0
  PROVE  SumFunctionOnSet(f, S) = 0
<1> DEFINE G == {t \in SUBSET S : SumFunctionOnSet(f, t) = 0}
<1>1. {} \in G
  BY SumOfNone
<1>2. ASSUME NEW t \in SUBSET S, NEW x \in S \ t, t \in G PROVE t \cup {x} \in G
  <2>1. IsFiniteSet(t)
    BY FS_Subset
  <2>2. SumFunctionOnSet(f, t \cup {x}) = f[x] + SumFunctionOnSet(f, t)
    BY <2>1, SumWithOneMore
  <2>3. QED
    BY <1>2, <2>2
<1>3. S \in G
  <2> HIDE DEF G
  <2>1. QED
    BY <1>1, <1>2, AllSubsets
<1>4. QED
  BY <1>3

(* Elements that add nothing may be left out.                              *)
LEMMA SumOfTheRest ==
  ASSUME NEW f, NEW S, IsFiniteSet(S), NEW T \in SUBSET S,
         \A s \in T : f[s] \in Int, \A s \in S \ T : f[s] = 0
  PROVE  SumFunctionOnSet(f, S) = SumFunctionOnSet(f, T)
<1>1. IsFiniteSet(T) /\ IsFiniteSet(S \ T) /\ T \cap (S \ T) = {} /\ T \cup (S \ T) = S
  BY FS_Subset, FS_Difference
<1> DEFINE rest == S \ T
<1>2. \A s \in T \cup rest : f[s] \in Int
  OBVIOUS
<1> HIDE DEF rest
<1>3. SumFunctionOnSet(f, rest) = 0 /\ SumFunctionOnSet(f, T) \in Int
  BY <1>1, SumOfZeros, SumFrom DEF rest
<1>4. SumFunctionOnSet(f, T \cup rest) = SumFunctionOnSet(f, T) + SumFunctionOnSet(f, rest)
  BY <1>1, <1>2, SumOfBoth DEF rest
<1>5. SumFunctionOnSet(f, T \cup rest) = SumFunctionOnSet(f, T)
  BY <1>3, <1>4
<1>6. QED
  BY <1>1, <1>5 DEF rest

(* Only the values on the set matter.                                      *)
LEMMA SumOfSame ==
  ASSUME NEW f, NEW g, NEW S, IsFiniteSet(S), \A s \in S : f[s] \in Int /\ g[s] = f[s]
  PROVE  SumFunctionOnSet(g, S) = SumFunctionOnSet(f, S)
<1> DEFINE b == [s \in S |-> s]
<1>1. {b[s] : s \in S} = S /\ (\A s \in S : g[b[s]] = f[s])
      /\ (\A s, t \in S : b[s] = b[t] => s = t)
  OBVIOUS
<1> HIDE DEF b
<1>2. QED
  BY <1>1, SumRenamed

-----------------------------------------------------------------------------
(* Joined sequences.                                                       *)

(* The equation that the sequences of a sequence are joined by.            *)
Joins(f, seqs, n) ==
  f = [i \in 1..n |-> IF i = 1 THEN seqs[i] ELSE f[i - 1] \o seqs[i]]

(* A sequence of n sequences is joined in n steps.                         *)
LEMMA JoinsExist ==
  ASSUME NEW seqs, NEW n \in Nat
  PROVE  \E f : Joins(f, seqs, n)
<1> DEFINE G == {k \in Nat : \E f : Joins(f, seqs, k)}
<1>1. 0 \in G
  <2> DEFINE f == [i \in 1..0 |-> <<>>]
  <2>1. Joins(f, seqs, 0)
    BY DEF Joins
  <2>2. QED
    BY <2>1
<1>2. ASSUME NEW k \in Nat, k \in G PROVE k + 1 \in G
  <2>1. PICK h : Joins(h, seqs, k)
    BY <1>2
  <2> DEFINE f == [i \in 1..(k + 1) |-> IF i = 1 THEN seqs[i] ELSE h[i - 1] \o seqs[i]]
  <2>2. ASSUME NEW i \in 1..k PROVE f[i] = h[i]
    <3>1. h[i] = IF i = 1 THEN seqs[i] ELSE h[i - 1] \o seqs[i]
      BY <2>1, Zenon DEF Joins
    <3>2. i \in 1..(k + 1)
      OBVIOUS
    <3>3. f[i] = IF i = 1 THEN seqs[i] ELSE h[i - 1] \o seqs[i]
      BY <3>2
    <3>4. QED
      BY <3>1, <3>3
  <2> DEFINE g == [i \in 1..(k + 1) |-> IF i = 1 THEN seqs[i] ELSE f[i - 1] \o seqs[i]]
  <2>3. ASSUME NEW i \in 1..(k + 1) PROVE f[i] = g[i]
    <3>1. CASE i = 1
      BY <3>1
    <3>2. CASE i # 1
      <4>1. i - 1 \in 1..k
        BY <3>2
      <4>2. f[i - 1] = h[i - 1]
        BY <2>2, <4>1
      <4>3. f[i] = h[i - 1] \o seqs[i] /\ g[i] = f[i - 1] \o seqs[i]
        BY <3>2
      <4>4. QED
        BY <4>2, <4>3
    <3>3. QED
      BY <3>1, <3>2
  <2>4. f = g
    BY <2>3
  <2>5. Joins(f, seqs, k + 1)
    BY <2>4 DEF Joins
  <2>6. QED
    BY <2>5
<1>3. \A k \in Nat : k \in G
  <2> HIDE DEF G
  <2>1. QED
    BY <1>1, <1>2, AllNumbers
<1>4. QED
  BY <1>3

(* A flattened sequence of sequences is joined from them one by one.       *)
LEMMA FlattenedStepwise ==
  ASSUME NEW S, NEW seqs \in Seq(Seq(S))
  PROVE  \E g \in [0..Len(seqs) -> Seq(S)] :
           /\ g[0] = <<>>
           /\ \A i \in 1..Len(seqs) : g[i] = g[i - 1] \o seqs[i]
           /\ FlattenSeq(seqs) = g[Len(seqs)]
<1> DEFINE n == Len(seqs)
<1>1. n \in Nat /\ \A i \in 1..n : seqs[i] \in Seq(S)
  BY LenProperties, ElementOfSeq
<1>2. CASE n = 0
  <2>1. FlattenSeq(seqs) = <<>>
    BY <1>2, EmptySeq DEF FlattenSeq
  <2> DEFINE g == [i \in 0..n |-> <<>>]
  <2>2. g \in [0..n -> Seq(S)] /\ g[0] = <<>> /\ FlattenSeq(seqs) = g[n]
    BY <1>2, <2>1, EmptySeq
  <2>3. \A i \in 1..n : g[i] = g[i - 1] \o seqs[i]
    BY <1>2
  <2> HIDE DEF g
  <2>4. QED
    BY <2>2, <2>3
<1>3. CASE n # 0
  <2>1. PICK f : Joins(f, seqs, n) /\ FlattenSeq(seqs) = f[n]
    <3>1. FlattenSeq(seqs) = (CHOOSE f : Joins(f, seqs, n))[n]
      BY <1>3 DEF FlattenSeq, Joins
    <3>2. QED
      BY <1>1, <3>1, JoinsExist
  <2> HIDE DEF n
  <2> DEFINE g == [i \in 0..n |-> IF i = 0 THEN <<>> ELSE f[i]]
             G == {k \in Nat : k <= n => g[k] \in Seq(S)}
  <2>2. g[0] = <<>> /\ FlattenSeq(seqs) = g[n]
    BY <1>1, <1>3, <2>1
  <2>3. ASSUME NEW i \in 1..n, g[i - 1] \in Seq(S) PROVE g[i] = g[i - 1] \o seqs[i]
    <3>1. f[i] = IF i = 1 THEN seqs[i] ELSE f[i - 1] \o seqs[i]
      BY <2>1 DEF Joins
    <3>2. CASE i = 1
      <4>1. g[i] = seqs[1] /\ g[i - 1] = <<>> /\ seqs[1] \in Seq(S)
        BY <1>1, <3>1, <3>2
      <4>2. QED
        BY <3>2, <4>1, ConcatEmptySeq
    <3>3. CASE i # 1
      <4>1. i - 1 \in 0..n /\ i - 1 # 0 /\ i \in 0..n /\ i # 0
        BY <1>1, <3>3
      <4>2. g[i] = f[i] /\ g[i - 1] = f[i - 1]
        BY <4>1
      <4>3. QED
        BY <3>1, <3>3, <4>2
    <3>4. QED
      BY <3>2, <3>3
  <2>4. 0 \in G
    BY <2>2, EmptySeq
  <2>5. ASSUME NEW k \in Nat, k \in G PROVE k + 1 \in G
    <3> SUFFICES ASSUME k + 1 <= n PROVE g[k + 1] \in Seq(S)
      OBVIOUS
    <3>1. k + 1 \in 1..n /\ g[(k + 1) - 1] = g[k] /\ g[k] \in Seq(S)
      BY <1>1, <2>5
    <3>2. g[k + 1] = g[k] \o seqs[k + 1]
      BY <2>3, <3>1
    <3>3. QED
      <4>1. seqs[k + 1] \in Seq(S)
        BY <1>1, <3>1
      <4>2. g[k] \o seqs[k + 1] \in Seq(S)
        BY <3>1, <4>1, ConcatProperties
      <4> HIDE DEF g
      <4>3. QED
        BY <3>1, <3>2, <4>2
  <2>6. \A k \in Nat : k \in G
    <3> HIDE DEF G
    <3>1. QED
      BY <2>4, <2>5, AllNumbers
  <2>7. ASSUME NEW k \in 0..n PROVE g[k] \in Seq(S)
    <3>1. k \in Nat /\ k <= n
      BY <1>1
    <3>2. k \in G
      BY <2>6, <3>1
    <3> HIDE DEF g
    <3>3. QED
      BY <3>1, <3>2
  <2>8. g \in [0..n -> Seq(S)]
    BY <2>7
  <2>9. \A i \in 1..n : g[i] = g[i - 1] \o seqs[i]
    <3>1. \A i \in 1..n : i - 1 \in 0..n
      BY <1>1
    <3> HIDE DEF g
    <3>2. QED
      BY <2>3, <2>7, <3>1
  <2> HIDE DEF g
  <2>10. QED
    BY <2>2, <2>8, <2>9 DEF n
<1>4. QED
  BY <1>2, <1>3

-----------------------------------------------------------------------------
(* Nothing is repeated.                                                    *)

Log == INSTANCE EventLogProofs WITH EventType <- BankEvent

(* The later of two events that a rule forbids to stand in one log.        *)
Repeats(e, f) ==
  \/ /\ e.type = "BankAccountOpened" /\ f.type = "BankAccountOpened"
     /\ e.customerName = f.customerName
  \/ /\ e.type = "MoneyDeposited" /\ f.type = "MoneyDeposited"
     /\ e.accountId = f.accountId /\ e.id = f.id

(* Where a client can be.                                                  *)
ClientLabel == {"idle", "append", "notify", "cleared", "replay"}

(* What the rules need of the types of the state.                          *)
LogTypeOK ==
  /\ log \in Seq(EventRecord) /\ IsDense(log)
  /\ client \in [Client -> [pc : ClientLabel, event : BankEvent \cup {NoEvent},
                            known : Nat, table : Table \cup {"none"}]]

(* Whatever in the log repeats an event that is about to be appended came  *)
(* after the events its command has seen.                                  *)
Decided(c) ==
  /\ client[c].event \in BankEvent
  /\ client[c].known \in 0..Len(log)
  /\ \A i \in 1..Len(log) :
       Repeats(EventAt(i), client[c].event) => i > client[c].known

(* So it is with every command that is about to append.                    *)
DecisionsAreFresh == \A c \in Client : At(c, "append") => Decided(c)

(* And no event of the log repeats an earlier one.                         *)
NothingIsRepeated ==
  \A i, j \in 1..Len(log) : i < j => ~Repeats(EventAt(i), EventAt(j))

(* The inductive invariant of the names and the deposits.                  *)
BankInv == LogTypeOK /\ DecisionsAreFresh /\ NothingIsRepeated

-----------------------------------------------------------------------------
(* The log and its queries.                                                *)

(* The maximum of a query is a position of the log, and nothing that the   *)
(* query matches lies beyond it.                                           *)
LEMMA MaximumBounds ==
  ASSUME log \in Seq(EventRecord), IsDense(log), NEW query
  PROVE  /\ MaxSequenceNumber(log, query) \in 0..Len(log)
         /\ \A i \in 1..Len(log) :
              Matches(query, log[i]) => i <= MaxSequenceNumber(log, query)
<1>1. log \in Seq(Log!EventRecord) /\ Log!IsDense(log)
  BY DEF EventRecord, Log!EventRecord, IsDense, Log!IsDense
<1>2. /\ Log!MaxSequenceNumber(log, query) \in 0..Len(log)
      /\ \A e \in Log!MatchingEvents(log, query) :
           e.sequenceNumber <= Log!MaxSequenceNumber(log, query)
  BY <1>1, Log!MaximumBoundsMatches
<1>3. Log!MaxSequenceNumber(log, query) = MaxSequenceNumber(log, query)
  BY DEF MaxSequenceNumber, MatchingIndices, Matches, Log!MaxSequenceNumber,
         Log!MatchingIndices, Log!Matches
<1>4. ASSUME NEW i \in 1..Len(log), Matches(query, log[i])
      PROVE  log[i] \in Log!MatchingEvents(log, query)
  BY <1>4 DEF Matches, Log!Matches, Log!MatchingEvents, Log!MatchingIndices
<1>5. QED
  BY <1>2, <1>3, <1>4 DEF IsDense

(* An append adds one record at the end and leaves the others alone.       *)
LEMMA AppendOne ==
  ASSUME log \in Seq(EventRecord), IsDense(log), NEW event \in BankEvent
  PROVE  LET longer == log \o Numbered(<<event>>, Len(log))
         IN  /\ longer \in Seq(EventRecord) /\ IsDense(longer)
             /\ Len(longer) = Len(log) + 1
             /\ \A i \in 1..Len(log) : longer[i] = log[i]
             /\ longer[Len(log) + 1].eventType = event
<1> DEFINE new == Numbered(<<event>>, Len(log))
           longer == log \o new
<1>1. Len(log) \in Nat
  BY LenProperties
<1>2. /\ new \in Seq(EventRecord) /\ Len(new) = 1
      /\ new[1] = [sequenceNumber |-> Len(log) + 1, eventType |-> event]
  <2> DEFINE batch == <<event>>
  <2>1. Len(batch) = 1 /\ batch[1] = event
    OBVIOUS
  <2> HIDE DEF batch
  <2>2. \A i \in 1..Len(batch) :
          [sequenceNumber |-> Len(log) + i, eventType |-> batch[i]] \in EventRecord
    BY <1>1, <2>1 DEF EventRecord
  <2>3. /\ Numbered(batch, Len(log)) \in Seq(EventRecord)
        /\ Len(Numbered(batch, Len(log))) = Len(batch)
        /\ Numbered(batch, Len(log))[1] =
             [sequenceNumber |-> Len(log) + 1, eventType |-> batch[1]]
    BY <1>1, <2>1, <2>2 DEF Numbered
  <2>4. QED
    BY <2>1, <2>3 DEF batch
<1> HIDE DEF new
<1>3. /\ longer \in Seq(EventRecord) /\ Len(longer) = Len(log) + 1
      /\ \A i \in 1..Len(log) : longer[i] = log[i]
      /\ longer[Len(log) + 1] = new[1]
  <2>1. longer \in Seq(EventRecord)
    BY <1>2, ConcatProperties
  <2>2. Len(longer) = Len(log) + Len(new)
    BY <1>2, ConcatProperties
  <2>3. \A i \in 1..Len(log) + Len(new) :
          longer[i] = IF i <= Len(log) THEN log[i] ELSE new[i - Len(log)]
    BY <1>2, ConcatProperties
  <2> HIDE DEF longer
  <2>4. QED
    BY <1>1, <1>2, <2>1, <2>2, <2>3
<1>4. IsDense(longer)
  BY <1>1, <1>2, <1>3 DEF IsDense
<1>5. QED
  BY <1>2, <1>3, <1>4 DEF new

(* The records of the log are banking events.                              *)
LEMMA LogHoldsEvents ==
  ASSUME log \in Seq(EventRecord), IsDense(log)
  PROVE  \A i \in 1..Len(log) : EventAt(i) \in BankEvent /\ log[i].sequenceNumber = i
<1>1. \A i \in 1..Len(log) : log[i] \in EventRecord
  BY ElementOfSeq
<1>2. QED
  BY <1>1 DEF EventRecord, EventAt, IsDense

(* What a query has seen are records of the log that match it, and all of  *)
(* them.                                                                   *)
LEMMA SeenIsTheMatches ==
  ASSUME NEW query
  PROVE  /\ \A r \in Seen(query) : \E i \in 1..Len(log) : r = log[i]
         /\ \A i \in 1..Len(log) : Matches(query, log[i]) => log[i] \in Seen(query)
BY DEF Seen, MatchingEvents, MatchingIndices

-----------------------------------------------------------------------------
(* The events.                                                             *)

(* An opening with arguments in range is a banking event.                  *)
LEMMA OpenedIsEvent ==
  ASSUME NEW a \in Account, NEW n \in Customer, NEW m \in Money, NEW u \in Currency
  PROVE  Opened(a, n, m, u) \in BankEvent
BY DEF BankEvent

(* Likewise a deposit or a withdrawal.                                     *)
LEMMA OnAccountIsEvent ==
  ASSUME NEW t \in {"MoneyDeposited", "MoneyWithdrawn"}, NEW a \in Account,
         NEW m \in Money, NEW u \in Currency, NEW i \in Id
  PROVE  OnAccount(t, a, m, u, i) \in BankEvent
BY DEF BankEvent

(* And a transfer.                                                         *)
LEMMA TransferredIsEvent ==
  ASSUME NEW a \in Account, NEW b \in Account, NEW m \in Money, NEW u \in Currency,
         NEW i \in Id
  PROVE  Transferred(a, b, m, u, i) \in BankEvent
BY DEF BankEvent

(* The fields of openings and deposits.                                    *)
LEMMA EventFields ==
  ASSUME NEW e \in BankEvent
  PROVE  /\ e.type = "BankAccountOpened" => e.currency \in Currency
         /\ e.type = "MoneyDeposited" => e.accountId \in Account
<1>1. CASE \E a \in Account, n \in Customer, m \in Money, u \in Currency :
             e = Opened(a, n, m, u)
  BY <1>1 DEF Opened
<1>2. CASE \E t \in {"MoneyDeposited", "MoneyWithdrawn"}, a \in Account, m \in Money,
              u \in Currency, i \in Id : e = OnAccount(t, a, m, u, i)
  BY <1>2 DEF OnAccount
<1>3. CASE \E a \in Account, b \in Account, m \in Money, u \in Currency, i \in Id :
             e = Transferred(a, b, m, u, i)
  BY <1>3 DEF Transferred
<1>4. QED
  BY <1>1, <1>2, <1>3 DEF BankEvent

(* The query of a command matches everything its event would repeat.       *)
LEMMA ContextCoversRepetitions ==
  ASSUME NEW e \in BankEvent, NEW f \in BankEvent, Repeats(e, f),
         NEW r, r.eventType = e, r.sequenceNumber > 0
  PROVE  Matches(ContextOf(f), r)
<1>1. CASE f.type = "BankAccountOpened"
  <2>1. ContextOf(f) = OpenQuery
    BY <1>1 DEF ContextOf
  <2>2. e \in OfType({"BankAccountOpened"})
    BY <1>1 DEF Repeats, OfType
  <2>3. QED
    BY <2>1, <2>2 DEF Matches, OpenQuery, Query
<1>2. CASE f.type = "MoneyDeposited"
  <2>1. f.accountId \in Account
    BY <1>2, EventFields
  <2>2. ContextOf(f) = DepositQuery[f.accountId]
    BY <1>2 DEF ContextOf
  <2>3. e \in OfType({"BankAccountOpened", "MoneyDeposited"}) /\ e.accountId = f.accountId
    BY <1>2 DEF Repeats, OfType
  <2>4. QED
    BY <2>1, <2>2, <2>3 DEF Matches, DepositQuery, Query
<1>3. QED
  BY <1>1, <1>2 DEF Repeats

-----------------------------------------------------------------------------
(* The steps.                                                              *)

(* The currency a command falls back on is one of the bank's.              *)
LEMMA CurrencyOfOpening ==
  ASSUME LogTypeOK, NEW query, NEW a \in Account, Openings(Seen(query), a) # {},
         NEW input \in CurrencyInput
  PROVE  OrElse(input, Opening(Seen(query), a).currency) \in Currency
<1> DEFINE opening == Opening(Seen(query), a)
<1>1. opening \in Openings(Seen(query), a)
  BY DEF Opening
<1>2. PICK r \in Seen(query) : opening = r.eventType /\ opening.type = "BankAccountOpened"
  BY <1>1 DEF Openings, OfKind
<1>3. opening \in BankEvent
  BY <1>2, SeenIsTheMatches, LogHoldsEvents DEF LogTypeOK, EventAt
<1>4. opening.currency \in Currency
  BY <1>2, <1>3, EventFields
<1>5. QED
  BY <1>4 DEF OrElse, CurrencyInput

(* A decision is sound if nothing its query has seen is repeated by it.    *)
LEMMA DecideKeepsInv ==
  ASSUME BankInv, NEW c \in Client, NEW event \in BankEvent, Decide(c, event),
         \A r \in Seen(ContextOf(event)) : ~Repeats(r.eventType, event)
  PROVE  BankInv'
<1> USE DEF BankInv
<1>1. log' = log
  BY DEF Decide
<1>2. MaxSequenceNumber(log, ContextOf(event)) \in 0..Len(log) /\ Len(log) \in Nat
  BY MaximumBounds, LenProperties DEF LogTypeOK
<1> DEFINE known == MaxSequenceNumber(log, ContextOf(event))
           entry == [pc |-> "append", event |-> event, table |-> "none", known |-> known]
<1>3. client' = [client EXCEPT ![c] = entry]
  BY DEF Decide
<1> HIDE DEF known
<1>4. entry \in [pc : ClientLabel, event : BankEvent \cup {NoEvent},
                 known : Nat, table : Table \cup {"none"}]
  BY <1>2 DEF ClientLabel, known
<1>5. LogTypeOK'
  BY <1>1, <1>3, <1>4 DEF LogTypeOK, IsDense
<1>6. \A i \in 1..Len(log) : ~Repeats(EventAt(i), event)
  <2> SUFFICES ASSUME NEW i \in 1..Len(log), Repeats(EventAt(i), event) PROVE FALSE
    OBVIOUS
  <2>1. EventAt(i) \in BankEvent /\ log[i].sequenceNumber > 0
    BY <1>2, LogHoldsEvents DEF LogTypeOK
  <2>2. Matches(ContextOf(event), log[i])
    BY <2>1, ContextCoversRepetitions DEF EventAt
  <2>3. QED
    BY <2>2, SeenIsTheMatches DEF EventAt
<1>7. ASSUME NEW d \in Client, At(d, "append")' PROVE Decided(d)'
  <2>1. CASE d = c
    <3>1. client'[d].event = event /\ client'[d].known = known
      BY <1>3, <2>1 DEF LogTypeOK
    <3>2. QED
      BY <1>1, <1>2, <1>6, <3>1 DEF Decided, EventAt, known
  <2>2. CASE d # c
    <3>1. client'[d] = client[d]
      BY <1>3, <2>2 DEF LogTypeOK
    <3>2. Decided(d)
      BY <1>7, <3>1 DEF DecisionsAreFresh, At
    <3>3. QED
      BY <1>1, <3>1, <3>2 DEF Decided, EventAt
  <2>3. QED
    BY <2>1, <2>2
<1>8. NothingIsRepeated'
  BY <1>1 DEF NothingIsRepeated, EventAt
<1>9. QED
  BY <1>5, <1>7, <1>8 DEF DecisionsAreFresh

(* An event that is stored while the maximum of its query is still the one *)
(* its command was told repeats nothing.                                   *)
LEMMA StoreKeepsInv ==
  ASSUME BankInv, NEW c \in Client, At(c, "append"),
         MaxSequenceNumber(log, ContextOf(client[c].event)) = client[c].known,
         log' = log \o Numbered(<<client[c].event>>, Len(log)),
         NEW entry \in [pc : ClientLabel \ {"append"}, event : BankEvent \cup {NoEvent},
                        known : Nat, table : Table \cup {"none"}],
         client' = [client EXCEPT ![c] = entry]
  PROVE  BankInv'
<1> USE DEF BankInv
<1> DEFINE event == client[c].event
           last == Len(log) + 1
<1>1. Decided(c) /\ Len(log) \in Nat
  BY LenProperties DEF DecisionsAreFresh, LogTypeOK
<1>2. /\ log' \in Seq(EventRecord) /\ IsDense(log')
      /\ Len(log') = last
      /\ \A i \in 1..Len(log) : log'[i] = log[i]
      /\ log'[last].eventType = event
  BY <1>1, AppendOne DEF LogTypeOK, Decided
<1>3. LogTypeOK'
  BY <1>2 DEF LogTypeOK, ClientLabel, IsDense
<1>4. \A i \in 1..Len(log) : ~Repeats(EventAt(i), event)
  <2> SUFFICES ASSUME NEW i \in 1..Len(log), Repeats(EventAt(i), event) PROVE FALSE
    OBVIOUS
  <2>1. EventAt(i) \in BankEvent /\ log[i].sequenceNumber > 0
    BY <1>1, LogHoldsEvents DEF LogTypeOK
  <2>2. Matches(ContextOf(event), log[i])
    BY <1>1, <2>1, ContextCoversRepetitions DEF EventAt, Decided
  <2>3. i <= client[c].known
    BY <2>2, MaximumBounds DEF LogTypeOK
  <2>4. i > client[c].known /\ client[c].known \in Nat
    BY <1>1 DEF Decided
  <2>5. QED
    BY <2>3, <2>4
<1>5. NothingIsRepeated'
  <2> SUFFICES ASSUME NEW i \in 1..last, NEW j \in 1..last, i < j
               PROVE  ~Repeats(EventAt(i)', EventAt(j)')
    BY <1>2 DEF NothingIsRepeated
  <2>1. i \in 1..Len(log) /\ EventAt(i)' = EventAt(i)
    BY <1>1, <1>2 DEF EventAt
  <2>2. CASE j = last
    BY <1>2, <1>4, <2>1, <2>2 DEF EventAt
  <2>3. CASE j # last
    <3>1. j \in 1..Len(log) /\ EventAt(j)' = EventAt(j)
      BY <1>1, <1>2, <2>3 DEF EventAt
    <3>2. QED
      BY <2>1, <3>1 DEF NothingIsRepeated
  <2>4. QED
    BY <2>2, <2>3
<1>6. ASSUME NEW d \in Client, At(d, "append")' PROVE Decided(d)'
  <2>1. d # c
    BY <1>6 DEF At, LogTypeOK
  <2>2. client'[d] = client[d] /\ At(d, "append")
    BY <1>6, <2>1 DEF At, LogTypeOK
  <2>3. Decided(d)
    BY <2>2 DEF DecisionsAreFresh
  <2>4. ASSUME NEW i \in 1..last, Repeats(EventAt(i)', client[d].event)
        PROVE  i > client[d].known
    <3>1. CASE i = last
      BY <1>1, <2>3, <3>1 DEF Decided
    <3>2. CASE i # last
      <4>1. i \in 1..Len(log) /\ EventAt(i)' = EventAt(i)
        BY <1>1, <1>2, <3>2 DEF EventAt
      <4>2. QED
        BY <2>3, <2>4, <4>1 DEF Decided
    <3>3. QED
      BY <3>1, <3>2
  <2>5. client[d].known \in 0..last
    BY <1>1, <2>3 DEF Decided
  <2>6. QED
    BY <1>2, <2>2, <2>3, <2>4, <2>5 DEF Decided
<1>7. QED
  BY <1>3, <1>5, <1>6 DEF DecisionsAreFresh

(* Steps that store nothing and decide nothing.                            *)
LEMMA OtherStepKeepsInv ==
  ASSUME BankInv, NEW c \in Client, log' = log,
         NEW entry \in [pc : ClientLabel \ {"append"}, event : BankEvent \cup {NoEvent},
                        known : Nat, table : Table \cup {"none"}],
         client' = [client EXCEPT ![c] = entry]
  PROVE  BankInv'
<1> USE DEF BankInv
<1>1. LogTypeOK'
  BY DEF LogTypeOK, IsDense, ClientLabel
<1>2. ASSUME NEW d \in Client, At(d, "append")' PROVE Decided(d)'
  <2>1. client'[d] = client[d] /\ Decided(d)
    BY <1>2 DEF At, LogTypeOK, DecisionsAreFresh
  <2>2. QED
    BY <2>1 DEF Decided, EventAt
<1>3. NothingIsRepeated'
  BY DEF NothingIsRepeated, EventAt
<1>4. QED
  BY <1>1, <1>2, <1>3 DEF DecisionsAreFresh

(* open-bank-account has looked for the name in every opening.             *)
LEMMA OpenKeepsInv ==
  ASSUME BankInv, NEW c \in Client, NEW a \in Account, NEW customer \in Customer,
         NEW amount \in Money, NEW input \in CurrencyInput,
         Open(c, a, customer, amount, input)
  PROVE  BankInv'
<1> DEFINE event == Opened(a, customer, amount, OrElse(input, DefaultCurrency))
<1>1. event \in BankEvent
  BY OpenedIsEvent, BankAssumption DEF OrElse, CurrencyInput
<1>2. event.type = "BankAccountOpened" /\ event.customerName = customer
  BY DEF Opened
<1>3. ContextOf(event) = OpenQuery
  BY <1>2 DEF ContextOf
<1>4. Decide(c, event)
  BY DEF Open
<1> HIDE DEF event
<1>5. ASSUME NEW r \in Seen(OpenQuery), Repeats(r.eventType, event) PROVE FALSE
  <2>1. /\ r.eventType \in OfKind(Seen(OpenQuery), "BankAccountOpened")
        /\ r.eventType.customerName = customer
    BY <1>2, <1>5 DEF Repeats, OfKind
  <2>2. QED
    BY <2>1 DEF Open
<1>6. QED
  BY <1>1, <1>3, <1>4, <1>5, DecideKeepsInv

(* deposit-money has looked for the id in every deposit on the account.    *)
LEMMA DepositKeepsInv ==
  ASSUME BankInv, NEW c \in Client, NEW a \in Account, NEW amount \in Money,
         NEW input \in CurrencyInput, NEW id \in Id,
         Deposit(c, a, amount, input, id)
  PROVE  BankInv'
<1> DEFINE seen == Seen(DepositQuery[a])
           currency == OrElse(input, Opening(seen, a).currency)
           event == OnAccount("MoneyDeposited", a, amount, currency, id)
<1>1. currency \in Currency
  BY CurrencyOfOpening DEF Deposit, BankInv
<1>2. Decide(c, event)
  BY DEF Deposit
<1> HIDE DEF currency
<1>3. event \in BankEvent
  BY <1>1, OnAccountIsEvent
<1>4. event.type = "MoneyDeposited" /\ event.accountId = a /\ event.id = id
  BY DEF OnAccount
<1>5. ContextOf(event) = DepositQuery[a]
  BY <1>4 DEF ContextOf
<1> HIDE DEF event
<1>6. ASSUME NEW r \in seen, Repeats(r.eventType, event) PROVE FALSE
  <2>1. /\ r.eventType \in OfKind(seen, "MoneyDeposited")
        /\ r.eventType.id = id
    BY <1>4, <1>6 DEF Repeats, OfKind
  <2>2. QED
    BY <2>1 DEF Deposit
<1>7. QED
  BY <1>2, <1>3, <1>5, <1>6, DecideKeepsInv

(* A withdrawal repeats nothing by these rules.                            *)
LEMMA WithdrawKeepsInv ==
  ASSUME BankInv, NEW c \in Client, NEW a \in Account, NEW amount \in Money,
         NEW input \in CurrencyInput, NEW id \in Id,
         Withdraw(c, a, amount, input, id)
  PROVE  BankInv'
<1> DEFINE currency == OrElse(input, Opening(Seen(AccountQuery[a]), a).currency)
           event == OnAccount("MoneyWithdrawn", a, amount, currency, id)
<1>1. currency \in Currency
  BY CurrencyOfOpening DEF Withdraw, BankInv
<1>2. Decide(c, event)
  BY DEF Withdraw
<1> HIDE DEF currency
<1>3. event \in BankEvent
  BY <1>1, OnAccountIsEvent
<1>4. event.type = "MoneyWithdrawn"
  BY DEF OnAccount
<1> HIDE DEF event
<1>5. \A e : ~Repeats(e, event)
  BY <1>4 DEF Repeats
<1>6. QED
  BY <1>2, <1>3, <1>5, DecideKeepsInv

(* Neither does a transfer.                                                *)
LEMMA TransferKeepsInv ==
  ASSUME BankInv, NEW c \in Client, NEW from \in Account, NEW to \in Account,
         NEW amount \in Money, NEW input \in CurrencyInput, NEW id \in Id,
         Transfer(c, from, to, amount, input, id)
  PROVE  BankInv'
<1> DEFINE currency == OrElse(input, Opening(Seen(TransferQuery[from][to]), from).currency)
           event == Transferred(from, to, amount, currency, id)
<1>1. currency \in Currency
  BY CurrencyOfOpening DEF Transfer, BankInv
<1>2. Decide(c, event)
  BY DEF Transfer
<1> HIDE DEF currency
<1>3. event \in BankEvent
  BY <1>1, TransferredIsEvent
<1>4. event.type = "MoneyTransferred"
  BY DEF Transferred
<1> HIDE DEF event
<1>5. \A e : ~Repeats(e, event)
  BY <1>4 DEF Repeats
<1>6. QED
  BY <1>2, <1>3, <1>5, DecideKeepsInv

-----------------------------------------------------------------------------
(* An empty log and clients at the menu satisfy the invariant.             *)
LEMMA InitImpliesInv == Init => BankInv
<1> SUFFICES ASSUME Init PROVE BankInv
  OBVIOUS
<1>1. log = <<>> /\ Len(log) = 0
  BY EmptySeq DEF Init
<1>2. LogTypeOK
  BY <1>1, EmptySeq DEF Init, LogTypeOK, IsDense, Idle, ClientLabel
<1>3. DecisionsAreFresh
  BY DEF Init, DecisionsAreFresh, At, Idle
<1>4. NothingIsRepeated
  BY <1>1 DEF NothingIsRepeated
<1>5. QED
  BY <1>2, <1>3, <1>4 DEF BankInv

(* Every action keeps the invariant.                                       *)
LEMMA StepKeepsInv ==
  ASSUME BankInv, [Next]_vars
  PROVE  BankInv'
<1> DEFINE Entry == [pc : ClientLabel \ {"append"}, event : BankEvent \cup {NoEvent},
                     known : Nat, table : Table \cup {"none"}]
<1>1. \A c \in Client :
        client[c] \in [pc : ClientLabel, event : BankEvent \cup {NoEvent},
                       known : Nat, table : Table \cup {"none"}]
  BY DEF BankInv, LogTypeOK
<1>2. Idle \in Entry
  BY DEF Idle, ClientLabel
<1>3. CASE log' = log /\ client' = client
  BY <1>3 DEF BankInv, LogTypeOK, IsDense, DecisionsAreFresh, Decided, At,
             NothingIsRepeated, EventAt
<1>4. ASSUME NEW c \in Client, OpenAccount(c) PROVE BankInv'
  BY <1>4, OpenKeepsInv DEF OpenAccount
<1>5. ASSUME NEW c \in Client, MoneyCommand(c) PROVE BankInv'
  <2>1. PICK a \in Account, amount \in Money, input \in CurrencyInput, id \in Id :
          \/ Deposit(c, a, amount, input, id)
          \/ Withdraw(c, a, amount, input, id)
          \/ \E b \in Account : Transfer(c, a, b, amount, input, id)
    BY <1>5 DEF MoneyCommand
  <2>2. QED
    BY <2>1, DepositKeepsInv, WithdrawKeepsInv, TransferKeepsInv
<1>6. ASSUME NEW c \in Client, AppendEvent(c) PROVE BankInv'
  <2> DEFINE entry == [client[c] EXCEPT !.pc = "notify", !.known = 0]
  <2>1. entry \in Entry
    BY <1>1 DEF ClientLabel
  <2>2. client' = [client EXCEPT ![c] = entry]
    BY <1>6 DEF AppendEvent
  <2> HIDE DEF entry
  <2>3. QED
    BY <1>6, <2>1, <2>2, StoreKeepsInv DEF AppendEvent
<1>7. ASSUME NEW c \in Client, AnswerLost(c) PROVE BankInv'
  BY <1>2, <1>7, StoreKeepsInv DEF AnswerLost
<1>8. ASSUME NEW c \in Client, NEW entry \in Entry,
             client' = [client EXCEPT ![c] = entry], log' = log
      PROVE  BankInv'
  BY <1>8, OtherStepKeepsInv
<1>9. ASSUME NEW c \in Client,
             AppendFails(c) \/ Return(c) \/ RebuildFails(c) \/ Crash(c)
      PROVE  BankInv'
  <2>1. client' = [client EXCEPT ![c] = Idle] /\ log' = log
    BY <1>9 DEF AppendFails, Return, RebuildFails, Crash
  <2>2. QED
    BY <1>2, <1>8, <2>1
<1>10. ASSUME NEW c \in Client, NEW t \in Table, Clear(c, t) PROVE BankInv'
  <2> DEFINE entry == [client[c] EXCEPT !.pc = "cleared", !.table = t]
  <2>1. entry \in Entry
    BY <1>1 DEF ClientLabel
  <2>2. client' = [client EXCEPT ![c] = entry] /\ log' = log
    BY <1>10 DEF Clear
  <2> HIDE DEF entry
  <2>3. QED
    BY <1>8, <2>1, <2>2
<1>11. ASSUME NEW c \in Client, ReadHistory(c) PROVE BankInv'
  <2> DEFINE entry == [client[c] EXCEPT !.pc = "replay"]
  <2>1. entry \in Entry
    BY <1>1 DEF ClientLabel
  <2>2. client' = [client EXCEPT ![c] = entry] /\ log' = log
    BY <1>11 DEF ReadHistory
  <2> HIDE DEF entry
  <2>3. QED
    BY <1>8, <2>1, <2>2
<1>12. ASSUME NEW c \in Client, NEW t \in Table, RunStatement(c, t) \/ StatementFails(c, t)
       PROVE  BankInv'
  BY <1>3, <1>12 DEF RunStatement, StatementFails
<1>13. CASE UNCHANGED vars
  BY <1>3, <1>13 DEF vars
<1>14. QED
  BY <1>4, <1>5, <1>6, <1>7, <1>9, <1>10, <1>11, <1>12, <1>13 DEF Next

(* The log is well-formed, commands about to append have seen what they    *)
(* must not repeat, and nothing in the log is repeated.                    *)
THEOREM BankSafety == Spec => []BankInv
<1>1. Init => BankInv
  BY InitImpliesInv
<1>2. BankInv /\ [Next]_vars => BankInv'
  BY StepKeepsInv
<1>3. QED
  BY <1>1, <1>2, PTL DEF Spec

(* Of two records of a log without repetitions one comes first.            *)
LEMMA NoRepetitionEitherWay ==
  ASSUME BankInv, NEW i \in 1..Len(log), NEW j \in 1..Len(log), i # j
  PROVE  ~Repeats(EventAt(i), EventAt(j))
<1>1. Len(log) \in Nat
  BY LenProperties DEF BankInv, LogTypeOK
<1>2. i < j \/ j < i
  BY <1>1
<1>3. Repeats(EventAt(i), EventAt(j)) => Repeats(EventAt(j), EventAt(i))
  BY DEF Repeats
<1>4. QED
  BY <1>2, <1>3 DEF BankInv, NothingIsRepeated

(* open-bank-account never opens two accounts for one customer name.       *)
THEOREM NamesStayUnique == Spec => []CustomerNamesAreUnique
<1>1. BankInv => CustomerNamesAreUnique
  BY NoRepetitionEitherWay DEF CustomerNamesAreUnique, Repeats
<1>2. QED
  BY <1>1, BankSafety, PTL

(* deposit-money books a deposit id once on an account.                    *)
THEOREM DepositsStayUnique == Spec => []DepositsAreBookedOnce
<1>1. BankInv => DepositsAreBookedOnce
  BY NoRepetitionEitherWay DEF DepositsAreBookedOnce, Repeats
<1>2. QED
  BY <1>1, BankSafety, PTL

-----------------------------------------------------------------------------
(* Balances.                                                               *)

(* All fields of the events.                                               *)
LEMMA EventShapes ==
  ASSUME NEW e \in BankEvent
  PROVE  /\ e.type \in EventTypeName /\ e.amount \in Int /\ e.amount \in Money
         /\ e.currency \in Currency
         /\ e.type # "MoneyTransferred" =>
              /\ e.accountId \in Account /\ "accountId" \in DOMAIN e
              /\ "fromAccountId" \notin DOMAIN e /\ "toAccountId" \notin DOMAIN e
         /\ e.type = "MoneyTransferred" =>
              /\ e.fromAccountId \in Account /\ "fromAccountId" \in DOMAIN e
              /\ e.toAccountId \in Account /\ "toAccountId" \in DOMAIN e
              /\ "accountId" \notin DOMAIN e
<1>1. CASE \E a \in Account, n \in Customer, m \in Money, u \in Currency :
             e = Opened(a, n, m, u)
  BY <1>1, BankAssumption DEF Opened, EventTypeName
<1>2. CASE \E t \in {"MoneyDeposited", "MoneyWithdrawn"}, a \in Account, m \in Money,
              u \in Currency, i \in Id : e = OnAccount(t, a, m, u, i)
  BY <1>2, BankAssumption DEF OnAccount, EventTypeName
<1>3. CASE \E a \in Account, b \in Account, m \in Money, u \in Currency, i \in Id :
             e = Transferred(a, b, m, u, i)
  BY <1>3, BankAssumption DEF Transferred, EventTypeName
<1>4. QED
  BY <1>1, <1>2, <1>3 DEF BankEvent

(* An event changes a balance by a whole number.                           *)
LEMMA EffectIsANumber ==
  ASSUME NEW e \in BankEvent, NEW a, NEW u
  PROVE  Effect(e, a, u) \in Int
BY EventShapes DEF Effect, EventTypeName

(* An event that the query of an account leaves out does not change its    *)
(* balance, in any currency.                                               *)
LEMMA NoEffectOutside ==
  ASSUME NEW a \in Account, NEW e \in BankEvent, e \notin AccountQuery[a].types, NEW u
  PROVE  Effect(e, a, u) = 0
<1>1. /\ ~Concerns(e, "accountId", {a})
      /\ ~Concerns(e, "fromAccountId", {a}) /\ ~Concerns(e, "toAccountId", {a})
  BY DEF AccountQuery, Query
<1>2. /\ e.type # "MoneyTransferred" => e.accountId # a
      /\ e.type = "MoneyTransferred" => e.fromAccountId # a /\ e.toAccountId # a
  BY <1>1, EventShapes DEF Concerns
<1>3. QED
  BY <1>2, EventShapes DEF Effect, EventTypeName

(* That of a transfer leaves out only transfers from its source.           *)
LEMMA NoEffectOutsideTransfer ==
  ASSUME NEW a \in Account, NEW b \in Account, NEW e \in BankEvent,
         e \notin TransferQuery[a][b].types, NEW u,
         e.type = "MoneyTransferred" => e.fromAccountId # a
  PROVE  Effect(e, a, u) = 0
<1>1. ~Concerns(e, "accountId", {a, b}) /\ ~Concerns(e, "toAccountId", {a})
  BY DEF TransferQuery, Query
<1>2. /\ e.type # "MoneyTransferred" => e.accountId # a
      /\ e.type = "MoneyTransferred" => e.fromAccountId # a /\ e.toAccountId # a
  BY <1>1, EventShapes DEF Concerns
<1>3. QED
  BY <1>2, EventShapes DEF Effect, EventTypeName

(* The records of the log as a set, as the queries of the store see them.  *)
AllRecords == {log[i] : i \in 1..Len(log)}

(* What the records add to the account, each for itself.                   *)
Effects(records, a, currency) == [r \in records |-> Effect(r.eventType, a, currency)]

(* The balance that a command folds is a sum of effects in the currency of *)
(* the opening.                                                            *)
LEMMA BalanceIsASum ==
  ASSUME NEW records, NEW a
  PROVE  Balance(records, a) =
           SumFunctionOnSet(Effects(records, a, Opening(records, a).currency), records)
BY Zenon DEF Balance, Effects, MapThenSumSet, MapThenFoldSet, SumFunctionOnSet, FoldFunctionOnSet

(* The records of a log are finitely many, and events of the bank.         *)
LEMMA RecordsOfLog ==
  ASSUME log \in Seq(EventRecord), NEW records \in SUBSET AllRecords
  PROVE  /\ IsFiniteSet(records)
         /\ \A r \in records : r.eventType \in BankEvent
<1>1. Len(log) \in Nat /\ \A i \in 1..Len(log) : log[i] \in EventRecord
  BY LenProperties, ElementOfSeq
<1>2. IsFiniteSet(1..Len(log))
  BY <1>1, FS_Interval
<1> DEFINE f == [i \in 1..Len(log) |-> log[i]]
<1>3. f \in Surjection(1..Len(log), AllRecords)
  BY DEF Surjection, AllRecords
<1>4. IsFiniteSet(AllRecords)
  BY <1>2, <1>3, FS_Surjection
<1>5. QED
  BY <1>1, <1>4, FS_Subset DEF AllRecords, EventRecord

(* A query that has seen every event that opens or changes an account      *)
(* folds the balance of the whole log.                                     *)
LEMMA BalanceOfSeen ==
  ASSUME log \in Seq(EventRecord), NEW a, NEW query,
         \A i \in 1..Len(log) : ~Matches(query, log[i]) =>
           /\ \A u : Effect(EventAt(i), a, u) = 0
           /\ EventAt(i).type = "BankAccountOpened" => EventAt(i).accountId # a
  PROVE  /\ Openings(AllRecords, a) = Openings(Seen(query), a)
         /\ Balance(AllRecords, a) = Balance(Seen(query), a)
<1> DEFINE seen == Seen(query)
<1>1. seen \in SUBSET AllRecords
  BY SeenIsTheMatches DEF AllRecords
<1>2. \A r \in AllRecords \ seen : /\ \A u : Effect(r.eventType, a, u) = 0
                                   /\ r.eventType.type = "BankAccountOpened" =>
                                        r.eventType.accountId # a
  BY SeenIsTheMatches DEF AllRecords, EventAt
<1> HIDE DEF seen
<1>3. Openings(AllRecords, a) = Openings(seen, a)
  BY <1>1, <1>2 DEF Openings, OfKind
<1>4. Opening(AllRecords, a) = Opening(seen, a)
  BY <1>3 DEF Opening
<1> DEFINE currency == Opening(seen, a).currency
           all == Effects(AllRecords, a, currency)
           some == Effects(seen, a, currency)
<1>5. IsFiniteSet(AllRecords) /\ \A r \in AllRecords : r.eventType \in BankEvent
  BY RecordsOfLog
<1>6. \A r \in AllRecords : all[r] = Effect(r.eventType, a, currency)
  BY DEF Effects
<1>7. \A r \in seen : some[r] = Effect(r.eventType, a, currency)
  BY DEF Effects
<1>8. \A r \in AllRecords : Effect(r.eventType, a, currency) \in Int
  BY <1>5, EffectIsANumber
<1>9. Balance(AllRecords, a) = SumFunctionOnSet(all, AllRecords)
  BY <1>4, BalanceIsASum
<1>10. Balance(seen, a) = SumFunctionOnSet(some, seen)
  BY BalanceIsASum
<1> HIDE DEF all, some, currency
<1>11. SumFunctionOnSet(all, AllRecords) = SumFunctionOnSet(all, seen)
  BY <1>1, <1>2, <1>5, <1>6, <1>8, SumOfTheRest
<1>12. IsFiniteSet(seen)
  BY <1>1, <1>5, FS_Subset
<1>13. SumFunctionOnSet(all, seen) = SumFunctionOnSet(some, seen)
  BY <1>1, <1>6, <1>7, <1>8, <1>12, SumOfSame
<1>14. QED
  BY <1>3, <1>9, <1>10, <1>11, <1>13 DEF seen

(* A record that a query does not match changes neither what it sees nor   *)
(* its maximum.                                                            *)
LEMMA SeenOfLonger ==
  ASSUME log \in Seq(EventRecord), IsDense(log), NEW event \in BankEvent, NEW query,
         NEW longer, longer = log \o Numbered(<<event>>, Len(log)),
         MaxSequenceNumber(longer, query) <= Len(log)
  PROVE  /\ MatchingEvents(longer, query) = Seen(query)
         /\ MaxSequenceNumber(longer, query) = MaxSequenceNumber(log, query)
<1>1. /\ longer \in Seq(EventRecord) /\ IsDense(longer) /\ Len(longer) = Len(log) + 1
      /\ Len(log) \in Nat /\ \A i \in 1..Len(log) : longer[i] = log[i]
  BY AppendOne, LenProperties
<1>2. longer \in Seq(Log!EventRecord) /\ Log!IsDense(longer)
      /\ log \in Seq(Log!EventRecord) /\ Log!IsDense(log)
  BY <1>1 DEF EventRecord, Log!EventRecord, IsDense, Log!IsDense
<1>3. \A s : Log!MaxSequenceNumber(s, query) = MaxSequenceNumber(s, query)
  BY DEF MaxSequenceNumber, MatchingIndices, Matches, Log!MaxSequenceNumber,
         Log!MatchingIndices, Log!Matches
<1>4. \A s : Log!MatchingEvents(s, query) = MatchingEvents(s, query)
             /\ Log!MatchingIndices(s, query) = MatchingIndices(s, query)
  BY DEF MatchingEvents, MatchingIndices, Matches, Log!MatchingEvents,
         Log!MatchingIndices, Log!Matches
<1>5. MatchingIndices(longer, query) = MatchingIndices(log, query)
  <2>1. ~Matches(query, longer[Len(log) + 1])
    <3> SUFFICES ASSUME Matches(query, longer[Len(log) + 1]) PROVE FALSE
      OBVIOUS
    <3>1. longer[Len(log) + 1] \in MatchingEvents(longer, query)
      BY <1>1 DEF MatchingEvents, MatchingIndices
    <3>2. longer[Len(log) + 1].sequenceNumber <= MaxSequenceNumber(longer, query)
      BY <1>2, <1>3, <1>4, <3>1, Log!MaximumBoundsMatches
    <3>3. longer[Len(log) + 1].sequenceNumber = Len(log) + 1
      BY <1>1 DEF IsDense
    <3>4. MaxSequenceNumber(longer, query) \in Nat
      BY <1>2, <1>3, Log!MaximumIsNatural
    <3>5. QED
      BY <1>1, <3>2, <3>3, <3>4
  <2>2. QED
    BY <1>1, <2>1 DEF MatchingIndices
<1>6. MatchingEvents(longer, query) = Seen(query)
  BY <1>1, <1>5 DEF MatchingEvents, MatchingIndices, Seen
<1>7. MaxSequenceNumber(longer, query) = MaxSequenceNumber(log, query)
  <2>1. CASE MatchingIndices(log, query) = {}
    BY <1>5, <2>1 DEF MaxSequenceNumber
  <2>2. CASE MatchingIndices(log, query) # {}
    <3>1. \A s \in {log, longer} :
            \E i \in MatchingIndices(s, query) :
              /\ \A j \in MatchingIndices(s, query) : j <= i
              /\ MaxSequenceNumber(s, query) = s[i].sequenceNumber
      <4> SUFFICES ASSUME NEW s \in {log, longer}
                   PROVE  \E i \in MatchingIndices(s, query) :
                            /\ \A j \in MatchingIndices(s, query) : j <= i
                            /\ MaxSequenceNumber(s, query) = s[i].sequenceNumber
        OBVIOUS
      <4>1. s \in Seq(Log!EventRecord) /\ MatchingIndices(s, query) # {}
        BY <1>2, <1>5, <2>2
      <4>2. Log!MatchingEvents(s, query) # {}
        <5>1. PICK k : k \in MatchingIndices(s, query)
          BY <4>1
        <5>2. s[k] \in MatchingEvents(s, query)
          BY <5>1 DEF MatchingEvents
        <5>3. QED
          BY <1>4, <5>2
      <4>3. \E i \in Log!MatchingIndices(s, query) :
              /\ \A j \in Log!MatchingIndices(s, query) : j <= i
              /\ Log!MaxSequenceNumber(s, query) = s[i].sequenceNumber
        BY <4>1, <4>2, Log!MaximumIsLastMatch
      <4>4. QED
        BY <1>3, <1>4, <4>3
    <3>2. PICK i \in MatchingIndices(longer, query) :
            /\ \A j \in MatchingIndices(longer, query) : j <= i
            /\ MaxSequenceNumber(longer, query) = longer[i].sequenceNumber
      BY <3>1
    <3>3. PICK j \in MatchingIndices(log, query) :
            /\ \A k \in MatchingIndices(log, query) : k <= j
            /\ MaxSequenceNumber(log, query) = log[j].sequenceNumber
      BY <3>1
    <3>4. i \in 1..Len(log) /\ j \in 1..Len(log) /\ i <= j /\ j <= i
      BY <1>5, <3>2, <3>3 DEF MatchingIndices
    <3>5. i = j
      BY <1>1, <3>4
    <3>6. QED
      BY <1>1, <3>2, <3>3, <3>4, <3>5
  <2>3. QED
    BY <2>1, <2>2
<1>8. QED
  BY <1>6, <1>7

-----------------------------------------------------------------------------
(* No command withdraws or transfers more than its query has shown.  A     *)
(* transfer is bounded only while nothing was transferred from its source: *)
(* its query does not look for such transfers.                             *)
Affordable(c) ==
  LET event == client[c].event
      query == ContextOf(event)
  IN  MaxSequenceNumber(log, query) = client[c].known =>
        /\ event.type = "MoneyWithdrawn" =>
             ~(event.amount > Balance(Seen(query), event.accountId))
        /\ event.type = "MoneyTransferred" =>
             ~(event.amount > Balance(Seen(query), event.fromAccountId))

(* Every command that is about to append can pay for what it takes.        *)
DecisionsAreAffordable == \A c \in Client : At(c, "append") => Affordable(c)

(* The inductive invariant of the withdrawals and transfers.               *)
CoverInv ==
  /\ DecisionsAreAffordable
  /\ WithdrawalsAreCovered
  /\ FirstTransfersAreCovered

(* A balance is a whole number.                                            *)
LEMMA BalanceIsANumber ==
  ASSUME log \in Seq(EventRecord), NEW records \in SUBSET AllRecords, NEW a
  PROVE  Balance(records, a) \in Int
<1> DEFINE currency == Opening(records, a).currency
           f == Effects(records, a, currency)
<1>1. IsFiniteSet(records) /\ \A r \in records : r.eventType \in BankEvent
  BY RecordsOfLog
<1>2. \A r \in records : f[r] \in Int
  BY <1>1, EffectIsANumber DEF Effects
<1>3. Balance(records, a) = SumFunctionOnSet(f, records)
  BY BalanceIsASum
<1> HIDE DEF f
<1>4. QED
  BY <1>1, <1>2, <1>3, SumFrom

(* A step that stores nothing keeps what the stored events have.           *)
LEMMA SameLogKeepsCovered ==
  ASSUME log' = log, WithdrawalsAreCovered, FirstTransfersAreCovered
  PROVE  WithdrawalsAreCovered' /\ FirstTransfersAreCovered'
<1>1. \A i : EventAt(i)' = EventAt(i) /\ Before(i)' = Before(i)
  BY DEF EventAt, Before
<1>2. \A i, a : Overdraws(i, a)' <=> Overdraws(i, a)
  BY <1>1 DEF Overdraws
<1>3. WithdrawalsAreCovered'
  BY <1>1, <1>2 DEF WithdrawalsAreCovered
<1>4. FirstTransfersAreCovered'
  BY <1>1, <1>2 DEF FirstTransfersAreCovered
<1>5. QED
  BY <1>3, <1>4

(* Steps that leave the log alone and send no client to its append.        *)
LEMMA OtherStepKeepsCover ==
  ASSUME LogTypeOK, CoverInv, log' = log,
         \A c \in Client : At(c, "append")' => client'[c] = client[c]
  PROVE  CoverInv'
<1>1. ASSUME NEW c \in Client, At(c, "append")' PROVE Affordable(c)'
  <2>1. client'[c] = client[c] /\ At(c, "append")
    BY <1>1 DEF At
  <2>2. Affordable(c)
    BY <2>1 DEF CoverInv, DecisionsAreAffordable
  <2>3. Seen(ContextOf(client[c].event))' = Seen(ContextOf(client[c].event))
    BY <2>1 DEF Seen
  <2>4. QED
    BY <2>1, <2>2, <2>3 DEF Affordable
<1>2. QED
  BY <1>1, SameLogKeepsCovered DEF CoverInv, DecisionsAreAffordable

(* A command that its query can pay for.                                   *)
LEMMA DecideKeepsCover ==
  ASSUME LogTypeOK, CoverInv, NEW c \in Client, NEW event \in BankEvent, Decide(c, event),
         event.type = "MoneyWithdrawn" =>
           ~(event.amount > Balance(Seen(ContextOf(event)), event.accountId)),
         event.type = "MoneyTransferred" =>
           ~(event.amount > Balance(Seen(ContextOf(event)), event.fromAccountId))
  PROVE  CoverInv'
<1>1. log' = log
  BY DEF Decide
<1>2. client'[c].event = event /\ \A d \in Client : d # c => client'[d] = client[d]
  BY DEF Decide, LogTypeOK
<1>3. Affordable(c)'
  <2>1. Seen(ContextOf(client[c].event))' = Seen(ContextOf(event))
    BY <1>1, <1>2 DEF Seen
  <2>2. QED
    BY <1>2, <2>1 DEF Affordable
<1>4. ASSUME NEW d \in Client, d # c, At(d, "append")' PROVE Affordable(d)'
  <2>1. client'[d] = client[d] /\ At(d, "append")
    BY <1>2, <1>4 DEF At
  <2>2. Affordable(d)
    BY <2>1 DEF CoverInv, DecisionsAreAffordable
  <2>3. Seen(ContextOf(client[d].event))' = Seen(ContextOf(client[d].event))
    BY <1>1, <2>1 DEF Seen
  <2>4. QED
    BY <1>1, <2>1, <2>2, <2>3 DEF Affordable
<1>5. DecisionsAreAffordable'
  BY <1>3, <1>4 DEF DecisionsAreAffordable
<1>6. QED
  BY <1>1, <1>5, SameLogKeepsCovered DEF CoverInv

(* What an event that is about to be stored takes, the whole log covers.   *)
LEMMA StoredIsCovered ==
  ASSUME LogTypeOK, CoverInv, NEW c \in Client, At(c, "append"), client[c].event \in BankEvent,
         MaxSequenceNumber(log, ContextOf(client[c].event)) = client[c].known
  PROVE  LET event == client[c].event
         IN  /\ event.type = "MoneyWithdrawn" =>
                  ~(event.amount > Balance(AllRecords, event.accountId))
             /\ /\ event.type = "MoneyTransferred"
                /\ \A r \in AllRecords : Concerns(r.eventType, "fromAccountId", Account) =>
                                           r.eventType.fromAccountId # event.fromAccountId
                => ~(event.amount > Balance(AllRecords, event.fromAccountId))
<1> DEFINE event == client[c].event
           query == ContextOf(event)
<1>1. /\ log \in Seq(EventRecord)
      /\ \A i \in 1..Len(log) : EventAt(i) \in BankEvent /\ log[i].sequenceNumber = i
  BY LogHoldsEvents DEF LogTypeOK
<1>2. Affordable(c)
  BY DEF CoverInv, DecisionsAreAffordable
<1>3. ASSUME event.type = "MoneyWithdrawn"
      PROVE  ~(event.amount > Balance(AllRecords, event.accountId))
  <2> DEFINE a == event.accountId
  <2>1. a \in Account
    BY <1>3, EventShapes
  <2>2. query = AccountQuery[a] /\ query.min = 0
    BY <1>3, <2>1 DEF ContextOf, AccountQuery, Query
  <2>3. ASSUME NEW i \in 1..Len(log), ~Matches(query, log[i])
        PROVE  /\ \A u : Effect(EventAt(i), a, u) = 0
               /\ EventAt(i).type = "BankAccountOpened" => EventAt(i).accountId # a
    <3>1. EventAt(i) \notin AccountQuery[a].types
      <4>1. log[i].sequenceNumber > query.min
        BY <1>1, <2>2
      <4>2. EventAt(i) \notin query.types
        BY <2>3, <4>1 DEF Matches, EventAt
      <4>3. QED
        BY <2>2, <4>2
    <3>2. ~Concerns(EventAt(i), "accountId", {a})
      BY <1>1, <2>1, <3>1 DEF AccountQuery, Query
    <3>3. QED
      BY <1>1, <2>1, <3>1, <3>2, NoEffectOutside, EventShapes DEF Concerns
  <2>4. Balance(AllRecords, a) = Balance(Seen(query), a)
    BY <1>1, <2>3, BalanceOfSeen
  <2>5. QED
    BY <1>2, <1>3, <2>4 DEF Affordable
<1>4. ASSUME event.type = "MoneyTransferred",
             \A r \in AllRecords : Concerns(r.eventType, "fromAccountId", Account) =>
                                     r.eventType.fromAccountId # event.fromAccountId
      PROVE  ~(event.amount > Balance(AllRecords, event.fromAccountId))
  <2> DEFINE a == event.fromAccountId
             b == event.toAccountId
  <2>1. a \in Account /\ b \in Account
    BY <1>4, EventShapes
  <2>2. query = TransferQuery[a][b] /\ query.min = 0
    BY <1>4, <2>1 DEF ContextOf, TransferQuery, Query
  <2>3. ASSUME NEW i \in 1..Len(log), ~Matches(query, log[i])
        PROVE  /\ \A u : Effect(EventAt(i), a, u) = 0
               /\ EventAt(i).type = "BankAccountOpened" => EventAt(i).accountId # a
    <3>1. EventAt(i) \notin TransferQuery[a][b].types
      <4>1. log[i].sequenceNumber > query.min
        BY <1>1, <2>2
      <4>2. EventAt(i) \notin query.types
        BY <2>3, <4>1 DEF Matches, EventAt
      <4>3. QED
        BY <2>2, <4>2
    <3>2. ~Concerns(EventAt(i), "accountId", {a, b})
      BY <1>1, <2>1, <3>1 DEF TransferQuery, Query
    <3>3. EventAt(i).type = "MoneyTransferred" => EventAt(i).fromAccountId # a
      BY <1>1, <1>4, EventShapes DEF Concerns, AllRecords, EventAt
    <3>4. QED
      BY <1>1, <2>1, <3>1, <3>2, <3>3, NoEffectOutsideTransfer, EventShapes DEF Concerns
  <2>4. Balance(AllRecords, a) = Balance(Seen(query), a)
    BY <1>1, <2>3, BalanceOfSeen
  <2>5. QED
    BY <1>2, <1>4, <2>4 DEF Affordable
<1>5. QED
  BY <1>3, <1>4

(* Storing an event that is covered keeps all events covered.              *)
LEMMA StoreKeepsCover ==
  ASSUME BankInv, CoverInv, NEW c \in Client, At(c, "append"),
         MaxSequenceNumber(log, ContextOf(client[c].event)) = client[c].known,
         log' = log \o Numbered(<<client[c].event>>, Len(log)),
         ~At(c, "append")', \A d \in Client : d # c => client'[d] = client[d]
  PROVE  CoverInv'
<1> USE DEF BankInv
<1> DEFINE event == client[c].event
<1>0. PICK last : last = Len(log) + 1
  OBVIOUS
<1>1. Decided(c) /\ Len(log) \in Nat /\ log \in Seq(EventRecord) /\ IsDense(log)
  BY LenProperties DEF DecisionsAreFresh, LogTypeOK
<1>2. /\ Len(log') = last /\ last - 1 = Len(log)
      /\ \A i \in 1..Len(log) : log'[i] = log[i]
      /\ log'[last].eventType = event
  BY <1>0, <1>1, AppendOne DEF Decided
<1>3. ASSUME NEW i \in 1..Len(log)
      PROVE  EventAt(i)' = EventAt(i) /\ Before(i)' = Before(i)
  <2>1. \A j \in 1..(i - 1) : log'[j] = log[j]
    BY <1>1, <1>2
  <2>2. QED
    BY <1>2, <2>1 DEF EventAt, Before
<1>4. EventAt(last)' = event /\ Before(last)' = AllRecords
  <2>1. EventAt(last)' = event
    BY <1>2 DEF EventAt
  <2>2. Before(last)' = {log'[j] : j \in 1..Len(log)}
    BY <1>2 DEF Before
  <2>3. QED
    BY <1>2, <2>1, <2>2 DEF AllRecords
<1>5. /\ event.type = "MoneyWithdrawn" =>
           ~(event.amount > Balance(AllRecords, event.accountId))
      /\ /\ event.type = "MoneyTransferred"
         /\ \A r \in AllRecords : Concerns(r.eventType, "fromAccountId", Account) =>
                                    r.eventType.fromAccountId # event.fromAccountId
         => ~(event.amount > Balance(AllRecords, event.fromAccountId))
  BY <1>1, StoredIsCovered DEF Decided
<1> HIDE DEF event
<1>6. WithdrawalsAreCovered'
  <2> SUFFICES ASSUME NEW i \in 1..last, EventAt(i)'.type = "MoneyWithdrawn"
               PROVE  ~(EventAt(i)'.amount > Balance(Before(i)', EventAt(i)'.accountId))
    BY <1>2 DEF WithdrawalsAreCovered, Overdraws
  <2>1. CASE i = last
    BY <1>4, <1>5, <2>1
  <2>2. CASE i # last
    <3>1. i \in 1..Len(log)
      BY <1>0, <1>1, <2>2
    <3>2. QED
      BY <1>3, <3>1 DEF CoverInv, WithdrawalsAreCovered, Overdraws
  <2>3. QED
    BY <2>1, <2>2
<1>7. FirstTransfersAreCovered'
  <2> SUFFICES ASSUME NEW i \in 1..last, EventAt(i)'.type = "MoneyTransferred",
                      \A r \in Before(i)' : Concerns(r.eventType, "fromAccountId", Account) =>
                        r.eventType.fromAccountId # EventAt(i)'.fromAccountId
               PROVE  ~(EventAt(i)'.amount > Balance(Before(i)', EventAt(i)'.fromAccountId))
    BY <1>2 DEF FirstTransfersAreCovered, Overdraws
  <2>1. CASE i = last
    BY <1>4, <1>5, <2>1
  <2>2. CASE i # last
    <3>1. i \in 1..Len(log)
      BY <1>0, <1>1, <2>2
    <3>2. QED
      BY <1>3, <3>1 DEF CoverInv, FirstTransfersAreCovered, Overdraws
  <2>3. QED
    BY <2>1, <2>2
<1>8. ASSUME NEW d \in Client, At(d, "append")' PROVE Affordable(d)'
  <2>1. d # c /\ client'[d] = client[d] /\ At(d, "append")
    BY <1>8 DEF At
  <2>2. Affordable(d) /\ Decided(d)
    BY <2>1 DEF CoverInv, DecisionsAreAffordable, DecisionsAreFresh
  <2> DEFINE query == ContextOf(client[d].event)
  <2> HIDE DEF query
  <2>3. ASSUME MaxSequenceNumber(log', query) = client[d].known
        PROVE  /\ MatchingEvents(log', query) = Seen(query)
               /\ MaxSequenceNumber(log, query) = client[d].known
    <3>1. MaxSequenceNumber(log', query) <= Len(log)
      BY <1>1, <2>2, <2>3 DEF Decided
    <3>2. QED
      BY <1>1, <2>3, <3>1, SeenOfLonger DEF event, Decided
  <2>4. QED
    BY <2>1, <2>2, <2>3 DEF Affordable, Seen, query
<1>9. QED
  BY <1>6, <1>7, <1>8 DEF CoverInv, DecisionsAreAffordable

(* open-bank-account and deposit-money take nothing.                       *)
LEMMA OpenKeepsCover ==
  ASSUME LogTypeOK, CoverInv, NEW c \in Client, NEW a \in Account, NEW customer \in Customer,
         NEW amount \in Money, NEW input \in CurrencyInput,
         Open(c, a, customer, amount, input)
  PROVE  CoverInv'
<1> DEFINE event == Opened(a, customer, amount, OrElse(input, DefaultCurrency))
<1>1. event \in BankEvent
  BY OpenedIsEvent, BankAssumption DEF OrElse, CurrencyInput
<1>2. event.type = "BankAccountOpened"
  BY DEF Opened
<1>3. Decide(c, event)
  BY DEF Open
<1> HIDE DEF event
<1>4. QED
  BY <1>1, <1>2, <1>3, DecideKeepsCover

(* deposit-money has nothing to pay for.                                   *)
LEMMA DepositKeepsCover ==
  ASSUME LogTypeOK, CoverInv, NEW c \in Client, NEW a \in Account, NEW amount \in Money,
         NEW input \in CurrencyInput, NEW id \in Id,
         Deposit(c, a, amount, input, id)
  PROVE  CoverInv'
<1> DEFINE currency == OrElse(input, Opening(Seen(DepositQuery[a]), a).currency)
           event == OnAccount("MoneyDeposited", a, amount, currency, id)
<1>1. currency \in Currency
  BY CurrencyOfOpening DEF Deposit
<1>2. Decide(c, event)
  BY DEF Deposit
<1> HIDE DEF currency
<1>3. event \in BankEvent /\ event.type = "MoneyDeposited"
  BY <1>1, OnAccountIsEvent DEF OnAccount
<1> HIDE DEF event
<1>4. QED
  BY <1>2, <1>3, DecideKeepsCover

(* withdraw-money has compared the amount with the balance it folded.      *)
LEMMA WithdrawKeepsCover ==
  ASSUME LogTypeOK, CoverInv, NEW c \in Client, NEW a \in Account, NEW amount \in Money,
         NEW input \in CurrencyInput, NEW id \in Id,
         Withdraw(c, a, amount, input, id)
  PROVE  CoverInv'
<1> DEFINE query == AccountQuery[a]
           currency == OrElse(input, Opening(Seen(query), a).currency)
           event == OnAccount("MoneyWithdrawn", a, amount, currency, id)
<1>1. currency \in Currency
  BY CurrencyOfOpening DEF Withdraw
<1>2. Decide(c, event) /\ Balance(Seen(query), a) >= amount
  BY DEF Withdraw
<1> HIDE DEF currency
<1>3. event \in BankEvent
  BY <1>1, OnAccountIsEvent
<1>4. event.type = "MoneyWithdrawn" /\ event.accountId = a /\ event.amount = amount
  BY DEF OnAccount
<1> HIDE DEF event
<1>5. ContextOf(event) = query
  BY <1>4 DEF ContextOf
<1>6. Seen(query) \in SUBSET AllRecords
  BY SeenIsTheMatches DEF AllRecords
<1>7. Balance(Seen(query), a) \in Int /\ amount \in Int
  BY <1>6, BalanceIsANumber, BankAssumption DEF LogTypeOK
<1>8. ~(event.amount > Balance(Seen(ContextOf(event)), event.accountId))
  BY <1>2, <1>4, <1>5, <1>7
<1>9. QED
  BY <1>2, <1>3, <1>4, <1>8, DecideKeepsCover

(* So has transfer-money, with what it folded of the source.               *)
LEMMA TransferKeepsCover ==
  ASSUME LogTypeOK, CoverInv, NEW c \in Client, NEW from \in Account, NEW to \in Account,
         NEW amount \in Money, NEW input \in CurrencyInput, NEW id \in Id,
         Transfer(c, from, to, amount, input, id)
  PROVE  CoverInv'
<1> DEFINE query == TransferQuery[from][to]
           currency == OrElse(input, Opening(Seen(query), from).currency)
           event == Transferred(from, to, amount, currency, id)
<1>1. currency \in Currency
  BY CurrencyOfOpening DEF Transfer
<1>2. Decide(c, event) /\ Balance(Seen(query), from) >= amount
  BY DEF Transfer
<1> HIDE DEF currency
<1>3. event \in BankEvent
  BY <1>1, TransferredIsEvent
<1>4. /\ event.type = "MoneyTransferred" /\ event.amount = amount
      /\ event.fromAccountId = from /\ event.toAccountId = to
  BY DEF Transferred
<1> HIDE DEF event
<1>5. ContextOf(event) = query
  BY <1>4 DEF ContextOf
<1>6. Seen(query) \in SUBSET AllRecords
  BY SeenIsTheMatches DEF AllRecords
<1>7. Balance(Seen(query), from) \in Int /\ amount \in Int
  BY <1>6, BalanceIsANumber, BankAssumption DEF LogTypeOK
<1>8. ~(event.amount > Balance(Seen(ContextOf(event)), event.fromAccountId))
  BY <1>2, <1>4, <1>5, <1>7
<1>9. QED
  BY <1>2, <1>3, <1>4, <1>8, DecideKeepsCover

(* At the start nothing was taken.                                         *)
LEMMA InitImpliesCover == Init => CoverInv
<1> SUFFICES ASSUME Init PROVE CoverInv
  OBVIOUS
<1>1. Len(log) = 0
  BY EmptySeq DEF Init
<1>2. DecisionsAreAffordable
  BY DEF Init, DecisionsAreAffordable, At, Idle
<1>3. QED
  BY <1>1, <1>2 DEF CoverInv, WithdrawalsAreCovered, FirstTransfersAreCovered

(* Every action keeps what was stored covered.                             *)
LEMMA StepKeepsCover ==
  ASSUME BankInv, CoverInv, [Next]_vars
  PROVE  CoverInv'
<1>1. LogTypeOK
  BY DEF BankInv
<1>2. CASE log' = log /\ client' = client
  BY <1>1, <1>2, OtherStepKeepsCover
<1>3. ASSUME NEW c \in Client, log' = log, NEW entry, entry.pc # "append",
             client' = [client EXCEPT ![c] = entry]
      PROVE  CoverInv'
  BY <1>1, <1>3, OtherStepKeepsCover DEF LogTypeOK, At
<1>4. ASSUME NEW c \in Client, OpenAccount(c) PROVE CoverInv'
  BY <1>1, <1>4, OpenKeepsCover DEF OpenAccount
<1>5. ASSUME NEW c \in Client, MoneyCommand(c) PROVE CoverInv'
  <2>1. PICK a \in Account, amount \in Money, input \in CurrencyInput, id \in Id :
          \/ Deposit(c, a, amount, input, id)
          \/ Withdraw(c, a, amount, input, id)
          \/ \E b \in Account : Transfer(c, a, b, amount, input, id)
    BY <1>5 DEF MoneyCommand
  <2>2. QED
    BY <1>1, <2>1, DepositKeepsCover, WithdrawKeepsCover, TransferKeepsCover
<1>6. ASSUME NEW c \in Client, AppendEvent(c) \/ AnswerLost(c) PROVE CoverInv'
  <2>1. /\ At(c, "append")
        /\ MaxSequenceNumber(log, ContextOf(client[c].event)) = client[c].known
        /\ log' = log \o Numbered(<<client[c].event>>, Len(log))
    BY <1>6 DEF AppendEvent, AnswerLost
  <2>2. ~At(c, "append")' /\ \A d \in Client : d # c => client'[d] = client[d]
    BY <1>1, <1>6 DEF AppendEvent, AnswerLost, LogTypeOK, At, Idle
  <2>3. QED
    BY <2>1, <2>2, StoreKeepsCover
<1>7. ASSUME NEW c \in Client,
             AppendFails(c) \/ Return(c) \/ RebuildFails(c) \/ Crash(c)
      PROVE  CoverInv'
  <2>1. client' = [client EXCEPT ![c] = Idle] /\ log' = log
    BY <1>7 DEF AppendFails, Return, RebuildFails, Crash
  <2>2. QED
    BY <1>3, <2>1 DEF Idle
<1>8. ASSUME NEW c \in Client, ReadHistory(c) \/ \E t \in Table : Clear(c, t) PROVE CoverInv'
  <2>1. log' = log /\ ~At(c, "append")' /\ \A d \in Client : d # c => client'[d] = client[d]
    BY <1>1, <1>8 DEF ReadHistory, Clear, LogTypeOK, At
  <2>2. QED
    BY <1>1, <2>1, OtherStepKeepsCover
<1>9. ASSUME NEW c \in Client, NEW t \in Table, RunStatement(c, t) \/ StatementFails(c, t)
      PROVE  CoverInv'
  BY <1>2, <1>9 DEF RunStatement, StatementFails
<1>10. CASE UNCHANGED vars
  BY <1>2, <1>10 DEF vars
<1>11. QED
  BY <1>4, <1>5, <1>6, <1>7, <1>8, <1>9, <1>10 DEF Next

(* Whoever is about to append a withdrawal or a first transfer has seen a  *)
(* balance that pays for it, if the log has not moved past what it knows;  *)
(* so the events of the log are covered by the ones before them.           *)
THEOREM CoverSafety == Spec => []CoverInv
<1>1. Init => CoverInv
  BY InitImpliesCover
<1>2. BankInv /\ CoverInv /\ [Next]_vars => CoverInv'
  BY StepKeepsCover
<1>3. QED
  BY <1>1, <1>2, BankSafety, PTL DEF Spec

(* No withdrawal takes more from an account than the events before it      *)
(* leave there, however many commands race: withdraw-money reads every     *)
(* kind of event that changes a balance, and append() refuses it when      *)
(* another came in between.                                                *)
THEOREM WithdrawalsStayCovered == Spec => []WithdrawalsAreCovered
<1>1. CoverInv => WithdrawalsAreCovered
  BY DEF CoverInv
<1>2. QED
  BY <1>1, CoverSafety, PTL

(* Nor does the first transfer from an account.  The one after it may: the *)
(* query of transfer-money leaves out the transfers from its source.       *)
THEOREM FirstTransfersStayCovered == Spec => []FirstTransfersAreCovered
<1>1. CoverInv => FirstTransfersAreCovered
  BY DEF CoverInv
<1>2. QED
  BY <1>1, CoverSafety, PTL
=============================================================================
