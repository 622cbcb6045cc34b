---------------------------- MODULE SumTheorems ----------------------------
(***************************************************************************)
(* Sums over finite sets, as SumFunctionOnSet of module Functions makes    *)
(* them: it takes one element after the other from the set, and tabulates  *)
(* the sums of all subsets in a recursive function.  Induction over finite *)
(* sets is the well-foundedness of strict inclusion, applied to a set of   *)
(* sets instead of a predicate.                                            *)
(***************************************************************************)
EXTENDS FiniteSetTheorems, TLAPS

(***************************************************************************)
(* Induction: what holds of a set when it holds of all smaller ones, holds *)
(* of every subset of a finite set.                                        *)
(***************************************************************************)
LEMMA SubsetInduction ==
  ASSUME NEW S, IsFiniteSet(S), NEW Good,
         \A T \in SUBSET S : (\A U \in SUBSET T : U # T => U \in Good) => T \in Good
  PROVE  \A T \in SUBSET S : T \in Good
  <1>. DEFINE Bad == {T \in SUBSET S : T \notin Good}
              smaller == StrictSubsetOrdering(S)
  <1>1. SUFFICES ASSUME Bad # {} PROVE FALSE
    OBVIOUS
  <1>2. IsWellFoundedOn(smaller, SUBSET S)
    BY FS_StrictSubsetOrderingWellFounded, FS_FiniteSubsetsOfFinite
  <1>3. \E T \in Bad : \A U \in Bad : ~ (<<U, T>> \in smaller)
    <2>1. Bad \subseteq SUBSET S
      OBVIOUS
    <2>. HIDE DEF smaller, Bad
    <2>2. QED
      BY <1>1, <1>2, <2>1, WFMin
  <1>. HIDE DEF smaller
  <1>4. PICK T \in Bad : \A U \in Bad : ~ (<<U, T>> \in smaller)
    BY <1>3
  <1>5. \A U \in SUBSET T : U # T => U \in Good
    BY <1>4 DEF smaller, StrictSubsetOrdering
  <1>6. QED
    BY <1>4, <1>5

(***************************************************************************)
(* The same, one element at a time.                                        *)
(***************************************************************************)
LEMMA ElementInduction ==
  ASSUME NEW S, IsFiniteSet(S), NEW Good, {} \in Good,
         \A T \in SUBSET S, x \in S : T \in Good /\ x \notin T => T \cup {x} \in Good
  PROVE  S \in Good
  <1>1. ASSUME NEW T \in SUBSET S, \A U \in SUBSET T : U # T => U \in Good
        PROVE  T \in Good
    <2>1. CASE T = {}
      BY <2>1
    <2>2. ASSUME NEW x \in T PROVE T \in Good
      <3>1. T \ {x} \in Good /\ T \ {x} \in SUBSET S /\ x \in S /\ x \notin T \ {x}
        BY <1>1
      <3>2. (T \ {x}) \cup {x} = T
        OBVIOUS
      <3>3. (T \ {x}) \cup {x} \in Good
        BY <3>1
      <3>4. QED
        BY <3>2, <3>3
    <2>3. QED
      BY <2>1, <2>2
  <1>2. QED
    BY <1>1, SubsetInduction

-----------------------------------------------------------------------------
(* The table of the sums of all subsets *)

Pick(T) == CHOOSE x \in T : TRUE

Entry(f, sum, T) == IF T = {} THEN 0 ELSE f[Pick(T)] + sum[T \ {Pick(T)}]

Tabulated(f, S, sum) == sum = [T \in SUBSET S |-> Entry(f, sum, T)]

Table(f, S) == CHOOSE sum : Tabulated(f, S, sum)

LEMMA SumIsTabled ==
  ASSUME NEW f, NEW S
  PROVE  SumFunctionOnSet(f, S) = Table(f, S)[S]
  BY DEF SumFunctionOnSet, FoldFunctionOnSet, MapThenFoldSet, Table, Tabulated, Entry, Pick

(***************************************************************************)
(* There is a table: one that is right about sets of n elements becomes    *)
(* right about one more when all its entries are computed again.           *)
(***************************************************************************)
LEMMA TableExists ==
  ASSUME NEW f, NEW S, IsFiniteSet(S)
  PROVE  Tabulated(f, S, Table(f, S))
  <1>. DEFINE Fine(n, sum) ==
                /\ sum = [T \in SUBSET S |-> sum[T]]
                /\ \A T \in SUBSET S : Cardinality(T) <= n => sum[T] = Entry(f, sum, T)
              Good == {U \in SUBSET S : \E sum : Fine(Cardinality(U), sum)}
  <1>1. \A T \in SUBSET S : IsFiniteSet(T) /\ Cardinality(T) \in Nat
                            /\ Cardinality(T) <= Cardinality(S)
    BY FS_Subset, FS_CardinalityType
  <1>2. {} \in Good
    <2>. DEFINE zero == [T \in SUBSET S |-> 0]
    <2>1. \A T \in SUBSET S : Cardinality(T) <= 0 => T = {}
      BY <1>1, FS_EmptySet
    <2>2. Fine(0, zero)
      BY <2>1 DEF Entry
    <2>3. QED
      BY <2>2, FS_EmptySet
  <1>3. ASSUME NEW U \in SUBSET S, NEW x \in S, U \in Good, x \notin U
        PROVE  U \cup {x} \in Good
    <2>. DEFINE n == Cardinality(U)
    <2>1. PICK sum : Fine(n, sum)
      BY <1>3
    <2>. DEFINE more == [T \in SUBSET S |-> Entry(f, sum, T)]
    <2>2. n \in Nat /\ Cardinality(U \cup {x}) = n + 1
      BY <1>1, <1>3, FS_AddElement
    <2>. HIDE DEF n
    <2>3. ASSUME NEW T \in SUBSET S, Cardinality(T) <= n + 1
          PROVE  Entry(f, more, T) = Entry(f, sum, T)
      <3>1. CASE T = {}
        BY <3>1 DEF Entry
      <3>2. CASE T # {}
        <4>. DEFINE V == T \ {Pick(T)}
        <4>1. Pick(T) \in T
          BY <3>2 DEF Pick
        <4>2. V \in SUBSET S /\ Cardinality(V) = Cardinality(T) - 1
          BY <1>1, <4>1, FS_RemoveElement
        <4>3. Cardinality(V) <= n
          BY <1>1, <2>2, <2>3, <4>2
        <4>. HIDE DEF V
        <4>4. more[V] = Entry(f, sum, V) /\ sum[V] = Entry(f, sum, V)
          BY <2>1, <4>2, <4>3
        <4>5. QED
          BY <3>2, <4>4 DEF Entry, V
      <3>3. QED
        BY <3>1, <3>2
    <2>4. Fine(n + 1, more)
      BY <2>3
    <2>5. QED
      BY <2>2, <2>4
  <1>4. S \in Good
    <2>. HIDE DEF Good
    <2>1. QED
      BY <1>2, <1>3, ElementInduction
  <1>5. PICK sum : Fine(Cardinality(S), sum)
    BY <1>4
  <1>6. Tabulated(f, S, sum)
    BY <1>1, <1>5 DEF Tabulated
  <1>7. QED
    BY <1>6 DEF Table

LEMMA TableEntries ==
  ASSUME NEW f, NEW S, IsFiniteSet(S), NEW T \in SUBSET S
  PROVE  Table(f, S)[T] = Entry(f, Table(f, S), T)
  <1>. DEFINE sum == Table(f, S)
  <1>1. sum = [U \in SUBSET S |-> Entry(f, sum, U)]
    BY TableExists DEF Tabulated
  <1>. HIDE DEF sum
  <1>2. sum[T] = Entry(f, sum, T)
    BY <1>1
  <1>3. QED
    BY <1>2 DEF sum

\* The tables of two sets agree on the subsets of both.
LEMMA TablesAgree ==
  ASSUME NEW f, NEW S, IsFiniteSet(S), NEW R \in SUBSET S
  PROVE  \A T \in SUBSET R : Table(f, R)[T] = Table(f, S)[T]
  <1>. DEFINE Good == {T \in SUBSET R : Table(f, R)[T] = Table(f, S)[T]}
  <1>1. IsFiniteSet(R)
    BY FS_Subset
  <1>2. ASSUME NEW T \in SUBSET R, \A U \in SUBSET T : U # T => U \in Good
        PROVE  T \in Good
    <2>1. /\ Table(f, R)[T] = Entry(f, Table(f, R), T)
          /\ Table(f, S)[T] = Entry(f, Table(f, S), T)
      BY <1>1, TableEntries
    <2>2. CASE T = {}
      BY <2>1, <2>2 DEF Entry
    <2>3. CASE T # {}
      <3>1. Pick(T) \in T
        BY <2>3 DEF Pick
      <3>2. T \ {Pick(T)} \in Good
        BY <1>2, <3>1
      <3>3. QED
        BY <2>1, <2>3, <3>2 DEF Entry
    <2>4. QED
      BY <2>2, <2>3
  <1>. HIDE DEF Good
  <1>3. \A T \in SUBSET R : T \in Good
    BY <1>1, <1>2, SubsetInduction
  <1>4. QED
    BY <1>3 DEF Good

(***************************************************************************)
(* It does not matter which element is taken first.                        *)
(***************************************************************************)
LEMMA AnyElementFirst ==
  ASSUME NEW f, NEW S, IsFiniteSet(S), \A x \in S : f[x] \in Int
  PROVE  /\ Table(f, S)[S] \in Int
         /\ \A x \in S : Table(f, S)[S] = f[x] + Table(f, S)[S \ {x}]
  <1>. DEFINE sum == Table(f, S)
              Good == {T \in SUBSET S : /\ sum[T] \in Int
                                        /\ \A x \in T : sum[T] = f[x] + sum[T \ {x}]}
  <1>1. \A T \in SUBSET S : sum[T] = Entry(f, sum, T)
    BY TableEntries
  <1>. HIDE DEF sum
  <1>2. ASSUME NEW T \in SUBSET S, \A U \in SUBSET T : U # T => U \in Good
        PROVE  T \in Good
    <2>1. CASE T = {}
      <3>1. sum[T] = 0
        BY <1>1, <2>1 DEF Entry
      <3>2. QED
        BY <2>1, <3>1
    <2>2. CASE T # {}
      <3>. DEFINE p == Pick(T)
      <3>1. p \in T
        BY <2>2 DEF Pick
      <3>2. sum[T] = f[p] + sum[T \ {p}]
        BY <1>1, <2>2 DEF Entry
      <3>. HIDE DEF p
      <3>3. sum[T \ {p}] \in Int /\ f[p] \in Int
        BY <1>2, <3>1
      <3>4. ASSUME NEW x \in T, x # p
            PROVE  sum[T] = f[x] + sum[T \ {x}]
        <4>. DEFINE rest == (T \ {p}) \ {x}
        <4>1. rest = (T \ {x}) \ {p}
          OBVIOUS
        <4>2. T \ {p} \in Good /\ x \in T \ {p}
          BY <1>2, <3>1, <3>4
        <4>3. sum[T \ {p}] = f[x] + sum[rest]
          BY <4>2
        <4>4. T \ {x} \in Good /\ p \in T \ {x}
          BY <1>2, <3>1, <3>4
        <4>5. sum[T \ {x}] = f[p] + sum[rest]
          BY <4>1, <4>4
        <4>6. rest \in Good
          BY <1>2, <3>1
        <4>7. sum[rest] \in Int /\ f[x] \in Int
          BY <4>6
        <4>. HIDE DEF rest, Good
        <4>8. QED
          BY <3>2, <3>3, <4>3, <4>5, <4>7
      <3>5. sum[T] \in Int
        BY <3>2, <3>3
      <3>6. QED
        BY <3>2, <3>4, <3>5
    <2>3. QED
      BY <2>1, <2>2
  <1>3. S \in Good
    <2>. HIDE DEF Good
    <2>1. QED
      BY <1>2, SubsetInduction
  <1>4. QED
    BY <1>3 DEF sum

-----------------------------------------------------------------------------
(* What is used of sums *)

LEMMA SumEmpty ==
  ASSUME NEW f
  PROVE  SumFunctionOnSet(f, {}) = 0
  BY SumIsTabled, TableEntries, FS_EmptySet DEF Entry

LEMMA SumType ==
  ASSUME NEW f, NEW S, IsFiniteSet(S), \A x \in S : f[x] \in Int
  PROVE  SumFunctionOnSet(f, S) \in Int
  BY SumIsTabled, AnyElementFirst

LEMMA SumAdd ==
  ASSUME NEW f, NEW S, IsFiniteSet(S), NEW x, x \notin S, \A y \in S \cup {x} : f[y] \in Int
  PROVE  SumFunctionOnSet(f, S \cup {x}) = SumFunctionOnSet(f, S) + f[x]
  <1>. DEFINE R == S \cup {x}
  <1>1. IsFiniteSet(R) /\ S \in SUBSET R /\ R \ {x} = S /\ x \in R
    BY FS_AddElement
  <1>2. Table(f, R)[R] = f[x] + Table(f, R)[R \ {x}]
    <2>. HIDE DEF R
    <2>1. \A y \in R : f[y] \in Int
      BY DEF R
    <2>2. QED
      BY <1>1, <2>1, AnyElementFirst
  <1>3. Table(f, S)[S] = Table(f, R)[S]
    BY <1>1, TablesAgree
  <1>4. Table(f, S)[S] \in Int /\ f[x] \in Int
    BY AnyElementFirst
  <1>5. Table(f, R)[R] = Table(f, S)[S] + f[x]
    <2>. HIDE DEF R
    <2>1. Table(f, R)[R] = f[x] + Table(f, R)[S]
      BY <1>1, <1>2
    <2>2. QED
      BY <1>3, <1>4, <2>1
  <1>6. QED
    BY <1>5, SumIsTabled

LEMMA SumOfOne ==
  ASSUME NEW f, NEW a, f[a] \in Int
  PROVE  SumFunctionOnSet(f, {a}) = f[a]
  <1>1. IsFiniteSet({}) /\ a \notin {} /\ \A y \in {} \cup {a} : f[y] \in Int
    BY FS_EmptySet
  <1>2. SumFunctionOnSet(f, {} \cup {a}) = SumFunctionOnSet(f, {}) + f[a]
    BY <1>1, SumAdd
  <1>3. {} \cup {a} = {a}
    OBVIOUS
  <1>4. QED
    BY <1>2, <1>3, SumEmpty

LEMMA SumOfTwo ==
  ASSUME NEW f, NEW a, NEW b, a # b, f[a] \in Int, f[b] \in Int
  PROVE  SumFunctionOnSet(f, {a, b}) = f[a] + f[b]
  <1>1. IsFiniteSet({a}) /\ b \notin {a} /\ \A y \in {a} \cup {b} : f[y] \in Int
    BY FS_Singleton
  <1>2. SumFunctionOnSet(f, {a} \cup {b}) = SumFunctionOnSet(f, {a}) + f[b]
    BY <1>1, SumAdd
  <1>3. {a} \cup {b} = {a, b}
    OBVIOUS
  <1>4. QED
    BY <1>2, <1>3, SumOfOne

LEMMA SumOfThree ==
  ASSUME NEW f, NEW a, NEW b, NEW c, a # b, a # c, b # c,
         f[a] \in Int, f[b] \in Int, f[c] \in Int
  PROVE  SumFunctionOnSet(f, {a, b, c}) = f[a] + f[b] + f[c]
  <1>1. IsFiniteSet({a, b})
    <2>1. IsFiniteSet({a}) /\ {a, b} = {a} \cup {b}
      BY FS_Singleton
    <2>2. IsFiniteSet({a} \cup {b})
      BY <2>1, FS_AddElement
    <2>3. QED
      BY <2>1, <2>2
  <1>2. c \notin {a, b} /\ \A y \in {a, b} \cup {c} : f[y] \in Int
    OBVIOUS
  <1>3. SumFunctionOnSet(f, {a, b} \cup {c}) = SumFunctionOnSet(f, {a, b}) + f[c]
    BY <1>1, <1>2, SumAdd
  <1>4. {a, b} \cup {c} = {a, b, c}
    OBVIOUS
  <1>5. QED
    BY <1>3, <1>4, SumOfTwo

\* Terms that are sums.
LEMMA SumPlus ==
  ASSUME NEW f, NEW g, NEW h, NEW S, IsFiniteSet(S),
         \A x \in S : g[x] \in Int /\ h[x] \in Int /\ f[x] = g[x] + h[x]
  PROVE  SumFunctionOnSet(f, S) = SumFunctionOnSet(g, S) + SumFunctionOnSet(h, S)
  <1>. DEFINE Good == {T \in SUBSET S : SumFunctionOnSet(f, T)
                         = SumFunctionOnSet(g, T) + SumFunctionOnSet(h, T)}
  <1>1. {} \in Good
    BY SumEmpty
  <1>2. ASSUME NEW T \in SUBSET S, NEW x \in S, T \in Good, x \notin T
        PROVE  T \cup {x} \in Good
    <2>1. IsFiniteSet(T) /\ \A y \in T \cup {x} : f[y] \in Int /\ g[y] \in Int /\ h[y] \in Int
      BY FS_Subset
    <2>2. SumFunctionOnSet(g, T) \in Int /\ SumFunctionOnSet(h, T) \in Int
      BY <2>1, SumType
    <2>3. /\ SumFunctionOnSet(f, T \cup {x}) = SumFunctionOnSet(f, T) + f[x]
          /\ SumFunctionOnSet(g, T \cup {x}) = SumFunctionOnSet(g, T) + g[x]
          /\ SumFunctionOnSet(h, T \cup {x}) = SumFunctionOnSet(h, T) + h[x]
      BY <1>2, <2>1, SumAdd
    <2>4. QED
      BY <1>2, <2>1, <2>2, <2>3
  <1>3. S \in Good
    <2>. HIDE DEF Good
    <2>1. QED
      BY <1>1, <1>2, ElementInduction
  <1>4. QED
    BY <1>3

\* Equal terms.
LEMMA SumSame ==
  ASSUME NEW f, NEW g, NEW S, IsFiniteSet(S), \A x \in S : f[x] \in Int /\ f[x] = g[x]
  PROVE  SumFunctionOnSet(f, S) = SumFunctionOnSet(g, S)
  <1>. DEFINE Good == {T \in SUBSET S : SumFunctionOnSet(f, T) = SumFunctionOnSet(g, T)}
  <1>1. {} \in Good
    BY SumEmpty
  <1>2. ASSUME NEW T \in SUBSET S, NEW x \in S, T \in Good, x \notin T
        PROVE  T \cup {x} \in Good
    <2>1. IsFiniteSet(T) /\ \A y \in T \cup {x} : f[y] \in Int /\ g[y] \in Int
      BY FS_Subset
    <2>2. /\ SumFunctionOnSet(f, T \cup {x}) = SumFunctionOnSet(f, T) + f[x]
          /\ SumFunctionOnSet(g, T \cup {x}) = SumFunctionOnSet(g, T) + g[x]
      BY <1>2, <2>1, SumAdd
    <2>3. QED
      BY <1>2, <2>2
  <1>3. S \in Good
    <2>. HIDE DEF Good
    <2>1. QED
      BY <1>1, <1>2, ElementInduction
  <1>4. QED
    BY <1>3

\* Disjoint sets.
LEMMA SumUnion ==
  ASSUME NEW f, NEW S, NEW R, IsFiniteSet(S), IsFiniteSet(R), S \cap R = {},
         \A x \in S \cup R : f[x] \in Int
  PROVE  SumFunctionOnSet(f, S \cup R) = SumFunctionOnSet(f, S) + SumFunctionOnSet(f, R)
  <1>. DEFINE Good == {T \in SUBSET R : SumFunctionOnSet(f, S \cup T)
                         = SumFunctionOnSet(f, S) + SumFunctionOnSet(f, T)}
  <1>0. SumFunctionOnSet(f, S) \in Int
    BY SumType
  <1>1. {} \in Good
    <2>1. S \cup {} = S
      OBVIOUS
    <2>2. QED
      BY <1>0, <2>1, SumEmpty
  <1>2. ASSUME NEW T \in SUBSET R, NEW x \in R, T \in Good, x \notin T
        PROVE  T \cup {x} \in Good
    <2>1. /\ IsFiniteSet(T) /\ IsFiniteSet(S \cup T)
          /\ \A y \in (S \cup T) \cup {x} : f[y] \in Int
      BY FS_Subset, FS_Union
    <2>2. x \notin S \cup T /\ (S \cup T) \cup {x} = S \cup (T \cup {x})
      BY <1>2
    <2>3. /\ SumFunctionOnSet(f, (S \cup T) \cup {x}) = SumFunctionOnSet(f, S \cup T) + f[x]
          /\ SumFunctionOnSet(f, T \cup {x}) = SumFunctionOnSet(f, T) + f[x]
      BY <1>2, <2>1, <2>2, SumAdd
    <2>4. SumFunctionOnSet(f, T) \in Int /\ f[x] \in Int
      BY <2>1, SumType
    <2>5. SumFunctionOnSet(f, S \cup T) = SumFunctionOnSet(f, S) + SumFunctionOnSet(f, T)
      BY <1>2
    <2>6. SumFunctionOnSet(f, S \cup (T \cup {x})) = SumFunctionOnSet(f, S \cup T) + f[x]
      BY <2>2, <2>3
    <2>. HIDE DEF Good
    <2>7. SumFunctionOnSet(f, S \cup (T \cup {x}))
            = SumFunctionOnSet(f, S) + SumFunctionOnSet(f, T \cup {x})
      BY <1>0, <2>3, <2>4, <2>5, <2>6
    <2>8. QED
      BY <2>7 DEF Good
  <1>3. R \in Good
    <2>. HIDE DEF Good
    <2>1. QED
      BY <1>1, <1>2, ElementInduction
  <1>4. QED
    BY <1>3

\* Terms that are zero may be left out.
LEMMA SumOfZeros ==
  ASSUME NEW f, NEW S, IsFiniteSet(S), \A x \in S : f[x] = 0
  PROVE  SumFunctionOnSet(f, S) = 0
  <1>. DEFINE Good == {T \in SUBSET S : SumFunctionOnSet(f, T) = 0}
  <1>1. {} \in Good
    BY SumEmpty
  <1>2. ASSUME NEW T \in SUBSET S, NEW x \in S, T \in Good, x \notin T
        PROVE  T \cup {x} \in Good
    <2>1. SumFunctionOnSet(f, T \cup {x}) = SumFunctionOnSet(f, T) + f[x]
      BY <1>2, SumAdd, FS_Subset
    <2>2. QED
      BY <1>2, <2>1
  <1>3. S \in Good
    <2>. HIDE DEF Good
    <2>1. QED
      BY <1>1, <1>2, ElementInduction
  <1>4. QED
    BY <1>3

LEMMA SumWithoutZeros ==
  ASSUME NEW f, NEW S, IsFiniteSet(S), NEW T \in SUBSET S,
         \A x \in S : f[x] \in Int, \A x \in S \ T : f[x] = 0
  PROVE  SumFunctionOnSet(f, S) = SumFunctionOnSet(f, T)
  <1>1. IsFiniteSet(T) /\ IsFiniteSet(S \ T) /\ T \cup (S \ T) = S /\ T \cap (S \ T) = {}
    BY FS_Subset
  <1>2. SumFunctionOnSet(f, T \cup (S \ T))
          = SumFunctionOnSet(f, T) + SumFunctionOnSet(f, S \ T)
    BY <1>1, SumUnion
  <1>3. SumFunctionOnSet(f, S \ T) = 0 /\ SumFunctionOnSet(f, T) \in Int
    BY <1>1, SumOfZeros, SumType
  <1>4. SumFunctionOnSet(f, S) = SumFunctionOnSet(f, T) + SumFunctionOnSet(f, S \ T)
    BY <1>1, <1>2
  <1>5. QED
    BY <1>3, <1>4

\* Elements may be renamed.
LEMMA SumRenamed ==
  ASSUME NEW f, NEW g, NEW name, NEW S, IsFiniteSet(S),
         \A x, y \in S : name[x] = name[y] => x = y,
         \A x \in S : f[x] \in Int /\ g[name[x]] = f[x]
  PROVE  /\ IsFiniteSet({name[x] : x \in S})
         /\ SumFunctionOnSet(g, {name[x] : x \in S}) = SumFunctionOnSet(f, S)
  <1>. DEFINE Names(T) == {name[x] : x \in T}
              Good == {T \in SUBSET S : /\ IsFiniteSet(Names(T))
                                        /\ SumFunctionOnSet(g, Names(T)) = SumFunctionOnSet(f, T)}
  <1>1. {} \in Good
    <2>1. Names({}) = {}
      OBVIOUS
    <2>2. QED
      BY <2>1, SumEmpty, FS_EmptySet
  <1>2. ASSUME NEW T \in SUBSET S, NEW x \in S, T \in Good, x \notin T
        PROVE  T \cup {x} \in Good
    <2>1. IsFiniteSet(T) /\ \A y \in T \cup {x} : f[y] \in Int
      BY FS_Subset
    <2>2. Names(T \cup {x}) = Names(T) \cup {name[x]} /\ name[x] \notin Names(T)
      BY <1>2
    <2>3. \A z \in Names(T) \cup {name[x]} : g[z] \in Int
      BY <2>1
    <2>. HIDE DEF Names
    <2>4. IsFiniteSet(Names(T)) /\ SumFunctionOnSet(g, Names(T)) = SumFunctionOnSet(f, T)
      BY <1>2
    <2>5. SumFunctionOnSet(g, Names(T) \cup {name[x]}) = SumFunctionOnSet(g, Names(T)) + g[name[x]]
      BY <2>2, <2>3, <2>4, SumAdd
    <2>6. SumFunctionOnSet(f, T \cup {x}) = SumFunctionOnSet(f, T) + f[x]
      BY <1>2, <2>1, SumAdd
    <2>7. IsFiniteSet(Names(T) \cup {name[x]})
      BY <2>4, FS_AddElement
    <2>8. QED
      BY <2>2, <2>4, <2>5, <2>6, <2>7
  <1>3. S \in Good
    <2>. HIDE DEF Good
    <2>1. QED
      BY <1>1, <1>2, ElementInduction
  <1>4. QED
    BY <1>3
=============================================================================
