----------------------------- MODULE LedgerSums -----------------------------
(***************************************************************************)
(* Facts about ledgers and their totals, and about the rounded divisions   *)
(* the vault prices with.  A total is stated by a table of the partial     *)
(* sums of the ledger over every set of accounts, so that an update of one *)
(* entry is an update of the table and needs no induction.  Of a finite    *)
(* ledger there is one such total, the one SumFunction computes.           *)
(***************************************************************************)
EXTENDS Integers, FiniteSets, Functions, FiniteSetTheorems, WellFoundedInduction, TLAPS

\* table gives the sum of ledger f over every subset of D.
SumTable(D, f, table) ==
    /\ table \in [SUBSET D -> Nat]
    /\ table[{}] = 0
    /\ \A T \in SUBSET D : \A x \in D \ T : table[T \cup {x}] = table[T] + f[x]

\* total is the sum of f over D.
IsSum(D, f, total) ==
    \E table : SumTable(D, f, table) /\ table[D] = total

\* An empty ledger adds up to zero.
LEMMA SumOfZero ==
    ASSUME NEW D
    PROVE  IsSum(D, [x \in D |-> 0], 0)
<1> DEFINE table == [T \in SUBSET D |-> 0]
<1>1. SumTable(D, [x \in D |-> 0], table)
  <2>1. table \in [SUBSET D -> Nat] /\ table[{}] = 0
    OBVIOUS
  <2>2. ASSUME NEW T \in SUBSET D, NEW x \in D \ T
        PROVE  table[T \cup {x}] = table[T] + [y \in D |-> 0][x]
    OBVIOUS
  <2> QED BY <2>1, <2>2 DEF SumTable
<1>2. table[D] = 0
  OBVIOUS
<1> QED BY <1>1, <1>2 DEF IsSum

\* A total is a natural number, and no entry exceeds it.
LEMMA SumBounds ==
    ASSUME NEW D, NEW f \in [D -> Nat], NEW total, IsSum(D, f, total), NEW x \in D
    PROVE  total \in Nat /\ f[x] <= total
<1>1. PICK table : SumTable(D, f, table) /\ table[D] = total
  BY DEF IsSum
<1>2. D \ {x} \in SUBSET D /\ x \in D \ (D \ {x}) /\ (D \ {x}) \cup {x} = D /\ D \in SUBSET D
  OBVIOUS
<1>3. table[D] = table[D \ {x}] + f[x]
  BY <1>1, <1>2 DEF SumTable
<1>4. table[D \ {x}] \in Nat /\ table[D] \in Nat /\ f[x] \in Nat
  BY <1>1, <1>2 DEF SumTable
<1> QED BY <1>1, <1>3, <1>4

\* Writing one entry of a ledger moves its total by the difference.
LEMMA SumOfUpdate ==
    ASSUME NEW D, NEW f \in [D -> Nat], NEW total, IsSum(D, f, total),
           NEW x \in D, NEW v \in Nat
    PROVE  IsSum(D, [f EXCEPT ![x] = v], total - f[x] + v)
<1> DEFINE g == [f EXCEPT ![x] = v]
<1>1. PICK table : SumTable(D, f, table) /\ table[D] = total
  BY DEF IsSum
<1> DEFINE updated == [T \in SUBSET D |-> IF x \in T THEN table[T] - f[x] + v ELSE table[T]]
<1>2. \A T \in SUBSET D : x \in T => table[T] - f[x] \in Nat
  <2>1. SUFFICES ASSUME NEW T \in SUBSET D, x \in T PROVE table[T] - f[x] \in Nat
    OBVIOUS
  <2>2. T \ {x} \in SUBSET D /\ x \in D \ (T \ {x}) /\ (T \ {x}) \cup {x} = T
    BY <2>1
  <2>3. table[T] = table[T \ {x}] + f[x]
    BY <1>1, <2>2 DEF SumTable
  <2>4. table[T \ {x}] \in Nat /\ f[x] \in Nat
    BY <1>1, <2>2 DEF SumTable
  <2> QED BY <2>3, <2>4
<1>3. updated \in [SUBSET D -> Nat]
  <2>1. SUFFICES ASSUME NEW T \in SUBSET D
                 PROVE  (IF x \in T THEN table[T] - f[x] + v ELSE table[T]) \in Nat
    OBVIOUS
  <2>2. table[T] \in Nat
    BY <1>1 DEF SumTable
  <2> QED BY <1>2, <2>2
<1>4. updated[{}] = 0
  BY <1>1 DEF SumTable
<1>5. ASSUME NEW T \in SUBSET D, NEW y \in D \ T
      PROVE  updated[T \cup {y}] = updated[T] + g[y]
  <2>1. T \cup {y} \in SUBSET D
    OBVIOUS
  <2>2. table[T \cup {y}] = table[T] + f[y]
    BY <1>1 DEF SumTable
  <2>3. table[T] \in Nat /\ f[y] \in Nat /\ f[x] \in Nat
    BY <1>1 DEF SumTable
  <2>4. CASE y = x
    <3>1. updated[T \cup {y}] = table[T \cup {y}] - f[x] + v /\ updated[T] = table[T] /\ g[y] = v
      BY <2>1, <2>4
    <3> QED BY <3>1, <2>2, <2>3, <2>4
  <2>5. CASE y # x /\ x \in T
    <3>1. /\ updated[T \cup {y}] = table[T \cup {y}] - f[x] + v
          /\ updated[T] = table[T] - f[x] + v
          /\ g[y] = f[y]
      BY <2>1, <2>5
    <3> HIDE DEF updated, g
    <3> QED BY <3>1, <2>2, <2>3
  <2>6. CASE y # x /\ x \notin T
    <3>1. updated[T \cup {y}] = table[T \cup {y}] /\ updated[T] = table[T] /\ g[y] = f[y]
      BY <2>1, <2>6
    <3> QED BY <3>1, <2>2, <2>3
  <2> QED BY <2>4, <2>5, <2>6
<1>6. SumTable(D, g, updated)
  BY <1>3, <1>4, <1>5 DEF SumTable
<1>7. updated[D] = total - f[x] + v
  BY <1>1
<1> QED BY <1>6, <1>7 DEF IsSum

\* Some member of a set of subsets of a finite set has no other member below it.
LEMMA SmallestSubset ==
    ASSUME NEW D, IsFiniteSet(D), NEW B \in SUBSET (SUBSET D), B # {}
    PROVE  \E T \in B : \A U \in B : U \subseteq T => U = T
<1>1. B \subseteq FiniteSubsetsOf(D)
  BY FS_FiniteSubsetsOfFinite
<1>2. PICK T \in B : \A U \in B : ~(<<U, T>> \in StrictSubsetOrdering(D))
  BY <1>1, FS_StrictSubsetOrderingWellFounded, WFMin
<1>3. ASSUME NEW U \in B, U \subseteq T, U # T PROVE FALSE
  BY <1>2, <1>3 DEF StrictSubsetOrdering
<1> QED BY <1>3

\* The sum the community modules compute is the total the table gives.
LEMMA SumFunctionIsSum ==
    ASSUME NEW D, IsFiniteSet(D), NEW f \in [D -> Nat], NEW total, IsSum(D, f, total)
    PROVE  SumFunction(f) = total
<1>1. PICK table : SumTable(D, f, table) /\ table[D] = total
  BY DEF IsSum
<1> DEFINE next(s) == CHOOSE x \in s : TRUE
           Sums(g) == g = [s \in SUBSET D |-> IF s = {} THEN 0 ELSE f[next(s)] + g[s \ {next(s)}]]
           iter == CHOOSE g : Sums(g)
<1>2. SumFunction(f) = iter[D]
  <2>1. DOMAIN f = D
    OBVIOUS
  <2> QED BY <2>1 DEF SumFunction, SumFunctionOnSet, FoldFunctionOnSet, MapThenFoldSet
<1>3. \A s \in SUBSET D : s # {} =>
        /\ next(s) \in s /\ next(s) \in D
        /\ s \ {next(s)} \in SUBSET D /\ s \ {next(s)} # s
  OBVIOUS
<1> HIDE DEF next
<1>4. ASSUME NEW s \in SUBSET D, s # {}
      PROVE  table[s] = f[next(s)] + table[s \ {next(s)}]
  <2>1. /\ next(s) \in D \ (s \ {next(s)}) /\ (s \ {next(s)}) \cup {next(s)} = s
        /\ s \ {next(s)} \in SUBSET D
    BY <1>3, <1>4
  <2>2. table[s] = table[s \ {next(s)}] + f[next(s)]
    BY <1>1, <2>1 DEF SumTable
  <2>3. table[s \ {next(s)}] \in Nat /\ f[next(s)] \in Nat
    BY <1>1, <2>1 DEF SumTable
  <2> QED BY <2>2, <2>3
<1>5. Sums(table)
  <2>1. table \in [SUBSET D -> Nat] /\ table[{}] = 0
    BY <1>1 DEF SumTable
  <2> QED BY <1>4, <2>1
<1>6. Sums(iter)
  <2> HIDE DEF Sums
  <2> QED BY <1>5
<1> HIDE DEF iter
<1> DEFINE B == {s \in SUBSET D : iter[s] # table[s]}
<1>7. ASSUME B # {} PROVE FALSE
  <2>1. B \in SUBSET (SUBSET D)
    OBVIOUS
  <2>2. \E T \in B : \A U \in B : U \subseteq T => U = T
    <3> HIDE DEF B
    <3> QED BY <1>7, <2>1, SmallestSubset
  <2>3. PICK T \in B : \A U \in B : U \subseteq T => U = T
    BY <2>2
  <2>4. CASE T = {}
    BY <1>1, <1>6, <2>3, <2>4 DEF SumTable
  <2>5. CASE T # {}
    <3>1. T \ {next(T)} \in SUBSET D /\ T \ {next(T)} \notin B
      BY <1>3, <2>3, <2>5
    <3>2. iter[T] = f[next(T)] + iter[T \ {next(T)}]
      BY <1>6, <2>3, <2>5
    <3> QED BY <1>4, <2>3, <2>5, <3>1, <3>2
  <2> QED BY <2>4, <2>5
<1> QED BY <1>1, <1>2, <1>7

\* A finite ledger has partial sums, whichever part of its domain is summed.
LEMMA SumTableExists ==
    ASSUME NEW D, IsFiniteSet(D), NEW f \in [D -> Nat]
    PROVE  \E table : SumTable(D, f, table)
<1> DEFINE Summed(T) == \E table : SumTable(T, f, table)
           B == {T \in SUBSET D : ~Summed(T)}
<1>1. Summed({})
  <2> DEFINE table == [T \in SUBSET {} |-> 0]
  <2>1. SumTable({}, f, table)
    BY DEF SumTable
  <2> QED BY <2>1
<1>2. ASSUME NEW T \in SUBSET D, NEW x \in T, Summed(T \ {x}) PROVE Summed(T)
  <2> DEFINE R == T \ {x}
  <2>1. PICK table : SumTable(R, f, table)
    BY <1>2
  <2>2. /\ table \in [SUBSET R -> Nat] /\ table[{}] = 0 /\ f[x] \in Nat
        /\ \A U \in SUBSET R : \A y \in R \ U : table[U \cup {y}] = table[U] + f[y]
    BY <2>1 DEF SumTable
  <2> DEFINE wider == [U \in SUBSET T |-> IF x \in U THEN table[U \ {x}] + f[x] ELSE table[U]]
  <2>3. \A U \in SUBSET T : U \ {x} \in SUBSET R /\ (x \notin U => U \in SUBSET R)
    OBVIOUS
  <2>4. wider \in [SUBSET T -> Nat]
    <3>1. ASSUME NEW U \in SUBSET T
          PROVE  (IF x \in U THEN table[U \ {x}] + f[x] ELSE table[U]) \in Nat
      <4>1. table[U \ {x}] \in Nat /\ (x \notin U => table[U] \in Nat)
        BY <2>2, <2>3
      <4> QED BY <2>2, <4>1
    <3> QED BY <3>1
  <2>5. wider[{}] = 0
    BY <2>2
  <2>6. ASSUME NEW U \in SUBSET T, NEW y \in T \ U PROVE wider[U \cup {y}] = wider[U] + f[y]
    <3>1. U \cup {y} \in SUBSET T
      OBVIOUS
    <3>2. CASE y = x
      <4>1. (U \cup {y}) \ {x} = U /\ x \notin U
        BY <3>2
      <4> QED BY <3>1, <3>2, <4>1
    <3>3. CASE y # x /\ x \in U
      <4>1. /\ (U \cup {y}) \ {x} = (U \ {x}) \cup {y}
            /\ U \ {x} \in SUBSET R /\ y \in R \ (U \ {x})
        BY <3>3
      <4>2. table[(U \cup {y}) \ {x}] = table[U \ {x}] + f[y]
        BY <2>2, <4>1
      <4>3. wider[U \cup {y}] = table[(U \cup {y}) \ {x}] + f[x] /\ wider[U] = table[U \ {x}] + f[x]
        BY <3>1, <3>3
      <4>4. table[U \ {x}] \in Nat /\ f[x] \in Nat /\ f[y] \in Nat
        BY <2>2, <2>3
      <4> HIDE DEF wider
      <4> QED BY <4>2, <4>3, <4>4
    <3>4. CASE y # x /\ x \notin U
      <4>1. U \in SUBSET R /\ y \in R \ U /\ x \notin U \cup {y}
        BY <3>4
      <4>2. wider[U \cup {y}] = table[U \cup {y}] /\ wider[U] = table[U]
        BY <3>1, <3>4
      <4> HIDE DEF wider, R
      <4> QED BY <2>2, <4>1, <4>2
    <3> QED BY <3>2, <3>3, <3>4
  <2>7. SumTable(T, f, wider)
    <3> HIDE DEF wider
    <3> QED BY <2>4, <2>5, <2>6 DEF SumTable
  <2> QED BY <2>7
<1> HIDE DEF Summed
<1>3. ASSUME B # {} PROVE FALSE
  <2>1. B \in SUBSET (SUBSET D)
    OBVIOUS
  <2>2. \E T \in B : \A U \in B : U \subseteq T => U = T
    <3> HIDE DEF B
    <3> QED BY <1>3, <2>1, SmallestSubset
  <2>3. PICK T \in B : \A U \in B : U \subseteq T => U = T
    BY <2>2
  <2>4. PICK x : x \in T
    BY <1>1, <2>3
  <2>5. T \ {x} \in SUBSET D /\ T \ {x} \subseteq T /\ T \ {x} # T
    BY <2>3, <2>4
  <2> QED BY <1>2, <2>3, <2>4, <2>5
<1>4. Summed(D)
  BY <1>3
<1> QED BY <1>4 DEF Summed

\* What the community modules compute of a finite ledger is its total, and a natural number.
LEMMA SumIsTotal ==
    ASSUME NEW D, IsFiniteSet(D), NEW f \in [D -> Nat]
    PROVE  SumFunction(f) \in Nat /\ IsSum(D, f, SumFunction(f))
<1>1. PICK table : SumTable(D, f, table)
  BY SumTableExists
<1>2. IsSum(D, f, table[D]) /\ table[D] \in Nat
  BY <1>1 DEF IsSum, SumTable
<1> QED BY <1>2, SumFunctionIsSum

\* A larger part of a ledger adds up to no less.
LEMMA SumTableGrows ==
    ASSUME NEW D, IsFiniteSet(D), NEW f \in [D -> Nat], NEW table, SumTable(D, f, table),
           NEW T \in SUBSET D
    PROVE  table[T] <= table[D]
<1> DEFINE B == {V \in SUBSET (D \ T) : ~(table[T] <= table[T \cup V])}
<1>1. /\ table \in [SUBSET D -> Nat]
      /\ \A U \in SUBSET D : \A y \in D \ U : table[U \cup {y}] = table[U] + f[y]
  BY DEF SumTable
<1>2. ASSUME B # {} PROVE FALSE
  <2>1. B \in SUBSET (SUBSET (D \ T)) /\ IsFiniteSet(D \ T)
    BY FS_Subset
  <2>2. \E V \in B : \A U \in B : U \subseteq V => U = V
    <3> HIDE DEF B
    <3> QED BY <1>2, <2>1, SmallestSubset
  <2>3. PICK V \in B : \A U \in B : U \subseteq V => U = V
    BY <2>2
  <2>4. table[T] \in Nat
    BY <1>1
  <2>5. V # {}
    <3>1. ASSUME V = {} PROVE FALSE
      <4>1. table[T \cup V] = table[T]
        BY <3>1
      <4>2. ~(table[T] <= table[T \cup V])
        BY <2>3
      <4> HIDE DEF B
      <4> QED BY <2>4, <4>1, <4>2
    <3> QED BY <3>1
  <2>6. PICK x : x \in V
    BY <2>5
  <2> DEFINE W == T \cup (V \ {x})
  <2>7. V \ {x} \in SUBSET (D \ T) /\ V \ {x} \notin B
    BY <2>3, <2>6
  <2>8. W \in SUBSET D /\ x \in D \ W /\ W \cup {x} = T \cup V
    BY <2>3, <2>6
  <2>9. table[T] <= table[W]
    BY <2>7
  <2>10. table[T \cup V] = table[W] + f[x] /\ table[W] \in Nat /\ f[x] \in Nat
    <3> HIDE DEF W
    <3> QED BY <1>1, <2>8
  <2> HIDE DEF W
  <2> QED BY <2>3, <2>4, <2>9, <2>10
<1>3. D \ T \in SUBSET (D \ T) /\ T \cup (D \ T) = D
  OBVIOUS
<1> QED BY <1>2, <1>3

\* One more entry adds its amount to the total.
LEMMA SumOfOneMore ==
    ASSUME NEW D, IsFiniteSet(D), NEW x, x \notin D,
           NEW f \in [D \cup {x} -> Nat], NEW g \in [D -> Nat], \A y \in D : g[y] = f[y]
    PROVE  SumFunction(f) = SumFunction(g) + f[x]
<1> DEFINE E == D \cup {x}
<1>1. IsFiniteSet(E)
  BY FS_AddElement
<1>2. PICK table : SumTable(E, f, table) /\ table[E] = SumFunction(f)
  BY <1>1, SumIsTotal DEF IsSum
<1> DEFINE part == [T \in SUBSET D |-> table[T]]
<1>3. /\ table \in [SUBSET E -> Nat] /\ table[{}] = 0
      /\ \A U \in SUBSET E : \A y \in E \ U : table[U \cup {y}] = table[U] + f[y]
  BY <1>2 DEF SumTable
<1>4. SumTable(D, g, part)
  <2>1. part \in [SUBSET D -> Nat] /\ part[{}] = 0
    BY <1>3
  <2>2. ASSUME NEW T \in SUBSET D, NEW y \in D \ T PROVE part[T \cup {y}] = part[T] + g[y]
    <3>1. T \cup {y} \in SUBSET D /\ T \in SUBSET E /\ y \in E \ T
      OBVIOUS
    <3> HIDE DEF E
    <3> QED BY <1>3, <3>1
  <2> HIDE DEF part
  <2> QED BY <2>1, <2>2 DEF SumTable
<1>5. SumFunction(g) = table[D]
  <2>1. part[D] = table[D]
    OBVIOUS
  <2> HIDE DEF part
  <2> QED BY <1>4, <2>1, SumFunctionIsSum DEF IsSum
<1>6. D \in SUBSET E /\ x \in E \ D /\ D \cup {x} = E
  OBVIOUS
<1> HIDE DEF E
<1> QED BY <1>2, <1>3, <1>5, <1>6

\* A ledger whose entries are found, one each, in another adds up to no more.
LEMMA SumInjects ==
    ASSUME NEW A, IsFiniteSet(A), NEW B, IsFiniteSet(B),
           NEW f \in [A -> Nat], NEW g \in [B -> Nat], NEW h \in [A -> B],
           \A x, y \in A : h[x] = h[y] => x = y,
           \A x \in A : f[x] = g[h[x]]
    PROVE  SumFunction(f) <= SumFunction(g)
<1>1. PICK table : SumTable(B, g, table) /\ table[B] = SumFunction(g)
  BY SumIsTotal DEF IsSum
<1> DEFINE image(T) == {h[x] : x \in T}
           sums == [T \in SUBSET A |-> table[image(T)]]
<1>2. /\ table \in [SUBSET B -> Nat] /\ table[{}] = 0
      /\ \A U \in SUBSET B : \A y \in B \ U : table[U \cup {y}] = table[U] + g[y]
  BY <1>1 DEF SumTable
<1>3. \A T \in SUBSET A : image(T) \in SUBSET B
  OBVIOUS
<1>4. SumTable(A, f, sums)
  <2>1. sums \in [SUBSET A -> Nat]
    <3> HIDE DEF image
    <3> QED BY <1>2, <1>3
  <2>2. sums[{}] = 0
    <3>1. image({}) = {}
      OBVIOUS
    <3> HIDE DEF image
    <3> QED BY <1>2, <3>1
  <2>3. ASSUME NEW T \in SUBSET A, NEW y \in A \ T PROVE sums[T \cup {y}] = sums[T] + f[y]
    <3>1. image(T \cup {y}) = image(T) \cup {h[y]} /\ h[y] \in B \ image(T) /\ T \cup {y} \in SUBSET A
      OBVIOUS
    <3>2. f[y] = g[h[y]]
      OBVIOUS
    <3> HIDE DEF image
    <3>3. sums[T \cup {y}] = table[image(T) \cup {h[y]}] /\ sums[T] = table[image(T)]
      BY <3>1
    <3>4. table[image(T) \cup {h[y]}] = table[image(T)] + g[h[y]]
      BY <1>2, <1>3, <3>1
    <3> HIDE DEF sums
    <3> QED BY <3>2, <3>3, <3>4
  <2> HIDE DEF sums
  <2> QED BY <2>1, <2>2, <2>3 DEF SumTable
<1>5. SumFunction(f) = table[image(A)]
  <2>1. sums[A] = table[image(A)]
    OBVIOUS
  <2> HIDE DEF sums
  <2> QED BY <1>4, <2>1, SumFunctionIsSum DEF IsSum
<1>6. table[image(A)] <= table[B]
  <2> HIDE DEF image
  <2> QED BY <1>1, <1>3, SumTableGrows
<1> QED BY <1>1, <1>5, <1>6

\* A finite ledger has one total.
LEMMA SumIsUnique ==
    ASSUME NEW D, IsFiniteSet(D), NEW f \in [D -> Nat],
           NEW total, IsSum(D, f, total), NEW other, IsSum(D, f, other)
    PROVE  total = other
  BY SumFunctionIsSum

\* Crediting, debiting or clearing an entry leaves a ledger of naturals.
LEMMA LedgerEntry ==
    ASSUME NEW D, NEW f \in [D -> Nat], NEW x \in D, NEW v \in Nat
    PROVE  /\ [f EXCEPT ![x] = @ + v] \in [D -> Nat]
           /\ [f EXCEPT ![x] = 0] \in [D -> Nat]
           /\ v <= f[x] => [f EXCEPT ![x] = @ - v] \in [D -> Nat]
<1>1. f[x] \in Nat
  OBVIOUS
<1> QED BY <1>1

\* Crediting an entry raises the total by as much.
LEMMA SumOfCredit ==
    ASSUME NEW D, NEW f \in [D -> Nat], NEW total, IsSum(D, f, total),
           NEW x \in D, NEW v \in Nat
    PROVE  IsSum(D, [f EXCEPT ![x] = @ + v], total + v)
<1>1. f[x] \in Nat /\ f[x] + v \in Nat /\ total \in Nat
  BY SumBounds
<1>2. IsSum(D, [f EXCEPT ![x] = f[x] + v], total - f[x] + (f[x] + v))
  BY <1>1, SumOfUpdate
<1>3. total - f[x] + (f[x] + v) = total + v
  BY <1>1
<1> QED BY <1>2, <1>3

\* Debiting an entry lowers the total by as much, and neither goes below zero.
LEMMA SumOfDebit ==
    ASSUME NEW D, NEW f \in [D -> Nat], NEW total, IsSum(D, f, total),
           NEW x \in D, NEW v \in Nat, v <= f[x]
    PROVE  /\ total - v \in Nat
           /\ IsSum(D, [f EXCEPT ![x] = @ - v], total - v)
<1>1. f[x] \in Nat /\ f[x] - v \in Nat /\ total \in Nat /\ f[x] <= total
  BY SumBounds
<1>2. IsSum(D, [f EXCEPT ![x] = f[x] - v], total - f[x] + (f[x] - v))
  BY <1>1, SumOfUpdate
<1>3. total - f[x] + (f[x] - v) = total - v
  BY <1>1
<1> QED BY <1>1, <1>2, <1>3

\* Clearing an entry lowers the total by the entry.
LEMMA SumOfClear ==
    ASSUME NEW D, NEW f \in [D -> Nat], NEW total, IsSum(D, f, total), NEW x \in D
    PROVE  /\ total - f[x] \in Nat
           /\ IsSum(D, [f EXCEPT ![x] = 0], total - f[x])
<1>1. f[x] \in Nat /\ total \in Nat /\ f[x] <= total
  BY SumBounds
<1>2. IsSum(D, [f EXCEPT ![x] = 0], total - f[x] + 0)
  BY <1>1, SumOfUpdate
<1>3. total - f[x] + 0 = total - f[x]
  BY <1>1
<1> QED BY <1>1, <1>2, <1>3

\* Moving v from one entry to another keeps the total.
LEMMA SumOfMove ==
    ASSUME NEW D, NEW f \in [D -> Nat], NEW total, IsSum(D, f, total),
           NEW x \in D, NEW y \in D, x # y, NEW v \in Nat, v <= f[x]
    PROVE  /\ [f EXCEPT ![x] = @ - v, ![y] = @ + v] \in [D -> Nat]
           /\ IsSum(D, [f EXCEPT ![x] = @ - v, ![y] = @ + v], total)
<1> DEFINE g == [f EXCEPT ![x] = @ - v]
<1>1. g \in [D -> Nat]
  OBVIOUS
<1>2. IsSum(D, g, total - v) /\ total - v \in Nat
  BY SumOfDebit
<1>3. total \in Nat /\ total - v + v = total
  BY <1>2, SumBounds
<1>4. [f EXCEPT ![x] = @ - v, ![y] = @ + v] = [g EXCEPT ![y] = @ + v]
  OBVIOUS
<1> HIDE DEF g
<1>5. IsSum(D, [g EXCEPT ![y] = @ + v], total - v + v)
  BY <1>1, <1>2, SumOfCredit
<1>6. [g EXCEPT ![y] = @ + v] \in [D -> Nat]
  BY <1>1
<1> QED BY <1>3, <1>4, <1>5, <1>6

\* Rounded division: the quotient is the largest whole number of shares in a.
LEMMA DivBounds ==
    ASSUME NEW a \in Nat, NEW b \in Nat, b > 0
    PROVE  /\ a \div b \in Nat
           /\ (a \div b) * b <= a
           /\ a < (a \div b) * b + b
  OBVIOUS

\* A part s of S, at most the whole, prices at no more than all of n.
LEMMA ProRataBounds ==
    ASSUME NEW s \in Nat, NEW n \in Nat, NEW S \in Nat, S > 0, s <= S
    PROVE  /\ (s * n) \div S \in Nat
           /\ (s * n) \div S <= n
<1> DEFINE q == (s * n) \div S
<1>1. s * n \in Nat
  OBVIOUS
<1>2. q \in Nat /\ q * S <= s * n
  BY <1>1, DivBounds
<1>3. s * n <= S * n
  OBVIOUS
<1>4. ASSUME q > n PROVE FALSE
  <2>1. q >= n + 1
    BY <1>2, <1>4
  <2>2. q * S >= (n + 1) * S
    BY <1>2, <2>1
  <2>3. (n + 1) * S = n * S + S
    OBVIOUS
  <2> QED BY <1>2, <1>3, <2>2, <2>3
<1> QED BY <1>2, <1>4

\* The entrywise sum of two ledgers has the sum of their totals.
LEMMA SumOfBoth ==
    ASSUME NEW D, IsFiniteSet(D), NEW f \in [D -> Nat], NEW g \in [D -> Nat]
    PROVE  SumFunction([x \in D |-> f[x] + g[x]]) = SumFunction(f) + SumFunction(g)
<1> DEFINE both == [x \in D |-> f[x] + g[x]]
<1>1. PICK t : SumTable(D, f, t) /\ t[D] = SumFunction(f)
  BY SumIsTotal DEF IsSum
<1>2. PICK u : SumTable(D, g, u) /\ u[D] = SumFunction(g)
  BY SumIsTotal DEF IsSum
<1> DEFINE table == [T \in SUBSET D |-> t[T] + u[T]]
<1>3. /\ t \in [SUBSET D -> Nat] /\ u \in [SUBSET D -> Nat] /\ t[{}] = 0 /\ u[{}] = 0
      /\ both \in [D -> Nat]
  BY <1>1, <1>2 DEF SumTable
<1>4. table \in [SUBSET D -> Nat] /\ table[{}] = 0
  BY <1>3
<1>5. ASSUME NEW T \in SUBSET D, NEW x \in D \ T PROVE table[T \cup {x}] = table[T] + both[x]
  <2>1. T \cup {x} \in SUBSET D
    OBVIOUS
  <2>2. t[T \cup {x}] = t[T] + f[x] /\ u[T \cup {x}] = u[T] + g[x]
    BY <1>1, <1>2 DEF SumTable
  <2>3. /\ table[T \cup {x}] = t[T \cup {x}] + u[T \cup {x}] /\ table[T] = t[T] + u[T]
        /\ both[x] = f[x] + g[x]
    BY <2>1
  <2>4. t[T] \in Nat /\ u[T] \in Nat /\ f[x] \in Nat /\ g[x] \in Nat
    BY <1>3
  <2> HIDE DEF table, both
  <2> QED BY <2>2, <2>3, <2>4
<1>6. table[D] = SumFunction(f) + SumFunction(g)
  BY <1>1, <1>2
<1> HIDE DEF table, both
<1>7. IsSum(D, both, table[D])
  BY <1>4, <1>5 DEF IsSum, SumTable
<1>8. SumFunction(both) = table[D]
  BY <1>3, <1>7, SumFunctionIsSum
<1> QED BY <1>6, <1>8 DEF both

\* Multiplication distributes over a sum.
LEMMA Distributes ==
    \A a, b, c \in Nat : c * (a + b) = c * a + c * b /\ c * a \in Nat /\ c * 0 = 0
  OBVIOUS

\* A ledger scaled has its total scaled.
LEMMA SumOfScaled ==
    ASSUME NEW D, IsFiniteSet(D), NEW f \in [D -> Nat], NEW c \in Nat
    PROVE  SumFunction([x \in D |-> c * f[x]]) = c * SumFunction(f)
<1> DEFINE scaled == [x \in D |-> c * f[x]]
<1>1. PICK t : SumTable(D, f, t) /\ t[D] = SumFunction(f)
  BY SumIsTotal DEF IsSum
<1> DEFINE table == [T \in SUBSET D |-> c * t[T]]
<1>2. t \in [SUBSET D -> Nat] /\ t[{}] = 0
  BY <1>1 DEF SumTable
<1>3. scaled \in [D -> Nat]
  BY Distributes
<1>4. table \in [SUBSET D -> Nat] /\ table[{}] = 0
  BY <1>2, Distributes
<1>5. ASSUME NEW T \in SUBSET D, NEW x \in D \ T PROVE table[T \cup {x}] = table[T] + scaled[x]
  <2>1. T \cup {x} \in SUBSET D
    OBVIOUS
  <2>2. t[T \cup {x}] = t[T] + f[x] /\ t[T] \in Nat /\ f[x] \in Nat
    BY <1>1, <1>2 DEF SumTable
  <2>3. table[T \cup {x}] = c * t[T \cup {x}] /\ table[T] = c * t[T] /\ scaled[x] = c * f[x]
    BY <2>1
  <2> HIDE DEF table, scaled
  <2> QED BY <2>2, <2>3, Distributes
<1>6. table[D] = c * SumFunction(f)
  BY <1>1
<1> HIDE DEF table, scaled
<1>7. IsSum(D, scaled, table[D])
  BY <1>4, <1>5 DEF IsSum, SumTable
<1>8. SumFunction(scaled) = table[D]
  BY <1>3, <1>7, SumFunctionIsSum
<1> QED BY <1>6, <1>8 DEF scaled

\* A ledger that holds one at the members of a part counts them.
LEMMA SumOfMembers ==
    ASSUME NEW D, IsFiniteSet(D), NEW M \in SUBSET D
    PROVE  SumFunction([x \in D |-> IF x \in M THEN 1 ELSE 0]) = Cardinality(M)
<1> DEFINE member == [x \in D |-> IF x \in M THEN 1 ELSE 0]
           table == [T \in SUBSET D |-> Cardinality(T \cap M)]
<1>1. member \in [D -> Nat]
  OBVIOUS
<1>2. ASSUME NEW T \in SUBSET D PROVE IsFiniteSet(T \cap M) /\ Cardinality(T \cap M) \in Nat
  <2>1. T \cap M \in SUBSET D
    OBVIOUS
  <2>2. IsFiniteSet(T \cap M)
    BY <2>1, FS_Subset
  <2> QED BY <2>2, FS_CardinalityType
<1>3. table \in [SUBSET D -> Nat]
  BY <1>2
<1>4. table[{}] = 0
  <2>1. {} \cap M = {} /\ {} \in SUBSET D
    OBVIOUS
  <2> QED BY <2>1, FS_EmptySet
<1>5. ASSUME NEW T \in SUBSET D, NEW x \in D \ T PROVE table[T \cup {x}] = table[T] + member[x]
  <2>1. T \cup {x} \in SUBSET D
    OBVIOUS
  <2>2. table[T \cup {x}] = Cardinality((T \cup {x}) \cap M) /\ table[T] = Cardinality(T \cap M)
    BY <2>1
  <2>3. IsFiniteSet(T \cap M) /\ Cardinality(T \cap M) \in Nat
    BY <1>2
  <2>4. CASE x \in M
    <3>1. (T \cup {x}) \cap M = (T \cap M) \cup {x} /\ x \notin T \cap M /\ member[x] = 1
      BY <2>4
    <3>2. Cardinality((T \cap M) \cup {x}) = Cardinality(T \cap M) + 1
      BY <2>3, <3>1, FS_AddElement
    <3> QED BY <2>2, <3>1, <3>2
  <2>5. CASE x \notin M
    <3>1. (T \cup {x}) \cap M = T \cap M /\ member[x] = 0
      BY <2>5
    <3> HIDE DEF table, member
    <3> QED BY <2>2, <2>3, <3>1
  <2> QED BY <2>4, <2>5
<1>6. table[D] = Cardinality(M)
  <2>1. D \cap M = M
    OBVIOUS
  <2> QED BY <2>1
<1> HIDE DEF table, member
<1>7. IsSum(D, member, table[D])
  BY <1>3, <1>4, <1>5 DEF IsSum, SumTable
<1>8. SumFunction(member) = table[D]
  BY <1>1, <1>7, SumFunctionIsSum
<1> QED BY <1>6, <1>8 DEF member

\* A ledger of one amount adds up to the amount once for each entry.
LEMMA SumOfConstant ==
    ASSUME NEW D, IsFiniteSet(D), NEW c \in Nat
    PROVE  SumFunction([x \in D |-> c]) = c * Cardinality(D)
<1> DEFINE ones == [x \in D |-> IF x \in D THEN 1 ELSE 0]
<1>1. SumFunction(ones) = Cardinality(D)
  <2>1. D \in SUBSET D
    OBVIOUS
  <2> QED BY <2>1, SumOfMembers
<1>2. ones \in [D -> Nat]
  OBVIOUS
<1>3. [x \in D |-> c * ones[x]] = [x \in D |-> c]
  OBVIOUS
<1> HIDE DEF ones
<1>4. SumFunction([x \in D |-> c * ones[x]]) = c * SumFunction(ones)
  BY <1>2, SumOfScaled
<1> QED BY <1>1, <1>3, <1>4

\* The total of a ledger is the total of a part and of the rest.
LEMMA SumOfParts ==
    ASSUME NEW D, IsFiniteSet(D), NEW f \in [D -> Nat], NEW M \in SUBSET D
    PROVE  SumFunction(f) = SumFunction(Restrict(f, M)) + SumFunction(Restrict(f, D \ M))
<1> DEFINE N == D \ M
           fm == Restrict(f, M)
           fn == Restrict(f, N)
<1>1. /\ fm \in [M -> Nat] /\ (\A x \in M : fm[x] = f[x])
      /\ fn \in [N -> Nat] /\ (\A x \in N : fn[x] = f[x])
  BY DEF Restrict
<1>2. IsFiniteSet(M) /\ IsFiniteSet(N)
  <2>1. M \in SUBSET D /\ N \in SUBSET D
    OBVIOUS
  <2> HIDE DEF N
  <2> QED BY <2>1, FS_Subset
<1> HIDE DEF fm, fn
<1>3. PICK t : SumTable(M, fm, t) /\ t[M] = SumFunction(fm)
  BY <1>1, <1>2, SumIsTotal DEF IsSum
<1>4. PICK u : SumTable(N, fn, u) /\ u[N] = SumFunction(fn)
  <2> HIDE DEF N
  <2> QED BY <1>1, <1>2, SumIsTotal DEF IsSum
<1> DEFINE table == [T \in SUBSET D |-> t[T \cap M] + u[T \cap N]]
<1>5. t \in [SUBSET M -> Nat] /\ u \in [SUBSET N -> Nat] /\ t[{}] = 0 /\ u[{}] = 0
  BY <1>3, <1>4 DEF SumTable
<1>6. \A T \in SUBSET D : T \cap M \in SUBSET M /\ T \cap N \in SUBSET N
  OBVIOUS
<1>7. table \in [SUBSET D -> Nat]
  <2>1. ASSUME NEW T \in SUBSET D PROVE t[T \cap M] + u[T \cap N] \in Nat
    <3>1. t[T \cap M] \in Nat /\ u[T \cap N] \in Nat
      <4> HIDE DEF N
      <4> QED BY <1>5, <1>6
    <3> QED BY <3>1
  <2> QED BY <2>1
<1>8. table[{}] = 0
  <2>1. {} \cap M = {} /\ {} \cap N = {} /\ {} \in SUBSET D
    OBVIOUS
  <2> HIDE DEF N
  <2> QED BY <1>5, <2>1
<1>9. ASSUME NEW T \in SUBSET D, NEW x \in D \ T PROVE table[T \cup {x}] = table[T] + f[x]
  <2>1. T \cup {x} \in SUBSET D
    OBVIOUS
  <2>2. /\ table[T \cup {x}] = t[(T \cup {x}) \cap M] + u[(T \cup {x}) \cap N]
        /\ table[T] = t[T \cap M] + u[T \cap N]
    BY <2>1
  <2>3. t[T \cap M] \in Nat /\ u[T \cap N] \in Nat /\ f[x] \in Nat
    <3> HIDE DEF N
    <3> QED BY <1>5, <1>6
  <2>4. CASE x \in M
    <3>1. /\ (T \cup {x}) \cap M = (T \cap M) \cup {x} /\ (T \cup {x}) \cap N = T \cap N
          /\ T \cap M \in SUBSET M /\ x \in M \ (T \cap M)
      BY <2>4
    <3>2. t[(T \cap M) \cup {x}] = t[T \cap M] + fm[x]
      BY <1>3, <3>1 DEF SumTable
    <3>3. fm[x] = f[x]
      BY <1>1, <2>4
    <3> HIDE DEF table, N
    <3>4. table[T \cup {x}] = t[(T \cap M) \cup {x}] + u[T \cap N]
      BY ONLY <2>2, <3>1
    <3> QED BY ONLY <2>2, <2>3, <3>2, <3>3, <3>4
  <2>5. CASE x \notin M
    <3>1. /\ (T \cup {x}) \cap N = (T \cap N) \cup {x} /\ (T \cup {x}) \cap M = T \cap M
          /\ T \cap N \in SUBSET N /\ x \in N \ (T \cap N) /\ x \in N
      BY <2>5
    <3> HIDE DEF N
    <3>2. u[(T \cap N) \cup {x}] = u[T \cap N] + fn[x]
      BY <1>4, <3>1 DEF SumTable
    <3>3. fn[x] = f[x]
      BY <1>1, <3>1
    <3> HIDE DEF table
    <3>4. table[T \cup {x}] = t[T \cap M] + u[(T \cap N) \cup {x}]
      BY ONLY <2>2, <3>1
    <3> QED BY ONLY <2>2, <2>3, <3>2, <3>3, <3>4
  <2> QED BY <2>4, <2>5
<1>10. table[D] = SumFunction(fm) + SumFunction(fn)
  <2>1. D \cap M = M /\ D \cap N = N /\ D \in SUBSET D
    OBVIOUS
  <2> HIDE DEF N
  <2> QED BY <1>3, <1>4, <2>1
<1> HIDE DEF table
<1>11. IsSum(D, f, table[D])
  BY <1>7, <1>8, <1>9 DEF IsSum, SumTable
<1>12. SumFunction(f) = table[D]
  BY <1>11, SumFunctionIsSum
<1> QED BY <1>10, <1>12 DEF fm, fn, N

=============================================================================
