-------------------------- MODULE ConfinementProofs --------------------------
(***************************************************************************)
(* Proofs about Confinement, for any number of devices, sessions,            *)
(* assignments and workers, and any effects and release dates.               *)
(*                                                                         *)
(* Control is what TypeOK needs to be inductive, and PInv adds what the      *)
(* reminders need.  LInv carries LedgerIsExact: BooksSound compares the row  *)
(* of each session with the sums of the ledger and of what is yet to be      *)
(* logged, EffectsSound says who holds each assignment.  The sums are over    *)
(* finite sets, in an order the library leaves open; what is needed of them  *)
(* is proved first, by induction on the number of elements.                  *)
(***************************************************************************)
EXTENDS Confinement, FiniteSetTheorems, NaturalsInduction, WellFoundedInduction, TLAPS

-----------------------------------------------------------------------------
(* Sums over finite sets, for the ledger.                                    *)

LEMMA LeastExists ==
    ASSUME NEW S \in SUBSET Nat, S # {}
    PROVE  \E m \in S : \A n \in S : m <= n
<1> DEFINE R == {p \in Nat \X Nat : p[1] < p[2]}
<1>1. IsWellFoundedOn(R, Nat)
  BY NatLessThanWellFounded DEF OpToRel
<1>2. PICK m \in S : \A n \in S : ~(<<n, m>> \in R)
  BY <1>1, WFMin
<1>3. \A n \in S : ~(n < m)
  BY <1>2
<1>4. QED
  BY <1>3

\* A set of numbers with the successor of each of its members, and zero, is Nat.
LEMMA Induction ==
    ASSUME NEW P, 0 \in P, \A n \in Nat : n \in P => n + 1 \in P
    PROVE  \A n \in Nat : n \in P
<1> DEFINE N == Nat \ P
<1> SUFFICES ASSUME N # {} PROVE FALSE
  OBVIOUS
<1>1. PICK m \in N : \A n \in N : m <= n
  BY LeastExists
<1>2. m # 0 /\ m - 1 \in Nat /\ m - 1 \notin N
  BY <1>1
<1>3. QED
  BY <1>1, <1>2

(* What SumFunctionOnSet adds up.  Its definition picks an order; these      *)
(* lemmas show that no order matters.                                        *)

Any(s) == CHOOSE x \in s : TRUE
Adds(f, S, g) == g = [s \in SUBSET S |-> IF s = {} THEN 0 ELSE f[Any(s)] + g[s \ {Any(s)}]]

LEMMA SumUnfolds ==
    ASSUME NEW f, NEW S
    PROVE  SumFunctionOnSet(f, S) = (CHOOSE g : Adds(f, S, g))[S]
BY DEF SumFunctionOnSet, FoldFunctionOnSet, MapThenFoldSet, Adds, Any

LEMMA OneLess ==
    ASSUME NEW s, IsFiniteSet(s), NEW x \in s
    PROVE  /\ IsFiniteSet(s \ {x}) /\ Cardinality(s) \in Nat \ {0}
           /\ Cardinality(s \ {x}) = Cardinality(s) - 1
<1>1. IsFiniteSet(s \ {x}) /\ Cardinality(s \ {x}) = IF x \in s THEN Cardinality(s) - 1 ELSE Cardinality(s)
  BY FS_RemoveElement, Zenon
<1>2. Cardinality(s) \in Nat /\ Cardinality(s \ {x}) \in Nat
  BY <1>1, FS_CardinalityType
<1>3. QED
  BY <1>1, <1>2

\* The function the definition picks exists: it is built up by size.
LEMMA AddsExists ==
    ASSUME NEW f, NEW S, IsFiniteSet(S)
    PROVE  \E g : Adds(f, S, g)
<1> DEFINE Upto(n) == {s \in SUBSET S : Cardinality(s) <= n}
           Sums(n, g) == g = [s \in Upto(n) |-> IF s = {} THEN 0 ELSE f[Any(s)] + g[s \ {Any(s)}]]
           P == {n \in Nat : \E g : Sums(n, g)}
<1>1. \A s \in SUBSET S : IsFiniteSet(s) /\ Cardinality(s) \in Nat /\ Cardinality(s) <= Cardinality(S)
  BY FS_Subset, FS_CardinalityType
<1>2. \A s \in SUBSET S : s # {} => /\ Any(s) \in s /\ s \ {Any(s)} \in SUBSET S
                                    /\ Cardinality(s \ {Any(s)}) = Cardinality(s) - 1
  <2> SUFFICES ASSUME NEW s \in SUBSET S, s # {}
               PROVE  /\ Any(s) \in s /\ s \ {Any(s)} \in SUBSET S
                      /\ Cardinality(s \ {Any(s)}) = Cardinality(s) - 1
    OBVIOUS
  <2>1. Any(s) \in s
    BY DEF Any
  <2>2. QED
    BY <1>1, <2>1, OneLess
<1>3. 0 \in P
  <2> DEFINE g == [s \in Upto(0) |-> 0]
  <2>1. \A s \in Upto(0) : s = {}
    BY <1>1, FS_EmptySet
  <2>2. Sums(0, g)
    BY <2>1
  <2>3. QED
    BY <2>2
<1>4. ASSUME NEW n \in Nat, n \in P PROVE n + 1 \in P
  <2>1. PICK g : Sums(n, g)
    BY <1>4
  <2> DEFINE h == [s \in Upto(n + 1) |-> IF s = {} THEN 0 ELSE f[Any(s)] + g[s \ {Any(s)}]]
  <2>2. \A s \in Upto(n) : s \in Upto(n + 1) /\ h[s] = g[s]
    <3> SUFFICES ASSUME NEW s \in Upto(n) PROVE s \in Upto(n + 1) /\ h[s] = g[s]
      OBVIOUS
    <3>1. s \in Upto(n + 1)
      BY <1>1
    <3>2. g[s] = IF s = {} THEN 0 ELSE f[Any(s)] + g[s \ {Any(s)}]
      BY <2>1
    <3>3. QED
      BY <3>1, <3>2
  <2>3. \A s \in Upto(n + 1) : s # {} => s \ {Any(s)} \in Upto(n)
    BY <1>1, <1>2
  <2>4. \A s \in Upto(n + 1) : h[s] = IF s = {} THEN 0 ELSE f[Any(s)] + h[s \ {Any(s)}]
    BY <2>2, <2>3
  <2>5. Sums(n + 1, h)
    <3> DEFINE k == [s \in Upto(n + 1) |-> IF s = {} THEN 0 ELSE f[Any(s)] + h[s \ {Any(s)}]]
    <3>1. \A s \in Upto(n + 1) : h[s] = k[s]
      BY <2>4
    <3>2. h = k
      BY <3>1
    <3>3. QED
      BY <3>2
  <2>6. PICK k : k = h
    OBVIOUS
  <2>7. Sums(n + 1, k)
    BY <2>5, <2>6, Zenon
  <2> HIDE DEF h, Sums
  <2>8. QED
    BY <2>7
<1>5. Cardinality(S) \in P
  <2> HIDE DEF P
  <2>1. \A n \in Nat : n \in P
    BY <1>3, <1>4, Induction
  <2>2. QED
    BY <1>1, <2>1
<1>6. Upto(Cardinality(S)) = SUBSET S
  BY <1>1
<1>7. PICK g : Sums(Cardinality(S), g)
  BY <1>5
<1>8. Adds(f, S, g)
  BY <1>6, <1>7 DEF Adds
<1>9. QED
  BY <1>8

\* Two functions that agree on a set, each with its own sums, have the same sum.
LEMMA AddsAgree ==
    ASSUME NEW f, NEW g, NEW S, NEW T, NEW a, NEW b, Adds(f, S, a), Adds(g, T, b),
           NEW U \in SUBSET (S \cap T), IsFiniteSet(U), \A x \in U : f[x] = g[x]
    PROVE  a[U] = b[U]
<1> DEFINE P == {n \in Nat : \A s \in SUBSET U : Cardinality(s) = n => a[s] = b[s]}
<1>1. \A s \in SUBSET U : IsFiniteSet(s) /\ Cardinality(s) \in Nat /\ (Cardinality(s) = 0 <=> s = {})
  BY FS_Subset, FS_CardinalityType, FS_EmptySet
<1>2. \A s \in SUBSET U : /\ a[s] = IF s = {} THEN 0 ELSE f[Any(s)] + a[s \ {Any(s)}]
                          /\ b[s] = IF s = {} THEN 0 ELSE g[Any(s)] + b[s \ {Any(s)}]
  BY DEF Adds
<1>3. 0 \in P
  BY <1>1, <1>2
<1>4. ASSUME NEW n \in Nat, n \in P PROVE n + 1 \in P
  <2> SUFFICES ASSUME NEW s \in SUBSET U, Cardinality(s) = n + 1 PROVE a[s] = b[s]
    OBVIOUS
  <2>1. s # {} /\ Any(s) \in s
    BY <1>1 DEF Any
  <2>2. s \ {Any(s)} \in SUBSET U /\ Cardinality(s \ {Any(s)}) = n
    BY <1>1, <2>1, OneLess
  <2>3. a[s \ {Any(s)}] = b[s \ {Any(s)}]
    BY <1>4, <2>2
  <2>4. QED
    BY <1>2, <2>1, <2>3
<1>5. Cardinality(U) \in P
  <2> HIDE DEF P
  <2>1. \A n \in Nat : n \in P
    BY <1>3, <1>4, Induction
  <2>2. QED
    BY <1>1, <2>1
<1>6. QED
  BY <1>5

\* The sum over nothing is zero.
LEMMA SumOfNone == ASSUME NEW f PROVE SumFunctionOnSet(f, {}) = 0
<1> DEFINE g == CHOOSE g : Adds(f, {}, g)
<1>1. Adds(f, {}, g)
  BY AddsExists, FS_EmptySet
<1> HIDE DEF g
<1>2. g[{}] = 0
  BY <1>1 DEF Adds
<1>3. QED
  BY <1>2, SumUnfolds DEF g

\* The sum depends on what is added and on nothing else.
LEMMA SumSame ==
    ASSUME NEW f, NEW g, NEW S, IsFiniteSet(S), \A x \in S : f[x] = g[x]
    PROVE  SumFunctionOnSet(f, S) = SumFunctionOnSet(g, S)
<1>1. PICK a : Adds(f, S, a) /\ a = CHOOSE h : Adds(f, S, h)
  BY AddsExists
<1>2. PICK b : Adds(g, S, b) /\ b = CHOOSE h : Adds(g, S, h)
  BY AddsExists
<1>3. a[S] = b[S]
  BY <1>1, <1>2, AddsAgree
<1>4. QED
  BY <1>1, <1>2, <1>3, SumUnfolds

\* The sum by the order the definition picks.
LEMMA SumPicks ==
    ASSUME NEW f, NEW S, IsFiniteSet(S), S # {}
    PROVE  Any(S) \in S /\ SumFunctionOnSet(f, S) = f[Any(S)] + SumFunctionOnSet(f, S \ {Any(S)})
<1> DEFINE R == S \ {Any(S)}
<1>1. IsFiniteSet(R)
  BY FS_Subset
<1>2. PICK a : Adds(f, S, a) /\ a = CHOOSE h : Adds(f, S, h)
  BY AddsExists
<1>3. PICK b : Adds(f, R, b) /\ b = CHOOSE h : Adds(f, R, h)
  BY <1>1, AddsExists
<1>4. a[R] = b[R]
  BY <1>1, <1>2, <1>3, AddsAgree
<1>5. a[S] = f[Any(S)] + a[R]
  BY <1>2 DEF Adds
<1>6. QED
  BY <1>2, <1>3, <1>4, <1>5, SumUnfolds DEF Any

\* Any member may be added last.
LEMMA SumInt ==
    ASSUME NEW f, NEW S, IsFiniteSet(S), \A x \in S : f[x] \in Int
    PROVE  SumFunctionOnSet(f, S) \in Int
<1> DEFINE P == {n \in Nat : \A s \in SUBSET S : Cardinality(s) = n => SumFunctionOnSet(f, s) \in Int}
<1>1. \A s \in SUBSET S : IsFiniteSet(s) /\ Cardinality(s) \in Nat /\ (Cardinality(s) = 0 <=> s = {})
  BY FS_Subset, FS_CardinalityType, FS_EmptySet
<1>2. 0 \in P
  BY <1>1, SumOfNone
<1>3. ASSUME NEW n \in Nat, n \in P PROVE n + 1 \in P
  <2> SUFFICES ASSUME NEW s \in SUBSET S, Cardinality(s) = n + 1
               PROVE  SumFunctionOnSet(f, s) \in Int
    OBVIOUS
  <2>1. s # {} /\ IsFiniteSet(s)
    BY <1>1
  <2>2. Any(s) \in s /\ SumFunctionOnSet(f, s) = f[Any(s)] + SumFunctionOnSet(f, s \ {Any(s)})
    BY <2>1, SumPicks
  <2>3. s \ {Any(s)} \in SUBSET S /\ Cardinality(s \ {Any(s)}) = n
    BY <2>1, <2>2, OneLess
  <2>4. QED
    BY <1>3, <2>2, <2>3
<1>4. Cardinality(S) \in P
  <2> HIDE DEF P
  <2>1. \A n \in Nat : n \in P
    BY <1>2, <1>3, Induction
  <2>2. QED
    BY <1>1, <2>1
<1>5. QED
  BY <1>4

LEMMA SumSplits ==
    ASSUME NEW f, NEW S, IsFiniteSet(S), \A x \in S : f[x] \in Int, NEW y \in S
    PROVE  SumFunctionOnSet(f, S) = f[y] + SumFunctionOnSet(f, S \ {y})
<1> DEFINE Sum(s) == SumFunctionOnSet(f, s)
           P == {n \in Nat : \A s \in SUBSET S : Cardinality(s) = n =>
                                \A x \in s : Sum(s) = f[x] + Sum(s \ {x})}
<1>1. \A s \in SUBSET S : IsFiniteSet(s) /\ Cardinality(s) \in Nat /\ (Cardinality(s) = 0 <=> s = {})
  BY FS_Subset, FS_CardinalityType, FS_EmptySet
<1>2. \A s \in SUBSET S : Sum(s) \in Int
  BY <1>1, SumInt
<1>3. 0 \in P
  BY <1>1
<1>4. ASSUME NEW n \in Nat, n \in P PROVE n + 1 \in P
  <2> SUFFICES ASSUME NEW s \in SUBSET S, Cardinality(s) = n + 1, NEW x \in s
               PROVE  Sum(s) = f[x] + Sum(s \ {x})
    OBVIOUS
  <2>1. PICK c : c = Any(s)
    OBVIOUS
  <2>2. c \in s /\ Sum(s) = f[c] + Sum(s \ {c})
    BY <1>1, <2>1, SumPicks
  <2>3. CASE x = c
    BY <2>2, <2>3
  <2>4. CASE x # c
    <3>1. /\ s \ {c} \in SUBSET S /\ Cardinality(s \ {c}) = n /\ x \in s \ {c}
          /\ s \ {x} \in SUBSET S /\ Cardinality(s \ {x}) = n /\ c \in s \ {x}
      BY <1>1, <2>2, <2>4, OneLess
    <3>2. Sum(s \ {c}) = f[x] + Sum((s \ {c}) \ {x}) /\ Sum(s \ {x}) = f[c] + Sum((s \ {x}) \ {c})
      BY <1>4, <3>1
    <3>3. (s \ {c}) \ {x} = (s \ {x}) \ {c} /\ (s \ {c}) \ {x} \in SUBSET S
      OBVIOUS
    <3>4. PICK r \in Int : r = Sum((s \ {c}) \ {x}) /\ r = Sum((s \ {x}) \ {c})
      BY <1>2, <3>3
    <3>5. PICK p \in Int, q \in Int : p = f[c] /\ q = f[x]
      BY <2>2
    <3>6. Sum(s) = p + (q + r) /\ Sum(s \ {x}) = p + r
      BY <2>2, <3>2, <3>4, <3>5
    <3>7. p + (q + r) = q + (p + r)
      BY <3>4, <3>5
    <3>8. QED
      BY <3>5, <3>6, <3>7
  <2>5. QED
    BY <2>3, <2>4
<1>5. Cardinality(S) \in P
  <2> HIDE DEF P
  <2>1. \A n \in Nat : n \in P
    BY <1>3, <1>4, Induction
  <2>2. QED
    BY <1>1, <2>1
<1>6. QED
  BY <1>5

-----------------------------------------------------------------------------
(* What a statement does to the sums of the ledger.                          *)

\* The ledger keeps what its rows say, but for the mark of the keyholder's review.
SameRow(i) ==
    /\ ledger'[i].session = ledger[i].session /\ ledger'[i].delta = ledger[i].delta
    /\ ledger'[i].reason = ledger[i].reason /\ ledger'[i].cause = ledger[i].cause
SameRows == /\ ledger' \in Seq(Adjustments) /\ DOMAIN ledger' = DOMAIN ledger
            /\ \A i \in DOMAIN ledger : SameRow(i)

\* It gains one row, at its end.
Gains(s, delta, reason, cause) ==
    LET n == Len(ledger) + 1 IN
    /\ ledger' \in Seq(Adjustments)
    /\ n \notin DOMAIN ledger /\ DOMAIN ledger' = DOMAIN ledger \cup {n}
    /\ \A i \in DOMAIN ledger : SameRow(i)
    /\ ledger'[n].session = s /\ ledger'[n].delta = delta
    /\ ledger'[n].reason = reason /\ ledger'[n].cause = cause

LEMMA AppendGains ==
    ASSUME ledger \in Seq(Adjustments), NEW rows \in Seq(Adjustments), Len(rows) = Len(ledger),
           \A i \in DOMAIN ledger :
              /\ rows[i].session = ledger[i].session /\ rows[i].delta = ledger[i].delta
              /\ rows[i].reason = ledger[i].reason /\ rows[i].cause = ledger[i].cause,
           NEW s \in Session, NEW d \in Int, NEW why \in Reasons,
           NEW a \in Assignment \cup {NoAssignment}, NEW b \in BOOLEAN,
           ledger' = Append(rows, [session |-> s, delta |-> d, reason |-> why, cause |-> a,
                                   reviewed |-> b])
    PROVE  Gains(s, d, why, a)
<1> DEFINE row == [session |-> s, delta |-> d, reason |-> why, cause |-> a, reviewed |-> b]
           n == Len(ledger) + 1
<1>1. row \in Adjustments /\ row.session = s /\ row.delta = d /\ row.reason = why /\ row.cause = a
  BY DEF Adjustments
<1> HIDE DEF row
<1>2. /\ Append(rows, row) \in Seq(Adjustments) /\ Len(Append(rows, row)) = n
      /\ \A i \in 1..Len(rows) : Append(rows, row)[i] = rows[i]
      /\ Append(rows, row)[n] = row
  BY <1>1
<1>3. DOMAIN ledger = 1..Len(ledger) /\ DOMAIN rows = 1..Len(ledger) /\ Len(ledger) \in Nat
  OBVIOUS
<1>4. ledger' = Append(rows, row)
  BY DEF row
<1>5. DOMAIN ledger' = 1..n
  BY <1>2, <1>4
<1>6. 1..n = DOMAIN ledger \cup {n} /\ n \notin DOMAIN ledger
  BY <1>3
<1>7. \A i \in DOMAIN ledger : SameRow(i)
  BY <1>2, <1>3, <1>4 DEF SameRow
<1>8. QED
  BY <1>1, <1>2, <1>4, <1>5, <1>6, <1>7 DEF Gains

LEMMA LoggedGains ==
    ASSUME ledger \in Seq(Adjustments), NEW s \in Session, NEW d \in Int, NEW why \in Reasons,
           NEW a \in Assignment \cup {NoAssignment}, NEW b \in BOOLEAN, Logged(s, d, why, a, b)
    PROVE  Gains(s, d, why, a)
BY AppendGains DEF Logged

\* adjust_timer also marks the rows of its session as reviewed.
LEMMA AdjustGains ==
    ASSUME ledger \in Seq(Adjustments), NEW s \in Session, NEW d \in Int, AdjustTimer(s, d)
    PROVE  Gains(s, d, "manual", NoAssignment)
<1> DEFINE rows == [i \in DOMAIN ledger |->
                       [ledger[i] EXCEPT !.reviewed = @ \/ ledger[i].session = s]]
<1>1. DOMAIN ledger = 1..Len(ledger) /\ Len(ledger) \in Nat
  OBVIOUS
<1>2. \A i \in DOMAIN ledger : ledger[i] \in Adjustments
  BY <1>1
<1>3. ASSUME NEW i \in DOMAIN ledger
      PROVE  /\ rows[i] \in Adjustments
             /\ rows[i].session = ledger[i].session /\ rows[i].delta = ledger[i].delta
             /\ rows[i].reason = ledger[i].reason /\ rows[i].cause = ledger[i].cause
  <2>1. PICK mark \in BOOLEAN : mark = (ledger[i].reviewed \/ ledger[i].session = s)
    OBVIOUS
  <2>2. rows[i] = [ledger[i] EXCEPT !.reviewed = mark]
    BY <2>1
  <2>3. QED
    BY <1>2, <2>2 DEF Adjustments
<1>4. rows \in [1..Len(ledger) -> Adjustments]
  BY <1>1, <1>3
<1>5. rows \in Seq(Adjustments) /\ Len(rows) = Len(ledger)
  BY <1>1, <1>4
<1>6. ledger' = Append(rows, [session |-> s, delta |-> d, reason |-> "manual",
                             cause |-> NoAssignment, reviewed |-> TRUE])
  BY DEF AdjustTimer
<1> HIDE DEF rows
<1>7. QED
  BY <1>3, <1>5, <1>6, AppendGains DEF Reasons

LEMMA ReviewKeeps ==
    ASSUME ledger \in Seq(Adjustments), NEW i \in DOMAIN ledger, ReviewAdjustment(i)
    PROVE  SameRows
<1>1. DOMAIN ledger = 1..Len(ledger) /\ Len(ledger) \in Nat
  OBVIOUS
<1>2. PICK row : row = [ledger[i] EXCEPT !.reviewed = TRUE]
  OBVIOUS
<1>3. /\ row \in Adjustments /\ row.session = ledger[i].session /\ row.delta = ledger[i].delta
      /\ row.reason = ledger[i].reason /\ row.cause = ledger[i].cause
  <2>1. ledger[i] \in Adjustments
    BY <1>1
  <2>2. QED
    BY <1>2, <2>1 DEF Adjustments
<1>4. ledger' = [ledger EXCEPT ![i] = row]
  BY <1>2 DEF ReviewAdjustment
<1>5. ledger' \in Seq(Adjustments) /\ DOMAIN ledger' = DOMAIN ledger
  BY <1>1, <1>3, <1>4
<1>6. \A j \in DOMAIN ledger : SameRow(j)
  BY <1>1, <1>3, <1>4 DEF SameRow
<1>7. QED
  BY <1>5, <1>6 DEF SameRows

\* The sum of the rows of s for some reasons, as a sum over a finite set of integers.
LEMMA TotalIs ==
    ASSUME ledger \in Seq(Adjustments), NEW s, NEW R
    PROVE  /\ RowsOf(s, R) \subseteq DOMAIN ledger /\ IsFiniteSet(RowsOf(s, R))
           /\ \A i \in DOMAIN ledger : ledger[i] \in Adjustments /\ ledger[i].delta \in Int
           /\ Total(s, R) \in Int
           /\ RowsOf(s, R) = {} => Total(s, R) = 0
<1>1. DOMAIN ledger = 1..Len(ledger) /\ Len(ledger) \in Nat
  OBVIOUS
<1>2. \A i \in DOMAIN ledger : ledger[i] \in Adjustments /\ ledger[i].delta \in Int
  <2>1. \A i \in DOMAIN ledger : ledger[i] \in Adjustments
    BY <1>1
  <2>2. QED
    BY <2>1 DEF Adjustments
<1>3. PICK S, f : S = RowsOf(s, R) /\ f = [i \in DOMAIN ledger |-> ledger[i].delta]
  OBVIOUS
<1>4. S \subseteq DOMAIN ledger
  BY <1>3 DEF RowsOf
<1>5. IsFiniteSet(S)
  <2>1. IsFiniteSet(DOMAIN ledger)
    BY <1>1, FS_Interval
  <2>2. QED
    BY <1>4, <2>1, FS_Subset
<1>6. \A i \in S : f[i] \in Int
  BY <1>2, <1>3, <1>4
<1>7. SumFunctionOnSet(f, S) \in Int /\ (S = {} => SumFunctionOnSet(f, S) = 0)
  BY <1>5, <1>6, SumInt, SumOfNone
<1>8. QED
  BY <1>2, <1>3, <1>4, <1>5, <1>7 DEF Total

LEMMA TotalKept ==
    ASSUME ledger \in Seq(Adjustments), SameRows, NEW s, NEW R
    PROVE  Total(s, R)' = Total(s, R) /\ RowsOf(s, R)' = RowsOf(s, R)
<1>1. PICK S, T, f, g : /\ S = RowsOf(s, R) /\ f = [i \in DOMAIN ledger |-> ledger[i].delta]
                        /\ T = RowsOf(s, R)' /\ g = [i \in DOMAIN ledger' |-> ledger'[i].delta]
  OBVIOUS
<1>2. Total(s, R) = SumFunctionOnSet(f, S) /\ Total(s, R)' = SumFunctionOnSet(g, T)
  BY <1>1 DEF Total
<1>3. T = S /\ S \subseteq DOMAIN ledger /\ IsFiniteSet(S)
  BY <1>1, TotalIs DEF RowsOf, SameRows, SameRow
<1>4. \A i \in S : f[i] = g[i]
  BY <1>1, <1>3 DEF SameRows, SameRow
<1>5. SumFunctionOnSet(f, S) = SumFunctionOnSet(g, S)
  BY <1>3, <1>4, SumSame
<1>6. Total(s, R)' = Total(s, R)
  BY <1>2, <1>3, <1>5
<1>7. QED
  BY <1>1, <1>3, <1>6

LEMMA TotalGains ==
    ASSUME ledger \in Seq(Adjustments), NEW s0, NEW d \in Int, NEW why, NEW a,
           Gains(s0, d, why, a), NEW s, NEW R
    PROVE  /\ Total(s, R) \in Int
           /\ Total(s, R)' = Total(s, R) + (IF s = s0 /\ why \in R THEN d ELSE 0)
<1> DEFINE n == Len(ledger) + 1
<1>1. PICK S, T, f, g : /\ S = RowsOf(s, R) /\ f = [i \in DOMAIN ledger |-> ledger[i].delta]
                        /\ T = RowsOf(s, R)' /\ g = [i \in DOMAIN ledger' |-> ledger'[i].delta]
  OBVIOUS
<1>2. Total(s, R) = SumFunctionOnSet(f, S) /\ Total(s, R)' = SumFunctionOnSet(g, T)
  BY <1>1 DEF Total
<1>3. /\ S \subseteq DOMAIN ledger /\ IsFiniteSet(S) /\ n \notin S
      /\ T = IF s = s0 /\ why \in R THEN S \cup {n} ELSE S
  <2>1. S \subseteq DOMAIN ledger /\ IsFiniteSet(S) /\ n \notin S
    BY <1>1, TotalIs DEF Gains
  <2>2. \A i \in DOMAIN ledger : i \in T <=> i \in S
    BY <1>1 DEF RowsOf, Gains, SameRow
  <2>3. n \in T <=> s = s0 /\ why \in R
    BY <1>1 DEF RowsOf, Gains
  <2>4. T \subseteq DOMAIN ledger \cup {n}
    BY <1>1 DEF RowsOf, Gains
  <2>5. n \notin DOMAIN ledger
    BY DEF Gains
  <2> HIDE DEF n
  <2>6. CASE s = s0 /\ why \in R
    <3>1. n \in T
      BY <2>3, <2>6
    <3>2. T = S \cup {n}
      BY <2>1, <2>2, <2>4, <2>5, <3>1
    <3>3. QED
      BY <2>1, <2>6, <3>2
  <2>7. CASE ~(s = s0 /\ why \in R)
    <3>1. n \notin T
      BY <2>3, <2>7
    <3>2. T = S
      BY <2>1, <2>2, <2>4, <2>5, <3>1
    <3>3. QED
      BY <2>1, <2>7, <3>2
  <2>8. QED
    BY <2>6, <2>7
<1>4. \A i \in S : f[i] = g[i] /\ g[i] \in Int
  <2>1. \A i \in DOMAIN ledger : ledger[i].delta \in Int
    BY TotalIs
  <2>2. QED
    BY <1>1, <1>3, <2>1 DEF Gains, SameRow
<1>5. g[n] = d
  BY <1>1 DEF Gains
<1>6. SumFunctionOnSet(f, S) = SumFunctionOnSet(g, S) /\ SumFunctionOnSet(g, S) \in Int
  BY <1>3, <1>4, SumSame, SumInt
<1>7. CASE s = s0 /\ why \in R
  <2>1. T = S \cup {n} /\ T \ {n} = S /\ n \in T /\ IsFiniteSet(T)
    BY <1>3, <1>7, FS_AddElement
  <2>2. \A i \in T : g[i] \in Int
    BY <1>4, <1>5, <2>1
  <2>3. SumFunctionOnSet(g, T) = g[n] + SumFunctionOnSet(g, S)
    BY <2>1, <2>2, SumSplits
  <2>4. QED
    BY <1>2, <1>5, <1>6, <1>7, <2>3
<1>8. CASE ~(s = s0 /\ why \in R)
  BY <1>2, <1>3, <1>6, <1>8
<1>9. QED
  BY <1>7, <1>8

-----------------------------------------------------------------------------
(* What is applied and not yet logged.                                       *)

LEMMA UnloggedIs ==
    ASSUME job \in [Worker -> Jobs], job' \in [Worker -> Jobs], NEW s, IsFiniteSet(Logging(s))
    PROVE  \E F, G, S, T :
              /\ F \in [Worker -> Int] /\ G \in [Worker -> Int]
              /\ \A w \in Worker : F[w] = job[w].delta /\ G[w] = job'[w].delta
              /\ S = Logging(s) /\ T = Logging(s)' /\ IsFiniteSet(S)
              /\ S \subseteq Worker /\ T \subseteq Worker
              /\ Unlogged(s) = SumFunctionOnSet(F, S) /\ Unlogged(s)' = SumFunctionOnSet(G, T)
              /\ Unlogged(s) \in Int
<1>1. PICK F, G, S, T : /\ F = [w \in Worker |-> job[w].delta]
                        /\ G = [w \in Worker |-> job'[w].delta]
                        /\ S = Logging(s) /\ T = Logging(s)'
  OBVIOUS
<1>2. S \subseteq Worker /\ T \subseteq Worker
  BY <1>1 DEF Logging
<1>3. F \in [Worker -> Int] /\ G \in [Worker -> Int]
  BY <1>1 DEF Jobs
<1>4. Unlogged(s) = SumFunctionOnSet(F, S) /\ Unlogged(s)' = SumFunctionOnSet(G, T)
  BY <1>1 DEF Unlogged
<1>5. Unlogged(s) \in Int
  BY <1>1, <1>2, <1>3, <1>4, SumInt
<1>6. QED
  BY <1>1, <1>2, <1>3, <1>4, <1>5

LEMMA UnloggedKept ==
    ASSUME job \in [Worker -> Jobs], job' \in [Worker -> Jobs], NEW s, IsFiniteSet(Logging(s)),
           Logging(s)' = Logging(s), \A w \in Logging(s) : job'[w].delta = job[w].delta
    PROVE  /\ IsFiniteSet(Logging(s)') /\ Unlogged(s) \in Int /\ Unlogged(s)' = Unlogged(s)
           /\ Logging(s) = {} => Unlogged(s) = 0
<1>1. PICK F, G, S, T :
              /\ F \in [Worker -> Int] /\ G \in [Worker -> Int]
              /\ \A w \in Worker : F[w] = job[w].delta /\ G[w] = job'[w].delta
              /\ S = Logging(s) /\ T = Logging(s)' /\ IsFiniteSet(S)
              /\ S \subseteq Worker /\ T \subseteq Worker
              /\ Unlogged(s) = SumFunctionOnSet(F, S) /\ Unlogged(s)' = SumFunctionOnSet(G, T)
              /\ Unlogged(s) \in Int
  BY UnloggedIs
<1>2. T = S /\ \A w \in S : F[w] = G[w]
  BY <1>1
<1>3. SumFunctionOnSet(F, S) = SumFunctionOnSet(G, S)
  BY <1>1, <1>2, SumSame
<1>4. S = {} => SumFunctionOnSet(F, S) = 0
  BY SumOfNone
<1>5. QED
  BY <1>1, <1>2, <1>3, <1>4

\* An UPDATE of a session by a direct assignment: its log is due.
LEMMA UnloggedGrows ==
    ASSUME job \in [Worker -> Jobs], job' \in [Worker -> Jobs], NEW s, IsFiniteSet(Logging(s)),
           NEW w \in Worker, w \notin Logging(s), Logging(s)' = Logging(s) \cup {w},
           \A v \in Logging(s) \cup {w} : job'[v].delta = job[v].delta
    PROVE  /\ IsFiniteSet(Logging(s)') /\ Unlogged(s) \in Int
           /\ Unlogged(s)' = Unlogged(s) + job[w].delta
<1>1. PICK F, G, S, T :
              /\ F \in [Worker -> Int] /\ G \in [Worker -> Int]
              /\ \A v \in Worker : F[v] = job[v].delta /\ G[v] = job'[v].delta
              /\ S = Logging(s) /\ T = Logging(s)' /\ IsFiniteSet(S)
              /\ S \subseteq Worker /\ T \subseteq Worker
              /\ Unlogged(s) = SumFunctionOnSet(F, S) /\ Unlogged(s)' = SumFunctionOnSet(G, T)
              /\ Unlogged(s) \in Int
  BY UnloggedIs
<1>2. T = S \cup {w} /\ w \in T /\ T \ {w} = S /\ \A v \in T : F[v] = G[v]
  BY <1>1
<1>3. IsFiniteSet(T)
  BY <1>1, <1>2, FS_AddElement
<1>4. \A v \in T : G[v] \in Int
  BY <1>1
<1>5. SumFunctionOnSet(G, T) = G[w] + SumFunctionOnSet(G, S)
  BY <1>2, <1>3, <1>4, SumSplits
<1>6. SumFunctionOnSet(F, S) = SumFunctionOnSet(G, S)
  BY <1>1, <1>2, SumSame
<1>7. G[w] = job[w].delta /\ job[w].delta \in Int
  BY <1>1, <1>2
<1>8. QED
  BY <1>1, <1>3, <1>5, <1>6, <1>7

\* The log, or the end of the handler before it.
LEMMA UnloggedShrinks ==
    ASSUME job \in [Worker -> Jobs], job' \in [Worker -> Jobs], NEW s, IsFiniteSet(Logging(s)),
           NEW w \in Logging(s), Logging(s)' = Logging(s) \ {w},
           \A v \in Logging(s) \ {w} : job'[v].delta = job[v].delta
    PROVE  /\ IsFiniteSet(Logging(s)') /\ Unlogged(s) \in Int
           /\ Unlogged(s)' = Unlogged(s) - job[w].delta
<1>1. PICK F, G, S, T :
              /\ F \in [Worker -> Int] /\ G \in [Worker -> Int]
              /\ \A v \in Worker : F[v] = job[v].delta /\ G[v] = job'[v].delta
              /\ S = Logging(s) /\ T = Logging(s)' /\ IsFiniteSet(S)
              /\ S \subseteq Worker /\ T \subseteq Worker
              /\ Unlogged(s) = SumFunctionOnSet(F, S) /\ Unlogged(s)' = SumFunctionOnSet(G, T)
              /\ Unlogged(s) \in Int
  BY UnloggedIs
<1>2. T = S \ {w} /\ w \in S /\ \A v \in T : F[v] = G[v]
  BY <1>1
<1>3. IsFiniteSet(T)
  BY <1>1, <1>2, FS_Subset
<1>4. SumFunctionOnSet(F, S) = F[w] + SumFunctionOnSet(F, T)
  BY <1>1, <1>2, SumSplits
<1>5. SumFunctionOnSet(F, T) = SumFunctionOnSet(G, T) /\ SumFunctionOnSet(F, T) \in Int
  BY <1>1, <1>2, <1>3, SumSame, SumInt
<1>6. F[w] = job[w].delta /\ job[w].delta \in Int
  BY <1>1, <1>2
<1>7. QED
  BY <1>1, <1>3, <1>4, <1>5, <1>6

-----------------------------------------------------------------------------
(* The rows of the sessions.                                                 *)

\* A session that was never started has no date and no pause; a pause began in
\* the past, and its message leaves with it; a date has one it started from.
SoundRow(r, time) ==
    /\ r \in Sessions
    /\ r.state = "absent" => r.target = Null /\ r.pausedAt = Null /\ r.stopped = 0
    /\ r.pausedAt # Null => r.pausedAt <= time
    /\ r.message => r.pausedAt # Null
    /\ r.target # Null => r.base # Null
SessionsSound == \A s \in Session : SoundRow(sess[s], now)

\* No session goes back before its start, and none loses its date.
Onward ==
    \A s \in Session :
        /\ sess[s].state # "absent" => sess'[s].state # "absent"
        /\ sess[s].target # Null => sess'[s].target # Null

\* The row of s is written, and becomes r.
Writes(s, r) ==
    /\ sess' = [sess EXCEPT ![s] = r]
    /\ SoundRow(r, now)
    /\ r.state # "absent"
    /\ sess[s].target # Null => r.target # Null

LEMMA WritesKeep ==
    ASSUME TypeOK, SessionsSound, now' = now, NEW s \in Session, NEW r, Writes(s, r)
    PROVE  sess' \in [Session -> Sessions] /\ SessionsSound' /\ Onward
<1>1. /\ sess' = [sess EXCEPT ![s] = r] /\ r \in Sessions /\ SoundRow(r, now)
      /\ r.state # "absent" /\ (sess[s].target # Null => r.target # Null)
  BY DEF Writes, SoundRow
<1>2. \A q \in Session : sess'[q] = IF q = s THEN r ELSE sess[q]
  BY <1>1 DEF TypeOK
<1>3. sess' \in [Session -> Sessions]
  BY <1>1 DEF TypeOK
<1>4. \A q \in Session : SoundRow(sess'[q], now)
  BY <1>1, <1>2 DEF SessionsSound
<1>5. SessionsSound'
  BY <1>4 DEF SessionsSound
<1>6. Onward
  BY <1>1, <1>2 DEF Onward
<1>7. QED
  BY <1>3, <1>5, <1>6

\* What Moved makes of a row, field by field.
LEMMA MovedRow ==
    ASSUME now \in Nat, NEW r, SoundRow(r, now), NEW d \in Int
    PROVE  /\ Moved(r, d) \in Sessions
           /\ Moved(r, d).state = r.state /\ Moved(r, d).pausedAt = r.pausedAt
           /\ Moved(r, d).message = r.message
           /\ Moved(r, d).target # Null /\ Moved(r, d).base # Null
           /\ r.target = Null =>
                 /\ Moved(r, d).target = now + d /\ Moved(r, d).base = now
                 /\ Moved(r, d).stopped = IF r.pausedAt = Null THEN 0 ELSE now - r.pausedAt
           /\ r.target # Null =>
                 /\ r.target \in Int
                 /\ Moved(r, d).target = r.target + d /\ Moved(r, d).base = r.base
                 /\ Moved(r, d).stopped = r.stopped
<1>1. r \in Sessions /\ Null \notin Int
  BY ConfinementAssumption DEF SoundRow
<1>2. CASE r.target = Null
  <2>1. PICK stop : stop = IF r.pausedAt = Null THEN 0 ELSE now - r.pausedAt
    OBVIOUS
  <2>2. stop \in Nat
    BY <1>1, <2>1 DEF Sessions, SoundRow
  <2>3. Moved(r, d) = [r EXCEPT !.target = now + d, !.base = now, !.stopped = stop]
    BY <1>2, <2>1 DEF Moved
  <2>4. now + d \in Time /\ now \in Time /\ now + d # Null /\ now # Null
    BY <1>1 DEF Time
  <2>5. QED
    BY <1>1, <1>2, <2>1, <2>2, <2>3, <2>4 DEF Sessions
<1>3. CASE r.target # Null
  <2>1. r.target \in Int
    BY <1>1, <1>3 DEF Sessions, Time
  <2>2. PICK to : to = r.target + d
    OBVIOUS
  <2>3. to \in Time /\ to # Null
    BY <1>1, <2>1, <2>2 DEF Time
  <2>4. Moved(r, d) = [r EXCEPT !.target = to]
    BY <1>3, <2>2 DEF Moved
  <2>5. QED
    BY <1>1, <1>3, <2>1, <2>2, <2>3, <2>4 DEF Sessions, SoundRow
<1>4. QED
  BY <1>2, <1>3

LEMMA MoveWrites ==
    ASSUME TypeOK, SessionsSound, NEW s \in Session, Open(s), NEW d \in Int,
           sess' = [sess EXCEPT ![s] = Moved(@, d)]
    PROVE  Writes(s, Moved(sess[s], d))
<1>1. now \in Nat /\ SoundRow(sess[s], now) /\ sess[s].state = "open"
  BY DEF TypeOK, SessionsSound, Open
<1>2. PICK r, m : r = sess[s] /\ m = Moved(r, d)
  OBVIOUS
<1>3. /\ m \in Sessions /\ m.state = r.state /\ m.pausedAt = r.pausedAt
      /\ m.message = r.message /\ m.target # Null /\ m.base # Null
  BY <1>1, <1>2, MovedRow
<1>4. SoundRow(m, now)
  BY <1>1, <1>2, <1>3 DEF SoundRow
<1>5. sess' = [sess EXCEPT ![s] = m]
  BY <1>2
<1>6. QED
  BY <1>1, <1>2, <1>3, <1>4, <1>5 DEF Writes

\* The rows the other statements write, field by field.
LEMMA StartWrites ==
    ASSUME TypeOK, SessionsSound, NEW s \in Session, NEW d \in Device, NEW t \in Release,
           Start(s, d, t)
    PROVE  /\ sess[s].state = "absent"
           /\ \E r : /\ Writes(s, r) /\ r.state = "open" /\ r.target = t /\ r.base = t
                     /\ r.pausedAt = Null /\ r.stopped = 0
<1>1. PICK q, r : q = sess[s] /\ r = [q EXCEPT !.state = "open", !.device = d,
                                               !.target = t, !.base = t]
  OBVIOUS
<1>2. SoundRow(q, now) /\ q \in Sessions /\ q.state = "absent"
  BY <1>1 DEF SessionsSound, SoundRow, Start
<1>3. t \in Time
  BY ConfinementAssumption DEF Time
<1>4. /\ r \in Sessions /\ r.state = "open" /\ r.target = t /\ r.base = t
      /\ r.pausedAt = q.pausedAt /\ r.stopped = q.stopped /\ r.message = q.message
  BY <1>1, <1>2, <1>3 DEF Sessions
<1>5. SoundRow(r, now) /\ r.pausedAt = Null /\ r.stopped = 0
  BY <1>2, <1>4 DEF SoundRow
<1>6. sess' = [sess EXCEPT ![s] = r]
  BY <1>1 DEF Start
<1>7. q.target = Null
  BY <1>2 DEF SoundRow
<1>8. QED
  BY <1>1, <1>2, <1>4, <1>5, <1>6, <1>7 DEF Writes

\* Everything of a row but the state, the pause and its message.
SameClock(r, q) == r.target = q.target /\ r.base = q.base /\ r.stopped = q.stopped

LEMMA EndWrites ==
    ASSUME TypeOK, SessionsSound, NEW s \in Session, End(s)
    PROVE  \E r : Writes(s, r) /\ r.state = "ended" /\ SameClock(r, sess[s])
<1>1. PICK q, r : q = sess[s] /\ r = [q EXCEPT !.state = "ended"]
  OBVIOUS
<1>2. SoundRow(q, now) /\ q \in Sessions
  BY <1>1 DEF SessionsSound, SoundRow
<1>3. /\ r \in Sessions /\ r.state = "ended" /\ SameClock(r, q)
      /\ r.pausedAt = q.pausedAt /\ r.message = q.message
  BY <1>1, <1>2 DEF Sessions, SameClock
<1>4. SoundRow(r, now) /\ (q.target # Null => r.target # Null)
  BY <1>2, <1>3 DEF SoundRow, SameClock
<1>5. sess' = [sess EXCEPT ![s] = r]
  BY <1>1 DEF End
<1>6. QED
  BY <1>1, <1>3, <1>4, <1>5 DEF Writes

LEMMA PauseWrites ==
    ASSUME TypeOK, SessionsSound, NEW s \in Session, NEW message \in BOOLEAN, Pause(s, message)
    PROVE  /\ Open(s) /\ sess[s].pausedAt = Null
           /\ \E r : /\ Writes(s, r) /\ r.state = "open" /\ SameClock(r, sess[s])
                     /\ r.pausedAt = now
<1>1. PICK q, r : q = sess[s] /\ r = [q EXCEPT !.pausedAt = now, !.message = message]
  OBVIOUS
<1>2. SoundRow(q, now) /\ q \in Sessions /\ q.state = "open" /\ now \in Nat
  BY <1>1 DEF SessionsSound, SoundRow, TypeOK, Pause, Open
<1>3. r \in Sessions /\ r.state = "open" /\ SameClock(r, q) /\ r.pausedAt = now
  BY <1>1, <1>2 DEF Sessions, SameClock
<1>4. SoundRow(r, now) /\ (q.target # Null => r.target # Null)
  BY <1>2, <1>3, ConfinementAssumption DEF SoundRow, SameClock
<1>5. sess' = [sess EXCEPT ![s] = r]
  BY <1>1 DEF Pause
<1>6. QED
  BY <1>1, <1>3, <1>4, <1>5 DEF Writes, Pause, Paused

LEMMA MessageWrites ==
    ASSUME TypeOK, SessionsSound, NEW s \in Session, NEW message \in BOOLEAN,
           SetPauseMessage(s, message)
    PROVE  /\ Open(s)
           /\ \E r : /\ Writes(s, r) /\ r.state = "open" /\ SameClock(r, sess[s])
                     /\ r.pausedAt = sess[s].pausedAt
<1>1. PICK q, r : q = sess[s] /\ r = [q EXCEPT !.message = message]
  OBVIOUS
<1>2. SoundRow(q, now) /\ q \in Sessions /\ q.state = "open" /\ q.pausedAt # Null
  BY <1>1 DEF SessionsSound, SoundRow, SetPauseMessage, Open, Paused
<1>3. r \in Sessions /\ r.state = "open" /\ SameClock(r, q) /\ r.pausedAt = q.pausedAt
  BY <1>1, <1>2 DEF Sessions, SameClock
<1>4. SoundRow(r, now) /\ (q.target # Null => r.target # Null)
  BY <1>2, <1>3 DEF SoundRow, SameClock
<1>5. sess' = [sess EXCEPT ![s] = r]
  BY <1>1 DEF SetPauseMessage
<1>6. QED
  BY <1>1, <1>3, <1>4, <1>5 DEF Writes, SetPauseMessage

\* A pause of an open-ended session is not credited; any other moves the date and is logged.
LEMMA ResumeWrites ==
    ASSUME TypeOK, SessionsSound, NEW s \in Session, Resume(s)
    PROVE  /\ Open(s) /\ sess[s].pausedAt \in Nat /\ now - sess[s].pausedAt \in Nat
           /\ \E r : /\ Writes(s, r) /\ r.state = "open" /\ r.pausedAt = Null
                     /\ r.base = sess[s].base /\ r.stopped = sess[s].stopped
                     /\ \/ /\ sess[s].target = Null /\ r.target = Null
                           /\ UNCHANGED ledger
                        \/ /\ sess[s].target \in Int
                           /\ r.target = sess[s].target + (now - sess[s].pausedAt)
                           /\ Gains(s, now - sess[s].pausedAt, "clock_pause", NoAssignment)
<1>1. PICK q, e : q = sess[s] /\ e = now - sess[s].pausedAt
  OBVIOUS
<1>2. /\ SoundRow(q, now) /\ q \in Sessions /\ q.state = "open" /\ q.pausedAt # Null
      /\ now \in Nat /\ ledger \in Seq(Adjustments)
  BY <1>1 DEF SessionsSound, SoundRow, TypeOK, Resume, Open, Paused
<1>3. q.pausedAt \in Nat /\ e \in Nat
  BY <1>1, <1>2 DEF SoundRow, Sessions
<1>4. CASE q.target = Null
  <2>1. PICK r : r = [q EXCEPT !.pausedAt = Null, !.message = FALSE]
    OBVIOUS
  <2>2. /\ r \in Sessions /\ r.state = "open" /\ r.pausedAt = Null /\ r.message = FALSE
        /\ SameClock(r, q)
    BY <1>2, <2>1 DEF Sessions, SameClock
  <2>3. SoundRow(r, now)
    BY <1>2, <2>2 DEF SoundRow, SameClock
  <2>4. sess' = [sess EXCEPT ![s] = r] /\ UNCHANGED ledger
    BY <1>1, <1>4, <2>1 DEF Resume
  <2>5. QED
    BY <1>1, <1>2, <1>3, <1>4, <2>2, <2>3, <2>4 DEF Writes, SameClock, Open
<1>5. CASE q.target # Null
  <2>1. q.target \in Int
    BY <1>2, <1>5 DEF Sessions, Time
  <2>2. PICK to : to = q.target + e
    OBVIOUS
  <2>3. to \in Int /\ to \in Time /\ to # Null
    BY <1>3, <2>1, <2>2, ConfinementAssumption DEF Time
  <2>4. PICK r : r = [q EXCEPT !.pausedAt = Null, !.message = FALSE, !.target = to]
    OBVIOUS
  <2>5. /\ r \in Sessions /\ r.state = "open" /\ r.pausedAt = Null /\ r.message = FALSE
        /\ r.target = to /\ r.base = q.base /\ r.stopped = q.stopped
    BY <1>2, <2>3, <2>4 DEF Sessions
  <2>6. SoundRow(r, now)
    BY <1>2, <1>5, <2>5 DEF SoundRow
  <2>7. /\ sess' = [sess EXCEPT ![s] = r]
        /\ Logged(s, e, "clock_pause", NoAssignment, TRUE)
    BY <1>1, <1>5, <2>2, <2>4 DEF Resume
  <2>8. Gains(s, e, "clock_pause", NoAssignment)
    <3>1. e \in Int /\ "clock_pause" \in Reasons
      BY <1>3 DEF Reasons
    <3>2. NoAssignment \in Assignment \cup {NoAssignment} /\ TRUE \in BOOLEAN
      OBVIOUS
    <3>3. QED
      BY <1>2, <2>7, <3>1, <3>2, LoggedGains
  <2>9. Writes(s, r)
    BY <2>3, <2>5, <2>6, <2>7 DEF Writes
  <2>10. QED
    BY <1>1, <1>2, <1>3, <2>1, <2>2, <2>5, <2>8, <2>9 DEF Open
<1>6. QED
  BY <1>4, <1>5

-----------------------------------------------------------------------------
(* The direct assignments.                                                   *)

\* What a direct assignment is about to write to is a session that was started, and what
\* it is about to log has moved a date.
JobsSound ==
    \A w \in Worker :
        /\ job[w].step = "idle" <=> job[w].cause = NoAssignment
        /\ job[w].step \in {"update", "log"} =>
              job[w].session \in Session /\ sess[job[w].session].state # "absent"
        /\ job[w].step = "log" => sess[job[w].session].target # Null

\* The UPDATE of a direct assignment: what Moved makes of the row, if nothing else has
\* happened to the session since it was read, and another date if something has.
LEMMA UpdateWrites ==
    ASSUME TypeOK, SessionsSound, JobsSound, NEW w \in Worker, DirectUpdate(w)
    PROVE  \E s, d, r, m :
              /\ s \in Session /\ d \in Int
              /\ s = job[w].session /\ d = job[w].delta /\ m = Moved(sess[s], d)
              /\ Writes(s, r) /\ r.target # Null
              /\ r.state = sess[s].state /\ r.pausedAt = sess[s].pausedAt
              /\ r.stopped = m.stopped /\ r.base = m.base
              /\ torn' = IF sess[s].state = "open" /\ sess[s].target = job[w].target
                         THEN torn ELSE torn \cup {s}
              /\ s \notin torn' => sess[s].state = "open" /\ r.target = m.target
<1>1. job[w] \in Jobs /\ job[w].step = "update"
  BY DEF TypeOK, DirectUpdate
<1>2. PICK s, d, q, m : s = job[w].session /\ d = job[w].delta /\ q = sess[s] /\ m = Moved(q, d)
  OBVIOUS
<1>3. /\ s \in Session /\ d \in Int /\ q.state # "absent" /\ SoundRow(q, now) /\ q \in Sessions
      /\ now \in Nat
  BY <1>1, <1>2 DEF JobsSound, Jobs, SessionsSound, SoundRow, TypeOK
<1>4. PICK to : to = (IF job[w].target = Null THEN now ELSE job[w].target) + d
  OBVIOUS
<1>5. to \in Int /\ to \in Time /\ to # Null
  <2>1. job[w].target \in Time
    BY <1>1 DEF Jobs
  <2>2. QED
    BY <1>3, <1>4, <2>1, ConfinementAssumption DEF Time
<1>6. PICK r : r = [m EXCEPT !.target = to]
  OBVIOUS
<1>7. /\ m \in Sessions /\ m.state = q.state /\ m.pausedAt = q.pausedAt /\ m.message = q.message
      /\ m.base # Null
  BY <1>2, <1>3, MovedRow
<1>8. /\ r \in Sessions /\ r.state = q.state /\ r.pausedAt = q.pausedAt /\ r.message = q.message
      /\ r.target = to /\ r.base = m.base /\ r.stopped = m.stopped
  BY <1>5, <1>6, <1>7 DEF Sessions
<1>9. Writes(s, r)
  <2>1. SoundRow(r, now)
    BY <1>3, <1>7, <1>8 DEF SoundRow
  <2>2. sess' = [sess EXCEPT ![s] = r]
    BY <1>2, <1>4, <1>6 DEF DirectUpdate
  <2>3. QED
    BY <1>2, <1>3, <1>5, <1>8, <2>1, <2>2 DEF Writes
<1>10. torn' = IF q.state = "open" /\ q.target = job[w].target THEN torn ELSE torn \cup {s}
  BY <1>2 DEF DirectUpdate, Open
<1>11. ASSUME s \notin torn' PROVE q.state = "open" /\ r.target = m.target
  <2>1. q.state = "open" /\ q.target = job[w].target
    BY <1>10, <1>11
  <2>2. m.target = to
    BY <1>2, <1>3, <1>4, <2>1, MovedRow
  <2>3. QED
    BY <1>8, <2>1, <2>2
<1>12. /\ s \in Session /\ d \in Int
       /\ s = job[w].session /\ d = job[w].delta /\ m = Moved(sess[s], d)
       /\ Writes(s, r) /\ r.target # Null
       /\ r.state = sess[s].state /\ r.pausedAt = sess[s].pausedAt
       /\ r.stopped = m.stopped /\ r.base = m.base
       /\ torn' = IF sess[s].state = "open" /\ sess[s].target = job[w].target
                  THEN torn ELSE torn \cup {s}
       /\ s \notin torn' => sess[s].state = "open" /\ r.target = m.target
  BY <1>2, <1>3, <1>5, <1>8, <1>9, <1>10, <1>11
<1>13. QED
  BY ONLY <1>12, ZenonT(60)

\* The clock of a session that stands has stood for one second more.
LEMMA TickKeeps ==
    ASSUME TypeOK, SessionsSound, Tick
    PROVE  /\ sess' \in [Session -> Sessions] /\ SessionsSound' /\ Onward
           /\ now' = now + 1
           /\ \A s \in Session :
                 /\ sess'[s].state = sess[s].state /\ sess'[s].target = sess[s].target
                 /\ sess'[s].base = sess[s].base /\ sess'[s].pausedAt = sess[s].pausedAt
                 /\ sess'[s].stopped = IF sess[s].state = "open" /\ sess[s].pausedAt # Null
                                          /\ sess[s].target # Null
                                       THEN sess[s].stopped + 1 ELSE sess[s].stopped
                 /\ sess[s].state # "open" => sess'[s] = sess[s]
<1>1. now \in Nat /\ now' = now + 1 /\ sess \in [Session -> Sessions]
  BY DEF TypeOK, Tick
<1>2. ASSUME NEW s \in Session
      PROVE  /\ sess'[s] \in Sessions
             /\ sess'[s].state = sess[s].state /\ sess'[s].target = sess[s].target
             /\ sess'[s].base = sess[s].base /\ sess'[s].pausedAt = sess[s].pausedAt
             /\ sess'[s].message = sess[s].message
             /\ sess'[s].stopped = IF sess[s].state = "open" /\ sess[s].pausedAt # Null
                                      /\ sess[s].target # Null
                                   THEN sess[s].stopped + 1 ELSE sess[s].stopped
             /\ sess[s].state # "open" => sess'[s] = sess[s]
  <2>1. sess'[s] = IF sess[s].state = "open" /\ sess[s].pausedAt # Null /\ sess[s].target # Null
                   THEN [sess[s] EXCEPT !.stopped = @ + 1] ELSE sess[s]
    BY DEF Tick, Open, Paused
  <2>2. sess[s] \in Sessions /\ sess[s].stopped + 1 \in Nat
    BY <1>1 DEF Sessions
  <2>3. QED
    BY <2>1, <2>2 DEF Sessions
<1>3. sess' \in [Session -> Sessions]
  <2>1. sess' = [s \in Session |-> sess'[s]]
    BY DEF Tick
  <2>2. QED
    BY <1>2, <2>1
<1>4. ASSUME NEW s \in Session PROVE SoundRow(sess'[s], now')
  <2>1. SoundRow(sess[s], now) /\ sess[s] \in Sessions
    BY DEF SessionsSound, SoundRow
  <2>2. sess'[s].pausedAt # Null => sess'[s].pausedAt <= now'
    <3>1. sess[s].pausedAt # Null => sess[s].pausedAt \in Nat /\ sess[s].pausedAt <= now
      BY <2>1 DEF SoundRow, Sessions
    <3>2. QED
      BY <1>1, <1>2, <3>1
  <2>3. QED
    BY <1>2, <2>1, <2>2 DEF SoundRow
<1>5. SessionsSound'
  BY <1>4 DEF SessionsSound
<1>6. QED
  BY <1>1, <1>2, <1>3, <1>5 DEF Onward

\* A job that is left alone stays sound, and so does one replaced by a sound one.
LEMMA JobsKept ==
    ASSUME TypeOK, JobsSound, Onward, UNCHANGED job
    PROVE  JobsSound'
<1>1. ASSUME NEW w \in Worker
      PROVE  /\ job[w].step = "idle" <=> job[w].cause = NoAssignment
             /\ job[w].step \in {"update", "log"} =>
                   job[w].session \in Session /\ sess'[job[w].session].state # "absent"
             /\ job[w].step = "log" => sess'[job[w].session].target # Null
  BY DEF JobsSound, Onward
<1>2. QED
  BY <1>1 DEF JobsSound

LEMMA JobsReplaced ==
    ASSUME TypeOK, JobsSound, Onward, NEW w \in Worker, NEW j \in Jobs,
           job' = [job EXCEPT ![w] = j],
           j.step = "idle" <=> j.cause = NoAssignment,
           j.step \in {"update", "log"} =>
              j.session \in Session /\ sess'[j.session].state # "absent",
           j.step = "log" => sess'[j.session].target # Null
    PROVE  job' \in [Worker -> Jobs] /\ JobsSound'
<1>1. job' \in [Worker -> Jobs] /\ \A v \in Worker : job'[v] = IF v = w THEN j ELSE job[v]
  BY DEF TypeOK
<1>2. ASSUME NEW v \in Worker
      PROVE  /\ job'[v].step = "idle" <=> job'[v].cause = NoAssignment
             /\ job'[v].step \in {"update", "log"} =>
                   job'[v].session \in Session /\ sess'[job'[v].session].state # "absent"
             /\ job'[v].step = "log" => sess'[job'[v].session].target # Null
  <2>1. CASE v = w
    BY <1>1, <2>1
  <2>2. CASE v # w
    BY <1>1, <2>2 DEF JobsSound, Onward
  <2>3. QED
    BY <2>1, <2>2
<1>3. QED
  BY <1>1, <1>2 DEF JobsSound

\* What each statement makes of its job, field by field.
LEMMA InsertJob ==
    ASSUME TypeOK, NEW w \in Worker, NEW a \in Assignment, NEW d \in Effect, DirectInsert(w, a, d)
    PROVE  \E j \in Jobs : /\ job' = [job EXCEPT ![w] = j] /\ j.step = "read"
                           /\ j.cause = a /\ j.session = NoSession
<1>1. PICK j : j = [Idle EXCEPT !.step = "read", !.cause = a, !.delta = d]
  OBVIOUS
<1>2. d \in Int
  BY ConfinementAssumption
<1>3. j \in Jobs /\ j.step = "read" /\ j.cause = a /\ j.session = NoSession
  BY <1>1, <1>2 DEF Jobs, Idle, Time
<1>4. QED
  BY <1>1, <1>3 DEF DirectInsert

LEMMA IdleJob == Idle \in Jobs /\ Idle.step = "idle" /\ Idle.cause = NoAssignment
BY DEF Idle, Jobs, Time

LEMMA ReadJob ==
    ASSUME TypeOK, NEW w \in Worker, NEW s \in Session, job[w].step = "read",
           job' = [job EXCEPT ![w].step = "update", ![w].session = s, ![w].target = sess[s].target]
    PROVE  \E j \in Jobs : /\ job' = [job EXCEPT ![w] = j] /\ j.step = "update"
                           /\ j.cause = job[w].cause /\ j.session = s
<1>1. PICK j : j = [job[w] EXCEPT !.step = "update", !.session = s, !.target = sess[s].target]
  OBVIOUS
<1>2. job[w] \in Jobs /\ sess[s].target \in Time
  BY DEF TypeOK, Sessions
<1>3. j \in Jobs /\ j.step = "update" /\ j.cause = job[w].cause /\ j.session = s
  BY <1>1, <1>2 DEF Jobs
<1>4. QED
  BY <1>1, <1>3

LEMMA UpdateJob ==
    ASSUME TypeOK, NEW w \in Worker, DirectUpdate(w)
    PROVE  \E j \in Jobs : /\ job' = [job EXCEPT ![w] = j] /\ j.step = "log"
                           /\ j.cause = job[w].cause /\ j.session = job[w].session
                           /\ j.delta = job[w].delta
<1>1. PICK j : j = [job[w] EXCEPT !.step = "log"]
  OBVIOUS
<1>2. job[w] \in Jobs
  BY DEF TypeOK
<1>3. /\ j \in Jobs /\ j.step = "log" /\ j.cause = job[w].cause /\ j.session = job[w].session
      /\ j.delta = job[w].delta
  BY <1>1, <1>2 DEF Jobs
<1>4. QED
  BY <1>1, <1>3 DEF DirectUpdate

-----------------------------------------------------------------------------
(* Type correctness.  It needs the order of the pauses and the clock, and     *)
(* what the jobs know of the sessions they are about to write.               *)

Control == TypeOK /\ SessionsSound /\ JobsSound

\* A statement that writes the row of one session, and no job.
LEMMA SessionStatement ==
    ASSUME Control, NEW s \in Session, NEW r, Writes(s, r), ledger' \in Seq(Adjustments),
           applied' \in SUBSET Assignment, dry' \in SUBSET Assignment,
           UNCHANGED <<now, link, device, job, sweep, torn>>
    PROVE  Control' /\ Onward
<1>1. sess' \in [Session -> Sessions] /\ SessionsSound' /\ Onward
  BY WritesKeep DEF Control
<1>2. JobsSound'
  BY <1>1, JobsKept DEF Control
<1>3. TypeOK'
  BY <1>1 DEF Control, TypeOK, sweep
<1>4. QED
  BY <1>1, <1>2, <1>3 DEF Control

\* A statement that writes no session.
LEMMA OtherStatement ==
    ASSUME TypeOK, SessionsSound, UNCHANGED <<now, sess>>
    PROVE  SessionsSound' /\ Onward
BY DEF SessionsSound, Onward

\* A statement that writes neither a session nor a job.
LEMMA QuietStatement ==
    ASSUME Control, TypeOK', UNCHANGED <<now, sess, job>>
    PROVE  Control' /\ Onward
BY OtherStatement, JobsKept DEF Control

LEMMA ControlRoute ==
    ASSUME Control, Route
    PROVE  Control' /\ Onward
<1> USE DEF Control
<1>1. ASSUME NEW d \in Device, AddDevice(d) \/ RetireDevice(d)
      PROVE  Control' /\ Onward
  <2>1. /\ device' \in [Device -> {"absent", "kept", "retired"}]
        /\ UNCHANGED <<now, link, locks, applied, job, sweep, history>>
    BY <1>1 DEF TypeOK, AddDevice, RetireDevice, InsertDevice, Retire, SetDevice
  <2>2. TypeOK'
    BY <2>1 DEF TypeOK, locks, sweep, history
  <2>3. QED
    BY <2>1, <2>2, QuietStatement DEF locks
<1>2. ASSUME NEW s \in Session, NEW d \in Device, NEW t \in Release, Start(s, d, t)
      PROVE  Control' /\ Onward
  <2>1. PICK r : Writes(s, r)
    BY <1>2, StartWrites
  <2>2. QED
    BY <1>2, <2>1, SessionStatement DEF TypeOK, Start, history
<1>3. ASSUME NEW s \in Session, End(s)
      PROVE  Control' /\ Onward
  <2>1. PICK r : Writes(s, r)
    BY <1>3, EndWrites
  <2>2. QED
    BY <1>3, <2>1, SessionStatement DEF TypeOK, End, history
<1>4. ASSUME NEW s \in Session, NEW message \in BOOLEAN, Pause(s, message)
      PROVE  Control' /\ Onward
  <2>1. PICK r : Writes(s, r)
    BY <1>4, PauseWrites
  <2>2. QED
    BY <1>4, <2>1, SessionStatement DEF TypeOK, Pause, history
<1>5. ASSUME NEW s \in Session, NEW message \in BOOLEAN, SetPauseMessage(s, message)
      PROVE  Control' /\ Onward
  <2>1. PICK r : Writes(s, r)
    BY <1>5, MessageWrites
  <2>2. QED
    BY <1>5, <2>1, SessionStatement DEF TypeOK, SetPauseMessage, history
<1>6. ASSUME NEW s \in Session, Resume(s)
      PROVE  Control' /\ Onward
  <2>1. PICK r : Writes(s, r)
    BY <1>6, ResumeWrites
  <2>2. ledger' \in Seq(Adjustments)
    BY <1>6, ResumeWrites DEF TypeOK, Gains
  <2>3. QED
    BY <1>6, <2>1, <2>2, SessionStatement DEF TypeOK, Resume, history
<1>7. ASSUME NEW s \in Session, NEW d \in Effect, AdjustTimer(s, d)
      PROVE  Control' /\ Onward
  <2>1. d \in Int
    BY ConfinementAssumption
  <2>2. PICK r : Writes(s, r)
    BY <1>7, <2>1, MoveWrites DEF AdjustTimer
  <2>3. ledger' \in Seq(Adjustments)
    BY <1>7, <2>1, AdjustGains DEF TypeOK, Gains
  <2>4. QED
    BY <1>7, <2>2, <2>3, SessionStatement DEF TypeOK, AdjustTimer, history
<1>8. ASSUME NEW i \in DOMAIN ledger, ReviewAdjustment(i)
      PROVE  Control' /\ Onward
  <2>1. ledger' \in Seq(Adjustments)
    BY <1>8, ReviewKeeps DEF TypeOK, SameRows
  <2>2. TypeOK'
    BY <1>8, <2>1 DEF TypeOK, ReviewAdjustment, sweep, history
  <2>3. QED
    BY <1>8, <2>2, QuietStatement DEF ReviewAdjustment
<1>9. QED
  BY <1>1, <1>2, <1>3, <1>4, <1>5, <1>6, <1>7, <1>8
  DEF Route, StartSession, SubmissiveStartSession, EndSession, SubmissiveEndSession,
      ResumeSession, PauseSession, UpdatePauseMessage, TimerRequest, ReviewTimerAdjustment

\* An effect is never booked as the credit of a pause.
LEMMA ReasonsOfEffects ==
    ASSUME NEW d PROVE ReasonOf(d) \in Reasons /\ ReasonOf(d) # "clock_pause"
BY DEF ReasonOf, Reasons

\* An effect applied in its caller's transaction finds no open session, or moves one and
\* logs it.
LEMMA EffectWrites ==
    ASSUME TypeOK, SessionsSound, NEW a \in Assignment, NEW d \in Effect, NEW system \in BOOLEAN,
           EffectInTransaction(a, d, system)
    PROVE  /\ d \in Int /\ a \notin applied /\ applied' = applied \cup {a}
           /\ UNCHANGED <<now, link, device, job, sweep, torn>>
           /\ \/ dry' = dry \cup {a} /\ UNCHANGED <<sess, ledger>>
              \/ /\ UNCHANGED dry
                 /\ \E s \in Session : /\ sess[s].state = "open"
                                       /\ Writes(s, Moved(sess[s], d))
                                       /\ Gains(s, d, ReasonOf(d), a)
<1>1. d \in Int
  BY ConfinementAssumption
<1>2. /\ a \notin applied /\ applied' = applied \cup {a}
      /\ UNCHANGED <<now, link, device, job, sweep, torn>>
  BY DEF EffectInTransaction
<1>3. ASSUME NEW s \in Session, Open(s), sess' = [sess EXCEPT ![s] = Moved(@, d)],
             Logged(s, d, ReasonOf(d), a, ~system)
      PROVE  /\ sess[s].state = "open" /\ Writes(s, Moved(sess[s], d))
             /\ Gains(s, d, ReasonOf(d), a)
  <2>1. sess[s].state = "open" /\ Writes(s, Moved(sess[s], d))
    BY <1>1, <1>3, MoveWrites DEF Open
  <2>2. PICK why \in Reasons, b \in BOOLEAN : why = ReasonOf(d) /\ b = ~system
    BY ReasonsOfEffects
  <2>3. Logged(s, d, why, a, b) /\ ledger \in Seq(Adjustments)
    BY <1>3, <2>2 DEF TypeOK
  <2>4. Gains(s, d, why, a)
    BY <1>1, <2>3, LoggedGains
  <2>5. QED
    BY <2>1, <2>2, <2>4
<1>4. QED
  BY <1>1, <1>2, <1>3 DEF EffectInTransaction

LEMMA ControlEffect ==
    ASSUME Control, NEW a \in Assignment, NEW d \in Effect, NEW system \in BOOLEAN,
           EffectInTransaction(a, d, system)
    PROVE  Control' /\ Onward
<1> USE DEF Control
<1>1. /\ applied' \in SUBSET Assignment
      /\ UNCHANGED <<now, link, device, job, sweep, torn>>
  BY EffectWrites DEF TypeOK
<1>2. CASE dry' = dry \cup {a} /\ UNCHANGED <<sess, ledger>>
  <2>1. TypeOK'
    BY <1>1, <1>2 DEF TypeOK, sweep
  <2>2. QED
    BY <1>1, <1>2, <2>1, QuietStatement
<1>3. ASSUME NEW s \in Session, Writes(s, Moved(sess[s], d)), Gains(s, d, ReasonOf(d), a),
             UNCHANGED dry
      PROVE  Control' /\ Onward
  BY <1>1, <1>3, SessionStatement DEF TypeOK, Gains
<1>4. QED
  BY <1>2, <1>3, EffectWrites

\* The log of a direct assignment.
LEMMA LogGains ==
    ASSUME TypeOK, JobsSound, NEW w \in Worker, DirectLog(w)
    PROVE  /\ job[w].session \in Session /\ job[w].delta \in Int
           /\ job[w].cause \in Assignment
           /\ sess[job[w].session].target # Null
           /\ Gains(job[w].session, job[w].delta, ReasonOf(job[w].delta), job[w].cause)
<1>1. PICK s, d, a, why : /\ s = job[w].session /\ d = job[w].delta /\ a = job[w].cause
                          /\ why = ReasonOf(d)
  OBVIOUS
<1>2. job[w].step = "log" /\ job[w] \in Jobs
  BY DEF TypeOK, DirectLog
<1>3. /\ s \in Session /\ d \in Int /\ a \in Assignment /\ why \in Reasons
      /\ sess[s].target # Null
  BY <1>1, <1>2, ReasonsOfEffects DEF JobsSound, Jobs
<1>4. Logged(s, d, why, a, TRUE) /\ ledger \in Seq(Adjustments)
  BY <1>1 DEF DirectLog, TypeOK
<1>5. a \in Assignment \cup {NoAssignment} /\ TRUE \in BOOLEAN
  BY <1>3
<1>6. Gains(s, d, why, a)
  BY <1>3, <1>4, <1>5, LoggedGains
<1>7. QED
  BY <1>1, <1>3, <1>6

LEMMA ControlDirect ==
    ASSUME Control, NEW w \in Worker, Direct(w)
    PROVE  Control' /\ Onward
<1> USE DEF Control
<1>1. job[w] \in Jobs
  BY DEF TypeOK
<1>2. ASSUME NEW a \in Assignment, NEW d \in Effect, DirectInsert(w, a, d)
      PROVE  Control' /\ Onward
  <2>1. /\ applied' \in SUBSET Assignment
        /\ UNCHANGED <<now, link, device, sess, ledger, sweep, torn, dry>>
    BY <1>2 DEF TypeOK, DirectInsert, locks, history
  <2>2. SessionsSound' /\ Onward
    BY <2>1, OtherStatement
  <2>3. PICK j \in Jobs : /\ job' = [job EXCEPT ![w] = j] /\ j.step = "read" /\ j.cause = a
    BY <1>2, InsertJob
  <2>4. job' \in [Worker -> Jobs] /\ JobsSound'
    BY <2>2, <2>3, JobsReplaced, ConfinementAssumption
  <2>5. TypeOK'
    BY <2>1, <2>4 DEF TypeOK, sweep
  <2>6. QED
    BY <2>2, <2>4, <2>5
<1>3. CASE DirectRead(w)
  <2>1. UNCHANGED <<now, link, device, sess, ledger, applied, sweep, torn>>
    BY <1>3 DEF DirectRead, locks
  <2>2. SessionsSound' /\ Onward
    BY <2>1, OtherStatement
  <2>3. job[w].cause \in Assignment /\ job[w].step = "read"
    BY <1>1, <1>3 DEF JobsSound, Jobs, DirectRead
  <2>4. dry' \in SUBSET Assignment
    BY <1>3, <2>3 DEF DirectRead, TypeOK
  <2>5. job' \in [Worker -> Jobs] /\ JobsSound'
    <3>1. CASE job' = [job EXCEPT ![w] = Idle]
      BY <2>2, <3>1, IdleJob, JobsReplaced
    <3>2. ASSUME NEW s \in Session, Open(s),
                 job' = [job EXCEPT ![w].step = "update", ![w].session = s,
                                    ![w].target = sess[s].target]
          PROVE  job' \in [Worker -> Jobs] /\ JobsSound'
      <4>1. PICK j \in Jobs : /\ job' = [job EXCEPT ![w] = j] /\ j.step = "update"
                              /\ j.cause = job[w].cause /\ j.session = s
        BY <2>3, <3>2, ReadJob
      <4>2. sess'[s].state # "absent"
        BY <2>1, <3>2 DEF Open
      <4>3. QED
        BY <2>2, <2>3, <4>1, <4>2, JobsReplaced, ConfinementAssumption
    <3>3. QED
      BY <1>3, <3>1, <3>2 DEF DirectRead
  <2>6. TypeOK'
    BY <2>1, <2>4, <2>5 DEF TypeOK, sweep
  <2>7. QED
    BY <2>2, <2>5, <2>6
<1>4. CASE DirectUpdate(w)
  <2>1. PICK s, d, r, m :
              /\ s \in Session /\ d \in Int
              /\ s = job[w].session /\ Writes(s, r) /\ r.target # Null
              /\ torn' = IF sess[s].state = "open" /\ sess[s].target = job[w].target
                         THEN torn ELSE torn \cup {s}
    BY <1>4, UpdateWrites
  <2> s \in Session /\ d \in Int
    BY <2>1
  <2>2. UNCHANGED <<now, link, device, ledger, applied, sweep, dry>>
    BY <1>4 DEF DirectUpdate
  <2>3. sess' \in [Session -> Sessions] /\ SessionsSound' /\ Onward
    BY <2>1, <2>2, WritesKeep
  <2>4. PICK j \in Jobs : /\ job' = [job EXCEPT ![w] = j] /\ j.step = "log"
                          /\ j.cause = job[w].cause /\ j.session = job[w].session
    BY <1>4, UpdateJob
  <2>5. sess'[s] = r /\ r.state # "absent"
    BY <2>1 DEF Writes, TypeOK
  <2>6. job[w].cause # NoAssignment
    BY <1>4 DEF JobsSound, DirectUpdate
  <2>7. job' \in [Worker -> Jobs] /\ JobsSound'
    BY <2>1, <2>3, <2>4, <2>5, <2>6, JobsReplaced
  <2>8. TypeOK'
    BY <2>1, <2>2, <2>3, <2>7 DEF TypeOK, sweep
  <2>9. QED
    BY <2>3, <2>7, <2>8
<1>5. CASE DirectLog(w)
  <2>1. UNCHANGED <<now, link, device, sess, applied, sweep, torn, dry>>
    BY <1>5 DEF DirectLog, history
  <2>2. SessionsSound' /\ Onward
    BY <2>1, OtherStatement
  <2>3. job' \in [Worker -> Jobs] /\ JobsSound'
    BY <1>5, <2>2, IdleJob, JobsReplaced DEF DirectLog
  <2>4. ledger' \in Seq(Adjustments)
    BY <1>5, LogGains DEF Gains
  <2>5. TypeOK'
    BY <2>1, <2>3, <2>4 DEF TypeOK, sweep
  <2>6. QED
    BY <2>2, <2>3, <2>5
<1>6. CASE DirectAbort(w)
  <2>1. UNCHANGED <<now, link, device, sess, ledger, applied, sweep>>
    BY <1>6 DEF DirectAbort, locks
  <2>2. SessionsSound' /\ Onward
    BY <2>1, OtherStatement
  <2>3. job' \in [Worker -> Jobs] /\ JobsSound'
    BY <1>6, <2>2, IdleJob, JobsReplaced DEF DirectAbort
  <2>4. job[w].cause \in Assignment /\ (job[w].step = "log" => job[w].session \in Session)
    BY <1>1, <1>6 DEF JobsSound, Jobs, DirectAbort
  <2>5. dry' \in SUBSET Assignment /\ torn' \in SUBSET Session
    BY <1>6, <2>4 DEF DirectAbort, TypeOK
  <2>6. TypeOK'
    BY <2>1, <2>3, <2>5 DEF TypeOK, sweep
  <2>7. QED
    BY <2>2, <2>3, <2>6
<1>7. QED
  BY <1>2, <1>3, <1>4, <1>5, <1>6 DEF Direct

LEMMA ControlHolds == Init => Control
<1> SUFFICES ASSUME Init PROVE Control
  OBVIOUS
<1>1. PICK r : /\ r = [state |-> "absent", device |-> NoDevice, target |-> Null, pausedAt |-> Null,
                       message |-> FALSE, base |-> Null, stopped |-> 0]
               /\ sess = [s \in Session |-> r]
  BY DEF Init
<1>2. r \in Sessions
  BY <1>1 DEF Sessions, Time
<1>3. SoundRow(r, 0)
  BY <1>1, <1>2 DEF SoundRow
<1>4. SessionsSound
  BY <1>1, <1>3 DEF SessionsSound, Init
<1>5. JobsSound
  BY IdleJob DEF JobsSound, Init
<1>6. TypeOK
  BY <1>1, <1>2, IdleJob DEF TypeOK, Init
<1>7. QED
  BY <1>4, <1>5, <1>6 DEF Control

LEMMA ControlKept ==
    ASSUME Control, [Next]_vars
    PROVE  Control' /\ Onward
<1> USE DEF Control
<1>1. ASSUME NEW status \in {"paused", "ended"}, ChangeLink(status)
      PROVE  Control' /\ Onward
  <2>1. TypeOK'
    BY <1>1 DEF TypeOK, ChangeLink, locks, sweep, history
  <2>2. QED
    BY <1>1, <2>1, QuietStatement DEF ChangeLink, locks
<1>2. CASE SelectReminders \/ (\E s \in Session : Remind(s)) \/ ReminderLost
  <2>1. UNCHANGED <<now, link, device, sess, ledger, applied, job, torn, dry>>
    BY <1>2 DEF SelectReminders, Remind, ReminderLost, locks, history
  <2>2. todo' \in SUBSET Session /\ reminded' \in [Session -> Nat \cup {Null}]
    BY <1>2 DEF TypeOK, SelectReminders, Remind, ReminderLost
  <2>3. TypeOK'
    BY <2>1, <2>2 DEF TypeOK
  <2>4. QED
    BY <2>1, <2>3, QuietStatement
<1>3. CASE Tick
  <2>1. /\ sess' \in [Session -> Sessions] /\ SessionsSound' /\ Onward /\ now' \in Nat
        /\ UNCHANGED <<link, device, ledger, applied, job, sweep, history>>
    BY <1>3, TickKeeps DEF TypeOK, Tick
  <2>2. JobsSound'
    BY <2>1, JobsKept
  <2>3. TypeOK'
    BY <2>1 DEF TypeOK, sweep, history
  <2>4. QED
    BY <2>1, <2>2, <2>3
<1>4. CASE UNCHANGED vars
  <2>1. UNCHANGED <<now, link, device, sess, ledger, applied, job, reminded, todo, torn, dry>>
    BY <1>4 DEF vars, locks, sweep, history
  <2>2. TypeOK'
    BY <2>1 DEF TypeOK
  <2>3. QED
    BY <2>1, <2>2, QuietStatement
<1>5. QED
  BY <1>1, <1>2, <1>3, <1>4, ControlRoute, ControlEffect, ControlDirect DEF Next

\* Every table row, notification and statement in flight has its type: no pause is computed to
\* be negative, no effect is logged for a session that does not exist or without its assignment.
THEOREM ConfinementTypeCorrect == Spec => []TypeOK
<1>1. Control => TypeOK
  BY DEF Control
<1>2. Control /\ [Next]_vars => Control'
  BY ControlKept
<1>3. QED
  BY <1>1, <1>2, ControlHolds, PTL DEF Spec

-----------------------------------------------------------------------------
(* The past is respected.                                                    *)

\* A reminder that waits to be sent was due when it was found, and still is.
TodoSound == \A s \in todo : reminded[s] # Null => now - reminded[s] > Interval

PInv == Control /\ TodoSound

LEMMA TodoKept ==
    ASSUME TypeOK, TodoSound, UNCHANGED sweep, now' \in Nat, now' >= now
    PROVE  /\ TodoSound'
           /\ \A s \in Session : SpacedReminder(s)
<1>1. ASSUME NEW s \in todo, reminded[s] # Null PROVE now' - reminded[s] > Interval
  <2>1. /\ now \in Nat /\ reminded[s] \in Nat /\ Interval \in Nat
        /\ now - reminded[s] > Interval
    BY <1>1, ConfinementAssumption DEF TypeOK, TodoSound
  <2>2. QED
    BY <2>1
<1>2. TodoSound'
  BY <1>1 DEF TodoSound, sweep
<1>3. QED
  BY <1>2 DEF SpacedReminder, sweep

LEMMA RemindersKept ==
    ASSUME PInv, [Next]_vars
    PROVE  TodoSound' /\ \A s \in Session : SpacedReminder(s)
<1>1. TypeOK /\ TodoSound /\ now \in Nat /\ Interval \in Nat /\ Null \notin Int
  BY ConfinementAssumption DEF PInv, Control, TypeOK
<1>2. CASE SelectReminders
  <2>1. ASSUME NEW s \in todo', reminded[s] # Null PROVE now - reminded[s] > Interval
    <3>1. s \in Session /\ ~(reminded[s] >= now - Interval) /\ reminded[s] \in Nat
      BY <1>1, <1>2, <2>1 DEF SelectReminders, StillPaused, RemindedSince, TypeOK
    <3>2. QED
      BY <1>1, <3>1
  <2>2. TodoSound'
    BY <1>2, <2>1 DEF TodoSound, SelectReminders
  <2>3. QED
    BY <1>2, <2>2 DEF SelectReminders, SpacedReminder
<1>3. ASSUME NEW s \in Session, Remind(s)
      PROVE  TodoSound' /\ \A q \in Session : SpacedReminder(q)
  <2>1. /\ s \in todo /\ todo' = todo \ {s} /\ now' = now
        /\ \A q \in Session : reminded'[q] = IF q = s THEN now ELSE reminded[q]
    BY <1>1, <1>3 DEF Remind, TypeOK
  <2>2. TodoSound'
    BY <1>1, <2>1 DEF TodoSound, TypeOK
  <2>3. \A q \in Session : SpacedReminder(q)
    BY <1>1, <2>1 DEF TodoSound, SpacedReminder
  <2>4. QED
    BY <2>2, <2>3
<1>4. CASE ReminderLost
  BY <1>4 DEF ReminderLost, TodoSound, SpacedReminder
<1>5. CASE Tick
  <2>1. UNCHANGED sweep /\ now' \in Nat /\ now' >= now
    BY <1>1, <1>5 DEF Tick
  <2>2. QED
    BY <1>1, <2>1, TodoKept
<1>6. CASE UNCHANGED <<now, sweep>>
  BY <1>1, <1>6, TodoKept
<1>7. ASSUME NEW status \in {"paused", "ended"}, ChangeLink(status) PROVE UNCHANGED <<now, sweep>>
  BY <1>7 DEF ChangeLink
<1>8. ASSUME NEW a \in Assignment, NEW d \in Effect, NEW system \in BOOLEAN,
             EffectInTransaction(a, d, system)
      PROVE  UNCHANGED <<now, sweep>>
  BY <1>8 DEF EffectInTransaction
<1>9. ASSUME NEW w \in Worker, Direct(w) PROVE UNCHANGED <<now, sweep>>
  BY <1>9 DEF Direct, DirectInsert, DirectRead, DirectUpdate, DirectLog, DirectAbort
<1>10. ASSUME Route PROVE UNCHANGED <<now, sweep>>
  <2>1. ASSUME NEW d \in Device, AddDevice(d) \/ RetireDevice(d) PROVE UNCHANGED <<now, sweep>>
    BY <2>1 DEF AddDevice, RetireDevice, InsertDevice, Retire, SetDevice
  <2>2. ASSUME NEW s \in Session, NEW d \in Device, NEW t \in Release,
               StartSession(s, d, t) \/ SubmissiveStartSession(s, d, t)
        PROVE  UNCHANGED <<now, sweep>>
    BY <2>2 DEF StartSession, SubmissiveStartSession, Start
  <2>3. ASSUME NEW s \in Session, EndSession(s) \/ SubmissiveEndSession(s) \/ ResumeSession(s)
        PROVE  UNCHANGED <<now, sweep>>
    BY <2>3 DEF EndSession, SubmissiveEndSession, End, ResumeSession, Resume
  <2>4. ASSUME NEW s \in Session, NEW message \in BOOLEAN,
               PauseSession(s, message) \/ UpdatePauseMessage(s, message)
        PROVE  UNCHANGED <<now, sweep>>
    BY <2>4 DEF PauseSession, Pause, UpdatePauseMessage, SetPauseMessage
  <2>5. ASSUME NEW s \in Session, NEW d \in Effect, TimerRequest(s, d)
        PROVE  UNCHANGED <<now, sweep>>
    BY <2>5 DEF TimerRequest, AdjustTimer
  <2>6. ASSUME NEW i \in DOMAIN ledger, ReviewTimerAdjustment(i) PROVE UNCHANGED <<now, sweep>>
    BY <2>6 DEF ReviewTimerAdjustment, ReviewAdjustment
  <2>7. QED
    BY <1>10, <2>1, <2>2, <2>3, <2>4, <2>5, <2>6 DEF Route
<1>11. QED
  BY <1>2, <1>3, <1>4, <1>5, <1>6, <1>7, <1>8, <1>9, <1>10 DEF Next, vars

\* A statement on one session leaves the ended ones alone, if that one has not ended.
LEMMA EndedStay ==
    ASSUME TypeOK, NEW s \in Session, NEW r, sess' = [sess EXCEPT ![s] = r],
           sess[s].state # "ended"
    PROVE  \A q \in Session : sess[q].state = "ended" => sess'[q] = sess[q]
BY DEF TypeOK

LEMMA EndedKept ==
    ASSUME Control, [Next]_vars
    PROVE  \A q \in Session : q \notin torn' /\ sess[q].state = "ended" => sess'[q] = sess[q]
<1> USE DEF Control
<1> DEFINE Stay == \A q \in Session : q \notin torn' /\ sess[q].state = "ended" => sess'[q] = sess[q]
<1>1. ASSUME UNCHANGED sess PROVE Stay
  BY <1>1
<1>2. ASSUME NEW s \in Session, sess[s].state # "ended", NEW r, Writes(s, r) PROVE Stay
  BY <1>2, EndedStay DEF Writes
<1>3. ASSUME Route PROVE Stay
  <2>1. ASSUME NEW s \in Session, NEW d \in Device, NEW t \in Release, Start(s, d, t) PROVE Stay
    <3>1. sess[s].state # "ended" /\ \E r : Writes(s, r)
      BY <2>1, StartWrites
    <3>2. QED
      BY <1>2, <3>1
  <2>2. ASSUME NEW s \in Session, End(s) PROVE Stay
    <3>1. sess[s].state # "ended" /\ \E r : Writes(s, r)
      BY <2>2, EndWrites DEF End, Open
    <3>2. QED
      BY <1>2, <3>1
  <2>3. ASSUME NEW s \in Session, NEW message \in BOOLEAN,
               Pause(s, message) \/ SetPauseMessage(s, message)
        PROVE  Stay
    <3>1. sess[s].state # "ended" /\ \E r : Writes(s, r)
      BY <2>3, PauseWrites, MessageWrites DEF Open
    <3>2. QED
      BY <1>2, <3>1
  <2>4. ASSUME NEW s \in Session, Resume(s) PROVE Stay
    <3>1. sess[s].state # "ended" /\ \E r : Writes(s, r)
      BY <2>4, ResumeWrites DEF Open
    <3>2. QED
      BY <1>2, <3>1
  <2>5. ASSUME NEW s \in Session, NEW d \in Effect, AdjustTimer(s, d) PROVE Stay
    <3>1. d \in Int
      BY ConfinementAssumption
    <3>2. sess[s].state # "ended" /\ \E r : Writes(s, r)
      BY <2>5, <3>1, MoveWrites DEF AdjustTimer, Open
    <3>3. QED
      BY <1>2, <3>2
  <2>6. ASSUME (\E d \in Device : AddDevice(d) \/ RetireDevice(d))
               \/ (\E i \in DOMAIN ledger : ReviewAdjustment(i))
        PROVE  UNCHANGED sess
    BY <2>6
    DEF AddDevice, RetireDevice, InsertDevice, Retire, SetDevice, locks, ReviewAdjustment
  <2>7. QED
    BY <1>1, <1>3, <2>1, <2>2, <2>3, <2>4, <2>5, <2>6
    DEF Route, StartSession, SubmissiveStartSession, EndSession, SubmissiveEndSession,
        ResumeSession, PauseSession, UpdatePauseMessage, TimerRequest, ReviewTimerAdjustment
<1>4. ASSUME NEW a \in Assignment, NEW d \in Effect, NEW system \in BOOLEAN,
             EffectInTransaction(a, d, system)
      PROVE  Stay
  <2>1. \/ UNCHANGED sess
        \/ \E s \in Session : sess[s].state = "open" /\ Writes(s, Moved(sess[s], d))
    BY <1>4, EffectWrites
  <2>2. QED
    BY <1>1, <1>2, <2>1
<1>5. ASSUME NEW w \in Worker, DirectUpdate(w) PROVE Stay
  <2>1. PICK s, d, r, m :
              /\ s \in Session /\ d \in Int
              /\ Writes(s, r)
              /\ torn' = IF sess[s].state = "open" /\ sess[s].target = job[w].target
                         THEN torn ELSE torn \cup {s}
    BY <1>5, UpdateWrites
  <2> s \in Session /\ d \in Int
    BY <2>1
  <2>2. CASE sess[s].state = "open"
    BY <1>2, <2>1, <2>2
  <2>3. CASE sess[s].state # "open"
    BY <2>1, <2>3 DEF Writes, TypeOK
  <2>4. QED
    BY <2>2, <2>3
<1>6. ASSUME NEW w \in Worker, Direct(w), ~DirectUpdate(w) PROVE UNCHANGED sess
  BY <1>6 DEF Direct, DirectInsert, DirectRead, DirectLog, DirectAbort, locks
<1>7. ASSUME Tick PROVE Stay
  BY <1>7, TickKeeps
<1>8. ASSUME SelectReminders \/ (\E s \in Session : Remind(s)) \/ ReminderLost
             \/ (\E status \in {"paused", "ended"} : ChangeLink(status)) \/ UNCHANGED vars
      PROVE  UNCHANGED sess
  BY <1>8 DEF SelectReminders, Remind, ReminderLost, ChangeLink, vars, locks
<1> HIDE DEF Stay
<1>9. Stay
  BY <1>1, <1>3, <1>4, <1>5, <1>6, <1>7, <1>8 DEF Next
<1>10. QED
  BY <1>9 DEF Stay

\* The release date of a session that has ended never moves, however late the effects decided
\* while it was open arrive, unless one overwrites a row that has changed since it read it
\* (torn); and the reminders of one session are more than the interval apart.
THEOREM PastIsAlwaysRespected == Spec => PastIsRespected
<1>1. Init => PInv
  BY ControlHolds DEF PInv, TodoSound, Init
<1>2. PInv /\ [Next]_vars =>
        /\ PInv'
        /\ \A s \in Session :
              /\ s \notin torn' /\ sess[s].state = "ended" => sess'[s] = sess[s]
              /\ SpacedReminder(s)
  BY ControlKept, EndedKept, RemindersKept DEF PInv
<1>3. QED
  BY <1>1, <1>2, PTL DEF Spec, PastIsRespected

-----------------------------------------------------------------------------
(* The ledger and the effects.                                               *)

\* Every row is of a session with a date.
RowsSound == \A i \in DOMAIN ledger : sess[ledger[i].session].target # Null

\* An assignment that is neither cut short nor without a session is applied once: either
\* one worker is at it, or one row of the ledger is its.
JobCauses ==
    \A w \in Worker : job[w].cause # NoAssignment =>
        /\ job[w].cause \in applied \ dry
        /\ \A v \in Worker : job[v].cause = job[w].cause => v = w
RowCauses ==
    \A i \in DOMAIN ledger : ledger[i].cause # NoAssignment =>
        /\ ledger[i].cause \in applied \ dry
        /\ \A k \in DOMAIN ledger : ledger[k].cause = ledger[i].cause => k = i
        /\ \A w \in Worker : job[w].cause # ledger[i].cause
NoneLost ==
    \A a \in applied \ dry :
        (\E w \in Worker : job[w].cause = a) \/ (\E i \in DOMAIN ledger : ledger[i].cause = a)
EffectsSound == dry \subseteq applied /\ JobCauses /\ RowCauses /\ NoneLost

LEMMA RowsKept ==
    ASSUME TypeOK, RowsSound, Onward,
           \/ SameRows
           \/ \E s \in Session, d \in Int : \E why, a :
                 Gains(s, d, why, a) /\ sess'[s].target # Null
    PROVE  RowsSound'
<1>1. \A i \in DOMAIN ledger : ledger[i].session \in Session
  <2>1. \A i \in DOMAIN ledger : ledger[i] \in Adjustments
    BY TotalIs DEF TypeOK
  <2>2. QED
    BY <2>1 DEF Adjustments
<1>2. \A i \in DOMAIN ledger : sess'[ledger[i].session].target # Null
  BY <1>1 DEF RowsSound, Onward
<1>3. CASE SameRows
  BY <1>2, <1>3 DEF RowsSound, SameRows, SameRow
<1>4. ASSUME NEW s \in Session, NEW d \in Int, NEW why, NEW a, Gains(s, d, why, a),
             sess'[s].target # Null
      PROVE  RowsSound'
  BY <1>2, <1>4 DEF RowsSound, Gains, SameRow
<1>5. QED
  BY <1>3, <1>4

\* A statement that has nothing to do with an assignment.
LEMMA EffectsQuiet ==
    ASSUME EffectsSound, UNCHANGED <<applied, dry>>,
           \A w \in Worker : job'[w].cause = job[w].cause,
           SameRows \/ \E s, d, why : Gains(s, d, why, NoAssignment)
    PROVE  EffectsSound'
<1>1. /\ applied' = applied /\ dry' = dry
      /\ DOMAIN ledger \subseteq DOMAIN ledger'
      /\ \A i \in DOMAIN ledger : ledger'[i].cause = ledger[i].cause
      /\ \A i \in DOMAIN ledger' : ledger'[i].cause # NoAssignment => i \in DOMAIN ledger
  BY DEF SameRows, Gains, SameRow
<1>2. JobCauses'
  BY <1>1 DEF EffectsSound, JobCauses
<1>3. RowCauses'
  BY <1>1 DEF EffectsSound, RowCauses
<1>4. NoneLost'
  BY <1>1 DEF EffectsSound, NoneLost
<1>5. QED
  BY <1>1, <1>2, <1>3, <1>4 DEF EffectsSound

\* An assignment that found no session: it counts as dry at once.
LEMMA EffectsDry ==
    ASSUME EffectsSound, NEW a \in Assignment, a \notin applied, applied' = applied \cup {a},
           dry' = dry \cup {a}, UNCHANGED <<job, ledger>>
    PROVE  EffectsSound'
<1>1. applied' \ dry' = applied \ dry /\ dry' \subseteq applied'
  BY DEF EffectsSound
<1>2. QED
  BY <1>1 DEF EffectsSound, JobCauses, RowCauses, NoneLost

\* An assignment that moves a session and logs it, in one transaction.
LEMMA EffectsLogged ==
    ASSUME TypeOK, EffectsSound, NEW a \in Assignment, a \notin applied,
           applied' = applied \cup {a}, UNCHANGED <<dry, job>>,
           NEW s, NEW d, NEW why, Gains(s, d, why, a)
    PROVE  EffectsSound'
<1>1. PICK n : /\ n \notin DOMAIN ledger /\ DOMAIN ledger' = DOMAIN ledger \cup {n}
               /\ ledger'[n].cause = a
               /\ \A i \in DOMAIN ledger : ledger'[i].cause = ledger[i].cause
  BY DEF Gains, SameRow
<1>2. a \notin dry /\ a # NoAssignment
  BY ConfinementAssumption DEF EffectsSound
<1>3. \A w \in Worker : job[w].cause # a
  BY <1>2 DEF EffectsSound, JobCauses
<1>4. \A i \in DOMAIN ledger : ledger[i].cause # a
  BY <1>2 DEF EffectsSound, RowCauses
<1>5. JobCauses'
  BY DEF EffectsSound, JobCauses
<1>6. RowCauses'
  BY <1>1, <1>2, <1>3, <1>4 DEF EffectsSound, RowCauses
<1>7. NoneLost'
  BY <1>1 DEF EffectsSound, NoneLost
<1>8. QED
  BY <1>5, <1>6, <1>7 DEF EffectsSound

\* A worker takes an assignment up.
LEMMA EffectsTaken ==
    ASSUME TypeOK, EffectsSound, NEW a \in Assignment, a \notin applied,
           applied' = applied \cup {a}, UNCHANGED <<dry, ledger>>,
           NEW w \in Worker, job[w].cause = NoAssignment,
           \A v \in Worker : job'[v].cause = IF v = w THEN a ELSE job[v].cause
    PROVE  EffectsSound'
<1>1. a \notin dry /\ a # NoAssignment
  BY ConfinementAssumption DEF EffectsSound
<1>2. \A v \in Worker : job[v].cause # a
  BY <1>1 DEF EffectsSound, JobCauses
<1>3. \A i \in DOMAIN ledger : ledger[i].cause # a
  BY <1>1 DEF EffectsSound, RowCauses
<1>4. JobCauses'
  BY <1>1, <1>2 DEF EffectsSound, JobCauses
<1>5. RowCauses'
  BY <1>3 DEF EffectsSound, RowCauses
<1>6. \A b \in applied \ dry : b # NoAssignment
  BY ConfinementAssumption DEF TypeOK
<1>7. NoneLost'
  BY <1>6 DEF EffectsSound, NoneLost
<1>8. QED
  BY <1>4, <1>5, <1>7 DEF EffectsSound

\* It drops it: no session was open, or its handler was cut short.
LEMMA EffectsDropped ==
    ASSUME TypeOK, EffectsSound, NEW w \in Worker, job[w].cause # NoAssignment,
           dry' = dry \cup {job[w].cause}, UNCHANGED <<applied, ledger>>,
           \A v \in Worker : job'[v].cause = IF v = w THEN NoAssignment ELSE job[v].cause
    PROVE  EffectsSound'
<1>1. PICK a : a = job[w].cause
  OBVIOUS
<1>2. a \in applied \ dry /\ \A v \in Worker : job[v].cause = a => v = w
  BY <1>1 DEF EffectsSound, JobCauses
<1>3. \A i \in DOMAIN ledger : ledger[i].cause # a
  BY <1>1 DEF EffectsSound, RowCauses
<1>4. applied' \ dry' = (applied \ dry) \ {a}
  BY <1>1
<1>5. JobCauses'
  BY <1>2, <1>4 DEF EffectsSound, JobCauses
<1>6. RowCauses'
  BY <1>3, <1>4 DEF EffectsSound, RowCauses
<1>7. NoneLost'
  BY <1>1, <1>4 DEF EffectsSound, NoneLost
<1>8. QED
  BY <1>2, <1>4, <1>5, <1>6, <1>7, <1>1 DEF EffectsSound

\* It logs it, and is done.
LEMMA EffectsDone ==
    ASSUME TypeOK, EffectsSound, NEW w \in Worker, job[w].cause # NoAssignment,
           UNCHANGED <<applied, dry>>, NEW s, NEW d, NEW why, Gains(s, d, why, job[w].cause),
           \A v \in Worker : job'[v].cause = IF v = w THEN NoAssignment ELSE job[v].cause
    PROVE  EffectsSound'
<1>1. PICK a : a = job[w].cause
  OBVIOUS
<1>2. a \in applied \ dry /\ \A v \in Worker : job[v].cause = a => v = w
  BY <1>1 DEF EffectsSound, JobCauses
<1>3. \A i \in DOMAIN ledger : ledger[i].cause # a
  BY <1>1 DEF EffectsSound, RowCauses
<1>4. PICK n : /\ n \notin DOMAIN ledger /\ DOMAIN ledger' = DOMAIN ledger \cup {n}
               /\ ledger'[n].cause = a
               /\ \A i \in DOMAIN ledger : ledger'[i].cause = ledger[i].cause
  BY <1>1 DEF Gains, SameRow
<1>5. JobCauses'
  BY <1>2 DEF EffectsSound, JobCauses
<1>6. RowCauses'
  BY <1>1, <1>2, <1>3, <1>4 DEF EffectsSound, RowCauses
<1>7. NoneLost'
  BY <1>1, <1>4 DEF EffectsSound, NoneLost
<1>8. QED
  BY <1>5, <1>6, <1>7 DEF EffectsSound

-----------------------------------------------------------------------------
(* The books of a session: its row against the sums of the ledger.           *)

Credit == {"clock_pause"}

Explains(r, total, due) == r.target # Null => r.target = r.base + total + due
Credits(r, credit, time) ==
    r.state = "open" /\ r.target # Null =>
        credit + (IF r.pausedAt # Null THEN time - r.pausedAt ELSE 0) = r.stopped
BooksSound ==
    \A s \in Session :
        /\ IsFiniteSet(Logging(s))
        /\ s \notin torn => Explains(sess[s], Total(s, Reasons), Unlogged(s))
        /\ Credits(sess[s], Total(s, Credit), now)

\* What is left to log, as far as types go.
LEMMA UnloggedInt ==
    ASSUME TypeOK, NEW s, IsFiniteSet(Logging(s))
    PROVE  Unlogged(s) \in Int /\ (Logging(s) = {} => Unlogged(s) = 0)
<1>1. PICK F, S : F = [w \in Worker |-> job[w].delta] /\ S = Logging(s)
  OBVIOUS
<1>2. S \subseteq Worker /\ \A w \in S : F[w] \in Int
  BY <1>1 DEF TypeOK, Jobs, Logging
<1>3. SumFunctionOnSet(F, S) \in Int /\ (S = {} => SumFunctionOnSet(F, S) = 0)
  BY <1>1, <1>2, SumInt, SumOfNone
<1>4. QED
  BY <1>1, <1>3 DEF Unlogged

\* A session without a date has nothing in the ledger, and nothing on its way there.
LEMMA NothingYet ==
    ASSUME TypeOK, JobsSound, RowsSound, NEW s \in Session, IsFiniteSet(Logging(s)),
           sess[s].target = Null, NEW R
    PROVE  Total(s, R) = 0 /\ Unlogged(s) = 0
<1>1. RowsOf(s, R) = {}
  BY DEF RowsOf, RowsSound
<1>2. Logging(s) = {}
  BY DEF Logging, JobsSound
<1>3. QED
  BY <1>1, <1>2, TotalIs, UnloggedInt DEF TypeOK

\* A move of the date by d, logged now or later, keeps the books of the row.
LEMMA MovedBooks ==
    ASSUME now \in Nat, NEW q, SoundRow(q, now), NEW d \in Int,
           NEW total \in Int, NEW credit \in Int, NEW due \in Int,
           q.target = Null => total = 0 /\ credit = 0 /\ due = 0
    PROVE  /\ Explains(q, total, due) =>
                 /\ Explains(Moved(q, d), total + d, due)
                 /\ Explains(Moved(q, d), total, due + d)
           /\ q.state = "open" /\ Credits(q, credit, now) => Credits(Moved(q, d), credit, now)
<1>1. PICK m : m = Moved(q, d)
  OBVIOUS
<1>2. CASE q.target = Null
  <2>1. /\ m.target = now + d /\ m.base = now /\ m.state = q.state /\ m.pausedAt = q.pausedAt
        /\ m.stopped = IF q.pausedAt = Null THEN 0 ELSE now - q.pausedAt
    BY <1>1, <1>2, MovedRow
  <2>2. now + d = now + (0 + d) + 0 /\ now + d = now + 0 + (0 + d)
    OBVIOUS
  <2>3. q.pausedAt # Null => q.pausedAt \in Nat
    BY DEF SoundRow, Sessions
  <2>4. QED
    BY <1>1, <1>2, <2>1, <2>2, <2>3 DEF Explains, Credits
<1>3. CASE q.target # Null
  <2>1. /\ m.target = q.target + d /\ m.base = q.base /\ m.stopped = q.stopped
        /\ m.state = q.state /\ m.pausedAt = q.pausedAt /\ m.target # Null
        /\ q.target \in Int
    BY <1>1, <1>3, MovedRow
  <2>2. q.base \in Int
    BY <1>3 DEF SoundRow, Sessions, Time
  <2>3. ASSUME Explains(q, total, due)
        PROVE  Explains(m, total + d, due) /\ Explains(m, total, due + d)
    <3>1. PICK b \in Int, t \in Int : b = q.base /\ t = q.target
      BY <2>1, <2>2
    <3>2. t = b + total + due
      BY <1>3, <2>3, <3>1 DEF Explains
    <3>3. t + d = b + (total + d) + due /\ t + d = b + total + (due + d)
      BY <3>1, <3>2
    <3>4. QED
      BY <2>1, <3>1, <3>3 DEF Explains
  <2>4. Credits(q, credit, now) => Credits(m, credit, now)
    BY <1>3, <2>1 DEF Credits
  <2>5. QED
    BY <1>1, <2>3, <2>4
<1>4. QED
  BY <1>2, <1>3

\* A step that makes r of the session s and touches no other, and no clock: the rows of s
\* gain d and its credit c, what its jobs owe gains u, and r is explained by the sums.
Posts(s, r, d, c, u) ==
    /\ now' = now
    /\ \A q \in Session : sess'[q] = IF q = s THEN r ELSE sess[q]
    /\ \A q \in Session : q \notin torn' => q \notin torn
    /\ \A q \in Session :
          /\ Total(q, Reasons)' = Total(q, Reasons) + (IF q = s THEN d ELSE 0)
          /\ Total(q, Credit)' = Total(q, Credit) + (IF q = s THEN c ELSE 0)
          /\ Unlogged(q)' = Unlogged(q) + (IF q = s THEN u ELSE 0)
          /\ IsFiniteSet(Logging(q)')
    /\ s \notin torn' => Explains(r, Total(s, Reasons) + d, Unlogged(s) + u)
    /\ Credits(r, Total(s, Credit) + c, now)

\* Such a step keeps the books of every session.
LEMMA BooksStep ==
    ASSUME TypeOK, TypeOK', BooksSound, NEW s \in Session, NEW r,
           NEW d \in Int, NEW c \in Int, NEW u \in Int, Posts(s, r, d, c, u)
    PROVE  BooksSound'
<1>1. ASSUME NEW q \in Session
      PROVE  /\ q \notin torn' => Explains(sess'[q], Total(q, Reasons)', Unlogged(q)')
             /\ Credits(sess'[q], Total(q, Credit)', now')
  <2>1. CASE q = s
    BY <2>1 DEF Posts
  <2>2. CASE q # s
    <3>1. Total(q, Reasons) \in Int /\ Total(q, Credit) \in Int /\ Unlogged(q) \in Int
      BY TotalIs, UnloggedInt DEF TypeOK, BooksSound
    <3>2. /\ Total(q, Reasons)' = Total(q, Reasons) /\ Total(q, Credit)' = Total(q, Credit)
          /\ Unlogged(q)' = Unlogged(q) /\ sess'[q] = sess[q]
      BY <2>2, <3>1 DEF Posts
    <3>3. QED
      BY <3>2 DEF BooksSound, Posts
  <2>3. QED
    BY <2>1, <2>2
<1>2. \A q \in Session :
         /\ q \notin torn' => Explains(sess[q], Total(q, Reasons), Unlogged(q))'
         /\ Credits(sess[q], Total(q, Credit), now)'
  BY <1>1 DEF Explains, Credits
<1>3. QED
  BY <1>2 DEF BooksSound, Posts

\* What the ledger and the jobs do to the sums, as BooksStep wants it.
LEMMA LedgerSteps ==
    ASSUME TypeOK, NEW s \in Session
    PROVE  /\ SameRows \/ UNCHANGED ledger =>
                \A q \in Session :
                   /\ Total(q, Reasons)' = Total(q, Reasons) + (IF q = s THEN 0 ELSE 0)
                   /\ Total(q, Credit)' = Total(q, Credit) + (IF q = s THEN 0 ELSE 0)
           /\ \A d \in Int, why \in Reasons : \A a : Gains(s, d, why, a) =>
                \A q \in Session :
                   /\ Total(q, Reasons)' = Total(q, Reasons) + (IF q = s THEN d ELSE 0)
                   /\ Total(q, Credit)' = Total(q, Credit)
                         + (IF q = s THEN (IF why = "clock_pause" THEN d ELSE 0) ELSE 0)
<1>1. ledger \in Seq(Adjustments) /\ (UNCHANGED ledger => SameRows)
  BY DEF TypeOK, SameRows, SameRow
<1>2. \A q \in Session : Total(q, Reasons) \in Int /\ Total(q, Credit) \in Int
  BY <1>1, TotalIs
<1>3. ASSUME SameRows, NEW q \in Session
      PROVE  Total(q, Reasons)' = Total(q, Reasons) /\ Total(q, Credit)' = Total(q, Credit)
  BY <1>1, <1>3, TotalKept
<1>4. ASSUME NEW d \in Int, NEW why \in Reasons, NEW a, Gains(s, d, why, a), NEW q \in Session
      PROVE  /\ Total(q, Reasons)' = Total(q, Reasons) + (IF q = s THEN d ELSE 0)
             /\ Total(q, Credit)' = Total(q, Credit)
                   + (IF q = s THEN (IF why = "clock_pause" THEN d ELSE 0) ELSE 0)
  <2>1. Total(q, Reasons)' = Total(q, Reasons) + (IF q = s /\ why \in Reasons THEN d ELSE 0)
    BY <1>1, <1>4, TotalGains
  <2>2. Total(q, Credit)' = Total(q, Credit) + (IF q = s /\ why \in Credit THEN d ELSE 0)
    BY <1>1, <1>4, TotalGains
  <2>3. QED
    BY <2>1, <2>2, <1>2 DEF Credit
<1>5. QED
  BY <1>1, <1>2, <1>3, <1>4

LEMMA JobsSteps ==
    ASSUME TypeOK, TypeOK', BooksSound, NEW s \in Session,
           \A w \in Worker : /\ job'[w].step = "log" <=> job[w].step = "log"
                             /\ job[w].step = "log" => job'[w] = job[w]
    PROVE  \A q \in Session : /\ Unlogged(q)' = Unlogged(q) + (IF q = s THEN 0 ELSE 0)
                              /\ IsFiniteSet(Logging(q)')
<1> SUFFICES ASSUME NEW q \in Session
             PROVE  Unlogged(q)' = Unlogged(q) + 0 /\ IsFiniteSet(Logging(q)')
  OBVIOUS
<1>1. Logging(q)' = Logging(q) /\ \A w \in Logging(q) : job'[w].delta = job[w].delta
  BY DEF Logging
<1>2. IsFiniteSet(Logging(q)') /\ Unlogged(q) \in Int /\ Unlogged(q)' = Unlogged(q)
  BY <1>1, UnloggedKept DEF TypeOK, BooksSound
<1>3. QED
  BY <1>2

\* A statement on one session that no job issues.
LEMMA SessionBooks ==
    ASSUME Control, TypeOK', BooksSound, UNCHANGED <<now, job, torn>>,
           NEW s \in Session, NEW r, Writes(s, r),
           \/ /\ SameRows \/ UNCHANGED ledger
              /\ s \notin torn => Explains(r, Total(s, Reasons), Unlogged(s))
              /\ Credits(r, Total(s, Credit), now)
           \/ \E d \in Int, why \in Reasons : \E a :
                 /\ Gains(s, d, why, a)
                 /\ s \notin torn => Explains(r, Total(s, Reasons) + d, Unlogged(s))
                 /\ Credits(r, Total(s, Credit) + (IF why = "clock_pause" THEN d ELSE 0), now)
    PROVE  BooksSound'
<1>1. /\ TypeOK /\ Total(s, Reasons) \in Int /\ Total(s, Credit) \in Int /\ Unlogged(s) \in Int
  BY TotalIs, UnloggedInt DEF Control, TypeOK, BooksSound
<1>2. \A q \in Session : sess'[q] = IF q = s THEN r ELSE sess[q]
  BY <1>1 DEF Writes, TypeOK
<1>3. \A q \in Session : /\ Unlogged(q)' = Unlogged(q) + (IF q = s THEN 0 ELSE 0)
                         /\ IsFiniteSet(Logging(q)')
  BY <1>1, JobsSteps
<1>4. \A q \in Session : q \notin torn' => q \notin torn
  OBVIOUS
<1>5. CASE /\ SameRows \/ UNCHANGED ledger
           /\ s \notin torn => Explains(r, Total(s, Reasons), Unlogged(s))
           /\ Credits(r, Total(s, Credit), now)
  <2>1. \A q \in Session :
           /\ Total(q, Reasons)' = Total(q, Reasons) + (IF q = s THEN 0 ELSE 0)
           /\ Total(q, Credit)' = Total(q, Credit) + (IF q = s THEN 0 ELSE 0)
    BY <1>1, <1>5, LedgerSteps
  <2>2. /\ s \notin torn' => Explains(r, Total(s, Reasons) + 0, Unlogged(s) + 0)
        /\ Credits(r, Total(s, Credit) + 0, now)
    BY <1>1, <1>5
  <2>3. 0 \in Int /\ now' = now
    OBVIOUS
  <2>4. Posts(s, r, 0, 0, 0)
    BY ONLY <1>2, <1>3, <1>4, <2>1, <2>2, <2>3 DEF Posts
  <2>5. QED
    BY <1>1, <2>3, <2>4, BooksStep
<1>6. ASSUME NEW d \in Int, NEW why \in Reasons, NEW a, Gains(s, d, why, a),
             s \notin torn => Explains(r, Total(s, Reasons) + d, Unlogged(s)),
             Credits(r, Total(s, Credit) + (IF why = "clock_pause" THEN d ELSE 0), now)
      PROVE  BooksSound'
  <2>1. PICK c \in Int : c = IF why = "clock_pause" THEN d ELSE 0
    OBVIOUS
  <2>2. \A q \in Session :
           /\ Total(q, Reasons)' = Total(q, Reasons) + (IF q = s THEN d ELSE 0)
           /\ Total(q, Credit)' = Total(q, Credit) + (IF q = s THEN c ELSE 0)
    BY <1>1, <1>6, <2>1, LedgerSteps
  <2>3. /\ s \notin torn' => Explains(r, Total(s, Reasons) + d, Unlogged(s) + 0)
        /\ Credits(r, Total(s, Credit) + c, now)
    BY <1>1, <1>6, <2>1
  <2>4. PICK u \in Int : u = 0
    OBVIOUS
  <2>5. \A q \in Session :
           /\ Total(q, Reasons)' = Total(q, Reasons) + (IF q = s THEN d ELSE 0)
           /\ Total(q, Credit)' = Total(q, Credit) + (IF q = s THEN c ELSE 0)
           /\ Unlogged(q)' = Unlogged(q) + (IF q = s THEN u ELSE 0)
           /\ IsFiniteSet(Logging(q)')
    BY <1>3, <2>2, <2>4
  <2>6. s \notin torn' => Explains(r, Total(s, Reasons) + d, Unlogged(s) + u)
    BY <2>3, <2>4
  <2>7. now' = now /\ Credits(r, Total(s, Credit) + c, now)
    BY <2>3
  <2>8. Posts(s, r, d, c, u)
    BY ONLY <1>2, <1>4, <2>5, <2>6, <2>7 DEF Posts
  <2>9. QED
    BY <1>1, <2>1, <2>4, <2>8, BooksStep
<1>7. QED
  BY <1>5, <1>6

\* A statement that touches no session, no row and no log that is due.
LEMMA QuietBooks ==
    ASSUME TypeOK, TypeOK', BooksSound, UNCHANGED <<now, sess>>,
           SameRows \/ UNCHANGED ledger,
           \A q \in Session : q \notin torn' => q \notin torn,
           \A w \in Worker : /\ job'[w].step = "log" <=> job[w].step = "log"
                             /\ job[w].step = "log" => job'[w] = job[w]
    PROVE  BooksSound'
<1>1. ASSUME NEW q \in Session
      PROVE  /\ IsFiniteSet(Logging(q)')
             /\ q \notin torn' => Explains(sess[q], Total(q, Reasons)', Unlogged(q)')
             /\ Credits(sess[q], Total(q, Credit)', now)
  <2>1. Total(q, Reasons) \in Int /\ Total(q, Credit) \in Int /\ Unlogged(q) \in Int
    BY TotalIs, UnloggedInt DEF TypeOK, BooksSound
  <2>2. Unlogged(q)' = Unlogged(q) /\ IsFiniteSet(Logging(q)')
    BY <2>1, JobsSteps
  <2>3. Total(q, Reasons)' = Total(q, Reasons) /\ Total(q, Credit)' = Total(q, Credit)
    BY <2>1, LedgerSteps
  <2>4. QED
    BY <2>2, <2>3 DEF BooksSound
<1>2. \A q \in Session :
         /\ q \notin torn' => Explains(sess[q], Total(q, Reasons), Unlogged(q))'
         /\ Credits(sess[q], Total(q, Credit), now)'
  BY <1>1 DEF Explains, Credits
<1>3. QED
  BY <1>1, <1>2 DEF BooksSound

LInv == Control /\ RowsSound /\ EffectsSound /\ BooksSound

\* The numbers LInv speaks of, and what a session without a date makes of them.
LEMMA BooksOf ==
    ASSUME LInv, NEW s \in Session
    PROVE  /\ Total(s, Reasons) \in Int /\ Total(s, Credit) \in Int /\ Unlogged(s) \in Int
           /\ sess[s].target = Null =>
                 Total(s, Reasons) = 0 /\ Total(s, Credit) = 0 /\ Unlogged(s) = 0
           /\ s \notin torn => Explains(sess[s], Total(s, Reasons), Unlogged(s))
           /\ Credits(sess[s], Total(s, Credit), now)
           /\ SoundRow(sess[s], now) /\ now \in Nat
<1>1. TypeOK /\ JobsSound /\ RowsSound /\ IsFiniteSet(Logging(s)) /\ ledger \in Seq(Adjustments)
  BY DEF LInv, Control, BooksSound, TypeOK
<1>2. Total(s, Reasons) \in Int /\ Total(s, Credit) \in Int /\ Unlogged(s) \in Int
  BY <1>1, TotalIs, UnloggedInt
<1>3. sess[s].target = Null =>
         Total(s, Reasons) = 0 /\ Total(s, Credit) = 0 /\ Unlogged(s) = 0
  BY <1>1, NothingYet
<1>4. QED
  BY <1>1, <1>2, <1>3 DEF LInv, Control, BooksSound, SessionsSound, TypeOK

\* A request about one session: it keeps or moves the date, and logs what it moves.
LEMMA RequestKeeps ==
    ASSUME LInv, Control', Onward, UNCHANGED <<now, applied, job, torn, dry>>,
           NEW s \in Session, NEW r, Writes(s, r),
           \/ /\ UNCHANGED ledger
              /\ s \notin torn => Explains(r, Total(s, Reasons), Unlogged(s))
              /\ Credits(r, Total(s, Credit), now)
           \/ \E d \in Int, why \in Reasons :
                 /\ Gains(s, d, why, NoAssignment) /\ r.target # Null
                 /\ s \notin torn => Explains(r, Total(s, Reasons) + d, Unlogged(s))
                 /\ Credits(r, Total(s, Credit) + (IF why = "clock_pause" THEN d ELSE 0), now)
    PROVE  LInv'
<1>1. TypeOK /\ TypeOK' /\ RowsSound /\ EffectsSound /\ BooksSound /\ Control
  BY DEF LInv, Control
<1>2. sess'[s] = r
  BY <1>1 DEF Writes, TypeOK
<1>3. UNCHANGED ledger => SameRows
  BY <1>1 DEF TypeOK, SameRows, SameRow
<1>4. BooksSound'
  BY <1>1, <1>3, SessionBooks
<1>5. RowsSound'
  BY <1>1, <1>2, <1>3, RowsKept
<1>6. EffectsSound'
  BY <1>1, <1>3, EffectsQuiet
<1>7. QED
  BY <1>4, <1>5, <1>6 DEF LInv

\* A statement that has nothing to do with the dates.
LEMMA NothingMoves ==
    ASSUME LInv, Control', Onward, UNCHANGED <<now, sess, applied, job, torn, dry>>,
           SameRows \/ UNCHANGED ledger
    PROVE  LInv'
<1>1. TypeOK /\ TypeOK' /\ RowsSound /\ EffectsSound /\ BooksSound
  BY DEF LInv, Control
<1>2. SameRows
  BY <1>1 DEF TypeOK, SameRows, SameRow
<1>3. BooksSound'
  BY <1>1, QuietBooks
<1>4. RowsSound'
  BY <1>1, <1>2, RowsKept
<1>5. EffectsSound'
  BY <1>1, <1>2, EffectsQuiet
<1>6. QED
  BY <1>3, <1>4, <1>5 DEF LInv

LEMMA LedgerRoute ==
    ASSUME LInv, Control', Onward, Route
    PROVE  LInv'
<1>1. TypeOK /\ SessionsSound /\ Control
  BY DEF LInv, Control
<1>2. ASSUME NEW s \in Session, NEW d \in Device, NEW t \in Release, Start(s, d, t)
      PROVE  LInv'
  <2>1. PICK r : /\ Writes(s, r) /\ r.state = "open" /\ r.target = t /\ r.base = t
                 /\ r.pausedAt = Null /\ r.stopped = 0 /\ sess[s].state = "absent"
    BY <1>1, <1>2, StartWrites
  <2>2. Total(s, Reasons) = 0 /\ Total(s, Credit) = 0 /\ Unlogged(s) = 0
    BY <2>1, BooksOf DEF SoundRow
  <2>3. t # Null => t \in Int
    BY ConfinementAssumption
  <2>4. Explains(r, Total(s, Reasons), Unlogged(s)) /\ Credits(r, Total(s, Credit), now)
    BY <2>1, <2>2, <2>3 DEF Explains, Credits
  <2>5. UNCHANGED <<now, applied, job, torn, dry, ledger>>
    BY <1>2 DEF Start, history
  <2>6. QED
    BY <2>1, <2>4, <2>5, RequestKeeps
<1>3. ASSUME NEW s \in Session, End(s)
      PROVE  LInv'
  <2>1. PICK r : Writes(s, r) /\ r.state = "ended" /\ SameClock(r, sess[s])
    BY <1>1, <1>3, EndWrites
  <2>2. /\ s \notin torn => Explains(r, Total(s, Reasons), Unlogged(s))
        /\ Credits(r, Total(s, Credit), now)
    BY <2>1, BooksOf DEF Explains, Credits, SameClock
  <2>3. UNCHANGED <<now, applied, job, torn, dry, ledger>>
    BY <1>3 DEF End, history
  <2>4. QED
    BY <2>1, <2>2, <2>3, RequestKeeps
<1>4. ASSUME NEW s \in Session, NEW message \in BOOLEAN, Pause(s, message)
      PROVE  LInv'
  <2>1. PICK r : /\ Writes(s, r) /\ r.state = "open" /\ SameClock(r, sess[s])
                 /\ r.pausedAt = now /\ sess[s].state = "open" /\ sess[s].pausedAt = Null
    BY <1>1, <1>4, PauseWrites DEF Open
  <2>2. /\ s \notin torn => Explains(r, Total(s, Reasons), Unlogged(s))
        /\ Credits(r, Total(s, Credit), now)
    BY <2>1, BooksOf DEF Explains, Credits, SameClock
  <2>3. UNCHANGED <<now, applied, job, torn, dry, ledger>>
    BY <1>4 DEF Pause, history
  <2>4. QED
    BY <2>1, <2>2, <2>3, RequestKeeps
<1>5. ASSUME NEW s \in Session, NEW message \in BOOLEAN, SetPauseMessage(s, message)
      PROVE  LInv'
  <2>1. PICK r : /\ Writes(s, r) /\ r.state = "open" /\ SameClock(r, sess[s])
                 /\ r.pausedAt = sess[s].pausedAt /\ sess[s].state = "open"
    BY <1>1, <1>5, MessageWrites DEF Open
  <2>2. /\ s \notin torn => Explains(r, Total(s, Reasons), Unlogged(s))
        /\ Credits(r, Total(s, Credit), now)
    BY <2>1, BooksOf DEF Explains, Credits, SameClock
  <2>3. UNCHANGED <<now, applied, job, torn, dry, ledger>>
    BY <1>5 DEF SetPauseMessage, history
  <2>4. QED
    BY <2>1, <2>2, <2>3, RequestKeeps
<1>6. ASSUME NEW s \in Session, Resume(s)
      PROVE  LInv'
  <2>1. PICK q, e, r : /\ q = sess[s] /\ e = now - q.pausedAt
                       /\ Writes(s, r) /\ r.state = "open" /\ r.pausedAt = Null
                       /\ r.base = q.base /\ r.stopped = q.stopped
                       /\ \/ q.target = Null /\ r.target = Null /\ UNCHANGED ledger
                          \/ /\ q.target \in Int /\ r.target = q.target + e
                             /\ Gains(s, e, "clock_pause", NoAssignment)
    BY <1>1, <1>6, ResumeWrites
  <2>2. q.state = "open" /\ q.pausedAt \in Nat /\ e \in Int
    BY <1>1, <1>6, <2>1, ResumeWrites DEF Open
  <2>3. UNCHANGED <<now, applied, job, torn, dry>>
    BY <1>6 DEF Resume, history
  <2>4. CASE q.target = Null /\ r.target = Null /\ UNCHANGED ledger
    <3>1. /\ Explains(r, Total(s, Reasons), Unlogged(s)) /\ Credits(r, Total(s, Credit), now)
      BY <2>4 DEF Explains, Credits
    <3>2. QED
      BY <2>1, <2>3, <2>4, <3>1, RequestKeeps
  <2>5. CASE /\ q.target \in Int /\ r.target = q.target + e
             /\ Gains(s, e, "clock_pause", NoAssignment)
    <3>1. q.target # Null /\ r.target # Null /\ Null \notin Int
      BY <2>2, <2>5, ConfinementAssumption
    <3>2. s \notin torn => Explains(r, Total(s, Reasons) + e, Unlogged(s))
      <4>1. q.base \in Int
        BY <2>1, <3>1, BooksOf DEF SoundRow, Sessions, Time
      <4>2. PICK T \in Int, U \in Int : T = Total(s, Reasons) /\ U = Unlogged(s)
        BY BooksOf
      <4>3. s \notin torn => q.target = q.base + T + U
        BY <2>1, <3>1, <4>2, BooksOf DEF Explains
      <4>4. s \notin torn => r.target = q.base + (T + e) + U
        BY <2>2, <2>5, <4>1, <4>2, <4>3
      <4>5. QED
        BY <2>1, <4>2, <4>4 DEF Explains
    <3>3. Credits(r, Total(s, Credit) + e, now)
      <4>1. Total(s, Credit) + (now - q.pausedAt) = q.stopped
        BY <2>1, <2>2, <3>1, BooksOf DEF Credits
      <4>2. Total(s, Credit) + e \in Int
        BY <2>2, BooksOf
      <4>3. QED
        BY <2>1, <4>1, <4>2 DEF Credits
    <3>4. "clock_pause" \in Reasons
      BY DEF Reasons
    <3>5. \E d \in Int, why \in Reasons :
                 /\ Gains(s, d, why, NoAssignment) /\ r.target # Null
                 /\ s \notin torn => Explains(r, Total(s, Reasons) + d, Unlogged(s))
                 /\ Credits(r, Total(s, Credit) + (IF why = "clock_pause" THEN d ELSE 0), now)
      BY <2>2, <2>5, <3>1, <3>2, <3>3, <3>4
    <3>6. QED
      BY <2>1, <2>3, <3>5, RequestKeeps
  <2>6. QED
    BY <2>1, <2>4, <2>5
<1>7. ASSUME NEW s \in Session, NEW d \in Effect, AdjustTimer(s, d)
      PROVE  LInv'
  <2>1. d \in Int
    BY ConfinementAssumption
  <2>2. PICK r : r = Moved(sess[s], d) /\ Writes(s, r)
    BY <1>1, <1>7, <2>1, MoveWrites DEF AdjustTimer
  <2>3. Gains(s, d, "manual", NoAssignment)
    BY <1>1, <1>7, <2>1, AdjustGains DEF TypeOK
  <2>4. /\ s \notin torn => Explains(r, Total(s, Reasons) + d, Unlogged(s))
        /\ Credits(r, Total(s, Credit) + 0, now)
    <3>1. sess[s].state = "open"
      BY <1>7 DEF AdjustTimer, Open
    <3>2. PICK q, T, C, U : /\ q = sess[s] /\ T = Total(s, Reasons) /\ C = Total(s, Credit)
                            /\ U = Unlogged(s)
      OBVIOUS
    <3>3. /\ T \in Int /\ C \in Int /\ U \in Int /\ SoundRow(q, now) /\ now \in Nat
          /\ q.target = Null => T = 0 /\ C = 0 /\ U = 0
          /\ s \notin torn => Explains(q, T, U)
          /\ Credits(q, C, now)
      BY <1>7, <3>2, BooksOf
    <3>4. /\ Explains(q, T, U) => Explains(Moved(q, d), T + d, U)
          /\ q.state = "open" /\ Credits(q, C, now) => Credits(Moved(q, d), C, now)
      BY ONLY <2>1, <3>3, MovedBooks
    <3>5. C + 0 = C
      BY <3>3
    <3>6. QED
      BY ONLY <2>2, <3>1, <3>2, <3>3, <3>4, <3>5
  <2>5. r.target # Null
    BY <2>1, <2>2, BooksOf, MovedRow
  <2>6. \E e \in Int, why \in Reasons :
             /\ Gains(s, e, why, NoAssignment) /\ r.target # Null
             /\ s \notin torn => Explains(r, Total(s, Reasons) + e, Unlogged(s))
             /\ Credits(r, Total(s, Credit) + (IF why = "clock_pause" THEN e ELSE 0), now)
    <3>1. "manual" \in Reasons /\ "manual" # "clock_pause"
      BY DEF Reasons
    <3>2. QED
      BY <2>1, <2>3, <2>4, <2>5, <3>1
  <2>7. UNCHANGED <<now, applied, job, torn, dry>>
    BY <1>7 DEF AdjustTimer, history
  <2>8. QED
    BY <2>2, <2>6, <2>7, RequestKeeps
<1>8. ASSUME NEW i \in DOMAIN ledger, ReviewAdjustment(i)
      PROVE  LInv'
  <2>1. SameRows
    BY <1>1, <1>8, ReviewKeeps DEF TypeOK
  <2>2. UNCHANGED <<now, sess, applied, job, torn, dry>>
    BY <1>8 DEF ReviewAdjustment, history
  <2>3. QED
    BY <2>1, <2>2, NothingMoves
<1>9. ASSUME NEW d \in Device, AddDevice(d) \/ RetireDevice(d)
      PROVE  LInv'
  <2>1. UNCHANGED <<now, sess, ledger, applied, job, torn, dry>>
    BY <1>9 DEF AddDevice, RetireDevice, InsertDevice, Retire, SetDevice, locks, history
  <2>2. QED
    BY <2>1, NothingMoves
<1>10. QED
  BY <1>2, <1>3, <1>4, <1>5, <1>6, <1>7, <1>8, <1>9
  DEF Route, StartSession, SubmissiveStartSession, EndSession, SubmissiveEndSession,
      ResumeSession, PauseSession, UpdatePauseMessage, TimerRequest, ReviewTimerAdjustment

LEMMA LedgerEffect ==
    ASSUME LInv, Control', Onward, NEW a \in Assignment, NEW d \in Effect, NEW system \in BOOLEAN,
           EffectInTransaction(a, d, system)
    PROVE  LInv'
<1>1. /\ TypeOK /\ TypeOK' /\ SessionsSound /\ RowsSound /\ EffectsSound /\ BooksSound
      /\ Control
  BY DEF LInv, Control
<1>2. /\ d \in Int /\ a \notin applied /\ applied' = applied \cup {a}
      /\ UNCHANGED <<now, job, torn>>
  BY <1>1, EffectWrites
<1>3. CASE dry' = dry \cup {a} /\ UNCHANGED <<sess, ledger>>
  <2>1. EffectsSound'
    BY <1>1, <1>2, <1>3, EffectsDry
  <2>2. BooksSound'
    BY <1>1, <1>2, <1>3, QuietBooks
  <2>3. RowsSound'
    BY <1>1, <1>3 DEF RowsSound
  <2>4. QED
    BY <2>1, <2>2, <2>3 DEF LInv
<1>4. ASSUME UNCHANGED dry, NEW s \in Session, sess[s].state = "open",
             Writes(s, Moved(sess[s], d)), Gains(s, d, ReasonOf(d), a)
      PROVE  LInv'
  <2>1. PICK r, why : /\ r = Moved(sess[s], d) /\ why = ReasonOf(d)
                      /\ why \in Reasons /\ why # "clock_pause"
    BY ReasonsOfEffects
  <2>2. Writes(s, r) /\ Gains(s, d, why, a)
    BY <1>4, <2>1
  <2>3. r.target # Null
    BY <1>2, <2>1, BooksOf, MovedRow
  <2>4. sess'[s] = r
    BY <1>1, <2>2 DEF Writes, TypeOK
  <2>5. EffectsSound'
    BY <1>1, <1>2, <1>4, <2>2, EffectsLogged
  <2>6. RowsSound'
    BY <1>1, <1>2, <2>2, <2>3, <2>4, RowsKept
  <2>7. BooksSound'
    <3>1. s \notin torn => Explains(r, Total(s, Reasons) + d, Unlogged(s))
      BY <1>2, <2>1, BooksOf, MovedBooks
    <3>2. Credits(r, Total(s, Credit), now)
      BY <1>2, <1>4, <2>1, BooksOf, MovedBooks
    <3>3. Credits(r, Total(s, Credit) + (IF why = "clock_pause" THEN d ELSE 0), now)
      BY <2>1, <3>2, BooksOf
    <3>4. QED
      BY <1>1, <1>2, <2>1, <2>2, <3>1, <3>3, SessionBooks
  <2>8. QED
    BY <2>5, <2>6, <2>7 DEF LInv
<1>5. QED
  BY <1>1, <1>3, <1>4, EffectWrites

\* The UPDATE of a direct assignment moves the date by what is then left to log.
LEMMA LedgerUpdate ==
    ASSUME LInv, Control', Onward, NEW w \in Worker, DirectUpdate(w)
    PROVE  LInv'
<1>1. /\ TypeOK /\ TypeOK' /\ SessionsSound /\ JobsSound /\ RowsSound /\ EffectsSound
      /\ BooksSound
  BY DEF LInv, Control
<1>2. UNCHANGED <<now, ledger, applied, dry>>
  BY DEF DirectUpdate
<1>3. PICK s, d, r, m :
              /\ s \in Session /\ d \in Int
              /\ s = job[w].session /\ d = job[w].delta /\ m = Moved(sess[s], d)
              /\ Writes(s, r) /\ r.target # Null
              /\ r.state = sess[s].state /\ r.pausedAt = sess[s].pausedAt
              /\ r.stopped = m.stopped /\ r.base = m.base
              /\ torn' = IF sess[s].state = "open" /\ sess[s].target = job[w].target
                         THEN torn ELSE torn \cup {s}
              /\ s \notin torn' => sess[s].state = "open" /\ r.target = m.target
  BY <1>1, UpdateWrites
<1> s \in Session /\ d \in Int
  BY <1>3
<1>4. PICK j \in Jobs : /\ job' = [job EXCEPT ![w] = j] /\ j.step = "log"
                        /\ j.cause = job[w].cause /\ j.session = s /\ j.delta = d
  BY <1>1, <1>3, UpdateJob
<1>5. \A v \in Worker : job'[v] = IF v = w THEN j ELSE job[v]
  BY <1>1, <1>4 DEF TypeOK
<1>6. SameRows
  BY <1>1, <1>2 DEF TypeOK, SameRows, SameRow
<1>7. EffectsSound'
  BY <1>1, <1>2, <1>4, <1>5, <1>6, EffectsQuiet
<1>8. RowsSound'
  BY <1>1, <1>6, RowsKept
<1>9. ASSUME NEW q \in Session
      PROVE  /\ Unlogged(q)' = Unlogged(q) + (IF q = s THEN d ELSE 0)
             /\ IsFiniteSet(Logging(q)')
  <2>1. w \notin Logging(q) /\ IsFiniteSet(Logging(q))
        /\ job \in [Worker -> Jobs] /\ job' \in [Worker -> Jobs]
    BY <1>1 DEF Logging, DirectUpdate, BooksSound, TypeOK
  <2>2. CASE q = s
    <3>1. Logging(q)' = Logging(q) \cup {w}
      BY <1>4, <1>5, <2>2 DEF Logging
    <3>2. \A v \in Logging(q) \cup {w} : job'[v].delta = job[v].delta
      BY <1>3, <1>4, <1>5 DEF Logging
    <3>3. QED
      BY <1>3, <2>1, <2>2, <3>1, <3>2, UnloggedGrows
  <2>3. CASE q # s
    <3>1. Logging(q)' = Logging(q) /\ \A v \in Logging(q) : job'[v].delta = job[v].delta
      BY <1>4, <1>5, <2>1, <2>3 DEF Logging
    <3>2. Unlogged(q)' = Unlogged(q) /\ Unlogged(q) \in Int /\ IsFiniteSet(Logging(q)')
      BY <2>1, <3>1, UnloggedKept
    <3>3. QED
      BY <2>3, <3>2
  <2>4. QED
    BY <2>2, <2>3
<1>10. BooksSound'
  <2>1. \A q \in Session : sess'[q] = IF q = s THEN r ELSE sess[q]
    BY <1>1, <1>3 DEF Writes, TypeOK
  <2>2. PICK c \in Int : c = 0
    OBVIOUS
  <2>3. \A q \in Session :
           /\ Total(q, Reasons)' = Total(q, Reasons) + (IF q = s THEN c ELSE 0)
           /\ Total(q, Credit)' = Total(q, Credit) + (IF q = s THEN c ELSE 0)
    BY <1>1, <1>6, <2>2, LedgerSteps
  <2>4. \A q \in Session : q \notin torn' => q \notin torn
    BY <1>3
  <2>5. s \notin torn' => Explains(r, Total(s, Reasons) + c, Unlogged(s) + d)
    <3>1. SUFFICES ASSUME s \notin torn'
                   PROVE  Explains(r, Total(s, Reasons) + c, Unlogged(s) + d)
      OBVIOUS
    <3>2. Explains(m, Total(s, Reasons), Unlogged(s) + d)
      <4>1. PICK q, T, C, U : /\ q = sess[s] /\ T = Total(s, Reasons) /\ C = Total(s, Credit)
                              /\ U = Unlogged(s)
        OBVIOUS
      <4>2. /\ T \in Int /\ C \in Int /\ U \in Int /\ SoundRow(q, now) /\ now \in Nat /\ d \in Int
            /\ q.target = Null => T = 0 /\ C = 0 /\ U = 0
            /\ Explains(q, T, U) /\ m = Moved(q, d)
        BY <1>3, <2>4, <3>1, <4>1, BooksOf
      <4>3. Explains(Moved(q, d), T, U + d)
        BY ONLY <4>2, MovedBooks
      <4>4. QED
        BY ONLY <4>1, <4>2, <4>3
    <3>3. m.target = r.target /\ m.base = r.base /\ Total(s, Reasons) + c = Total(s, Reasons)
      BY <1>3, <2>2, <3>1, BooksOf
    <3>4. QED
      BY <3>2, <3>3 DEF Explains
  <2>6. Credits(r, Total(s, Credit) + c, now)
    <3>1. SUFFICES ASSUME sess[s].state = "open"
                   PROVE  Credits(r, Total(s, Credit) + c, now)
      BY <1>3 DEF Credits
    <3>2. Credits(m, Total(s, Credit), now)
      BY <1>3, <3>1, BooksOf, MovedBooks
    <3>3. m.state = r.state /\ m.pausedAt = r.pausedAt /\ m.target # Null
      BY <1>3, BooksOf, MovedRow
    <3>4. Total(s, Credit) + c = Total(s, Credit)
      BY <2>2, BooksOf
    <3>5. QED
      BY <1>3, <3>2, <3>3, <3>4 DEF Credits
  <2>7. /\ now' = now
        /\ \A q \in Session :
              /\ Total(q, Reasons)' = Total(q, Reasons) + (IF q = s THEN c ELSE 0)
              /\ Total(q, Credit)' = Total(q, Credit) + (IF q = s THEN c ELSE 0)
              /\ Unlogged(q)' = Unlogged(q) + (IF q = s THEN d ELSE 0)
              /\ IsFiniteSet(Logging(q)')
    BY <1>2, <1>9, <2>3
  <2>8. Posts(s, r, c, c, d)
    BY ONLY <2>1, <2>4, <2>5, <2>6, <2>7 DEF Posts
  <2>9. QED
    BY <1>1, <2>2, <2>8, BooksStep
<1>11. QED
  BY <1>7, <1>8, <1>10 DEF LInv

\* A job that ends with its log due: nothing is left to log for it.
LEMMA JobEnds ==
    ASSUME TypeOK, TypeOK', BooksSound, NEW w \in Worker, job[w].step = "log",
           job[w].session \in Session, job[w].delta \in Int, job' = [job EXCEPT ![w] = Idle],
           NEW q \in Session
    PROVE  /\ Unlogged(q)' = Unlogged(q) + (IF q = job[w].session THEN 0 - job[w].delta ELSE 0)
           /\ IsFiniteSet(Logging(q)')
<1>1. /\ \A v \in Worker : job'[v] = IF v = w THEN Idle ELSE job[v]
      /\ IsFiniteSet(Logging(q)) /\ job \in [Worker -> Jobs] /\ job' \in [Worker -> Jobs]
  BY DEF TypeOK, BooksSound
<1>2. Unlogged(q) \in Int
  BY <1>1, UnloggedInt
<1>3. CASE q = job[w].session
  <2>1. w \in Logging(q) /\ Logging(q)' = Logging(q) \ {w}
    BY <1>1, <1>3, IdleJob DEF Logging
  <2>2. \A v \in Logging(q) \ {w} : job'[v].delta = job[v].delta
    BY <1>1 DEF Logging
  <2>3. Unlogged(q)' = Unlogged(q) - job[w].delta /\ IsFiniteSet(Logging(q)')
    BY <1>1, <2>1, <2>2, UnloggedShrinks
  <2>4. QED
    BY <1>2, <1>3, <2>3
<1>4. CASE q # job[w].session
  <2>1. Logging(q)' = Logging(q) /\ \A v \in Logging(q) : job'[v].delta = job[v].delta
    BY <1>1, <1>4, IdleJob DEF Logging
  <2>2. Unlogged(q)' = Unlogged(q) /\ IsFiniteSet(Logging(q)')
    BY <1>1, <2>1, UnloggedKept
  <2>3. QED
    BY <1>2, <1>4, <2>2
<1>5. QED
  BY <1>3, <1>4

LEMMA LedgerDirect ==
    ASSUME LInv, Control', Onward, NEW w \in Worker, Direct(w)
    PROVE  LInv'
<1>1. /\ TypeOK /\ TypeOK' /\ SessionsSound /\ JobsSound /\ RowsSound /\ EffectsSound
      /\ BooksSound /\ job[w] \in Jobs
  BY DEF LInv, Control, TypeOK
<1>2. UNCHANGED ledger => SameRows
  BY <1>1 DEF TypeOK, SameRows, SameRow
<1>3. ASSUME NEW a \in Assignment, NEW d \in Effect, DirectInsert(w, a, d)
      PROVE  LInv'
  <2>1. /\ a \notin applied /\ applied' = applied \cup {a} /\ job[w].step = "idle"
        /\ UNCHANGED <<now, sess, ledger, torn, dry>>
    BY <1>3 DEF DirectInsert, locks, history
  <2>2. PICK j \in Jobs : job' = [job EXCEPT ![w] = j] /\ j.step = "read" /\ j.cause = a
    BY <1>1, <1>3, InsertJob
  <2>3. \A v \in Worker : job'[v] = IF v = w THEN j ELSE job[v]
    BY <1>1, <2>2 DEF TypeOK
  <2>4. EffectsSound'
    BY <1>1, <2>1, <2>2, <2>3, EffectsTaken DEF JobsSound
  <2>5. RowsSound'
    BY <1>1, <1>2, <2>1, RowsKept
  <2>6. BooksSound'
    BY <1>1, <2>1, <2>2, <2>3, QuietBooks
  <2>7. QED
    BY <2>4, <2>5, <2>6 DEF LInv
<1>4. CASE DirectRead(w)
  <2>1. UNCHANGED <<now, sess, ledger, applied, torn>> /\ job[w].step = "read"
    BY <1>4 DEF DirectRead, locks
  <2>2. RowsSound' /\ job[w].cause # NoAssignment
    BY <1>1, <1>2, <2>1, RowsKept DEF JobsSound
  <2>3. CASE job' = [job EXCEPT ![w] = Idle] /\ dry' = dry \cup {job[w].cause}
    <3>1. \A v \in Worker : job'[v] = IF v = w THEN Idle ELSE job[v]
      BY <1>1, <2>3 DEF TypeOK
    <3>2. EffectsSound'
      BY <1>1, <2>1, <2>2, <2>3, <3>1, IdleJob, EffectsDropped
    <3>3. BooksSound'
      BY <1>1, <2>1, <3>1, IdleJob, QuietBooks
    <3>4. QED
      BY <2>2, <3>2, <3>3 DEF LInv
  <2>4. ASSUME NEW s \in Session, UNCHANGED dry,
               job' = [job EXCEPT ![w].step = "update", ![w].session = s,
                                  ![w].target = sess[s].target]
        PROVE  LInv'
    <3>1. PICK j \in Jobs : /\ job' = [job EXCEPT ![w] = j] /\ j.step = "update"
                            /\ j.cause = job[w].cause
      BY <1>1, <2>1, <2>4, ReadJob
    <3>2. \A v \in Worker : job'[v] = IF v = w THEN j ELSE job[v]
      BY <1>1, <3>1 DEF TypeOK
    <3>3. EffectsSound'
      BY <1>1, <1>2, <2>1, <2>4, <3>1, <3>2, EffectsQuiet
    <3>4. BooksSound'
      BY <1>1, <2>1, <3>1, <3>2, QuietBooks
    <3>5. QED
      BY <2>2, <3>3, <3>4 DEF LInv
  <2>5. QED
    BY <1>4, <2>3, <2>4 DEF DirectRead
<1>5. CASE DirectUpdate(w)
  BY <1>5, LedgerUpdate
<1>6. CASE DirectLog(w)
  <2>1. /\ job[w].step = "log" /\ job' = [job EXCEPT ![w] = Idle]
        /\ UNCHANGED <<now, sess, applied, torn, dry>>
    BY <1>6 DEF DirectLog, history
  <2>2. PICK s, d, a, why :
              /\ s \in Session /\ d \in Int /\ a \in Assignment
              /\ s = job[w].session /\ d = job[w].delta /\ a = job[w].cause
              /\ why = ReasonOf(d) /\ sess[s].target # Null
              /\ Gains(s, d, why, a)
    BY <1>1, <1>6, LogGains
  <2> s \in Session /\ d \in Int /\ a \in Assignment
    BY <2>2
  <2>3. why \in Reasons /\ why # "clock_pause"
    BY <2>2, ReasonsOfEffects
  <2>4. \A v \in Worker : job'[v] = IF v = w THEN Idle ELSE job[v]
    BY <1>1, <2>1 DEF TypeOK
  <2>5. EffectsSound'
    <3>1. job[w].cause # NoAssignment
      BY <1>1, <2>1 DEF JobsSound
    <3>2. QED
      BY <1>1, <2>1, <2>2, <2>4, <3>1, IdleJob, EffectsDone
  <2>6. RowsSound'
    BY <1>1, <2>1, <2>2, RowsKept
  <2>7. BooksSound'
    <3>1. PICK c \in Int, u \in Int : c = 0 /\ u = 0 - d
      OBVIOUS
    <3>2. \A q \in Session :
             /\ Total(q, Reasons)' = Total(q, Reasons) + (IF q = s THEN d ELSE 0)
             /\ Total(q, Credit)' = Total(q, Credit) + (IF q = s THEN c ELSE 0)
      BY <1>1, <2>2, <2>3, <3>1, LedgerSteps
    <3>3. \A q \in Session :
             /\ Unlogged(q)' = Unlogged(q) + (IF q = s THEN u ELSE 0)
             /\ IsFiniteSet(Logging(q)')
      BY <1>1, <2>1, <2>2, <3>1, JobEnds
    <3>4. PICK r : r = sess[s]
      OBVIOUS
    <3>5. /\ \A q \in Session : sess'[q] = IF q = s THEN r ELSE sess[q]
          /\ now' = now /\ (\A q \in Session : q \notin torn' => q \notin torn)
      BY <2>1, <3>4
    <3>6. s \notin torn' => Explains(r, Total(s, Reasons) + d, Unlogged(s) + u)
      <4>1. SUFFICES ASSUME s \notin torn
                     PROVE  Explains(r, Total(s, Reasons) + d, Unlogged(s) + u)
        BY <2>1
      <4>2. PICK T \in Int, U \in Int, b \in Int :
                  T = Total(s, Reasons) /\ U = Unlogged(s) /\ b = r.base
        <5>1. r.base \in Int
          BY <2>2, <3>4, BooksOf DEF SoundRow, Sessions, Time
        <5>2. QED
          BY <5>1, BooksOf
      <4>3. r.target = b + T + U
        BY <2>2, <3>4, <4>1, <4>2, BooksOf DEF Explains
      <4>4. b + T + U = b + (T + d) + (U + u)
        BY <3>1, <4>2
      <4>5. QED
        BY <4>2, <4>3, <4>4 DEF Explains
    <3>7. Credits(r, Total(s, Credit) + c, now)
      BY <3>1, <3>4, BooksOf
    <3>8. \A q \in Session :
             /\ Total(q, Reasons)' = Total(q, Reasons) + (IF q = s THEN d ELSE 0)
             /\ Total(q, Credit)' = Total(q, Credit) + (IF q = s THEN c ELSE 0)
             /\ Unlogged(q)' = Unlogged(q) + (IF q = s THEN u ELSE 0)
             /\ IsFiniteSet(Logging(q)')
      BY <3>2, <3>3
    <3>9. TypeOK /\ TypeOK' /\ BooksSound
      BY <1>1
    <3>10. Posts(s, r, d, c, u)
      BY ONLY <3>5, <3>6, <3>7, <3>8 DEF Posts
    <3>11. QED
      BY <3>1, <3>9, <3>10, BooksStep
  <2>8. QED
    BY <2>5, <2>6, <2>7 DEF LInv
<1>7. CASE DirectAbort(w)
  <2>1. /\ job[w].step # "idle" /\ job' = [job EXCEPT ![w] = Idle]
        /\ dry' = dry \cup {job[w].cause}
        /\ torn' = IF job[w].step = "log" THEN torn \cup {job[w].session} ELSE torn
        /\ UNCHANGED <<now, sess, ledger, applied>>
    BY <1>7 DEF DirectAbort, locks
  <2>2. \A v \in Worker : job'[v] = IF v = w THEN Idle ELSE job[v]
    BY <1>1, <2>1 DEF TypeOK
  <2>3. RowsSound' /\ job[w].cause # NoAssignment
    BY <1>1, <1>2, <2>1, RowsKept DEF JobsSound
  <2>4. EffectsSound'
    BY <1>1, <2>1, <2>2, <2>3, IdleJob, EffectsDropped
  <2>5. CASE job[w].step # "log"
    <3>1. BooksSound'
      BY <1>1, <2>1, <2>2, <2>5, IdleJob, QuietBooks
    <3>2. QED
      BY <2>3, <2>4, <3>1 DEF LInv
  <2>6. CASE job[w].step = "log"
    <3>1. PICK s, r, c, u : /\ s = job[w].session /\ r = sess[s]
                            /\ c = 0 /\ u = 0 - job[w].delta
                            /\ s \in Session /\ c \in Int /\ u \in Int
      BY <1>1, <2>6 DEF JobsSound, Jobs
    <3>2. \A q \in Session :
             /\ Total(q, Reasons)' = Total(q, Reasons) + (IF q = s THEN c ELSE 0)
             /\ Total(q, Credit)' = Total(q, Credit) + (IF q = s THEN c ELSE 0)
      BY <1>1, <2>1, <3>1, LedgerSteps
    <3>3. \A q \in Session :
             /\ Unlogged(q)' = Unlogged(q) + (IF q = s THEN u ELSE 0)
             /\ IsFiniteSet(Logging(q)')
      <4>1. job[w].session \in Session /\ job[w].delta \in Int
        BY <1>1, <3>1 DEF Jobs
      <4>2. QED
        BY <1>1, <2>1, <2>6, <3>1, <4>1, JobEnds
    <3>4. /\ \A q \in Session : sess'[q] = IF q = s THEN r ELSE sess[q]
          /\ now' = now /\ (\A q \in Session : q \notin torn' => q \notin torn)
      BY <2>1, <3>1
    <3>5. s \notin torn' => Explains(r, Total(s, Reasons) + c, Unlogged(s) + u)
      BY <2>1, <2>6, <3>1
    <3>6. Credits(r, Total(s, Credit) + c, now)
      BY <3>1, BooksOf
    <3>7. \A q \in Session :
             /\ Total(q, Reasons)' = Total(q, Reasons) + (IF q = s THEN c ELSE 0)
             /\ Total(q, Credit)' = Total(q, Credit) + (IF q = s THEN c ELSE 0)
             /\ Unlogged(q)' = Unlogged(q) + (IF q = s THEN u ELSE 0)
             /\ IsFiniteSet(Logging(q)')
      BY <3>2, <3>3
    <3>8. s \in Session /\ c \in Int /\ u \in Int /\ TypeOK /\ TypeOK' /\ BooksSound
      BY <1>1, <3>1
    <3>9. Posts(s, r, c, c, u)
      BY ONLY <3>4, <3>5, <3>6, <3>7 DEF Posts
    <3>10. BooksSound'
      BY <3>8, <3>9, BooksStep
    <3>11. QED
      BY <2>3, <2>4, <3>10 DEF LInv
  <2>7. QED
    BY <2>5, <2>6
<1>8. QED
  BY <1>3, <1>4, <1>5, <1>6, <1>7 DEF Direct

\* The clock pays a pause what it has stopped.
LEMMA LedgerTick ==
    ASSUME LInv, Control', Onward, Tick
    PROVE  LInv'
<1>1. /\ TypeOK /\ TypeOK' /\ SessionsSound /\ RowsSound /\ EffectsSound /\ BooksSound
      /\ UNCHANGED <<ledger, applied, job, torn, dry>> /\ SameRows
  BY DEF LInv, Control, Tick, history, TypeOK, SameRows, SameRow
<1>2. RowsSound'
  BY <1>1, RowsKept
<1>3. EffectsSound'
  BY <1>1, EffectsQuiet
<1>4. ASSUME NEW q \in Session
      PROVE  /\ IsFiniteSet(Logging(q)')
             /\ q \notin torn' => Explains(sess'[q], Total(q, Reasons)', Unlogged(q)')
             /\ Credits(sess'[q], Total(q, Credit)', now')
  <2>1. /\ Unlogged(q)' = Unlogged(q) /\ IsFiniteSet(Logging(q)')
        /\ Total(q, Reasons)' = Total(q, Reasons) /\ Total(q, Credit)' = Total(q, Credit)
    <3>1. Logging(q)' = Logging(q)
      BY <1>1 DEF Logging
    <3>2. Unlogged(q)' = Unlogged(q)
      BY <1>1, <3>1 DEF Unlogged
    <3>3. QED
      BY <1>1, <3>1, <3>2, TotalKept DEF TypeOK, BooksSound
  <2>2. PICK r, n : r = sess[q] /\ n = sess'[q]
    OBVIOUS
  <2>3. /\ n.state = r.state /\ n.target = r.target /\ n.base = r.base /\ n.pausedAt = r.pausedAt
        /\ n.stopped = IF r.state = "open" /\ r.pausedAt # Null /\ r.target # Null
                       THEN r.stopped + 1 ELSE r.stopped
        /\ now' = now + 1
    BY <1>1, <2>2, TickKeeps
  <2>4. q \notin torn' => Explains(n, Total(q, Reasons), Unlogged(q))
    BY <1>1, <2>2, <2>3, BooksOf DEF Explains
  <2>5. Credits(n, Total(q, Credit), now')
    <3>1. SUFFICES ASSUME r.state = "open", r.target # Null
                   PROVE  Credits(n, Total(q, Credit), now')
      BY <2>3 DEF Credits
    <3>2. PICK C \in Int : C = Total(q, Credit)
      BY BooksOf
    <3>3. C + (IF r.pausedAt # Null THEN now - r.pausedAt ELSE 0) = r.stopped
      BY <2>2, <3>1, <3>2, BooksOf DEF Credits
    <3>4. CASE r.pausedAt # Null
      <4>1. r.pausedAt \in Nat /\ now \in Nat
        BY <2>2, <3>4, BooksOf DEF SoundRow, Sessions
      <4>2. C + ((now + 1) - r.pausedAt) = r.stopped + 1
        BY <3>2, <3>3, <3>4, <4>1
      <4>3. QED
        BY <2>3, <3>1, <3>2, <3>4, <4>2 DEF Credits
    <3>5. CASE r.pausedAt = Null
      BY <2>3, <3>2, <3>3, <3>5 DEF Credits
    <3>6. QED
      BY <3>4, <3>5
  <2>6. QED
    BY <2>1, <2>2, <2>4, <2>5
<1>5. \A q \in Session :
         /\ q \notin torn' => Explains(sess[q], Total(q, Reasons), Unlogged(q))'
         /\ Credits(sess[q], Total(q, Credit), now)'
  BY <1>4 DEF Explains, Credits
<1>6. BooksSound'
  BY <1>4, <1>5 DEF BooksSound
<1>7. QED
  BY <1>2, <1>3, <1>6 DEF LInv

LEMMA LedgerKept ==
    ASSUME LInv, [Next]_vars
    PROVE  LInv'
<1>1. Control' /\ Onward
  BY ControlKept DEF LInv
<1>2. ASSUME NEW status \in {"paused", "ended"}, ChangeLink(status)
      PROVE  UNCHANGED <<now, sess, ledger, applied, job, torn, dry>>
  BY <1>2 DEF ChangeLink, locks, history
<1>3. ASSUME SelectReminders \/ (\E s \in Session : Remind(s)) \/ ReminderLost
      PROVE  UNCHANGED <<now, sess, ledger, applied, job, torn, dry>>
  BY <1>3 DEF SelectReminders, Remind, ReminderLost, locks, history
<1>4. ASSUME UNCHANGED vars
      PROVE  UNCHANGED <<now, sess, ledger, applied, job, torn, dry>>
  BY <1>4 DEF vars, locks, history
<1>5. CASE UNCHANGED <<now, sess, ledger, applied, job, torn, dry>>
  BY <1>1, <1>5, NothingMoves
<1>6. QED
  BY <1>1, <1>2, <1>3, <1>4, <1>5, LedgerRoute, LedgerEffect, LedgerDirect, LedgerTick DEF Next

LEMMA LedgerHolds ==
    ASSUME Init
    PROVE  LInv
<1>1. Control
  BY ControlHolds
<1>2. TypeOK /\ ledger = <<>> /\ torn = {} /\ dry = {} /\ applied = {}
  BY <1>1 DEF Control, Init
<1>3. RowsSound /\ EffectsSound
  BY <1>2, IdleJob DEF RowsSound, EffectsSound, JobCauses, RowCauses, NoneLost, Init
<1>4. ASSUME NEW s \in Session
      PROVE  /\ IsFiniteSet(Logging(s))
             /\ Explains(sess[s], Total(s, Reasons), Unlogged(s))
             /\ Credits(sess[s], Total(s, Credit), now)
  <2>1. Logging(s) = {}
    BY IdleJob DEF Logging, Init
  <2>2. sess[s].target = Null /\ sess[s].state = "absent"
    BY DEF Init
  <2>3. QED
    BY <2>1, <2>2, FS_EmptySet DEF Explains, Credits
<1>5. QED
  BY <1>1, <1>3, <1>4 DEF LInv, BooksSound

LEMMA OnceEach ==
    ASSUME TypeOK, JobsSound, EffectsSound
    PROVE  AppliedOnce
<1> SUFFICES ASSUME NEW a \in Assignment, NEW rows, rows = {i \in DOMAIN ledger : ledger[i].cause = a}
             PROVE  /\ Cardinality(rows) <= (IF a \in applied \ dry THEN 1 ELSE 0)
                    /\ a \in applied \ dry /\ (\A w \in Worker : job[w].cause # a) => rows # {}
  BY DEF AppliedOnce
<1>1. a # NoAssignment
  BY ConfinementAssumption
<1>2. rows # {} => a \in applied \ dry
  BY <1>1 DEF EffectsSound, RowCauses
<1>3. \A i, k \in rows : i = k
  BY <1>1 DEF EffectsSound, RowCauses
<1>4. CASE rows = {}
  <2>1. Cardinality(rows) = 0
    BY <1>4, FS_EmptySet
  <2>2. a \in applied \ dry => \E w \in Worker : job[w].cause = a
    BY <1>4 DEF EffectsSound, NoneLost
  <2>3. QED
    BY <2>1, <2>2
<1>5. CASE rows # {}
  <2>1. PICK i : rows = {i}
    BY <1>3, <1>5
  <2>2. Cardinality(rows) = 1
    BY <2>1, FS_Singleton
  <2>3. QED
    BY <1>2, <1>5, <2>2
<1>6. QED
  BY <1>4, <1>5

\* For any mixture of requests, escalations, pauses and overlapping direct assignments: the
\* ledger explains the release date of every session no direct assignment has torn, every pause
\* is credited once and in full, and every applied assignment has moved one session, once.
THEOREM LedgerIsAlwaysExact == Spec => []LedgerIsExact
<1>1. Init => LInv
  BY LedgerHolds
<1>2. LInv /\ [Next]_vars => LInv'
  BY LedgerKept
<1>3. ASSUME LInv PROVE LedgerIsExact
  <2>1. LedgerExplainsTarget
    BY <1>3 DEF LInv, BooksSound, LedgerExplainsTarget, Explained, Explains
  <2>2. PauseIsCredited
    BY <1>3 DEF LInv, Control, SessionsSound, SoundRow, BooksSound, Credits, Credit,
       PauseIsCredited, Open, Paused
  <2>3. AppliedOnce
    BY <1>3, OnceEach DEF LInv, Control
  <2>4. QED
    BY <2>1, <2>2, <2>3 DEF LedgerIsExact
<1>4. QED
  BY <1>1, <1>2, <1>3, PTL DEF Spec

=============================================================================
