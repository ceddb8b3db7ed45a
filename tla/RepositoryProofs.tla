-------------------------- MODULE RepositoryProofs --------------------------
(***************************************************************************)
(* That what a repository answers is true of what was stored, and what it  *)
(* was asked to save is what it stores, however many statements an         *)
(* operation takes: types, what the tables hold together, what each        *)
(* operation's statements lead to, why one is refused, which elements of a *)
(* list move, and that what is left is read back as what was saved.        *)
(*                                                                         *)
(* RepositoryInv, TablesInv and PlanInv together are inductive.  The       *)
(* statements an operation has still to run always lead from what it sees  *)
(* to one outcome (Plan, Outcome), and a list is placed by a longest run   *)
(* of positions that increases (LongestIs), so that it stands in order.    *)
(***************************************************************************)
EXTENDS Repository, FiniteSetTheorems, WholeNumbers, TLAPS

-----------------------------------------------------------------------------
(* Those of a sequence that are in a set. *)

OnlyTo(s, S, n, g) ==
    g = [i \in 0..n |-> IF i = 0 THEN << >>
                        ELSE IF s[i] \in S THEN Append(g[i - 1], s[i]) ELSE g[i - 1]]

\* What Only counts up to is there for every length.
LEMMA OnlyExists == \A s, S : \A n \in Nat : \E g : OnlyTo(s, S, n, g)
<1> SUFFICES ASSUME NEW s, NEW S PROVE \A n \in Nat : \E g : OnlyTo(s, S, n, g)
  OBVIOUS
<1> DEFINE N == {n \in Nat : \E g : OnlyTo(s, S, n, g)}
<1>1. 0 \in N
  <2>1. OnlyTo(s, S, 0, [i \in {0} |-> << >>])
    BY DEF OnlyTo
  <2>2. QED
    BY <2>1
<1>2. ASSUME NEW n \in Nat, n \in N PROVE n + 1 \in N
  <2>1. PICK g : OnlyTo(s, S, n, g)
    BY <1>2
  <2> DEFINE Next1(x, f) == IF s[x] \in S THEN Append(f[x - 1], s[x]) ELSE f[x - 1]
             last == Next1(n + 1, g)
             h == [i \in 0..(n + 1) |-> IF i = n + 1 THEN last ELSE g[i]]
  <2>2. ASSUME NEW i \in 0..(n + 1)
        PROVE  h[i] = IF i = 0 THEN << >> ELSE Next1(i, h)
    <3>1. CASE i = n + 1
      <4>1. i # 0 /\ i - 1 = n /\ n \in 0..(n + 1) /\ n # n + 1 /\ (n + 1) - 1 = n
        BY <3>1
      <4>2. h[n] = g[n] /\ h[i] = last
        BY <3>1, <4>1
      <4>3. Next1(i, h) = last
        BY <3>1, <4>1, <4>2
      <4>4. QED
        BY <4>1, <4>2, <4>3
    <3>2. CASE i # n + 1
      <4>1. i \in 0..n /\ (i # 0 => i - 1 \in 0..n)
        BY <3>2
      <4>2. g[i] = IF i = 0 THEN << >> ELSE Next1(i, g)
        BY <2>1, <4>1 DEF OnlyTo
      <4>3. h[i] = g[i] /\ (i # 0 => h[i - 1] = g[i - 1])
        <5> HIDE DEF last
        <5> QED
          BY <3>2, <4>1
      <4>4. QED
        BY <4>2, <4>3
    <3>3. QED
      BY <3>1, <3>2
  <2>3. h = [i \in 0..(n + 1) |-> h[i]]
    OBVIOUS
  <2> HIDE DEF h
  <2>4. OnlyTo(s, S, n + 1, h)
    <3>1. h = [i \in 0..(n + 1) |-> IF i = 0 THEN << >> ELSE Next1(i, h)]
      <4> HIDE DEF Next1
      <4> QED
        BY <2>2, <2>3
    <3>2. QED
      BY <3>1 DEF OnlyTo
  <2>5. QED
    BY <2>4
<1> HIDE DEF N
<1>3. Nat \subseteq N
  BY <1>1, <1>2, CountingUp
<1>4. QED
  BY <1>3 DEF N

\* Those of a sequence that are in a set: each once, in a sequence of its own.
LEMMA OnlyIs ==
    ASSUME NEW V, NEW s \in Seq(V), NEW S, IsInjective(s)
    PROVE  /\ Only(s, S) \in Seq(V)
           /\ Range(Only(s, S)) = Range(s) \cap S
           /\ IsInjective(Only(s, S))
<1> DEFINE n == Len(s)
           Is(g) == OnlyTo(s, S, n, g)
           upTo == CHOOSE g : Is(g)
<1>1. n \in Nat /\ DOMAIN s = 1..n /\ \A i \in 1..n : s[i] \in V
  OBVIOUS
<1>2. Only(s, S) = upTo[n]
  BY DEF Only, OnlyTo
<1>3. Is(upTo)
  <2>1. \E g : Is(g)
    BY <1>1, OnlyExists
  <2> HIDE DEF Is
  <2>2. QED
    BY <2>1
<1> HIDE DEF upTo
<1>4. \A i \in 0..n : upTo[i] = IF i = 0 THEN << >>
                                ELSE IF s[i] \in S THEN Append(upTo[i - 1], s[i]) ELSE upTo[i - 1]
  BY <1>3 DEF OnlyTo
<1> DEFINE Those(i) == {s[j] : j \in 1..i} \cap S
           Good(i) == /\ upTo[i] \in Seq(V)
                      /\ Range(upTo[i]) = Those(i)
                      /\ IsInjective(upTo[i])
           N == {i \in Nat : i <= n => Good(i)}
<1>5. 0 \in N
  <2>1. upTo[0] = << >>
    BY <1>1, <1>4
  <2>2. Those(0) = {}
    OBVIOUS
  <2>3. << >> \in Seq(V) /\ DOMAIN << >> = {}
    OBVIOUS
  <2>4. Range(<< >>) = {} /\ IsInjective(<< >>)
    BY <2>3 DEF Range, IsInjective
  <2>5. Good(0)
    BY <2>1, <2>2, <2>3, <2>4, Zenon
  <2>6. QED
    BY <2>5
<1>6. ASSUME NEW m \in Nat, m \in N PROVE m + 1 \in N
  <2>1. SUFFICES ASSUME m + 1 <= n PROVE Good(m + 1)
    OBVIOUS
  <2>2. Good(m)
    BY <1>1, <1>6, <2>1
  <2>3. m + 1 \in 0..n /\ m + 1 # 0 /\ (m + 1) - 1 = m /\ m + 1 \in 1..n
    BY <1>1, <2>1
  <2> DEFINE x == s[m + 1]
             was == upTo[m]
  <2>4. upTo[m + 1] = IF x \in S THEN Append(was, x) ELSE was
    BY <1>4, <2>3
  <2>5. Those(m + 1) = Those(m) \cup ({x} \cap S)
    <3>1. 1..(m + 1) = 1..m \cup {m + 1}
      OBVIOUS
    <3>2. QED
      BY <3>1
  <2>6. x \in V /\ x \notin Those(m)
    <3>1. \A j \in 1..m : j \in 1..n /\ j # m + 1
      BY <1>1, <2>1
    <3>2. \A j \in 1..m : s[j] # x
      BY <1>1, <2>3, <3>1 DEF IsInjective
    <3>3. QED
      BY <1>1, <2>3, <3>2
  <2>7. was \in Seq(V) /\ Range(was) = Those(m) /\ IsInjective(was)
    BY <2>2
  <2> HIDE DEF x, was, Those
  <2>8. CASE x \in S
    <3> DEFINE is == Append(was, x)
    <3>1. is \in Seq(V) /\ DOMAIN is = 1..(Len(was) + 1) /\ DOMAIN was = 1..Len(was)
          /\ is[Len(was) + 1] = x /\ \A i \in 1..Len(was) : is[i] = was[i]
      BY <2>6, <2>7
    <3>2. Len(was) \in Nat /\ 1..(Len(was) + 1) = 1..Len(was) \cup {Len(was) + 1}
      BY <2>7
    <3> HIDE DEF is
    <3>3. Range(is) = Range(was) \cup {x}
      BY <3>1, <3>2 DEF Range
    <3>4. IsInjective(is)
      <4>1. \A i \in 1..Len(was) : is[i] # x
        BY <2>6, <2>7, <3>1 DEF Range
      <4>2. QED
        BY <2>7, <3>1, <3>2, <4>1 DEF IsInjective
    <3>5. upTo[m + 1] = is
      BY <2>4, <2>8 DEF is
    <3>6. Those(m + 1) = Range(was) \cup {x}
      BY <2>5, <2>7, <2>8
    <3>7. QED
      BY <3>1, <3>3, <3>4, <3>5, <3>6, Zenon
  <2>9. CASE x \notin S
    <3>1. upTo[m + 1] = was /\ Those(m + 1) = Those(m)
      BY <2>4, <2>5, <2>9
    <3>2. QED
      BY <2>7, <3>1
  <2>10. QED
    BY <2>8, <2>9
<1> HIDE DEF N
<1>7. Nat \subseteq N
  BY <1>5, <1>6, CountingUp
<1>8. Good(n)
  <2> HIDE DEF Good
  <2> QED
    BY <1>1, <1>7 DEF N
<1>9. Those(n) = Range(s) \cap S
  BY <1>1 DEF Range
<1>10. QED
  BY <1>2, <1>8, <1>9

-----------------------------------------------------------------------------
(* Lists of statements. *)

IsList(s) == s \in Seq(Range(s))

\* A function on 1..n is a list.
LEMMA ListIs ==
    ASSUME NEW n \in Nat, NEW s, s = [i \in 1..n |-> s[i]]
    PROVE  IsList(s) /\ Len(s) = n /\ Range(s) = {s[i] : i \in 1..n}
BY DEF IsList, Range

\* A list's length, its indices and its head.
LEMMA ListFacts ==
    ASSUME NEW s, IsList(s)
    PROVE  /\ Len(s) \in Nat /\ DOMAIN s = 1..Len(s)
           /\ Range(s) = {s[i] : i \in 1..Len(s)}
           /\ s = << >> <=> Len(s) = 0
           /\ s # << >> => Head(s) = s[1] /\ Head(s) \in Range(s) /\ 1 \in DOMAIN s
<1>1. Len(s) \in Nat /\ DOMAIN s = 1..Len(s)
  BY DEF IsList
<1>2. Range(s) = {s[i] : i \in 1..Len(s)}
  BY <1>1 DEF Range
<1>3. s = << >> <=> Len(s) = 0
  BY DEF IsList
<1>4. s # << >> => Head(s) = s[1] /\ Head(s) \in Range(s) /\ 1 \in DOMAIN s
  <2>1. SUFFICES ASSUME s # << >> PROVE Head(s) = s[1] /\ Head(s) \in Range(s) /\ 1 \in DOMAIN s
    OBVIOUS
  <2>2. 1 \in 1..Len(s)
    BY <2>1, <1>1, <1>3
  <2>3. Head(s) = s[1]
    BY <2>1 DEF IsList
  <2>4. QED
    BY <1>1, <1>2, <2>2, <2>3
<1>5. QED
  BY <1>1, <1>2, <1>3, <1>4

\* What a list put after another holds, and where.
LEMMA ConcatIs ==
    ASSUME NEW s, NEW t, IsList(s), IsList(t)
    PROVE  /\ IsList(s \o t)
           /\ Range(s \o t) = Range(s) \cup Range(t)
           /\ Len(s \o t) = Len(s) + Len(t)
           /\ \A i \in 1..Len(s) : (s \o t)[i] = s[i]
           /\ \A i \in 1..Len(t) : (s \o t)[Len(s) + i] = t[i]
           /\ \A i \in 1..(Len(s) + Len(t)) :
                 i \in 1..Len(s) \/ (i - Len(s) \in 1..Len(t) /\ i = Len(s) + (i - Len(s)))
<1> DEFINE V == Range(s) \cup Range(t)
           c == s \o t
<1>1. s \in Seq(V) /\ t \in Seq(V)
  BY DEF IsList
<1>2. Len(s) \in Nat /\ Len(t) \in Nat
  BY <1>1
<1> HIDE DEF V
<1>3. c \in Seq(V) /\ Len(c) = Len(s) + Len(t) /\ DOMAIN c = 1..(Len(s) + Len(t))
  BY <1>1
<1>4. \A i \in 1..Len(s) : c[i] = s[i]
  BY <1>1
<1>5. \A i \in 1..Len(t) : c[Len(s) + i] = t[i]
  BY <1>1
<1>6. \A i \in 1..(Len(s) + Len(t)) :
         i \in 1..Len(s) \/ (i - Len(s) \in 1..Len(t) /\ i = Len(s) + (i - Len(s)))
  BY <1>2
<1>7. \A i \in 1..Len(t) : Len(s) + i \in DOMAIN c
  BY <1>2, <1>3
<1>8. \A i \in 1..Len(s) : i \in DOMAIN c
  BY <1>2, <1>3
<1> HIDE DEF c
<1>9. Range(s) = {s[i] : i \in 1..Len(s)} /\ Range(t) = {t[i] : i \in 1..Len(t)}
  BY ListFacts
<1>10. Range(c) \subseteq Range(s) \cup Range(t)
  <2>1. SUFFICES ASSUME NEW i \in DOMAIN c PROVE c[i] \in Range(s) \cup Range(t)
    BY DEF Range
  <2>2. CASE i \in 1..Len(s)
    BY <2>2, <1>4, <1>9
  <2>3. CASE i - Len(s) \in 1..Len(t) /\ i = Len(s) + (i - Len(s))
    <3>1. c[i] = t[i - Len(s)]
      BY <1>5, <2>3
    <3>2. QED
      BY <3>1, <2>3, <1>9
  <2>4. QED
    BY <2>1, <2>2, <2>3, <1>3, <1>6
<1>11. Range(s) \cup Range(t) \subseteq Range(c)
  <2>1. \A i \in 1..Len(s) : s[i] \in Range(c)
    BY <1>4, <1>8 DEF Range
  <2>2. \A i \in 1..Len(t) : t[i] \in Range(c)
    BY <1>5, <1>7 DEF Range
  <2>3. QED
    BY <1>9, <2>1, <2>2
<1>12. IsList(c)
  BY <1>3, <1>10, <1>11 DEF IsList, V
<1>13. QED
  BY <1>3, <1>4, <1>5, <1>6, <1>10, <1>11, <1>12 DEF c

\* What a list holds after its head.
LEMMA TailIs ==
    ASSUME NEW s, IsList(s), s # << >>
    PROVE  /\ IsList(Tail(s)) /\ Len(Tail(s)) = Len(s) - 1
           /\ \A i \in 1..Len(Tail(s)) : Tail(s)[i] = s[i + 1] /\ i + 1 \in 1..Len(s)
           /\ Range(Tail(s)) \subseteq Range(s)
           /\ Range(s) = {Head(s)} \cup Range(Tail(s))
<1> DEFINE t == Tail(s)
<1>1. Len(s) \in Nat /\ Len(s) # 0 /\ Head(s) = s[1]
  BY ListFacts
<1>2. /\ t \in Seq(Range(s)) /\ Len(t) = Len(s) - 1
      /\ \A i \in 1..(Len(s) - 1) : t[i] = s[i + 1]
  BY DEF IsList
<1> HIDE DEF t
<1>3. DOMAIN t = 1..(Len(s) - 1)
  BY <1>2
<1>4. \A i \in 1..(Len(s) - 1) : i + 1 \in 1..Len(s)
  BY <1>1
<1>5. t = [i \in 1..Len(t) |-> t[i]]
  BY <1>2
<1>6. IsList(t) /\ Range(t) = {t[i] : i \in 1..(Len(s) - 1)}
  BY <1>1, <1>2, <1>5, ListIs
<1>7. Range(s) = {s[i] : i \in 1..Len(s)}
  BY ListFacts
<1>8. Range(t) \subseteq Range(s)
  BY <1>2, <1>4, <1>6, <1>7
<1>9. Range(s) \subseteq {Head(s)} \cup Range(t)
  <2>1. SUFFICES ASSUME NEW i \in 1..Len(s) PROVE s[i] \in {Head(s)} \cup Range(t)
    BY <1>7
  <2>2. CASE i = 1
    BY <1>1, <2>2
  <2>3. CASE i # 1
    <3>1. i - 1 \in 1..(Len(s) - 1) /\ (i - 1) + 1 = i
      BY <1>1, <2>3
    <3>2. t[i - 1] = s[i]
      BY <1>2, <3>1
    <3>3. QED
      BY <1>6, <3>1, <3>2
  <2>4. QED
    BY <2>2, <2>3
<1>10. Head(s) \in Range(s)
  BY ListFacts
<1>11. QED
  BY <1>2, <1>4, <1>6, <1>8, <1>9, <1>10 DEF t

\* What a list of statements touches, and one that may go before another.
Covered(s) == UNION {DOMAIN x.rows : x \in Range(s)}

Before(x, y) ==
    \/ x.does = "delete"
    \/ y.does # "delete" /\ \A r \in DOMAIN x.rows, q \in DOMAIN y.rows : r[1] <= q[1]

Apart2(x, y) == DOMAIN x.rows \cap DOMAIN y.rows = {}

\* Each row in one statement, deletions first, a table before the next.
Orderly(s) ==
    /\ IsList(s)
    /\ \A i, j \in 1..Len(s) : i < j => Apart2(s[i], s[j]) /\ Before(s[i], s[j])

\* Statements of other rows, that may go after those before them.
LEMMA OrderlyConcat ==
    ASSUME NEW s, NEW t, Orderly(s), Orderly(t),
           \A x \in Range(s), y \in Range(t) : Apart2(x, y) /\ Before(x, y)
    PROVE  /\ Orderly(s \o t) /\ Covered(s \o t) = Covered(s) \cup Covered(t)
           /\ Range(s \o t) = Range(s) \cup Range(t)
<1> DEFINE c == s \o t
<1>1. IsList(s) /\ IsList(t)
  BY DEF Orderly
<1>2. /\ IsList(c) /\ Range(c) = Range(s) \cup Range(t) /\ Len(c) = Len(s) + Len(t)
      /\ \A i \in 1..Len(s) : c[i] = s[i]
      /\ \A i \in 1..Len(t) : c[Len(s) + i] = t[i]
      /\ \A i \in 1..(Len(s) + Len(t)) :
            i \in 1..Len(s) \/ (i - Len(s) \in 1..Len(t) /\ i = Len(s) + (i - Len(s)))
  BY <1>1, ConcatIs
<1>3. /\ Range(s) = {s[i] : i \in 1..Len(s)} /\ Range(t) = {t[i] : i \in 1..Len(t)}
      /\ Len(s) \in Nat /\ Len(t) \in Nat
  BY <1>1, ListFacts
<1> HIDE DEF c
<1>4. Covered(c) = Covered(s) \cup Covered(t)
  BY <1>2 DEF Covered
<1>5. ASSUME NEW i \in 1..Len(c), NEW j \in 1..Len(c), i < j
      PROVE  Apart2(c[i], c[j]) /\ Before(c[i], c[j])
  <2>1. CASE j \in 1..Len(s)
    <3>1. i \in 1..Len(s) /\ c[i] = s[i] /\ c[j] = s[j]
      BY <1>2, <1>3, <1>5, <2>1
    <3>2. QED
      BY <2>1, <1>5, <3>1 DEF Orderly
  <2>2. CASE j \notin 1..Len(s) /\ i \in 1..Len(s)
    <3>1. j - Len(s) \in 1..Len(t) /\ c[j] = t[j - Len(s)] /\ c[i] = s[i]
      BY <1>2, <1>3, <2>2
    <3>2. c[i] \in Range(s) /\ c[j] \in Range(t)
      BY <1>3, <2>2, <3>1
    <3>3. QED
      BY <3>2
  <2>3. CASE j \notin 1..Len(s) /\ i \notin 1..Len(s)
    <3>1. /\ j - Len(s) \in 1..Len(t) /\ c[j] = t[j - Len(s)]
          /\ i - Len(s) \in 1..Len(t) /\ c[i] = t[i - Len(s)]
          /\ i - Len(s) < j - Len(s)
      BY <1>2, <1>3, <1>5, <2>3, SMTT(20)
    <3>2. QED
      BY <3>1 DEF Orderly
  <2>4. QED
    BY <2>1, <2>2, <2>3
<1>6. QED
  BY <1>2, <1>4, <1>5 DEF Orderly, c

\* What is left of orderly statements when the first is run.
LEMMA OrderlyTail ==
    ASSUME NEW s, Orderly(s), s # << >>
    PROVE  /\ Orderly(Tail(s))
           /\ \A y \in Range(Tail(s)) : Apart2(Head(s), y) /\ Before(Head(s), y)
           /\ Covered(s) = DOMAIN Head(s).rows \cup Covered(Tail(s))
           /\ DOMAIN Head(s).rows \cap Covered(Tail(s)) = {}
<1> DEFINE t == Tail(s)
<1>1. IsList(s) /\ Len(s) \in Nat /\ Head(s) = s[1] /\ Len(s) # 0
  BY ListFacts DEF Orderly
<1>2. /\ IsList(t) /\ Len(t) = Len(s) - 1
      /\ \A i \in 1..Len(t) : t[i] = s[i + 1] /\ i + 1 \in 1..Len(s)
      /\ Range(s) = {Head(s)} \cup Range(t)
  BY <1>1, TailIs
<1>3. Range(t) = {t[i] : i \in 1..Len(t)}
  BY <1>2, ListFacts
<1> HIDE DEF t
<1>4. ASSUME NEW i \in 1..Len(t), NEW j \in 1..Len(t), i < j
      PROVE  Apart2(t[i], t[j]) /\ Before(t[i], t[j])
  <2>1. i + 1 \in 1..Len(s) /\ j + 1 \in 1..Len(s) /\ i + 1 < j + 1
    BY <1>1, <1>2, <1>4
  <2>2. QED
    BY <2>1, <1>2 DEF Orderly
<1>5. Orderly(t)
  BY <1>2, <1>4 DEF Orderly
<1>6. ASSUME NEW i \in 1..Len(t) PROVE Apart2(Head(s), t[i]) /\ Before(Head(s), t[i])
  <2>1. 1 \in 1..Len(s) /\ i + 1 \in 1..Len(s) /\ 1 < i + 1
    BY <1>1, <1>2
  <2>2. QED
    BY <2>1, <1>1, <1>2 DEF Orderly
<1>7. Covered(s) = DOMAIN Head(s).rows \cup Covered(t)
  BY <1>2 DEF Covered
<1>8. DOMAIN Head(s).rows \cap Covered(t) = {}
  BY <1>3, <1>6 DEF Covered, Apart2
<1>9. QED
  BY <1>3, <1>5, <1>6, <1>7, <1>8 DEF t

-----------------------------------------------------------------------------
(* Rows are written in batches, each row in one of them. *)

\* Batches split a list: each element is in one, and none is empty.
LEMMA BatchesAre ==
    ASSUME NEW s, IsList(s), IsInjective(s)
    PROVE  LET b == Batches(s) IN
           /\ IsList(b)
           /\ UNION {Range(b[i]) : i \in 1..Len(b)} = Range(s)
           /\ \A i \in 1..Len(b) : Range(b[i]) # {} /\ Range(b[i]) \subseteq Range(s)
           /\ \A i, j \in 1..Len(b) : i < j => Range(b[i]) \cap Range(b[j]) = {}
<1> DEFINE n == Len(s)
           m == (n + Batch - 1) \div Batch
           From(i) == (i - 1) * Batch + 1
           To(i) == IF i * Batch < n THEN i * Batch ELSE n
           b == Batches(s)
<1>1. n \in Nat /\ DOMAIN s = 1..n /\ Range(s) = {s[i] : i \in 1..n}
  BY ListFacts
<1>2. Batch \in Nat /\ Batch > 0
  BY RepositoryAssumption
<1>3. m \in Nat /\ Batch * m \in Nat /\ n <= Batch * m /\ Batch * m <= n + Batch - 1
  <2> DEFINE k == n + Batch - 1
  <2>1. k \in Nat
    BY <1>1, <1>2
  <2> HIDE DEF k, n
  <2>2. k \div Batch \in Nat /\ Batch * (k \div Batch) \in Nat
        /\ Batch * (k \div Batch) <= k /\ k < Batch * (k \div Batch) + Batch
    BY <1>2, <2>1, QuotientIs
  <2> DEFINE q == k \div Batch
             p == Batch * q
  <2>3. p <= k /\ k < p + Batch /\ p \in Nat
    BY <2>2
  <2> HIDE DEF p
  <2>4. n <= p /\ p <= n + Batch - 1
    BY <2>3, <1>1, <1>2 DEF k
  <2>5. m = q
    BY DEF k
  <2> HIDE DEF q, m
  <2>6. QED
    BY <2>2, <2>3, <2>4, <2>5 DEF p, q
<1>4. b = [i \in 1..m |-> SubSeq(s, From(i), To(i))]
  BY DEF Batches
<1> HIDE DEF b, m
<1>5. ASSUME NEW i \in 1..m
      PROVE  /\ From(i) \in 1..n /\ To(i) \in From(i)..n
             /\ Range(b[i]) = {s[j] : j \in From(i)..To(i)}
  <2>1. (i - 1) * Batch \in Nat /\ i * Batch = (i - 1) * Batch + Batch
    <3>1. i - 1 \in Nat /\ i \in Nat
      OBVIOUS
    <3>2. QED
      BY <1>2, <3>1
  <2>2. i * Batch <= Batch * m
    <3>1. i \in Nat /\ m - i \in Nat
      BY <1>3
    <3>2. Batch * m = i * Batch + Batch * (m - i) /\ Batch * (m - i) \in Nat
      BY <1>2, <1>3, <3>1
    <3>3. i * Batch \in Nat
      BY <3>1, <1>2
    <3>4. QED
      BY <1>3, <3>2, <3>3
  <2> DEFINE x == (i - 1) * Batch
             y == i * Batch
             z == Batch * m
  <2>3. x \in Nat /\ y = x + Batch /\ y <= z /\ z \in Nat /\ n <= z /\ z <= n + Batch - 1
    BY <2>1, <2>2, <1>3
  <2>4. From(i) = x + 1 /\ To(i) = IF y < n THEN y ELSE n
    OBVIOUS
  <2> HIDE DEF x, y, z, From, To, n
  <2>5. x < n
    BY <2>3, <1>1, <1>2
  <2>6. From(i) \in 1..n /\ To(i) \in From(i)..n
    BY <2>3, <2>4, <2>5, <1>1, <1>2
  <2> DEFINE f == From(i)
             g == To(i)
             u == SubSeq(s, f, g)
  <2>7. b[i] = u
    BY <1>4
  <2>8. f \in 1..n /\ g \in f..n
    BY <2>6
  <2> HIDE DEF f, g
  <2>9. Len(u) = g - f + 1 /\ DOMAIN u = 1..(g - f + 1)
        /\ \A k \in 1..(g - f + 1) : u[k] = s[f + k - 1]
    BY <2>8, <1>1 DEF IsList, n
  <2> HIDE DEF u
  <2>10. Range(u) = {s[j] : j \in f..g}
    <3>1. \A k \in 1..(g - f + 1) : f + k - 1 \in f..g
      BY <2>8, <1>1
    <3>2. ASSUME NEW j \in f..g PROVE j - f + 1 \in 1..(g - f + 1) /\ u[j - f + 1] = s[j]
      <4>1. j - f + 1 \in 1..(g - f + 1) /\ f + (j - f + 1) - 1 = j
        BY <2>8, <1>1
      <4>2. QED
        BY <4>1, <2>9
    <3>3. QED
      BY <2>9, <3>1, <3>2 DEF Range
  <2>11. QED
    BY <2>6, <2>7, <2>10 DEF f, g
<1>6. ASSUME NEW i \in 1..m, NEW j \in 1..m, i < j PROVE To(i) < From(j)
  <2>1. (j - 1) * Batch = i * Batch + (j - 1 - i) * Batch /\ (j - 1 - i) * Batch \in Nat
        /\ i * Batch \in Nat
    <3>1. i \in Nat /\ j - 1 - i \in Nat
      BY <1>3, <1>6
    <3>2. QED
      BY <1>2, <3>1
  <2>2. QED
    BY <2>1, <1>1
<1>7. ASSUME NEW j \in 1..n PROVE \E i \in 1..m : j \in From(i)..To(i)
  <2> DEFINE q == (j - 1) \div Batch
  <2>1. q \in Nat /\ Batch * q \in Nat /\ Batch * q <= j - 1 /\ j - 1 < Batch * q + Batch
    <3>1. j - 1 \in Nat
      BY <1>1
    <3>2. QED
      BY <1>2, <3>1, QuotientIs
  <2> HIDE DEF q
  <2>2. q + 1 \in 1..m
    <3>1. q < m
      <4>1. SUFFICES ASSUME m <= q PROVE FALSE
        BY <1>3, <2>1
      <4>2. q - m \in Nat
        BY <1>3, <2>1, <4>1
      <4>3. Batch * q = Batch * m + Batch * (q - m) /\ Batch * (q - m) \in Nat
        BY <1>2, <1>3, <2>1, <4>2
      <4>4. QED
        BY <1>1, <1>3, <2>1, <4>3
    <3>2. QED
      BY <1>3, <2>1, <3>1
  <2>3. ((q + 1) - 1) * Batch = Batch * q /\ (q + 1) * Batch = Batch * q + Batch
    BY <1>2, <2>1
  <2>4. j \in From(q + 1)..To(q + 1)
    <3> DEFINE x == Batch * q
    <3>1. From(q + 1) = x + 1 /\ To(q + 1) = IF x + Batch < n THEN x + Batch ELSE n
      BY <2>3
    <3>2. x \in Nat /\ x <= j - 1 /\ j - 1 < x + Batch
      BY <2>1
    <3> HIDE DEF x, From, To
    <3>3. QED
      BY <3>1, <3>2, <1>1, <1>2
  <2>5. QED
    BY <2>2, <2>4
<1> HIDE DEF From, To
<1>8. IsList(b) /\ Len(b) = m
  <2>1. b = [i \in 1..m |-> b[i]]
    BY <1>4
  <2>2. QED
    BY <2>1, <1>3, ListIs
<1>9. \A i \in 1..m : Range(b[i]) # {} /\ Range(b[i]) \subseteq Range(s)
  <2>1. SUFFICES ASSUME NEW i \in 1..m PROVE Range(b[i]) # {} /\ Range(b[i]) \subseteq Range(s)
    OBVIOUS
  <2>2. /\ From(i) \in 1..n /\ To(i) \in From(i)..n
        /\ Range(b[i]) = {s[j] : j \in From(i)..To(i)}
    BY <1>5
  <2>3. From(i) \in From(i)..To(i) /\ \A j \in From(i)..To(i) : j \in 1..n
    BY <2>2, <1>1
  <2>4. QED
    BY <2>2, <2>3, <1>1
<1>10. ASSUME NEW i \in 1..m, NEW j \in 1..m, i < j PROVE Range(b[i]) \cap Range(b[j]) = {}
  <2>1. /\ From(i) \in 1..n /\ To(i) \in From(i)..n
        /\ Range(b[i]) = {s[x] : x \in From(i)..To(i)}
    BY <1>5
  <2>2. /\ From(j) \in 1..n /\ To(j) \in From(j)..n
        /\ Range(b[j]) = {s[x] : x \in From(j)..To(j)}
    BY <1>5
  <2>3. \A x \in From(i)..To(i), y \in From(j)..To(j) : x \in 1..n /\ y \in 1..n /\ x # y
    BY <2>1, <2>2, <1>1, <1>6, <1>10
  <2>4. \A x \in From(i)..To(i), y \in From(j)..To(j) : s[x] # s[y]
    BY <2>3, <1>1 DEF IsInjective
  <2>5. QED
    BY <2>1, <2>2, <2>4
<1>11. UNION {Range(b[i]) : i \in 1..m} = Range(s)
  <2>1. Range(s) \subseteq UNION {Range(b[i]) : i \in 1..m}
    <3>1. SUFFICES ASSUME NEW j \in 1..n PROVE \E i \in 1..m : s[j] \in Range(b[i])
      BY <1>1
    <3>2. PICK i \in 1..m : j \in From(i)..To(i)
      BY <1>7
    <3>3. QED
      BY <3>2, <1>5
  <2>2. QED
    BY <2>1, <1>9
<1>12. QED
  BY <1>8, <1>9, <1>10, <1>11 DEF b

InTable(S, t) == \A r \in S : r[1] = t

\* A statement of so and so writes some of these rows.
Of(x, does, S) == x.does = does /\ DOMAIN x.rows # {} /\ DOMAIN x.rows \subseteq S

\* Statements of one kind on one table's rows, no row twice, are orderly.
LEMMA OneTableOrderly ==
    ASSUME NEW n \in Nat, NEW s, s = [i \in 1..n |-> s[i]], NEW does, NEW S, NEW t \in Int,
           InTable(S, t), \A i \in 1..n : Of(s[i], does, S),
           \A i, j \in 1..n : i < j => Apart2(s[i], s[j])
    PROVE  /\ Orderly(s)
           /\ \A x \in Range(s) : \E i \in 1..n : x = s[i]
           /\ \A x \in Range(s) : Of(x, does, S)
           /\ Covered(s) = UNION {DOMAIN s[i].rows : i \in 1..n}
<1>1. IsList(s) /\ Len(s) = n /\ Range(s) = {s[i] : i \in 1..n}
  BY ListIs
<1>2. \A x \in Range(s) : (\E i \in 1..n : x = s[i]) /\ Of(x, does, S)
  BY <1>1
<1>3. ASSUME NEW i \in 1..n, NEW j \in 1..n PROVE Before(s[i], s[j])
  <2>1. Of(s[i], does, S) /\ Of(s[j], does, S)
    OBVIOUS
  <2>2. QED
    BY <2>1 DEF Before, Of, InTable
<1>4. Orderly(s)
  BY <1>1, <1>3 DEF Orderly
<1>5. Covered(s) = UNION {DOMAIN s[i].rows : i \in 1..n}
  <2>1. \A r : r \in Covered(s) <=> \E x \in Range(s) : r \in DOMAIN x.rows
    BY DEF Covered
  <2>2. \A r : r \in UNION {DOMAIN s[i].rows : i \in 1..n} <=> \E i \in 1..n : r \in DOMAIN s[i].rows
    OBVIOUS
  <2>3. \A r : (\E x \in Range(s) : r \in DOMAIN x.rows) <=> \E i \in 1..n : r \in DOMAIN s[i].rows
    BY <1>1
  <2>4. QED
    BY <2>1, <2>2, <2>3, Zenon
<1>6. QED
  BY <1>2, <1>4, <1>5

\* The inserts of new rows: each row once, as it is wanted.
LEMMA InsertRowsAre ==
    ASSUME NEW s, IsList(s), IsInjective(s), NEW t \in Int, InTable(Range(s), t), NEW wanted
    PROVE  LET inserts == InsertRows(s, wanted) IN
           /\ Orderly(inserts) /\ Covered(inserts) = Range(s)
           /\ \A x \in Range(inserts) :
                 Of(x, "insert", Range(s)) /\ x = Statement("insert", x.rows)
                    /\ x.rows = [r \in DOMAIN x.rows |-> wanted[r]]
<1> DEFINE b == Batches(s)
           Rows1(i) == [r \in Range(b[i]) |-> wanted[r]]
           p == InsertRows(s, wanted)
           n == Len(b)
<1>1. /\ IsList(b)
      /\ UNION {Range(b[i]) : i \in 1..n} = Range(s)
      /\ \A i \in 1..n : Range(b[i]) # {} /\ Range(b[i]) \subseteq Range(s)
      /\ \A i, j \in 1..n : i < j => Range(b[i]) \cap Range(b[j]) = {}
  BY BatchesAre
<1>2. n \in Nat /\ DOMAIN b = 1..n
  BY <1>1, ListFacts
<1>3. p = [i \in 1..n |-> Statement("insert", Rows1(i))]
  BY <1>2 DEF InsertRows
<1> HIDE DEF b, n, p
<1>4. \A i \in 1..n : DOMAIN Rows1(i) = Range(b[i])
  OBVIOUS
<1>5. \A i \in 1..n : Rows1(i) = [r \in DOMAIN Rows1(i) |-> wanted[r]]
  OBVIOUS
<1> HIDE DEF Rows1
<1>6. \A i \in 1..n : p[i] = Statement("insert", Rows1(i)) /\ p[i].rows = Rows1(i) /\ p[i].does = "insert"
  BY <1>3 DEF Statement
<1>7. \A i \in 1..n : Of(p[i], "insert", Range(s))
  BY <1>1, <1>4, <1>6 DEF Of
<1>8. \A i, j \in 1..n : i < j => Apart2(p[i], p[j])
  BY <1>1, <1>4, <1>6 DEF Apart2
<1>9. p = [i \in 1..n |-> p[i]]
  BY <1>3
<1>10. /\ Orderly(p)
       /\ \A x \in Range(p) : \E i \in 1..n : x = p[i]
       /\ \A x \in Range(p) : Of(x, "insert", Range(s))
       /\ Covered(p) = UNION {DOMAIN p[i].rows : i \in 1..n}
  BY <1>2, <1>7, <1>8, <1>9, OneTableOrderly
<1>11. Covered(p) = Range(s)
  BY <1>1, <1>4, <1>6, <1>10
<1>12. \A x \in Range(p) : x = Statement("insert", x.rows) /\ x.rows = [r \in DOMAIN x.rows |-> wanted[r]]
  BY <1>5, <1>6, <1>10
<1>13. QED
  BY <1>10, <1>11, <1>12 DEF p

\* The deletes of rows that are gone: each row once.
LEMMA DeleteRowsAre ==
    ASSUME NEW gone, IsFiniteSet(gone), NEW t \in {1, 2, 3}, InTable(gone, t)
    PROVE  LET deletes == DeleteRows(t, gone) IN
           /\ Orderly(deletes) /\ Covered(deletes) = gone
           /\ \A x \in Range(deletes) :
                 Of(x, "delete", gone) /\ x = Statement("delete", x.rows)
                    /\ x.rows = [r \in DOMAIN x.rows |-> NoRow]
<1> DEFINE s == SetToSeq(gone)
           b == IF t = 3 THEN [i \in DOMAIN s |-> <<s[i]>>] ELSE Batches(s)
           Rows1(i) == [r \in Range(b[i]) |-> NoRow]
           p == DeleteRows(t, gone)
           n == Len(b)
<1>1. IsList(s) /\ IsInjective(s) /\ Range(s) = gone
  <2> DEFINE k == Cardinality(gone)
             Is(f) == f \in [1..k -> gone] /\ IsInjective(f)
  <2>1. k \in Nat /\ \E f : ExistsBijection(1..k, gone)
    BY FS_CardinalityType, FS_NatBijection
  <2>2. PICK f : f \in Bijection(1..k, gone)
    BY FS_CardinalityType DEF ExistsBijection
  <2>3. f \in [1..k -> gone] /\ IsInjective(f) /\ \A y \in gone : \E i \in 1..k : f[i] = y
    BY <2>2 DEF Bijection, Injection, Surjection, IsInjective
  <2>4. s = CHOOSE g \in [1..k -> gone] : IsInjective(g)
    BY DEF SetToSeq
  <2>5. s \in [1..k -> gone] /\ IsInjective(s)
    BY <2>3, <2>4
  <2> HIDE DEF s
  <2>6. s \in Bijection(1..k, gone)
    <3>1. s \in Injection(1..k, gone)
      BY <2>5 DEF Injection, IsInjective
    <3>2. IsFiniteSet(1..k) /\ Cardinality(1..k) = k
      BY <2>1, FS_Interval
    <3>3. s \in Surjection(1..k, gone)
      BY <3>1, <3>2, FS_Injection
    <3>4. QED
      BY <3>1, <3>3 DEF Bijection
  <2>7. s = [i \in 1..k |-> s[i]]
    BY <2>5
  <2>8. IsList(s) /\ Range(s) = {s[i] : i \in 1..k}
    BY <2>1, <2>7, ListIs
  <2>9. Range(s) = gone
    BY <2>5, <2>6, <2>8 DEF Bijection, Surjection
  <2>10. QED
    BY <2>5, <2>8, <2>9
<1> HIDE DEF s
<1> DEFINE Split(f) ==
        /\ IsList(f)
        /\ UNION {Range(f[i]) : i \in 1..Len(f)} = gone
        /\ \A i \in 1..Len(f) : Range(f[i]) # {} /\ Range(f[i]) \subseteq gone
        /\ \A i, j \in 1..Len(f) : i < j => Range(f[i]) \cap Range(f[j]) = {}
<1>2. Split(b)
  <2>1. CASE t = 3
    <3> DEFINE c == [i \in DOMAIN s |-> <<s[i]>>]
               m == Len(s)
    <3>1. m \in Nat /\ DOMAIN s = 1..m /\ Range(s) = {s[i] : i \in 1..m}
      BY <1>1, ListFacts
    <3>2. c = [i \in 1..m |-> c[i]]
      BY <3>1
    <3>3. \A i \in 1..m : Range(c[i]) = {s[i]}
      BY <3>1 DEF Range
    <3> HIDE DEF c
    <3>4. IsList(c) /\ Len(c) = m
      BY <3>1, <3>2, ListIs
    <3>5. UNION {Range(c[i]) : i \in 1..m} = gone
      <4>1. \A r : r \in UNION {Range(c[i]) : i \in 1..m} <=> \E i \in 1..m : r \in Range(c[i])
        OBVIOUS
      <4>2. \A r : r \in gone <=> \E i \in 1..m : r = s[i]
        BY <3>1, <1>1
      <4>3. \A r : (\E i \in 1..m : r \in Range(c[i])) <=> \E i \in 1..m : r = s[i]
        BY <3>3
      <4>4. QED
        BY <4>1, <4>2, <4>3, Zenon
    <3>6. \A i, j \in 1..m : i < j => Range(c[i]) \cap Range(c[j]) = {}
      <4>1. \A i, j \in 1..m : i < j => s[i] # s[j]
        BY <3>1, <1>1 DEF IsInjective
      <4>2. QED
        BY <3>3, <4>1
    <3>7. Split(c)
      BY <3>3, <3>4, <3>5, <3>6, <3>1, <1>1
    <3>8. b = c
      BY <2>1 DEF c
    <3> HIDE DEF Split, b
    <3>9. QED
      BY <3>7, <3>8
  <2>2. CASE t # 3
    <3>1. b = Batches(s)
      BY <2>2
    <3>2. Split(Batches(s))
      BY <1>1, BatchesAre
    <3> HIDE DEF Split, b
    <3>3. QED
      BY <3>1, <3>2
  <2> HIDE DEF Split, b
  <2>3. QED
    BY <2>1, <2>2
<1>3. /\ n \in Nat /\ DOMAIN b = 1..n
      /\ UNION {Range(b[i]) : i \in 1..n} = gone
      /\ \A i \in 1..n : Range(b[i]) # {} /\ Range(b[i]) \subseteq gone
      /\ \A i, j \in 1..n : i < j => Range(b[i]) \cap Range(b[j]) = {}
  <2> HIDE DEF b
  <2> QED
    BY <1>2, ListFacts
<1>4. p = [i \in 1..n |-> Statement("delete", Rows1(i))]
  BY <1>3 DEF DeleteRows, s
<1> HIDE DEF b, n, p
<1>5. \A i \in 1..n : DOMAIN Rows1(i) = Range(b[i])
  OBVIOUS
<1>6. \A i \in 1..n : Rows1(i) = [r \in DOMAIN Rows1(i) |-> NoRow]
  OBVIOUS
<1> HIDE DEF Rows1
<1>7. \A i \in 1..n : p[i] = Statement("delete", Rows1(i)) /\ p[i].rows = Rows1(i) /\ p[i].does = "delete"
  BY <1>4 DEF Statement
<1>8. \A i \in 1..n : Of(p[i], "delete", gone)
  BY <1>3, <1>5, <1>7 DEF Of
<1>9. \A i, j \in 1..n : i < j => Apart2(p[i], p[j])
  BY <1>3, <1>5, <1>7 DEF Apart2
<1>10. p = [i \in 1..n |-> p[i]]
  BY <1>4
<1>11. /\ Orderly(p)
       /\ \A x \in Range(p) : \E i \in 1..n : x = p[i]
       /\ \A x \in Range(p) : Of(x, "delete", gone)
       /\ Covered(p) = UNION {DOMAIN p[i].rows : i \in 1..n}
  <2>1. t \in Int
    OBVIOUS
  <2>2. n \in Nat
    BY <1>3
  <2>3. QED
    BY <2>1, <2>2, <1>8, <1>9, <1>10, OneTableOrderly
<1>12. Covered(p) = gone
  BY <1>3, <1>5, <1>7, <1>11
<1>13. \A x \in Range(p) : x = Statement("delete", x.rows) /\ x.rows = [r \in DOMAIN x.rows |-> NoRow]
  BY <1>6, <1>7, <1>11
<1>14. QED
  BY <1>11, <1>12, <1>13 DEF p

\* Changed rows are written one by one.
LEMMA UpdatesAre ==
    ASSUME NEW s, IsList(s), IsInjective(s), NEW t \in Int, InTable(Range(s), t),
           NEW wanted, NEW placed
    PROVE  LET updates == [i \in DOMAIN s |-> Update(s[i], wanted, placed)] IN
           /\ Orderly(updates) /\ Covered(updates) = Range(s)
           /\ \A x \in Range(updates) :
                 Of(x, "update", Range(s)) /\ \E r \in Range(s) : x = Update(r, wanted, placed)
<1> DEFINE p == [i \in DOMAIN s |-> Update(s[i], wanted, placed)]
           n == Len(s)
<1>1. n \in Nat /\ DOMAIN s = 1..n /\ Range(s) = {s[i] : i \in 1..n}
  BY ListFacts
<1>2. p = [i \in 1..n |-> p[i]] /\ \A i \in 1..n : p[i] = Update(s[i], wanted, placed)
  BY <1>1
<1> HIDE DEF p, n
<1>3. \A i \in 1..n : DOMAIN p[i].rows = {s[i]} /\ p[i].does = "update"
  <2>1. SUFFICES ASSUME NEW i \in 1..n
                 PROVE  DOMAIN p[i].rows = {s[i]} /\ p[i].does = "update"
    OBVIOUS
  <2> DEFINE c == Content(wanted[s[i]].value, IF placed THEN wanted[s[i]].position ELSE Ignored)
             rows == [q \in {s[i]} |-> c]
  <2>2. p[i] = [does |-> "update", rows |-> rows]
    BY <1>2 DEF Update, Statement
  <2>3. DOMAIN rows = {s[i]}
    OBVIOUS
  <2> HIDE DEF rows
  <2>4. QED
    BY <2>2, <2>3
<1>4. \A i \in 1..n : Of(p[i], "update", Range(s))
  BY <1>1, <1>3 DEF Of
<1>5. \A i, j \in 1..n : i < j => Apart2(p[i], p[j])
  BY <1>1, <1>3 DEF Apart2, IsInjective
<1>6. /\ Orderly(p)
      /\ \A x \in Range(p) : \E i \in 1..n : x = p[i]
      /\ \A x \in Range(p) : Of(x, "update", Range(s))
      /\ Covered(p) = UNION {DOMAIN p[i].rows : i \in 1..n}
  BY <1>1, <1>2, <1>4, <1>5, OneTableOrderly
<1>7. Covered(p) = Range(s)
  BY <1>1, <1>3, <1>6
<1>8. \A x \in Range(p) : \E r \in Range(s) : x = Update(r, wanted, placed)
  BY <1>1, <1>2, <1>6
<1>9. QED
  BY <1>6, <1>7, <1>8 DEF p

-----------------------------------------------------------------------------
(* What a row may hold, and the rows an aggregate has. *)

RowContents(r) ==
    [value : IF r[1] = 3 THEN {NoRow} ELSE Values,
     position : IF r[1] = 2 THEN Lowest..Highest ELSE {0}]

Tables(rows) ==
    /\ rows = [r \in Rows |-> rows[r]]
    /\ \A r \in Rows : rows[r] = NoRow \/ rows[r] \in RowContents(r)

\* No row without its holder.
Closed(rows) == \A r \in Rows : \A h \in Above(r) : rows[r] # NoRow => rows[h] # NoRow

RowsOf(a) ==
    IF a = NoAggregate THEN {}
    ELSE {RootRow} \cup {Line(a.list[i].key) : i \in DOMAIN a.list}
            \cup {Note(a.list[i].key) : i \in {j \in DOMAIN a.list : a.list[j].noted}}

\* A row is the root's, an element's or one beneath an element.
LEMMA RowKinds ==
    /\ RootRow \in Rows /\ RootRow[1] = 1
    /\ \A e \in Elements : /\ Line(e) \in Rows /\ Line(e)[1] = 2 /\ Line(e)[2] = e
                           /\ Note(e) \in Rows /\ Note(e)[1] = 3 /\ Note(e)[2] = e
    /\ \A r \in Rows : \/ r = RootRow /\ r[1] = 1
                       \/ r = Line(r[2]) /\ r[1] = 2 /\ r[2] \in Elements
                       \/ r = Note(r[2]) /\ r[1] = 3 /\ r[2] \in Elements
BY DEF Rows, RootRow, Line, Note

\* The rows that hold a row, which hold what it does not.
LEMMA AboveIs ==
    /\ Above(RootRow) = {}
    /\ \A e \in Elements : Above(Line(e)) = {RootRow} /\ Above(Note(e)) = {RootRow, Line(e)}
    /\ \A r \in Rows : \A h \in Above(r) :
          h \in Rows /\ h[1] < r[1] /\ h[1] \in {1, 2} /\ Above(h) \subseteq Above(r)
<1>1. Above(RootRow) = {}
  BY RowKinds DEF Above
<1>2. \A e \in Elements : Above(Line(e)) = {RootRow} /\ Above(Note(e)) = {RootRow, Line(e)}
  BY RowKinds DEF Above
<1>3. ASSUME NEW r \in Rows, NEW h \in Above(r)
      PROVE  h \in Rows /\ h[1] < r[1] /\ h[1] \in {1, 2} /\ Above(h) \subseteq Above(r)
  <2>1. CASE r = RootRow
    BY <1>1, <1>3, <2>1
  <2>2. CASE r = Line(r[2]) /\ r[1] = 2 /\ r[2] \in Elements
    <3>1. h = RootRow
      BY <1>2, <1>3, <2>2
    <3>2. QED
      BY <1>1, <2>2, <3>1, RowKinds
  <2>3. CASE r = Note(r[2]) /\ r[1] = 3 /\ r[2] \in Elements
    <3>1. h \in {RootRow, Line(r[2])} /\ Above(r) = {RootRow, Line(r[2])}
      BY <1>2, <1>3, <2>3
    <3>2. h \in Rows /\ h[1] \in {1, 2} /\ h[1] < r[1]
      BY <2>3, <3>1, RowKinds
    <3>3. Above(h) \subseteq {RootRow}
      BY <1>1, <1>2, <2>3, <3>1
    <3>4. QED
      BY <3>1, <3>2, <3>3
  <2>4. QED
    BY <2>1, <2>2, <2>3, RowKinds
<1>4. QED
  BY <1>1, <1>2, <1>3

\* What a row holds is no row's absence, and is its value and position.
LEMMA ContentsAre ==
    ASSUME NEW r
    PROVE  /\ \A c \in RowContents(r) : /\ c # NoRow /\ c = Content(c.value, c.position)
                                        /\ c.position \in Int /\ c.position # Ignored
                                        /\ c \in Contents
           /\ \A v, p : /\ Content(v, p).value = v /\ Content(v, p).position = p
                        /\ Content(v, p) \in RowContents(r) <=>
                              /\ IF r[1] = 3 THEN v = NoRow ELSE v \in Values
                              /\ IF r[1] = 2 THEN p \in Lowest..Highest ELSE p = 0
<1>1. 0 \in Lowest..Highest /\ Lowest \in Int /\ Highest \in Int
  BY RepositoryAssumption, PositionsAssumption
<1>2. \A p \in Lowest..Highest : p \in Int /\ p # Highest + 1
  BY <1>1
<1>3. ASSUME NEW c \in RowContents(r)
      PROVE  /\ c # NoRow /\ c = Content(c.value, c.position)
             /\ c.position \in Int /\ c.position # Ignored /\ c \in Contents
  <2>1. /\ c = [value |-> c.value, position |-> c.position]
        /\ c.value \in Values \cup {NoRow} /\ c.position \in Lowest..Highest
    BY <1>1 DEF RowContents
  <2>2. c.position \in Int /\ c.position # Ignored
    BY <1>2, <2>1 DEF Ignored
  <2>3. c = Content(c.value, c.position)
    BY <2>1 DEF Content
  <2>4. c \in Contents
    BY <2>1 DEF Contents
  <2>5. c \in [value : Values \cup {NoRow}, position : Int]
    BY <2>1, <2>2
  <2>6. QED
    BY <2>2, <2>3, <2>4, <2>5, RepositoryAssumption
<1>4. ASSUME NEW v, NEW p
      PROVE  /\ Content(v, p).value = v /\ Content(v, p).position = p
             /\ Content(v, p) \in RowContents(r) <=>
                   /\ IF r[1] = 3 THEN v = NoRow ELSE v \in Values
                   /\ IF r[1] = 2 THEN p \in Lowest..Highest ELSE p = 0
  BY DEF Content, RowContents
<1>5. QED
  BY <1>3, <1>4

\* An aggregate's tables have finitely many rows for it.
LEMMA RowsFinite == IsFiniteSet(Rows)
<1>1. IsFiniteSet(Elements)
  BY RepositoryAssumption
<1>2. IsFiniteSet({2, 3}) /\ IsFiniteSet({RootRow})
  <2>1. {2, 3} = {2} \cup {3}
    OBVIOUS
  <2>2. IsFiniteSet({2}) /\ IsFiniteSet({3}) /\ IsFiniteSet({RootRow})
    BY FS_Singleton
  <2>3. QED
    BY <2>1, <2>2, FS_Union
<1>3. IsFiniteSet({2, 3} \X Elements)
  BY <1>1, <1>2, FS_Product
<1>4. QED
  BY <1>2, <1>3, FS_Union DEF Rows

\* An aggregate's name and list, which names each element once.
LEMMA AggregateIs ==
    ASSUME NEW a \in Aggregates
    PROVE  /\ a # NoAggregate /\ a = [name |-> a.name, list |-> a.list] /\ a.name \in Values
           /\ IsList(a.list) /\ Len(a.list) \in Nat /\ Len(a.list) <= Cardinality(Elements)
           /\ DOMAIN a.list = 1..Len(a.list)
           /\ \A i \in DOMAIN a.list :
                 /\ a.list[i].key \in Elements /\ a.list[i].value \in Values
                 /\ a.list[i].noted \in BOOLEAN
                 /\ a.list[i] = [key |-> a.list[i].key, value |-> a.list[i].value,
                                 noted |-> a.list[i].noted]
           /\ \A i, j \in DOMAIN a.list : a.list[i].key = a.list[j].key => i = j
<1>1. a \in [name : Values, list : SeqOf(Entities, Cardinality(Elements))] /\ IsInjective(KeysOf(a.list))
  BY DEF Aggregates
<1>2. a # NoAggregate
  BY RepositoryAssumption
<1>3. a = [name |-> a.name, list |-> a.list] /\ a.name \in Values
      /\ a.list \in SeqOf(Entities, Cardinality(Elements))
  BY <1>1
<1>4. PICK n \in 0..Cardinality(Elements) : a.list \in [1..n -> Entities]
  BY <1>3 DEF SeqOf
<1> DEFINE s == a.list
<1>5. Cardinality(Elements) \in Nat
  BY RepositoryAssumption, FS_CardinalityType
<1>6. n \in Nat /\ n <= Cardinality(Elements)
  BY <1>4, <1>5
<1>7. s = [i \in 1..n |-> s[i]] /\ DOMAIN s = 1..n /\ \A i \in 1..n : s[i] \in Entities
  BY <1>4
<1>8. IsList(s) /\ Len(s) = n
  <2> HIDE DEF s
  <2> QED
    BY <1>6, <1>7, ListIs
<1>9. \A l \in Entities : /\ l.key \in Elements /\ l.value \in Values /\ l.noted \in BOOLEAN
                          /\ l = [key |-> l.key, value |-> l.value, noted |-> l.noted]
  BY DEF Entities
<1>10. \A i, j \in DOMAIN s : s[i].key = s[j].key => i = j
  <2>1. IsInjective([i \in DOMAIN s |-> s[i].key])
    BY <1>1 DEF KeysOf
  <2>2. QED
    BY <2>1 DEF IsInjective
<1>11. QED
  BY <1>2, <1>3, <1>6, <1>7, <1>8, <1>9, <1>10

\* The rows an aggregate has in a table, each once.
LEMMA RowsInAre ==
    ASSUME NEW a \in Aggregates \cup {NoAggregate}, NEW t \in {1, 2, 3}
    PROVE  /\ IsList(RowsIn(t, a)) /\ IsInjective(RowsIn(t, a))
           /\ Range(RowsIn(t, a)) = {r \in RowsOf(a) : r[1] = t}
<1>1. CASE a = NoAggregate
  <2>1. RowsIn(t, a) = << >> /\ RowsOf(a) = {}
    BY <1>1 DEF RowsIn, RowsOf
  <2>2. IsList(<< >>) /\ IsInjective(<< >>) /\ Range(<< >>) = {}
    <3>1. << >> \in Seq({}) /\ DOMAIN << >> = {}
      OBVIOUS
    <3>2. Range(<< >>) = {}
      BY <3>1 DEF Range
    <3>3. QED
      BY <3>1, <3>2 DEF IsList, IsInjective
  <2>3. QED
    BY <2>1, <2>2
<1>2. CASE a # NoAggregate
  <2> DEFINE n == Len(a.list)
             key(i) == a.list[i].key
             lines == [i \in DOMAIN a.list |-> Line(a.list[i].key)]
             notes == [i \in DOMAIN a.list |-> Note(a.list[i].key)]
             noted == {Note(l.key) : l \in {m \in Range(a.list) : m.noted}}
  <2>1. /\ n \in Nat /\ DOMAIN a.list = 1..n /\ \A i \in 1..n : key(i) \in Elements
        /\ \A i, j \in 1..n : key(i) = key(j) => i = j
        /\ IsList(a.list)
    BY <1>2, AggregateIs
  <2>2. Range(a.list) = {a.list[i] : i \in 1..n}
    BY <2>1, ListFacts
  <2> HIDE DEF n
  <2>3. RowsOf(a) = {RootRow} \cup {Line(key(i)) : i \in 1..n}
                        \cup {Note(key(i)) : i \in {j \in 1..n : a.list[j].noted}}
    BY <1>2, <2>1 DEF RowsOf
  <2>4. CASE t = 1
    <3>1. RowsIn(t, a) = <<RootRow>>
      BY <1>2, <2>4 DEF RowsIn
    <3>2. <<RootRow>> \in Seq({RootRow}) /\ DOMAIN <<RootRow>> = {1} /\ <<RootRow>>[1] = RootRow
      OBVIOUS
    <3>3. Range(<<RootRow>>) = {RootRow}
      BY <3>2 DEF Range
    <3>4. {r \in RowsOf(a) : r[1] = 1} = {RootRow}
      BY <2>1, <2>3, RowKinds
    <3>5. IsInjective(<<RootRow>>)
      BY <3>2 DEF IsInjective
    <3>6. QED
      BY <2>4, <3>1, <3>2, <3>3, <3>4, <3>5 DEF IsList
  <2>5. CASE t = 2
    <3>1. RowsIn(t, a) = lines
      BY <1>2, <2>5 DEF RowsIn
    <3>2. lines = [i \in 1..n |-> lines[i]] /\ \A i \in 1..n : lines[i] = Line(key(i))
      BY <2>1
    <3>3. IsInjective(lines)
      BY <2>1, RowKinds DEF IsInjective
    <3> HIDE DEF lines, key
    <3>4. IsList(lines) /\ Range(lines) = {lines[i] : i \in 1..n}
      BY <2>1, <3>2, ListIs
    <3>5. {lines[i] : i \in 1..n} = {Line(key(i)) : i \in 1..n}
      BY <3>2
    <3>6. {r \in RowsOf(a) : r[1] = 2} = {Line(key(i)) : i \in 1..n}
      BY <2>1, <2>3, RowKinds
    <3>7. QED
      BY <2>5, <3>1, <3>3, <3>4, <3>5, <3>6
  <2>6. CASE t = 3
    <3>1. RowsIn(t, a) = Only(notes, noted)
      BY <1>2, <2>6 DEF RowsIn
    <3>2. notes = [i \in 1..n |-> notes[i]] /\ \A i \in 1..n : notes[i] = Note(key(i))
      BY <2>1
    <3>3. IsInjective(notes)
      BY <2>1, RowKinds DEF IsInjective
    <3>4. noted = {Note(key(i)) : i \in {j \in 1..n : a.list[j].noted}}
      BY <2>2
    <3> HIDE DEF notes, key, noted
    <3>5. IsList(notes) /\ Range(notes) = {notes[i] : i \in 1..n}
      BY <2>1, <3>2, ListIs
    <3> DEFINE only == Only(notes, noted)
    <3>6. only \in Seq(Range(notes)) /\ Range(only) = Range(notes) \cap noted /\ IsInjective(only)
      BY <3>3, <3>5, OnlyIs DEF IsList
    <3> HIDE DEF only
    <3>7. IsList(only)
      <4>1. Len(only) \in Nat /\ DOMAIN only = 1..Len(only)
        BY <3>6
      <4>2. only = [i \in 1..Len(only) |-> only[i]]
        BY <3>6
      <4>3. QED
        BY <4>1, <4>2, ListIs
    <3>8. noted \subseteq Range(notes)
      BY <3>2, <3>4, <3>5
    <3>9. {r \in RowsOf(a) : r[1] = 3} = noted
      BY <2>1, <2>3, <3>4, RowKinds
    <3>10. QED
      BY <2>6, <3>1, <3>6, <3>7, <3>8, <3>9 DEF only
  <2>7. QED
    BY <2>4, <2>5, <2>6
<1>3. QED
  BY <1>1, <1>2

\* An aggregate has a row's holders with the row.
LEMMA RowsOfAre ==
    ASSUME NEW a \in Aggregates \cup {NoAggregate}
    PROVE  /\ RowsOf(a) \subseteq Rows
           /\ \A r \in RowsOf(a) : Above(r) \subseteq RowsOf(a)
           /\ RootRow \in RowsOf(a) <=> a # NoAggregate
           /\ a # NoAggregate => \A e \in Elements :
                 /\ Line(e) \in RowsOf(a) <=> \E i \in DOMAIN a.list : a.list[i].key = e
                 /\ Note(e) \in RowsOf(a) <=> \E i \in DOMAIN a.list : a.list[i].key = e /\ a.list[i].noted
<1>1. CASE a = NoAggregate
  BY <1>1 DEF RowsOf
<1>2. CASE a # NoAggregate
  <2>1. \A i \in DOMAIN a.list : a.list[i].key \in Elements
    BY <1>2, AggregateIs
  <2>2. RowsOf(a) = {RootRow} \cup {Line(a.list[i].key) : i \in DOMAIN a.list}
                        \cup {Note(a.list[i].key) : i \in {j \in DOMAIN a.list : a.list[j].noted}}
    BY <1>2 DEF RowsOf
  <2>3. RowsOf(a) \subseteq Rows
    BY <2>1, <2>2, RowKinds
  <2>4. ASSUME NEW e \in Elements
        PROVE  /\ Line(e) \in RowsOf(a) <=> \E i \in DOMAIN a.list : a.list[i].key = e
               /\ Note(e) \in RowsOf(a) <=> \E i \in DOMAIN a.list : a.list[i].key = e /\ a.list[i].noted
    <3>1. ASSUME Line(e) \in RowsOf(a) PROVE \E i \in DOMAIN a.list : a.list[i].key = e
      BY <2>1, <2>2, <3>1, RowKinds
    <3>2. ASSUME Note(e) \in RowsOf(a)
          PROVE  \E i \in DOMAIN a.list : a.list[i].key = e /\ a.list[i].noted
      BY <2>1, <2>2, <3>2, RowKinds
    <3>3. QED
      BY <2>2, <3>1, <3>2
  <2>5. ASSUME NEW r \in RowsOf(a) PROVE Above(r) \subseteq RowsOf(a)
    <3>1. CASE r = RootRow
      BY <3>1, AboveIs
    <3>2. CASE \E e \in Elements : r = Line(e)
      BY <2>2, <3>2, AboveIs
    <3>3. ASSUME NEW e \in Elements, r = Note(e) PROVE Above(r) \subseteq RowsOf(a)
      <4>1. Line(e) \in RowsOf(a)
        BY <2>4, <2>5, <3>3
      <4>2. QED
        BY <2>2, <3>3, <4>1, AboveIs
    <3>4. QED
      BY <2>3, <2>5, <3>1, <3>2, <3>3, RowKinds
  <2>6. QED
    BY <1>2, <2>2, <2>3, <2>4, <2>5
<1>3. QED
  BY <1>1, <1>2

\* What an aggregate's rows are to hold.
LEMMA TakenApartIs ==
    ASSUME NEW a \in Aggregates \cup {NoAggregate}, NEW p
    PROVE  LET f == TakenApart(a, p) IN
           /\ f = [r \in RowsOf(a) |-> f[r]]
           /\ a # NoAggregate =>
                 /\ f[RootRow] = Content(a.name, 0)
                 /\ \A i \in DOMAIN a.list : f[Line(a.list[i].key)] = Content(a.list[i].value, p[i])
           /\ \A e \in Elements : Note(e) \in RowsOf(a) => f[Note(e)] = Content(NoRow, 0)
<1> DEFINE f == TakenApart(a, p)
           D == UNION {Range(RowsIn(t, a)) : t \in 1..3}
           at(r) == CHOOSE i \in DOMAIN a.list : a.list[i].key = r[2]
           c(r) == CASE r[1] = 1 -> Content(a.name, 0)
                     [] r[1] = 2 -> Content(Entity(a, r[2]).value, p[at(r)])
                     [] r[1] = 3 -> Content(NoRow, 0)
<1>1. D = RowsOf(a)
  <2>1. 1..3 = {1, 2, 3}
    OBVIOUS
  <2>2. \A t \in {1, 2, 3} : Range(RowsIn(t, a)) = {r \in RowsOf(a) : r[1] = t}
    BY RowsInAre
  <2>3. \A r \in RowsOf(a) : r[1] \in {1, 2, 3}
    BY RowsOfAre, RowKinds
  <2>4. QED
    BY <2>1, <2>2, <2>3
<1>2. f = [r \in D |-> c(r)]
  BY DEF TakenApart
<1> HIDE DEF f, D
<1>3. \A r \in RowsOf(a) : f[r] = c(r)
  <2> HIDE DEF c
  <2> QED
    BY <1>1, <1>2
<1>4. f = [r \in RowsOf(a) |-> f[r]]
  <2> HIDE DEF c
  <2> QED
    BY <1>1, <1>2
<1>5. ASSUME a # NoAggregate PROVE f[RootRow] = Content(a.name, 0)
  <2>1. RootRow \in RowsOf(a) /\ RootRow[1] = 1
    BY <1>5, RowsOfAre, RowKinds
  <2>2. QED
    BY <1>3, <2>1
<1>6. ASSUME a # NoAggregate, NEW i \in DOMAIN a.list
      PROVE  f[Line(a.list[i].key)] = Content(a.list[i].value, p[i])
  <2> DEFINE e == a.list[i].key
             r == Line(e)
  <2>1. e \in Elements /\ (\A j \in DOMAIN a.list : a.list[j].key = e => j = i)
        /\ IsList(a.list) /\ DOMAIN a.list = 1..Len(a.list)
    BY <1>6, AggregateIs
  <2>2. r \in RowsOf(a) /\ r[1] = 2 /\ r[2] = e
    BY <1>6, <2>1, RowsOfAre, RowKinds
  <2>3. at(r) = i
    BY <1>6, <2>1, <2>2
  <2>4. Entity(a, r[2]) = a.list[i]
    <3>1. \A l \in Range(a.list) : l.key = e <=> l = a.list[i]
      BY <2>1 DEF Range
    <3>2. a.list[i] \in Range(a.list)
      BY <1>6 DEF Range
    <3>3. QED
      BY <2>2, <3>1, <3>2 DEF Entity
  <2> HIDE DEF r, at
  <2>5. f[r] = c(r) /\ c(r) = Content(Entity(a, r[2]).value, p[at(r)])
    BY <1>3, <2>2
  <2>6. QED
    BY <2>3, <2>4, <2>5 DEF r
<1>7. ASSUME NEW e \in Elements, Note(e) \in RowsOf(a) PROVE f[Note(e)] = Content(NoRow, 0)
  BY <1>3, <1>7, RowKinds
<1>8. QED
  BY <1>4, <1>5, <1>6, <1>7 DEF f

\* A list numbered is in order, of positions the column holds.
LEMMA NumberedIs ==
    ASSUME NEW n \in Nat, n <= Cardinality(Elements)
    PROVE  /\ Numbered(n) \in [1..n -> Lowest..Highest]
           /\ \A i, j \in 1..n : i < j => Numbered(n)[i] < Numbered(n)[j]
<1>1. /\ Gap \in Nat /\ Gap > 0 /\ Lowest \in Int /\ Highest \in Int /\ Lowest <= 0
      /\ Cardinality(Elements) \in Nat
      /\ (Cardinality(Elements) - 1) * Gap <= Highest
  BY RepositoryAssumption, PositionsAssumption, FS_CardinalityType
<1> DEFINE c == Cardinality(Elements)
<1>2. ASSUME NEW i \in 1..n PROVE (i - 1) * Gap \in Lowest..Highest
  <2> HIDE DEF c
  <2>1. i - 1 \in Nat /\ c - i \in Nat /\ c - 1 = (i - 1) + (c - i)
    BY <1>1 DEF c
  <2>2. (c - 1) * Gap = (i - 1) * Gap + (c - i) * Gap
    BY <1>1, <2>1
  <2>3. (i - 1) * Gap \in Nat /\ (c - i) * Gap \in Nat
    BY <1>1, <2>1
  <2>4. (c - 1) * Gap <= Highest
    BY <1>1 DEF c
  <2>5. QED
    BY <1>1, <2>2, <2>3, <2>4
<1>3. ASSUME NEW i \in 1..n, NEW j \in 1..n, i < j PROVE (i - 1) * Gap < (j - 1) * Gap
  <2>1. j - i \in Nat /\ j - i >= 1 /\ i - 1 \in Nat /\ j - 1 = (i - 1) + (j - i)
    BY <1>3
  <2>2. (j - 1) * Gap = (i - 1) * Gap + (j - i) * Gap
    BY <1>1, <2>1
  <2>3. (j - i) * Gap >= Gap
    BY <1>1, <2>1
  <2>4. (i - 1) * Gap \in Nat /\ (j - i) * Gap \in Nat
    BY <1>1, <2>1
  <2>5. QED
    BY <1>1, <2>2, <2>3, <2>4
<1>4. QED
  BY <1>2, <1>3 DEF Numbered

\* Wherever a list is placed, its positions are ones the column holds.
LEMMA PlaceKeepingFits ==
    ASSUME NEW n \in Nat, n <= Cardinality(Elements), NEW positions,
           positions = [i \in 1..n |-> positions[i]], NEW kept
    PROVE  PlaceKeeping(positions, kept) \in [1..n -> Lowest..Highest]
<1> DEFINE placed == [i \in DOMAIN positions |-> PlacedAt(positions, kept, i)]
<1>1. DOMAIN positions = 1..n /\ Len(positions) = n
  BY ListIs
<1>2. placed = [i \in 1..n |-> placed[i]]
  BY <1>1
<1>3. PlaceKeeping(positions, kept) =
         IF Room(positions, kept) /\ \A i \in DOMAIN positions : placed[i] \in Lowest..Highest
         THEN placed ELSE Numbered(n)
  BY <1>1 DEF PlaceKeeping
<1>4. Numbered(n) \in [1..n -> Lowest..Highest]
  BY NumberedIs
<1> HIDE DEF placed
<1>5. CASE Room(positions, kept) /\ \A i \in DOMAIN positions : placed[i] \in Lowest..Highest
  BY <1>1, <1>2, <1>3, <1>5
<1>6. CASE ~ (Room(positions, kept) /\ \A i \in DOMAIN positions : placed[i] \in Lowest..Highest)
  BY <1>3, <1>4, <1>6
<1>7. QED
  BY <1>5, <1>6

-----------------------------------------------------------------------------
(* The statements that make what is kept what is to be. *)

KeptRows(kept) ==
    /\ kept = [r \in DOMAIN kept |-> kept[r]]
    /\ DOMAIN kept \subseteq Rows
    /\ \A r \in DOMAIN kept : kept[r] \in RowContents(r)

IsDeletion(x, kept, a) ==
    /\ Of(x, "delete", DOMAIN kept \ RowsOf(a)) /\ x = Statement("delete", x.rows)
    /\ x.rows = [r \in DOMAIN x.rows |-> NoRow]

IsInsertion(x, kept, a, placed) ==
    /\ Of(x, "insert", RowsOf(a) \ DOMAIN kept) /\ x = Statement("insert", x.rows)
    /\ x.rows = [r \in DOMAIN x.rows |-> ToBe(kept, a, placed)[r]]

IsUpdate(x, kept, a, placed) ==
    /\ Of(x, "update", RowsOf(a) \cap DOMAIN kept)
    /\ \E r \in RowsOf(a) \cap DOMAIN kept :
          ~ Same(r, kept, ToBe(kept, a, placed), placed) /\ x = Update(r, ToBe(kept, a, placed), placed)

IsWrite(x, kept, a, placed) == IsInsertion(x, kept, a, placed) \/ IsUpdate(x, kept, a, placed)

In(t, S) == {r \in S : r[1] = t}

\* The rows that are not as they are to be.
Gone3(kept, a) == DOMAIN kept \ RowsOf(a)

Written3(kept, a, placed) ==
    (RowsOf(a) \ DOMAIN kept)
        \cup {r \in RowsOf(a) \cap DOMAIN kept : ~ Same(r, kept, ToBe(kept, a, placed), placed)}

\* OnlyIs, of a list.
LEMMA OnlyList ==
    ASSUME NEW s, NEW S, IsList(s), IsInjective(s)
    PROVE  /\ IsList(Only(s, S)) /\ IsInjective(Only(s, S))
           /\ Range(Only(s, S)) = Range(s) \cap S
<1> DEFINE only == Only(s, S)
<1>1. only \in Seq(Range(s)) /\ Range(only) = Range(s) \cap S /\ IsInjective(only)
  BY OnlyIs DEF IsList
<1> HIDE DEF only
<1>2. Len(only) \in Nat
  BY <1>1
<1>3. only = [i \in 1..Len(only) |-> only[i]]
  BY <1>1
<1>4. IsList(only)
  BY <1>2, <1>3, ListIs
<1>5. QED
  BY <1>1, <1>4 DEF only

\* A table's deletes: of the rows kept that the aggregate has not.
LEMMA DeletesAre ==
    ASSUME NEW kept, KeptRows(kept), NEW a \in Aggregates \cup {NoAggregate}, NEW t \in {1, 2, 3}
    PROVE  LET d == Deletes(t, kept, a) IN
           /\ Orderly(d) /\ Covered(d) = In(t, Gone3(kept, a))
           /\ \A x \in Range(d) : IsDeletion(x, kept, a) /\ InTable(DOMAIN x.rows, t)
<1> DEFINE gone == Gone(t, kept, a)
           d == Deletes(t, kept, a)
<1>1. gone = In(t, Gone3(kept, a))
  <2>1. Range(RowsIn(t, a)) = {r \in RowsOf(a) : r[1] = t}
    BY RowsInAre
  <2>2. QED
    BY <2>1 DEF Gone, In, Gone3
<1>2. gone \subseteq Gone3(kept, a) /\ gone \subseteq Rows /\ InTable(gone, t)
  BY <1>1 DEF In, Gone3, InTable, KeptRows
<1>3. IsFiniteSet(gone)
  BY <1>2, RowsFinite, FS_Subset
<1>4. d = DeleteRows(t, gone)
  BY DEF Deletes
<1> HIDE DEF d, gone
<1>5. /\ Orderly(d) /\ Covered(d) = gone
      /\ \A x \in Range(d) :
            Of(x, "delete", gone) /\ x = Statement("delete", x.rows)
               /\ x.rows = [r \in DOMAIN x.rows |-> NoRow]
  BY <1>2, <1>3, <1>4, DeleteRowsAre
<1>6. ASSUME NEW x \in Range(d) PROVE IsDeletion(x, kept, a) /\ InTable(DOMAIN x.rows, t)
  <2>1. Of(x, "delete", gone) /\ x = Statement("delete", x.rows)
               /\ x.rows = [r \in DOMAIN x.rows |-> NoRow]
    BY <1>5
  <2>2. Of(x, "delete", Gone3(kept, a)) /\ InTable(DOMAIN x.rows, t)
    BY <2>1, <1>2 DEF Of, InTable
  <2>3. QED
    BY <2>1, <2>2 DEF IsDeletion, Gone3
<1>7. QED
  BY <1>1, <1>5, <1>6 DEF d

\* A table's inserts and updates: of new rows, and of those that differ.
LEMMA WritesAre ==
    ASSUME NEW kept, KeptRows(kept), NEW a \in Aggregates \cup {NoAggregate}, NEW t \in {1, 2, 3},
           NEW placed \in BOOLEAN
    PROVE  LET d == Writes(t, kept, a, placed) IN
           /\ Orderly(d) /\ Covered(d) = In(t, Written3(kept, a, placed))
           /\ \A x \in Range(d) : IsWrite(x, kept, a, placed) /\ InTable(DOMAIN x.rows, t)
<1> DEFINE rows == RowsIn(t, a)
           wanted == ToBe(kept, a, placed)
           N == Range(rows) \ DOMAIN kept
           C == {r \in DOMAIN kept \cap Range(rows) : ~ Same(r, kept, wanted, placed)}
           new == Only(rows, N)
           changed == Only(rows, C)
           inserts == InsertRows(new, wanted)
           updates == [i \in DOMAIN changed |-> Update(changed[i], wanted, placed)]
<1>1. IsList(rows) /\ IsInjective(rows) /\ Range(rows) = In(t, RowsOf(a))
  BY RowsInAre DEF In
<1>2. t \in Int
  OBVIOUS
<1>3. Writes(t, kept, a, placed) = inserts \o updates
  BY DEF Writes
<1> HIDE DEF rows, wanted
<1>4. IsList(new) /\ IsInjective(new) /\ Range(new) = N
  <2>1. Range(rows) \cap N = N
    OBVIOUS
  <2> HIDE DEF N
  <2>2. QED
    BY <1>1, <2>1, OnlyList
<1>5. IsList(changed) /\ IsInjective(changed) /\ Range(changed) = C
  <2>1. Range(rows) \cap C = C
    OBVIOUS
  <2> HIDE DEF C
  <2>2. QED
    BY <1>1, <2>1, OnlyList
<1>6. /\ InTable(N, t) /\ InTable(C, t) /\ N \subseteq RowsOf(a) \ DOMAIN kept
      /\ C \subseteq RowsOf(a) \cap DOMAIN kept
  BY <1>1 DEF InTable, In
<1>7. N \cap C = {} /\ N \cup C = In(t, Written3(kept, a, placed))
  BY <1>1 DEF Written3, In, wanted
<1>8. \A r \in C : r \in RowsOf(a) \cap DOMAIN kept /\ ~ Same(r, kept, wanted, placed)
  BY <1>6
<1> HIDE DEF new, changed, N, C
<1>9. /\ Orderly(inserts) /\ Covered(inserts) = N
      /\ \A x \in Range(inserts) :
            Of(x, "insert", N) /\ x = Statement("insert", x.rows)
               /\ x.rows = [r \in DOMAIN x.rows |-> wanted[r]]
  BY <1>2, <1>4, <1>6, InsertRowsAre
<1>10. /\ Orderly(updates) /\ Covered(updates) = C
       /\ \A x \in Range(updates) :
             Of(x, "update", C) /\ \E r \in C : x = Update(r, wanted, placed)
  BY <1>2, <1>5, <1>6, UpdatesAre
<1> HIDE DEF inserts, updates
<1>11. ASSUME NEW x \in Range(inserts), NEW y \in Range(updates)
       PROVE  Apart2(x, y) /\ Before(x, y)
  <2>1. Of(x, "insert", N) /\ Of(y, "update", C)
    BY <1>9, <1>10
  <2>2. QED
    BY <2>1, <1>6, <1>7 DEF Of, Apart2, Before, InTable
<1>12. /\ Orderly(inserts \o updates) /\ Covered(inserts \o updates) = N \cup C
       /\ Range(inserts \o updates) = Range(inserts) \cup Range(updates)
  <2>1. Orderly(inserts) /\ Orderly(updates)
    BY <1>9, <1>10
  <2>2. QED
    BY <2>1, <1>9, <1>10, <1>11, OrderlyConcat
<1>13. ASSUME NEW x \in Range(inserts)
       PROVE  IsInsertion(x, kept, a, placed) /\ InTable(DOMAIN x.rows, t)
  <2>1. Of(x, "insert", N) /\ x = Statement("insert", x.rows)
               /\ x.rows = [r \in DOMAIN x.rows |-> wanted[r]]
    BY <1>9
  <2>2. Of(x, "insert", RowsOf(a) \ DOMAIN kept) /\ InTable(DOMAIN x.rows, t)
    BY <2>1, <1>6 DEF Of, InTable
  <2>3. QED
    BY <2>1, <2>2 DEF IsInsertion, wanted
<1>14. ASSUME NEW x \in Range(updates)
       PROVE  IsUpdate(x, kept, a, placed) /\ InTable(DOMAIN x.rows, t)
  <2>1. Of(x, "update", C) /\ \E r \in C : x = Update(r, wanted, placed)
    BY <1>10
  <2>2. Of(x, "update", RowsOf(a) \cap DOMAIN kept) /\ InTable(DOMAIN x.rows, t)
    BY <2>1, <1>6 DEF Of, InTable
  <2>3. QED
    BY <2>1, <2>2, <1>8 DEF IsUpdate, wanted
<1>15. QED
  BY <1>3, <1>7, <1>12, <1>13, <1>14 DEF IsWrite

\* All the statements of a save: each row that changes in one of them, deletions first.
LEMMA ChangesAre ==
    ASSUME NEW kept, KeptRows(kept), NEW a \in Aggregates \cup {NoAggregate},
           NEW placed \in BOOLEAN, NEW tables \in {1, 3}
    PROVE  LET c == Changes(tables, kept, a, placed)
               rows == Gone3(kept, a) \cup Written3(kept, a, placed) IN
           /\ Orderly(c)
           /\ Covered(c) = IF tables = 1 THEN In(1, rows) ELSE rows
           /\ \A x \in Range(c) : IsDeletion(x, kept, a) \/ IsWrite(x, kept, a, placed)
<1> DEFINE D(t) == Deletes(t, kept, a)
           W(t) == Writes(t, kept, a, placed)
           G == Gone3(kept, a)
           U == Written3(kept, a, placed)
           Del(x, t) == IsDeletion(x, kept, a) /\ InTable(DOMAIN x.rows, t)
           Wri(x, t) == IsWrite(x, kept, a, placed) /\ InTable(DOMAIN x.rows, t)
<1>1. \A t \in {1, 2, 3} : /\ Orderly(D(t)) /\ Covered(D(t)) = In(t, G)
                           /\ \A x \in Range(D(t)) : Del(x, t)
  BY DeletesAre
<1>2. \A t \in {1, 2, 3} : /\ Orderly(W(t)) /\ Covered(W(t)) = In(t, U)
                           /\ \A x \in Range(W(t)) : Wri(x, t)
  BY WritesAre
<1>3. \A x, t : Del(x, t) => /\ x.does = "delete" /\ DOMAIN x.rows # {} /\ InTable(DOMAIN x.rows, t)
                             /\ DOMAIN x.rows \cap RowsOf(a) = {}
  BY DEF IsDeletion, Of
<1>4. \A x, t : Wri(x, t) => /\ x.does # "delete" /\ DOMAIN x.rows # {} /\ InTable(DOMAIN x.rows, t)
                             /\ DOMAIN x.rows \subseteq RowsOf(a)
  BY DEF IsWrite, IsInsertion, IsUpdate, Of
<1>5. /\ Changes(1, kept, a, placed) = D(1) \o W(1)
      /\ Changes(3, kept, a, placed) = D(3) \o D(2) \o D(1) \o W(1) \o W(2) \o W(3)
  BY DEF Changes
<1> HIDE DEF D, W, Del, Wri, G, U
<1>6. \A x, y : \A t, u \in {1, 2, 3} : t # u /\ Del(x, t) /\ Del(y, u) => Apart2(x, y) /\ Before(x, y)
  BY <1>3 DEF Apart2, Before, InTable
<1>7. \A x, y, t, u : Del(x, t) /\ Wri(y, u) => Apart2(x, y) /\ Before(x, y)
  <2>1. SUFFICES ASSUME NEW x, NEW y, NEW t, NEW u, Del(x, t), Wri(y, u)
                 PROVE  Apart2(x, y) /\ Before(x, y)
    OBVIOUS
  <2>2. x.does = "delete" /\ DOMAIN x.rows \cap RowsOf(a) = {}
    BY <2>1, <1>3
  <2>3. DOMAIN y.rows \subseteq RowsOf(a)
    BY <2>1, <1>4
  <2>4. QED
    BY <2>2, <2>3 DEF Apart2, Before
<1>8. \A x, y : \A t, u \in {1, 2, 3} : t < u /\ Wri(x, t) /\ Wri(y, u) => Apart2(x, y) /\ Before(x, y)
  <2>1. SUFFICES ASSUME NEW x, NEW y, NEW t \in {1, 2, 3}, NEW u \in {1, 2, 3}, t < u, Wri(x, t), Wri(y, u)
                 PROVE  Apart2(x, y) /\ Before(x, y)
    OBVIOUS
  <2>2. y.does # "delete" /\ InTable(DOMAIN x.rows, t) /\ InTable(DOMAIN y.rows, u)
    BY <2>1, <1>4
  <2>3. QED
    BY <2>1, <2>2 DEF Apart2, Before, InTable
<1>9. \A x, t : Del(x, t) => IsDeletion(x, kept, a)
  BY DEF Del
<1>10. \A x, t : Wri(x, t) => IsWrite(x, kept, a, placed)
  BY DEF Wri
<1>11. \A r \in G \cup U : r[1] \in {1, 2, 3}
  <2>1. G \cup U \subseteq Rows
    BY RowsOfAre DEF G, U, Gone3, Written3, KeptRows
  <2>2. QED
    BY <2>1, RowKinds
<1>12. CASE tables = 1
  <2>1. /\ Orderly(D(1)) /\ Covered(D(1)) = In(1, G) /\ Orderly(W(1)) /\ Covered(W(1)) = In(1, U)
        /\ (\A x \in Range(D(1)) : Del(x, 1)) /\ (\A x \in Range(W(1)) : Wri(x, 1))
    BY <1>1, <1>2
  <2>2. \A x \in Range(D(1)), y \in Range(W(1)) : Apart2(x, y) /\ Before(x, y)
    BY <2>1, <1>7
  <2>3. /\ Orderly(D(1) \o W(1)) /\ Covered(D(1) \o W(1)) = In(1, G) \cup In(1, U)
        /\ Range(D(1) \o W(1)) = Range(D(1)) \cup Range(W(1))
    BY <2>1, <2>2, OrderlyConcat
  <2>4. In(1, G) \cup In(1, U) = In(1, G \cup U)
    BY DEF In
  <2>5. \A x \in Range(D(1) \o W(1)) : IsDeletion(x, kept, a) \/ IsWrite(x, kept, a, placed)
    BY <2>1, <2>3, <1>9, <1>10
  <2>6. QED
    BY <1>5, <1>12, <2>3, <2>4, <2>5 DEF G, U
<1>13. CASE tables = 3
  <2>1. /\ \A t \in {1, 2, 3} : \A x \in Range(D(t)) : Del(x, t)
        /\ \A t \in {1, 2, 3} : \A x \in Range(W(t)) : Wri(x, t)
    BY <1>1, <1>2
  <2> DEFINE c2 == D(3) \o D(2)
             c3 == c2 \o D(1)
             c4 == c3 \o W(1)
             c5 == c4 \o W(2)
             c6 == c5 \o W(3)
  <2>2. /\ Orderly(c2) /\ Covered(c2) = In(3, G) \cup In(2, G)
        /\ Range(c2) = Range(D(3)) \cup Range(D(2))
    <3>1. \A x \in Range(D(3)), y \in Range(D(2)) : Apart2(x, y) /\ Before(x, y)
      BY <2>1, <1>6
    <3>2. Orderly(D(3)) /\ Orderly(D(2)) /\ Covered(D(3)) = In(3, G) /\ Covered(D(2)) = In(2, G)
      BY <1>1
    <3>3. QED
      BY <3>1, <3>2, OrderlyConcat
  <2> HIDE DEF c2
  <2>3. /\ Orderly(c3) /\ Covered(c3) = In(3, G) \cup In(2, G) \cup In(1, G)
        /\ Range(c3) = Range(c2) \cup Range(D(1))
    <3>1. \A x \in Range(c2), y \in Range(D(1)) : Apart2(x, y) /\ Before(x, y)
      BY <2>1, <2>2, <1>6
    <3>2. Orderly(D(1)) /\ Covered(D(1)) = In(1, G)
      BY <1>1
    <3>3. QED
      BY <2>2, <3>1, <3>2, OrderlyConcat
  <2>4. \A x \in Range(c3) : \E t \in {1, 2, 3} : Del(x, t)
    BY <2>1, <2>2, <2>3
  <2> HIDE DEF c3
  <2>5. /\ Orderly(c4) /\ Covered(c4) = Covered(c3) \cup In(1, U)
        /\ Range(c4) = Range(c3) \cup Range(W(1))
    <3>1. \A x \in Range(c3), y \in Range(W(1)) : Apart2(x, y) /\ Before(x, y)
      BY <2>1, <2>4, <1>7
    <3>2. Orderly(W(1)) /\ Covered(W(1)) = In(1, U)
      BY <1>2
    <3>3. QED
      BY <2>3, <3>1, <3>2, OrderlyConcat
  <2> HIDE DEF c4
  <2>6. /\ Orderly(c5) /\ Covered(c5) = Covered(c4) \cup In(2, U)
        /\ Range(c5) = Range(c4) \cup Range(W(2))
    <3>1. \A x \in Range(c4), y \in Range(W(2)) : Apart2(x, y) /\ Before(x, y)
      BY <2>1, <2>4, <2>5, <1>7, <1>8
    <3>2. Orderly(W(2)) /\ Covered(W(2)) = In(2, U)
      BY <1>2
    <3>3. QED
      BY <2>5, <3>1, <3>2, OrderlyConcat
  <2> HIDE DEF c5
  <2>7. /\ Orderly(c6) /\ Covered(c6) = Covered(c5) \cup In(3, U)
        /\ Range(c6) = Range(c5) \cup Range(W(3))
    <3>1. \A x \in Range(c5), y \in Range(W(3)) : Apart2(x, y) /\ Before(x, y)
      BY <2>1, <2>4, <2>5, <2>6, <1>7, <1>8
    <3>2. Orderly(W(3)) /\ Covered(W(3)) = In(3, U)
      BY <1>2
    <3>3. QED
      BY <2>6, <3>1, <3>2, OrderlyConcat
  <2>8. Covered(c6) = G \cup U
    BY <2>3, <2>5, <2>6, <2>7, <1>11 DEF In
  <2>9. \A x \in Range(c6) : IsDeletion(x, kept, a) \/ IsWrite(x, kept, a, placed)
    BY <2>1, <2>4, <2>5, <2>6, <2>7, <1>9, <1>10
  <2>10. Changes(3, kept, a, placed) = c6
    BY <1>5 DEF c6, c5, c4, c3, c2
  <2> HIDE DEF c6
  <2>11. Orderly(Changes(3, kept, a, placed)) /\ Covered(Changes(3, kept, a, placed)) = G \cup U
    BY <2>7, <2>8, <2>10
  <2>12. QED
    BY <1>13, <2>9, <2>10, <2>11 DEF G, U
<1>14. QED
  BY <1>12, <1>13

-----------------------------------------------------------------------------
(* What is read is true of what is stored. *)

Fields(o) ==
    o \in [phase : {o.phase}, job : {o.job}, read : {o.read}, before : {o.before},
           todo : {o.todo}, held : {o.held}, mine : {o.mine}, rows : {o.rows},
           says : {o.says}, found : {o.found}, was : {o.was}, alone : {o.alone}]

ReadingPhases == {"root", "lines", "notes", "again"}

\* What reading those tables gives of what is stored.
Part(rows, tables) ==
    [r \in {q \in Rows : q[1] \in tables /\ rows[q] # NoRow} |-> rows[r]]

\* Which operations are read for, and that they are read before they write.
InTurn(o) ==
    /\ o.phase \in ReadingPhases => o.held = {}
    /\ o.phase = "root" => o.job.does \in {"find", "save", "change", "delete", "saveRoot"}
    /\ o.phase \in {"lines", "notes"} => o.job.does \in {"find", "save", "change", "delete"}
    /\ o.phase = "again" => o.job.does = "change"

TrueAnswer(o) ==
    /\ o.says = "found" => o.found \in Assembled(o.was)
    /\ o.says = "absent" => Assembled(o.was) = {NoAggregate}
    /\ o.says = "done" /\ o.job.does = "delete" => (o.rows = 0 <=> o.was[RootRow] = NoRow)

\* Whoever is alone began with what is stored now, and has read that.
Undisturbed(o, rows) ==
    o.alone =>
        /\ o.phase \in ReadingPhases \cup {"run"} => o.was = rows
        /\ o.phase = "lines" => o.read = Part(rows, {1})
        /\ o.phase = "notes" => o.read = Part(rows, {1, 2})
        /\ o.phase \in {"lines", "notes"} \/ (o.phase = "run" /\ o.job.does = "delete") =>
              (o.rows = 0 <=> rows[RootRow] = NoRow)
        /\ o.phase = "answered" => TrueAnswer(o)

RepositoryInv ==
    /\ db = [r \in Rows |-> db[r]]
    /\ op = [w \in Sessions |-> op[w]]
    /\ \A w \in Sessions : Fields(op[w]) /\ InTurn(op[w]) /\ Undisturbed(op[w], db)

-----------------------------------------------------------------------------
(* What is read is what is stored. *)

\* A row is of one of three tables.
LEMMA RowIs ==
    ASSUME NEW r \in Rows
    PROVE  /\ r[1] \in {1, 2, 3}
           /\ r[1] = 1 <=> r = RootRow
BY DEF Rows, RootRow

\* One that wrote nothing sees what is committed.
LEMMA SeenAlone ==
    ASSUME RepositoryInv, NEW w \in Sessions, op[w].held = {}
    PROVE  Seen(w) = db
BY DEF RepositoryInv, Seen

\* Reading a table gives what is stored in it.
LEMMA ReadInIs ==
    ASSUME RepositoryInv, NEW w \in Sessions, op[w].held = {}, NEW t \in {1, 2, 3}
    PROVE  ReadIn(w, t) = Part(db, {t})
<1>1. Seen(w) = db /\ DOMAIN db = Rows
  BY SeenAlone DEF RepositoryInv
<1>2. Present(db, t) = {q \in Rows : q[1] \in {t} /\ db[q] # NoRow}
  BY <1>1 DEF Present
<1>3. QED
  BY <1>1, <1>2 DEF ReadIn, Part

\* Tables read one by one come to those tables read.
LEMMA JoinedIs ==
    ASSUME NEW rows, NEW S \in SUBSET {1, 2, 3}, NEW t \in {1, 2, 3}
    PROVE  Joined(Part(rows, S), Part(rows, {t})) = Part(rows, S \cup {t})
<1> DEFINE D(T) == {q \in Rows : q[1] \in T /\ rows[q] # NoRow}
<1>1. \A T : DOMAIN Part(rows, T) = D(T) /\ \A r \in D(T) : Part(rows, T)[r] = rows[r]
  BY DEF Part
<1>2. D(S) \cup D({t}) = D(S \cup {t})
  OBVIOUS
<1>3. Joined(Part(rows, S), Part(rows, {t})) = [r \in D(S \cup {t}) |-> rows[r]]
  BY <1>1, <1>2 DEF Joined
<1>4. QED
  BY <1>3 DEF Part

\* The rows of no table but the aggregate's are enough to put it together.
LEMMA AssembledOfPart ==
    ASSUME NEW rows, rows = [r \in Rows |-> rows[r]]
    PROVE  Assembled(Part(rows, {1, 2, 3})) = Assembled(rows)
<1> DEFINE part == Part(rows, {1, 2, 3})
<1>1. /\ DOMAIN part = {q \in Rows : rows[q] # NoRow}
      /\ \A r \in DOMAIN part : part[r] = rows[r]
      /\ DOMAIN rows = Rows
  BY RowIs DEF Part
<1> HIDE DEF part
<1>2. \A t : Present(part, t) = Present(rows, t)
  BY <1>1 DEF Present
<1>3. \A t : Present(rows, t) \subseteq DOMAIN part
  BY <1>1 DEF Present
<1>4. Listings(part) = Listings(rows)
  <2> DEFINE lines == Present(rows, 2)
             all == [1..Cardinality(lines) -> lines]
  <2>1. \A s \in all : \A i \in DOMAIN s : part[s[i]] = rows[s[i]]
    BY <1>1, <1>3
  <2>2. Present(part, 2) = lines
    BY <1>2
  <2> HIDE DEF lines
  <2>3. QED
    BY <2>1, <2>2 DEF Listings, lines
<1>5. \A s \in Listings(rows) : \A i \in DOMAIN s : s[i] \in Present(rows, 2)
  BY DEF Listings
<1>6. CASE Present(rows, 1) = {}
  BY <1>2, <1>6 DEF part, Assembled
<1>7. CASE Present(rows, 1) # {}
  <2> DEFINE ValueIn(f, s) ==
        [name |-> f[RootRow].value,
         list |-> [i \in DOMAIN s |->
             [key |-> s[i][2], value |-> f[s[i]].value,
              noted |-> Note(s[i][2]) \in Present(f, 3)]]]
  <2>1. Assembled(part) = {ValueIn(part, s) : s \in Listings(part)}
    BY <1>2, <1>7 DEF Assembled
  <2>2. Assembled(rows) = {ValueIn(rows, s) : s \in Listings(rows)}
    BY <1>7 DEF Assembled
  <2>3. RootRow \in DOMAIN part
    <3>1. PICK r : r \in Present(rows, 1)
      BY <1>7
    <3>2. r \in Rows /\ r[1] = 1 /\ r \in DOMAIN part
      BY <1>1, <1>3, <3>1 DEF Present
    <3>3. QED
      BY <3>2, RowIs
  <2>4. ASSUME NEW s \in Listings(rows) PROVE ValueIn(part, s) = ValueIn(rows, s)
    <3>1. \A i \in DOMAIN s : part[s[i]] = rows[s[i]]
      BY <1>1, <1>3, <1>5
    <3>2. part[RootRow] = rows[RootRow]
      BY <1>1, <2>3
    <3>3. QED
      BY <1>2, <3>1, <3>2
  <2> HIDE DEF ValueIn
  <2>5. QED
    BY <1>4, <2>1, <2>2, <2>4 DEF part
<1>8. QED
  BY <1>6, <1>7

-----------------------------------------------------------------------------
(* A step of one session. *)

\* A session at rest.
LEMMA RestIs == Fields(Rest) /\ Rest.phase = "idle" /\ Rest.held = {} /\ Rest.alone = FALSE
BY DEF Rest, Fields

\* A session that answered.
LEMMA AnswerIs ==
    ASSUME NEW o, NEW says
    PROVE  LET a == Answer(o, says) IN
           /\ Fields(a) /\ a.phase = "answered" /\ a.held = {} /\ a.says = says
           /\ a.job = o.job /\ a.rows = o.rows /\ a.was = o.was /\ a.alone = o.alone
BY DEF Answer, Rest, Fields

\* One session's step keeps the others' part where nothing is committed.
LEMMA SessionIs ==
    ASSUME RepositoryInv, NEW w \in Sessions
    PROVE  Fields(op[w]) /\ InTurn(op[w]) /\ Undisturbed(op[w], db)
BY DEF RepositoryInv

\* One that writes nothing yet leaves the others as they are.
LEMMA OneSessionSteps ==
    ASSUME RepositoryInv, NEW w \in Sessions, NEW o,
           Fields(o), InTurn(o), Undisturbed(o, db), op' = [op EXCEPT ![w] = o], db' = db
    PROVE  RepositoryInv'
<1>1. op' = [v \in Sessions |-> op'[v]] /\ op'[w] = o /\ \A v \in Sessions \ {w} : op'[v] = op[v]
  BY DEF RepositoryInv
<1>2. db' = [r \in Rows |-> db'[r]]
  BY DEF RepositoryInv
<1>3. ASSUME NEW v \in Sessions PROVE Fields(op'[v]) /\ InTurn(op'[v]) /\ Undisturbed(op'[v], db')
  <2>1. CASE v = w
    BY <1>1, <2>1
  <2>2. CASE v # w
    BY <1>1, <2>2, SessionIs
  <2>3. QED
    BY <2>1, <2>2
<1>4. QED
  BY <1>1, <1>2, <1>3 DEF RepositoryInv

\* An answer that says nothing of what is stored.
LEMMA AnswersOtherwise ==
    ASSUME RepositoryInv, NEW w \in Sessions, NEW says \in {"refused", "fault", "deadlock"},
           op' = [op EXCEPT ![w] = Answer(op[w], says)], db' = db
    PROVE  RepositoryInv'
<1> DEFINE o == Answer(op[w], says)
<1>1. Fields(o) /\ o.phase = "answered" /\ o.held = {} /\ o.says = says
  BY AnswerIs
<1> HIDE DEF o
<1>2. InTurn(o)
  BY <1>1 DEF InTurn, ReadingPhases
<1>3. Undisturbed(o, db)
  BY <1>1 DEF Undisturbed, ReadingPhases, TrueAnswer
<1>4. op' = [op EXCEPT ![w] = o]
  BY DEF o
<1>5. QED
  BY <1>1, <1>2, <1>3, <1>4, OneSessionSteps

\* An operation asked for begins alone, with what is stored.
LEMMA AskSteps ==
    ASSUME RepositoryInv, NEW w \in Sessions, NEW j \in May(w), Ask(w, j)
    PROVE  RepositoryInv'
<1> DEFINE phase == Starting(j).phase
           todo == Starting(j).todo
           o == [Rest EXCEPT !.job = j, !.was = db, !.alone = TRUE,
                             !.phase = phase, !.todo = todo]
<1>1. op' = [op EXCEPT ![w] = o] /\ db' = db
  BY DEF Ask
<1>2. j \in Jobs
  BY RepositoryAssumption
<1>3. j.does \in {"save", "change", "insert", "saveRoot", "find", "delete"}
  BY <1>2 DEF Jobs
<1>4. /\ phase \in {"root", "run"}
      /\ j.does = "insert" => phase = "run"
      /\ j.does = "delete" => phase = "root"
  <2>1. Inserting(j.value).phase = "run" /\ SavingRoot(j.value).phase \in {"root", "run"}
    BY DEF Inserting, SavingRoot
  <2>2. QED
    BY <1>3, <2>1 DEF Starting
<1> HIDE DEF phase, todo
<1>5. /\ Fields(o) /\ o.phase = phase /\ o.job = j /\ o.was = db /\ o.alone = TRUE
      /\ o.held = {}
  BY DEF Rest, Fields
<1> HIDE DEF o
<1>6. InTurn(o)
  BY <1>3, <1>4, <1>5 DEF InTurn, ReadingPhases
<1>7. Undisturbed(o, db)
  BY <1>4, <1>5 DEF Undisturbed, ReadingPhases
<1>8. QED
  BY <1>1, <1>5, <1>6, <1>7, OneSessionSteps

\* An operation that goes on to its statements, in what it has read.
LEMMA GoesOnToRun ==
    ASSUME RepositoryInv, NEW w \in Sessions, NEW o, Fields(o), o.phase = "run",
           op[w].phase \in ReadingPhases, o.job = op[w].job, o.was = op[w].was,
           o.alone = op[w].alone,
           o.alone /\ o.job.does = "delete" => (o.rows = 0 <=> db[RootRow] = NoRow),
           op' = [op EXCEPT ![w] = o], db' = db
    PROVE  RepositoryInv'
<1>1. InTurn(o)
  BY DEF InTurn, ReadingPhases
<1>2. Undisturbed(o, db)
  BY SessionIs DEF Undisturbed, ReadingPhases
<1>3. QED
  BY <1>1, <1>2, OneSessionSteps

\* How many roots were read is whether there is one.
LEMMA CountedIs ==
    ASSUME RepositoryInv
    PROVE  /\ Cardinality(DOMAIN Part(db, {1})) = 0 <=> db[RootRow] = NoRow
           /\ Part(db, {1}) = << >> <=> db[RootRow] = NoRow
<1> DEFINE there == {q \in Rows : q[1] \in {1} /\ db[q] # NoRow}
<1>1. there \subseteq {RootRow}
  BY RowIs
<1>2. RootRow \in Rows /\ RootRow[1] = 1
  BY DEF Rows, RootRow
<1>3. there = {} <=> db[RootRow] = NoRow
  BY <1>1, <1>2
<1>4. DOMAIN Part(db, {1}) = there
  BY DEF Part
<1>5. IsFiniteSet(there)
  BY <1>1, FS_Singleton, FS_Subset
<1>6. Cardinality(there) = 0 <=> there = {}
  BY <1>5, FS_EmptySet
<1>7. Part(db, {1}) = << >> <=> there = {}
  BY <1>4 DEF Part
<1>8. QED
  BY <1>3, <1>4, <1>6, <1>7

\* The root read.
LEMMA ReadRootSteps ==
    ASSUME RepositoryInv, NEW w \in Sessions, ReadRoot(w)
    PROVE  RepositoryInv'
<1> DEFINE j == op[w].job
           read == ReadIn(w, 1)
           count == Cardinality(DOMAIN read)
           o == [op[w] EXCEPT !.read = read, !.rows = count]
           next == CASE j.does = "saveRoot" ->
                          [o EXCEPT !.phase = "run", !.todo = Changes(1, read, j.value, TRUE)]
                     [] j.does \in {"find", "change"} /\ read = << >> -> Answer(o, "absent")
                     [] j.does \in {"save", "delete"} /\ read = << >> -> Saving(o, read)
                     [] OTHER -> [o EXCEPT !.phase = "lines"]
<1>1. op[w].phase = "root" /\ db' = db /\ op' = [op EXCEPT ![w] = next]
  BY DEF ReadRoot
<1>2. /\ op[w].held = {}
      /\ j.does \in {"find", "save", "change", "delete", "saveRoot"}
      /\ op[w].alone => op[w].was = db
  BY <1>1, SessionIs DEF InTurn, Undisturbed, ReadingPhases
<1>3. read = Part(db, {1})
  BY <1>2, ReadInIs
<1>4. (count = 0 <=> db[RootRow] = NoRow) /\ (read = << >> <=> db[RootRow] = NoRow)
  BY <1>3, CountedIs
<1>5. Fields(op[w])
  BY SessionIs
<1> HIDE DEF read, count
<1>6. /\ Fields(o) /\ o.read = read /\ o.rows = count /\ o.job = j /\ o.held = {}
      /\ o.was = op[w].was /\ o.alone = op[w].alone
  BY <1>2, <1>5 DEF Fields
<1> HIDE DEF o
<1>7. CASE j.does = "saveRoot"
  <2> DEFINE todo == Changes(1, read, j.value, TRUE)
             q == [o EXCEPT !.phase = "run", !.todo = todo]
  <2>1. op' = [op EXCEPT ![w] = q]
    BY <1>1, <1>7
  <2> HIDE DEF todo
  <2>2. /\ Fields(q) /\ q.phase = "run" /\ q.job = o.job /\ q.was = o.was /\ q.alone = o.alone
    BY <1>6 DEF Fields
  <2> HIDE DEF q
  <2>3. op[w].phase \in ReadingPhases /\ q.job.does # "delete"
    BY <1>1, <1>6, <1>7, <2>2 DEF ReadingPhases
  <2>4. QED
    BY <1>1, <1>6, <2>1, <2>2, <2>3, GoesOnToRun
<1>8. CASE j.does \in {"find", "change"} /\ read = << >>
  <2> DEFINE q == Answer(o, "absent")
  <2>1. op' = [op EXCEPT ![w] = q]
    BY <1>1, <1>8
  <2>2. /\ Fields(q) /\ q.phase = "answered" /\ q.held = {} /\ q.says = "absent"
        /\ q.was = o.was /\ q.alone = o.alone
    BY AnswerIs
  <2> HIDE DEF q
  <2>3. InTurn(q)
    BY <2>2 DEF InTurn, ReadingPhases
  <2>4. Assembled(db) = {NoAggregate}
    <3>1. Present(db, 1) = {}
      BY <1>4, <1>8, RowIs DEF Present, RepositoryInv
    <3>2. QED
      BY <3>1 DEF Assembled
  <2>5. Undisturbed(q, db)
    BY <1>2, <1>6, <2>2, <2>4 DEF Undisturbed, ReadingPhases, TrueAnswer
  <2>6. QED
    BY <1>1, <2>1, <2>2, <2>3, <2>5, OneSessionSteps
<1>9. CASE j.does \in {"save", "delete"} /\ read = << >>
  <2> DEFINE todo == Changes(3, read, o.job.value, TRUE)
             q == [o EXCEPT !.phase = "run", !.read = << >>, !.todo = todo]
  <2>1. op' = [op EXCEPT ![w] = q]
    BY <1>1, <1>9 DEF Saving
  <2> HIDE DEF todo
  <2>2. /\ Fields(q) /\ q.phase = "run" /\ q.job = o.job /\ q.was = o.was /\ q.alone = o.alone
        /\ q.rows = o.rows
    BY <1>6 DEF Fields
  <2> HIDE DEF q
  <2>3. op[w].phase \in ReadingPhases
    BY <1>1 DEF ReadingPhases
  <2>4. QED
    BY <1>1, <1>4, <1>6, <2>1, <2>2, <2>3, GoesOnToRun
<1>10. CASE j.does # "saveRoot" /\ ~ (j.does \in {"find", "change"} /\ read = << >>)
              /\ ~ (j.does \in {"save", "delete"} /\ read = << >>)
  <2> DEFINE q == [o EXCEPT !.phase = "lines"]
  <2>1. op' = [op EXCEPT ![w] = q]
    BY <1>1, <1>10
  <2>2. /\ Fields(q) /\ q.phase = "lines" /\ q.job = o.job /\ q.was = o.was /\ q.alone = o.alone
        /\ q.rows = o.rows /\ q.read = o.read /\ q.held = o.held
    BY <1>6 DEF Fields
  <2> HIDE DEF q
  <2>3. InTurn(q)
    BY <1>2, <1>6, <1>10, <2>2 DEF InTurn
  <2>4. Undisturbed(q, db)
    BY <1>2, <1>3, <1>4, <1>6, <2>2 DEF Undisturbed
  <2>5. QED
    BY <1>1, <2>1, <2>2, <2>3, <2>4, OneSessionSteps
<1>11. QED
  BY <1>7, <1>8, <1>9, <1>10

\* The list read.
LEMMA ReadLinesSteps ==
    ASSUME RepositoryInv, NEW w \in Sessions, ReadLines(w)
    PROVE  RepositoryInv'
<1> DEFINE read == Joined(op[w].read, ReadIn(w, 2))
           o == [op[w] EXCEPT !.read = read, !.phase = "notes"]
<1>1. op[w].phase = "lines" /\ db' = db
  BY DEF ReadLines
<1>2. op' = [op EXCEPT ![w] = o]
  BY DEF ReadLines, RepositoryInv
<1>3. /\ op[w].held = {} /\ op[w].job.does \in {"find", "save", "change", "delete"}
      /\ Fields(op[w])
  BY <1>1, SessionIs DEF InTurn, ReadingPhases
<1>4. op[w].alone =>
         op[w].was = db /\ read = Part(db, {1, 2}) /\ (op[w].rows = 0 <=> db[RootRow] = NoRow)
  <2>1. ReadIn(w, 2) = Part(db, {2})
    BY <1>3, ReadInIs
  <2>2. Joined(Part(db, {1}), Part(db, {2})) = Part(db, {1, 2})
    <3>1. Joined(Part(db, {1}), Part(db, {2})) = Part(db, {1} \cup {2})
      BY JoinedIs
    <3>2. {1} \cup {2} = {1, 2}
      OBVIOUS
    <3>3. QED
      BY <3>1, <3>2
  <2>3. QED
    BY <1>1, <2>1, <2>2, SessionIs DEF Undisturbed, ReadingPhases
<1> HIDE DEF read
<1>5. /\ Fields(o) /\ o.phase = "notes" /\ o.read = read /\ o.held = op[w].held
      /\ o.job = op[w].job /\ o.rows = op[w].rows /\ o.was = op[w].was /\ o.alone = op[w].alone
  BY <1>3 DEF Fields
<1> HIDE DEF o
<1>6. InTurn(o)
  BY <1>3, <1>5 DEF InTurn
<1>7. Undisturbed(o, db)
  BY <1>4, <1>5 DEF Undisturbed
<1>8. QED
  BY <1>1, <1>2, <1>5, <1>6, <1>7, OneSessionSteps

\* The last table read, and what the three are read as.
LEMMA ReadNotesSteps ==
    ASSUME RepositoryInv, NEW w \in Sessions, ReadNotes(w)
    PROVE  RepositoryInv'
<1> DEFINE does == op[w].job.does
           read == Joined(op[w].read, ReadIn(w, 3))
<1>1. op[w].phase = "notes" /\ db' = db
  BY DEF ReadNotes
<1>2. PICK a \in Assembled(read) :
         op' = [op EXCEPT ![w] =
            CASE does = "find" -> [Answer(@, "found") EXCEPT !.found = a]
              [] does = "change" -> SavingChanges(@, a)
              [] does \in {"save", "delete"} -> Saving(@, read)]
  BY DEF ReadNotes
<1>3. /\ op[w].held = {} /\ op[w].job.does \in {"find", "save", "change", "delete"}
      /\ Fields(op[w]) /\ op[w].phase \in ReadingPhases
  BY <1>1, SessionIs DEF InTurn, ReadingPhases
<1>4. op[w].alone => op[w].was = db /\ (op[w].rows = 0 <=> db[RootRow] = NoRow)
  BY <1>1, SessionIs DEF Undisturbed, ReadingPhases
<1>5. op[w].alone => Assembled(read) = Assembled(db)
  <2>1. ReadIn(w, 3) = Part(db, {3})
    BY <1>3, ReadInIs
  <2>2. Joined(Part(db, {1, 2}), Part(db, {3})) = Part(db, {1, 2, 3})
    <3>1. Joined(Part(db, {1, 2}), Part(db, {3})) = Part(db, {1, 2} \cup {3})
      BY JoinedIs
    <3>2. {1, 2} \cup {3} = {1, 2, 3}
      OBVIOUS
    <3>3. QED
      BY <3>1, <3>2
  <2>3. op[w].alone => read = Part(db, {1, 2, 3})
    BY <1>1, <2>1, <2>2, SessionIs DEF Undisturbed, ReadingPhases
  <2>4. Assembled(Part(db, {1, 2, 3})) = Assembled(db)
    BY AssembledOfPart DEF RepositoryInv
  <2>5. QED
    BY <2>3, <2>4
<1> HIDE DEF read
<1>6. CASE does = "find"
  <2> DEFINE b == Answer(op[w], "found")
             o == [b EXCEPT !.found = a]
  <2>1. op' = [op EXCEPT ![w] = o]
    BY <1>2, <1>6 DEF RepositoryInv
  <2>2. /\ Fields(b) /\ b.phase = "answered" /\ b.held = {} /\ b.says = "found"
        /\ b.job = op[w].job /\ b.was = op[w].was /\ b.alone = op[w].alone
    BY AnswerIs
  <2> HIDE DEF b
  <2>3. /\ Fields(o) /\ o.phase = "answered" /\ o.held = {} /\ o.says = "found" /\ o.found = a
        /\ o.job = op[w].job /\ o.was = op[w].was /\ o.alone = op[w].alone
    BY <2>2 DEF Fields
  <2> HIDE DEF o
  <2>4. InTurn(o)
    BY <2>3 DEF InTurn, ReadingPhases
  <2>5. Undisturbed(o, db)
    BY <1>2, <1>4, <1>5, <2>3 DEF Undisturbed, ReadingPhases, TrueAnswer
  <2>6. QED
    BY <1>1, <2>1, <2>3, <2>4, <2>5, OneSessionSteps
<1>7. CASE does = "change"
  <2>1. op' = [op EXCEPT ![w] = SavingChanges(op[w], a)]
    BY <1>2, <1>7 DEF RepositoryInv
  <2>2. CASE Reordered(a, op[w].job.value)
    <3> DEFINE o == [op[w] EXCEPT !.phase = "again", !.read = << >>, !.before = a]
    <3>1. op' = [op EXCEPT ![w] = o]
      BY <2>1, <2>2 DEF SavingChanges
    <3>2. /\ Fields(o) /\ o.phase = "again" /\ o.held = {} /\ o.job = op[w].job
          /\ o.was = op[w].was /\ o.alone = op[w].alone
      BY <1>3 DEF Fields
    <3> HIDE DEF o
    <3>3. InTurn(o)
      BY <1>7, <3>2 DEF InTurn
    <3>4. Undisturbed(o, db)
      BY <1>4, <3>2 DEF Undisturbed
    <3>5. QED
      BY <1>1, <3>1, <3>2, <3>3, <3>4, OneSessionSteps
  <2>3. CASE ~ Reordered(a, op[w].job.value)
    <3> DEFINE todo == Changes(3, Apart(a), op[w].job.value, FALSE)
               o == [op[w] EXCEPT !.phase = "run", !.read = << >>, !.todo = todo]
    <3>1. op' = [op EXCEPT ![w] = o]
      BY <2>1, <2>3 DEF SavingChanges
    <3> HIDE DEF todo
    <3>2. /\ Fields(o) /\ o.phase = "run" /\ o.job = op[w].job
          /\ o.was = op[w].was /\ o.alone = op[w].alone
      BY <1>3 DEF Fields
    <3> HIDE DEF o
    <3>3. o.job.does # "delete"
      BY <1>7, <3>2
    <3>4. QED
      BY <1>1, <1>3, <3>1, <3>2, <3>3, GoesOnToRun
  <2>4. QED
    BY <2>2, <2>3
<1>8. CASE does \in {"save", "delete"}
  <2> DEFINE todo == Changes(3, read, op[w].job.value, TRUE)
             o == [op[w] EXCEPT !.phase = "run", !.read = << >>, !.todo = todo]
  <2>1. op' = [op EXCEPT ![w] = Saving(op[w], read)]
    BY <1>2, <1>8 DEF RepositoryInv
  <2>2. op' = [op EXCEPT ![w] = o]
    BY <2>1 DEF Saving
  <2> HIDE DEF todo
  <2>3. /\ Fields(o) /\ o.phase = "run" /\ o.job = op[w].job /\ o.rows = op[w].rows
        /\ o.was = op[w].was /\ o.alone = op[w].alone
    BY <1>3 DEF Fields
  <2> HIDE DEF o
  <2>4. QED
    BY <1>1, <1>3, <1>4, <2>2, <2>3, GoesOnToRun
<1>9. QED
  BY <1>3, <1>6, <1>7, <1>8

\* The list read again.
LEMMA ReadAgainSteps ==
    ASSUME RepositoryInv, NEW w \in Sessions, ReadAgain(w)
    PROVE  RepositoryInv'
<1>1. op[w].phase = "again" /\ db' = db
  BY DEF ReadAgain
<1>2. \E todo : op' = [op EXCEPT ![w].phase = "run", ![w].before = NoAggregate, ![w].todo = todo]
  BY DEF ReadAgain
<1>3. PICK todo :
         op' = [op EXCEPT ![w].phase = "run", ![w].before = NoAggregate, ![w].todo = todo]
  BY <1>2
<1> DEFINE o == [op[w] EXCEPT !.phase = "run", !.before = NoAggregate, !.todo = todo]
<1>4. op' = [op EXCEPT ![w] = o]
  BY <1>3 DEF RepositoryInv
<1>5. /\ Fields(op[w]) /\ op[w].phase \in ReadingPhases /\ op[w].job.does = "change"
  BY <1>1, SessionIs DEF InTurn, ReadingPhases
<1>6. /\ Fields(o) /\ o.phase = "run" /\ o.job = op[w].job
      /\ o.was = op[w].was /\ o.alone = op[w].alone
  BY <1>5 DEF Fields
<1> HIDE DEF o
<1>7. o.job.does # "delete"
  BY <1>5, <1>6
<1>8. QED
  BY <1>1, <1>4, <1>5, <1>6, <1>7, GoesOnToRun

\* A statement run.
LEMMA RunSteps ==
    ASSUME RepositoryInv, NEW w \in Sessions, Run(w)
    PROVE  RepositoryInv'
<1> DEFINE s == Head(op[w].todo)
           seen == Seen(w)
           written == Written(s, seen)
           mine == [r \in Rows |-> IF r \in DOMAIN written THEN written[r] ELSE op[w].mine[r]]
           held == op[w].held \cup DOMAIN written
           todo == Tail(op[w].todo)
           o == [op[w] EXCEPT !.todo = todo, !.held = held, !.mine = mine]
<1>1. /\ op[w].phase = "run" /\ db' = db
      /\ op' = [op EXCEPT ![w] = IF Refused(s, seen) THEN Answer(op[w], "refused") ELSE o]
  BY DEF Run, RepositoryInv
<1>2. Fields(op[w]) /\ Undisturbed(op[w], db)
  BY SessionIs
<1> HIDE DEF s, seen, mine, held, todo
<1>3. CASE Refused(s, seen)
  BY <1>1, <1>3, AnswersOtherwise
<1>4. CASE ~ Refused(s, seen)
  <2>1. op' = [op EXCEPT ![w] = o]
    BY <1>1, <1>4
  <2>2. /\ Fields(o) /\ o.phase = "run" /\ o.job = op[w].job /\ o.rows = op[w].rows
        /\ o.was = op[w].was /\ o.alone = op[w].alone
    BY <1>1, <1>2 DEF Fields
  <2> HIDE DEF o
  <2>3. InTurn(o) /\ Undisturbed(o, db)
    BY <1>1, <1>2, <2>2 DEF InTurn, Undisturbed, ReadingPhases
  <2>4. QED
    BY <1>1, <2>1, <2>2, <2>3, OneSessionSteps
<1>5. QED
  BY <1>3, <1>4

\* What is committed disturbs the others, unless it is what there was.
LEMMA CommitSteps ==
    ASSUME RepositoryInv, NEW w \in Sessions, Commit(w) \/ LoseAnswer(w)
    PROVE  RepositoryInv'
<1>1. PICK says \in {"done", "fault"} :
         op' = Disturbed([op EXCEPT ![w] = Answer(@, says)], w, Seen(w))
  BY DEF Commit, LoseAnswer
<1> DEFINE after == Seen(w)
           o == Answer(op[w], says)
           ops == [op EXCEPT ![w] = o]
<1>2. op[w].phase = "run" /\ db' = after
  BY DEF Commit, LoseAnswer
<1>3. after = [r \in Rows |-> after[r]]
  BY DEF Seen
<1>4. /\ ops[w] = o /\ \A v \in Sessions \ {w} : ops[v] = op[v]
      /\ ops = [op EXCEPT ![w] = Answer(@, says)]
  BY DEF RepositoryInv
<1>5. /\ Fields(o) /\ o.phase = "answered" /\ o.held = {} /\ o.says = says
      /\ o.job = op[w].job /\ o.rows = op[w].rows /\ o.was = op[w].was /\ o.alone = op[w].alone
  BY AnswerIs
<1> HIDE DEF after, o, ops
<1>6. op' = Disturbed(ops, w, after)
  BY <1>1, <1>4 DEF after
<1>7. op' = [v \in Sessions |-> op'[v]]
  BY <1>6 DEF Disturbed
<1>8. op'[w] = o
  BY <1>4, <1>6 DEF Disturbed
<1>9. InTurn(o) /\ Undisturbed(o, db')
  BY <1>2, <1>5, SessionIs DEF InTurn, Undisturbed, TrueAnswer, ReadingPhases
<1>10. ASSUME NEW v \in Sessions, v # w
       PROVE  Fields(op'[v]) /\ InTurn(op'[v]) /\ Undisturbed(op'[v], db')
  <2> DEFINE p == op[v]
             q == [p EXCEPT !.alone = FALSE, !.was = << >>]
  <2>1. op'[v] = IF after = db \/ p.phase = "idle" THEN p ELSE q
    <3>1. op'[v] = IF v = w \/ after = db \/ ops[v].phase = "idle" THEN ops[v]
                   ELSE [ops[v] EXCEPT !.alone = FALSE, !.was = << >>]
      BY <1>6 DEF Disturbed
    <3>2. ops[v] = p
      BY <1>4, <1>10
    <3>3. QED
      BY <1>10, <3>1, <3>2
  <2>2. Fields(p) /\ InTurn(p) /\ Undisturbed(p, db)
    BY SessionIs
  <2> HIDE DEF p
  <2>3. CASE after = db
    BY <1>2, <2>1, <2>2, <2>3
  <2>4. CASE p.phase = "idle"
    BY <2>1, <2>2, <2>4 DEF Undisturbed, ReadingPhases
  <2>5. CASE ~ (after = db \/ p.phase = "idle")
    <3>1. /\ Fields(q) /\ q.phase = p.phase /\ q.job = p.job /\ q.held = p.held
          /\ q.alone = FALSE
      BY <2>2 DEF Fields
    <3>2. op'[v] = q
      BY <2>1, <2>5
    <3> HIDE DEF q
    <3>3. QED
      BY <2>2, <3>1, <3>2 DEF InTurn, Undisturbed
  <2>6. QED
    BY <2>3, <2>4, <2>5
<1>11. db' = [r \in Rows |-> db'[r]]
  BY <1>2, <1>3
<1>12. QED
  BY <1>5, <1>7, <1>8, <1>9, <1>10, <1>11 DEF RepositoryInv

\* An answer taken.
LEMMA ReturnSteps ==
    ASSUME RepositoryInv, NEW w \in Sessions, Return(w)
    PROVE  RepositoryInv'
<1>1. op' = [op EXCEPT ![w] = Rest] /\ db' = db
  BY DEF Return
<1>2. Fields(Rest) /\ InTurn(Rest) /\ Undisturbed(Rest, db)
  BY RestIs DEF InTurn, Undisturbed, ReadingPhases
<1>3. QED
  BY <1>1, <1>2, OneSessionSteps

\* Every step keeps it.
LEMMA OneStepKeepsAnswers == RepositoryInv /\ [Next]_vars => RepositoryInv'
<1> SUFFICES ASSUME RepositoryInv, [Next]_vars PROVE RepositoryInv'
  OBVIOUS
<1>1. CASE UNCHANGED vars
  BY <1>1 DEF vars, RepositoryInv
<1>2. CASE Next
  <2>1. PICK w \in Sessions : \/ \E j \in May(w) : Ask(w, j)
                              \/ Step(w) \/ Fail(w) \/ LoseAnswer(w)
    BY <1>2 DEF Next
  <2>2. CASE \E j \in May(w) : Ask(w, j)
    BY <2>2, AskSteps
  <2>3. CASE ReadRoot(w)
    BY <2>3, ReadRootSteps
  <2>4. CASE ReadLines(w)
    BY <2>4, ReadLinesSteps
  <2>5. CASE ReadNotes(w)
    BY <2>5, ReadNotesSteps
  <2>6. CASE ReadAgain(w)
    BY <2>6, ReadAgainSteps
  <2>7. CASE Run(w)
    BY <2>7, RunSteps
  <2>8. CASE Commit(w) \/ LoseAnswer(w)
    BY <2>8, CommitSteps
  <2>9. CASE Return(w)
    BY <2>9, ReturnSteps
  <2>10. CASE Fail(w) \/ \E v \in Sessions : Deadlocked(w, v)
    <3>1. PICK says \in {"fault", "deadlock"} : op' = [op EXCEPT ![w] = Answer(@, says)]
      BY <2>10 DEF Fail, Deadlocked
    <3>2. op' = [op EXCEPT ![w] = Answer(op[w], says)] /\ db' = db
      BY <2>10, <3>1 DEF Fail, Deadlocked, RepositoryInv
    <3>3. says \in {"refused", "fault", "deadlock"}
      BY <3>1
    <3>4. QED
      BY <3>2, <3>3, AnswersOtherwise
  <2>11. QED
    BY <2>1, <2>2, <2>3, <2>4, <2>5, <2>6, <2>7, <2>8, <2>9, <2>10 DEF Step
<1>3. QED
  BY <1>1, <1>2

\* It holds at first.
LEMMA StartsTrue == Init => RepositoryInv
<1> SUFFICES ASSUME Init PROVE RepositoryInv
  OBVIOUS
<1>1. db = [r \in Rows |-> db[r]]
  <2>1. PICK a : db = Stored(a)
    BY DEF Init
  <2> DEFINE kept == Apart(a)
  <2>2. db = [r \in Rows |-> IF r \in DOMAIN kept THEN kept[r] ELSE NoRow]
    BY <2>1 DEF Stored
  <2> HIDE DEF kept
  <2>3. QED
    BY <2>2
<1>2. op = [w \in Sessions |-> op[w]] /\ \A w \in Sessions : op[w] = Rest
  BY DEF Init
<1>3. InTurn(Rest) /\ Undisturbed(Rest, db)
  BY RestIs DEF InTurn, Undisturbed, ReadingPhases
<1>4. QED
  BY <1>1, <1>2, <1>3, RestIs DEF RepositoryInv

\* What is answered of an aggregate nobody else committed to meanwhile is true
\* of what was stored when it was asked, though a statement per table read it:
\* the aggregate found is it, none is found only where there was none, and a
\* deletion says whether there was one.
THEOREM AnswersAreAlwaysTrue == Spec => []AnswersAreTrue
<1>1. RepositoryInv => AnswersAreTrue
  <2>1. SUFFICES ASSUME RepositoryInv, NEW w \in Sessions, Alone(w)
                 PROVE  TrueAnswer(op[w])
    BY DEF AnswersAreTrue, TrueAnswer, Was
  <2>2. QED
    BY <2>1, SessionIs DEF Alone, Undisturbed
<1>2. QED
  BY <1>1, StartsTrue, OneStepKeepsAnswers, PTL DEF Spec

-----------------------------------------------------------------------------
(* What the sessions hold is of its type. *)

FitsValue(r, v) == IF r[1] = 3 THEN v = NoRow ELSE v \in Values

StatementIs(x) ==
    /\ x.does \in {"insert", "delete", "update", "upsert"}
    /\ DOMAIN x.rows # {} /\ DOMAIN x.rows \subseteq Rows
    /\ x.rows = [r \in DOMAIN x.rows |-> x.rows[r]]
    /\ x.does \in {"insert", "upsert"} => \A r \in DOMAIN x.rows : x.rows[r] \in RowContents(r)
    /\ x.does = "update" => \A r \in DOMAIN x.rows :
          \/ x.rows[r] \in RowContents(r)
          \/ x.rows[r].position = Ignored /\ FitsValue(r, x.rows[r].value)
    /\ x.does = "upsert" => DOMAIN x.rows = {RootRow}

Statements(s) == IsList(s) /\ \A x \in Range(s) : StatementIs(x)

SessionTyped(o) ==
    /\ o.phase \in {"idle", "root", "lines", "notes", "again", "run", "answered"}
    /\ o.phase # "idle" => o.job \in Jobs
    /\ KeptRows(o.read)
    /\ o.before \in Aggregates \cup {NoAggregate}
    /\ Statements(o.todo)
    /\ o.held \subseteq Rows
    /\ o.held # {} => o.phase = "run"
    /\ Tables(o.mine)
    /\ o.says \in {"none", "found", "absent", "done", "refused", "fault", "deadlock"}

\* What an operation is asked with.
LEMMA JobIs ==
    ASSUME NEW j \in Jobs
    PROVE  /\ j = [does |-> j.does, value |-> j.value]
           /\ j.does \in {"save", "change", "insert", "saveRoot", "find", "delete"}
           /\ j.does \in {"save", "change", "insert", "saveRoot"} => j.value \in Aggregates
           /\ j.does \in {"find", "delete"} => j.value = NoAggregate
           /\ j.value \in Aggregates \cup {NoAggregate}
BY DEF Jobs

\* Nothing read, nothing to run and nothing written are of their types.
LEMMA EmptyIs ==
    /\ KeptRows(<< >>) /\ Statements(<< >>) /\ IsList(<< >>) /\ Range(<< >>) = {}
    /\ Tables([r \in Rows |-> NoRow])
<1>1. << >> \in Seq({}) /\ DOMAIN << >> = {} /\ << >> = [r \in {} |-> << >>[r]]
  OBVIOUS
<1>2. Range(<< >>) = {}
  BY <1>1 DEF Range
<1>3. Tables([r \in Rows |-> NoRow])
  BY DEF Tables
<1>4. QED
  BY <1>1, <1>2, <1>3 DEF KeptRows, Statements, IsList

\* Wherever a list is placed, the column holds the positions.
LEMMA PlacedFits ==
    ASSUME NEW a \in Aggregates, NEW kept
    PROVE  Placed(kept, a) \in [1..Len(a.list) -> Lowest..Highest]
<1> DEFINE n == Len(a.list)
           known == {i \in DOMAIN a.list : Line(a.list[i].key) \in DOMAIN kept}
           positions == [i \in DOMAIN a.list |->
                            IF i \in known THEN kept[Line(a.list[i].key)].position ELSE 0]
<1>1. n \in Nat /\ n <= Cardinality(Elements) /\ DOMAIN a.list = 1..n
  BY AggregateIs
<1>2. positions = [i \in 1..n |-> positions[i]]
  BY <1>1
<1>3. Placed(kept, a) = PlaceKeeping(positions, LongestIncreasing(positions, known))
  BY DEF Placed, PlaceList
<1> HIDE DEF positions, known, n
<1>4. Placed(kept, a) \in [1..n -> Lowest..Highest]
  BY <1>1, <1>2, <1>3, PlaceKeepingFits
<1>5. QED
  BY <1>4 DEF n

\* What is to be stored is contents of the aggregate's rows.
LEMMA ToBeIs ==
    ASSUME NEW a \in Aggregates \cup {NoAggregate}, NEW kept, NEW placed \in BOOLEAN
    PROVE  LET f == ToBe(kept, a, placed) IN
           /\ f = [r \in RowsOf(a) |-> f[r]]
           /\ \A r \in RowsOf(a) : f[r] \in RowContents(r)
           /\ a # NoAggregate =>
                 /\ f[RootRow] = Content(a.name, 0)
                 /\ \A i \in DOMAIN a.list :
                       f[Line(a.list[i].key)] =
                          Content(a.list[i].value,
                                  IF placed THEN Placed(kept, a)[i] ELSE Numbered(Len(a.list))[i])
           /\ \A e \in Elements : Note(e) \in RowsOf(a) => f[Note(e)] = Content(NoRow, 0)
<1> DEFINE p == IF a = NoAggregate THEN << >>
                ELSE IF placed THEN Placed(kept, a) ELSE Numbered(Len(a.list))
           f == TakenApart(a, p)
<1>1. ToBe(kept, a, placed) = f
  <2>1. CASE a = NoAggregate
    BY <2>1 DEF ToBe, Apart
  <2>2. CASE a # NoAggregate
    BY <2>2 DEF ToBe, Apart
  <2>3. QED
    BY <2>1, <2>2
<1>2. a # NoAggregate => p \in [1..Len(a.list) -> Lowest..Highest]
  <2>1. SUFFICES ASSUME a # NoAggregate PROVE p \in [1..Len(a.list) -> Lowest..Highest]
    OBVIOUS
  <2>2. Placed(kept, a) \in [1..Len(a.list) -> Lowest..Highest]
    BY <2>1, PlacedFits
  <2>3. Numbered(Len(a.list)) \in [1..Len(a.list) -> Lowest..Highest]
    BY <2>1, AggregateIs, NumberedIs
  <2>4. QED
    BY <2>1, <2>2, <2>3
<1>3. a # NoAggregate => \A i : p[i] = IF placed THEN Placed(kept, a)[i] ELSE Numbered(Len(a.list))[i]
  OBVIOUS
<1> HIDE DEF p
<1>4. /\ f = [r \in RowsOf(a) |-> f[r]]
      /\ a # NoAggregate =>
            /\ f[RootRow] = Content(a.name, 0)
            /\ \A i \in DOMAIN a.list : f[Line(a.list[i].key)] = Content(a.list[i].value, p[i])
      /\ \A e \in Elements : Note(e) \in RowsOf(a) => f[Note(e)] = Content(NoRow, 0)
  BY TakenApartIs
<1> HIDE DEF f
<1>5. ASSUME NEW r \in RowsOf(a) PROVE f[r] \in RowContents(r)
  <2>1. r \in Rows /\ a \in Aggregates
    BY <1>5, RowsOfAre DEF RowsOf
  <2>2. a.name \in Values /\ DOMAIN a.list = 1..Len(a.list) /\ a # NoAggregate
        /\ \A i \in DOMAIN a.list : a.list[i].value \in Values
    BY <2>1, AggregateIs
  <2>3. CASE r = RootRow
    BY <1>4, <2>2, <2>3, RowKinds, ContentsAre
  <2>4. CASE r[1] = 2 /\ r[2] \in Elements /\ r = Line(r[2])
    <3>1. PICK i \in DOMAIN a.list : a.list[i].key = r[2]
      BY <1>5, <2>2, <2>4, RowsOfAre
    <3>2. f[r] = Content(a.list[i].value, p[i]) /\ p[i] \in Lowest..Highest
      BY <1>2, <1>4, <2>2, <2>4, <3>1
    <3>3. QED
      BY <2>2, <2>4, <3>2, ContentsAre
  <2>5. CASE r[1] = 3 /\ r[2] \in Elements /\ r = Note(r[2])
    BY <1>4, <1>5, <2>5, ContentsAre
  <2>6. QED
    BY <2>1, <2>3, <2>4, <2>5, RowKinds
<1>6. QED
  BY <1>1, <1>3, <1>4, <1>5

\* A save's statements are statements.
LEMMA ChangesTyped ==
    ASSUME NEW kept, KeptRows(kept), NEW a \in Aggregates \cup {NoAggregate},
           NEW placed \in BOOLEAN, NEW tables \in {1, 3}
    PROVE  Statements(Changes(tables, kept, a, placed))
<1> DEFINE c == Changes(tables, kept, a, placed)
           f == ToBe(kept, a, placed)
<1>1. /\ Orderly(c)
      /\ \A x \in Range(c) : IsDeletion(x, kept, a) \/ IsWrite(x, kept, a, placed)
  BY ChangesAre
<1> HIDE DEF c
<1>2. \A r \in RowsOf(a) : f[r] \in RowContents(r)
  BY ToBeIs
<1>3. DOMAIN kept \subseteq Rows /\ RowsOf(a) \subseteq Rows
  BY RowsOfAre DEF KeptRows
<1>4. ASSUME NEW x \in Range(c) PROVE StatementIs(x)
  <2>1. CASE IsDeletion(x, kept, a)
    BY <1>3, <2>1 DEF IsDeletion, Of, StatementIs
  <2>2. CASE IsInsertion(x, kept, a, placed)
    <3>1. x.does = "insert" /\ DOMAIN x.rows # {} /\ DOMAIN x.rows \subseteq RowsOf(a)
          /\ x.rows = [r \in DOMAIN x.rows |-> f[r]]
      BY <2>2 DEF IsInsertion, Of
    <3>2. \A r \in DOMAIN x.rows : x.rows[r] = f[r]
      BY <3>1
    <3>3. x.rows = [r \in DOMAIN x.rows |-> x.rows[r]]
      BY <3>1
    <3>4. QED
      BY <1>2, <1>3, <3>1, <3>2, <3>3 DEF StatementIs
  <2>3. CASE IsUpdate(x, kept, a, placed)
    <3>1. PICK r \in RowsOf(a) : x = Update(r, f, placed)
      BY <2>3 DEF IsUpdate
    <3> DEFINE b == Content(f[r].value, IF placed THEN f[r].position ELSE Ignored)
               rows == [q \in {r} |-> b]
    <3>2. x = [does |-> "update", rows |-> rows]
      BY <3>1 DEF Update, Statement
    <3>3. DOMAIN rows = {r} /\ rows[r] = b /\ rows = [q \in DOMAIN rows |-> rows[q]]
      OBVIOUS
    <3> HIDE DEF rows
    <3>4. x.does = "update" /\ x.rows = rows
      BY <3>2
    <3>5. f[r] \in RowContents(r) /\ f[r] = Content(f[r].value, f[r].position)
      BY <1>2, ContentsAre
    <3>6. b \in RowContents(r) \/ (b.position = Ignored /\ FitsValue(r, b.value))
      <4>1. CASE placed
        BY <3>5, <4>1
      <4>2. CASE ~ placed
        <5>1. b.position = Ignored /\ b.value = f[r].value
          BY <4>2 DEF Content
        <5>2. FitsValue(r, f[r].value)
          BY <3>5, ContentsAre DEF FitsValue
        <5>3. QED
          BY <5>1, <5>2
      <4>3. QED
        BY <4>1, <4>2
    <3> HIDE DEF b
    <3>7. QED
      BY <1>3, <3>3, <3>4, <3>6 DEF StatementIs
  <2>4. QED
    BY <1>1, <2>1, <2>2, <2>3 DEF IsWrite
<1>5. QED
  BY <1>1, <1>4 DEF Statements, Orderly, c

\* insert: every row of the aggregate, numbered, the tables in turn.
LEMMA InsertingIs ==
    ASSUME NEW a \in Aggregates
    PROVE  LET c == Inserting(a).todo IN
           /\ Inserting(a).phase = "run"
           /\ Orderly(c) /\ Covered(c) = RowsOf(a) /\ Statements(c)
           /\ \A x \in Range(c) :
                 x.does = "insert" /\ x.rows = [r \in DOMAIN x.rows |-> Apart(a)[r]]
<1> DEFINE I(t) == InsertRows(RowsIn(t, a), Apart(a))
           Ins(x, t) == /\ Of(x, "insert", In(t, RowsOf(a)))
                        /\ x.rows = [r \in DOMAIN x.rows |-> Apart(a)[r]]
           c2 == I(1) \o I(2)
           c3 == c2 \o I(3)
<1>1. Inserting(a).phase = "run" /\ Inserting(a).todo = c3
  BY DEF Inserting
<1>2. ASSUME NEW t \in {1, 2, 3}
      PROVE  /\ Orderly(I(t)) /\ Covered(I(t)) = In(t, RowsOf(a))
             /\ \A x \in Range(I(t)) : Ins(x, t)
  <2>1. IsList(RowsIn(t, a)) /\ IsInjective(RowsIn(t, a)) /\ Range(RowsIn(t, a)) = In(t, RowsOf(a))
    BY RowsInAre DEF In
  <2>2. InTable(Range(RowsIn(t, a)), t)
    BY <2>1 DEF In, InTable
  <2>3. t \in Int
    OBVIOUS
  <2>4. /\ Orderly(I(t)) /\ Covered(I(t)) = Range(RowsIn(t, a))
        /\ \A x \in Range(I(t)) :
              Of(x, "insert", Range(RowsIn(t, a))) /\ x = Statement("insert", x.rows)
                 /\ x.rows = [r \in DOMAIN x.rows |-> Apart(a)[r]]
    BY <2>1, <2>2, <2>3, InsertRowsAre
  <2>5. QED
    BY <2>1, <2>4
<1> HIDE DEF I
<1>3. \A x, y : \A t, u \in {1, 2, 3} : t < u /\ Ins(x, t) /\ Ins(y, u) => Apart2(x, y) /\ Before(x, y)
  BY DEF Of, In, Apart2, Before
<1>4. \A x : \A t \in {1, 2, 3} : Ins(x, t) =>
         /\ x.does = "insert" /\ DOMAIN x.rows # {} /\ DOMAIN x.rows \subseteq RowsOf(a)
         /\ x.rows = [r \in DOMAIN x.rows |-> Apart(a)[r]]
  BY DEF Of, In
<1> HIDE DEF Ins
<1>5. /\ Orderly(c2) /\ Covered(c2) = In(1, RowsOf(a)) \cup In(2, RowsOf(a))
      /\ Range(c2) = Range(I(1)) \cup Range(I(2))
  <2>1. \A x \in Range(I(1)), y \in Range(I(2)) : Apart2(x, y) /\ Before(x, y)
    BY <1>2, <1>3
  <2>2. Orderly(I(1)) /\ Orderly(I(2)) /\ Covered(I(1)) = In(1, RowsOf(a)) /\ Covered(I(2)) = In(2, RowsOf(a))
    BY <1>2
  <2>3. QED
    BY <2>1, <2>2, OrderlyConcat
<1> HIDE DEF c2
<1>6. /\ Orderly(c3) /\ Covered(c3) = Covered(c2) \cup In(3, RowsOf(a))
      /\ Range(c3) = Range(c2) \cup Range(I(3))
  <2>1. \A x \in Range(c2), y \in Range(I(3)) : Apart2(x, y) /\ Before(x, y)
    BY <1>2, <1>3, <1>5
  <2>2. Orderly(I(3)) /\ Covered(I(3)) = In(3, RowsOf(a))
    BY <1>2
  <2>3. QED
    BY <1>5, <2>1, <2>2, OrderlyConcat
<1>7. Covered(c3) = RowsOf(a)
  <2>1. \A r \in RowsOf(a) : r[1] \in {1, 2, 3}
    BY RowsOfAre, RowKinds
  <2>2. QED
    BY <1>5, <1>6, <2>1 DEF In
<1> HIDE DEF c3
<1>8. \A x \in Range(c3) :
         /\ x.does = "insert" /\ DOMAIN x.rows # {} /\ DOMAIN x.rows \subseteq RowsOf(a)
         /\ x.rows = [r \in DOMAIN x.rows |-> Apart(a)[r]]
  BY <1>2, <1>4, <1>5, <1>6
<1>9. Statements(c3)
  <2>1. Apart(a) = ToBe(<< >>, a, FALSE)
    BY DEF ToBe
  <2>2. \A r \in RowsOf(a) : Apart(a)[r] \in RowContents(r)
    <3>1. FALSE \in BOOLEAN /\ a \in Aggregates \cup {NoAggregate}
      OBVIOUS
    <3>2. \A r \in RowsOf(a) : ToBe(<< >>, a, FALSE)[r] \in RowContents(r)
      BY <3>1, ToBeIs
    <3>3. QED
      BY <2>1, <3>2
  <2>3. ASSUME NEW x \in Range(c3) PROVE StatementIs(x)
    <3>1. /\ x.does = "insert" /\ DOMAIN x.rows # {} /\ DOMAIN x.rows \subseteq RowsOf(a)
          /\ x.rows = [r \in DOMAIN x.rows |-> Apart(a)[r]]
      BY <1>8
    <3>2. \A r \in DOMAIN x.rows : x.rows[r] = Apart(a)[r]
      BY <3>1
    <3>3. x.rows = [r \in DOMAIN x.rows |-> x.rows[r]]
      BY <3>1
    <3>4. QED
      BY <2>2, <3>1, <3>2, <3>3, RowsOfAre DEF StatementIs
  <2>4. QED
    BY <1>6, <2>3 DEF Statements, Orderly
<1>10. QED
  BY <1>1, <1>6, <1>7, <1>8, <1>9

\* So are those an operation starts with.
LEMMA StartingTyped ==
    ASSUME NEW j \in Jobs
    PROVE  Statements(Starting(j).todo) /\ Starting(j).phase \in {"root", "run"}
<1>1. CASE j.does = "insert"
  BY <1>1, JobIs, InsertingIs DEF Starting
<1>2. CASE j.does = "saveRoot"
  <2> DEFINE c == Content(j.value.name, 0)
             rows == [r \in {RootRow} |-> c]
             x == Statement("upsert", rows)
  <2>1. j.value \in Aggregates /\ j.value.name \in Values
    BY <1>2, JobIs, AggregateIs
  <2>2. Starting(j) = SavingRoot(j.value)
    BY <1>2 DEF Starting
  <2>3. SavingRoot(j.value).todo = (IF mapping.alsoUnique THEN << >> ELSE <<x>>)
        /\ SavingRoot(j.value).phase \in {"root", "run"}
    BY DEF SavingRoot
  <2>4. c \in RowContents(RootRow)
    BY <2>1, RowKinds, ContentsAre
  <2>5. DOMAIN rows = {RootRow} /\ rows[RootRow] = c /\ rows = [r \in DOMAIN rows |-> rows[r]]
    OBVIOUS
  <2> HIDE DEF rows, c
  <2>6. x.does = "upsert" /\ x.rows = rows
    BY DEF Statement
  <2>7. StatementIs(x)
    BY <2>4, <2>5, <2>6, RowKinds DEF StatementIs
  <2> HIDE DEF x
  <2>8. IsList(<<x>>) /\ Range(<<x>>) = {x}
    <3>1. <<x>> \in Seq({x}) /\ DOMAIN <<x>> = {1} /\ <<x>>[1] = x
      OBVIOUS
    <3>2. Range(<<x>>) = {x}
      BY <3>1 DEF Range
    <3>3. QED
      BY <3>1, <3>2 DEF IsList
  <2>9. Statements(<<x>>)
    BY <2>7, <2>8 DEF Statements
  <2>10. QED
    BY <2>2, <2>3, <2>9, EmptyIs
<1>3. CASE j.does \notin {"insert", "saveRoot"}
  <2>1. Starting(j) = [phase |-> "root", todo |-> << >>]
    BY <1>3 DEF Starting
  <2>2. QED
    BY <2>1, EmptyIs
<1>4. QED
  BY <1>1, <1>2, <1>3

-----------------------------------------------------------------------------
(* No session, whatever it writes beside another, leaves a row without its *)
(* holder.                                                                 *)

SeenOf(o, rows) == [r \in Rows |-> IF r \in o.held THEN o.mine[r] ELSE rows[r]]

\* Neither holds what the other does, nor deletes what holds a row of its.
NotAcross(p, q) ==
    /\ p.held \cap q.held = {}
    /\ \A r \in p.held : \A h \in Above(r) \cap q.held : p.mine[r] # NoRow => q.mine[h] # NoRow

Sound(ops, rows) ==
    /\ Closed(rows)
    /\ \A w \in Sessions : ops[w].held \subseteq Rows /\ Closed(SeenOf(ops[w], rows))
    /\ \A v, w \in Sessions : v # w => NotAcross(ops[v], ops[w])

\* A session that lets go of what it held leaves the others sound.
LEMMA SoundQuiet ==
    ASSUME NEW ops, ops = [v \in Sessions |-> ops[v]], NEW rows, Sound(ops, rows),
           NEW w \in Sessions, NEW o, o.held = {}
    PROVE  Sound([ops EXCEPT ![w] = o], rows)
<1> DEFINE after == [ops EXCEPT ![w] = o]
<1>1. after[w] = o /\ \A v \in Sessions \ {w} : after[v] = ops[v]
  OBVIOUS
<1> HIDE DEF after
<1>2. Closed(SeenOf(o, rows))
  <2>1. \A r \in Rows : SeenOf(o, rows)[r] = rows[r]
    BY DEF SeenOf
  <2>2. \A r \in Rows : Above(r) \subseteq Rows
    BY AboveIs
  <2>3. QED
    BY <2>1, <2>2 DEF Sound, Closed
<1>3. \A v \in Sessions : NotAcross(o, ops[v]) /\ NotAcross(ops[v], o)
  BY DEF NotAcross
<1>4. QED
  BY <1>1, <1>2, <1>3 DEF Sound, after

\* The rows a statement writes, and what with.
LEMMA StatementDoes ==
    ASSUME NEW s, StatementIs(s), NEW seen, Tables(seen)
    PROVE  LET written == Written(s, seen) IN
           /\ DOMAIN written \subseteq Rows
           /\ \A r \in DOMAIN written : written[r] = NoRow \/ written[r] \in RowContents(r)
           /\ s.does = "delete" =>
                 /\ DOMAIN written = {q \in DOMAIN s.rows \cup Beneath(DOMAIN s.rows) : seen[q] # NoRow}
                 /\ \A r \in DOMAIN written : written[r] = NoRow
           /\ s.does # "delete" => \A r \in DOMAIN written : written[r] # NoRow
           /\ s.does = "update" =>
                 /\ DOMAIN written = {r \in DOMAIN s.rows : seen[r] # NoRow}
                 /\ \A r \in DOMAIN written :
                       written[r] = IF s.rows[r].position = Ignored
                                    THEN Content(s.rows[r].value, seen[r].position) ELSE s.rows[r]
           /\ s.does \in {"insert", "upsert"} => written = s.rows
<1> DEFINE rows == DOMAIN s.rows
           there == {r \in rows : seen[r] # NoRow}
           to(r) == IF s.rows[r].position = Ignored
                    THEN [seen[r] EXCEPT !.value = s.rows[r].value] ELSE s.rows[r]
           written == Written(s, seen)
<1>1. rows \subseteq Rows /\ s.does \in {"insert", "delete", "update", "upsert"}
  BY DEF StatementIs
<1>2. CASE s.does = "delete"
  <2> DEFINE D == {q \in rows \cup Beneath(rows) : seen[q] # NoRow}
  <2>1. written = [r \in D |-> NoRow]
    BY <1>2 DEF Written
  <2>2. D \subseteq Rows
    BY <1>1 DEF Beneath
  <2> HIDE DEF D, written
  <2>3. DOMAIN written = D /\ \A r \in D : written[r] = NoRow
    BY <2>1
  <2>4. QED
    BY <1>2, <2>2, <2>3 DEF D, written
<1>3. CASE s.does = "update"
  <2>1. written = [r \in there |-> to(r)]
    BY <1>3 DEF Written
  <2> HIDE DEF written
  <2>2. DOMAIN written = there /\ \A r \in there : written[r] = to(r)
    BY <2>1
  <2>3. ASSUME NEW r \in there
        PROVE  /\ to(r) = IF s.rows[r].position = Ignored
                          THEN Content(s.rows[r].value, seen[r].position) ELSE s.rows[r]
               /\ to(r) \in RowContents(r) /\ to(r) # NoRow
    <3>1. seen[r] \in RowContents(r) /\ r \in Rows
      BY <1>1 DEF Tables
    <3>2. \/ s.rows[r] \in RowContents(r)
          \/ s.rows[r].position = Ignored /\ FitsValue(r, s.rows[r].value)
      BY <1>3 DEF StatementIs
    <3>3. CASE s.rows[r].position = Ignored
      <4> DEFINE x == seen[r]
                 v == s.rows[r].value
      <4>1. x = [value |-> x.value, position |-> x.position] /\ x.position \in (IF r[1] = 2 THEN Lowest..Highest ELSE {0})
        BY <3>1 DEF RowContents
      <4>2. [x EXCEPT !.value = v] = Content(v, x.position)
        BY <4>1 DEF Content
      <4>3. to(r) = Content(v, x.position)
        BY <3>3, <4>2
      <4>4. FitsValue(r, v)
        BY <3>2, <3>3, ContentsAre
      <4>5. Content(v, x.position) \in RowContents(r)
        BY <4>1, <4>4, ContentsAre DEF FitsValue
      <4>6. QED
        BY <3>3, <4>3, <4>5, ContentsAre
    <3>4. CASE s.rows[r].position # Ignored
      BY <3>2, <3>4, ContentsAre
    <3>5. QED
      BY <3>3, <3>4
  <2> HIDE DEF to
  <2>4. QED
    BY <1>1, <1>3, <2>2, <2>3 DEF written
<1>4. CASE s.does \in {"insert", "upsert"}
  <2>1. written = s.rows
    BY <1>4 DEF Written
  <2>2. \A r \in rows : s.rows[r] \in RowContents(r)
    BY <1>4 DEF StatementIs
  <2> HIDE DEF written
  <2>3. \A r \in rows : s.rows[r] # NoRow
    BY <2>2, ContentsAre
  <2>4. QED
    BY <1>1, <1>4, <2>1, <2>2, <2>3 DEF written
<1>5. QED
  BY <1>1, <1>2, <1>3, <1>4

\* What a statement that is neither held up nor refused leaves.
LEMMA SoundRun ==
    ASSUME op = [v \in Sessions |-> op[v]], Tables(db), Sound(op, db), NEW w \in Sessions, NEW s,
           StatementIs(s), Tables(Seen(w)), ~ Waits(w, s), ~ Refused(s, Seen(w)), NEW o,
           o.held = op[w].held \cup DOMAIN Written(s, Seen(w)),
           o.mine = [r \in Rows |-> IF r \in DOMAIN Written(s, Seen(w))
                                    THEN Written(s, Seen(w))[r] ELSE op[w].mine[r]]
    PROVE  /\ Sound([op EXCEPT ![w] = o], db)
           /\ SeenOf(o, db) = [r \in Rows |-> IF r \in DOMAIN Written(s, Seen(w))
                                              THEN Written(s, Seen(w))[r] ELSE Seen(w)[r]]
<1> DEFINE seen == Seen(w)
           W == Written(s, seen)
           rows == DOMAIN s.rows
           after == [r \in Rows |-> IF r \in DOMAIN W THEN W[r] ELSE seen[r]]
           held == op[w].held
           mine == op[w].mine
           ops == [op EXCEPT ![w] = o]
<1>1. /\ DOMAIN W \subseteq Rows
      /\ s.does = "delete" =>
            /\ DOMAIN W = {q \in rows \cup Beneath(rows) : seen[q] # NoRow}
            /\ \A r \in DOMAIN W : W[r] = NoRow
      /\ s.does # "delete" => \A r \in DOMAIN W : W[r] # NoRow
      /\ s.does = "update" => DOMAIN W = {r \in rows : seen[r] # NoRow}
      /\ s.does \in {"insert", "upsert"} => W = s.rows
  BY StatementDoes
<1>2. /\ s.does \in {"insert", "delete", "update", "upsert"} /\ rows \subseteq Rows
      /\ s.does = "upsert" => rows = {RootRow}
  BY DEF StatementIs
<1>3. \A r \in Rows : seen[r] = IF r \in held THEN mine[r] ELSE db[r]
  BY DEF Seen
<1>4. seen = SeenOf(op[w], db)
  BY DEF Seen, SeenOf
<1>5. /\ Closed(db) /\ Closed(seen) /\ held \subseteq Rows
      /\ \A v \in Sessions : op[v].held \subseteq Rows /\ Closed(SeenOf(op[v], db))
      /\ \A v \in Sessions \ {w} : NotAcross(op[v], op[w]) /\ NotAcross(op[w], op[v])
  BY <1>4 DEF Sound
<1>6. \A v \in Sessions \ {w} :
         /\ \A r \in rows \cap op[v].held : db[r] = NoRow /\ s.does \notin {"insert", "upsert"}
         /\ s.does = "delete" => Beneath(rows) \cap op[v].held = {}
         /\ s.does = "insert" => \A r \in rows : \A h \in Above(r) \cap op[v].held : op[v].mine[h] # NoRow
  BY DEF Waits
<1>7. s.does = "insert" => \A r \in rows : \A h \in Above(r) : after[h] # NoRow
  BY DEF Refused
<1>8. o.held = held \cup DOMAIN W /\ \A r \in Rows : o.mine[r] = IF r \in DOMAIN W THEN W[r] ELSE mine[r]
  OBVIOUS
<1>9. \A r \in Rows : after[r] = IF r \in DOMAIN W THEN W[r] ELSE seen[r]
  OBVIOUS
<1>10. SeenOf(o, db) = after
  <2>1. \A r \in Rows : (IF r \in o.held THEN o.mine[r] ELSE db[r]) = IF r \in DOMAIN W THEN W[r] ELSE seen[r]
    BY <1>3, <1>8
  <2>2. QED
    BY <2>1 DEF SeenOf
<1>11. ops[w] = o /\ \A v \in Sessions \ {w} : ops[v] = op[v]
  OBVIOUS
<1> HIDE DEF seen, W, after, ops, held, mine
<1>12. \A r \in Rows : Above(r) \subseteq Rows /\ \A h \in Above(r) : Above(h) \subseteq Above(r)
  BY AboveIs
<1>13. \A r \in Rows : Above(r) \cap rows # {} => r \in Beneath(rows)
  BY DEF Beneath
<1>14. Closed(after)
  <2>1. SUFFICES ASSUME NEW r \in Rows, NEW h \in Above(r), after[r] # NoRow PROVE after[h] # NoRow
    BY DEF Closed
  <2>2. h \in Rows
    BY <1>12
  <2>3. CASE s.does = "delete"
    <3>1. r \notin DOMAIN W /\ seen[r] # NoRow
      BY <1>1, <1>9, <2>1, <2>3
    <3>2. seen[h] # NoRow
      BY <3>1, <1>5 DEF Closed
    <3>3. h \notin DOMAIN W
      <4>1. SUFFICES ASSUME h \in DOMAIN W PROVE FALSE
        OBVIOUS
      <4>2. h \in rows \cup Beneath(rows)
        BY <4>1, <1>1, <2>3
      <4>3. r \in Beneath(rows)
        <5>1. CASE h \in rows
          BY <5>1, <1>13
        <5>2. CASE h \in Beneath(rows)
          BY <5>2, <1>12, <1>13 DEF Beneath
        <5>3. QED
          BY <4>2, <5>1, <5>2
      <4>4. r \in DOMAIN W
        BY <4>3, <3>1, <1>1, <2>3
      <4>5. QED
        BY <3>1, <4>4
    <3>4. QED
      BY <2>2, <3>2, <3>3, <1>9
  <2>4. CASE s.does = "update"
    <3>1. seen[r] # NoRow
      BY <1>1, <1>9, <2>1, <2>4
    <3>2. seen[h] # NoRow
      BY <3>1, <1>5 DEF Closed
    <3>3. QED
      BY <2>2, <3>2, <1>1, <1>9, <2>4
  <2>5. CASE s.does = "insert"
    <3>1. CASE r \in rows
      BY <3>1, <1>7, <2>5
    <3>2. CASE r \notin rows
      <4>1. seen[r] # NoRow
        BY <1>1, <1>9, <2>1, <2>5, <3>2
      <4>2. seen[h] # NoRow
        BY <4>1, <1>5 DEF Closed
      <4>3. QED
        BY <2>2, <4>2, <1>1, <1>9, <2>5
    <3>3. QED
      BY <3>1, <3>2
  <2>6. CASE s.does = "upsert"
    <3>1. r \notin rows
      BY <1>2, <2>6, AboveIs
    <3>2. seen[r] # NoRow
      BY <1>1, <1>9, <2>1, <2>6, <3>1
    <3>3. seen[h] # NoRow
      BY <3>2, <1>5 DEF Closed
    <3>4. QED
      BY <2>2, <3>3, <1>1, <1>9, <2>6
  <2>7. QED
    BY <1>2, <2>3, <2>4, <2>5, <2>6
<1>15. ASSUME NEW v \in Sessions \ {w} PROVE DOMAIN W \cap op[v].held = {}
  <2>1. SUFFICES ASSUME NEW r \in DOMAIN W, r \in op[v].held PROVE FALSE
    OBVIOUS
  <2>2. r \in Rows /\ r \notin held
    BY <1>1, <1>5, <2>1 DEF NotAcross, held
  <2>3. seen[r] = db[r]
    BY <1>3, <2>2
  <2>4. CASE r \in rows
    <3>1. db[r] = NoRow /\ s.does \notin {"insert", "upsert"}
      BY <1>6, <1>15, <2>1, <2>4
    <3>2. seen[r] # NoRow
      BY <1>1, <1>2, <2>1, <3>1
    <3>3. QED
      BY <2>3, <3>1, <3>2
  <2>5. CASE r \notin rows
    <3>1. s.does = "delete" /\ r \in Beneath(rows)
      BY <1>1, <1>2, <2>1, <2>5
    <3>2. QED
      BY <3>1, <1>6, <1>15, <2>1
  <2>6. QED
    BY <2>4, <2>5
<1>16. ASSUME NEW v \in Sessions \ {w} PROVE NotAcross(o, op[v])
  <2>1. o.held \cap op[v].held = {}
    BY <1>5, <1>8, <1>15 DEF NotAcross, held
  <2>2. ASSUME NEW r \in o.held, NEW h \in Above(r) \cap op[v].held, o.mine[r] # NoRow
        PROVE  op[v].mine[h] # NoRow
    <3>1. r \in Rows /\ h \in Rows /\ h \notin held /\ h \notin DOMAIN W /\ r \notin op[v].held
      BY <1>1, <1>5, <1>8, <1>12, <2>1, <2>2
    <3>2. CASE r \in DOMAIN W
      <4>1. W[r] # NoRow /\ s.does # "delete"
        BY <1>1, <1>8, <2>2, <3>1, <3>2
      <4>2. CASE s.does = "insert"
        BY <1>1, <1>6, <2>2, <3>2, <4>2
      <4>3. CASE s.does = "upsert"
        <5>1. r = RootRow
          BY <1>1, <1>2, <3>2, <4>3
        <5>2. QED
          BY <5>1, <2>2, AboveIs
      <4>4. CASE s.does = "update"
        <5>1. seen[r] # NoRow
          BY <1>1, <3>2, <4>4
        <5>2. CASE r \in held
          <6>1. mine[r] # NoRow
            BY <1>3, <3>1, <5>1, <5>2
          <6>2. NotAcross(op[w], op[v])
            BY <1>5
          <6>3. QED
            BY <2>2, <5>2, <6>1, <6>2 DEF NotAcross, held, mine
        <5>3. CASE r \notin held
          <6>1. db[r] # NoRow
            BY <1>3, <3>1, <5>1, <5>3
          <6>2. SeenOf(op[v], db)[r] = db[r] /\ SeenOf(op[v], db)[h] = op[v].mine[h]
            BY <2>2, <3>1 DEF SeenOf
          <6>3. Closed(SeenOf(op[v], db))
            BY <1>5
          <6>4. QED
            BY <2>2, <3>1, <6>1, <6>2, <6>3 DEF Closed
        <5>4. QED
          BY <5>2, <5>3
      <4>5. QED
        BY <1>2, <4>1, <4>2, <4>3, <4>4
    <3>3. CASE r \notin DOMAIN W
      <4>1. r \in held /\ mine[r] # NoRow
        BY <1>8, <2>2, <3>1, <3>3
      <4>2. NotAcross(op[w], op[v])
        BY <1>5
      <4>3. QED
        BY <2>2, <4>1, <4>2 DEF NotAcross, held, mine
    <3>4. QED
      BY <3>2, <3>3
  <2>3. QED
    BY <2>1, <2>2 DEF NotAcross
<1>17. ASSUME NEW v \in Sessions \ {w} PROVE NotAcross(op[v], o)
  <2>1. op[v].held \cap o.held = {}
    BY <1>5, <1>8, <1>15 DEF NotAcross, held
  <2>2. ASSUME NEW r \in op[v].held, NEW h \in Above(r) \cap o.held, op[v].mine[r] # NoRow
        PROVE  o.mine[h] # NoRow
    <3>1. r \in Rows /\ h \in Rows
      BY <1>5, <1>12
    <3>2. CASE h \in DOMAIN W
      <4>1. CASE s.does = "delete"
        <5>1. h \in rows \cup Beneath(rows)
          BY <1>1, <3>2, <4>1
        <5>2. r \in Beneath(rows)
          <6>1. CASE h \in rows
            BY <6>1, <1>13, <2>2, <3>1
          <6>2. CASE h \in Beneath(rows)
            BY <6>2, <1>12, <1>13, <2>2, <3>1 DEF Beneath
          <6>3. QED
            BY <5>1, <6>1, <6>2
        <5>3. QED
          BY <5>2, <1>6, <1>17, <2>2, <4>1
      <4>2. CASE s.does # "delete"
        BY <1>1, <1>8, <3>1, <3>2, <4>2
      <4>3. QED
        BY <4>1, <4>2
    <3>3. CASE h \notin DOMAIN W
      <4>1. h \in held /\ o.mine[h] = mine[h]
        BY <1>8, <2>2, <3>1, <3>3
      <4>2. NotAcross(op[v], op[w])
        BY <1>5
      <4>3. QED
        BY <2>2, <4>1, <4>2 DEF NotAcross, held, mine
    <3>4. QED
      BY <3>2, <3>3
  <2>3. QED
    BY <2>1, <2>2 DEF NotAcross
<1>18. \A v \in Sessions : ops[v].held \subseteq Rows /\ Closed(SeenOf(ops[v], db))
  <2>1. o.held \subseteq Rows /\ Closed(SeenOf(o, db))
    BY <1>1, <1>5, <1>8, <1>10, <1>14
  <2>2. QED
    BY <2>1, <1>5, <1>11
<1>19. \A u, v \in Sessions : u # v => NotAcross(ops[u], ops[v])
  <2>1. SUFFICES ASSUME NEW u \in Sessions, NEW v \in Sessions, u # v PROVE NotAcross(ops[u], ops[v])
    OBVIOUS
  <2>2. CASE u = w
    BY <1>11, <1>16, <2>1, <2>2
  <2>3. CASE v = w
    BY <1>11, <1>17, <2>1, <2>3
  <2>4. CASE u # w /\ v # w
    BY <1>11, <2>1, <2>4 DEF Sound
  <2>5. QED
    BY <2>2, <2>3, <2>4
<1>20. Sound(ops, db)
  BY <1>5, <1>18, <1>19 DEF Sound
<1>21. QED
  BY <1>10, <1>20 DEF ops, after, seen, W

\* What is committed is what its session saw, and it fits the others' rows.
LEMMA SoundCommit ==
    ASSUME NEW ops, NEW rows, Sound(ops, rows), NEW w \in Sessions, NEW after,
           after[w].held = {},
           \A v \in Sessions \ {w} : after[v].held = ops[v].held /\ after[v].mine = ops[v].mine
    PROVE  Sound(after, SeenOf(ops[w], rows))
<1> DEFINE now == SeenOf(ops[w], rows)
           held == ops[w].held
           mine == ops[w].mine
<1>1. \A r \in Rows : now[r] = IF r \in held THEN mine[r] ELSE rows[r]
  BY DEF SeenOf
<1>2. Closed(now) /\ Closed(rows)
  BY DEF Sound
<1> HIDE DEF now
<1>3. \A r \in Rows : Above(r) \subseteq Rows
  BY AboveIs
<1>4. Closed(SeenOf(after[w], now))
  <2>1. \A r \in Rows : SeenOf(after[w], now)[r] = now[r]
    BY DEF SeenOf
  <2>2. QED
    BY <2>1, <1>2, <1>3 DEF Closed
<1>5. ASSUME NEW v \in Sessions \ {w} PROVE Closed(SeenOf(after[v], now))
  <2> DEFINE theirs == ops[v].held
             its == ops[v].mine
             sees == SeenOf(after[v], now)
  <2>1. \A r \in Rows : sees[r] = IF r \in theirs THEN its[r] ELSE now[r]
    BY <1>5 DEF SeenOf
  <2>2. \A r \in Rows : SeenOf(ops[v], rows)[r] = IF r \in theirs THEN its[r] ELSE rows[r]
    BY DEF SeenOf
  <2>3. Closed(SeenOf(ops[v], rows)) /\ NotAcross(ops[v], ops[w]) /\ NotAcross(ops[w], ops[v])
    BY <1>5 DEF Sound
  <2> DEFINE saw == SeenOf(ops[v], rows)
  <2> HIDE DEF sees, saw
  <2>4. SUFFICES ASSUME NEW r \in Rows, NEW h \in Above(r), sees[r] # NoRow PROVE sees[h] # NoRow
    BY DEF Closed, sees
  <2>5. h \in Rows
    BY <1>3
  <2>6. theirs \cap held = {}
    BY <2>3 DEF NotAcross
  <2>7. CASE r \in theirs
    <3>1. its[r] # NoRow /\ saw[r] # NoRow
      BY <2>1, <2>2, <2>4, <2>7 DEF saw
    <3>2. saw[h] # NoRow
      BY <2>3, <3>1 DEF Closed, saw
    <3>3. CASE h \in theirs
      BY <2>1, <2>2, <2>5, <3>2, <3>3 DEF saw
    <3>4. CASE h \notin theirs /\ h \in held
      <4>1. mine[h] # NoRow
        BY <2>3, <2>7, <3>1, <3>4 DEF NotAcross
      <4>2. QED
        BY <4>1, <1>1, <2>1, <2>5, <3>4
    <3>5. CASE h \notin theirs /\ h \notin held
      BY <1>1, <2>1, <2>2, <2>5, <3>2, <3>5 DEF saw
    <3>6. QED
      BY <3>3, <3>4, <3>5
  <2>8. CASE r \notin theirs
    <3>1. now[r] # NoRow
      BY <2>1, <2>4, <2>8
    <3>2. now[h] # NoRow
      BY <1>2, <3>1 DEF Closed
    <3>3. CASE h \notin theirs
      BY <2>1, <2>5, <3>2, <3>3
    <3>4. CASE h \in theirs /\ r \in held
      <4>1. mine[r] # NoRow
        BY <1>1, <3>1, <3>4
      <4>2. its[h] # NoRow
        BY <2>3, <3>4, <4>1 DEF NotAcross
      <4>3. QED
        BY <2>1, <2>5, <3>4, <4>2
    <3>5. CASE h \in theirs /\ r \notin held
      <4>1. rows[r] # NoRow
        BY <1>1, <3>1, <3>5
      <4>2. saw[r] # NoRow
        BY <2>2, <2>8, <4>1 DEF saw
      <4>3. saw[h] # NoRow
        BY <2>3, <4>2 DEF Closed, saw
      <4>4. QED
        BY <2>1, <2>2, <2>5, <3>5, <4>3 DEF saw
    <3>6. QED
      BY <3>3, <3>4, <3>5
  <2>9. QED
    BY <2>7, <2>8
<1>6. \A v \in Sessions : after[v].held \subseteq Rows /\ Closed(SeenOf(after[v], now))
  BY <1>4, <1>5 DEF Sound
<1>7. ASSUME NEW u \in Sessions, NEW v \in Sessions, u # v PROVE NotAcross(after[u], after[v])
  <2>1. CASE u = w \/ v = w
    BY <2>1 DEF NotAcross
  <2>2. CASE u # w /\ v # w
    <3>1. NotAcross(ops[u], ops[v])
      BY <1>7 DEF Sound
    <3>2. /\ after[u].held = ops[u].held /\ after[u].mine = ops[u].mine
          /\ after[v].held = ops[v].held /\ after[v].mine = ops[v].mine
      BY <2>2
    <3>3. QED
      BY <3>1, <3>2 DEF NotAcross
  <2>3. QED
    BY <2>1, <2>2
<1>8. QED
  BY <1>2, <1>6, <1>7 DEF Sound, now

-----------------------------------------------------------------------------
(* Every session's part is of its type, and so is what is stored. *)

SomeRows(rows) == \A r \in DOMAIN rows : r \in Rows /\ (rows[r] = NoRow \/ rows[r] \in RowContents(r))

\* The list's rows there are, and their listings.
LEMMA LinesAre ==
    ASSUME NEW rows, SomeRows(rows)
    PROVE  LET lines == Present(rows, 2)
               n == Cardinality(lines) IN
           /\ lines = {Line(e) : e \in {d \in Elements : Line(d) \in DOMAIN rows /\ rows[Line(d)] # NoRow}}
           /\ \A r \in lines : /\ r \in Rows /\ r \in DOMAIN rows /\ rows[r] # NoRow
                               /\ r = Line(r[2]) /\ r[2] \in Elements /\ rows[r] \in RowContents(r)
           /\ IsFiniteSet(lines) /\ n \in Nat /\ n <= Cardinality(Elements)
           /\ \A s \in Listings(rows) :
                 /\ s \in [1..n -> lines] /\ Range(s) = lines /\ IsInjective(s)
                 /\ \A i, j \in 1..n : i < j => rows[s[i]].position <= rows[s[j]].position
<1> DEFINE lines == Present(rows, 2)
           n == Cardinality(lines)
           first == [r \in lines |-> r[2]]
<1>1. \A r \in lines : /\ r \in Rows /\ r \in DOMAIN rows /\ rows[r] # NoRow
                       /\ r = Line(r[2]) /\ r[2] \in Elements /\ rows[r] \in RowContents(r)
  BY RowKinds DEF Present, SomeRows
<1>2. lines = {Line(e) : e \in {d \in Elements : Line(d) \in DOMAIN rows /\ rows[Line(d)] # NoRow}}
  BY <1>1, RowKinds DEF Present
<1>3. Listings(rows) = {s \in [1..n -> lines] :
            /\ Range(s) = lines
            /\ \A i, j \in DOMAIN s : i < j => rows[s[i]].position <= rows[s[j]].position}
  BY DEF Listings
<1> HIDE DEF lines
<1>4. first \in Injection(lines, Elements)
  BY <1>1 DEF Injection, IsInjective
<1>5. IsFiniteSet(lines) /\ n <= Cardinality(Elements)
  BY <1>4, FS_Injection, RepositoryAssumption
<1>6. n \in Nat
  BY <1>5, FS_CardinalityType
<1> HIDE DEF n
<1>7. ASSUME NEW s \in Listings(rows)
      PROVE  /\ s \in [1..n -> lines] /\ Range(s) = lines /\ IsInjective(s)
             /\ \A i, j \in 1..n : i < j => rows[s[i]].position <= rows[s[j]].position
  <2>1. s \in [1..n -> lines] /\ Range(s) = lines
    BY <1>3
  <2>2. s \in Surjection(1..n, lines)
    BY <2>1 DEF Surjection, Range
  <2>3. IsFiniteSet(1..n) /\ Cardinality(1..n) = n
    BY <1>6, FS_Interval
  <2>4. s \in Injection(1..n, lines)
    BY <2>2, <2>3, FS_Surjection DEF n
  <2>5. IsInjective(s)
    BY <2>1, <2>4 DEF Injection, IsInjective
  <2>6. \A i, j \in 1..n : i < j => rows[s[i]].position <= rows[s[j]].position
    BY <1>3, <2>1
  <2>7. QED
    BY <2>1, <2>5, <2>6
<1>8. QED
  BY <1>1, <1>2, <1>5, <1>6, <1>7 DEF n, lines

\* What the rows of an aggregate's tables are read as is an aggregate.
LEMMA AssembledAre ==
    ASSUME NEW rows, SomeRows(rows)
    PROVE  /\ Assembled(rows) \subseteq Aggregates \cup {NoAggregate}
           /\ Present(rows, 1) # {} => Assembled(rows) \subseteq Aggregates
<1> DEFINE lines == Present(rows, 2)
           n == Cardinality(lines)
           noted(r) == Note(r[2]) \in Present(rows, 3)
           list(s) == [i \in DOMAIN s |->
                         [key |-> s[i][2], value |-> rows[s[i]].value, noted |-> noted(s[i])]]
           read(s) == [name |-> rows[RootRow].value, list |-> list(s)]
<1>1. CASE Present(rows, 1) = {}
  BY <1>1 DEF Assembled
<1>2. CASE Present(rows, 1) # {}
  <2>1. Assembled(rows) = {read(s) : s \in Listings(rows)}
    BY <1>2 DEF Assembled
  <2>2. rows[RootRow].value \in Values
    <3>1. PICK r : r \in DOMAIN rows /\ r[1] = 1 /\ rows[r] # NoRow
      BY <1>2 DEF Present
    <3>2. r = RootRow /\ rows[r] \in RowContents(r)
      BY <3>1, RowKinds DEF SomeRows
    <3>3. QED
      BY <3>2, RowKinds DEF RowContents
  <2>3. ASSUME NEW s \in Listings(rows) PROVE read(s) \in Aggregates
    <3>1. /\ \A r \in lines : /\ r = Line(r[2]) /\ r[2] \in Elements /\ rows[r] \in RowContents(r)
          /\ n \in Nat /\ n <= Cardinality(Elements)
          /\ s \in [1..n -> lines] /\ IsInjective(s)
      BY <2>3, LinesAre
    <3>2. \A i \in 1..n : s[i] \in lines /\ s[i][1] = 2
      BY <3>1, RowKinds
    <3> HIDE DEF lines, n, noted
    <3>3. \A i \in 1..n : rows[s[i]].value \in Values
      BY <3>1, <3>2 DEF RowContents
    <3>4. \A r : noted(r) \in BOOLEAN
      BY DEF noted
    <3>5. \A i \in 1..n : [key |-> s[i][2], value |-> rows[s[i]].value, noted |-> noted(s[i])] \in Entities
      <4>1. SUFFICES ASSUME NEW i \in 1..n
                     PROVE  [key |-> s[i][2], value |-> rows[s[i]].value, noted |-> noted(s[i])] \in Entities
        OBVIOUS
      <4>2. s[i][2] \in Elements /\ rows[s[i]].value \in Values /\ noted(s[i]) \in BOOLEAN
        BY <3>1, <3>2, <3>3, <3>4
      <4>3. QED
        BY <4>2, Zenon DEF Entities
    <3>6. list(s) \in [1..n -> Entities]
      BY <3>1, <3>5
    <3>7. list(s) \in SeqOf(Entities, Cardinality(Elements))
      <4>1. n \in 0..Cardinality(Elements)
        BY <3>1, RepositoryAssumption, FS_CardinalityType
      <4> HIDE DEF list
      <4>2. QED
        BY <3>6, <4>1 DEF SeqOf
    <3>8. DOMAIN list(s) = 1..n /\ \A i \in 1..n : list(s)[i].key = s[i][2]
      BY <3>1
    <3> HIDE DEF list
    <3>9. IsInjective(KeysOf(list(s)))
      <4>1. \A i, j \in 1..n : s[i][2] = s[j][2] => i = j
        <5>1. \A i, j \in 1..n : s[i][2] = s[j][2] => s[i] = s[j]
          BY <3>1, <3>2
        <5>2. QED
          BY <5>1, <3>1 DEF IsInjective
      <4>2. DOMAIN KeysOf(list(s)) = 1..n /\ \A i \in 1..n : KeysOf(list(s))[i] = s[i][2]
        BY <3>8 DEF KeysOf
      <4>3. QED
        BY <4>1, <4>2 DEF IsInjective
    <3>10. read(s) \in [name : Values, list : SeqOf(Entities, Cardinality(Elements))]
      BY <2>2, <3>7
    <3>11. read(s).list = list(s)
      OBVIOUS
    <3> HIDE DEF read
    <3>12. QED
      BY <3>9, <3>10, <3>11 DEF Aggregates
  <2> HIDE DEF read
  <2>4. QED
    BY <2>1, <2>3
<1>3. QED
  BY <1>1, <1>2

TablesInv ==
    /\ Tables(db)
    /\ \A w \in Sessions : SessionTyped(op[w])
    /\ Sound(op, db)
    /\ jobs \in 0..MaxJobs /\ faults \in 0..MaxFaults

\* Tables are rows.
LEMMA TablesSome ==
    ASSUME NEW rows, Tables(rows)
    PROVE  SomeRows(rows)
<1>1. DOMAIN rows = Rows
  BY DEF Tables
<1>2. QED
  BY <1>1 DEF Tables, SomeRows

\* Rows kept are rows.
LEMMA KeptSome ==
    ASSUME NEW rows, KeptRows(rows)
    PROVE  SomeRows(rows)
BY DEF KeptRows, SomeRows

\* What a session sees is tables.
LEMMA SeenTyped ==
    ASSUME TablesInv, NEW w \in Sessions
    PROVE  Tables(Seen(w)) /\ Seen(w) = SeenOf(op[w], db)
<1>1. Tables(db) /\ Tables(op[w].mine)
  BY DEF TablesInv, SessionTyped
<1>2. QED
  BY <1>1 DEF Tables, Seen, SeenOf

\* What a session reads is rows.
LEMMA ReadInTyped ==
    ASSUME TablesInv, NEW w \in Sessions, NEW t
    PROVE  KeptRows(ReadIn(w, t))
<1> DEFINE seen == Seen(w)
           there == Present(seen, t)
           read == ReadIn(w, t)
<1>1. Tables(seen)
  BY SeenTyped
<1> HIDE DEF seen
<1>2. there \subseteq Rows /\ \A r \in there : seen[r] # NoRow
  <2>1. DOMAIN seen = Rows
    BY <1>1 DEF Tables
  <2>2. QED
    BY <2>1 DEF Present
<1>3. read = [r \in there |-> seen[r]]
  BY DEF ReadIn, seen
<1> HIDE DEF read, there
<1>4. QED
  BY <1>1, <1>2, <1>3 DEF KeptRows, Tables, read

\* Tables read one by one are rows.
LEMMA JoinedTyped ==
    ASSUME NEW f, NEW g, KeptRows(f), KeptRows(g)
    PROVE  KeptRows(Joined(f, g))
<1> DEFINE D == DOMAIN f \cup DOMAIN g
           h == Joined(f, g)
<1>1. h = [r \in D |-> IF r \in DOMAIN f THEN f[r] ELSE g[r]]
  BY DEF Joined
<1>2. D \subseteq Rows /\ \A r \in D : (IF r \in DOMAIN f THEN f[r] ELSE g[r]) \in RowContents(r)
  BY DEF KeptRows
<1> HIDE DEF h, D
<1>3. QED
  BY <1>1, <1>2 DEF KeptRows, h

\* An aggregate taken apart is its rows.
LEMMA ApartTyped ==
    ASSUME NEW a \in Aggregates \cup {NoAggregate}
    PROVE  /\ KeptRows(Apart(a)) /\ DOMAIN Apart(a) = RowsOf(a)
           /\ Apart(a) = ToBe(<< >>, a, FALSE)
<1> DEFINE f == Apart(a)
<1>1. f = ToBe(<< >>, a, FALSE)
  BY DEF ToBe
<1>2. FALSE \in BOOLEAN
  OBVIOUS
<1>3. /\ f = [r \in RowsOf(a) |-> f[r]]
      /\ \A r \in RowsOf(a) : f[r] \in RowContents(r)
  <2> DEFINE g == ToBe(<< >>, a, FALSE)
  <2>1. /\ g = [r \in RowsOf(a) |-> g[r]]
        /\ \A r \in RowsOf(a) : g[r] \in RowContents(r)
    BY <1>2, ToBeIs
  <2> HIDE DEF f, g
  <2>2. f = g
    BY <1>1 DEF g
  <2>3. QED
    BY <2>1, <2>2
<1> HIDE DEF f
<1>4. RowsOf(a) \subseteq Rows /\ DOMAIN f = RowsOf(a)
  BY <1>3, RowsOfAre
<1>5. KeptRows(f)
  BY <1>3, <1>4 DEF KeptRows
<1>6. QED
  BY <1>1, <1>4, <1>5 DEF f

-----------------------------------------------------------------------------
(* A step of one session. *)

\* One that holds nothing.
LEMMA QuietStep ==
    ASSUME RepositoryInv, TablesInv, NEW w \in Sessions, NEW o, SessionTyped(o), o.held = {},
           op' = [op EXCEPT ![w] = o], db' = db, jobs' \in 0..MaxJobs, faults' \in 0..MaxFaults
    PROVE  TablesInv'
<1>1. op = [v \in Sessions |-> op[v]]
  BY DEF RepositoryInv
<1>2. Sound([op EXCEPT ![w] = o], db)
  BY <1>1, SoundQuiet DEF TablesInv
<1>3. Sound(op', db')
  BY <1>2
<1>4. \A v \in Sessions : SessionTyped(op'[v])
  <2>1. op'[w] = o /\ \A v \in Sessions \ {w} : op'[v] = op[v]
    BY <1>1
  <2>2. QED
    BY <2>1 DEF TablesInv
<1>5. Tables(db')
  BY DEF TablesInv
<1>6. QED
  BY <1>3, <1>4, <1>5 DEF TablesInv

\* A session at rest is of its type.
LEMMA RestTyped == SessionTyped(Rest) /\ Rest.held = {}
BY EmptyIs DEF Rest, SessionTyped

\* So is one that answered.
LEMMA AnswerTyped ==
    ASSUME NEW o, o.job \in Jobs,
           NEW says \in {"none", "found", "absent", "done", "refused", "fault", "deadlock"}
    PROVE  SessionTyped(Answer(o, says)) /\ Answer(o, says).held = {}
<1> DEFINE a == Answer(o, says)
<1>1. /\ a.phase = "answered" /\ a.job = o.job /\ a.read = << >> /\ a.before = NoAggregate
      /\ a.todo = << >> /\ a.held = {} /\ a.mine = [r \in Rows |-> NoRow] /\ a.says = says
  BY DEF Answer, Rest
<1> HIDE DEF a
<1>2. SessionTyped(a)
  BY <1>1, EmptyIs DEF SessionTyped
<1>3. QED
  BY <1>1, <1>2 DEF a

\* The counts are within their bounds.
LEMMA SameCounts ==
    ASSUME TablesInv
    PROVE  jobs \in 0..MaxJobs /\ faults \in 0..MaxFaults
BY DEF TablesInv

\* Each session is of its type.
LEMMA TypesOf ==
    ASSUME TablesInv, NEW w \in Sessions
    PROVE  SessionTyped(op[w])
BY DEF TablesInv

\* An operation asked for is of its type.
LEMMA AskTyped ==
    ASSUME RepositoryInv, TablesInv, NEW w \in Sessions, NEW j \in May(w), Ask(w, j)
    PROVE  TablesInv'
<1> DEFINE phase == Starting(j).phase
           todo == Starting(j).todo
           o == [Rest EXCEPT !.job = j, !.was = db, !.alone = TRUE, !.phase = phase, !.todo = todo]
<1>1. op' = [op EXCEPT ![w] = o] /\ db' = db /\ faults' = faults /\ jobs' = jobs + 1 /\ jobs < MaxJobs
  BY DEF Ask
<1>2. j \in Jobs
  BY RepositoryAssumption
<1>3. Statements(todo) /\ phase \in {"root", "run"}
  BY <1>2, StartingTyped
<1> HIDE DEF phase, todo
<1>4. /\ o.phase = phase /\ o.job = j /\ o.read = << >> /\ o.before = NoAggregate /\ o.todo = todo
      /\ o.held = {} /\ o.mine = [r \in Rows |-> NoRow] /\ o.says = "none"
  BY DEF Rest
<1> HIDE DEF o
<1>5. SessionTyped(o)
  BY <1>2, <1>3, <1>4, EmptyIs DEF SessionTyped
<1>6. jobs' \in 0..MaxJobs /\ faults' \in 0..MaxFaults
  BY <1>1, SameCounts, RepositoryAssumption
<1>7. QED
  BY <1>1, <1>4, <1>5, <1>6, QuietStep

\* One that read the root.
LEMMA ReadRootTyped ==
    ASSUME RepositoryInv, TablesInv, NEW w \in Sessions, ReadRoot(w)
    PROVE  TablesInv'
<1> DEFINE j == op[w].job
           read == ReadIn(w, 1)
           count == Cardinality(DOMAIN read)
           o == [op[w] EXCEPT !.read = read, !.rows = count]
           next == CASE j.does = "saveRoot" ->
                          [o EXCEPT !.phase = "run", !.todo = Changes(1, read, j.value, TRUE)]
                     [] j.does \in {"find", "change"} /\ read = << >> -> Answer(o, "absent")
                     [] j.does \in {"save", "delete"} /\ read = << >> -> Saving(o, read)
                     [] OTHER -> [o EXCEPT !.phase = "lines"]
<1>1. /\ op[w].phase = "root" /\ db' = db /\ op' = [op EXCEPT ![w] = next]
      /\ jobs' = jobs /\ faults' = faults
  BY DEF ReadRoot
<1>2. /\ Fields(op[w]) /\ op[w].held = {}
  BY <1>1, SessionIs DEF InTurn, ReadingPhases
<1>3. SessionTyped(op[w]) /\ j \in Jobs
  BY <1>1, TypesOf DEF SessionTyped
<1>4. KeptRows(read)
  BY ReadInTyped
<1>5. j.value \in Aggregates \cup {NoAggregate}
  BY <1>3, JobIs
<1> HIDE DEF read, count
<1>6. /\ Fields(o) /\ o.phase = "root" /\ o.read = read /\ o.rows = count /\ o.job = j /\ o.held = {}
      /\ o.before = op[w].before /\ o.todo = op[w].todo /\ o.mine = op[w].mine /\ o.says = op[w].says
  BY <1>1, <1>2 DEF Fields
<1> HIDE DEF o
<1>7. SUFFICES SessionTyped(next) /\ next.held = {}
  <2> HIDE DEF next
  <2> QED
    BY <1>1, QuietStep, SameCounts
<1>8. CASE j.does = "saveRoot"
  <2> DEFINE todo == Changes(1, read, j.value, TRUE)
             q == [o EXCEPT !.phase = "run", !.todo = todo]
  <2>1. next = q
    BY <1>8
  <2>2. Statements(todo)
    BY <1>4, <1>5, ChangesTyped
  <2> HIDE DEF todo
  <2>3. /\ q.phase = "run" /\ q.todo = todo /\ q.read = read /\ q.job = j /\ q.held = {}
        /\ q.before = op[w].before /\ q.mine = op[w].mine /\ q.says = op[w].says
    BY <1>6 DEF Fields
  <2> HIDE DEF q, next
  <2>4. SessionTyped(q)
    BY <1>3, <1>4, <2>2, <2>3 DEF SessionTyped
  <2>5. QED
    BY <2>1, <2>3, <2>4
<1>9. CASE j.does \in {"find", "change"} /\ read = << >>
  <2>1. next = Answer(o, "absent")
    BY <1>9
  <2> HIDE DEF next
  <2>2. QED
    BY <2>1, <1>3, <1>6, AnswerTyped
<1>10. CASE j.does \in {"save", "delete"} /\ read = << >>
  <2> DEFINE todo == Changes(3, read, o.job.value, TRUE)
             q == [o EXCEPT !.phase = "run", !.read = << >>, !.todo = todo]
  <2>1. next = q
    BY <1>10 DEF Saving
  <2>2. Statements(todo)
    BY <1>4, <1>5, <1>6, ChangesTyped
  <2> HIDE DEF todo
  <2>3. /\ q.phase = "run" /\ q.todo = todo /\ q.read = << >> /\ q.job = j /\ q.held = {}
        /\ q.before = op[w].before /\ q.mine = op[w].mine /\ q.says = op[w].says
    BY <1>6 DEF Fields
  <2> HIDE DEF q, next
  <2>4. SessionTyped(q)
    BY <1>3, <2>2, <2>3, EmptyIs DEF SessionTyped
  <2>5. QED
    BY <2>1, <2>3, <2>4
<1>11. CASE j.does # "saveRoot" /\ ~ (j.does \in {"find", "change"} /\ read = << >>)
              /\ ~ (j.does \in {"save", "delete"} /\ read = << >>)
  <2> DEFINE q == [o EXCEPT !.phase = "lines"]
  <2>1. next = q
    BY <1>11
  <2>2. /\ q.phase = "lines" /\ q.todo = op[w].todo /\ q.read = read /\ q.job = j /\ q.held = {}
        /\ q.before = op[w].before /\ q.mine = op[w].mine /\ q.says = op[w].says
    BY <1>6 DEF Fields
  <2> HIDE DEF q, next
  <2>3. SessionTyped(q)
    BY <1>3, <1>4, <2>2 DEF SessionTyped
  <2>4. QED
    BY <2>1, <2>2, <2>3
<1>12. QED
  BY <1>8, <1>9, <1>10, <1>11

\* One that read the list.
LEMMA ReadLinesTyped ==
    ASSUME RepositoryInv, TablesInv, NEW w \in Sessions, ReadLines(w)
    PROVE  TablesInv'
<1> DEFINE read == Joined(op[w].read, ReadIn(w, 2))
           o == [op[w] EXCEPT !.read = read, !.phase = "notes"]
<1>1. op[w].phase = "lines" /\ db' = db /\ jobs' = jobs /\ faults' = faults
  BY DEF ReadLines
<1>2. op' = [op EXCEPT ![w] = o]
  BY DEF ReadLines, RepositoryInv
<1>3. op[w].held = {} /\ Fields(op[w]) /\ SessionTyped(op[w])
  BY <1>1, SessionIs, TypesOf DEF InTurn, ReadingPhases
<1>4. KeptRows(read)
  <2>1. KeptRows(op[w].read) /\ KeptRows(ReadIn(w, 2))
    BY <1>3, ReadInTyped DEF SessionTyped
  <2>2. QED
    BY <2>1, JoinedTyped
<1> HIDE DEF read
<1>5. /\ o.phase = "notes" /\ o.read = read /\ o.held = {} /\ o.job = op[w].job
      /\ o.before = op[w].before /\ o.todo = op[w].todo /\ o.mine = op[w].mine /\ o.says = op[w].says
  BY <1>3 DEF Fields
<1> HIDE DEF o
<1>6. SessionTyped(o)
  BY <1>1, <1>3, <1>4, <1>5 DEF SessionTyped
<1>7. QED
  BY <1>1, <1>2, <1>5, <1>6, QuietStep, SameCounts

\* One that read the last table, and answers or saves.
LEMMA ReadNotesTyped ==
    ASSUME RepositoryInv, TablesInv, NEW w \in Sessions, ReadNotes(w)
    PROVE  TablesInv'
<1> DEFINE does == op[w].job.does
           read == Joined(op[w].read, ReadIn(w, 3))
<1>1. op[w].phase = "notes" /\ db' = db /\ jobs' = jobs /\ faults' = faults
  BY DEF ReadNotes
<1>2. PICK a \in Assembled(read) :
         op' = [op EXCEPT ![w] =
            CASE does = "find" -> [Answer(@, "found") EXCEPT !.found = a]
              [] does = "change" -> SavingChanges(@, a)
              [] does \in {"save", "delete"} -> Saving(@, read)]
  BY DEF ReadNotes
<1>3. /\ op[w].held = {} /\ does \in {"find", "save", "change", "delete"}
      /\ Fields(op[w]) /\ SessionTyped(op[w]) /\ op[w].job \in Jobs
  BY <1>1, SessionIs, TypesOf DEF InTurn, ReadingPhases, SessionTyped
<1>4. KeptRows(read)
  <2>1. KeptRows(op[w].read) /\ KeptRows(ReadIn(w, 3))
    BY <1>3, ReadInTyped DEF SessionTyped
  <2>2. QED
    BY <2>1, JoinedTyped
<1>5. a \in Aggregates \cup {NoAggregate}
  BY <1>2, <1>4, KeptSome, AssembledAre
<1>6. op[w].job.value \in Aggregates \cup {NoAggregate}
  BY <1>3, JobIs
<1> HIDE DEF read
<1>7. CASE does = "find"
  <2> DEFINE b == Answer(op[w], "found")
             o == [b EXCEPT !.found = a]
  <2>1. op' = [op EXCEPT ![w] = o]
    BY <1>2, <1>7 DEF RepositoryInv
  <2>2. Fields(b) /\ SessionTyped(b) /\ b.held = {}
    BY <1>3, AnswerIs, AnswerTyped
  <2> HIDE DEF b
  <2>3. /\ o.phase = b.phase /\ o.job = b.job /\ o.read = b.read /\ o.before = b.before
        /\ o.todo = b.todo /\ o.held = b.held /\ o.mine = b.mine /\ o.says = b.says
    BY <2>2 DEF Fields
  <2> HIDE DEF o
  <2>4. SessionTyped(o)
    BY <2>2, <2>3 DEF SessionTyped
  <2>5. QED
    BY <1>1, <2>1, <2>2, <2>3, <2>4, QuietStep, SameCounts
<1>8. CASE does = "change"
  <2>1. op' = [op EXCEPT ![w] = SavingChanges(op[w], a)]
    BY <1>2, <1>8 DEF RepositoryInv
  <2>2. CASE Reordered(a, op[w].job.value)
    <3> DEFINE o == [op[w] EXCEPT !.phase = "again", !.read = << >>, !.before = a]
    <3>1. op' = [op EXCEPT ![w] = o]
      BY <2>1, <2>2 DEF SavingChanges
    <3>2. /\ o.phase = "again" /\ o.read = << >> /\ o.before = a /\ o.held = {} /\ o.job = op[w].job
          /\ o.todo = op[w].todo /\ o.mine = op[w].mine /\ o.says = op[w].says
      BY <1>3 DEF Fields
    <3> HIDE DEF o
    <3>3. SessionTyped(o)
      BY <1>3, <1>5, <3>2, EmptyIs DEF SessionTyped
    <3>4. QED
      BY <1>1, <3>1, <3>2, <3>3, QuietStep, SameCounts
  <2>3. CASE ~ Reordered(a, op[w].job.value)
    <3> DEFINE todo == Changes(3, Apart(a), op[w].job.value, FALSE)
               o == [op[w] EXCEPT !.phase = "run", !.read = << >>, !.todo = todo]
    <3>1. op' = [op EXCEPT ![w] = o]
      BY <2>1, <2>3 DEF SavingChanges
    <3>2. Statements(todo)
      <4>1. KeptRows(Apart(a)) /\ FALSE \in BOOLEAN
        BY <1>5, ApartTyped
      <4>2. QED
        BY <4>1, <1>6, ChangesTyped
    <3> HIDE DEF todo
    <3>3. /\ o.phase = "run" /\ o.read = << >> /\ o.before = op[w].before /\ o.held = {}
          /\ o.job = op[w].job /\ o.todo = todo /\ o.mine = op[w].mine /\ o.says = op[w].says
      BY <1>3 DEF Fields
    <3> HIDE DEF o
    <3>4. SessionTyped(o)
      BY <1>3, <3>2, <3>3, EmptyIs DEF SessionTyped
    <3>5. QED
      BY <1>1, <3>1, <3>3, <3>4, QuietStep, SameCounts
  <2>4. QED
    BY <2>2, <2>3
<1>9. CASE does \in {"save", "delete"}
  <2> DEFINE todo == Changes(3, read, op[w].job.value, TRUE)
             o == [op[w] EXCEPT !.phase = "run", !.read = << >>, !.todo = todo]
  <2>1. op' = [op EXCEPT ![w] = Saving(op[w], read)]
    BY <1>2, <1>9 DEF RepositoryInv
  <2>2. op' = [op EXCEPT ![w] = o]
    BY <2>1 DEF Saving
  <2>3. Statements(todo)
    BY <1>4, <1>6, ChangesTyped
  <2> HIDE DEF todo
  <2>4. /\ o.phase = "run" /\ o.read = << >> /\ o.before = op[w].before /\ o.held = {}
        /\ o.job = op[w].job /\ o.todo = todo /\ o.mine = op[w].mine /\ o.says = op[w].says
    BY <1>3 DEF Fields
  <2> HIDE DEF o
  <2>5. SessionTyped(o)
    BY <1>3, <2>3, <2>4, EmptyIs DEF SessionTyped
  <2>6. QED
    BY <1>1, <2>2, <2>4, <2>5, QuietStep, SameCounts
<1>10. QED
  BY <1>3, <1>7, <1>8, <1>9

\* One that read its list again.
LEMMA ReadAgainTyped ==
    ASSUME RepositoryInv, TablesInv, NEW w \in Sessions, ReadAgain(w)
    PROVE  TablesInv'
<1> DEFINE before == Apart(op[w].before)
           others == [r \in {q \in DOMAIN before : q[1] # 2} |-> before[r]]
           kept == Joined(others, ReadIn(w, 2))
           todo == Changes(3, kept, op[w].job.value, TRUE)
           o == [op[w] EXCEPT !.phase = "run", !.before = NoAggregate, !.todo = todo]
<1>1. /\ op[w].phase = "again" /\ db' = db /\ jobs' = jobs /\ faults' = faults
      /\ op' = [op EXCEPT ![w].phase = "run", ![w].before = NoAggregate, ![w].todo = todo]
  BY DEF ReadAgain
<1>2. op' = [op EXCEPT ![w] = o]
  <2> HIDE DEF todo
  <2> QED
    BY <1>1 DEF RepositoryInv
<1>3. /\ Fields(op[w]) /\ op[w].held = {} /\ SessionTyped(op[w]) /\ op[w].job \in Jobs
  BY <1>1, SessionIs, TypesOf DEF InTurn, ReadingPhases, SessionTyped
<1>4. KeptRows(before)
  BY <1>3, ApartTyped DEF SessionTyped
<1>5. KeptRows(others)
  <2> HIDE DEF before
  <2> QED
    BY <1>4 DEF KeptRows
<1>6. KeptRows(ReadIn(w, 2))
  BY ReadInTyped
<1>7. KeptRows(kept)
  <2> HIDE DEF others
  <2> QED
    BY <1>5, <1>6, JoinedTyped
<1>8. op[w].job.value \in Aggregates \cup {NoAggregate}
  BY <1>3, JobIs
<1> HIDE DEF kept
<1>9. Statements(todo)
  BY <1>7, <1>8, ChangesTyped
<1> HIDE DEF todo
<1>10. /\ o.phase = "run" /\ o.read = op[w].read /\ o.before = NoAggregate /\ o.held = {}
       /\ o.job = op[w].job /\ o.todo = todo /\ o.mine = op[w].mine /\ o.says = op[w].says
  BY <1>3 DEF Fields
<1> HIDE DEF o
<1>11. SessionTyped(o)
  BY <1>3, <1>9, <1>10 DEF SessionTyped
<1>12. QED
  BY <1>1, <1>2, <1>10, <1>11, QuietStep, SameCounts

\* A session's statement.
LEMMA RunTyped ==
    ASSUME RepositoryInv, TablesInv, NEW w \in Sessions, Run(w)
    PROVE  TablesInv'
<1> DEFINE s == Head(op[w].todo)
           seen == Seen(w)
           written == Written(s, seen)
           mine == [r \in Rows |-> IF r \in DOMAIN written THEN written[r] ELSE op[w].mine[r]]
           held == op[w].held \cup DOMAIN written
           todo == Tail(op[w].todo)
           o == [op[w] EXCEPT !.todo = todo, !.held = held, !.mine = mine]
<1>1. /\ op[w].phase = "run" /\ db' = db /\ op[w].todo # << >> /\ ~ Waits(w, s)
      /\ op' = [op EXCEPT ![w] = IF Refused(s, seen) THEN Answer(op[w], "refused") ELSE o]
      /\ jobs' = jobs /\ faults' = faults
  BY DEF Run, RepositoryInv
<1>2. Fields(op[w]) /\ SessionTyped(op[w]) /\ op[w].job \in Jobs
  BY <1>1, SessionIs, TypesOf DEF SessionTyped
<1>3. StatementIs(s) /\ Statements(todo)
  <2>1. Statements(op[w].todo)
    BY <1>2 DEF SessionTyped
  <2>2. s \in Range(op[w].todo) /\ IsList(todo) /\ Range(todo) \subseteq Range(op[w].todo)
    BY <1>1, <2>1, ListFacts, TailIs DEF Statements
  <2>3. QED
    BY <2>1, <2>2 DEF Statements
<1>4. CASE Refused(s, seen)
  <2> DEFINE a == Answer(op[w], "refused")
  <2>1. op' = [op EXCEPT ![w] = a]
    BY <1>1, <1>4
  <2>2. SessionTyped(a) /\ a.held = {}
    BY <1>2, AnswerTyped
  <2> HIDE DEF a
  <2>3. QED
    BY <1>1, <2>1, <2>2, QuietStep, SameCounts
<1>5. CASE ~ Refused(s, seen)
  <2>1. op' = [op EXCEPT ![w] = o]
    BY <1>1, <1>5
  <2>2. Tables(seen)
    BY SeenTyped
  <2>3. /\ DOMAIN written \subseteq Rows
        /\ \A r \in DOMAIN written : written[r] = NoRow \/ written[r] \in RowContents(r)
    BY <1>3, <2>2, StatementDoes
  <2>4. Tables(mine)
    <3>1. Tables(op[w].mine)
      BY <1>2 DEF SessionTyped
    <3> HIDE DEF written
    <3>2. QED
      BY <2>3, <3>1 DEF Tables
  <2>5. held \subseteq Rows
    BY <1>2, <2>3 DEF SessionTyped
  <2> DEFINE M == mine
             H == held
             T == todo
  <2> HIDE DEF M, H, T
  <2>6. o = [op[w] EXCEPT !.todo = T, !.held = H, !.mine = M]
    BY DEF M, H, T
  <2> HIDE DEF o
  <2>7. /\ o.phase = op[w].phase /\ o.job = op[w].job /\ o.read = op[w].read
        /\ o.before = op[w].before /\ o.todo = T /\ o.held = H /\ o.mine = M /\ o.says = op[w].says
    BY <1>2, <2>6 DEF Fields
  <2>8. SessionTyped(o)
    <3>1. Statements(T) /\ H \subseteq Rows /\ Tables(M)
      BY <1>3, <2>4, <2>5 DEF T, H, M
    <3>2. QED
      BY <1>1, <1>2, <2>7, <3>1 DEF SessionTyped
  <2>9. op = [v \in Sessions |-> op[v]] /\ Tables(db) /\ Sound(op, db)
    BY DEF RepositoryInv, TablesInv
  <2>10. o.held = held /\ o.mine = mine
    BY <2>7 DEF H, M
  <2>11. Sound([op EXCEPT ![w] = o], db)
    <3> HIDE DEF s
    <3> QED
      BY <1>1, <1>3, <1>5, <2>2, <2>9, <2>10, SoundRun
  <2>12. \A v \in Sessions : SessionTyped(op'[v])
    <3>1. op'[w] = o /\ \A v \in Sessions \ {w} : op'[v] = op[v]
      BY <2>1, <2>9
    <3>2. QED
      BY <3>1, <2>8, TypesOf
  <2>13. Sound(op', db') /\ Tables(db')
    BY <1>1, <2>1, <2>9, <2>11
  <2>14. QED
    BY <1>1, <2>12, <2>13, SameCounts DEF TablesInv
<1>6. QED
  BY <1>4, <1>5

\* What is committed is tables, whether the answer comes or is lost.
LEMMA CommitTyped ==
    ASSUME RepositoryInv, TablesInv, NEW w \in Sessions, Commit(w) \/ LoseAnswer(w)
    PROVE  TablesInv'
<1>1. PICK says \in {"done", "fault"} :
         op' = Disturbed([op EXCEPT ![w] = Answer(@, says)], w, Seen(w))
  BY DEF Commit, LoseAnswer
<1> DEFINE after == Seen(w)
           o == Answer(op[w], says)
           ops == [op EXCEPT ![w] = o]
<1>2. op[w].phase = "run" /\ db' = after /\ jobs' = jobs /\ faults' \in 0..MaxFaults
  <2>1. faults' = faults \/ (faults < MaxFaults /\ faults' = faults + 1)
    BY DEF Commit, LoseAnswer
  <2>2. QED
    BY <2>1, SameCounts, RepositoryAssumption DEF Commit, LoseAnswer
<1>3. /\ ops[w] = o /\ \A v \in Sessions \ {w} : ops[v] = op[v]
      /\ ops = [op EXCEPT ![w] = Answer(@, says)]
  BY DEF RepositoryInv
<1>4. SessionTyped(o) /\ o.held = {}
  <2>1. op[w].job \in Jobs
    BY <1>2, TypesOf DEF SessionTyped
  <2>2. QED
    BY <2>1, AnswerTyped
<1>5. Tables(after) /\ after = SeenOf(op[w], db)
  BY SeenTyped
<1> HIDE DEF after, o, ops
<1>6. op' = Disturbed(ops, w, after)
  BY <1>1, <1>3 DEF after
<1>7. op'[w] = o
  BY <1>3, <1>6 DEF Disturbed
<1>8. ASSUME NEW v \in Sessions, v # w
      PROVE  SessionTyped(op'[v]) /\ op'[v].held = op[v].held /\ op'[v].mine = op[v].mine
  <2> DEFINE p == op[v]
             q == [p EXCEPT !.alone = FALSE, !.was = << >>]
  <2>1. op'[v] = p \/ op'[v] = q
    <3>1. op'[v] = IF v = w \/ after = db \/ ops[v].phase = "idle" THEN ops[v]
                   ELSE [ops[v] EXCEPT !.alone = FALSE, !.was = << >>]
      BY <1>6 DEF Disturbed
    <3>2. ops[v] = p
      BY <1>3, <1>8
    <3>3. QED
      BY <1>8, <3>1, <3>2
  <2>2. Fields(p) /\ SessionTyped(p)
    BY SessionIs, TypesOf
  <2> HIDE DEF p
  <2>3. /\ q.phase = p.phase /\ q.job = p.job /\ q.read = p.read /\ q.before = p.before
        /\ q.todo = p.todo /\ q.held = p.held /\ q.mine = p.mine /\ q.says = p.says
    BY <2>2 DEF Fields
  <2> HIDE DEF q
  <2>4. SessionTyped(q)
    BY <2>2, <2>3 DEF SessionTyped
  <2>5. QED
    BY <2>1, <2>2, <2>3, <2>4 DEF p
<1>9. Sound(op', after)
  <2>1. Sound(op, db) /\ op'[w].held = {}
    BY <1>4, <1>7 DEF TablesInv
  <2>2. \A v \in Sessions \ {w} : op'[v].held = op[v].held /\ op'[v].mine = op[v].mine
    BY <1>8
  <2>3. Sound(op', SeenOf(op[w], db))
    BY <2>1, <2>2, SoundCommit
  <2>4. QED
    BY <2>3, <1>5
<1>10. \A v \in Sessions : SessionTyped(op'[v])
  BY <1>4, <1>7, <1>8
<1>11. Sound(op', db') /\ Tables(db')
  BY <1>2, <1>5, <1>9
<1>12. QED
  BY <1>2, <1>10, <1>11, SameCounts DEF TablesInv

\* Every step keeps the types and the tables sound.
LEMMA OneStepKeepsTables == RepositoryInv /\ TablesInv /\ [Next]_vars => TablesInv'
<1> SUFFICES ASSUME RepositoryInv, TablesInv, [Next]_vars PROVE TablesInv'
  OBVIOUS
<1>1. CASE UNCHANGED vars
  BY <1>1 DEF vars, TablesInv
<1>2. CASE Next
  <2>1. PICK w \in Sessions : \/ \E j \in May(w) : Ask(w, j)
                              \/ Step(w) \/ Fail(w) \/ LoseAnswer(w)
    BY <1>2 DEF Next
  <2>2. CASE \E j \in May(w) : Ask(w, j)
    BY <2>2, AskTyped
  <2>3. CASE ReadRoot(w)
    BY <2>3, ReadRootTyped
  <2>4. CASE ReadLines(w)
    BY <2>4, ReadLinesTyped
  <2>5. CASE ReadNotes(w)
    BY <2>5, ReadNotesTyped
  <2>6. CASE ReadAgain(w)
    BY <2>6, ReadAgainTyped
  <2>7. CASE Run(w)
    BY <2>7, RunTyped
  <2>8. CASE Commit(w) \/ LoseAnswer(w)
    BY <2>8, CommitTyped
  <2>9. CASE Return(w)
    <3>1. op' = [op EXCEPT ![w] = Rest] /\ db' = db /\ jobs' = jobs /\ faults' = faults
      BY <2>9 DEF Return
    <3>2. QED
      BY <3>1, RestTyped, QuietStep, SameCounts
  <2>10. CASE Fail(w) \/ \E v \in Sessions : Deadlocked(w, v)
    <3>1. PICK says \in {"fault", "deadlock"} : op' = [op EXCEPT ![w] = Answer(@, says)]
      BY <2>10 DEF Fail, Deadlocked
    <3> DEFINE o == Answer(op[w], says)
    <3>2. op' = [op EXCEPT ![w] = o] /\ db' = db
      BY <2>10, <3>1 DEF Fail, Deadlocked, RepositoryInv
    <3>3. op[w].phase # "idle"
      BY <2>10 DEF Fail, Deadlocked, Waiting
    <3>4. op[w].job \in Jobs
      BY <3>3, TypesOf DEF SessionTyped
    <3>5. SessionTyped(o) /\ o.held = {}
      BY <3>1, <3>4, AnswerTyped
    <3>6. jobs' \in 0..MaxJobs /\ faults' \in 0..MaxFaults
      <4>1. jobs' = jobs /\ (faults' = faults \/ (faults < MaxFaults /\ faults' = faults + 1))
        BY <2>10 DEF Fail, Deadlocked
      <4>2. QED
        BY <4>1, SameCounts, RepositoryAssumption
    <3> HIDE DEF o
    <3>7. QED
      BY <3>2, <3>5, <3>6, QuietStep
  <2>11. QED
    BY <2>1, <2>2, <2>3, <2>4, <2>5, <2>6, <2>7, <2>8, <2>9, <2>10 DEF Step
<1>3. QED
  BY <1>1, <1>2

\* What is stored at first is an aggregate's rows.
LEMMA StoredIs ==
    ASSUME NEW a \in Aggregates \cup {NoAggregate}
    PROVE  Tables(Stored(a)) /\ Closed(Stored(a))
<1> DEFINE kept == Apart(a)
           rows == Stored(a)
<1>1. KeptRows(kept) /\ DOMAIN kept = RowsOf(a)
  BY ApartTyped
<1>2. rows = [r \in Rows |-> IF r \in DOMAIN kept THEN kept[r] ELSE NoRow]
  BY DEF Stored
<1> HIDE DEF kept, rows
<1>3. \A r \in Rows : rows[r] = IF r \in RowsOf(a) THEN kept[r] ELSE NoRow
  BY <1>1, <1>2
<1>4. \A r \in RowsOf(a) : kept[r] \in RowContents(r) /\ kept[r] # NoRow
  BY <1>1, ContentsAre DEF KeptRows
<1>5. Tables(rows)
  BY <1>2, <1>3, <1>4 DEF Tables
<1>6. Closed(rows)
  <2>1. SUFFICES ASSUME NEW r \in Rows, NEW h \in Above(r), rows[r] # NoRow PROVE rows[h] # NoRow
    BY DEF Closed
  <2>2. r \in RowsOf(a)
    BY <1>3, <2>1
  <2>3. h \in RowsOf(a) /\ h \in Rows
    BY <2>2, RowsOfAre, AboveIs
  <2>4. QED
    BY <1>3, <1>4, <2>3
<1>7. QED
  BY <1>5, <1>6 DEF rows

\* It holds at first.
LEMMA StartsTyped == Init => TablesInv
<1> SUFFICES ASSUME Init PROVE TablesInv
  OBVIOUS
<1>1. Tables(db) /\ Closed(db)
  <2>1. PICK a \in Kept \cup {NoAggregate} : db = Stored(a)
    BY DEF Init
  <2>2. a \in Aggregates \cup {NoAggregate}
    BY RepositoryAssumption
  <2>3. QED
    BY <2>1, <2>2, StoredIs
<1>2. \A w \in Sessions : op[w] = Rest
  BY DEF Init
<1>3. \A w \in Sessions : Closed(SeenOf(op[w], db))
  <2>1. SUFFICES ASSUME NEW w \in Sessions PROVE Closed(SeenOf(Rest, db))
    BY <1>2
  <2>2. \A r \in Rows : SeenOf(Rest, db)[r] = db[r]
    BY RestTyped DEF SeenOf
  <2>3. \A r \in Rows : Above(r) \subseteq Rows
    BY AboveIs
  <2>4. QED
    BY <1>1, <2>2, <2>3 DEF Closed
<1>4. NotAcross(Rest, Rest)
  BY RestTyped DEF NotAcross
<1>5. Sound(op, db)
  BY <1>1, <1>2, <1>3, <1>4, RestTyped DEF Sound
<1>6. jobs \in 0..MaxJobs /\ faults \in 0..MaxFaults
  BY RepositoryAssumption DEF Init
<1>7. QED
  BY <1>1, <1>2, <1>5, <1>6, RestTyped DEF TablesInv

\* Every variable has its type, whatever the sessions do: each row is one of its
\* table, within what its columns hold, and a session holds rows only while it
\* runs statements.
THEOREM AlwaysTyped == Spec => []TypeOK
<1>1. TablesInv => TypeOK
  <2>1. SUFFICES ASSUME TablesInv PROVE TypeOK
    OBVIOUS
  <2>2. ASSUME NEW rows, Tables(rows) PROVE rows \in [Rows -> Contents \cup {NoRow}]
    <3>1. \A r \in Rows : rows[r] \in Contents \cup {NoRow}
      BY <2>2, ContentsAre DEF Tables
    <3>2. rows = [r \in Rows |-> rows[r]]
      BY <2>2 DEF Tables
    <3>3. QED
      BY <3>1, <3>2
  <2>3. db \in [Rows -> Contents \cup {NoRow}]
    BY <2>1, <2>2 DEF TablesInv
  <2>4. \A w \in Sessions : op[w].mine \in [Rows -> Contents \cup {NoRow}]
    BY <2>1, <2>2 DEF TablesInv, SessionTyped
  <2>5. QED
    BY <2>1, <2>3, <2>4 DEF TablesInv, SessionTyped, TypeOK
<1>2. Init => RepositoryInv /\ TablesInv
  BY StartsTrue, StartsTyped
<1>3. RepositoryInv /\ TablesInv /\ [Next]_vars => (RepositoryInv /\ TablesInv)'
  BY OneStepKeepsAnswers, OneStepKeepsTables
<1>4. QED
  BY <1>1, <1>2, <1>3, PTL DEF Spec

-----------------------------------------------------------------------------
(* What an aggregate read is of the rows it was read from. *)

PresentRows(rows) == {r \in Rows : rows[r] # NoRow}

ReadOf(a, rows) ==
    /\ a.name = rows[RootRow].value
    /\ \A e \in Elements : rows[Line(e)] # NoRow <=> \E i \in DOMAIN a.list : a.list[i].key = e
    /\ \A i \in DOMAIN a.list :
          LET e == a.list[i].key IN
          rows[Line(e)].value = a.list[i].value /\ (a.list[i].noted <=> rows[Note(e)] # NoRow)

\* The rows there are of a table.
LEMMA PresentIs ==
    ASSUME NEW rows, Tables(rows), NEW t
    PROVE  Present(rows, t) = {r \in Rows : r[1] = t /\ rows[r] # NoRow}
<1>1. DOMAIN rows = Rows
  BY DEF Tables
<1>2. QED
  BY <1>1 DEF Present

\* Nothing is there beneath no root.
LEMMA NothingBeneath ==
    ASSUME NEW rows, Closed(rows), rows[RootRow] = NoRow
    PROVE  \A r \in Rows : rows[r] = NoRow
<1>1. \A r \in Rows : r # RootRow => RootRow \in Above(r)
  BY RowKinds, AboveIs
<1>2. QED
  BY <1>1 DEF Closed

\* What rows are read as: no aggregate without a root, or one of theirs in order.
LEMMA AssembledIs ==
    ASSUME NEW rows, Tables(rows), Closed(rows), NEW a \in Assembled(rows)
    PROVE  IF rows[RootRow] = NoRow THEN a = NoAggregate
           ELSE /\ a \in Aggregates /\ ReadOf(a, rows)
                /\ \A i, j \in DOMAIN a.list : i < j =>
                      rows[Line(a.list[i].key)].position <= rows[Line(a.list[j].key)].position
<1>1. SomeRows(rows)
  BY TablesSome
<1>2. Present(rows, 1) = {} <=> rows[RootRow] = NoRow
  BY PresentIs, RowKinds
<1>3. CASE rows[RootRow] = NoRow
  BY <1>2, <1>3 DEF Assembled
<1>4. CASE rows[RootRow] # NoRow
  <2> DEFINE lines == Present(rows, 2)
             n == Cardinality(lines)
             entry(r) == [key |-> r[2], value |-> rows[r].value, noted |-> Note(r[2]) \in Present(rows, 3)]
             read(s) == [name |-> rows[RootRow].value, list |-> [i \in DOMAIN s |-> entry(s[i])]]
  <2>1. Assembled(rows) = {read(s) : s \in Listings(rows)}
    BY <1>2, <1>4 DEF Assembled
  <2>2. PICK s \in Listings(rows) : a = read(s)
    BY <2>1
  <2>3. /\ lines = {Line(e) : e \in {d \in Elements : Line(d) \in DOMAIN rows /\ rows[Line(d)] # NoRow}}
        /\ \A r \in lines : /\ r \in Rows /\ rows[r] # NoRow
                            /\ r = Line(r[2]) /\ r[2] \in Elements
        /\ n \in Nat
        /\ s \in [1..n -> lines] /\ Range(s) = lines
        /\ \A i, j \in 1..n : i < j => rows[s[i]].position <= rows[s[j]].position
    BY <1>1, LinesAre
  <2>4. \A r \in lines : entry(r).key = r[2] /\ entry(r).value = rows[r].value
                           /\ (entry(r).noted <=> rows[Note(r[2])] # NoRow)
    <3>1. \A e \in Elements : Note(e) \in Present(rows, 3) <=> rows[Note(e)] # NoRow
      BY PresentIs, RowKinds
    <3>2. QED
      BY <3>1, <2>3
  <2>5. /\ a.name = rows[RootRow].value /\ DOMAIN a.list = 1..n
        /\ \A i \in 1..n : a.list[i] = entry(s[i])
    BY <2>2, <2>3
  <2>6. \A e \in Elements : rows[Line(e)] # NoRow <=> Line(e) \in lines
    BY PresentIs, RowKinds
  <2> HIDE DEF lines, n, entry, read
  <2>7. \A i \in 1..n : s[i] \in lines /\ a.list[i].key = s[i][2] /\ s[i] = Line(a.list[i].key)
    BY <2>3, <2>4, <2>5
  <2>8. ReadOf(a, rows)
    <3>1. \A e \in Elements : rows[Line(e)] # NoRow <=> \E i \in DOMAIN a.list : a.list[i].key = e
      <4>1. ASSUME NEW e \in Elements, rows[Line(e)] # NoRow
            PROVE  \E i \in DOMAIN a.list : a.list[i].key = e
        <5>1. PICK i \in 1..n : s[i] = Line(e)
          BY <4>1, <2>6, <2>3 DEF Range
        <5>2. QED
          BY <5>1, <2>7, <2>5, RowKinds
      <4>2. ASSUME NEW e \in Elements, NEW i \in DOMAIN a.list, a.list[i].key = e
            PROVE  rows[Line(e)] # NoRow
        BY <4>2, <2>3, <2>5, <2>7
      <4>3. QED
        BY <4>1, <4>2
    <3>2. \A i \in DOMAIN a.list :
            LET e == a.list[i].key IN
            rows[Line(e)].value = a.list[i].value /\ (a.list[i].noted <=> rows[Note(e)] # NoRow)
      BY <2>4, <2>5, <2>7
    <3>3. QED
      BY <2>5, <3>1, <3>2 DEF ReadOf
  <2>9. \A i, j \in DOMAIN a.list : i < j =>
           rows[Line(a.list[i].key)].position <= rows[Line(a.list[j].key)].position
    BY <2>3, <2>5, <2>7
  <2>10. a \in Aggregates
    BY <1>1, <1>2, <1>4, AssembledAre
  <2>11. QED
    BY <1>4, <2>8, <2>9, <2>10
<1>5. QED
  BY <1>3, <1>4

\* An aggregate has the rows it was read from, and what they hold.
LEMMA ReadHasRows ==
    ASSUME NEW rows, Tables(rows), Closed(rows), NEW a \in Assembled(rows)
    PROVE  /\ RowsOf(a) = PresentRows(rows)
           /\ \A r \in RowsOf(a) : /\ Apart(a)[r].value = rows[r].value
                                   /\ r[1] # 2 => Apart(a)[r] = rows[r]
<1> DEFINE f == Apart(a)
<1>1. CASE rows[RootRow] = NoRow
  <2>1. a = NoAggregate /\ PresentRows(rows) = {}
    BY <1>1, AssembledIs, NothingBeneath DEF PresentRows
  <2>2. QED
    BY <2>1 DEF RowsOf
<1>2. CASE rows[RootRow] # NoRow
  <2>1. a \in Aggregates /\ ReadOf(a, rows)
    BY <1>2, AssembledIs
  <2>2. a # NoAggregate /\ a \in Aggregates \cup {NoAggregate}
    BY <2>1, AggregateIs
  <2>3. \A r \in Rows : r \in RowsOf(a) <=> rows[r] # NoRow
    <3>1. SUFFICES ASSUME NEW r \in Rows PROVE r \in RowsOf(a) <=> rows[r] # NoRow
      OBVIOUS
    <3>2. CASE r = RootRow
      BY <3>2, <1>2, <2>2, RowsOfAre
    <3>3. CASE r = Line(r[2]) /\ r[2] \in Elements
      <4>1. r \in RowsOf(a) <=> \E i \in DOMAIN a.list : a.list[i].key = r[2]
        BY <3>3, <2>2, RowsOfAre
      <4>2. QED
        BY <3>3, <4>1, <2>1 DEF ReadOf
    <3>4. CASE r = Note(r[2]) /\ r[2] \in Elements
      <4>1. r \in RowsOf(a) <=> \E i \in DOMAIN a.list : a.list[i].key = r[2] /\ a.list[i].noted
        BY <3>4, <2>2, RowsOfAre
      <4>2. \A i \in DOMAIN a.list : a.list[i].key = r[2] => (a.list[i].noted <=> rows[r] # NoRow)
        BY <2>1, <3>4 DEF ReadOf
      <4>3. rows[r] # NoRow => rows[Line(r[2])] # NoRow
        BY <3>4, AboveIs DEF Closed
      <4>4. rows[Line(r[2])] # NoRow => \E i \in DOMAIN a.list : a.list[i].key = r[2]
        BY <2>1, <3>4 DEF ReadOf
      <4>5. QED
        BY <4>1, <4>2, <4>3, <4>4
    <3>5. QED
      BY <3>2, <3>3, <3>4, RowKinds
  <2>4. RowsOf(a) = PresentRows(rows)
    BY <2>2, <2>3, RowsOfAre DEF PresentRows
  <2>5. /\ f[RootRow] = Content(a.name, 0)
        /\ \A i \in DOMAIN a.list : f[Line(a.list[i].key)] = Content(a.list[i].value, Numbered(Len(a.list))[i])
        /\ \A e \in Elements : Note(e) \in RowsOf(a) => f[Note(e)] = Content(NoRow, 0)
    <3> DEFINE g == ToBe(<< >>, a, FALSE)
    <3>1. f = g
      BY <2>2, ApartTyped
    <3>2. FALSE \in BOOLEAN
      OBVIOUS
    <3>3. /\ g[RootRow] = Content(a.name, 0)
          /\ \A i \in DOMAIN a.list : g[Line(a.list[i].key)] = Content(a.list[i].value, Numbered(Len(a.list))[i])
          /\ \A e \in Elements : Note(e) \in RowsOf(a) => g[Note(e)] = Content(NoRow, 0)
      BY <2>2, <3>2, ToBeIs
    <3> HIDE DEF f, g
    <3>4. QED
      BY <3>1, <3>3
  <2> HIDE DEF f
  <2>6. \A r \in RowsOf(a) : f[r].value = rows[r].value /\ (r[1] # 2 => f[r] = rows[r])
    <3>1. SUFFICES ASSUME NEW r \in RowsOf(a)
                   PROVE  f[r].value = rows[r].value /\ (r[1] # 2 => f[r] = rows[r])
      OBVIOUS
    <3>2. r \in Rows /\ rows[r] \in RowContents(r)
      BY <2>4 DEF PresentRows, Tables
    <3>3. rows[r] = Content(rows[r].value, rows[r].position)
      BY <3>2, ContentsAre
    <3>4. CASE r = RootRow
      <4>1. rows[r].position = 0 /\ rows[r].value = a.name
        BY <3>2, <3>4, <2>1, RowKinds DEF RowContents, ReadOf
      <4>2. QED
        BY <4>1, <3>3, <3>4, <2>5
    <3>5. CASE r = Line(r[2]) /\ r[2] \in Elements /\ r[1] = 2
      <4>1. PICK i \in DOMAIN a.list : a.list[i].key = r[2]
        BY <3>5, <2>2, RowsOfAre
      <4>2. f[r] = Content(a.list[i].value, Numbered(Len(a.list))[i])
        BY <4>1, <2>5, <3>5
      <4>3. rows[r].value = a.list[i].value
        BY <4>1, <2>1, <3>5 DEF ReadOf
      <4>4. QED
        BY <4>2, <4>3, <3>5, ContentsAre
    <3>6. CASE r = Note(r[2]) /\ r[2] \in Elements /\ r[1] = 3
      <4>1. rows[r].position = 0 /\ rows[r].value = NoRow
        BY <3>2, <3>6 DEF RowContents
      <4>2. QED
        BY <4>1, <3>3, <3>6, <2>5
    <3>7. QED
      BY <3>2, <3>4, <3>5, <3>6, RowKinds
  <2>7. QED
    BY <2>4, <2>6 DEF f
<1>3. QED
  BY <1>1, <1>2

-----------------------------------------------------------------------------
(* What an operation nobody came in between of leaves. *)

All == {1, 2, 3}

\* was, made what aggregate a is to be: a list not placed keeps its positions.
Left(was, a, placed) ==
    [r \in Rows |->
        IF r \notin RowsOf(a) THEN NoRow
        ELSE IF placed \/ was[r] = NoRow THEN ToBe(Part(was, All), a, placed)[r]
        ELSE Content(ToBe(Part(was, All), a, placed)[r].value, was[r].position)]

RootLeft(was, a) == [r \in Rows |-> IF r = RootRow THEN Content(a.name, 0) ELSE was[r]]

\* What an operation done, on what was stored, has left.
Outcome(j, was, T) ==
    \/ j.does = "saveRoot" /\ T = RootLeft(was, j.value)
    \/ j.does \in {"save", "delete"} /\ T = Left(was, j.value, TRUE)
    \/ j.does = "insert" /\ was[RootRow] = NoRow /\ T = Left(was, j.value, FALSE)
    \/ j.does = "change" /\ \E a \in Assembled(was) : T = Left(was, j.value, Reordered(a, j.value))

\* All three tables read are the rows there are.
LEMMA PartIs ==
    ASSUME NEW was, Tables(was)
    PROVE  /\ KeptRows(Part(was, All))
           /\ DOMAIN Part(was, All) = PresentRows(was)
           /\ \A r \in PresentRows(was) : Part(was, All)[r] = was[r]
<1> DEFINE f == Part(was, All)
<1>1. DOMAIN f = PresentRows(was)
  BY RowKinds DEF Part, All, PresentRows
<1>2. f = [r \in DOMAIN f |-> was[r]]
  BY DEF Part
<1> HIDE DEF f
<1>3. \A r \in PresentRows(was) : f[r] = was[r] /\ was[r] \in RowContents(r) /\ r \in Rows
  BY <1>1, <1>2 DEF PresentRows, Tables
<1>4. KeptRows(f)
  BY <1>1, <1>2, <1>3 DEF KeptRows
<1>5. QED
  BY <1>1, <1>3, <1>4 DEF f

\* What a save leaves: the aggregate's rows and no others, with its positions.
LEMMA LeftIs ==
    ASSUME NEW was, Tables(was), NEW a \in Aggregates \cup {NoAggregate}, NEW placed \in BOOLEAN
    PROVE  LET T == Left(was, a, placed) IN
           /\ Tables(T) /\ Closed(T) /\ PresentRows(T) = RowsOf(a)
           /\ a # NoAggregate =>
                 /\ T[RootRow] = Content(a.name, 0)
                 /\ \A i \in DOMAIN a.list :
                       LET r == Line(a.list[i].key) IN
                       T[r] = Content(a.list[i].value,
                                 IF placed THEN Placed(Part(was, All), a)[i]
                                 ELSE IF was[r] = NoRow THEN Numbered(Len(a.list))[i]
                                 ELSE was[r].position)
<1> DEFINE T == Left(was, a, placed)
           W == ToBe(Part(was, All), a, placed)
<1>1. /\ \A r \in RowsOf(a) : W[r] \in RowContents(r)
      /\ a # NoAggregate =>
            /\ W[RootRow] = Content(a.name, 0)
            /\ \A i \in DOMAIN a.list :
                  W[Line(a.list[i].key)] =
                     Content(a.list[i].value,
                             IF placed THEN Placed(Part(was, All), a)[i] ELSE Numbered(Len(a.list))[i])
  BY ToBeIs
<1>2. T = [r \in Rows |-> IF r \notin RowsOf(a) THEN NoRow
                          ELSE IF placed \/ was[r] = NoRow THEN W[r]
                          ELSE Content(W[r].value, was[r].position)]
  BY DEF Left
<1> HIDE DEF W, T
<1>3. /\ RowsOf(a) \subseteq Rows
      /\ \A r \in RowsOf(a) : Above(r) \subseteq RowsOf(a)
      /\ RootRow \in RowsOf(a) <=> a # NoAggregate
  BY RowsOfAre
<1>4. ASSUME NEW r \in RowsOf(a) PROVE T[r] \in RowContents(r)
  <2>1. r \in Rows /\ W[r] \in RowContents(r)
    BY <1>1, <1>3
  <2>2. CASE placed \/ was[r] = NoRow
    BY <1>2, <2>1, <2>2
  <2>3. CASE ~ (placed \/ was[r] = NoRow)
    <3>1. was[r] \in RowContents(r) /\ T[r] = Content(W[r].value, was[r].position)
      BY <1>2, <2>1, <2>3 DEF Tables
    <3>2. was[r] = Content(was[r].value, was[r].position) /\ W[r] = Content(W[r].value, W[r].position)
      BY <2>1, <3>1, ContentsAre
    <3>3. QED
      BY <2>1, <3>1, <3>2, ContentsAre
  <2>4. QED
    BY <2>2, <2>3
<1>5. \A r \in RowsOf(a) : T[r] # NoRow
  BY <1>4, ContentsAre
<1>6. \A r \in Rows \ RowsOf(a) : T[r] = NoRow
  BY <1>2
<1>7. T = [r \in Rows |-> T[r]]
  BY <1>2
<1>8. Tables(T)
  BY <1>4, <1>6, <1>7 DEF Tables
<1>9. Closed(T)
  BY <1>3, <1>5, <1>6 DEF Closed
<1>10. PresentRows(T) = RowsOf(a)
  BY <1>3, <1>5, <1>6 DEF PresentRows
<1>11. ASSUME a # NoAggregate
       PROVE  T[RootRow] = Content(a.name, 0)
  <2>1. W[RootRow] = Content(a.name, 0) /\ RootRow \in RowsOf(a) /\ RootRow \in Rows
    BY <1>1, <1>3, <1>11, RowKinds
  <2>2. CASE placed \/ was[RootRow] = NoRow
    BY <1>2, <2>1, <2>2
  <2>3. CASE ~ (placed \/ was[RootRow] = NoRow)
    <3>1. was[RootRow].position = 0
      BY <2>1, <2>3, RowKinds DEF Tables, RowContents
    <3>2. QED
      BY <1>2, <2>1, <2>3, <3>1, ContentsAre
  <2>4. QED
    BY <2>2, <2>3
<1>12. ASSUME a # NoAggregate, NEW i \in DOMAIN a.list
       PROVE  T[Line(a.list[i].key)] =
                 Content(a.list[i].value,
                     IF placed THEN Placed(Part(was, All), a)[i]
                     ELSE IF was[Line(a.list[i].key)] = NoRow THEN Numbered(Len(a.list))[i]
                     ELSE was[Line(a.list[i].key)].position)
  <2> DEFINE r == Line(a.list[i].key)
  <2>1. a \in Aggregates
    BY <1>12
  <2>2. a.list[i].key \in Elements
    BY <2>1, AggregateIs
  <2>3. r \in RowsOf(a)
    BY <2>2, <1>12, RowsOfAre
  <2>4. r \in Rows /\ W[r] = Content(a.list[i].value,
                             IF placed THEN Placed(Part(was, All), a)[i] ELSE Numbered(Len(a.list))[i])
    BY <1>1, <1>3, <1>12, <2>3
  <2> HIDE DEF r
  <2>5. W[r].value = a.list[i].value
    BY <2>4 DEF Content
  <2>6. T[r] = Content(a.list[i].value,
                     IF placed THEN Placed(Part(was, All), a)[i]
                     ELSE IF was[r] = NoRow THEN Numbered(Len(a.list))[i]
                     ELSE was[r].position)
    BY <1>2, <2>3, <2>4, <2>5
  <2>7. QED
    BY <2>6 DEF r
<1>13. QED
  BY <1>8, <1>9, <1>10, <1>11, <1>12 DEF T

\* What a root saved leaves: its row, and the others as they were.
LEMMA RootLeftIs ==
    ASSUME NEW was, Tables(was), Closed(was), NEW a \in Aggregates
    PROVE  LET T == RootLeft(was, a) IN
           /\ Tables(T) /\ Closed(T) /\ T[RootRow] = Content(a.name, 0) /\ T[RootRow] # NoRow
           /\ \A r \in Rows \ {RootRow} : T[r] = was[r]
<1> DEFINE T == RootLeft(was, a)
<1>1. T = [r \in Rows |-> IF r = RootRow THEN Content(a.name, 0) ELSE was[r]]
  BY DEF RootLeft
<1> HIDE DEF T
<1>2. a.name \in Values
  BY AggregateIs
<1>3. T[RootRow] = Content(a.name, 0) /\ Content(a.name, 0) \in RowContents(RootRow)
  BY <1>1, <1>2, RowKinds, ContentsAre
<1>4. T[RootRow] # NoRow
  BY <1>3, ContentsAre
<1>5. \A r \in Rows \ {RootRow} : T[r] = was[r]
  BY <1>1
<1>6. T = [r \in Rows |-> T[r]]
  BY <1>1
<1>7. Tables(T)
  BY <1>3, <1>5, <1>6 DEF Tables
<1>8. Closed(T)
  <2>1. SUFFICES ASSUME NEW r \in Rows, NEW h \in Above(r), T[r] # NoRow PROVE T[h] # NoRow
    BY DEF Closed
  <2>2. r # RootRow /\ h \in Rows
    BY <2>1, AboveIs
  <2>3. was[h] # NoRow
    BY <2>1, <2>2, <1>5 DEF Closed
  <2>4. QED
    BY <1>4, <1>5, <2>2, <2>3
<1>9. QED
  BY <1>3, <1>4, <1>5, <1>7, <1>8 DEF T

\* What is left is rows of the aggregate's tables, and names what is asked.
LEMMA OutcomeIs ==
    ASSUME NEW was, Tables(was), Closed(was), NEW j \in Jobs, NEW T, Outcome(j, was, T)
    PROVE  /\ Tables(T) /\ Closed(T)
           /\ j.does \in {"save", "change", "insert", "saveRoot"} => T[RootRow] = Content(j.value.name, 0)
           /\ j.does # "saveRoot" => /\ PresentRows(T) = RowsOf(j.value)
                                     /\ \E placed \in BOOLEAN : T = Left(was, j.value, placed)
           /\ j.does \in {"save", "change", "insert"} =>
                 \A i \in DOMAIN j.value.list : T[Line(j.value.list[i].key)].value = j.value.list[i].value
<1> DEFINE a == j.value
<1>1. /\ j.does \in {"save", "change", "insert", "saveRoot"} => a \in Aggregates /\ a # NoAggregate
      /\ a \in Aggregates \cup {NoAggregate}
  BY JobIs, AggregateIs
<1>2. CASE j.does = "saveRoot"
  <2>1. T = RootLeft(was, a)
    BY <1>2 DEF Outcome
  <2>2. QED
    BY <1>1, <1>2, <2>1, RootLeftIs
<1>3. CASE j.does # "saveRoot"
  <2>1. PICK placed \in BOOLEAN : T = Left(was, a, placed)
    BY <1>3 DEF Outcome, Reordered
  <2>2. /\ Tables(T) /\ Closed(T) /\ PresentRows(T) = RowsOf(a)
        /\ a # NoAggregate =>
              /\ T[RootRow] = Content(a.name, 0)
              /\ \A i \in DOMAIN a.list : \E p : T[Line(a.list[i].key)] = Content(a.list[i].value, p)
    BY <1>1, <2>1, LeftIs
  <2>3. QED
    BY <1>1, <1>3, <2>1, <2>2, ContentsAre
<1>4. QED
  BY <1>2, <1>3

-----------------------------------------------------------------------------
(* The statements still to run lead from what is seen to what is left. *)

Leads(x, was, seen, T) ==
    \A r \in DOMAIN x.rows :
        /\ x.does = "delete" => T[r] = NoRow
        /\ x.does # "delete" => T[r] # NoRow
        /\ x.does = "insert" => seen[r] = NoRow /\ T[r] = x.rows[r]
        /\ x.does = "update" =>
              /\ seen[r] = was[r] /\ was[r] # NoRow
              /\ T[r] = IF x.rows[r].position = Ignored
                        THEN Content(x.rows[r].value, was[r].position) ELSE x.rows[r]
        /\ x.does = "upsert" => seen[r] = was[r] /\ T[r] = x.rows[r]

Plan(todo, was, seen, T) ==
    /\ Orderly(todo) /\ Statements(todo)
    /\ \A x \in Range(todo) : Leads(x, was, seen, T)
    /\ \A r \in Rows \ Covered(todo) : seen[r] = T[r]

\* What is written is not what was, unless it is to be written either way.
Needed(todo, was, T) == \A r \in Covered(todo) : T[r] # was[r]

\* A save's statements lead from what was to what is to be left, and write
\* nothing that was so already.
LEMMA ChangesLead ==
    ASSUME NEW was, Tables(was), NEW a \in Aggregates \cup {NoAggregate}, NEW placed \in BOOLEAN,
           NEW kept, KeptRows(kept), DOMAIN kept = PresentRows(was),
           \A r \in DOMAIN kept : kept[r].value = was[r].value,
           placed => kept = Part(was, All)
    PROVE  LET c == Changes(3, kept, a, placed)
               T == Left(was, a, placed) IN
           Plan(c, was, was, T) /\ Needed(c, was, T)
<1> DEFINE c == Changes(3, kept, a, placed)
           T == Left(was, a, placed)
           W == ToBe(kept, a, placed)
<1>1. /\ Orderly(c) /\ Covered(c) = Gone3(kept, a) \cup Written3(kept, a, placed)
      /\ \A x \in Range(c) : IsDeletion(x, kept, a) \/ IsWrite(x, kept, a, placed)
  <2>1. /\ Orderly(c)
        /\ Covered(c) = IF 3 = 1 THEN In(1, Gone3(kept, a) \cup Written3(kept, a, placed))
                         ELSE Gone3(kept, a) \cup Written3(kept, a, placed)
        /\ \A x \in Range(c) : IsDeletion(x, kept, a) \/ IsWrite(x, kept, a, placed)
    <3>1. 3 \in {1, 3}
      OBVIOUS
    <3>2. QED
      BY <3>1, ChangesAre, Zenon
  <2>2. 3 # 1
    OBVIOUS
  <2> HIDE DEF c
  <2>3. QED
    BY <2>1, <2>2
<1>2. Statements(c)
  BY ChangesTyped
<1>3. W = ToBe(Part(was, All), a, placed)
  BY DEF ToBe
<1>4. T = [r \in Rows |-> IF r \notin RowsOf(a) THEN NoRow
                          ELSE IF placed \/ was[r] = NoRow THEN W[r]
                          ELSE Content(W[r].value, was[r].position)]
  BY <1>3 DEF Left
<1>5. RowsOf(a) \subseteq Rows /\ \A r \in RowsOf(a) : W[r] \in RowContents(r)
  BY ToBeIs, RowsOfAre
<1>6. \A r \in Rows : r \in DOMAIN kept <=> was[r] # NoRow
  BY DEF PresentRows
<1>7. placed => \A r \in DOMAIN kept : kept[r] = was[r]
  BY PartIs
<1>8. DOMAIN kept \subseteq Rows
  BY DEF KeptRows
<1>9. PresentRows(T) = RowsOf(a)
  BY LeftIs
<1> HIDE DEF c, T, W
<1>10. \A r \in Rows \ RowsOf(a) : T[r] = NoRow
  BY <1>4
<1>11. \A r \in RowsOf(a) \ DOMAIN kept : T[r] = W[r] /\ T[r] # NoRow /\ was[r] = NoRow
  <2>1. \A r \in RowsOf(a) : T[r] # NoRow
    BY <1>9 DEF PresentRows
  <2>2. QED
    BY <2>1, <1>4, <1>5, <1>6
\* A row that is kept, and what says it is to be another.
<1>12. ASSUME NEW r \in RowsOf(a) \cap DOMAIN kept
       PROVE  /\ was[r] # NoRow /\ was[r] \in RowContents(r)
              /\ T[r] = IF placed THEN W[r] ELSE Content(W[r].value, was[r].position)
              /\ T[r] # NoRow
              /\ Same(r, kept, W, placed) <=> T[r] = was[r]
  <2>1. r \in Rows /\ was[r] # NoRow /\ was[r] \in RowContents(r) /\ W[r] \in RowContents(r)
    BY <1>5, <1>6 DEF Tables
  <2>2. T[r] = IF placed THEN W[r] ELSE Content(W[r].value, was[r].position)
    BY <2>1, <1>4
  <2>3. kept[r].value = was[r].value /\ (placed => kept[r].position = was[r].position)
    BY <1>7
  <2>4. was[r] = Content(was[r].value, was[r].position) /\ W[r] = Content(W[r].value, W[r].position)
    BY <2>1, ContentsAre
  <2>5. \A v, p, u, q : Content(v, p) = Content(u, q) <=> v = u /\ p = q
    BY ContentsAre
  <2>6. Same(r, kept, W, placed) <=> T[r] = was[r]
    <3>1. CASE placed
      <4>1. Same(r, kept, W, placed) <=> was[r].value = W[r].value /\ was[r].position = W[r].position
        BY <2>3, <3>1 DEF Same
      <4>2. QED
        BY <4>1, <2>2, <2>4, <2>5, <3>1
    <3>2. CASE ~ placed
      <4>1. Same(r, kept, W, placed) <=> was[r].value = W[r].value
        BY <2>3, <3>2 DEF Same
      <4>2. QED
        BY <4>1, <2>2, <2>4, <2>5, <3>2
    <3>3. QED
      BY <3>1, <3>2
  <2>7. T[r] # NoRow
    BY <1>9 DEF PresentRows
  <2>8. QED
    BY <2>1, <2>2, <2>6, <2>7
<1>13. ASSUME NEW x \in Range(c) PROVE Leads(x, was, was, T)
  <2>1. CASE IsDeletion(x, kept, a)
    <3>1. x.does = "delete" /\ \A r \in DOMAIN x.rows : r \in Rows \ RowsOf(a)
      BY <2>1, <1>8 DEF IsDeletion, Of
    <3>2. QED
      BY <3>1, <1>10 DEF Leads
  <2>2. CASE IsInsertion(x, kept, a, placed)
    <3>1. x.does = "insert" /\ \A r \in DOMAIN x.rows : r \in RowsOf(a) \ DOMAIN kept /\ x.rows[r] = W[r]
      <4>1. x.rows = [r \in DOMAIN x.rows |-> W[r]]
        BY <2>2 DEF IsInsertion, W
      <4>2. QED
        BY <2>2, <4>1 DEF IsInsertion, Of
    <3>2. QED
      BY <3>1, <1>11 DEF Leads
  <2>3. CASE IsUpdate(x, kept, a, placed)
    <3>1. PICK r \in RowsOf(a) \cap DOMAIN kept : x = Update(r, W, placed)
      BY <2>3 DEF IsUpdate, W
    <3>2. /\ x.does = "update" /\ DOMAIN x.rows = {r}
          /\ x.rows[r] = Content(W[r].value, IF placed THEN W[r].position ELSE Ignored)
      BY <3>1 DEF Update, Statement
    <3>3. W[r] \in RowContents(r)
      BY <1>5
    <3>4. x.rows[r].position = Ignored <=> ~ placed
      BY <3>2, <3>3, ContentsAre
    <3>5. x.rows[r].value = W[r].value /\ (placed => x.rows[r] = W[r])
      BY <3>2, <3>3, ContentsAre
    <3>6. T[r] = IF x.rows[r].position = Ignored
                 THEN Content(x.rows[r].value, was[r].position) ELSE x.rows[r]
      BY <3>4, <3>5, <1>12
    <3>7. QED
      BY <3>2, <3>6, <1>12 DEF Leads
  <2>4. QED
    BY <1>1, <2>1, <2>2, <2>3 DEF IsWrite
<1>14. ASSUME NEW r \in Rows, r \notin Covered(c) PROVE was[r] = T[r]
  <2>1. r \notin Gone3(kept, a) /\ r \notin Written3(kept, a, placed)
    BY <1>1, <1>14
  <2>2. CASE r \in RowsOf(a)
    <3>1. r \in DOMAIN kept /\ Same(r, kept, W, placed)
      BY <2>1, <2>2 DEF Written3, W
    <3>2. QED
      BY <3>1, <2>2, <1>12
  <2>3. CASE r \notin RowsOf(a)
    <3>1. r \notin DOMAIN kept
      BY <2>1, <2>3 DEF Gone3
    <3>2. QED
      BY <3>1, <2>3, <1>6, <1>10
  <2>4. QED
    BY <2>2, <2>3
<1>15. ASSUME NEW r \in Covered(c) PROVE T[r] # was[r]
  <2>1. CASE r \in Gone3(kept, a)
    BY <2>1, <1>6, <1>8, <1>10 DEF Gone3
  <2>2. CASE r \in RowsOf(a) \ DOMAIN kept
    BY <2>2, <1>11
  <2>3. CASE r \in RowsOf(a) \cap DOMAIN kept /\ ~ Same(r, kept, W, placed)
    BY <2>3, <1>12
  <2>4. QED
    BY <1>1, <2>1, <2>2, <2>3 DEF Written3, W
<1>16. QED
  BY <1>1, <1>2, <1>13, <1>14, <1>15 DEF Plan, Needed, c, T

-----------------------------------------------------------------------------
(* Every operation's statements lead to what it is to leave. *)

\* A new aggregate's rows, where there is none.
LEMMA InsertingLeads ==
    ASSUME NEW was, Tables(was), Closed(was), was[RootRow] = NoRow, NEW a \in Aggregates
    PROVE  Plan(Inserting(a).todo, was, was, Left(was, a, FALSE))
<1> DEFINE c == Inserting(a).todo
           T == Left(was, a, FALSE)
           W == Apart(a)
<1>1. /\ Orderly(c) /\ Covered(c) = RowsOf(a) /\ Statements(c)
      /\ \A x \in Range(c) : x.does = "insert" /\ x.rows = [r \in DOMAIN x.rows |-> W[r]]
  BY InsertingIs
<1>2. \A r \in Rows : was[r] = NoRow
  BY NothingBeneath
<1>3. a \in Aggregates \cup {NoAggregate} /\ FALSE \in BOOLEAN
  OBVIOUS
<1>4. RowsOf(a) \subseteq Rows
  BY <1>3, RowsOfAre
<1>5. PresentRows(T) = RowsOf(a)
  BY <1>3, LeftIs
<1>6. T = [r \in Rows |-> IF r \notin RowsOf(a) THEN NoRow
                          ELSE IF FALSE \/ was[r] = NoRow THEN W[r]
                          ELSE Content(W[r].value, was[r].position)]
  <2>1. W = ToBe(Part(was, All), a, FALSE)
    BY DEF ToBe
  <2> HIDE DEF W
  <2>2. QED
    BY <2>1 DEF Left
<1> HIDE DEF c, T, W
<1>7. \A r \in RowsOf(a) : T[r] = W[r] /\ T[r] # NoRow /\ was[r] = NoRow
  BY <1>2, <1>4, <1>5, <1>6 DEF PresentRows
<1>8. \A x \in Range(c) : DOMAIN x.rows \subseteq RowsOf(a)
  BY <1>1 DEF Covered
<1>9. ASSUME NEW x \in Range(c) PROVE Leads(x, was, was, T)
  <2>1. x.does = "insert" /\ \A r \in DOMAIN x.rows : r \in RowsOf(a) /\ x.rows[r] = W[r]
    BY <1>1, <1>8
  <2>2. QED
    BY <2>1, <1>7 DEF Leads
<1>10. \A r \in Rows \ Covered(c) : was[r] = T[r]
  BY <1>1, <1>2, <1>6
<1>11. QED
  BY <1>1, <1>9, <1>10 DEF Plan, c, T

\* A root over one that is there, or that no other may hold the value of.
LEMMA RootChangesLead ==
    ASSUME NEW was, Tables(was), Closed(was), NEW a \in Aggregates
    PROVE  /\ Plan(Changes(1, Part(was, {1}), a, TRUE), was, was, RootLeft(was, a))
           /\ Covered(Changes(1, Part(was, {1}), a, TRUE)) \subseteq {RootRow}
<1> DEFINE kept == Part(was, {1})
           c == Changes(1, kept, a, TRUE)
           T == RootLeft(was, a)
           W == ToBe(kept, a, TRUE)
           root == Content(a.name, 0)
<1>1. kept = [r \in {q \in Rows : q = RootRow /\ was[q] # NoRow} |-> was[r]]
  BY RowIs DEF Part
<1> HIDE DEF kept
<1>2. /\ DOMAIN kept = {q \in Rows : q = RootRow /\ was[q] # NoRow}
      /\ \A r \in DOMAIN kept : kept[r] = was[r] /\ was[r] \in RowContents(r)
  BY <1>1 DEF Tables
<1>3. KeptRows(kept)
  BY <1>1, <1>2 DEF KeptRows
<1>4. a \in Aggregates \cup {NoAggregate} /\ TRUE \in BOOLEAN /\ 1 \in {1, 3} /\ a # NoAggregate
  BY AggregateIs
<1>5. /\ Orderly(c)
      /\ Covered(c) = IF 1 = 1 THEN In(1, Gone3(kept, a) \cup Written3(kept, a, TRUE))
                      ELSE Gone3(kept, a) \cup Written3(kept, a, TRUE)
      /\ \A x \in Range(c) : IsDeletion(x, kept, a) \/ IsWrite(x, kept, a, TRUE)
  BY <1>3, <1>4, ChangesAre, Zenon
<1>6. Statements(c)
  BY <1>3, <1>4, ChangesTyped
<1>7. W[RootRow] = root /\ \A r \in RowsOf(a) : W[r] \in RowContents(r)
  BY <1>4, ToBeIs
<1>8. /\ Tables(T) /\ T[RootRow] = root /\ T[RootRow] # NoRow
      /\ \A r \in Rows \ {RootRow} : T[r] = was[r]
  BY RootLeftIs
<1>9. RootRow \in RowsOf(a) /\ RowsOf(a) \subseteq Rows
  BY <1>4, RowsOfAre
<1> HIDE DEF c, T, W, root
<1>10. DOMAIN kept \ RowsOf(a) = {}
  BY <1>2, <1>9
<1>11. Covered(c) \subseteq {RootRow}
  <2>1. Covered(c) = In(1, Gone3(kept, a) \cup Written3(kept, a, TRUE))
    BY <1>5
  <2>2. \A r \in Covered(c) : r \in Rows /\ r[1] = 1
    BY <2>1, <1>9, <1>10 DEF In, Gone3, Written3
  <2>3. QED
    BY <2>2, RowIs
<1>12. \A x \in Range(c) : DOMAIN x.rows = {RootRow}
  <2>1. \A x \in Range(c) : DOMAIN x.rows # {}
    BY <1>6 DEF Statements, StatementIs
  <2>2. \A x \in Range(c) : DOMAIN x.rows \subseteq Covered(c)
    BY DEF Covered
  <2>3. QED
    BY <1>11, <2>1, <2>2
<1>13. ASSUME NEW x \in Range(c) PROVE Leads(x, was, was, T)
  <2>1. DOMAIN x.rows = {RootRow}
    BY <1>12
  <2>2. CASE IsDeletion(x, kept, a)
    BY <2>1, <2>2, <1>10 DEF IsDeletion, Of
  <2>3. CASE IsInsertion(x, kept, a, TRUE)
    <3>1. x.does = "insert" /\ RootRow \notin DOMAIN kept /\ x.rows[RootRow] = root
      <4>1. x.rows = [r \in DOMAIN x.rows |-> W[r]]
        BY <2>3 DEF IsInsertion, W
      <4>2. QED
        BY <2>1, <2>3, <4>1, <1>7 DEF IsInsertion, Of
    <3>2. was[RootRow] = NoRow
      BY <3>1, <1>2, RowKinds
    <3>3. QED
      BY <2>1, <3>1, <3>2, <1>8 DEF Leads
  <2>4. CASE IsUpdate(x, kept, a, TRUE)
    <3>1. PICK r \in RowsOf(a) \cap DOMAIN kept : x = Update(r, W, TRUE)
      BY <2>4 DEF IsUpdate, W
    <3>2. /\ x.does = "update" /\ DOMAIN x.rows = {r}
          /\ x.rows[r] = Content(W[r].value, IF TRUE THEN W[r].position ELSE Ignored)
      BY <3>1 DEF Update, Statement
    <3>3. r = RootRow /\ was[r] # NoRow
      BY <3>1, <1>2
    <3>4. x.rows[r] = root /\ root.position # Ignored
      BY <3>2, <3>3, <1>7, <1>9, ContentsAre
    <3>5. QED
      BY <3>2, <3>3, <3>4, <1>8 DEF Leads
  <2>5. QED
    BY <1>5, <2>2, <2>3, <2>4 DEF IsWrite
<1>14. ASSUME NEW r \in Rows, r \notin Covered(c) PROVE was[r] = T[r]
  <2>1. CASE r # RootRow
    BY <2>1, <1>8
  <2>2. CASE r = RootRow
    <3>1. RootRow \notin Written3(kept, a, TRUE)
      BY <1>5, <1>14, <2>2, RowKinds DEF In
    <3>2. RootRow \in DOMAIN kept /\ Same(RootRow, kept, W, TRUE)
      BY <3>1, <1>9 DEF Written3, W
    <3>3. was[RootRow] \in RowContents(RootRow) /\ kept[RootRow] = was[RootRow]
      BY <3>2, <1>2
    <3>4. was[RootRow].value = root.value /\ was[RootRow].position = root.position
      BY <3>2, <3>3, <1>7 DEF Same
    <3>5. was[RootRow] = root
      BY <3>3, <3>4, <1>7, <1>9, ContentsAre
    <3>6. QED
      BY <2>2, <3>5, <1>8
  <2>3. QED
    BY <2>1, <2>2
<1>15. QED
  BY <1>5, <1>6, <1>11, <1>13, <1>14 DEF Plan, c, T, kept

\* A root's upsert leads to the root saved.
LEMMA UpsertLeads ==
    ASSUME NEW was, Tables(was), Closed(was), NEW a \in Aggregates, ~ mapping.alsoUnique
    PROVE  /\ Plan(SavingRoot(a).todo, was, was, RootLeft(was, a))
           /\ Covered(SavingRoot(a).todo) \subseteq {RootRow}
<1> DEFINE x == Statement("upsert", [r \in {RootRow} |-> Content(a.name, 0)])
           c == SavingRoot(a).todo
           T == RootLeft(was, a)
<1>1. c = <<x>>
  BY DEF SavingRoot
<1>2. x.does = "upsert" /\ DOMAIN x.rows = {RootRow} /\ x.rows[RootRow] = Content(a.name, 0)
      /\ x.rows = [r \in {RootRow} |-> x.rows[r]]
  BY DEF Statement
<1>3. /\ T[RootRow] = Content(a.name, 0) /\ T[RootRow] # NoRow
      /\ \A r \in Rows \ {RootRow} : T[r] = was[r]
  BY RootLeftIs
<1> HIDE DEF x, c, T
<1>4. IsList(c) /\ Len(c) = 1 /\ Range(c) = {x} /\ c[1] = x
  <2>1. c = [i \in 1..1 |-> c[i]] /\ c[1] = x /\ Len(c) = 1
    BY <1>1
  <2>2. 1 \in Nat
    OBVIOUS
  <2>3. IsList(c) /\ Range(c) = {c[i] : i \in 1..1}
    BY <2>1, <2>2, ListIs
  <2>4. QED
    BY <2>1, <2>3
<1>5. Orderly(c)
  BY <1>4 DEF Orderly
<1>6. Covered(c) = {RootRow}
  BY <1>2, <1>4 DEF Covered
<1>7. Statements(c)
  <2>1. a.name \in Values
    BY AggregateIs
  <2>2. Content(a.name, 0) \in RowContents(RootRow)
    BY <2>1, RowKinds, ContentsAre
  <2>3. StatementIs(x)
    BY <1>2, <2>2, RowKinds DEF StatementIs
  <2>4. QED
    BY <1>4, <2>3 DEF Statements
<1>8. Leads(x, was, was, T)
  BY <1>2, <1>3 DEF Leads
<1>9. QED
  BY <1>3, <1>4, <1>5, <1>6, <1>7, <1>8 DEF Plan, c, T

-----------------------------------------------------------------------------
(* A statement run leads on, or is refused for what was asked. *)

After(s, seen) ==
    [r \in Rows |-> IF r \in DOMAIN Written(s, seen) THEN Written(s, seen)[r] ELSE seen[r]]

\* What a statement that is no deletion writes is what is left.
LEMMA WritesWhatIsLeft ==
    ASSUME NEW x, StatementIs(x), x.does # "delete", NEW seen, Tables(seen), NEW was, NEW T,
           Leads(x, was, seen, T)
    PROVE  /\ DOMAIN Written(x, seen) = DOMAIN x.rows
           /\ \A r \in DOMAIN x.rows : Written(x, seen)[r] = T[r] /\ T[r] # NoRow
<1> DEFINE written == Written(x, seen)
<1>1. /\ \A r \in DOMAIN written : written[r] # NoRow
      /\ x.does = "update" =>
            /\ DOMAIN written = {r \in DOMAIN x.rows : seen[r] # NoRow}
            /\ \A r \in DOMAIN written :
                  written[r] = IF x.rows[r].position = Ignored
                               THEN Content(x.rows[r].value, seen[r].position) ELSE x.rows[r]
      /\ x.does \in {"insert", "upsert"} => written = x.rows
  BY StatementDoes
<1> HIDE DEF written
<1>2. CASE x.does \in {"insert", "upsert"}
  <2>1. written = x.rows /\ \A r \in DOMAIN x.rows : T[r] = x.rows[r]
    BY <1>1, <1>2 DEF Leads
  <2>2. QED
    BY <1>1, <2>1 DEF written
<1>3. CASE x.does = "update"
  <2>1. \A r \in DOMAIN x.rows :
          /\ seen[r] = was[r] /\ was[r] # NoRow
          /\ T[r] = IF x.rows[r].position = Ignored
                    THEN Content(x.rows[r].value, was[r].position) ELSE x.rows[r]
    BY <1>3 DEF Leads
  <2>2. DOMAIN written = DOMAIN x.rows /\ \A r \in DOMAIN x.rows : written[r] = T[r]
    BY <1>1, <1>3, <2>1
  <2>3. QED
    BY <1>1, <1>3, <2>2 DEF written
<1>4. QED
  BY <1>2, <1>3 DEF StatementIs

\* Once the deletions are done, what is there is to stay.
LEMMA WhatIsThereStays ==
    ASSUME NEW todo, NEW was, NEW seen, NEW T, Plan(todo, was, seen, T), todo # << >>,
           Tables(T), Closed(T), Head(todo).does # "delete", NEW q \in Rows
    PROVE  /\ seen[q] # NoRow => T[q] # NoRow /\ (seen[q] = T[q] \/ seen[q] = was[q])
           /\ \A r \in DOMAIN Head(todo).rows :
                 q \in Above(r) /\ T[q] # NoRow /\ q \notin DOMAIN Head(todo).rows => seen[q] # NoRow
<1> DEFINE x == Head(todo)
<1>1. Orderly(todo) /\ IsList(todo)
  BY DEF Plan, Orderly
<1>2. \A y \in Range(Tail(todo)) : Before(x, y)
  BY <1>1, OrderlyTail
<1>3. Range(todo) = {x} \cup Range(Tail(todo))
  BY <1>1, TailIs
<1>4. \A y \in Range(todo) : StatementIs(y) /\ Leads(y, was, seen, T)
  BY DEF Plan, Statements
<1> HIDE DEF x
<1>5. \A y \in Range(todo) : y.does \in {"insert", "update", "upsert"}
  <2>1. \A y \in Range(Tail(todo)) : y.does # "delete"
    BY <1>2 DEF Before, x
  <2>2. x.does # "delete"
    BY DEF x
  <2>3. QED
    BY <1>3, <1>4, <2>1, <2>2 DEF StatementIs
<1>6. CASE q \notin Covered(todo)
  <2>1. seen[q] = T[q]
    BY <1>6 DEF Plan
  <2>2. QED
    BY <2>1
<1>7. CASE q \in Covered(todo)
  <2>1. PICK y \in Range(todo) : q \in DOMAIN y.rows
    BY <1>7 DEF Covered
  <2>2. y.does \in {"insert", "upsert", "update"} /\ StatementIs(y) /\ Leads(y, was, seen, T)
    BY <1>4, <1>5
  <2>3. seen[q] # NoRow => T[q] # NoRow /\ (seen[q] = T[q] \/ seen[q] = was[q])
    BY <2>1, <2>2 DEF Leads
  <2>4. CASE y.does = "update"
    BY <2>1, <2>2, <2>3, <2>4 DEF Leads
  <2>5. CASE y.does # "update"
    <3>1. SUFFICES ASSUME NEW r \in DOMAIN x.rows, q \in Above(r), q \notin DOMAIN x.rows PROVE FALSE
      BY <2>3 DEF x
    <3>2. y \in Range(Tail(todo)) /\ Before(x, y) /\ x.does # "delete"
      BY <1>2, <1>3, <2>1, <3>1 DEF x
    <3>3. r[1] <= q[1]
      BY <3>1, <3>2, <2>1 DEF Before
    <3>4. r \in Rows
      BY <1>3, <1>4, <3>1 DEF StatementIs
    <3>5. q[1] < r[1] /\ q[1] \in Int /\ r[1] \in Int
      BY <3>1, <3>4, AboveIs, RowKinds
    <3>6. QED
      BY <3>3, <3>5
  <2>6. QED
    BY <2>4, <2>5
<1>8. QED
  BY <1>6, <1>7

\* A statement run, the rest lead on from what it left.
LEMMA RunLeads ==
    ASSUME NEW todo, NEW was, NEW seen, NEW T, Plan(todo, was, seen, T), todo # << >>,
           Tables(seen), Tables(T), Closed(T)
    PROVE  Plan(Tail(todo), was, After(Head(todo), seen), T)
<1> DEFINE x == Head(todo)
           rest == Tail(todo)
           written == Written(x, seen)
           after == After(x, seen)
<1>1. Orderly(todo) /\ Statements(todo) /\ IsList(todo)
  BY DEF Plan, Orderly
<1>2. /\ Orderly(rest)
      /\ \A y \in Range(rest) : Apart2(x, y)
      /\ Covered(todo) = DOMAIN x.rows \cup Covered(rest)
      /\ DOMAIN x.rows \cap Covered(rest) = {}
  BY <1>1, OrderlyTail
<1>3. IsList(rest) /\ Range(todo) = {x} \cup Range(rest)
  BY <1>1, TailIs
<1>4. StatementIs(x) /\ Leads(x, was, seen, T) /\ DOMAIN x.rows \subseteq Rows
  BY <1>3 DEF Plan, Statements, StatementIs
<1>5. Statements(rest)
  BY <1>1, <1>3 DEF Statements
<1>6. after = [r \in Rows |-> IF r \in DOMAIN written THEN written[r] ELSE seen[r]]
  BY DEF After
\* A row beyond the statement's is as it was, or gone where it was to go.
<1>7. ASSUME NEW r \in Rows
      PROVE  /\ r \in DOMAIN x.rows => after[r] = T[r]
             /\ r \notin DOMAIN x.rows => after[r] = seen[r] \/ (after[r] = NoRow /\ T[r] = NoRow)
  <2>1. CASE x.does # "delete"
    <3>1. DOMAIN written = DOMAIN x.rows /\ \A q \in DOMAIN x.rows : written[q] = T[q]
      BY <1>4, <2>1, WritesWhatIsLeft
    <3> HIDE DEF written, after
    <3>2. QED
      BY <1>6, <3>1
  <2>2. CASE x.does = "delete"
    <3>1. /\ DOMAIN written = {q \in DOMAIN x.rows \cup Beneath(DOMAIN x.rows) : seen[q] # NoRow}
          /\ \A q \in DOMAIN written : written[q] = NoRow
      BY <1>4, <2>2, StatementDoes
    <3> HIDE DEF written, after
    <3>2. \A q \in DOMAIN x.rows : T[q] = NoRow
      BY <1>4, <2>2 DEF Leads
    <3>3. \A q \in Beneath(DOMAIN x.rows) : q \in Rows /\ T[q] = NoRow
      BY <3>2, <1>4 DEF Beneath, Closed
    <3>4. r \in DOMAIN x.rows => after[r] = NoRow
      BY <3>1, <1>6
    <3>5. QED
      BY <3>1, <3>2, <3>3, <3>4, <1>6
  <2>3. QED
    BY <2>1, <2>2
<1> HIDE DEF x, rest, written, after
<1>8. ASSUME NEW y \in Range(rest) PROVE Leads(y, was, after, T)
  <2>1. SUFFICES ASSUME NEW r \in DOMAIN y.rows
                 PROVE  y.does # "delete" => after[r] = seen[r]
    BY <1>3 DEF Plan, Leads
  <2>2. Leads(y, was, seen, T) /\ StatementIs(y) /\ r \in Rows
    BY <1>1, <1>3 DEF Plan, Statements, StatementIs
  <2>3. r \notin DOMAIN x.rows
    BY <1>2 DEF Apart2
  <2>4. y.does # "delete" => T[r] # NoRow
    BY <2>2 DEF Leads
  <2>5. QED
    BY <2>2, <2>3, <2>4, <1>7
<1>9. ASSUME NEW r \in Rows, r \notin Covered(rest) PROVE after[r] = T[r]
  <2>1. CASE r \in DOMAIN x.rows
    BY <2>1, <1>7
  <2>2. CASE r \notin DOMAIN x.rows
    <3>1. seen[r] = T[r]
      BY <2>2, <1>2, <1>9 DEF Plan
    <3>2. QED
      BY <3>1, <2>2, <1>7
  <2>3. QED
    BY <2>1, <2>2
<1>10. QED
  BY <1>2, <1>5, <1>8, <1>9 DEF Plan, after, rest, x

\* What a statement of a plan can be refused for.
LEMMA RefusedLeads ==
    ASSUME NEW todo, NEW was, NEW seen, NEW T, Plan(todo, was, seen, T), todo # << >>,
           Tables(seen), Tables(T), Closed(T), Refused(Head(todo), seen)
    PROVE  /\ Head(todo).does # "delete"
           /\ \/ mapping.alsoUnique /\ T[RootRow].value \in Taken
              \/ mapping.uniqueValues /\ \E r \in DOMAIN Head(todo).rows, q \in Rows :
                    /\ r[1] = 2 /\ q[1] = 2 /\ r # q /\ T[r] # NoRow /\ T[q] # NoRow
                    /\ \/ T[q].value = T[r].value
                       \/ was[q] # NoRow /\ was[q].value = T[r].value
<1> DEFINE x == Head(todo)
           written == Written(x, seen)
           after == [r \in Rows |-> IF r \in DOMAIN written THEN written[r] ELSE seen[r]]
           lines == Present(after, 2)
<1>1. Orderly(todo) /\ Statements(todo) /\ IsList(todo)
  BY DEF Plan, Orderly
<1>2. StatementIs(x) /\ Leads(x, was, seen, T) /\ DOMAIN x.rows \subseteq Rows
  <2>1. x \in Range(todo)
    BY <1>1, ListFacts
  <2>2. QED
    BY <2>1 DEF Plan, Statements, StatementIs
<1>3. x.does # "delete"
  BY DEF Refused
<1>4. /\ DOMAIN written = DOMAIN x.rows
      /\ \A r \in DOMAIN x.rows : written[r] = T[r] /\ T[r] # NoRow
  BY <1>2, <1>3, WritesWhatIsLeft
<1>5. \A q \in Rows :
        /\ seen[q] # NoRow => T[q] # NoRow /\ (seen[q] = T[q] \/ seen[q] = was[q])
        /\ \A r \in DOMAIN x.rows :
              q \in Above(r) /\ T[q] # NoRow /\ q \notin DOMAIN x.rows => seen[q] # NoRow
  BY <1>3, WhatIsThereStays
<1>6. \/ x.does = "insert" /\ \E r \in DOMAIN x.rows :
            seen[r] # NoRow \/ \E h \in Above(r) : after[h] = NoRow
      \/ mapping.alsoUnique /\ RootRow \in DOMAIN written /\ written[RootRow].value \in Taken
      \/ mapping.uniqueValues /\ \E r \in DOMAIN written \cap lines : \E q \in lines \ {r} :
            after[r].value = after[q].value
  BY DEF Refused
<1>7. \A r \in Rows : after[r] = IF r \in DOMAIN written THEN written[r] ELSE seen[r]
  OBVIOUS
<1>8. \A q \in lines : q \in Rows /\ q[1] = 2 /\ after[q] # NoRow
  BY DEF Present
<1> HIDE DEF x, written, after, lines
<1>9. CASE x.does = "insert" /\ \E r \in DOMAIN x.rows :
              seen[r] # NoRow \/ \E h \in Above(r) : after[h] = NoRow
  <2>1. PICK r \in DOMAIN x.rows : seen[r] # NoRow \/ \E h \in Above(r) : after[h] = NoRow
    BY <1>9
  <2>2. seen[r] = NoRow /\ T[r] # NoRow /\ r \in Rows
    BY <1>2, <1>9 DEF Leads
  <2>3. PICK h \in Above(r) : after[h] = NoRow
    BY <2>1, <2>2
  <2>4. h \in Rows /\ T[h] # NoRow
    BY <2>2, AboveIs DEF Closed
  <2>5. QED
    BY <2>3, <2>4, <1>4, <1>5, <1>7
<1>10. CASE mapping.alsoUnique /\ RootRow \in DOMAIN written /\ written[RootRow].value \in Taken
  BY <1>3, <1>4, <1>10 DEF x
<1>11. CASE mapping.uniqueValues /\ \E r \in DOMAIN written \cap lines : \E q \in lines \ {r} :
               after[r].value = after[q].value
  <2>1. PICK r \in DOMAIN written \cap lines, q \in lines : q # r /\ after[r].value = after[q].value
    BY <1>11
  <2>2. /\ r \in Rows /\ r[1] = 2 /\ q \in Rows /\ q[1] = 2 /\ r # q
        /\ after[q] # NoRow /\ r \in DOMAIN x.rows /\ after[r] = T[r] /\ T[r] # NoRow
    BY <2>1, <1>4, <1>7, <1>8
  <2>3. T[q] # NoRow /\ (after[q] = T[q] \/ (after[q] = was[q] /\ was[q] # NoRow))
    BY <2>2, <1>4, <1>5, <1>7
  <2>4. T[q].value = T[r].value \/ (was[q] # NoRow /\ was[q].value = T[r].value)
    BY <2>1, <2>2, <2>3
  <2>5. QED
    BY <1>3, <1>11, <2>2, <2>3, <2>4 DEF x
<1>12. QED
  BY <1>6, <1>9, <1>10, <1>11

-----------------------------------------------------------------------------
(* Where each operation stands that nobody came in between of. *)

Cause(j, was, declared) ==
    \/ j.does = "insert" /\ was[RootRow] # NoRow
    \/ declared.alsoUnique /\ j.value.name \in Taken
    \/ declared.uniqueValues /\ \E i, k \in DOMAIN j.value.list :
           /\ i # k
           /\ \/ j.value.list[i].value = j.value.list[k].value
              \/ /\ was[Line(j.value.list[k].key)] # NoRow
                 /\ was[Line(j.value.list[k].key)].value = j.value.list[i].value

OnPlan(o, seen, T) ==
    /\ Outcome(o.job, o.was, T) /\ Plan(o.todo, o.was, seen, T)
    /\ o.job.does = "saveRoot" => Covered(o.todo) \subseteq {RootRow}
    /\ o.job.does \in {"save", "change"} /\ T = o.was => o.todo = << >> /\ o.held = {}

\* An insert of an aggregate that is there: its first statement is refused.
Clash(o) ==
    /\ o.job.does = "insert" /\ o.was[RootRow] # NoRow
    /\ o.held = {} /\ o.todo = Inserting(o.job.value).todo

Told(o, rows, declared) ==
    /\ o.says = "done" => Outcome(o.job, o.was, rows)
    /\ o.says = "refused" => Cause(o.job, o.was, declared)

Planned(o, rows, declared) ==
    o.alone /\ o.phase # "idle" =>
        /\ Tables(o.was) /\ Closed(o.was)
        /\ o.phase = "again" => o.before \in Assembled(o.was) /\ Reordered(o.before, o.job.value)
        /\ o.phase = "run" => Clash(o) \/ \E T : OnPlan(o, SeenOf(o, rows), T)
        /\ o.phase = "answered" => Told(o, rows, declared)

PlanInv == \A w \in Sessions : Planned(op[w], db, mapping)

\* A session's step keeps the others' plans where nothing is committed.
LEMMA OnePlanned ==
    ASSUME RepositoryInv, PlanInv, NEW w \in Sessions, NEW o, Planned(o, db, mapping),
           op' = [op EXCEPT ![w] = o], db' = db, mapping' = mapping
    PROVE  PlanInv'
<1>1. op = [v \in Sessions |-> op[v]]
  BY DEF RepositoryInv
<1>2. ASSUME NEW v \in Sessions PROVE Planned(op'[v], db, mapping)
  <2>1. op'[v] = IF v = w THEN o ELSE op[v]
    BY <1>1
  <2>2. QED
    BY <2>1 DEF PlanInv
<1>3. QED
  BY <1>2 DEF PlanInv

\* Statements of no rows are none.
LEMMA NothingLeft ==
    ASSUME NEW todo, Statements(todo), Covered(todo) = {}
    PROVE  todo = << >>
<1>1. \A x \in Range(todo) : DOMAIN x.rows # {} /\ DOMAIN x.rows \subseteq Covered(todo)
  BY ZenonT(40) DEF Statements, StatementIs, Covered
<1>2. Range(todo) = {}
  BY <1>1
<1>3. QED
  BY <1>2, ListFacts DEF Statements

\* A session at rest has no plan.
LEMMA RestPlanned == Planned(Rest, db, mapping)
BY RestIs DEF Planned

\* An answer that neither claims anything done nor refused.
LEMMA AnswerPlanned ==
    ASSUME NEW o, NEW says \in {"found", "absent", "fault", "deadlock"}, o.phase # "idle",
           Planned(o, db, mapping)
    PROVE  Planned(Answer(o, says), db, mapping)
<1> DEFINE a == Answer(o, says)
<1>1. a.phase = "answered" /\ a.says = says /\ a.was = o.was /\ a.alone = o.alone
  BY AnswerIs
<1> HIDE DEF a
<1>2. Planned(a, db, mapping)
  BY <1>1 DEF Planned, Told
<1>3. QED
  BY <1>2 DEF a

\* Nothing held, what is seen is what is stored.
LEMMA SeenOfNothing ==
    ASSUME NEW o, o.held = {}, Tables(db)
    PROVE  SeenOf(o, db) = db
BY DEF SeenOf, Tables

\* The statements made of what was read.
LEMMA ChangesPlanned ==
    ASSUME NEW j \in Jobs, NEW was, Tables(was), NEW placed \in BOOLEAN,
           Outcome(j, was, Left(was, j.value, placed)), j.does # "saveRoot",
           NEW kept, KeptRows(kept), DOMAIN kept = PresentRows(was),
           \A r \in DOMAIN kept : kept[r].value = was[r].value,
           placed => kept = Part(was, All),
           NEW o, o.job = j, o.was = was, o.held = {}, o.todo = Changes(3, kept, j.value, placed)
    PROVE  \E T : OnPlan(o, was, T)
<1> DEFINE c == Changes(3, kept, j.value, placed)
           T == Left(was, j.value, placed)
<1>1. j.value \in Aggregates \cup {NoAggregate}
  BY JobIs
<1>2. Plan(c, was, was, T) /\ Needed(c, was, T)
  BY <1>1, ChangesLead
<1>3. o.todo = c
  OBVIOUS
<1> HIDE DEF c, T
<1>4. T = was => c = << >>
  BY <1>2, NothingLeft DEF Plan, Needed
<1>5. Outcome(j, was, T)
  BY DEF T
<1>6. OnPlan(o, was, T)
  BY <1>2, <1>3, <1>4, <1>5 DEF OnPlan
<1>7. QED
  BY <1>6

-----------------------------------------------------------------------------
(* The reads, and what they plan. *)

\* What is stored is tables, no row without its holder.
LEMMA StoredSound ==
    ASSUME TablesInv
    PROVE  Tables(db) /\ Closed(db)
BY DEF TablesInv, Sound

\* One that reads or runs, and nobody came in between of.
LEMMA AloneReads ==
    ASSUME RepositoryInv, TablesInv, PlanInv, NEW w \in Sessions,
           op[w].phase \in ReadingPhases \cup {"run"}, op[w].alone
    PROVE  /\ op[w].was = db /\ op[w].job \in Jobs
           /\ op[w].phase \in ReadingPhases => op[w].held = {} /\ SeenOf(op[w], db) = db
BY SessionIs, TypesOf, StoredSound, SeenOfNothing DEF Undisturbed, SessionTyped, InTurn, ReadingPhases

\* Each session's plan.
LEMMA PlannedIs ==
    ASSUME PlanInv, NEW w \in Sessions
    PROVE  Planned(op[w], db, mapping)
BY DEF PlanInv

\* An operation asked for leads to its outcome.
LEMMA AskPlanned ==
    ASSUME RepositoryInv, TablesInv, PlanInv, NEW w \in Sessions, NEW j \in May(w), Ask(w, j)
    PROVE  PlanInv'
<1> DEFINE phase == Starting(j).phase
           todo == Starting(j).todo
           o == [Rest EXCEPT !.job = j, !.was = db, !.alone = TRUE, !.phase = phase, !.todo = todo]
<1>1. op' = [op EXCEPT ![w] = o] /\ db' = db /\ mapping' = mapping
  BY DEF Ask
<1>2. j \in Jobs /\ Tables(db) /\ Closed(db)
  BY RepositoryAssumption, StoredSound
<1>3. phase \in {"root", "run"}
  BY <1>2, StartingTyped
<1>4. /\ o.phase = phase /\ o.job = j /\ o.todo = todo /\ o.was = db /\ o.held = {}
      /\ o.alone
  BY DEF Rest
<1>5. phase = "run" => Clash(o) \/ \E T : OnPlan(o, db, T)
  <2>1. CASE j.does = "insert"
    <3>1. todo = Inserting(j.value).todo /\ j.value \in Aggregates
      BY <2>1, <1>2, JobIs DEF Starting
    <3> HIDE DEF o, phase, todo
    <3>2. CASE db[RootRow] # NoRow
      BY <2>1, <3>1, <3>2, <1>4 DEF Clash
    <3>3. CASE db[RootRow] = NoRow
      <4> DEFINE T == Left(db, j.value, FALSE)
      <4>1. Plan(todo, db, db, T)
        BY <1>2, <3>1, <3>3, InsertingLeads
      <4>2. Outcome(j, db, T)
        BY <2>1, <3>3 DEF Outcome
      <4> HIDE DEF T
      <4>3. OnPlan(o, db, T)
        BY <2>1, <4>1, <4>2, <1>4 DEF OnPlan
      <4>4. QED
        BY <4>3
    <3>4. QED
      BY <3>2, <3>3
  <2>2. CASE j.does = "saveRoot"
    <3>1. j.value \in Aggregates
      BY <2>2, <1>2, JobIs
    <3>2. Starting(j) = SavingRoot(j.value)
      BY <2>2 DEF Starting
    <3>3. phase = "run" => ~ mapping.alsoUnique
      BY <3>2 DEF SavingRoot
    <3>4. todo = SavingRoot(j.value).todo
      BY <3>2
    <3> DEFINE T == RootLeft(db, j.value)
    <3> HIDE DEF o, phase, todo
    <3>5. SUFFICES ASSUME ~ mapping.alsoUnique PROVE OnPlan(o, db, T)
      BY <3>3
    <3>6. Plan(todo, db, db, T) /\ Covered(todo) \subseteq {RootRow}
      BY <1>2, <3>1, <3>4, <3>5, UpsertLeads
    <3>7. Outcome(j, db, T)
      BY <2>2 DEF Outcome
    <3> HIDE DEF T
    <3>8. QED
      BY <2>2, <3>6, <3>7, <1>4 DEF OnPlan
  <2>3. CASE j.does \notin {"insert", "saveRoot"}
    BY <2>3 DEF Starting
  <2>4. QED
    BY <2>1, <2>2, <2>3
<1> HIDE DEF o, phase, todo
<1>6. Planned(o, db, mapping)
  BY <1>2, <1>3, <1>4, <1>5, SeenOfNothing DEF Planned
<1>7. QED
  BY <1>1, <1>6, OnePlanned

\* So does one that read the root.
LEMMA ReadRootPlanned ==
    ASSUME RepositoryInv, TablesInv, PlanInv, NEW w \in Sessions, ReadRoot(w)
    PROVE  PlanInv'
<1> DEFINE j == op[w].job
           read == ReadIn(w, 1)
           count == Cardinality(DOMAIN read)
           o == [op[w] EXCEPT !.read = read, !.rows = count]
           next == CASE j.does = "saveRoot" ->
                          [o EXCEPT !.phase = "run", !.todo = Changes(1, read, j.value, TRUE)]
                     [] j.does \in {"find", "change"} /\ read = << >> -> Answer(o, "absent")
                     [] j.does \in {"save", "delete"} /\ read = << >> -> Saving(o, read)
                     [] OTHER -> [o EXCEPT !.phase = "lines"]
<1>1. /\ op[w].phase = "root" /\ op' = [op EXCEPT ![w] = next]
      /\ db' = db /\ mapping' = mapping
  BY DEF ReadRoot
<1>2. Fields(op[w]) /\ op[w].held = {}
  BY <1>1, SessionIs DEF InTurn, ReadingPhases
<1>3. /\ op[w].alone => op[w].was = db
      /\ j \in Jobs
  BY <1>1, AloneReads, TypesOf DEF ReadingPhases, SessionTyped
<1>4. Tables(db) /\ Closed(db)
  BY StoredSound
<1>5. read = Part(db, {1})
  BY <1>2, ReadInIs
<1>6. KeptRows(read)
  BY ReadInTyped
<1> HIDE DEF read, count
<1>7. /\ Fields(o) /\ o.phase = "root" /\ o.job = j /\ o.held = {} /\ o.was = op[w].was
      /\ o.alone = op[w].alone /\ o.read = read /\ o.rows = count
  BY <1>1, <1>2 DEF Fields
<1> HIDE DEF o
<1>8. SUFFICES Planned(next, db, mapping)
  <2> HIDE DEF next
  <2> QED
    BY <1>1, OnePlanned
<1>9. CASE j.does = "saveRoot"
  <2> DEFINE todo == Changes(1, read, j.value, TRUE)
             q == [o EXCEPT !.phase = "run", !.todo = todo]
             T == RootLeft(db, j.value)
  <2>1. next = q
    BY <1>9
  <2>2. Plan(todo, db, db, T) /\ Covered(todo) \subseteq {RootRow}
    <3>1. j.value \in Aggregates
      BY <1>3, <1>9, JobIs
    <3>2. QED
      BY <3>1, <1>4, <1>5, RootChangesLead
  <2>3. Outcome(j, db, T)
    BY <1>9 DEF Outcome
  <2> HIDE DEF todo, T
  <2>4. /\ q.phase = "run" /\ q.todo = todo /\ q.job = j /\ q.held = {} /\ q.was = op[w].was
        /\ q.alone = op[w].alone
    BY <1>7 DEF Fields
  <2> HIDE DEF q, next
  <2>5. q.was = db => OnPlan(q, db, T)
    BY <1>9, <2>2, <2>3, <2>4 DEF OnPlan
  <2>6. Planned(q, db, mapping)
    BY <1>3, <1>4, <2>4, <2>5, SeenOfNothing DEF Planned
  <2>7. QED
    BY <2>1, <2>6
<1>10. CASE j.does \in {"find", "change"} /\ read = << >>
  <2>1. next = Answer(o, "absent")
    BY <1>10
  <2>2. Planned(o, db, mapping)
    BY <1>3, <1>4, <1>7 DEF Planned
  <2> HIDE DEF next
  <2>3. QED
    BY <1>7, <2>1, <2>2, AnswerPlanned
<1>11. CASE j.does \in {"save", "delete"} /\ read = << >>
  <2> DEFINE todo == Changes(3, read, j.value, TRUE)
             q == [o EXCEPT !.phase = "run", !.read = << >>, !.todo = todo]
  <2>1. next = q
    BY <1>7, <1>11 DEF Saving
  <2>2. /\ q.phase = "run" /\ q.todo = todo /\ q.job = j /\ q.held = {} /\ q.was = op[w].was
        /\ q.alone = op[w].alone
    BY <1>7 DEF Fields
  <2> HIDE DEF q, next
  <2>3. q.was = db => \E T : OnPlan(q, db, T)
    <3>1. \A r \in Rows : db[r] = NoRow
      BY <1>4, <1>5, <1>11, CountedIs, NothingBeneath
    <3>2. PresentRows(db) = {} /\ DOMAIN read = {}
      BY <3>1, <1>11 DEF PresentRows
    <3>3. read = Part(db, All)
      <4>1. DOMAIN Part(db, All) = {} /\ Part(db, All) = [r \in DOMAIN Part(db, All) |-> db[r]]
        BY <3>1 DEF Part
      <4>2. read = [r \in {} |-> db[r]]
        BY <1>11
      <4>3. QED
        BY <4>1, <4>2
    <3>4. Outcome(j, db, Left(db, j.value, TRUE)) /\ TRUE \in BOOLEAN /\ j.does # "saveRoot"
      BY <1>11 DEF Outcome
    <3>5. \A r \in DOMAIN read : read[r].value = db[r].value
      BY <3>2
    <3> HIDE DEF todo
    <3>6. q.was = db => q.job = j /\ q.was = db /\ q.held = {} /\ q.todo = Changes(3, read, j.value, TRUE)
      BY <2>2 DEF todo
    <3>7. QED
      BY <1>3, <1>4, <1>6, <3>2, <3>3, <3>4, <3>5, <3>6, ChangesPlanned
  <2>4. Planned(q, db, mapping)
    BY <1>3, <1>4, <2>2, <2>3, SeenOfNothing DEF Planned
  <2>5. QED
    BY <2>1, <2>4
<1>12. CASE j.does # "saveRoot" /\ ~ (j.does \in {"find", "change"} /\ read = << >>)
              /\ ~ (j.does \in {"save", "delete"} /\ read = << >>)
  <2> DEFINE q == [o EXCEPT !.phase = "lines"]
  <2>1. next = q
    BY <1>12
  <2>2. q.phase = "lines" /\ q.was = op[w].was /\ q.alone = op[w].alone
    BY <1>7 DEF Fields
  <2> HIDE DEF q, next
  <2>3. Planned(q, db, mapping)
    BY <1>3, <1>4, <2>2 DEF Planned
  <2>4. QED
    BY <2>1, <2>3
<1>13. QED
  BY <1>9, <1>10, <1>11, <1>12

\* One that read the list.
LEMMA ReadLinesPlanned ==
    ASSUME RepositoryInv, TablesInv, PlanInv, NEW w \in Sessions, ReadLines(w)
    PROVE  PlanInv'
<1> DEFINE read == Joined(op[w].read, ReadIn(w, 2))
           o == [op[w] EXCEPT !.read = read, !.phase = "notes"]
<1>1. op[w].phase = "lines" /\ db' = db /\ mapping' = mapping
  BY DEF ReadLines
<1>2. op' = [op EXCEPT ![w] = o]
  BY DEF ReadLines, RepositoryInv
<1>3. Fields(op[w])
  BY SessionIs
<1> HIDE DEF read
<1>4. o.phase = "notes" /\ o.was = op[w].was /\ o.alone = op[w].alone
  BY <1>3 DEF Fields
<1> HIDE DEF o
<1>5. Planned(o, db, mapping)
  BY <1>1, <1>4, PlannedIs DEF Planned
<1>6. QED
  BY <1>1, <1>2, <1>5, OnePlanned

\* One that read the last table.
LEMMA ReadNotesPlanned ==
    ASSUME RepositoryInv, TablesInv, PlanInv, NEW w \in Sessions, ReadNotes(w)
    PROVE  PlanInv'
<1> DEFINE j == op[w].job
           read == Joined(op[w].read, ReadIn(w, 3))
<1>1. op[w].phase = "notes" /\ db' = db /\ mapping' = mapping
  BY DEF ReadNotes
<1>2. Fields(op[w]) /\ op[w].held = {} /\ j \in Jobs
  BY <1>1, SessionIs, TypesOf DEF InTurn, ReadingPhases, SessionTyped
<1>3. /\ op[w].alone => op[w].was = db /\ read = Part(db, All)
      /\ Planned(op[w], db, mapping)
  <2>1. op[w].alone => op[w].was = db /\ op[w].read = Part(db, {1, 2})
    BY <1>1, SessionIs DEF Undisturbed, ReadingPhases
  <2>2. ReadIn(w, 3) = Part(db, {3})
    BY <1>2, ReadInIs
  <2>3. Joined(Part(db, {1, 2}), Part(db, {3})) = Part(db, {1, 2} \cup {3})
    BY JoinedIs
  <2>4. {1, 2} \cup {3} = All
    BY DEF All
  <2>5. QED
    BY <2>1, <2>2, <2>3, <2>4, PlannedIs
<1>4. db = [r \in Rows |-> db[r]] /\ Tables(db) /\ Closed(db)
  BY StoredSound DEF RepositoryInv
<1>5. PICK a \in Assembled(read) :
         op' = [op EXCEPT ![w] =
            CASE j.does = "find" -> [Answer(@, "found") EXCEPT !.found = a]
              [] j.does = "change" -> SavingChanges(@, a)
              [] j.does \in {"save", "delete"} -> Saving(@, read)]
  BY DEF ReadNotes
<1>6. op[w].alone => a \in Assembled(db)
  BY <1>3, <1>4, <1>5, AssembledOfPart DEF All
<1> DEFINE next == CASE j.does = "find" -> [Answer(op[w], "found") EXCEPT !.found = a]
                     [] j.does = "change" -> SavingChanges(op[w], a)
                     [] j.does \in {"save", "delete"} -> Saving(op[w], read)
<1>7. op' = [op EXCEPT ![w] = next]
  BY <1>5 DEF RepositoryInv
<1> HIDE DEF read
<1>8. j.does \in {"find", "save", "change", "delete"}
  BY <1>1, SessionIs DEF InTurn
<1>9. SUFFICES Planned(next, db, mapping)
  <2> HIDE DEF next
  <2> QED
    BY <1>1, <1>7, OnePlanned
<1>10. CASE j.does = "find"
  <2> DEFINE p == Answer(op[w], "found")
             q == [p EXCEPT !.found = a]
  <2>1. next = q
    BY <1>10
  <2>2. Planned(p, db, mapping)
    BY <1>1, <1>3, AnswerPlanned
  <2>3. Fields(p) /\ p.phase = "answered" /\ p.says = "found"
    BY AnswerIs
  <2> HIDE DEF p
  <2>4. q.phase = p.phase /\ q.says = p.says /\ q.was = p.was /\ q.alone = p.alone /\ q.job = p.job
    BY <2>3 DEF Fields
  <2> HIDE DEF q, next
  <2>5. Planned(q, db, mapping)
    BY <2>2, <2>3, <2>4 DEF Planned, Told
  <2>6. QED
    BY <2>1, <2>5
<1>11. CASE j.does = "change" /\ Reordered(a, j.value)
  <2> DEFINE q == [op[w] EXCEPT !.phase = "again", !.read = << >>, !.before = a]
  <2>1. next = q
    BY <1>11 DEF SavingChanges
  <2>2. /\ q.phase = "again" /\ q.before = a /\ q.was = op[w].was /\ q.alone = op[w].alone
        /\ q.job = j
    BY <1>2 DEF Fields
  <2> HIDE DEF q, next
  <2>3. Planned(q, db, mapping)
    BY <1>3, <1>4, <1>6, <1>11, <2>2 DEF Planned
  <2>4. QED
    BY <2>1, <2>3
<1>12. CASE j.does = "change" /\ ~ Reordered(a, j.value)
  <2> DEFINE todo == Changes(3, Apart(a), j.value, FALSE)
             q == [op[w] EXCEPT !.phase = "run", !.read = << >>, !.todo = todo]
  <2>1. next = q
    BY <1>12 DEF SavingChanges
  <2>2. /\ q.phase = "run" /\ q.todo = todo /\ q.job = j /\ q.held = {} /\ q.was = op[w].was
        /\ q.alone = op[w].alone
    BY <1>2 DEF Fields
  <2> HIDE DEF q, next
  <2>3. ASSUME op[w].alone PROVE \E T : OnPlan(q, db, T)
    <3> DEFINE kept == Apart(a)
    <3>1. a \in Assembled(db) /\ q.was = db
      BY <1>3, <1>6, <2>2, <2>3
    <3>2. a \in Aggregates \cup {NoAggregate}
      BY <3>1, <1>4, AssembledIs
    <3>3. KeptRows(kept) /\ DOMAIN kept = RowsOf(a)
      BY <3>2, ApartTyped
    <3>4. RowsOf(a) = PresentRows(db) /\ \A r \in RowsOf(a) : kept[r].value = db[r].value
      BY <3>1, <1>4, ReadHasRows
    <3>5. Outcome(j, db, Left(db, j.value, FALSE))
      <4>1. Reordered(a, j.value) = FALSE
        BY <1>12 DEF Reordered
      <4>2. Left(db, j.value, Reordered(a, j.value)) = Left(db, j.value, FALSE)
        BY <4>1
      <4>3. QED
        BY <3>1, <1>12, <4>2 DEF Outcome
    <3>6. q.job = j /\ q.held = {} /\ q.todo = Changes(3, kept, j.value, FALSE)
      BY <2>2 DEF todo
    <3> HIDE DEF kept, todo
    <3>7. FALSE \in BOOLEAN /\ j.does # "saveRoot"
      BY <1>12
    <3>8. QED
      BY <1>2, <1>4, <3>1, <3>3, <3>4, <3>5, <3>6, <3>7, ChangesPlanned
  <2>4. Planned(q, db, mapping)
    BY <1>3, <1>4, <2>2, <2>3, SeenOfNothing DEF Planned
  <2>5. QED
    BY <2>1, <2>4
<1>13. CASE j.does \in {"save", "delete"}
  <2> DEFINE todo == Changes(3, read, j.value, TRUE)
             q == [op[w] EXCEPT !.phase = "run", !.read = << >>, !.todo = todo]
  <2>1. next = q
    BY <1>13 DEF Saving
  <2>2. /\ q.phase = "run" /\ q.todo = todo /\ q.job = j /\ q.held = {} /\ q.was = op[w].was
        /\ q.alone = op[w].alone
    BY <1>2 DEF Fields
  <2> HIDE DEF q, next
  <2>3. ASSUME op[w].alone PROVE \E T : OnPlan(q, db, T)
    <3>1. read = Part(db, All) /\ q.was = db
      BY <1>3, <2>2, <2>3
    <3>2. /\ KeptRows(read) /\ DOMAIN read = PresentRows(db)
          /\ \A r \in PresentRows(db) : read[r] = db[r]
      BY <1>4, <3>1, PartIs
    <3>3. Outcome(j, db, Left(db, j.value, TRUE)) /\ TRUE \in BOOLEAN /\ j.does # "saveRoot"
      BY <1>13 DEF Outcome
    <3>4. q.job = j /\ q.held = {} /\ q.todo = Changes(3, read, j.value, TRUE)
      BY <2>2 DEF todo
    <3> HIDE DEF todo
    <3>5. QED
      BY <1>2, <1>4, <3>1, <3>2, <3>3, <3>4, ChangesPlanned, ZenonT(40)
  <2>4. Planned(q, db, mapping)
    BY <1>3, <1>4, <2>2, <2>3, SeenOfNothing DEF Planned
  <2>5. QED
    BY <2>1, <2>4
<1>14. QED
  BY <1>8, <1>10, <1>11, <1>12, <1>13

\* One that read its list again.
LEMMA ReadAgainPlanned ==
    ASSUME RepositoryInv, TablesInv, PlanInv, NEW w \in Sessions, ReadAgain(w)
    PROVE  PlanInv'
<1> DEFINE j == op[w].job
           a == op[w].before
           before == Apart(a)
           others == [r \in {q \in DOMAIN before : q[1] # 2} |-> before[r]]
           kept == Joined(others, ReadIn(w, 2))
           todo == Changes(3, kept, j.value, TRUE)
           q == [op[w] EXCEPT !.phase = "run", !.before = NoAggregate, !.todo = todo]
<1>1. op[w].phase = "again" /\ db' = db /\ mapping' = mapping
  BY DEF ReadAgain
<1>2. op' = [op EXCEPT ![w] = q]
  BY DEF ReadAgain, RepositoryInv
<1>3. Fields(op[w]) /\ op[w].held = {} /\ j \in Jobs /\ j.does = "change"
  BY <1>1, SessionIs, TypesOf DEF InTurn, ReadingPhases, SessionTyped
<1>4. Tables(db) /\ Closed(db)
  BY StoredSound
<1>5. op[w].alone => op[w].was = db /\ a \in Assembled(db) /\ Reordered(a, j.value)
  <2>1. op[w].alone => op[w].was = db
    BY <1>1, AloneReads DEF ReadingPhases
  <2>2. op[w].alone => a \in Assembled(op[w].was) /\ Reordered(a, j.value)
    BY <1>1, PlannedIs DEF Planned
  <2>3. QED
    BY <2>1, <2>2
<1> HIDE DEF kept, before
<1>6. /\ q.phase = "run" /\ q.todo = todo /\ q.job = j /\ q.held = {} /\ q.was = op[w].was
      /\ q.alone = op[w].alone
  BY <1>3 DEF Fields
<1> HIDE DEF q
<1>7. ASSUME op[w].alone PROVE \E T : OnPlan(q, db, T)
  <2>1. a \in Aggregates \cup {NoAggregate}
    BY <1>4, <1>5, <1>7, AssembledIs
  <2>2. DOMAIN before = PresentRows(db) /\ \A r \in PresentRows(db) : r[1] # 2 => before[r] = db[r]
    <3>1. a \in Assembled(db)
      BY <1>5, <1>7
    <3>2. RowsOf(a) = PresentRows(db) /\ \A r \in RowsOf(a) : r[1] # 2 => Apart(a)[r] = db[r]
      BY <1>4, <3>1, ReadHasRows
    <3>3. DOMAIN Apart(a) = RowsOf(a)
      BY <2>1, ApartTyped
    <3>4. QED
      BY <3>2, <3>3 DEF before
  <2>3. kept = Part(db, All)
    <3> DEFINE P == {r \in Rows : db[r] # NoRow}
    <3>1. others = [r \in {r \in P : r[1] # 2} |-> db[r]]
      BY <2>2 DEF PresentRows
    <3>2. ReadIn(w, 2) = [r \in {r \in P : r[1] = 2} |-> db[r]]
      <4>1. ReadIn(w, 2) = [r \in {r \in Rows : r[1] \in {2} /\ db[r] # NoRow} |-> db[r]]
        BY <1>3, ReadInIs DEF Part
      <4>2. {r \in Rows : r[1] \in {2} /\ db[r] # NoRow} = {r \in P : r[1] = 2}
        OBVIOUS
      <4>3. QED
        BY <4>1, <4>2
    <3>3. Part(db, All) = [r \in P |-> db[r]]
      <4>1. {r \in Rows : r[1] \in All /\ db[r] # NoRow} = P
        BY RowKinds DEF All
      <4>2. QED
        BY <4>1 DEF Part
    <3>4. kept = [r \in {r \in P : r[1] # 2} \cup {r \in P : r[1] = 2} |->
                     IF r \in {r1 \in P : r1[1] # 2} THEN db[r] ELSE db[r]]
      <4> DEFINE f == ReadIn(w, 2)
                 A == {r \in P : r[1] # 2}
                 B == {r \in P : r[1] = 2}
                 g == others
      <4>1. f = [r \in B |-> db[r]] /\ g = [r \in A |-> db[r]]
        BY <3>1, <3>2
      <4>2. kept = [r \in DOMAIN g \cup DOMAIN f |-> IF r \in DOMAIN g THEN g[r] ELSE f[r]]
        BY DEF Joined, kept
      <4> HIDE DEF f, g, A, B
      <4>3. kept = [r \in A \cup B |-> IF r \in A THEN db[r] ELSE db[r]]
        BY <4>1, <4>2
      <4>4. QED
        BY <4>3 DEF A, B
    <3>5. {r \in P : r[1] # 2} \cup {r \in P : r[1] = 2} = P
      OBVIOUS
    <3> HIDE DEF P, others
    <3>6. QED
      BY <3>3, <3>4, <3>5
  <2>4. /\ KeptRows(kept) /\ DOMAIN kept = PresentRows(db)
        /\ \A r \in DOMAIN kept : kept[r].value = db[r].value
    BY <1>4, <2>3, PartIs
  <2>5. Outcome(j, db, Left(db, j.value, TRUE)) /\ TRUE \in BOOLEAN /\ j.does # "saveRoot"
    <3>1. Reordered(a, j.value) = TRUE
      BY <1>5, <1>7 DEF Reordered
    <3>2. Left(db, j.value, Reordered(a, j.value)) = Left(db, j.value, TRUE)
      BY <3>1
    <3>3. QED
      BY <1>3, <1>5, <1>7, <3>2 DEF Outcome
  <2>6. q.job = j /\ q.was = db /\ q.held = {} /\ q.todo = Changes(3, kept, j.value, TRUE)
    BY <1>5, <1>6, <1>7 DEF todo
  <2> HIDE DEF todo
  <2>7. QED
    BY <1>3, <1>4, <2>3, <2>4, <2>5, <2>6, ChangesPlanned
<1>8. Planned(q, db, mapping)
  BY <1>4, <1>5, <1>6, <1>7, SeenOfNothing DEF Planned
<1>9. QED
  BY <1>1, <1>2, <1>8, OnePlanned

-----------------------------------------------------------------------------
(* A refusal has a cause. *)

\* An insert of what is there is refused at once.
LEMMA ClashIsRefused ==
    ASSUME NEW a \in Aggregates, NEW todo, todo = Inserting(a).todo, NEW seen, seen[RootRow] # NoRow
    PROVE  todo # << >> /\ Refused(Head(todo), seen)
<1> DEFINE x == Head(todo)
<1>1. /\ Orderly(todo) /\ Covered(todo) = RowsOf(a) /\ Statements(todo)
      /\ \A y \in Range(todo) : y.does = "insert"
  BY InsertingIs
<1>2. IsList(todo)
  BY <1>1 DEF Orderly
<1>3. RootRow \in Covered(todo)
  BY <1>1, AggregateIs, RowsOfAre
<1>4. todo # << >>
  BY <1>3, EmptyIs DEF Covered
<1>5. /\ \A y \in Range(Tail(todo)) : Apart2(x, y) /\ Before(x, y)
      /\ Range(todo) = {x} \cup Range(Tail(todo))
  BY <1>1, <1>2, <1>4, OrderlyTail, TailIs
<1>6. StatementIs(x) /\ x.does = "insert"
  BY <1>1, <1>5 DEF Statements
<1> HIDE DEF x
<1>7. RootRow \in DOMAIN x.rows
  <2>1. SUFFICES ASSUME RootRow \notin DOMAIN x.rows PROVE FALSE
    OBVIOUS
  <2>2. PICK y \in Range(Tail(todo)) : RootRow \in DOMAIN y.rows
    BY <1>3, <1>5, <2>1 DEF Covered
  <2>3. PICK r \in DOMAIN x.rows : r \in Rows
    BY <1>6 DEF StatementIs
  <2>4. y.does = "insert"
    BY <1>1, <1>5, <2>2
  <2>5. r[1] <= RootRow[1]
    BY <1>5, <1>6, <2>2, <2>3, <2>4 DEF Before
  <2>6. r = RootRow
    BY <2>3, <2>5, RowKinds
  <2>7. QED
    BY <2>1, <2>3, <2>6
<1>8. QED
  BY <1>4, <1>6, <1>7 DEF Refused, x

\* A refusal on the way to what is to be left has a cause.
LEMMA RefusalHasCause ==
    ASSUME NEW o, o.job \in Jobs, Tables(o.was), Closed(o.was), NEW seen, Tables(seen), NEW T,
           OnPlan(o, seen, T), o.todo # << >>, Refused(Head(o.todo), seen)
    PROVE  Cause(o.job, o.was, mapping)
<1> DEFINE j == o.job
           a == j.value
           x == Head(o.todo)
<1>1. /\ Tables(T) /\ Closed(T)
      /\ j.does \in {"save", "change", "insert", "saveRoot"} => T[RootRow] = Content(a.name, 0)
      /\ j.does # "saveRoot" => PresentRows(T) = RowsOf(a)
      /\ j.does \in {"save", "change", "insert"} =>
            \A i \in DOMAIN a.list : T[Line(a.list[i].key)].value = a.list[i].value
  BY OutcomeIs DEF OnPlan
<1>2. Plan(o.todo, o.was, seen, T)
  BY DEF OnPlan
<1>3. /\ x.does # "delete"
      /\ \/ mapping.alsoUnique /\ T[RootRow].value \in Taken
         \/ mapping.uniqueValues /\ \E r \in DOMAIN x.rows, q \in Rows :
               /\ r[1] = 2 /\ q[1] = 2 /\ r # q /\ T[r] # NoRow /\ T[q] # NoRow
               /\ \/ T[q].value = T[r].value
                  \/ o.was[q] # NoRow /\ o.was[q].value = T[r].value
  BY <1>1, <1>2, RefusedLeads
<1>4. x \in Range(o.todo)
  BY <1>2, ListFacts DEF Plan, Orderly
<1>5. Leads(x, o.was, seen, T) /\ StatementIs(x)
  BY <1>2, <1>4 DEF Plan, Statements
<1>6. j.does \in {"save", "change", "insert", "saveRoot"}
  <2>1. PICK r \in DOMAIN x.rows : r \in Rows /\ T[r] # NoRow
    BY <1>3, <1>5 DEF Leads, StatementIs
  <2>2. j.does = "delete" => RowsOf(a) = {}
    BY JobIs DEF RowsOf
  <2>3. j.does # "delete"
    BY <1>1, <2>1, <2>2 DEF PresentRows
  <2>4. j.does # "find"
    BY DEF OnPlan, Outcome
  <2>5. QED
    BY <2>3, <2>4, JobIs
<1>7. a \in Aggregates /\ a # NoAggregate
  BY <1>6, JobIs, AggregateIs
<1> HIDE DEF x
<1>8. CASE mapping.alsoUnique /\ T[RootRow].value \in Taken
  <2>1. T[RootRow].value = a.name
    BY <1>1, <1>6, ContentsAre
  <2>2. QED
    BY <1>8, <2>1 DEF Cause
<1>9. CASE mapping.uniqueValues /\ \E r \in DOMAIN x.rows, q \in Rows :
               /\ r[1] = 2 /\ q[1] = 2 /\ r # q /\ T[r] # NoRow /\ T[q] # NoRow
               /\ \/ T[q].value = T[r].value
                  \/ o.was[q] # NoRow /\ o.was[q].value = T[r].value
  <2>1. PICK r \in DOMAIN x.rows, q \in Rows :
               /\ r[1] = 2 /\ q[1] = 2 /\ r # q /\ T[r] # NoRow /\ T[q] # NoRow
               /\ \/ T[q].value = T[r].value
                  \/ o.was[q] # NoRow /\ o.was[q].value = T[r].value
    BY <1>9
  <2>2. r \in Rows /\ r \in Covered(o.todo)
    BY <1>4, <1>5, <2>1 DEF StatementIs, Covered
  <2>3. j.does # "saveRoot"
    BY <2>1, <2>2, RowKinds DEF OnPlan
  <2>4. j.does \in {"save", "change", "insert"}
    BY <1>6, <2>3
  <2>5. ASSUME NEW s \in Rows, s[1] = 2, T[s] # NoRow
        PROVE  \E i \in DOMAIN a.list : s = Line(a.list[i].key) /\ T[s].value = a.list[i].value
    <3>1. s \in RowsOf(a)
      BY <1>1, <2>3, <2>5 DEF PresentRows
    <3>2. s = Line(s[2]) /\ s[2] \in Elements
      BY <2>5, RowKinds
    <3>3. PICK i \in DOMAIN a.list : a.list[i].key = s[2]
      BY <1>7, <3>1, <3>2, RowsOfAre
    <3>4. s = Line(a.list[i].key)
      BY <3>2, <3>3
    <3>5. QED
      BY <1>1, <2>4, <3>4
  <2>6. PICK i \in DOMAIN a.list : r = Line(a.list[i].key) /\ T[r].value = a.list[i].value
    BY <2>1, <2>2, <2>5
  <2>7. PICK k \in DOMAIN a.list : q = Line(a.list[k].key) /\ T[q].value = a.list[k].value
    BY <2>1, <2>5
  <2>8. i # k
    BY <2>1, <2>6, <2>7
  <2>9. \/ a.list[i].value = a.list[k].value
        \/ o.was[Line(a.list[k].key)] # NoRow /\ o.was[Line(a.list[k].key)].value = a.list[i].value
    BY <2>1, <2>6, <2>7
  <2>10. QED
    BY <1>9, <2>8, <2>9 DEF Cause
<1>10. QED
  BY <1>3, <1>8, <1>9

\* A statement run leads on, or is refused with cause.
LEMMA RunPlanned ==
    ASSUME RepositoryInv, TablesInv, PlanInv, NEW w \in Sessions, Run(w)
    PROVE  PlanInv'
<1> DEFINE s == Head(op[w].todo)
           seen == Seen(w)
           written == Written(s, seen)
           mine == [r \in Rows |-> IF r \in DOMAIN written THEN written[r] ELSE op[w].mine[r]]
           held == op[w].held \cup DOMAIN written
           todo == Tail(op[w].todo)
           o == [op[w] EXCEPT !.todo = todo, !.held = held, !.mine = mine]
<1>1. /\ op[w].phase = "run" /\ db' = db /\ mapping' = mapping
      /\ op[w].todo # << >> /\ ~ Waits(w, s)
      /\ op' = [op EXCEPT ![w] = IF Refused(s, seen) THEN Answer(op[w], "refused") ELSE o]
  BY DEF Run, RepositoryInv
<1>2. Fields(op[w]) /\ SessionTyped(op[w]) /\ op[w].job \in Jobs
  BY <1>1, SessionIs, TypesOf DEF SessionTyped
<1>3. Tables(seen) /\ seen = SeenOf(op[w], db)
  BY SeenTyped
<1>4. /\ op[w].alone => op[w].was = db /\ Tables(op[w].was) /\ Closed(op[w].was)
      /\ op[w].alone => Clash(op[w]) \/ \E T : OnPlan(op[w], seen, T)
  BY <1>1, <1>3, AloneReads, PlannedIs DEF Planned
<1>5. StatementIs(s)
  <2>1. Statements(op[w].todo)
    BY <1>2 DEF SessionTyped
  <2>2. s \in Range(op[w].todo)
    BY <1>1, <2>1, ListFacts DEF Statements
  <2>3. QED
    BY <2>1, <2>2 DEF Statements
<1>6. CASE Refused(s, seen)
  <2> DEFINE a == Answer(op[w], "refused")
  <2>1. op' = [op EXCEPT ![w] = a]
    BY <1>1, <1>6
  <2>2. /\ a.phase = "answered" /\ a.says = "refused" /\ a.was = op[w].was
        /\ a.alone = op[w].alone /\ a.job = op[w].job
    BY AnswerIs
  <2>3. op[w].alone => Cause(op[w].job, op[w].was, mapping)
    <3>1. ASSUME op[w].alone, NEW T, OnPlan(op[w], seen, T) PROVE Cause(op[w].job, op[w].was, mapping)
      <4> HIDE DEF seen
      <4>1. QED
        BY <1>1, <1>2, <1>3, <1>4, <1>6, <3>1, RefusalHasCause
    <3>2. Clash(op[w]) => Cause(op[w].job, op[w].was, mapping)
      BY DEF Clash, Cause
    <3>3. QED
      BY <1>4, <3>1, <3>2
  <2> HIDE DEF a
  <2>4. Planned(a, db, mapping)
    BY <1>4, <2>2, <2>3 DEF Planned, Told
  <2>5. QED
    BY <1>1, <2>1, <2>4, OnePlanned
<1>7. CASE ~ Refused(s, seen)
  <2>1. op' = [op EXCEPT ![w] = o]
    BY <1>1, <1>7
  <2> DEFINE M == mine
             H == held
             D == todo
  <2> HIDE DEF M, H, D
  <2>2. o = [op[w] EXCEPT !.todo = D, !.held = H, !.mine = M]
    BY DEF M, H, D
  <2> HIDE DEF o
  <2>3. /\ o.phase = "run" /\ o.job = op[w].job /\ o.todo = D /\ o.held = H /\ o.mine = M
        /\ o.was = op[w].was /\ o.alone = op[w].alone
    BY <1>1, <1>2, <2>2 DEF Fields
  <2>4. op = [v \in Sessions |-> op[v]] /\ Tables(db) /\ Sound(op, db)
    BY DEF RepositoryInv, TablesInv
  <2>5. o.held = held /\ o.mine = mine /\ o.todo = todo
    BY <2>3 DEF H, M, D
  <2>6. SeenOf(o, db) = After(s, seen)
    <3>1. SeenOf(o, db) = [r \in Rows |-> IF r \in DOMAIN written THEN written[r] ELSE seen[r]]
      <4> HIDE DEF s
      <4> QED
        BY <1>1, <1>3, <1>5, <1>7, <2>4, <2>5, SoundRun
    <3>2. QED
      BY <3>1 DEF After
  <2>7. ASSUME op[w].alone PROVE \E T : OnPlan(o, SeenOf(o, db), T)
    <3>1. ~ Clash(op[w])
      <4>1. SUFFICES ASSUME Clash(op[w]) PROVE FALSE
        OBVIOUS
      <4>2. op[w].job.value \in Aggregates
        BY <1>2, <4>1, JobIs DEF Clash
      <4>3. seen = db
        BY <1>3, <2>4, <4>1, SeenOfNothing DEF Clash
      <4>4. seen[RootRow] # NoRow
        BY <1>4, <2>7, <4>1, <4>3 DEF Clash
      <4> HIDE DEF seen
      <4>5. QED
        BY <1>7, <4>1, <4>2, <4>4, ClashIsRefused DEF Clash
    <3>2. PICK T : OnPlan(op[w], seen, T)
      BY <1>4, <2>7, <3>1
    <3>3. Plan(op[w].todo, op[w].was, seen, T) /\ Outcome(op[w].job, op[w].was, T)
      BY <3>2 DEF OnPlan
    <3>4. Tables(T) /\ Closed(T)
      BY <1>2, <1>4, <2>7, <3>3, OutcomeIs
    <3>5. Plan(D, o.was, After(s, seen), T)
      <4> HIDE DEF seen
      <4>1. Plan(Tail(op[w].todo), op[w].was, After(Head(op[w].todo), seen), T)
        BY <1>1, <1>3, <3>3, <3>4, RunLeads
      <4>2. QED
        BY <4>1, <2>3 DEF D
    <3>6. Covered(D) \subseteq Covered(op[w].todo)
      BY <1>1, <3>3, OrderlyTail DEF Plan, D
    <3>7. op[w].job.does \in {"save", "change"} => T # op[w].was
      BY <1>1, <3>2 DEF OnPlan
    <3> HIDE DEF s, seen
    <3>8. OnPlan(o, After(s, seen), T)
      BY <2>3, <3>2, <3>3, <3>5, <3>6, <3>7 DEF OnPlan
    <3>9. QED
      BY <2>6, <3>8
  <2>8. Planned(o, db, mapping)
    BY <1>4, <2>3, <2>7 DEF Planned
  <2>9. QED
    BY <1>1, <2>1, <2>8, OnePlanned
<1>8. QED
  BY <1>6, <1>7

\* What is committed is the outcome; others are alone no longer.
LEMMA CommitPlanned ==
    ASSUME RepositoryInv, TablesInv, PlanInv, NEW w \in Sessions, Commit(w) \/ LoseAnswer(w)
    PROVE  PlanInv'
<1>1. PICK says \in {"done", "fault"} :
         op' = Disturbed([op EXCEPT ![w] = Answer(@, says)], w, Seen(w))
  BY DEF Commit, LoseAnswer
<1> DEFINE after == Seen(w)
           o == Answer(op[w], says)
           ops == [op EXCEPT ![w] = o]
<1>2. op[w].phase = "run" /\ op[w].todo = << >> /\ db' = after /\ mapping' = mapping
  BY DEF Commit, LoseAnswer
<1>3. /\ ops[w] = o /\ \A v \in Sessions \ {w} : ops[v] = op[v]
      /\ ops = [op EXCEPT ![w] = Answer(@, says)]
  BY DEF RepositoryInv
<1>4. /\ o.phase = "answered" /\ o.says = says /\ o.job = op[w].job /\ o.was = op[w].was
      /\ o.alone = op[w].alone
  BY AnswerIs
<1>5. Tables(after) /\ after = SeenOf(op[w], db)
  BY SeenTyped
<1> HIDE DEF after, o, ops
<1>6. op' = Disturbed(ops, w, after)
  BY <1>1, <1>3 DEF after
<1>7. op'[w] = o
  BY <1>3, <1>6 DEF Disturbed
<1>8. Planned(o, after, mapping)
  <2>1. ASSUME op[w].alone
        PROVE  /\ Tables(op[w].was) /\ Closed(op[w].was)
               /\ Outcome(op[w].job, op[w].was, after)
    <3>1. /\ Tables(op[w].was) /\ Closed(op[w].was) /\ op[w].job \in Jobs
          /\ Clash(op[w]) \/ \E T : OnPlan(op[w], after, T)
      BY <1>2, <1>5, <2>1, AloneReads, PlannedIs DEF Planned
    <3>2. ~ Clash(op[w])
      <4>1. SUFFICES ASSUME Clash(op[w]) PROVE FALSE
        OBVIOUS
      <4>2. op[w].job.value \in Aggregates
        BY <3>1, <4>1, JobIs DEF Clash
      <4>3. op[w].was[RootRow] # NoRow /\ op[w].todo = Inserting(op[w].job.value).todo
        BY <4>1 DEF Clash
      <4>4. QED
        BY <1>2, <4>2, <4>3, ClashIsRefused
    <3>3. PICK T : OnPlan(op[w], after, T)
      BY <3>1, <3>2
    <3>4. Outcome(op[w].job, op[w].was, T) /\ \A r \in Rows \ Covered(op[w].todo) : after[r] = T[r]
      BY <3>3 DEF OnPlan, Plan
    <3>5. Covered(op[w].todo) = {}
      BY <1>2, EmptyIs DEF Covered
    <3>6. Tables(T)
      BY <3>1, <3>4, OutcomeIs
    <3>7. after = T
      BY <1>5, <3>4, <3>5, <3>6 DEF Tables
    <3>8. QED
      BY <3>1, <3>4, <3>7
  <2>2. QED
    BY <1>1, <1>4, <2>1 DEF Planned, Told
<1>9. ASSUME NEW v \in Sessions, v # w
      PROVE  Planned(op'[v], after, mapping)
  <2> DEFINE p == op[v]
             q == [p EXCEPT !.alone = FALSE, !.was = << >>]
  <2>1. op'[v] = IF after = db \/ p.phase = "idle" THEN p ELSE q
    <3>1. op'[v] = IF v = w \/ after = db \/ ops[v].phase = "idle" THEN ops[v]
                   ELSE [ops[v] EXCEPT !.alone = FALSE, !.was = << >>]
      BY <1>6 DEF Disturbed
    <3>2. ops[v] = p
      BY <1>3, <1>9
    <3>3. QED
      BY <1>9, <3>1, <3>2
  <2>2. Fields(p) /\ Planned(p, db, mapping)
    BY SessionIs, PlannedIs
  <2> HIDE DEF p
  <2>3. CASE after = db
    BY <2>1, <2>2, <2>3
  <2>4. CASE p.phase = "idle"
    BY <2>1, <2>4 DEF Planned
  <2>5. CASE ~ (after = db \/ p.phase = "idle")
    <3>1. q.alone = FALSE
      BY <2>2 DEF Fields
    <3>2. op'[v] = q
      BY <2>1, <2>5
    <3> HIDE DEF q
    <3>3. QED
      BY <3>1, <3>2 DEF Planned
  <2>6. QED
    BY <2>3, <2>4, <2>5
<1>10. \A v \in Sessions : Planned(op'[v], db', mapping')
  BY <1>2, <1>7, <1>8, <1>9
<1>11. QED
  BY <1>10 DEF PlanInv

-----------------------------------------------------------------------------
(* The plans hold of every step. *)

\* Every step keeps the plans.
LEMMA OneStepKeepsPlans == RepositoryInv /\ TablesInv /\ PlanInv /\ [Next]_vars => PlanInv'
<1> SUFFICES ASSUME RepositoryInv, TablesInv, PlanInv, [Next]_vars PROVE PlanInv'
  OBVIOUS
<1>1. CASE UNCHANGED vars
  BY <1>1 DEF vars, PlanInv
<1>2. CASE Next
  <2>1. PICK w \in Sessions : \/ \E j \in May(w) : Ask(w, j)
                              \/ Step(w) \/ Fail(w) \/ LoseAnswer(w)
    BY <1>2 DEF Next
  <2>2. CASE \E j \in May(w) : Ask(w, j)
    BY <2>2, AskPlanned
  <2>3. CASE ReadRoot(w)
    BY <2>3, ReadRootPlanned
  <2>4. CASE ReadLines(w)
    BY <2>4, ReadLinesPlanned
  <2>5. CASE ReadNotes(w)
    BY <2>5, ReadNotesPlanned
  <2>6. CASE ReadAgain(w)
    BY <2>6, ReadAgainPlanned
  <2>7. CASE Run(w)
    BY <2>7, RunPlanned
  <2>8. CASE Commit(w) \/ LoseAnswer(w)
    BY <2>8, CommitPlanned
  <2>9. CASE Return(w)
    <3>1. op' = [op EXCEPT ![w] = Rest] /\ db' = db /\ mapping' = mapping
      BY <2>9 DEF Return
    <3>2. QED
      BY <3>1, RestPlanned, OnePlanned
  <2>10. CASE Fail(w) \/ \E v \in Sessions : Deadlocked(w, v)
    <3>1. PICK says \in {"fault", "deadlock"} : op' = [op EXCEPT ![w] = Answer(@, says)]
      BY <2>10 DEF Fail, Deadlocked
    <3>2. /\ op' = [op EXCEPT ![w] = Answer(op[w], says)]
          /\ db' = db /\ mapping' = mapping /\ op[w].phase # "idle"
      BY <2>10, <3>1 DEF Fail, Deadlocked, Waiting, RepositoryInv
    <3>3. Planned(Answer(op[w], says), db, mapping)
      BY <3>1, <3>2, PlannedIs, AnswerPlanned
    <3>4. QED
      BY <3>2, <3>3, OnePlanned
  <2>11. QED
    BY <2>1, <2>2, <2>3, <2>4, <2>5, <2>6, <2>7, <2>8, <2>9, <2>10 DEF Step
<1>3. QED
  BY <1>1, <1>2

\* There are none at first.
LEMMA StartsPlanned == Init => PlanInv
<1> SUFFICES ASSUME Init PROVE PlanInv
  OBVIOUS
<1>1. \A w \in Sessions : op[w] = Rest
  BY DEF Init
<1>2. QED
  BY <1>1, RestPlanned DEF PlanInv

\* The three together always hold.
LEMMA AlwaysPlanned == Spec => [](RepositoryInv /\ TablesInv /\ PlanInv)
<1>1. Init => RepositoryInv /\ TablesInv /\ PlanInv
  BY StartsTrue, StartsTyped, StartsPlanned
<1>2. RepositoryInv /\ TablesInv /\ PlanInv /\ [Next]_vars => (RepositoryInv /\ TablesInv /\ PlanInv)'
  BY OneStepKeepsAnswers, OneStepKeepsTables, OneStepKeepsPlans
<1>3. QED
  BY <1>1, <1>2, PTL DEF Spec

\* A write nobody came in between of is refused only for what it asks: a new
\* aggregate that is there, a value another aggregate's root has, or one that
\* another element of its list still had when it was saved.  Nothing it wrote
\* before, and no order its statements run in, gets in its own way.
THEOREM RefusalsHaveACause == Spec => []RefusedOnlyForCause
<1>1. PlanInv => RefusedOnlyForCause
  <2>1. SUFFICES ASSUME PlanInv, NEW w \in Sessions, Alone(w), op[w].says = "refused"
                 PROVE  Cause(op[w].job, op[w].was, mapping)
    BY DEF RefusedOnlyForCause, Cause
  <2>2. QED
    BY <2>1, PlannedIs DEF Alone, Planned, Told
<1>2. QED
  BY <1>1, AlwaysPlanned, PTL

\* A row is never stored without the rows that hold it, whoever deletes and
\* inserts meanwhile.
THEOREM NoRowWithoutItsHolder == Spec => []Closed(db)
<1>1. TablesInv => Closed(db)
  BY StoredSound
<1>2. QED
  BY <1>1, AlwaysPlanned, PTL

\* What an operation leaves that nobody came in between of is what its kind of
\* change makes of what was stored when it was asked, however many statements
\* it took: nothing is left half done by one that answers it is.
THEOREM DoneIsDone ==
    Spec => [](\A w \in Sessions :
                  Alone(w) /\ op[w].says = "done" => Outcome(op[w].job, op[w].was, db))
<1>1. PlanInv => \A w \in Sessions :
                    Alone(w) /\ op[w].says = "done" => Outcome(op[w].job, op[w].was, db)
  BY PlannedIs DEF Alone, Planned, Told
<1>2. QED
  BY <1>1, AlwaysPlanned, PTL

-----------------------------------------------------------------------------
(* The longest run of positions that increases (ListPositions). *)

\* Some of a list's, whose positions increase in its order.
Increases(positions, K) == \A i, j \in K : i < j => positions[i] < positions[j]

\* A list of whole numbers, and those of it that are known.
IsPlaces(positions, n, known) ==
    /\ n \in Nat /\ positions = [i \in 1..n |-> positions[i]]
    /\ \A i \in 1..n : positions[i] \in Int
    /\ known \subseteq 1..n

NextRuns(positions, known, i, was) ==
    LET k == RunFor(was.tails, positions, positions[i])
    IN  IF i \notin known THEN was
        ELSE [tails |-> [j \in 1..(IF k > Len(was.tails) THEN k ELSE Len(was.tails)) |->
                            IF j = k THEN i ELSE was.tails[j]],
              previous |-> [was.previous EXCEPT
                  ![i] = IF k = 1 THEN 0 ELSE was.tails[k - 1]]]

RunsTo(positions, known, n, m, g) ==
    g = [i \in 0..m |-> IF i = 0 THEN [tails |-> << >>, previous |-> [j \in 1..n |-> 0]]
                        ELSE NextRuns(positions, known, i, g[i - 1])]

\* The runs counted up to each element are there.
LEMMA RunsExist == \A positions, known, n : \A m \in Nat : \E g : RunsTo(positions, known, n, m, g)
<1> SUFFICES ASSUME NEW positions, NEW known, NEW n
             PROVE  \A m \in Nat : \E g : RunsTo(positions, known, n, m, g)
  OBVIOUS
<1> DEFINE N == {m \in Nat : \E g : RunsTo(positions, known, n, m, g)}
           first == [tails |-> << >>, previous |-> [j \in 1..n |-> 0]]
           Next1(x, f) == NextRuns(positions, known, x, f[x - 1])
<1>1. 0 \in N
  <2>1. RunsTo(positions, known, n, 0, [i \in {0} |-> first])
    BY DEF RunsTo
  <2>2. QED
    BY <2>1
<1>2. ASSUME NEW m \in Nat, m \in N PROVE m + 1 \in N
  <2>1. PICK g : RunsTo(positions, known, n, m, g)
    BY <1>2
  <2> DEFINE last == Next1(m + 1, g)
             h == [i \in 0..(m + 1) |-> IF i = m + 1 THEN last ELSE g[i]]
  <2> HIDE DEF last, first
  <2>2. ASSUME NEW i \in 0..(m + 1)
        PROVE  h[i] = IF i = 0 THEN first ELSE Next1(i, h)
    <3>1. CASE i = m + 1
      <4>1. i # 0 /\ i - 1 = m /\ m \in 0..(m + 1) /\ m # m + 1 /\ (m + 1) - 1 = m
        BY <3>1
      <4>2. h[m] = g[m] /\ h[i] = last
        BY <3>1, <4>1
      <4>3. Next1(i, h) = last
        BY <3>1, <4>1, <4>2 DEF last
      <4>4. QED
        BY <4>1, <4>2, <4>3
    <3>2. CASE i # m + 1
      <4>1. i \in 0..m /\ (i # 0 => i - 1 \in 0..m)
        BY <3>2
      <4>2. g[i] = IF i = 0 THEN first ELSE Next1(i, g)
        BY <2>1, <4>1 DEF RunsTo, first
      <4>3. h[i] = g[i] /\ (i # 0 => h[i - 1] = g[i - 1])
        BY <3>2, <4>1
      <4>4. QED
        BY <4>2, <4>3
    <3>3. QED
      BY <3>1, <3>2
  <2>3. h = [i \in 0..(m + 1) |-> h[i]]
    OBVIOUS
  <2> HIDE DEF h
  <2>4. RunsTo(positions, known, n, m + 1, h)
    <3>1. h = [i \in 0..(m + 1) |-> IF i = 0 THEN first ELSE Next1(i, h)]
      <4> HIDE DEF Next1
      <4> QED
        BY <2>2, <2>3
    <3>2. QED
      BY <3>1 DEF RunsTo, first
  <2>5. QED
    BY <2>4
<1> HIDE DEF N
<1>3. Nat \subseteq N
  BY <1>1, <1>2, CountingUp
<1>4. QED
  BY <1>3 DEF N

\* The run an element ends is the first that does not end below it.
LEMMA RunForIs ==
    ASSUME NEW tails, IsList(tails), NEW positions, NEW p \in Int,
           \A j \in 1..Len(tails) : positions[tails[j]] \in Int
    PROVE  LET k == RunFor(tails, positions, p) IN
           /\ k \in 1..Len(tails) + 1
           /\ k <= Len(tails) => positions[tails[k]] >= p
           /\ \A j \in 1..k - 1 : positions[tails[j]] < p
<1> DEFINE L == Len(tails)
           Right(k) == /\ k <= Len(tails) => positions[tails[k]] >= p
                       /\ \A j \in 1..k - 1 : positions[tails[j]] < p
           ends == {k \in 1..L + 1 : k <= L => positions[tails[k]] >= p}
<1>1. L \in Nat
  BY ListFacts
<1>2. L + 1 \in ends /\ ends \in SUBSET Nat
  BY <1>1
<1>3. PICK k \in ends : \A m \in ends : k <= m
  <2> HIDE DEF ends
  <2>1. QED
    BY <1>2, LeastNat
<1>4. \A j \in 1..k - 1 : positions[tails[j]] < p
  <2>1. SUFFICES ASSUME NEW j \in 1..k - 1 PROVE positions[tails[j]] < p
    OBVIOUS
  <2>2. j \in 1..L /\ j \notin ends
    BY <1>1, <1>3
  <2>3. QED
    BY <2>2
<1>5. \E q \in 1..L + 1 : Right(q)
  BY <1>3, <1>4
<1>6. RunFor(tails, positions, p) = CHOOSE q \in 1..L + 1 : Right(q)
  BY DEF RunFor
<1> HIDE DEF Right
<1>7. RunFor(tails, positions, p) \in 1..L + 1 /\ Right(RunFor(tails, positions, p))
  BY <1>5, <1>6
<1>8. QED
  BY <1>7 DEF Right

\* The ends of the best run of each length, among the first i.
TailsAre(positions, known, n, i, r) ==
    /\ IsList(r.tails) /\ \A k \in 1..Len(r.tails) : r.tails[k] \in known /\ r.tails[k] <= i
    /\ \A j, k \in 1..Len(r.tails) : j < k => positions[r.tails[j]] < positions[r.tails[k]]
    /\ r.previous = [j \in 1..n |-> r.previous[j]]
    /\ \A j \in 1..n : r.previous[j] \in Nat /\ r.previous[j] < j

\* What each is the end of has as many elements as its rank says.
Ranked(positions, known, i, r, d) ==
    /\ \A k \in 1..Len(r.tails) : d[r.tails[k]] = k
    /\ \A j \in known : j <= i =>
          /\ d[j] \in Nat /\ d[j] >= 1
          /\ d[j] = 1 => r.previous[j] = 0
          /\ d[j] # 1 => /\ r.previous[j] \in known /\ r.previous[j] < j
                         /\ d[r.previous[j]] = d[j] - 1
                         /\ positions[r.previous[j]] < positions[j]

Best(positions, known, i, r) ==
    \A K \in SUBSET {j \in known : j <= i} : Increases(positions, K) /\ K # {} =>
        /\ Cardinality(K) \in 1..Len(r.tails)
        /\ \E m \in K : positions[r.tails[Cardinality(K)]] <= positions[m]

GoodRuns(positions, known, n, i, r) ==
    /\ TailsAre(positions, known, n, i, r)
    /\ \E d \in [1..n -> Nat] : Ranked(positions, known, i, r, d)
    /\ Best(positions, known, i, r)

\* One more element that is known.
LEMMA NextRunsAre ==
    ASSUME NEW positions, NEW n, NEW known, IsPlaces(positions, n, known), NEW i \in Nat,
           i + 1 \in known, NEW was, GoodRuns(positions, known, n, i, was)
    PROVE  GoodRuns(positions, known, n, i + 1, NextRuns(positions, known, i + 1, was))
<1> DEFINE x == i + 1
           p == positions[x]
           T == was.tails
           L == Len(T)
           k == RunFor(T, positions, p)
           M == IF k > L THEN k ELSE L
           S == [j \in 1..M |-> IF j = k THEN x ELSE T[j]]
           V == [was.previous EXCEPT ![x] = IF k = 1 THEN 0 ELSE T[k - 1]]
           r == NextRuns(positions, known, x, was)
<1>1. r = [tails |-> S, previous |-> V]
  BY DEF NextRuns
<1>2. /\ IsList(T) /\ L \in Nat
      /\ \A j \in 1..L : T[j] \in known /\ T[j] <= i /\ T[j] \in 1..n /\ positions[T[j]] \in Int
      /\ \A j, q \in 1..L : j < q => positions[T[j]] < positions[T[q]]
  BY ListFacts DEF GoodRuns, TailsAre, IsPlaces
<1>3. p \in Int /\ x \in 1..n /\ x \in Nat /\ i < x /\ x \in known
  BY DEF IsPlaces
<1>4. /\ k \in 1..L + 1
      /\ k <= L => positions[T[k]] >= p
      /\ \A j \in 1..k - 1 : positions[T[j]] < p
  BY <1>2, <1>3, RunForIs
<1> HIDE DEF k, T, r, p
<1>5. M \in Nat /\ k \in 1..M /\ L <= M /\ M \in 1..L + 1 /\ (M > L => M = k) /\ \A j \in 1..M : j # k => j \in 1..L
  BY <1>2, <1>4
<1> HIDE DEF M, L
<1>6. /\ IsList(S) /\ Len(S) = M
      /\ \A j \in 1..M : S[j] = IF j = k THEN x ELSE T[j]
  <2>1. S = [j \in 1..M |-> S[j]]
    OBVIOUS
  <2>2. \A j \in 1..M : S[j] = IF j = k THEN x ELSE T[j]
    OBVIOUS
  <2> HIDE DEF S
  <2>3. QED
    BY <1>5, <2>1, <2>2, ListIs
<1>7. /\ V = [j \in 1..n |-> V[j]]
      /\ V[x] = IF k = 1 THEN 0 ELSE T[k - 1]
      /\ \A j \in 1..n : j # x => V[j] = was.previous[j]
  <2>1. was.previous = [j \in 1..n |-> was.previous[j]]
    BY DEF GoodRuns, TailsAre
  <2>2. QED
    BY <1>3, <2>1
<1> HIDE DEF S, V, x
<1>8. r.tails = S /\ r.previous = V
  BY <1>1
<1>9. \A j \in known : j \in 1..n /\ j \in Nat /\ positions[j] \in Int
  BY DEF IsPlaces
<1>10. \A j \in Nat : j <= x <=> j <= i \/ j = x
  BY DEF x
<1>11. TailsAre(positions, known, n, x, r)
  <2>1. \A j \in 1..M : S[j] \in known /\ S[j] <= x
    BY <1>2, <1>3, <1>5, <1>6, <1>9, <1>10
  <2>2. ASSUME NEW j \in 1..M, NEW q \in 1..M, j < q
        PROVE  positions[S[j]] < positions[S[q]]
    <3>1. CASE j = k
      <4>1. q \in 1..L /\ k \in 1..L /\ k < q /\ S[q] = T[q] /\ positions[S[j]] = p
        <5>1. q # k /\ q \in 1..L
          BY <1>5, <2>2, <3>1
        <5>2. k \in 1..L /\ k < q
          BY <1>2, <1>5, <2>2, <3>1, <5>1
        <5>3. S[q] = T[q] /\ S[j] = x
          BY <1>6, <3>1, <5>1
        <5>4. QED
          BY <5>1, <5>2, <5>3 DEF p
      <4>2. p <= positions[T[k]] /\ positions[T[k]] < positions[T[q]]
        BY <1>2, <1>4, <4>1
      <4>3. QED
        BY <1>2, <1>3, <4>1, <4>2
    <3>2. CASE q = k
      <4>1. j \in 1..k - 1 /\ S[j] = T[j] /\ positions[S[q]] = p
        BY <1>4, <1>5, <1>6, <2>2, <3>2 DEF p
      <4>2. QED
        BY <1>4, <4>1
    <3>3. CASE j # k /\ q # k
      BY <1>2, <1>5, <1>6, <2>2, <3>3
    <3>4. QED
      BY <3>1, <3>2, <3>3
  <2>3. ASSUME NEW j \in 1..n PROVE V[j] \in Nat /\ V[j] < j
    <3>1. CASE j = x
      <4>1. k # 1 => k - 1 \in 1..L
        BY <1>2, <1>4
      <4>2. V[j] = 0 \/ (V[j] \in 1..n /\ V[j] <= i)
        BY <1>2, <1>7, <3>1, <4>1
      <4>3. QED
        BY <1>3, <3>1, <4>2
    <3>2. CASE j # x
      <4>1. V[j] = was.previous[j]
        BY <1>7, <3>2
      <4>2. was.previous[j] \in Nat /\ was.previous[j] < j
        BY DEF GoodRuns, TailsAre
      <4>3. QED
        BY <4>1, <4>2
    <3>3. QED
      BY <3>1, <3>2
  <2>4. QED
    BY <1>6, <1>7, <1>8, <2>1, <2>2, <2>3 DEF TailsAre
<1>12. \E d \in [1..n -> Nat] : Ranked(positions, known, x, r, d)
  <2>1. PICK d \in [1..n -> Nat] : Ranked(positions, known, i, was, d)
    BY DEF GoodRuns
  <2> DEFINE e == [d EXCEPT ![x] = k]
  <2>2. e \in [1..n -> Nat] /\ e[x] = k /\ \A j \in 1..n : j # x => e[j] = d[j]
    BY <1>3, <1>4, <1>2
  <2> HIDE DEF e
  <2>3. /\ \A j \in 1..L : d[T[j]] = j
        /\ \A j \in known : j <= i =>
              /\ d[j] \in Nat /\ d[j] >= 1
              /\ d[j] = 1 => was.previous[j] = 0
              /\ d[j] # 1 => /\ was.previous[j] \in known /\ was.previous[j] < j
                             /\ d[was.previous[j]] = d[j] - 1
                             /\ positions[was.previous[j]] < positions[j]
    BY <2>1 DEF Ranked, T, L
  <2>4. \A j \in 1..M : e[S[j]] = j
    <3>1. SUFFICES ASSUME NEW j \in 1..M PROVE e[S[j]] = j
      OBVIOUS
    <3>2. CASE j = k
      BY <3>2, <1>6, <2>2
    <3>3. CASE j # k
      <4>1. j \in 1..L /\ S[j] = T[j] /\ T[j] \in 1..n /\ T[j] # x
        BY <1>2, <1>3, <1>5, <1>6, <3>3
      <4>2. QED
        BY <2>2, <2>3, <4>1
    <3>4. QED
      BY <3>2, <3>3
  <2>5. ASSUME NEW j \in known, j <= x
        PROVE  /\ e[j] \in Nat /\ e[j] >= 1
               /\ e[j] = 1 => V[j] = 0
               /\ e[j] # 1 => /\ V[j] \in known /\ V[j] < j
                              /\ e[V[j]] = e[j] - 1
                              /\ positions[V[j]] < positions[j]
    <3>1. CASE j = x
      <4>1. e[j] = k /\ k \in Nat /\ k >= 1 /\ (k = 1 => V[j] = 0)
        BY <3>1, <1>2, <1>4, <1>7, <2>2
      <4>2. ASSUME k # 1
            PROVE  V[j] \in known /\ V[j] < j /\ e[V[j]] = k - 1 /\ positions[V[j]] < positions[j]
        <5>1. k - 1 \in 1..L /\ k - 1 \in 1..k - 1 /\ V[j] = T[k - 1]
          BY <3>1, <4>2, <1>2, <1>4, <1>7
        <5>2. T[k - 1] \in known /\ T[k - 1] <= i /\ T[k - 1] \in 1..n /\ T[k - 1] # x
          BY <1>2, <1>3, <5>1
        <5>3. e[T[k - 1]] = k - 1
          BY <2>2, <2>3, <5>1, <5>2
        <5>4. positions[T[k - 1]] < p
          BY <1>4, <5>1
        <5>5. QED
          BY <3>1, <5>1, <5>2, <5>3, <5>4, <1>3, <1>9 DEF p
      <4>3. QED
        BY <4>1, <4>2
    <3>2. CASE j # x
      <4>1. j <= i /\ j \in 1..n
        BY <1>9, <1>10, <2>5, <3>2
      <4>2. e[j] = d[j] /\ V[j] = was.previous[j]
        BY <1>7, <2>2, <3>2, <4>1
      <4>3. ASSUME d[j] # 1
            PROVE  e[V[j]] = d[j] - 1
        <5>1. V[j] \in known /\ V[j] < j /\ d[V[j]] = d[j] - 1
          BY <2>3, <4>1, <4>2, <4>3
        <5>2. V[j] \in 1..n /\ V[j] # x
          <6> DEFINE u == V[j]
          <6>1. u \in 1..n /\ u \in Nat /\ u < j /\ j \in Nat
            BY <1>9, <4>1, <5>1
          <6> HIDE DEF u
          <6>2. u # x
            BY <1>3, <4>1, <6>1
          <6>3. QED
            BY <6>1, <6>2 DEF u
        <5>3. QED
          BY <2>2, <5>1, <5>2
      <4>4. QED
        BY <2>3, <4>1, <4>2, <4>3
    <3>3. QED
      BY <3>1, <3>2
  <2>6. Ranked(positions, known, x, r, e)
    BY <1>6, <1>8, <2>4, <2>5 DEF Ranked
  <2>7. QED
    BY <2>2, <2>6
<1>13. Best(positions, known, x, r)
  <2>1. SUFFICES ASSUME NEW K \in SUBSET {j \in known : j <= x}, Increases(positions, K), K # {}
                 PROVE  /\ Cardinality(K) \in 1..M
                        /\ \E m \in K : positions[S[Cardinality(K)]] <= positions[m]
    BY <1>6, <1>8 DEF Best
  <2> DEFINE c == Cardinality(K)
             K1 == K \ {x}
             c1 == Cardinality(K1)
  <2>2. IsFiniteSet(K) /\ IsFiniteSet(K1)
    <3>1. IsFiniteSet(1..n)
      <4>1. n \in Int /\ 1 \in Int
        BY DEF IsPlaces
      <4>2. QED
        BY <4>1, FS_Interval
    <3>2. K \subseteq 1..n /\ K1 \subseteq 1..n
      BY <1>9
    <3>3. QED
      BY <3>1, <3>2, FS_Subset
  <2>3. c \in Nat /\ c1 \in Nat
    BY <2>2, FS_CardinalityType
  <2>4. K1 \in SUBSET {j \in known : j <= i} /\ Increases(positions, K1)
    BY <1>9, <1>10, <2>1 DEF Increases
  <2>5. \A m \in K : m \in known /\ positions[m] \in Int
    BY <1>9
  <2>6. K1 # {} => c1 \in 1..L /\ \E m \in K1 : positions[T[c1]] <= positions[m]
    BY <2>4 DEF GoodRuns, Best, T, L
  <2>7. CASE x \notin K
    <3>1. K1 = K /\ c1 = c
      BY <2>7
    <3>2. c \in 1..L /\ \E m \in K : positions[T[c]] <= positions[m]
      BY <2>1, <2>6, <3>1
    <3> HIDE DEF c
    <3>3. c \in 1..M /\ positions[S[c]] <= positions[T[c]]
      <4>1. c \in 1..M
        BY <1>2, <1>5, <3>2
      <4>2. CASE c = k
        BY <1>2, <1>3, <1>4, <1>6, <3>2, <4>1, <4>2 DEF p
      <4>3. CASE c # k
        BY <1>2, <1>6, <3>2, <4>1, <4>3
      <4>4. QED
        BY <4>1, <4>2, <4>3
    <3>4. PICK m \in K : positions[T[c]] <= positions[m]
      BY <3>2
    <3>5. positions[S[c]] \in Int
      BY <1>11, <1>8, <1>6, <1>9, <3>3 DEF TailsAre
    <3>6. positions[S[c]] <= positions[m]
      BY <1>2, <2>5, <3>2, <3>3, <3>4, <3>5
    <3>7. QED
      BY <3>3, <3>6 DEF c
  <2>8. CASE x \in K
    <3>1. c = c1 + 1
      <4>1. K = K1 \cup {x} /\ x \notin K1
        BY <2>8
      <4> HIDE DEF K1
      <4>2. QED
        BY <2>2, <4>1, FS_AddElement
    <3>2. \A m \in K1 : positions[m] < p
      <4>1. \A m \in K1 : m \in Nat /\ m <= i
        BY <1>9, <2>4
      <4>2. \A m \in K1 : m < x /\ m \in K
        BY <1>3, <4>1
      <4>3. QED
        BY <2>1, <2>8, <4>2 DEF Increases, p
    <3> HIDE DEF c, K1, c1
    <3>3. c1 < k /\ c \in 1..M
      <4>1. CASE K1 = {}
        <5>1. c1 = 0
          BY <4>1, FS_EmptySet DEF c1
        <5>2. QED
          BY <1>2, <1>4, <1>5, <3>1, <5>1
      <4>2. CASE K1 # {}
        <5>1. PICK m \in K1 : positions[T[c1]] <= positions[m]
          BY <2>6, <4>2
        <5>2. c1 \in 1..L /\ positions[T[c1]] < p
          BY <1>2, <1>3, <2>5, <2>6, <3>2, <4>2, <5>1 DEF K1
        <5>3. c1 < k
          <6>1. SUFFICES ASSUME c1 >= k PROVE FALSE
            BY <1>4, <1>2, <2>3
          <6>2. k \in 1..L /\ positions[T[k]] >= p /\ positions[T[k]] \in Int
            BY <1>2, <1>4, <5>2, <6>1
          <6>3. positions[T[k]] <= positions[T[c1]]
            BY <1>2, <5>2, <6>1, <6>2
          <6>4. QED
            BY <1>2, <1>3, <5>2, <6>2, <6>3
        <5>4. QED
          BY <1>2, <1>5, <3>1, <5>2, <5>3, <2>3
      <4>3. QED
        BY <4>1, <4>2
    <3>4. positions[S[c]] <= p
      <4>1. CASE c = k
        BY <1>3, <1>6, <3>3, <4>1 DEF p
      <4>2. CASE c # k
        <5>1. c \in 1..k - 1 /\ S[c] = T[c]
          BY <1>2, <1>4, <1>6, <2>3, <3>1, <3>3, <4>2
        <5>2. c \in 1..L
          BY <1>5, <3>3, <4>2
        <5>3. QED
          BY <1>2, <1>3, <1>4, <5>1, <5>2
      <4>3. QED
        BY <4>1, <4>2
    <3>5. QED
      BY <2>8, <3>3, <3>4 DEF c, p
  <2>9. QED
    BY <2>7, <2>8
<1>14. QED
  BY <1>11, <1>12, <1>13 DEF GoodRuns, r, x

\* Before the first element there is no run.
LEMMA NoRunsAre ==
    ASSUME NEW positions, NEW n, NEW known, IsPlaces(positions, n, known),
           NEW r, r = [tails |-> << >>, previous |-> [j \in 1..n |-> 0]]
    PROVE  GoodRuns(positions, known, n, 0, r)
<1>1. \A j \in known : j \in 1..n /\ ~ (j <= 0)
  BY DEF IsPlaces
<1>2. r.tails = << >> /\ r.previous = [j \in 1..n |-> 0]
  OBVIOUS
<1>3. Len(<< >>) = 0 /\ IsList(<< >>)
  BY DEF IsList
<1>4. TailsAre(positions, known, n, 0, r)
  <2>1. \A j \in 1..n : r.previous[j] \in Nat /\ r.previous[j] < j
    BY <1>2 DEF IsPlaces
  <2>2. QED
    BY <1>2, <1>3, <2>1 DEF TailsAre
<1>5. Ranked(positions, known, 0, r, [j \in 1..n |-> 0])
  BY <1>1, <1>2, <1>3 DEF Ranked
<1>6. Best(positions, known, 0, r)
  <2>1. {j \in known : j <= 0} = {}
    BY <1>1
  <2>2. QED
    BY <2>1 DEF Best
<1>7. [j \in 1..n |-> 0] \in [1..n -> Nat]
  OBVIOUS
<1>8. QED
  BY <1>4, <1>5, <1>6, <1>7 DEF GoodRuns

\* One that is not known changes nothing.
LEMMA SameRunsAre ==
    ASSUME NEW positions, NEW n, NEW known, IsPlaces(positions, n, known), NEW i \in Nat,
           i + 1 \notin known, NEW r, GoodRuns(positions, known, n, i, r)
    PROVE  GoodRuns(positions, known, n, i + 1, r)
<1>1. \A j \in known : j \in Nat /\ (j <= i + 1 <=> j <= i)
  <2>1. \A j \in known : j \in Nat /\ j # i + 1
    BY DEF IsPlaces
  <2>2. QED
    BY <2>1
<1>2. TailsAre(positions, known, n, i + 1, r)
  <2>1. \A k \in 1..Len(r.tails) : r.tails[k] \in known /\ r.tails[k] <= i + 1
    BY <1>1 DEF GoodRuns, TailsAre
  <2>2. QED
    BY <2>1 DEF GoodRuns, TailsAre
<1>3. \A d : Ranked(positions, known, i, r, d) => Ranked(positions, known, i + 1, r, d)
  BY <1>1 DEF Ranked
<1>4. {j \in known : j <= i + 1} = {j \in known : j <= i}
  BY <1>1
<1>5. Best(positions, known, i + 1, r)
  BY <1>4 DEF GoodRuns, Best
<1>6. QED
  BY <1>2, <1>3, <1>5 DEF GoodRuns

\* The runs up to the last element are the best there are.
LEMMA RunsAre ==
    ASSUME NEW positions, NEW n, NEW known, IsPlaces(positions, n, known)
    PROVE  GoodRuns(positions, known, n, n, Runs(positions, known))
<1> DEFINE m == Len(positions)
           Is(g) == RunsTo(positions, known, m, m, g)
           runs == CHOOSE g : Is(g)
<1>1. n \in Nat /\ m = n
  BY ListIs DEF IsPlaces
<1>2. Runs(positions, known) = runs[m]
  BY DEF Runs, RunsTo, NextRuns
<1>3. Is(runs)
  <2>1. \E g : Is(g)
    BY <1>1, RunsExist
  <2> HIDE DEF Is
  <2>2. QED
    BY <2>1
<1> HIDE DEF runs
<1>4. \A i \in 0..n : runs[i] = IF i = 0 THEN [tails |-> << >>, previous |-> [j \in 1..n |-> 0]]
                                ELSE NextRuns(positions, known, i, runs[i - 1])
  BY <1>1, <1>3 DEF RunsTo
<1> DEFINE N == {i \in Nat : i <= n => GoodRuns(positions, known, n, i, runs[i])}
<1>5. 0 \in N
  <2>1. runs[0] = [tails |-> << >>, previous |-> [j \in 1..n |-> 0]]
    BY <1>1, <1>4
  <2>2. GoodRuns(positions, known, n, 0, runs[0])
    BY <2>1, NoRunsAre
  <2>3. QED
    BY <2>2
<1>6. ASSUME NEW i \in Nat, i \in N PROVE i + 1 \in N
  <2>1. SUFFICES ASSUME i + 1 <= n PROVE GoodRuns(positions, known, n, i + 1, runs[i + 1])
    OBVIOUS
  <2>2. GoodRuns(positions, known, n, i, runs[i])
    BY <1>1, <1>6, <2>1
  <2>3. runs[i + 1] = NextRuns(positions, known, i + 1, runs[i])
    <3>1. i + 1 \in 0..n /\ i + 1 # 0 /\ (i + 1) - 1 = i
      BY <1>1, <2>1
    <3>2. QED
      BY <1>4, <3>1
  <2>4. CASE i + 1 \in known
    BY <2>2, <2>3, <2>4, NextRunsAre
  <2>5. CASE i + 1 \notin known
    <3>1. runs[i + 1] = runs[i]
      BY <2>3, <2>5 DEF NextRuns
    <3>2. QED
      BY <2>2, <2>5, <3>1, SameRunsAre
  <2>6. QED
    BY <2>4, <2>5
<1> HIDE DEF N
<1>7. Nat \subseteq N
  BY <1>5, <1>6, CountingUp
<1>8. QED
  BY <1>1, <1>2, <1>7 DEF N

\* What each end goes back to, the run it ends.
BackTo(previous, m, g) ==
    g = [i \in 0..m |-> IF i = 0 THEN {} ELSE {i} \cup g[previous[i]]]

\* A run can be followed back from every end.
LEMMA BackExists ==
    ASSUME NEW n \in Nat, NEW previous, \A j \in 1..n : previous[j] \in Nat /\ previous[j] < j
    PROVE  \E g : BackTo(previous, n, g)
<1> DEFINE N == {m \in Nat : m <= n => \E g : BackTo(previous, m, g)}
<1>1. 0 \in N
  <2>1. BackTo(previous, 0, [i \in {0} |-> {}])
    BY DEF BackTo
  <2>2. QED
    BY <2>1
<1>2. ASSUME NEW m \in Nat, m \in N PROVE m + 1 \in N
  <2>1. SUFFICES ASSUME m + 1 <= n PROVE \E g : BackTo(previous, m + 1, g)
    OBVIOUS
  <2>2. PICK g : BackTo(previous, m, g)
    BY <1>2, <2>1
  <2> DEFINE Next1(x, f) == {x} \cup f[previous[x]]
             last == Next1(m + 1, g)
             h == [i \in 0..(m + 1) |-> IF i = m + 1 THEN last ELSE g[i]]
  <2>3. \A i \in 1..(m + 1) : previous[i] \in 0..m /\ previous[i] # m + 1 /\ previous[i] < i
    BY <2>1
  <2> HIDE DEF last
  <2>4. ASSUME NEW i \in 0..(m + 1)
        PROVE  h[i] = IF i = 0 THEN {} ELSE Next1(i, h)
    <3>1. CASE i = m + 1
      <4>1. h[i] = last /\ h[previous[i]] = g[previous[i]] /\ i # 0
        BY <2>3, <3>1
      <4>2. QED
        BY <3>1, <4>1 DEF last
    <3>2. CASE i # m + 1 /\ i # 0
      <4>1. i \in 0..m /\ i \in 1..(m + 1)
        BY <3>2
      <4>2. h[i] = g[i] /\ h[previous[i]] = g[previous[i]]
        BY <2>3, <3>2, <4>1
      <4>3. g[i] = Next1(i, g)
        BY <2>2, <3>2, <4>1 DEF BackTo
      <4>4. QED
        BY <3>2, <4>2, <4>3
    <3>3. CASE i = 0
      <4>1. h[0] = g[0] /\ 0 \in 0..m
        BY <3>3
      <4>2. g[0] = {}
        BY <2>2, <4>1 DEF BackTo
      <4>3. QED
        BY <3>3, <4>1, <4>2
    <3>4. QED
      BY <3>1, <3>2, <3>3
  <2>5. h = [i \in 0..(m + 1) |-> h[i]]
    OBVIOUS
  <2> HIDE DEF h
  <2>6. BackTo(previous, m + 1, h)
    <3>1. h = [i \in 0..(m + 1) |-> IF i = 0 THEN {} ELSE Next1(i, h)]
      <4> HIDE DEF Next1
      <4> QED
        BY <2>4, <2>5
    <3>2. QED
      BY <3>1 DEF BackTo
  <2>7. QED
    BY <2>6
<1> HIDE DEF N
<1>3. Nat \subseteq N
  BY <1>1, <1>2, CountingUp
<1>4. QED
  BY <1>3 DEF N

\* S is a run that ends with j, of l elements.
EndsWith(S, positions, known, j, l) ==
    /\ \A q \in S : q \in known /\ q <= j
    /\ IsFiniteSet(S) /\ Cardinality(S) = l
    /\ Increases(positions, S)

\* A run is as long as its end's rank, increases, and is of what is known.
LEMMA BackIs ==
    ASSUME NEW positions, NEW n, NEW known, IsPlaces(positions, n, known), NEW r,
           TailsAre(positions, known, n, n, r),
           NEW d \in [1..n -> Nat], Ranked(positions, known, n, r, d),
           NEW g, BackTo(r.previous, n, g)
    PROVE  \A j \in known : EndsWith(g[j], positions, known, j, d[j])
<1> DEFINE Good(j) == /\ g[j] \subseteq {q \in known : q <= j /\ positions[q] <= positions[j]}
                      /\ IsFiniteSet(g[j]) /\ Cardinality(g[j]) = d[j]
                      /\ j \in g[j] /\ Increases(positions, g[j])
           N == {m \in Nat : \A j \in known : j <= m => Good(j)}
<1>1. \A j \in known : j \in 1..n /\ j \in Nat /\ j <= n /\ j # 0 /\ positions[j] \in Int
  BY DEF IsPlaces
<1>2. 0 \in N
  <2>1. \A j \in known : ~ (j <= 0)
    BY <1>1
  <2> HIDE DEF Good
  <2>2. QED
    BY <2>1
<1>3. ASSUME NEW m \in Nat, m \in N PROVE m + 1 \in N
  <2> HIDE DEF Good
  <2>1. SUFFICES ASSUME NEW j \in known, j = m + 1 PROVE Good(j)
    BY <1>1, <1>3
  <2>2. j \in 0..n /\ j # 0
    BY <1>1
  <2>3. g[j] = {j} \cup g[r.previous[j]]
    BY <2>2 DEF BackTo
  <2>4. /\ d[j] \in Nat /\ d[j] >= 1
        /\ d[j] = 1 => r.previous[j] = 0
        /\ d[j] # 1 => /\ r.previous[j] \in known /\ r.previous[j] < j
                       /\ d[r.previous[j]] = d[j] - 1
                       /\ positions[r.previous[j]] < positions[j]
    BY <1>1 DEF Ranked
  <2>5. CASE d[j] = 1
    <3>1. n \in Nat /\ 0 \in 0..n
      <4>1. n \in Nat
        BY DEF IsPlaces
      <4>2. QED
        BY <4>1
    <3>2. g[0] = {}
      BY <3>1 DEF BackTo
    <3>3. g[j] = {j}
      BY <2>3, <2>4, <2>5, <3>2
    <3>4. IsFiniteSet({j}) /\ Cardinality({j}) = 1
      BY FS_Singleton
    <3>5. Increases(positions, {j})
      BY <1>1 DEF Increases
    <3>6. j \in {q \in known : q <= j /\ positions[q] <= positions[j]}
      BY <1>1
    <3>7. QED
      BY <2>5, <3>3, <3>4, <3>5, <3>6 DEF Good
  <2>6. CASE d[j] # 1
    <3> DEFINE p == r.previous[j]
               B == g[p]
    <3>1. p \in known /\ p < j /\ p <= m /\ d[p] = d[j] - 1 /\ positions[p] < positions[j]
      <4>1. p \in known /\ p < j /\ d[p] = d[j] - 1 /\ positions[p] < positions[j]
        BY <2>4, <2>6
      <4>2. p \in Nat
        BY <1>1, <4>1
      <4> HIDE DEF p
      <4>3. QED
        BY <2>1, <4>1, <4>2
    <3>2. Good(p)
      BY <1>3, <3>1
    <3>3. g[j] = {j} \cup B
      BY <2>3
    <3>4. /\ B \subseteq {q \in known : q <= p /\ positions[q] <= positions[p]}
          /\ IsFiniteSet(B) /\ Cardinality(B) = d[p] /\ Increases(positions, B)
      BY <3>2 DEF Good
    <3> HIDE DEF B, p
    <3>5. \A q \in B : q \in known /\ q < j /\ positions[q] < positions[j]
      <4>1. \A q \in B : q \in known /\ q <= p /\ positions[q] <= positions[p]
        BY <3>4
      <4>2. QED
        BY <1>1, <3>1, <4>1
    <3>6. j \notin B
      BY <1>1, <3>5
    <3>7. IsFiniteSet(B \cup {j}) /\ Cardinality(B \cup {j}) = Cardinality(B) + 1
      BY <3>4, <3>6, FS_AddElement
    <3>8. g[j] = B \cup {j}
      BY <3>3
    <3>9. Cardinality(g[j]) = d[j]
      BY <2>4, <3>1, <3>4, <3>7, <3>8
    <3>10. Increases(positions, g[j])
      <4>1. SUFFICES ASSUME NEW q \in B \cup {j}, NEW s \in B \cup {j}, q < s
                     PROVE  positions[q] < positions[s]
        BY <3>8 DEF Increases
      <4>2. CASE s \in B /\ q \in B
        BY <3>4, <4>1, <4>2 DEF Increases
      <4>3. CASE s = j /\ q \in B
        BY <3>5, <4>3
      <4>4. CASE q = j
        BY <1>1, <3>5, <4>1, <4>4
      <4>5. QED
        BY <4>1, <4>2, <4>3, <4>4
    <3>11. g[j] \subseteq {q \in known : q <= j /\ positions[q] <= positions[j]}
      <4>1. \A q \in B \cup {j} : q \in known /\ q <= j /\ positions[q] <= positions[j]
        BY <1>1, <3>5
      <4>2. QED
        BY <3>8, <4>1
    <3>12. QED
      BY <3>7, <3>8, <3>9, <3>10, <3>11 DEF Good
  <2>7. QED
    BY <2>5, <2>6
<1> HIDE DEF N
<1>4. Nat \subseteq N
  BY <1>2, <1>3, CountingUp
<1>5. \A j \in known : Good(j)
  <2> HIDE DEF Good
  <2>1. n \in N
    BY <1>4 DEF IsPlaces
  <2>2. QED
    BY <1>1, <2>1 DEF N
<1>6. QED
  BY <1>5 DEF EndsWith

\* The elements that need not move are in order, and no others in order are more.
LEMMA LongestIs ==
    ASSUME NEW positions, NEW n, NEW known, IsPlaces(positions, n, known)
    PROVE  LET K == LongestIncreasing(positions, known) IN
           /\ K \subseteq known /\ IsFiniteSet(K) /\ Increases(positions, K)
           /\ \A J \in SUBSET known : Increases(positions, J) => Cardinality(J) <= Cardinality(K)
<1> DEFINE r == Runs(positions, known)
           m == Len(positions)
           Is(g) == BackTo(r.previous, m, g)
           back == CHOOSE g : Is(g)
           L == Len(r.tails)
           K == LongestIncreasing(positions, known)
<1>1. n \in Nat /\ m = n
  BY ListIs DEF IsPlaces
<1>2. K = IF r.tails = << >> THEN {} ELSE back[r.tails[L]]
  BY DEF LongestIncreasing, BackTo
<1>3. GoodRuns(positions, known, n, n, r)
  BY RunsAre
<1>4. TailsAre(positions, known, n, n, r)
  BY <1>3 DEF GoodRuns
<1>5. PICK d \in [1..n -> Nat] : Ranked(positions, known, n, r, d)
  BY <1>3 DEF GoodRuns
<1> HIDE DEF r, K
<1>6. BackTo(r.previous, n, back)
  <2>1. \E g : Is(g)
    BY <1>1, <1>4, BackExists DEF TailsAre
  <2> HIDE DEF Is
  <2>2. Is(back)
    BY <2>1
  <2>3. QED
    BY <1>1, <2>2 DEF Is
<1> HIDE DEF back
<1>11. \A j \in known : EndsWith(back[j], positions, known, j, d[j])
  BY <1>4, <1>5, <1>6, BackIs
<1>7. \A J \in SUBSET known : Increases(positions, J) /\ J # {} => Cardinality(J) \in 1..L
  <2>1. {j \in known : j <= n} = known
    BY <1>1 DEF IsPlaces
  <2>2. QED
    BY <1>3, <2>1 DEF GoodRuns, Best
<1>8. IsList(r.tails) /\ L \in Nat
  BY <1>4, ListFacts DEF TailsAre
<1>9. CASE r.tails = << >>
  <2>1. L = 0 /\ K = {}
    BY <1>2, <1>8, <1>9, ListFacts
  <2>2. \A J \in SUBSET known : Increases(positions, J) => J = {}
    BY <1>7, <2>1
  <2>3. IsFiniteSet({}) /\ Cardinality({}) = 0 /\ Increases(positions, {})
    BY FS_EmptySet DEF Increases
  <2>4. QED
    BY <2>1, <2>2, <2>3 DEF K
<1>10. CASE r.tails # << >>
  <2> DEFINE e == r.tails[L]
  <2>1. L \in 1..L
    BY <1>8, <1>10, ListFacts
  <2>2. e \in known /\ d[e] = L
    BY <1>4, <1>5, <2>1 DEF TailsAre, Ranked
  <2>3. K = back[e]
    BY <1>2, <1>10
  <2> HIDE DEF e, L
  <2>4. EndsWith(back[e], positions, known, e, L)
    BY <1>11, <2>2
  <2>5. \A J \in SUBSET known : Increases(positions, J) => Cardinality(J) <= L
    <3>1. SUFFICES ASSUME NEW J \in SUBSET known, Increases(positions, J) PROVE Cardinality(J) <= L
      OBVIOUS
    <3>2. CASE J = {}
      BY <3>2, <1>8, FS_EmptySet DEF L
    <3>3. CASE J # {}
      BY <1>7, <3>1, <3>3
    <3>4. QED
      BY <3>2, <3>3
  <2>6. QED
    BY <2>2, <2>3, <2>4, <2>5 DEF K, EndsWith
<1>12. QED
  BY <1>9, <1>10

-----------------------------------------------------------------------------
(* A list placed by what is kept of it is in order. *)

\* Where everything stored is in order, nothing need move.
LEMMA LongestIsAll ==
    ASSUME NEW positions, NEW n, NEW known, IsPlaces(positions, n, known),
           Increases(positions, known)
    PROVE  LongestIncreasing(positions, known) = known
<1> DEFINE K == LongestIncreasing(positions, known)
<1>1. K \subseteq known /\ Cardinality(known) <= Cardinality(K)
  BY LongestIs
<1> HIDE DEF K
<1>2. 1 \in Int /\ n \in Int
  BY DEF IsPlaces
<1>3. IsFiniteSet(1..n)
  BY <1>2, FS_Interval
<1>4. known \in SUBSET (1..n) /\ K \in SUBSET known
  BY <1>1 DEF IsPlaces
<1>5. IsFiniteSet(known)
  BY <1>3, <1>4, FS_Subset
<1>6. IsFiniteSet(K) /\ Cardinality(K) <= Cardinality(known)
      /\ (Cardinality(known) = Cardinality(K) => known = K)
  BY <1>4, <1>5, FS_Subset
<1>7. Cardinality(K) \in Nat /\ Cardinality(known) \in Nat
  BY <1>5, <1>6, FS_CardinalityType
<1>8. known = K
  BY <1>1, <1>6, <1>7
<1>9. QED
  BY <1>8 DEF K

\* What is kept next below an element.
LEMMA LowerIs ==
    ASSUME NEW n \in Nat, NEW K \in SUBSET (1..n), NEW i \in 1..n, HasLower(K, i)
    PROVE  LET l == Lower(K, i) IN l \in K /\ l < i /\ \A k \in K : k < i => k <= l
<1> DEFINE S == {i - k : k \in {q \in K : q < i}}
<1>1. \A k \in K : k \in Int
  OBVIOUS
<1>2. S \in SUBSET Nat /\ S # {}
  BY <1>1 DEF HasLower
<1>3. PICK m \in S : \A x \in S : m <= x
  BY <1>2, LeastNat
<1>4. PICK l \in K : l < i /\ m = i - l
  BY <1>3
<1>5. \A k \in K : k < i => k <= l
  <2>1. SUFFICES ASSUME NEW k \in K, k < i PROVE k <= l
    OBVIOUS
  <2>2. i - k \in S
    BY <2>1
  <2>3. i - l <= i - k
    BY <1>3, <1>4, <2>2
  <2>4. QED
    BY <1>1, <2>3
<1>6. \E q \in K : q < i /\ \A k \in K : k < i => k <= q
  BY <1>4, <1>5
<1>7. QED
  BY <1>6 DEF Lower

\* What is kept next above it.
LEMMA UpperIs ==
    ASSUME NEW n \in Nat, NEW K \in SUBSET (1..n), NEW i \in 1..n, HasUpper(K, i)
    PROVE  LET u == Upper(K, i) IN u \in K /\ i < u /\ \A k \in K : i < k => u <= k
<1> DEFINE S == {q \in K : i < q}
<1>1. \A q \in K : q \in Nat
  OBVIOUS
<1>2. S \subseteq Nat
  BY <1>1
<1>3. PICK k \in K : i < k
  BY DEF HasUpper
<1>4. S # {}
  BY <1>3
<1>5. PICK u \in S : \A x \in S : u <= x
  <2> HIDE DEF S
  <2> QED
    BY <1>2, <1>4, LeastNat
<1>6. \E q \in K : i < q /\ \A x \in K : i < x => q <= x
  BY <1>5
<1>7. QED
  BY <1>6 DEF Upper

\* A step of at least the divisor makes the quotient another.
LEMMA QuotientSteps ==
    ASSUME NEW a \in Nat, NEW b \in Nat, NEW c \in Nat, c > 0, a + c <= b
    PROVE  a \div c < b \div c
<1> DEFINE r == a \div c
           s == b \div c
<1>1. r \in Nat /\ c * r \in Nat /\ c * r <= a
  BY QuotientIs
<1>2. s \in Nat /\ c * s \in Nat /\ b < c * s + c
  BY QuotientIs
<1> HIDE DEF r, s
<1>3. ASSUME s <= r PROVE FALSE
  <2>1. r - s \in Nat
    BY <1>1, <1>2, <1>3
  <2>2. c * r = c * s + c * (r - s) /\ c * (r - s) \in Nat
    BY <1>1, <1>2, <2>1
  <2>3. QED
    BY <1>1, <1>2, <2>2
<1>4. QED
  BY <1>1, <1>2, <1>3 DEF r, s

\* What is shared out between two neighbours is in order, and between them.
LEMMA SharedOut ==
    ASSUME NEW d \in Nat, NEW w \in Nat, w > 0, w <= d, NEW x \in Nat, NEW y \in Nat, x < y, y <= w
    PROVE  /\ (d * x) \div w \in Nat /\ (d * y) \div w \in Nat
           /\ (d * x) \div w < (d * y) \div w
           /\ (d * y) \div w <= d
           /\ (d * 0) \div w = 0 /\ (d * w) \div w = d
<1>1. d * x \in Nat /\ d * y \in Nat /\ d * w \in Nat /\ d * 0 = 0
  OBVIOUS
<1>2. d * x + d <= d * y
  <2>1. y - x \in Nat /\ y - x >= 1
    OBVIOUS
  <2>2. d * y = d * x + d * (y - x) /\ d * (y - x) >= d
    BY <2>1
  <2>3. QED
    BY <1>1, <2>2
<1>3. d * y <= d * w
  <2>1. w - y \in Nat
    OBVIOUS
  <2>2. d * w = d * y + d * (w - y) /\ d * (w - y) \in Nat
    BY <2>1
  <2>3. QED
    BY <1>1, <2>2
<1> DEFINE a == d * x
           b == d * y
           e == d * w
<1>4. a \in Nat /\ b \in Nat /\ e \in Nat /\ a + w <= b /\ b <= e
  BY <1>1, <1>2, <1>3
<1>5. w * d = e
  OBVIOUS
<1>6. w * 0 = 0
  OBVIOUS
<1> HIDE DEF a, b, e
<1>7. a \div w \in Nat /\ b \div w \in Nat /\ a \div w < b \div w
  BY <1>4, QuotientSteps, QuotientIs
<1>8. e \div w = d
  BY <1>4, <1>5, QuotientOnly
<1>9. b \div w <= d
  BY <1>4, <1>8, QuotientGrows
<1>10. 0 \div w = 0
  BY <1>6, QuotientOnly
<1>11. QED
  BY <1>1, <1>7, <1>8, <1>9, <1>10 DEF a, b, e

\* An element that is not kept goes between what is kept about it.
LEMMA PlacedBetween ==
    ASSUME NEW positions, NEW n, NEW K, IsPlaces(positions, n, K), Increases(positions, K),
           Room(positions, K), NEW i \in 1..n
    PROVE  /\ PlacedAt(positions, K, i) \in Int
           /\ i \in K => PlacedAt(positions, K, i) = positions[i]
           /\ i \notin K => \A k \in K :
                 /\ k < i => positions[k] < PlacedAt(positions, K, i)
                 /\ i < k => PlacedAt(positions, K, i) < positions[k]
<1> DEFINE p == PlacedAt(positions, K, i)
           l == Lower(K, i)
           u == Upper(K, i)
<1>1. /\ n \in Nat /\ K \in SUBSET (1..n) /\ DOMAIN positions = 1..n
      /\ \A k \in K : k \in Int /\ positions[k] \in Int
      /\ Gap \in Nat /\ Gap > 0 /\ i \in Int /\ i >= 1
  BY PositionsAssumption DEF IsPlaces
<1>2. CASE i \in K
  BY <1>1, <1>2 DEF PlacedAt
<1>3. CASE K = {}
  <2>1. PlacedAt(positions, K, i) = (i - 1) * Gap
    BY <1>3 DEF PlacedAt, HasLower, HasUpper
  <2>2. QED
    BY <1>1, <1>3, <2>1
<1>4. CASE i \notin K /\ K # {} /\ ~ HasLower(K, i)
  <2>1. HasUpper(K, i)
    <3>1. PICK k \in K : TRUE
      BY <1>4
    <3>2. k # i /\ ~ (k < i)
      BY <1>4 DEF HasLower
    <3>3. i < k
      BY <1>1, <3>2
    <3>4. QED
      BY <3>3 DEF HasUpper
  <2>2. u \in K /\ i < u /\ \A k \in K : i < k => u <= k
    BY <1>1, <2>1, UpperIs
  <2>3. p = positions[u] - (u - i) * Gap
    BY <1>4 DEF PlacedAt
  <2> HIDE DEF u, p
  <2>4. u - i \in Nat /\ u - i > 0
    BY <1>1, <2>2
  <2>5. (u - i) * Gap \in Nat /\ (u - i) * Gap > 0
    BY <1>1, <2>4
  <2>6. p \in Int /\ p < positions[u]
    BY <1>1, <2>2, <2>3, <2>5
  <2>7. \A k \in K : i < k => positions[u] <= positions[k]
    BY <1>1, <2>2 DEF Increases
  <2>8. \A k \in K : ~ (k < i)
    BY <1>4 DEF HasLower
  <2>9. \A k \in K : i < k => p < positions[k]
    BY <1>1, <2>2, <2>6, <2>7
  <2>10. QED
    BY <1>4, <2>6, <2>8, <2>9 DEF p
<1>5. CASE i \notin K /\ HasLower(K, i) /\ ~ HasUpper(K, i)
  <2>2. l \in K /\ l < i /\ \A k \in K : k < i => k <= l
    BY <1>1, <1>5, LowerIs
  <2>3. p = positions[l] + (i - l) * Gap
    BY <1>5, <2>2 DEF PlacedAt
  <2> HIDE DEF l, p
  <2>4. i - l \in Nat /\ i - l > 0
    BY <1>1, <2>2
  <2>5. (i - l) * Gap \in Nat /\ (i - l) * Gap > 0
    BY <1>1, <2>4
  <2>6. p \in Int /\ positions[l] < p
    BY <1>1, <2>2, <2>3, <2>5
  <2>7. \A k \in K : k < i => positions[k] <= positions[l]
    BY <1>1, <2>2 DEF Increases
  <2>8. \A k \in K : ~ (i < k)
    BY <1>5 DEF HasUpper
  <2>9. \A k \in K : k < i => positions[k] < p
    BY <1>1, <2>2, <2>6, <2>7
  <2>10. QED
    BY <1>5, <2>6, <2>8, <2>9 DEF p
<1>6. CASE i \notin K /\ HasLower(K, i) /\ HasUpper(K, i)
  <2>1. u \in K /\ i < u /\ \A k \in K : i < k => u <= k
    BY <1>1, <1>6, UpperIs
  <2>2. l \in K /\ l < i /\ \A k \in K : k < i => k <= l
    BY <1>1, <1>6, LowerIs
  <2>3. p = positions[l] + ((positions[u] - positions[l]) * (i - l)) \div (u - l)
    BY <1>6, <2>2 DEF PlacedAt
  <2>4. positions[u] - positions[l] >= u - l
    BY <1>1, <1>6 DEF Room
  <2> HIDE DEF l, u, p
  <2> DEFINE d == positions[u] - positions[l]
             w == u - l
             x == i - l
  <2>5. d \in Nat /\ w \in Nat /\ w > 0 /\ w <= d /\ x \in Nat /\ 0 < x /\ x < w
    BY <1>1, <2>1, <2>2, <2>4
  <2>6. p = positions[l] + (d * x) \div w
    BY <2>3
  <2> HIDE DEF d, w, x
  <2>7. (d * x) \div w \in Nat /\ (d * 0) \div w < (d * x) \div w /\ (d * 0) \div w = 0
    BY <2>5, SharedOut
  <2>8. (d * x) \div w < (d * w) \div w /\ (d * w) \div w = d
    BY <2>5, SharedOut
  <2>9. p \in Int /\ positions[l] < p /\ p < positions[l] + d
    BY <1>1, <2>2, <2>5, <2>6, <2>7, <2>8
  <2>10. positions[l] + d = positions[u]
    BY <1>1, <2>1, <2>2 DEF d
  <2>11. \A k \in K : k < i => positions[k] <= positions[l]
    BY <1>1, <2>2 DEF Increases
  <2>12. \A k \in K : i < k => positions[u] <= positions[k]
    BY <1>1, <2>1 DEF Increases
  <2>13. \A k \in K : k < i => positions[k] < p
    BY <1>1, <2>2, <2>9, <2>11
  <2>14. \A k \in K : i < k => p < positions[k]
    BY <1>1, <2>1, <2>9, <2>10, <2>12
  <2>15. QED
    BY <1>6, <2>9, <2>13, <2>14 DEF p
<1>7. QED
  BY <1>2, <1>3, <1>4, <1>5, <1>6

\* Elements placed are in the order of their list.
LEMMA PlacedIncreases ==
    ASSUME NEW positions, NEW n, NEW K, IsPlaces(positions, n, K), Increases(positions, K),
           Room(positions, K), NEW i \in 1..n, NEW j \in 1..n, i < j
    PROVE  PlacedAt(positions, K, i) < PlacedAt(positions, K, j)
<1>1. /\ n \in Nat /\ K \in SUBSET (1..n) /\ DOMAIN positions = 1..n
      /\ \A k \in K : k \in Int /\ positions[k] \in Int
      /\ Gap \in Nat /\ Gap > 0 /\ i \in Int /\ j \in Int /\ 1 <= i
  BY PositionsAssumption DEF IsPlaces
<1>2. /\ PlacedAt(positions, K, i) \in Int /\ PlacedAt(positions, K, j) \in Int
      /\ i \in K => PlacedAt(positions, K, i) = positions[i]
      /\ j \in K => PlacedAt(positions, K, j) = positions[j]
      /\ i \notin K => \A k \in K : i < k => PlacedAt(positions, K, i) < positions[k]
      /\ j \notin K => \A k \in K : k < j => positions[k] < PlacedAt(positions, K, j)
  BY PlacedBetween
<1>3. CASE \E k \in K : i <= k /\ k <= j
  <2>1. PICK k \in K : i <= k /\ k <= j
    BY <1>3
  <2>2. CASE k = i
    BY <1>1, <1>2, <2>2 DEF Increases
  <2>3. CASE k # i
    <3>1. PlacedAt(positions, K, i) < positions[k]
      BY <1>1, <1>2, <2>1, <2>3 DEF Increases
    <3>2. CASE k = j
      BY <1>2, <3>1, <3>2
    <3>3. CASE k # j
      <4>1. positions[k] < PlacedAt(positions, K, j)
        BY <1>1, <1>2, <2>1, <3>3 DEF Increases
      <4>2. QED
        BY <1>1, <1>2, <3>1, <4>1
    <3>4. QED
      BY <3>2, <3>3
  <2>4. QED
    BY <2>2, <2>3
<1>4. CASE ~ \E k \in K : i <= k /\ k <= j
  <2>1. i \notin K /\ j \notin K
    BY <1>1, <1>4
  <2>2. \A k \in K : (k < i <=> k < j) /\ (i < k <=> j < k)
    BY <1>1, <1>4
  <2>3. Lower(K, i) = Lower(K, j) /\ Upper(K, i) = Upper(K, j)
    <3>1. \A l \in K : (l < i /\ \A k \in K : k < i => k <= l)
                          <=> (l < j /\ \A k \in K : k < j => k <= l)
      BY <2>2
    <3>2. \A u \in K : (i < u /\ \A k \in K : i < k => u <= k)
                          <=> (j < u /\ \A k \in K : j < k => u <= k)
      BY <2>2
    <3>3. QED
      BY <3>1, <3>2, Zenon DEF Lower, Upper
  <2>4. (HasLower(K, i) <=> HasLower(K, j)) /\ (HasUpper(K, i) <=> HasUpper(K, j))
    BY <2>2 DEF HasLower, HasUpper
  <2> DEFINE l == Lower(K, i)
             u == Upper(K, i)
             p == PlacedAt(positions, K, i)
             q == PlacedAt(positions, K, j)
  <2>5. CASE K = {}
    <3>1. p = (i - 1) * Gap /\ q = (j - 1) * Gap
      BY <2>5 DEF PlacedAt, HasLower, HasUpper
    <3>2. j - i \in Nat /\ j - i > 0
      BY <1>1
    <3>3. (j - 1) * Gap = (i - 1) * Gap + (j - i) * Gap /\ (j - i) * Gap > 0
      BY <1>1, <3>2
    <3>4. QED
      BY <1>1, <1>2, <3>1, <3>3
  <2>6. CASE K # {} /\ ~ HasLower(K, i)
    <3>1. HasUpper(K, i)
      <4>1. PICK k \in K : TRUE
        BY <2>6
      <4>2. k # i /\ ~ (k < i)
        BY <2>1, <2>6 DEF HasLower
      <4>3. i < k
        BY <1>1, <4>2
      <4>4. QED
        BY <4>3 DEF HasUpper
    <3>2. u \in K /\ i < u
      BY <1>1, <3>1, UpperIs
    <3>3. p = positions[u] - (u - i) * Gap /\ q = positions[u] - (u - j) * Gap
      BY <2>1, <2>3, <2>4, <2>6 DEF PlacedAt
    <3> HIDE DEF p, q, u
    <3>4. j - i \in Nat /\ j - i > 0
      BY <1>1
    <3>5. (u - i) * Gap = (u - j) * Gap + (j - i) * Gap /\ (j - i) * Gap > 0
      BY <1>1, <3>2, <3>4
    <3>6. p < q
      BY <1>1, <3>2, <3>3, <3>5
    <3>7. QED
      BY <3>6 DEF p, q
  <2>7. CASE HasLower(K, i) /\ ~ HasUpper(K, i)
    <3>2. l \in K /\ l < i
      BY <1>1, <2>7, LowerIs
    <3>3. p = positions[l] + (i - l) * Gap /\ q = positions[l] + (j - l) * Gap
      BY <2>1, <2>3, <2>4, <2>7, <3>2 DEF PlacedAt
    <3> HIDE DEF p, q, l
    <3>4. j - i \in Nat /\ j - i > 0
      BY <1>1
    <3>5. (j - l) * Gap = (i - l) * Gap + (j - i) * Gap /\ (j - i) * Gap > 0
      BY <1>1, <3>2, <3>4
    <3>6. p < q
      BY <1>1, <3>2, <3>3, <3>5
    <3>7. QED
      BY <3>6 DEF p, q
  <2>8. CASE HasLower(K, i) /\ HasUpper(K, i)
    <3>1. u \in K /\ j < u
      BY <1>1, <2>2, <2>8, UpperIs
    <3>2. l \in K /\ l < i
      BY <1>1, <2>8, LowerIs
    <3>3. /\ p = positions[l] + ((positions[u] - positions[l]) * (i - l)) \div (u - l)
          /\ q = positions[l] + ((positions[u] - positions[l]) * (j - l)) \div (u - l)
      BY <2>1, <2>3, <2>4, <2>8, <3>2 DEF PlacedAt
    <3>4. positions[u] - positions[l] >= u - l
      BY <1>1, <2>1, <2>8 DEF Room
    <3> HIDE DEF l, u, p, q
    <3> DEFINE d == positions[u] - positions[l]
               w == u - l
               x == i - l
               y == j - l
    <3>5. d \in Nat /\ w \in Nat /\ w > 0 /\ w <= d /\ x \in Nat /\ y \in Nat /\ x < y /\ y <= w
      BY <1>1, <3>1, <3>2, <3>4
    <3>6. p = positions[l] + (d * x) \div w /\ q = positions[l] + (d * y) \div w
      BY <3>3
    <3> HIDE DEF d, w, x, y
    <3>7. /\ (d * x) \div w \in Nat /\ (d * y) \div w \in Nat
          /\ (d * x) \div w < (d * y) \div w
      BY <3>5, SharedOut
    <3>8. p < q
      BY <1>1, <3>2, <3>6, <3>7
    <3>9. QED
      BY <3>8 DEF p, q
  <2>9. QED
    BY <2>5, <2>6, <2>7, <2>8
<1>5. QED
  BY <1>3, <1>4

\* Wherever a list is placed, it stands in its order.
LEMMA PlaceKeepingOrders ==
    ASSUME NEW positions, NEW n, NEW K, IsPlaces(positions, n, K), Increases(positions, K),
           n <= Cardinality(Elements), NEW i \in 1..n, NEW j \in 1..n, i < j
    PROVE  PlaceKeeping(positions, K)[i] < PlaceKeeping(positions, K)[j]
<1>1. n \in Nat /\ DOMAIN positions = 1..n /\ Len(positions) = n
  BY ListIs DEF IsPlaces
<1>2. Numbered(n)[i] < Numbered(n)[j]
  BY <1>1, NumberedIs
<1>3. Room(positions, K) => PlacedAt(positions, K, i) < PlacedAt(positions, K, j)
  BY PlacedIncreases
<1>4. QED
  BY <1>1, <1>2, <1>3 DEF PlaceKeeping

\* What is kept whole is left where it is.
LEMMA PlaceKeepingAll ==
    ASSUME NEW positions, NEW n, NEW K, IsPlaces(positions, n, K), K = 1..n,
           \A i \in 1..n : positions[i] \in Lowest..Highest
    PROVE  PlaceKeeping(positions, K) = positions
<1>1. DOMAIN positions = 1..n /\ positions = [i \in 1..n |-> positions[i]]
  BY DEF IsPlaces
<1>2. \A i \in 1..n : PlacedAt(positions, K, i) = positions[i]
  BY DEF PlacedAt
<1>3. Room(positions, K)
  BY <1>1 DEF Room
<1>4. PlaceKeeping(positions, K) = [i \in 1..n |-> PlacedAt(positions, K, i)]
  BY <1>1, <1>2, <1>3 DEF PlaceKeeping
<1>5. QED
  BY <1>1, <1>2, <1>4

-----------------------------------------------------------------------------
(* Rows and the one aggregate they are read as. *)

\* s lists S, each of it once.
Lists(s, n, S) ==
    /\ n \in Nat /\ s \in [1..n -> S]
    /\ \A x \in S : \E i \in 1..n : s[i] = x
    /\ \A i, j \in 1..n : s[i] = s[j] => i = j

LevelOrUp(s, n, pos) == \A i, j \in 1..n : i < j => pos[s[i]] <= pos[s[j]]

Up(s, n, pos) == \A i, j \in 1..n : i < j => pos[s[i]] < pos[s[j]]

\* Two listings of the same, by a position that tells all of them apart.
LEMMA OneListing ==
    ASSUME NEW S, NEW n, NEW s, NEW t, NEW pos, \A x \in S : pos[x] \in Int,
           Lists(s, n, S), Lists(t, n, S), LevelOrUp(s, n, pos), Up(t, n, pos)
    PROVE  s = t
<1>0. /\ n \in Nat /\ s \in [1..n -> S] /\ t \in [1..n -> S]
      /\ \A x \in S : (\E i \in 1..n : s[i] = x) /\ (\E i \in 1..n : t[i] = x)
      /\ \A i, j \in 1..n : s[i] = s[j] => i = j
      /\ \A i, j \in 1..n : i < j => pos[s[i]] <= pos[s[j]]
      /\ \A i, j \in 1..n : i < j => pos[t[i]] < pos[t[j]]
  BY DEF Lists, LevelOrUp, Up
<1> DEFINE D == {i \in 1..n : s[i] # t[i]}
<1>1. SUFFICES ASSUME D # {} PROVE FALSE
  <2>1. SUFFICES ASSUME D = {} PROVE s = t
    OBVIOUS
  <2>2. \A i \in 1..n : s[i] = t[i]
    BY <2>1
  <2>3. s = [i \in 1..n |-> s[i]] /\ t = [i \in 1..n |-> t[i]]
    BY <1>0
  <2>4. QED
    BY <2>2, <2>3, Zenon
<1>2. D \in SUBSET Nat
  BY <1>0
<1>3. PICK i \in D : \A m \in D : i <= m
  <2> HIDE DEF D
  <2> QED
    BY <1>1, <1>2, LeastNat
<1>4. i \in 1..n /\ s[i] # t[i] /\ \A m \in 1..n : m < i => s[m] = t[m]
  BY <1>0, <1>3
<1>5. PICK k \in 1..n : t[k] = s[i]
  BY <1>0, <1>4
<1>6. PICK m \in 1..n : s[m] = t[i]
  BY <1>0, <1>4
<1>7. k > i
  <2>1. k # i
    BY <1>0, <1>4, <1>5
  <2>2. ~ (k < i)
    BY <1>0, <1>4, <1>5
  <2>3. QED
    BY <1>0, <1>4, <2>1, <2>2
<1>8. m > i
  <2>1. m # i
    BY <1>0, <1>4, <1>6
  <2>2. ASSUME m < i PROVE FALSE
    <3>1. t[m] = t[i]
      BY <1>0, <1>4, <1>6, <2>2
    <3>2. pos[t[m]] < pos[t[i]] /\ pos[t[i]] \in Int
      BY <1>0, <1>4, <2>2
    <3>3. pos[t[i]] < pos[t[i]]
      BY <3>1, <3>2, Zenon
    <3> DEFINE p == pos[t[i]]
    <3>4. p \in Int /\ p < p
      BY <3>2, <3>3
    <3> HIDE DEF p
    <3>5. QED
      BY <3>4
  <2>3. QED
    BY <1>0, <1>4, <2>1, <2>2
<1>9. pos[t[i]] < pos[s[i]] /\ pos[s[i]] <= pos[t[i]]
  BY <1>0, <1>4, <1>5, <1>6, <1>7, <1>8
<1> DEFINE p == pos[t[i]]
           q == pos[s[i]]
<1>10. p \in Int /\ q \in Int /\ p < q /\ q <= p
  BY <1>0, <1>4, <1>9
<1> HIDE DEF p, q
<1>11. QED
  BY <1>10

Entry(rows, r) ==
    [key |-> r[2], value |-> rows[r].value, noted |-> Note(r[2]) \in Present(rows, 3)]

Reading(rows, s) ==
    [name |-> rows[RootRow].value, list |-> [i \in DOMAIN s |-> Entry(rows, s[i])]]

\* Rows with a root are read as one of their listings gives.
LEMMA AssembledOf ==
    ASSUME NEW rows, Tables(rows), rows[RootRow] # NoRow
    PROVE  Assembled(rows) = {Reading(rows, s) : s \in Listings(rows)}
<1>1. Present(rows, 1) # {}
  BY PresentIs, RowKinds
<1>2. QED
  BY <1>1 DEF Assembled, Reading, Entry

\* Its elements' positions strictly increase along a list.
InPlaceOf(a, rows) ==
    \A i, j \in DOMAIN a.list : i < j =>
        rows[Line(a.list[i].key)].position < rows[Line(a.list[j].key)].position

\* Rows of an aggregate whose positions tell its elements apart are read as it,
\* and as nothing else.
LEMMA ReadBack ==
    ASSUME NEW rows, Tables(rows), rows[RootRow] # NoRow, NEW a \in Aggregates,
           ReadOf(a, rows), InPlaceOf(a, rows)
    PROVE  Assembled(rows) = {a}
<1> DEFINE lines == Present(rows, 2)
           n == Len(a.list)
           t == [i \in 1..n |-> Line(a.list[i].key)]
           pos == [r \in lines |-> rows[r].position]
<1>1. /\ n \in Nat /\ DOMAIN a.list = 1..n /\ a.list = [i \in 1..n |-> a.list[i]]
      /\ a = [name |-> a.name, list |-> a.list]
      /\ \A i \in 1..n : /\ a.list[i].key \in Elements
                         /\ a.list[i] = [key |-> a.list[i].key, value |-> a.list[i].value,
                                         noted |-> a.list[i].noted]
                         /\ a.list[i].noted \in BOOLEAN
      /\ \A i, j \in 1..n : a.list[i].key = a.list[j].key => i = j
  BY AggregateIs DEF IsList
<1>2. SomeRows(rows)
  BY TablesSome
<1>3. /\ \A r \in lines : /\ r \in Rows /\ rows[r] # NoRow /\ r = Line(r[2]) /\ r[2] \in Elements
                          /\ rows[r] \in RowContents(r)
      /\ \A s \in Listings(rows) :
            /\ s \in [1..Cardinality(lines) -> lines] /\ Range(s) = lines /\ IsInjective(s)
            /\ \A i, j \in 1..Cardinality(lines) : i < j => rows[s[i]].position <= rows[s[j]].position
  BY <1>2, LinesAre
<1>4. \A e \in Elements : Line(e) \in lines <=> rows[Line(e)] # NoRow
  BY PresentIs, RowKinds
<1>5. \A e \in Elements : Note(e) \in Present(rows, 3) <=> rows[Note(e)] # NoRow
  BY PresentIs, RowKinds
<1> HIDE DEF lines, n
<1>6. t \in [1..n -> lines]
  BY <1>1, <1>4 DEF ReadOf
<1>7. \A r \in lines : \E i \in 1..n : t[i] = r
  BY <1>1, <1>3 DEF ReadOf
<1>8. \A i, j \in 1..n : t[i] = t[j] => i = j
  <2>1. SUFFICES ASSUME NEW i \in 1..n, NEW j \in 1..n, t[i] = t[j] PROVE i = j
    OBVIOUS
  <2>2. t[i] = Line(a.list[i].key) /\ t[j] = Line(a.list[j].key)
    OBVIOUS
  <2>3. Line(a.list[i].key)[2] = a.list[i].key /\ Line(a.list[j].key)[2] = a.list[j].key
    BY <1>1, RowKinds
  <2> HIDE DEF t
  <2>4. a.list[i].key = a.list[j].key
    BY <2>1, <2>2, <2>3
  <2>5. QED
    BY <1>1, <2>4
<1>9. Cardinality(lines) = n
  <2> HIDE DEF t
  <2>1. t \in Injection(1..n, lines)
    BY <1>6, <1>8 DEF Injection, IsInjective
  <2>6. t \in Surjection(1..n, lines)
    BY <1>6, <1>7 DEF Surjection
  <2>2. ExistsBijection(1..n, lines)
    BY <2>1, <2>6 DEF ExistsBijection, Bijection
  <2>3. 1 \in Int /\ n \in Int
    BY <1>1
  <2>4. IsFiniteSet(1..n) /\ Cardinality(1..n) = n
    <3>1. IsFiniteSet(1..n) /\ Cardinality(1..n) = IF 1 > n THEN 0 ELSE n - 1 + 1
      BY <2>3, FS_Interval
    <3>2. QED
      BY <1>1, <3>1
  <2>5. QED
    BY <2>2, <2>4, FS_Bijection
<1>10. \A r \in lines : pos[r] \in Int /\ pos[r] = rows[r].position
  BY <1>3, ContentsAre
<1>11. \A i, j \in 1..n : i < j => rows[t[i]].position < rows[t[j]].position
  BY <1>1 DEF InPlaceOf
<1>12. \A i, j \in 1..n : i < j => pos[t[i]] < pos[t[j]]
  BY <1>6, <1>10, <1>11
<1>13. t \in Listings(rows)
  <2>1. Range(t) = lines
    BY <1>6, <1>7 DEF Range
  <2>2. \A i, j \in DOMAIN t : i < j => rows[t[i]].position <= rows[t[j]].position
    <3>1. \A i \in 1..n : rows[t[i]].position \in Int
      BY <1>6, <1>10
    <3>2. QED
      BY <1>6, <1>11, <3>1
  <2> HIDE DEF t
  <2>3. QED
    BY <1>6, <1>9, <2>1, <2>2 DEF Listings, lines
<1> HIDE DEF pos
<1>14. ASSUME NEW s \in Listings(rows) PROVE s = t
  <2>1. /\ s \in [1..n -> lines] /\ Range(s) = lines
        /\ \A i, j \in 1..n : s[i] = s[j] => i = j
        /\ LevelOrUp(s, n, pos)
    <3>1. /\ s \in [1..n -> lines] /\ Range(s) = lines /\ IsInjective(s)
          /\ \A i, j \in 1..n : i < j => rows[s[i]].position <= rows[s[j]].position
      BY <1>3, <1>9
    <3>2. \A i \in 1..n : pos[s[i]] = rows[s[i]].position
      BY <1>10, <3>1
    <3>3. QED
      BY <3>1, <3>2 DEF IsInjective, LevelOrUp
  <2>2. \A x \in lines : \E i \in 1..n : s[i] = x
    BY <2>1 DEF Range
  <2>3. Lists(s, n, lines)
    BY <1>1, <2>1, <2>2 DEF Lists
  <2> HIDE DEF t
  <2>4. Lists(t, n, lines)
    BY <1>1, <1>6, <1>7, <1>8 DEF Lists
  <2>5. Up(t, n, pos)
    BY <1>12 DEF Up
  <2>6. \A x \in lines : pos[x] \in Int
    BY <1>10
  <2>7. QED
    BY <2>1, <2>3, <2>4, <2>5, <2>6, OneListing
<1>15. Listings(rows) = {t}
  BY <1>13, <1>14
<1>16. Reading(rows, t) = a
  <2>1. DOMAIN t = 1..n
    OBVIOUS
  <2>2. \A i \in 1..n : Entry(rows, t[i]) = a.list[i]
    <3>1. SUFFICES ASSUME NEW i \in 1..n PROVE Entry(rows, t[i]) = a.list[i]
      OBVIOUS
    <3>2. t[i] = Line(a.list[i].key) /\ t[i][2] = a.list[i].key
      BY <1>1, RowKinds
    <3>3. rows[t[i]].value = a.list[i].value
      BY <1>1, <3>2 DEF ReadOf
    <3>4. (Note(t[i][2]) \in Present(rows, 3)) = a.list[i].noted
      <4>1. Note(t[i][2]) \in Present(rows, 3) <=> a.list[i].noted
        <5> DEFINE e == a.list[i].key
        <5>1. e \in Elements /\ t[i][2] = e
          BY <1>1, <3>2
        <5>2. a.list[i].noted <=> rows[Note(e)] # NoRow
          BY <1>1 DEF ReadOf
        <5> HIDE DEF e, t
        <5>3. QED
          BY <1>5, <5>1, <5>2
      <4>2. a.list[i].noted \in BOOLEAN
        BY <1>1
      <4>3. QED
        BY <4>1, <4>2
    <3>5. QED
      BY <1>1, <3>2, <3>3, <3>4 DEF Entry
  <2> HIDE DEF t
  <2>3. [i \in DOMAIN t |-> Entry(rows, t[i])] = a.list
    BY <1>1, <2>1, <2>2
  <2>4. QED
    BY <1>1, <2>3 DEF Reading, ReadOf
<1>17. Assembled(rows) = {Reading(rows, s) : s \in Listings(rows)}
  BY AssembledOf
<1> HIDE DEF t
<1>18. QED
  BY <1>15, <1>16, <1>17

\* Rows read as one aggregate only hold no two of its elements level: their
\* exchange would be another reading.
LEMMA OneReadingInPlace ==
    ASSUME NEW rows, Tables(rows), Closed(rows), rows[RootRow] # NoRow,
           NEW a, Assembled(rows) = {a}
    PROVE  a \in Aggregates /\ ReadOf(a, rows) /\ InPlaceOf(a, rows)
<1> DEFINE lines == Present(rows, 2)
           n == Cardinality(lines)
<1>1. a \in Aggregates /\ ReadOf(a, rows)
  BY AssembledIs
<1>2. SomeRows(rows) /\ Assembled(rows) = {Reading(rows, s) : s \in Listings(rows)}
  BY TablesSome, AssembledOf
<1>3. PICK s \in Listings(rows) : a = Reading(rows, s)
  BY <1>2
<1>4. /\ \A r \in lines : r = Line(r[2]) /\ rows[r] \in RowContents(r)
      /\ s \in [1..n -> lines] /\ Range(s) = lines
      /\ \A k, m \in 1..n : s[k] = s[m] => k = m
      /\ \A k, m \in 1..n : k < m => rows[s[k]].position <= rows[s[m]].position
      /\ n \in Nat
  BY <1>2, LinesAre DEF IsInjective
<1> HIDE DEF lines
<1>5. \A x \in Listings(rows) : Reading(rows, x) = a
  BY <1>2
<1>6. ASSUME NEW x \in Listings(rows), DOMAIN x = 1..n
      PROVE  DOMAIN a.list = 1..n /\ \A k \in 1..n : a.list[k].key = x[k][2]
  <2>1. a.list = [k \in DOMAIN x |-> Entry(rows, x[k])]
    <3>1. a = Reading(rows, x)
      BY <1>5, <1>6
    <3>2. Reading(rows, x).list = [k \in DOMAIN x |-> Entry(rows, x[k])]
      BY DEF Reading
    <3>3. QED
      BY <3>1, <3>2
  <2>2. DOMAIN a.list = 1..n /\ \A k \in 1..n : a.list[k] = Entry(rows, x[k])
    BY <1>6, <2>1
  <2>3. \A r : Entry(rows, r).key = r[2]
    BY DEF Entry
  <2>4. QED
    BY <2>2, <2>3
<1>7. DOMAIN a.list = 1..n /\ \A k \in 1..n : a.list[k].key = s[k][2] /\ s[k] = Line(a.list[k].key)
  BY <1>4, <1>6
<1>8. \A k \in 1..n : s[k] \in lines /\ rows[s[k]].position \in Int
  BY <1>4, ContentsAre
<1>9. ASSUME NEW i \in 1..n, NEW j \in 1..n, i < j
      PROVE  rows[s[i]].position < rows[s[j]].position
  <2> SUFFICES ASSUME rows[s[i]].position = rows[s[j]].position PROVE FALSE
    BY <1>4, <1>8, <1>9
  <2> DEFINE t == [k \in 1..n |-> IF k = i THEN s[j] ELSE IF k = j THEN s[i] ELSE s[k]]
  <2>1. t \in [1..n -> lines] /\ DOMAIN t = 1..n
    BY <1>8
  <2>2. \A k \in 1..n : rows[t[k]].position = rows[s[k]].position
    OBVIOUS
  <2>3. t[i] = s[j] /\ t[j] = s[i] /\ \A k \in 1..n : k # i /\ k # j => t[k] = s[k]
    BY <1>9
  <2> HIDE DEF t
  <2>4. Range(t) = lines
    <3>1. \A x \in lines : \E k \in 1..n : s[k] = x
      BY <1>4 DEF Range
    <3>2. \A x \in lines : \E k \in 1..n : t[k] = x
      BY <2>3, <3>1
    <3>3. QED
      BY <2>1, <3>2 DEF Range
  <2>5. \A k, m \in DOMAIN t : k < m => rows[t[k]].position <= rows[t[m]].position
    BY <1>4, <2>1, <2>2
  <2>6. t \in Listings(rows)
    BY <2>1, <2>4, <2>5 DEF Listings, lines
  <2>7. t[i][2] = s[i][2]
    BY <1>6, <1>7, <2>1, <2>6
  <2>8. s[j][2] = s[i][2] /\ s[i] = Line(s[i][2]) /\ s[j] = Line(s[j][2])
    BY <1>4, <1>8, <2>3, <2>7
  <2>9. s[i] = s[j]
    BY <2>8
  <2>10. QED
    BY <1>4, <1>9, <2>9
<1>10. InPlaceOf(a, rows)
  BY <1>7, <1>9 DEF InPlaceOf
<1>11. QED
  BY <1>1, <1>10

(* A list placed by what is stored of it. *)

\* Those stored, and where.
Stood(was, a) == {i \in DOMAIN a.list : was[Line(a.list[i].key)] # NoRow}

StoodAt(was, a) ==
    [i \in DOMAIN a.list |-> IF i \in Stood(was, a) THEN was[Line(a.list[i].key)].position ELSE 0]

\* A saved list is placed by where those of it that are stored stand.
LEMMA PlacedBy ==
    ASSUME NEW was, Tables(was), NEW a \in Aggregates
    PROVE  /\ IsPlaces(StoodAt(was, a), Len(a.list), Stood(was, a))
           /\ Placed(Part(was, All), a)
                 = PlaceKeeping(StoodAt(was, a), LongestIncreasing(StoodAt(was, a), Stood(was, a)))
           /\ \A i \in Stood(was, a) : /\ i \in DOMAIN a.list
                                       /\ StoodAt(was, a)[i] = was[Line(a.list[i].key)].position
                                       /\ StoodAt(was, a)[i] \in Lowest..Highest
<1> DEFINE kept == Part(was, All)
           known == {i \in DOMAIN a.list : Line(a.list[i].key) \in DOMAIN kept}
           S == Stood(was, a)
           n == Len(a.list)
<1>1. /\ n \in Nat /\ DOMAIN a.list = 1..n
      /\ \A i \in 1..n : a.list[i].key \in Elements
  BY AggregateIs
<1>2. \A i \in 1..n : /\ Line(a.list[i].key) \in Rows
                      /\ Line(a.list[i].key)[1] = 2
  BY <1>1, RowKinds
<1>3. DOMAIN kept = PresentRows(was) /\ \A r \in PresentRows(was) : kept[r] = was[r]
  BY PartIs
<1> HIDE DEF kept, n
<1>4. \A i \in 1..n : Line(a.list[i].key) \in DOMAIN kept <=> was[Line(a.list[i].key)] # NoRow
  BY <1>2, <1>3 DEF PresentRows
<1>5. known = S
  BY <1>1, <1>4 DEF Stood
<1>6. \A i \in S : /\ i \in 1..n
                   /\ was[Line(a.list[i].key)].position \in Lowest..Highest
                   /\ kept[Line(a.list[i].key)] = was[Line(a.list[i].key)]
  <2>1. SUFFICES ASSUME NEW i \in S
                 PROVE  /\ i \in 1..n
                        /\ was[Line(a.list[i].key)].position \in Lowest..Highest
                        /\ kept[Line(a.list[i].key)] = was[Line(a.list[i].key)]
    OBVIOUS
  <2> DEFINE r == Line(a.list[i].key)
  <2>2. i \in 1..n /\ was[r] # NoRow /\ r \in Rows /\ r[1] = 2
    BY <1>1, <1>2 DEF Stood
  <2> HIDE DEF r, S
  <2>3. was[r] \in RowContents(r)
    BY <2>2 DEF Tables
  <2>4. was[r].position \in Lowest..Highest
    BY <2>2, <2>3 DEF RowContents
  <2>5. kept[r] = was[r]
    BY <1>3, <2>2 DEF PresentRows
  <2>6. QED
    BY <2>2, <2>4, <2>5 DEF r
<1>7. [i \in DOMAIN a.list |-> IF i \in known THEN kept[Line(a.list[i].key)].position ELSE 0]
         = StoodAt(was, a)
  <2> HIDE DEF known, S
  <2>1. \A i \in DOMAIN a.list :
           (IF i \in known THEN kept[Line(a.list[i].key)].position ELSE 0)
              = (IF i \in S THEN was[Line(a.list[i].key)].position ELSE 0)
    BY <1>5, <1>6
  <2>2. QED
    BY <2>1 DEF StoodAt, S
<1>8. Placed(kept, a) = PlaceKeeping(StoodAt(was, a), LongestIncreasing(StoodAt(was, a), S))
  BY <1>5, <1>7, Zenon DEF Placed, PlaceList
<1>9. \A i \in 1..n : StoodAt(was, a)[i] \in Int /\ (i \in S => StoodAt(was, a)[i] = was[Line(a.list[i].key)].position)
  <2>1. Lowest..Highest \subseteq Int
    OBVIOUS
  <2> HIDE DEF S
  <2>2. QED
    BY <1>1, <1>6, <2>1 DEF StoodAt, S
<1>10. IsPlaces(StoodAt(was, a), n, S)
  <2>1. StoodAt(was, a) = [i \in 1..n |-> StoodAt(was, a)[i]]
    BY <1>1 DEF StoodAt
  <2>2. QED
    BY <1>1, <1>6, <1>9, <2>1 DEF IsPlaces
<1>11. QED
  BY <1>1, <1>6, <1>8, <1>9, <1>10 DEF kept, n

-----------------------------------------------------------------------------
(* What is left is read back as what was saved. *)

\* What is left of an aggregate is read as it, and as nothing else, where its
\* list was placed, is new, or was in its order.
LEMMA LeftReadsBack ==
    ASSUME NEW was, Tables(was), NEW a \in Aggregates, NEW placed \in BOOLEAN,
           placed \/ Stood(was, a) = {} \/ (Stood(was, a) = DOMAIN a.list /\ InPlaceOf(a, was))
    PROVE  Assembled(Left(was, a, placed)) = {a}
<1> DEFINE T == Left(was, a, placed)
           n == Len(a.list)
           P == Placed(Part(was, All), a)
           R(i) == Line(a.list[i].key)
           K == LongestIncreasing(StoodAt(was, a), Stood(was, a))
<1>1. /\ n \in Nat /\ DOMAIN a.list = 1..n /\ n <= Cardinality(Elements) /\ a # NoAggregate
      /\ \A i \in 1..n : a.list[i].key \in Elements /\ a.list[i].noted \in BOOLEAN
      /\ \A i, j \in 1..n : a.list[i].key = a.list[j].key => i = j
  BY AggregateIs, ZenonT(40)
<1>2. /\ Tables(T) /\ Closed(T) /\ PresentRows(T) = RowsOf(a)
      /\ T[RootRow] = Content(a.name, 0)
      /\ \A i \in DOMAIN a.list :
            LET r == Line(a.list[i].key) IN
            T[r] = Content(a.list[i].value,
                       IF placed THEN P[i]
                       ELSE IF was[r] = NoRow THEN Numbered(n)[i] ELSE was[r].position)
  BY <1>1, LeftIs, SMTT(20)
<1>3. \A i \in 1..n : T[R(i)].value = a.list[i].value
  BY <1>1, <1>2, ContentsAre
<1>4. \A i \in 1..n : T[R(i)].position = IF placed THEN P[i]
                         ELSE IF was[R(i)] = NoRow THEN Numbered(n)[i] ELSE was[R(i)].position
  BY <1>1, <1>2, ContentsAre
<1> HIDE DEF T, n, P
<1>5. \A r \in Rows : T[r] # NoRow <=> r \in RowsOf(a)
  BY <1>2 DEF PresentRows
<1>6. T[RootRow] # NoRow /\ T[RootRow].value = a.name
  BY <1>1, <1>2, <1>5, RowsOfAre, RowKinds, ContentsAre
<1>7. ReadOf(a, T)
  <2>1. \A e \in Elements : T[Line(e)] # NoRow <=> \E i \in DOMAIN a.list : a.list[i].key = e
    BY <1>1, <1>5, RowsOfAre, RowKinds
  <2>2. \A e \in Elements : T[Note(e)] # NoRow <=> \E i \in DOMAIN a.list : a.list[i].key = e /\ a.list[i].noted
    BY <1>1, <1>5, RowsOfAre, RowKinds
  <2>3. ASSUME NEW i \in DOMAIN a.list
        PROVE  T[Line(a.list[i].key)].value = a.list[i].value
                  /\ (a.list[i].noted <=> T[Note(a.list[i].key)] # NoRow)
    BY <1>1, <1>3, <2>2
  <2>4. QED
    BY <1>6, <2>1, <2>3 DEF ReadOf
<1>8. InPlaceOf(a, T)
  <2>1. SUFFICES ASSUME NEW i \in 1..n, NEW j \in 1..n, i < j
                 PROVE  T[R(i)].position < T[R(j)].position
    BY <1>1 DEF InPlaceOf
  <2>2. CASE placed
    <3>1. /\ IsPlaces(StoodAt(was, a), n, Stood(was, a)) /\ P = PlaceKeeping(StoodAt(was, a), K)
      BY PlacedBy DEF P, n
    <3>2. K \subseteq Stood(was, a) /\ Increases(StoodAt(was, a), K)
      BY <3>1, LongestIs
    <3> HIDE DEF K
    <3>3. IsPlaces(StoodAt(was, a), n, K)
      BY <3>1, <3>2 DEF IsPlaces
    <3>4. P[i] < P[j]
      BY <1>1, <2>1, <3>1, <3>2, <3>3, PlaceKeepingOrders
    <3>5. QED
      BY <1>4, <2>2, <3>4
  <2>3. CASE ~ placed /\ Stood(was, a) = {}
    <3>1. was[R(i)] = NoRow /\ was[R(j)] = NoRow
      BY <1>1, <2>3 DEF Stood
    <3>2. Numbered(n)[i] < Numbered(n)[j]
      BY <1>1, <2>1, NumberedIs
    <3>3. QED
      BY <1>4, <2>3, <3>1, <3>2
  <2>4. CASE ~ placed /\ Stood(was, a) = DOMAIN a.list /\ InPlaceOf(a, was)
    <3>1. was[R(i)] # NoRow /\ was[R(j)] # NoRow
      BY <1>1, <2>4 DEF Stood
    <3>2. was[R(i)].position < was[R(j)].position
      BY <1>1, <2>1, <2>4 DEF InPlaceOf
    <3>3. QED
      BY <1>4, <2>4, <3>1, <3>2
  <2>5. QED
    BY <2>2, <2>3, <2>4
<1>9. QED
  BY <1>2, <1>6, <1>7, <1>8, ReadBack DEF T

\* A list that kept its order, and gained nothing, is where it was.
LEMMA KeptInPlace ==
    ASSUME NEW was, NEW b \in Aggregates, ReadOf(b, was), InPlaceOf(b, was),
           NEW a \in Aggregates, ~ Reordered(b, a)
    PROVE  Stood(was, a) = DOMAIN a.list /\ InPlaceOf(a, was)
<1> DEFINE ks == KeysOf(b.list)
           js == KeysOf(a.list)
           At(e) == CHOOSE i \in DOMAIN ks : ks[i] = e
<1>1. /\ DOMAIN a.list = 1..Len(a.list) /\ DOMAIN b.list = 1..Len(b.list)
      /\ Len(a.list) \in Nat /\ Len(b.list) \in Nat
      /\ \A i \in DOMAIN a.list : a.list[i].key \in Elements
      /\ \A i, j \in DOMAIN a.list : a.list[i].key = a.list[j].key => i = j
  BY AggregateIs
<1>2. /\ DOMAIN ks = DOMAIN b.list /\ \A i \in DOMAIN b.list : ks[i] = b.list[i].key
      /\ DOMAIN js = DOMAIN a.list /\ \A i \in DOMAIN a.list : js[i] = a.list[i].key
  BY DEF KeysOf
<1>3. /\ Range(js) \subseteq Range(ks)
      /\ \A i, j \in DOMAIN js : i < j => ~ (At(js[i]) > At(js[j]))
  BY DEF Reordered
<1> HIDE DEF ks, js
<1>4. ASSUME NEW i \in DOMAIN a.list
      PROVE  At(js[i]) \in DOMAIN b.list /\ b.list[At(js[i])].key = a.list[i].key
  <2>1. js[i] \in Range(ks)
    BY <1>2, <1>3, <1>4 DEF Range
  <2>2. \E k \in DOMAIN ks : ks[k] = js[i]
    BY <2>1 DEF Range
  <2>3. At(js[i]) \in DOMAIN ks /\ ks[At(js[i])] = js[i]
    BY <2>2
  <2> HIDE DEF At
  <2>4. QED
    BY <1>2, <1>4, <2>3
<1> HIDE DEF At
<1>5. \A i \in DOMAIN a.list : was[Line(a.list[i].key)] # NoRow
  BY <1>1, <1>4 DEF ReadOf
<1>6. ASSUME NEW i \in DOMAIN a.list, NEW j \in DOMAIN a.list, i < j
      PROVE  was[Line(a.list[i].key)].position < was[Line(a.list[j].key)].position
  <2> DEFINE x == At(js[i])
             y == At(js[j])
  <2>1. /\ x \in DOMAIN b.list /\ y \in DOMAIN b.list
        /\ b.list[x].key = a.list[i].key /\ b.list[y].key = a.list[j].key
    BY <1>4
  <2>2. ~ (x > y)
    BY <1>2, <1>3, <1>6
  <2> HIDE DEF x, y
  <2>3. x # y
    BY <1>1, <1>6, <2>1
  <2>4. x < y
    BY <1>1, <2>1, <2>2, <2>3
  <2>5. was[Line(b.list[x].key)].position < was[Line(b.list[y].key)].position
    BY <2>1, <2>4 DEF InPlaceOf
  <2>6. QED
    BY <2>1, <2>5
<1>7. QED
  BY <1>5, <1>6 DEF Stood, InPlaceOf

RootSaved(a, b) == [name |-> a.name, list |-> IF b = NoAggregate THEN << >> ELSE b.list]

\* Nothing left is read as no aggregate.
LEMMA NoneLeft ==
    ASSUME NEW was, Tables(was)
    PROVE  Assembled(Left(was, NoAggregate, TRUE)) = {NoAggregate}
<1> DEFINE T == Left(was, NoAggregate, TRUE)
<1>1. NoAggregate \in Aggregates \cup {NoAggregate} /\ TRUE \in BOOLEAN
  OBVIOUS
<1>2. Tables(T) /\ Closed(T) /\ PresentRows(T) = {}
  BY <1>1, LeftIs DEF RowsOf
<1> HIDE DEF T
<1>3. Present(T, 1) = {}
  BY <1>2, PresentIs DEF PresentRows
<1>4. Assembled(T) = {NoAggregate}
  BY <1>3 DEF Assembled
<1>5. QED
  BY <1>4 DEF T

\* A root saved is read with the list there was.
LEMMA RootReadsBack ==
    ASSUME NEW was, Tables(was), Closed(was), NEW a \in Aggregates, NEW b, Assembled(was) = {b}
    PROVE  Assembled(RootLeft(was, a)) = {RootSaved(a, b)}
<1> DEFINE T == RootLeft(was, a)
           c == RootSaved(a, b)
<1>1. /\ Tables(T) /\ Closed(T) /\ T[RootRow] = Content(a.name, 0) /\ T[RootRow] # NoRow
      /\ \A r \in Rows \ {RootRow} : T[r] = was[r]
  BY RootLeftIs
<1>2. a.name \in Values /\ T[RootRow].value = a.name
  BY <1>1, AggregateIs, ContentsAre
<1>3. \A e \in Elements : T[Line(e)] = was[Line(e)] /\ T[Note(e)] = was[Note(e)]
  BY <1>1, RowKinds
<1>4. c.name = a.name /\ c.list = IF b = NoAggregate THEN << >> ELSE b.list
  BY DEF RootSaved
<1> HIDE DEF T
<1>5. CASE was[RootRow] = NoRow
  <2>1. b = NoAggregate
    BY <1>5, AssembledIs
  <2>2. \A r \in Rows : was[r] = NoRow
    BY <1>5, NothingBeneath
  <2>3. c = [name |-> a.name, list |-> << >>] /\ c.list = << >>
    BY <2>1 DEF RootSaved
  <2>4. c \in Aggregates
    <3>1. << >> \in SeqOf(Entities, Cardinality(Elements))
      <4>1. Cardinality(Elements) \in Nat
        BY RepositoryAssumption, FS_CardinalityType
      <4>2. QED
        BY <4>1 DEF SeqOf
    <3>2. IsInjective(KeysOf(<< >>))
      BY DEF IsInjective, KeysOf
    <3>3. QED
      BY <1>2, <2>3, <3>1, <3>2 DEF Aggregates
  <2>5. \A e \in Elements : T[Line(e)] = NoRow
    BY <1>3, <2>2, RowKinds
  <2>6. ReadOf(c, T) /\ InPlaceOf(c, T)
    BY <1>2, <2>3, <2>5 DEF ReadOf, InPlaceOf
  <2>7. QED
    BY <1>1, <2>4, <2>6, ReadBack DEF T
<1>6. CASE was[RootRow] # NoRow
  <2>1. b \in Aggregates /\ ReadOf(b, was) /\ InPlaceOf(b, was)
    BY <1>6, OneReadingInPlace
  <2>2. b # NoAggregate /\ \A i \in DOMAIN b.list : b.list[i].key \in Elements
    BY <2>1, AggregateIs
  <2>3. c = [name |-> a.name, list |-> b.list] /\ c.list = b.list
    BY <2>2 DEF RootSaved
  <2>4. c \in Aggregates
    BY <1>2, <2>1, <2>3 DEF Aggregates
  <2> HIDE DEF c
  <2>5. ReadOf(c, T)
    <3>1. \A e \in Elements : T[Line(e)] # NoRow <=> \E i \in DOMAIN c.list : c.list[i].key = e
      BY <1>3, <2>1, <2>3 DEF ReadOf
    <3>2. \A i \in DOMAIN c.list :
            LET e == c.list[i].key IN
            T[Line(e)].value = c.list[i].value /\ (c.list[i].noted <=> T[Note(e)] # NoRow)
      BY <1>3, <2>1, <2>2, <2>3 DEF ReadOf
    <3>3. QED
      BY <1>2, <1>4, <3>1, <3>2 DEF ReadOf
  <2>6. InPlaceOf(c, T)
    BY <1>3, <2>1, <2>2, <2>3 DEF InPlaceOf
  <2>7. QED
    BY <1>1, <2>4, <2>5, <2>6, ReadBack DEF T, c
<1>7. QED
  BY <1>5, <1>6

\* What an operation leaves of what could be read one way is read one way: as
\* what it was asked to save.
LEMMA OutcomeReadsBack ==
    ASSUME NEW was, Tables(was), Closed(was), NEW j \in Jobs, NEW T, Outcome(j, was, T),
           NEW b, Assembled(was) = {b}
    PROVE  Assembled(T) = {IF j.does # "saveRoot" THEN j.value ELSE RootSaved(j.value, b)}
<1>1. /\ j.does \in {"save", "change", "insert", "saveRoot"} => j.value \in Aggregates
      /\ j.does = "delete" => j.value = NoAggregate
  BY JobIs
<1>2. CASE j.does = "saveRoot"
  <2>1. T = RootLeft(was, j.value)
    BY <1>2 DEF Outcome
  <2>2. QED
    BY <1>1, <1>2, <2>1, RootReadsBack
<1>3. CASE j.does = "delete"
  <2>1. T = Left(was, NoAggregate, TRUE)
    BY <1>1, <1>3 DEF Outcome
  <2>2. QED
    BY <1>1, <1>3, <2>1, NoneLeft
<1>4. CASE j.does = "save"
  <2>1. T = Left(was, j.value, TRUE)
    BY <1>4 DEF Outcome
  <2>2. QED
    BY <1>1, <1>4, <2>1, LeftReadsBack
<1>5. \A i \in DOMAIN j.value.list : j.does \in {"change", "insert"} =>
        Line(j.value.list[i].key) \in Rows
  BY <1>1, AggregateIs, RowKinds
<1>6. CASE j.does = "insert"
  <2>1. T = Left(was, j.value, FALSE) /\ was[RootRow] = NoRow
    BY <1>6 DEF Outcome
  <2>2. \A r \in Rows : was[r] = NoRow
    BY <2>1, NothingBeneath
  <2>3. Stood(was, j.value) = {}
    BY <1>5, <1>6, <2>2 DEF Stood
  <2>4. QED
    BY <1>1, <1>6, <2>1, <2>3, LeftReadsBack
<1>7. CASE j.does = "change"
  <2> DEFINE again == Reordered(b, j.value)
  <2>1. T = Left(was, j.value, again) /\ again \in BOOLEAN
    <3>1. again \in BOOLEAN
      BY DEF Reordered
    <3>2. QED
      BY <1>7, <3>1 DEF Outcome
  <2>2. again \/ Stood(was, j.value) = {}
          \/ (Stood(was, j.value) = DOMAIN j.value.list /\ InPlaceOf(j.value, was))
    <3>1. CASE was[RootRow] = NoRow
      <4>1. \A r \in Rows : was[r] = NoRow
        BY <3>1, NothingBeneath
      <4>2. QED
        BY <1>5, <1>7, <4>1 DEF Stood
    <3>2. CASE was[RootRow] # NoRow
      <4>1. b \in Aggregates /\ ReadOf(b, was) /\ InPlaceOf(b, was)
        BY <3>2, OneReadingInPlace
      <4>2. QED
        BY <1>1, <1>7, <4>1, KeptInPlace
    <3>3. QED
      BY <3>1, <3>2
  <2> HIDE DEF again
  <2>3. QED
    BY <1>1, <1>7, <2>1, <2>2, LeftReadsBack
<1>8. QED
  BY <1>2, <1>3, <1>4, <1>6, <1>7 DEF Outcome

\* An operation done that nobody came in between of, and what it was asked of.
LEMMA DoneHasOutcome ==
    ASSUME RepositoryInv, TablesInv, PlanInv, NEW w \in Sessions, Alone(w), op[w].says = "done"
    PROVE  /\ Tables(op[w].was) /\ Closed(op[w].was) /\ op[w].job \in Jobs
           /\ Outcome(op[w].job, op[w].was, db)
<1>1. Planned(op[w], db, mapping) /\ op[w].phase = "answered" /\ op[w].alone
  BY PlannedIs DEF Alone
<1>2. op[w].job \in Jobs
  BY <1>1, TypesOf DEF SessionTyped
<1>3. QED
  BY <1>1, <1>2 DEF Planned, Told

\* What was saved is what is then found: the root, every member, each list in
\* its order and every entity beneath it, whichever operation wrote it, however
\* many statements it took, and whatever was stored before it (sql/
\* repository_changes.go: changes; sql/repository_writes.go).
THEOREM SavedIsAlwaysStored == Spec => []SavedIsStored
<1>1. RepositoryInv /\ TablesInv /\ PlanInv => SavedIsStored
  <2>1. SUFFICES ASSUME RepositoryInv, TablesInv, PlanInv, NEW w \in Sessions, Alone(w),
                        op[w].says = "done", OneWas(w)
                 PROVE  Assembled(db) = {Wanted(w)}
    BY DEF SavedIsStored
  <2>2. PICK b : Was(w) = {b}
    BY <2>1 DEF OneWas
  <2>3. Wanted(w) = IF op[w].job.does # "saveRoot" THEN op[w].job.value
                    ELSE RootSaved(op[w].job.value, b)
    <3>1. (CHOOSE a \in Was(w) : TRUE) = b
      BY <2>2
    <3>2. QED
      BY <3>1, Zenon DEF Wanted, RootSaved
  <2>4. /\ Tables(op[w].was) /\ Closed(op[w].was) /\ op[w].job \in Jobs
        /\ Outcome(op[w].job, op[w].was, db)
    BY <2>1, DoneHasOutcome
  <2>5. Assembled(op[w].was) = {b}
    BY <2>2 DEF Was
  <2>6. Assembled(db) = {IF op[w].job.does # "saveRoot" THEN op[w].job.value
                         ELSE RootSaved(op[w].job.value, b)}
    BY <2>4, <2>5, OutcomeReadsBack
  <2>7. QED
    BY <2>3, <2>6, Zenon
<1>2. QED
  BY <1>1, AlwaysPlanned, PTL

-----------------------------------------------------------------------------
(* What is saved as it was found, and what is moved. *)

\* An aggregate left as what was stored is what was stored.
LEMMA LeftAsItWas ==
    ASSUME NEW was, Tables(was), Closed(was), NEW a \in Aggregates, Assembled(was) = {a},
           NEW placed \in BOOLEAN
    PROVE  Left(was, a, placed) = was
<1> DEFINE T == Left(was, a, placed)
           n == Len(a.list)
           P == Placed(Part(was, All), a)
           S == Stood(was, a)
           p == StoodAt(was, a)
<1>1. /\ n \in Nat /\ DOMAIN a.list = 1..n /\ a # NoAggregate
      /\ \A i \in 1..n : a.list[i].key \in Elements /\ Line(a.list[i].key) \in Rows
  BY AggregateIs, RowKinds
<1>2. was[RootRow] # NoRow
  BY <1>1, AssembledIs
<1>3. ReadOf(a, was) /\ InPlaceOf(a, was)
  BY <1>2, OneReadingInPlace
<1>4. RowsOf(a) = PresentRows(was)
  BY ReadHasRows
<1>5. /\ Tables(T) /\ PresentRows(T) = RowsOf(a)
      /\ T[RootRow] = Content(a.name, 0)
      /\ \A i \in DOMAIN a.list :
            LET r == Line(a.list[i].key) IN
            T[r] = Content(a.list[i].value,
                       IF placed THEN P[i]
                       ELSE IF was[r] = NoRow THEN Numbered(n)[i] ELSE was[r].position)
  BY <1>1, LeftIs
<1>6. IsPlaces(p, n, S) /\ P = PlaceKeeping(p, LongestIncreasing(p, S))
      /\ \A i \in S : p[i] = was[Line(a.list[i].key)].position /\ p[i] \in Lowest..Highest
  BY PlacedBy
<1> HIDE DEF T, P, p, n
<1>7. S = 1..n
  BY <1>1, <1>3 DEF Stood, ReadOf
<1>8. \A i \in 1..n : was[Line(a.list[i].key)] # NoRow
  BY <1>1, <1>7 DEF Stood
<1> HIDE DEF S
<1>9. Increases(p, S)
  BY <1>1, <1>3, <1>6, <1>7, SMTT(20) DEF InPlaceOf, Increases
<1>10. P = p
  <2>1. LongestIncreasing(p, S) = S
    BY <1>6, <1>9, LongestIsAll
  <2>2. PlaceKeeping(p, S) = p
    BY <1>6, <1>7, PlaceKeepingAll
  <2>3. QED
    BY <1>6, <2>1, <2>2
<1>11. ASSUME NEW i \in 1..n PROVE T[Line(a.list[i].key)] = was[Line(a.list[i].key)]
  <2> DEFINE r == Line(a.list[i].key)
  <2>1. r \in Rows /\ was[r] # NoRow /\ was[r].value = a.list[i].value
    BY <1>1, <1>3, <1>8 DEF ReadOf
  <2>2. T[r] = Content(a.list[i].value, was[r].position)
    BY <1>1, <1>5, <1>6, <1>7, <1>8, <1>10
  <2> HIDE DEF r
  <2>3. was[r] = Content(was[r].value, was[r].position)
    BY <2>1, ContentsAre DEF Tables
  <2>4. T[r] = was[r]
    BY <2>1, <2>2, <2>3
  <2>5. QED
    BY <2>4 DEF r
<1>12. T[RootRow] = was[RootRow]
  <2>1. was[RootRow] = Content(was[RootRow].value, was[RootRow].position) /\ was[RootRow].position = 0
    BY <1>2, RowKinds, ContentsAre DEF Tables, RowContents
  <2>2. was[RootRow].value = a.name
    BY <1>3 DEF ReadOf
  <2>3. QED
    BY <1>5, <2>1, <2>2
<1>13. ASSUME NEW r \in Rows PROVE T[r] = was[r]
  <2>1. CASE r \notin RowsOf(a)
    BY <1>4, <1>5, <2>1 DEF PresentRows
  <2>2. CASE r \in RowsOf(a) /\ r[1] = 3
    <3>1. T[r] \in RowContents(r) /\ was[r] \in RowContents(r)
      BY <1>4, <1>5, <2>2 DEF PresentRows, Tables
    <3>2. \A c \in RowContents(r) : c.value = NoRow /\ c.position = 0 /\ c = Content(c.value, c.position)
      BY <2>2, ContentsAre DEF RowContents
    <3>3. QED
      BY <3>1, <3>2
  <2>3. CASE r \in RowsOf(a) /\ r[1] # 3
    <3>1. r = RootRow \/ (r = Line(r[2]) /\ r[2] \in Elements)
      BY <2>3, RowKinds
    <3>2. CASE r = RootRow
      BY <1>12, <3>2
    <3>3. CASE r = Line(r[2]) /\ r[2] \in Elements
      <4>1. PICK i \in DOMAIN a.list : a.list[i].key = r[2]
        BY <1>1, <2>3, <3>3, RowsOfAre
      <4>2. QED
        BY <1>1, <1>11, <3>3, <4>1
    <3>4. QED
      BY <3>1, <3>2, <3>3
  <2>4. QED
    BY <2>1, <2>2, <2>3
<1>14. T = [r \in Rows |-> T[r]] /\ was = [r \in Rows |-> was[r]]
  BY <1>5 DEF Tables
<1>15. T = was
  BY <1>13, <1>14
<1>16. QED
  BY <1>15 DEF T

\* An aggregate saved as it was found writes nothing: what is left to run is
\* nothing, and nothing was run (sql/repository_changes.go: changes; sql.md).
THEOREM UnchangedNeverWrites == Spec => []UnchangedWritesNothing
<1>1. RepositoryInv /\ TablesInv /\ PlanInv => UnchangedWritesNothing
  <2>1. SUFFICES ASSUME RepositoryInv, TablesInv, PlanInv, NEW w \in Sessions,
                        op[w].phase = "run", op[w].job.does \in {"save", "change"}, op[w].alone,
                        Was(w) = {op[w].job.value}
                 PROVE  op[w].todo = << >> /\ op[w].held = {}
    BY DEF UnchangedWritesNothing
  <2> DEFINE o == op[w]
             v == o.job.value
  <2>2. Planned(o, db, mapping) /\ o.job \in Jobs /\ Assembled(o.was) = {v}
    BY <2>1, PlannedIs, TypesOf DEF SessionTyped, Was
  <2>3. v \in Aggregates
    BY <2>1, <2>2, JobIs
  <2>4. Tables(o.was) /\ Closed(o.was) /\ (Clash(o) \/ \E T : OnPlan(o, SeenOf(o, db), T))
    BY <2>1, <2>2 DEF Planned
  <2>5. ~ Clash(o)
    BY <2>1 DEF Clash
  <2>6. PICK T : OnPlan(o, SeenOf(o, db), T)
    BY <2>4, <2>5
  <2>7. Outcome(o.job, o.was, T)
    BY <2>6 DEF OnPlan
  <2>8. \E placed \in BOOLEAN : T = Left(o.was, v, placed)
    <3>1. CASE o.job.does = "save"
      BY <2>7, <3>1 DEF Outcome
    <3>2. CASE o.job.does = "change"
      <4>1. PICK a : T = Left(o.was, v, Reordered(a, v))
        BY <2>7, <3>2 DEF Outcome
      <4>2. Reordered(a, v) \in BOOLEAN
        BY DEF Reordered
      <4>3. QED
        BY <4>1, <4>2
    <3>3. QED
      BY <2>1, <3>1, <3>2
  <2>9. T = o.was
    BY <2>2, <2>3, <2>4, <2>8, LeftAsItWas
  <2>10. QED
    BY <2>1, <2>6, <2>9 DEF OnPlan
<1>2. QED
  BY <1>1, AlwaysPlanned, PTL

\* Where an element goes is told by what is kept, whatever the others' are.
LEMMA PlacedAtOf ==
    ASSUME NEW n \in Nat, NEW K \in SUBSET (1..n), NEW p, NEW q, \A k \in K : p[k] = q[k],
           NEW i \in 1..n
    PROVE  PlacedAt(p, K, i) = PlacedAt(q, K, i)
<1>1. HasLower(K, i) => Lower(K, i) \in K
  BY LowerIs
<1>2. HasUpper(K, i) => Upper(K, i) \in K
  BY UpperIs
<1>3. CASE i \in K
  BY <1>3 DEF PlacedAt
<1>4. CASE i \notin K /\ K = {}
  BY <1>4 DEF PlacedAt, HasLower, HasUpper
<1>5. CASE i \notin K /\ K # {} /\ ~ HasLower(K, i)
  <2>1. HasUpper(K, i)
    <3>1. PICK k \in K : TRUE
      BY <1>5
    <3>2. k # i /\ ~ (k < i) /\ k \in Int /\ i \in Int
      BY <1>5 DEF HasLower
    <3>3. i < k
      BY <3>2
    <3>4. QED
      BY <3>3 DEF HasUpper
  <2>2. p[Upper(K, i)] = q[Upper(K, i)]
    BY <1>2, <2>1
  <2>3. /\ PlacedAt(p, K, i) = p[Upper(K, i)] - (Upper(K, i) - i) * Gap
        /\ PlacedAt(q, K, i) = q[Upper(K, i)] - (Upper(K, i) - i) * Gap
    BY <1>5 DEF PlacedAt
  <2>4. QED
    BY <2>2, <2>3, Zenon
<1>6. CASE i \notin K /\ HasLower(K, i) /\ ~ HasUpper(K, i)
  <2>1. p[Lower(K, i)] = q[Lower(K, i)] /\ K # {}
    BY <1>1, <1>6
  <2>2. /\ PlacedAt(p, K, i) = p[Lower(K, i)] + (i - Lower(K, i)) * Gap
        /\ PlacedAt(q, K, i) = q[Lower(K, i)] + (i - Lower(K, i)) * Gap
    BY <1>6, <2>1 DEF PlacedAt
  <2>3. QED
    BY <2>1, <2>2, Zenon
<1>7. CASE i \notin K /\ HasLower(K, i) /\ HasUpper(K, i)
  <2>1. p[Lower(K, i)] = q[Lower(K, i)] /\ p[Upper(K, i)] = q[Upper(K, i)] /\ K # {}
    BY <1>1, <1>2, <1>7
  <2> DEFINE l == Lower(K, i)
             u == Upper(K, i)
             at(f) == f[l] + ((f[u] - f[l]) * (i - l)) \div (u - l)
  <2>2. PlacedAt(p, K, i) = at(p) /\ PlacedAt(q, K, i) = at(q)
    BY <1>7, <2>1 DEF PlacedAt
  <2>3. at(p) = at(q)
    BY <2>1, Zenon
  <2>4. QED
    BY <2>2, <2>3, Zenon
<1>8. QED
  BY <1>3, <1>4, <1>5, <1>6, <1>7

\* So is whether there is room.
LEMMA RoomOf ==
    ASSUME NEW n \in Nat, NEW K \in SUBSET (1..n), NEW p, NEW q, \A k \in K : p[k] = q[k],
           DOMAIN p = 1..n, DOMAIN q = 1..n, Room(p, K)
    PROVE  Room(q, K)
<1>1. SUFFICES ASSUME NEW i \in (1..n) \ K, HasLower(K, i), HasUpper(K, i)
               PROVE  q[Upper(K, i)] - q[Lower(K, i)] >= Upper(K, i) - Lower(K, i)
  BY DEF Room
<1>2. Lower(K, i) \in K /\ Upper(K, i) \in K
  BY <1>1, LowerIs, UpperIs
<1>3. p[Upper(K, i)] - p[Lower(K, i)] >= Upper(K, i) - Lower(K, i)
  BY <1>1 DEF Room
<1>4. p[Upper(K, i)] = q[Upper(K, i)] /\ p[Lower(K, i)] = q[Lower(K, i)]
  BY <1>2
<1>5. QED
  BY <1>3, <1>4, Zenon

KeptAt(was, a, K) == [i \in DOMAIN a.list |-> IF i \in K THEN was[Line(a.list[i].key)].position ELSE 0]

Crowded(positions, K) ==
    ~ Room(positions, K) \/ \E i \in DOMAIN positions : PlacedAt(positions, K, i) \notin Lowest..Highest

Moved(was, a, T) ==
    {i \in Stood(was, a) : was[Line(a.list[i].key)].position # T[Line(a.list[i].key)].position}

\* What need not move is as much as can be left where it stands in order.
LEMMA KeepsLongest ==
    ASSUME NEW was, Tables(was), NEW a \in Aggregates
    PROVE  LongestIncreasing(StoodAt(was, a), Stood(was, a)) \in Longest(a, was)
<1> DEFINE p == StoodAt(was, a)
           S == Stood(was, a)
           K == LongestIncreasing(p, S)
<1>1. /\ IsPlaces(p, Len(a.list), S)
      /\ \A i \in S : p[i] = was[Line(a.list[i].key)].position
  BY PlacedBy
<1>2. InOrder(a, was) = {L \in SUBSET S : \A i, j \in L : i < j =>
                            was[Line(a.list[i].key)].position < was[Line(a.list[j].key)].position}
  BY DEF InOrder, Stood
<1> HIDE DEF p, S
<1>3. \A L \in SUBSET S : L \in InOrder(a, was) <=> Increases(p, L)
  <2>1. SUFFICES ASSUME NEW L \in SUBSET S
                 PROVE  L \in InOrder(a, was) <=> Increases(p, L)
    OBVIOUS
  <2>2. \A i \in L : p[i] = was[Line(a.list[i].key)].position
    BY <1>1
  <2>3. L \in InOrder(a, was) <=>
           \A i, j \in L : i < j =>
              was[Line(a.list[i].key)].position < was[Line(a.list[j].key)].position
    BY <1>2
  <2>4. QED
    BY <2>2, <2>3 DEF Increases
<1>4. /\ K \in SUBSET S /\ Increases(p, K)
      /\ \A L \in SUBSET S : Increases(p, L) => Cardinality(L) <= Cardinality(K)
  BY <1>1, LongestIs
<1> HIDE DEF K
<1>5. InOrder(a, was) \subseteq SUBSET S
  BY <1>2
<1>6. K \in Longest(a, was)
  BY <1>3, <1>4, <1>5 DEF Longest
<1>7. QED
  BY <1>6 DEF K, p, S

\* A list left moves none of what need not move, or had to be numbered again.
LEMMA LeftMovesFewest ==
    ASSUME NEW was, Tables(was), NEW a \in Aggregates, NEW placed \in BOOLEAN
    PROVE  \E K \in Longest(a, was) :
              \/ Moved(was, a, Left(was, a, placed)) \subseteq Stood(was, a) \ K
              \/ /\ Crowded(KeptAt(was, a, K), K)
                 /\ \A i \in DOMAIN a.list :
                       Left(was, a, placed)[Line(a.list[i].key)].position = Numbered(Len(a.list))[i]
<1> DEFINE T == Left(was, a, placed)
           n == Len(a.list)
           P == Placed(Part(was, All), a)
           p == StoodAt(was, a)
           S == Stood(was, a)
           K == LongestIncreasing(p, S)
           q == KeptAt(was, a, K)
<1>1. n \in Nat /\ DOMAIN a.list = 1..n /\ a # NoAggregate
  BY AggregateIs
<1>2. /\ IsPlaces(p, n, S) /\ P = PlaceKeeping(p, K)
      /\ \A i \in S : p[i] = was[Line(a.list[i].key)].position
  BY PlacedBy
<1>3. K \in Longest(a, was)
  BY KeepsLongest
<1>4. \A i \in DOMAIN a.list :
         LET r == Line(a.list[i].key) IN
         T[r] = Content(a.list[i].value,
                    IF placed THEN P[i]
                    ELSE IF was[r] = NoRow THEN Numbered(n)[i] ELSE was[r].position)
  BY <1>1, LeftIs
<1> HIDE DEF T, P
<1>5. \A i \in 1..n : T[Line(a.list[i].key)].position =
         IF placed THEN P[i]
         ELSE IF was[Line(a.list[i].key)] = NoRow THEN Numbered(n)[i]
              ELSE was[Line(a.list[i].key)].position
  BY <1>1, <1>4, ContentsAre
<1>6. K \in SUBSET S /\ S \subseteq 1..n /\ \A i \in S : was[Line(a.list[i].key)] # NoRow
  <2>1. K \subseteq S
    BY <1>2, LongestIs
  <2>2. QED
    BY <1>1, <2>1 DEF Stood
<1>7. DOMAIN p = 1..n /\ DOMAIN q = 1..n /\ Len(p) = n
  <2>1. p = [i \in 1..n |-> p[i]]
    BY <1>2 DEF IsPlaces
  <2>2. DOMAIN q = 1..n
    BY <1>1 DEF KeptAt
  <2> HIDE DEF p, q
  <2>3. QED
    BY <1>1, <2>1, <2>2, ListIs
<1>8. \A k \in K : p[k] = q[k]
  <2>1. \A k \in K : q[k] = was[Line(a.list[k].key)].position
    BY <1>1, <1>6 DEF KeptAt
  <2> HIDE DEF p, q, S, K
  <2>2. QED
    BY <1>2, <1>6, <2>1
<1> HIDE DEF p, q, S, K, n
<1>9. CASE ~ placed
  <2>1. Moved(was, a, T) = {}
    BY <1>5, <1>6, <1>9 DEF Moved, S
  <2>2. QED
    BY <1>3, <2>1 DEF T, S
<1>10. CASE placed /\ Room(p, K) /\ \A i \in 1..n : PlacedAt(p, K, i) \in Lowest..Highest
  <2>1. P = [i \in 1..n |-> PlacedAt(p, K, i)]
    BY <1>2, <1>7, <1>10 DEF PlaceKeeping
  <2>2. \A i \in K : PlacedAt(p, K, i) = p[i]
    BY DEF PlacedAt
  <2>3. \A i \in K : /\ T[Line(a.list[i].key)].position = P[i] /\ P[i] = p[i]
                     /\ p[i] = was[Line(a.list[i].key)].position
    BY <1>2, <1>5, <1>6, <1>10, <2>1, <2>2
  <2>4. \A i \in K : i \notin Moved(was, a, T)
    BY <2>3 DEF Moved
  <2>5. Moved(was, a, T) \subseteq S \ K
    BY <2>4 DEF Moved, S
  <2>6. QED
    BY <1>3, <2>5 DEF T, S
<1>11. CASE placed /\ ~ (Room(p, K) /\ \A i \in 1..n : PlacedAt(p, K, i) \in Lowest..Highest)
  <2>1. P = Numbered(n)
    <3>1. P = IF Room(p, K) /\ \A i \in DOMAIN p : [x \in DOMAIN p |-> PlacedAt(p, K, x)][i] \in Lowest..Highest
              THEN [x \in DOMAIN p |-> PlacedAt(p, K, x)] ELSE Numbered(n)
      BY <1>2, <1>7, Zenon DEF PlaceKeeping
    <3>2. ~ (Room(p, K) /\ \A i \in DOMAIN p : [x \in DOMAIN p |-> PlacedAt(p, K, x)][i] \in Lowest..Highest)
      BY <1>7, <1>11
    <3>3. QED
      BY <3>1, <3>2, Zenon
  <2>2. K \in SUBSET (1..n)
    BY <1>6
  <2>3. Room(q, K) => Room(p, K)
    BY <1>1, <1>7, <1>8, <2>2, RoomOf
  <2>4. ASSUME NEW i \in 1..n PROVE PlacedAt(q, K, i) = PlacedAt(p, K, i)
    <3>1. PlacedAt(p, K, i) = PlacedAt(q, K, i)
      BY <1>1, <1>8, <2>2, PlacedAtOf
    <3>2. QED
      BY <3>1, Zenon
  <2>5. Crowded(q, K)
    BY <1>7, <1>11, <2>3, <2>4 DEF Crowded
  <2>6. \A i \in DOMAIN a.list : T[Line(a.list[i].key)].position = Numbered(n)[i]
    BY <1>1, <1>5, <1>11, <2>1
  <2>7. QED
    BY <1>3, <2>5, <2>6 DEF T, n, q
<1>12. QED
  BY <1>9, <1>10, <1>11

\* Of the elements that stay as few change position as any way of keeping the
\* others in order would change, and a list is numbered again only where its
\* neighbours leave no room for what goes between them or there are no more
\* positions (sql/repository_positions.go: placeList).
THEOREM FewestAreMoved == Spec => []FewestMoved
<1>1. RepositoryInv /\ TablesInv /\ PlanInv => FewestMoved
  <2>1. SUFFICES ASSUME RepositoryInv, TablesInv, PlanInv, NEW w \in Sessions, Alone(w),
                        op[w].says = "done", op[w].job.does \in {"save", "change"}
                 PROVE  \E K \in Longest(op[w].job.value, op[w].was) :
                           \/ Moved(op[w].was, op[w].job.value, db)
                                 \subseteq Stood(op[w].was, op[w].job.value) \ K
                           \/ /\ Crowded(KeptAt(op[w].was, op[w].job.value, K), K)
                              /\ \A i \in DOMAIN op[w].job.value.list :
                                    db[Line(op[w].job.value.list[i].key)].position
                                       = Numbered(Len(op[w].job.value.list))[i]
    <3>1. \A K, was, a : DOMAIN KeptAt(was, a, K) = DOMAIN a.list
      BY DEF KeptAt
    <3>2. QED
      BY <3>1, ZenonT(40) DEF FewestMoved, Moved, Stood, Crowded, KeptAt
  <2>2. /\ Tables(op[w].was) /\ op[w].job \in Jobs /\ Outcome(op[w].job, op[w].was, db)
    BY <2>1, DoneHasOutcome
  <2>3. op[w].job.value \in Aggregates
    BY <2>1, <2>2, JobIs
  <2>4. PICK placed \in BOOLEAN : db = Left(op[w].was, op[w].job.value, placed)
    <3>1. \A a : Reordered(a, op[w].job.value) \in BOOLEAN
      BY DEF Reordered
    <3>2. QED
      BY <2>1, <2>2, <3>1 DEF Outcome
  <2>5. QED
    BY <2>2, <2>3, <2>4, LeftMovesFewest, SMTT(30)
<1>2. QED
  BY <1>1, AlwaysPlanned, PTL
=============================================================================
