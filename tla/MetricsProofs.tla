---------------------------- MODULE MetricsProofs ----------------------------
(***************************************************************************)
(* The counters and a scrape, for every set of requests and of routes and  *)
(* every number of buckets.  IInv: a request has added to each counter     *)
(* what is due from it but for what its record has left to add, and the    *)
(* counter has what they all have added (Books); who has ended has nothing *)
(* left to add (Position), so that what was due from it when a scrape      *)
(* began is in whatever the scrape shows (ScrapeBetween itself).           *)
(***************************************************************************)
EXTENDS Metrics, FiniteSetTheorems, FunctionTheorems, TLAPS

\* What a sequence of fetch_adds adds to counter c, which it has once at most.
LeftOf(s, c) ==
    LET I == {i \in DOMAIN s : s[i][1] = c}
    IN  IF I = {} THEN 0 ELSE s[CHOOSE i \in I : TRUE][2]
Once(s) == \A i, j \in DOMAIN s : s[i][1] = s[j][1] => i = j
Without(s, c) == \A i \in DOMAIN s : s[i][1] # c

Labels == {"idle", "start", "tenant", "process", "handler", "shed", "reply", "done", "gone"}

Shapes ==
    /\ pc \in [Requests -> Labels]
    /\ route \in [Requests -> Routes \cup {Other}]
    /\ waits \in [Requests -> Seq(Elapsed)]
    /\ took \in [Requests -> {0} \cup Elapsed]
    /\ answer \in [Requests -> {"none", "ok", "error", "shed"}]
    /\ todo \in [Requests -> Seq(Cells \X Elapsed)]
    /\ counter \in [Cells -> Nat]
    /\ loaded \in 0..Len(Rendered) /\ shown \in Nat /\ before \subseteq Requests

\* Where a request is, and what it has behind it.
Position(r) ==
    /\ pc[r] \in {"idle", "start", "tenant"} => waits[r] = <<>>
    /\ pc[r] = "process" => Len(waits[r]) = 1
    /\ Len(waits[r]) <= 2
    /\ answer[r] # "none" <=> pc[r] \in {"reply", "done"}
    /\ pc[r] = "reply" => took[r] \in Elapsed
    /\ pc[r] = "done" => took[r] \in Elapsed
    /\ pc[r] \in {"idle", "done", "gone"} => todo[r] = <<>>
    /\ Once(todo[r])

\* What r has added to c.
Added(r, c) == Due(r, c) - LeftOf(todo[r], c)

Books ==
    \A c \in Cells :
        /\ \A r \in Requests : LeftOf(todo[r], c) <= Due(r, c)
        /\ counter[c] = AddUp([r \in Requests |-> Added(r, c)])

IInv ==
    /\ Shapes /\ Books
    /\ \A r \in Requests : Position(r)
    /\ \A r \in before : Ended(r)
    /\ ScrapeBetween
-----------------------------------------------------------------------------
(* Sums. *)

\* What AddUp() counts.
Units(f) == UNION {{x} \X (1..f[x]) : x \in DOMAIN f}

\* A unit is an argument with a number up to its value.
LEMMA UnitsAre ==
    ASSUME NEW D, NEW f \in [D -> Nat]
    PROVE  /\ \A p \in Units(f) : p = <<p[1], p[2]>> /\ p[1] \in D /\ p[2] \in 1..f[p[1]]
           /\ \A x \in D : \A k \in 1..f[x] : <<x, k>> \in Units(f)
BY DEF Units

\* The sum over a finite domain is a number.
LEMMA AddUpType ==
    ASSUME NEW D, IsFiniteSet(D), NEW f \in [D -> Nat]
    PROVE  IsFiniteSet(Units(f)) /\ AddUp(f) = Cardinality(Units(f)) /\ AddUp(f) \in Nat
<1>. DEFINE F == {{x} \X (1..f[x]) : x \in D}
            g == [x \in D |-> {x} \X (1..f[x])]
<1>1. IsFiniteSet(F)
  <2>1. g \in Surjection(D, F)
    BY DEF Surjection
  <2>. QED
    BY <2>1, FS_Surjection
<1>2. \A T \in F : IsFiniteSet(T)
  <2>. SUFFICES ASSUME NEW x \in D PROVE IsFiniteSet({x} \X (1..f[x]))
    OBVIOUS
  <2>1. IsFiniteSet({x})
    BY FS_Singleton
  <2>2. IsFiniteSet(1..f[x])
    <3>1. f[x] \in Int /\ 1 \in Int
      OBVIOUS
    <3>. QED
      BY <3>1, FS_Interval
  <2>. QED
    BY <2>1, <2>2, FS_Product
<1>3. Units(f) = UNION F
  BY DEF Units
<1>4. IsFiniteSet(Units(f))
  <2>. HIDE DEF F
  <2>. QED
    BY <1>1, <1>2, <1>3, FS_UNION
<1>5. AddUp(f) = Cardinality(Units(f))
  BY DEF AddUp, Units
<1>. QED
  BY <1>4, <1>5, FS_CardinalityType

\* A sum of less, or of fewer, is no more.
LEMMA AddUpMonotone ==
    ASSUME NEW D, NEW E, IsFiniteSet(E), D \subseteq E,
           NEW f \in [D -> Nat], NEW g \in [E -> Nat], \A x \in D : f[x] <= g[x]
    PROVE  AddUp(f) <= AddUp(g)
<1>1. IsFiniteSet(D)
  BY FS_Subset
<1>2. Units(f) \subseteq Units(g)
  <2>. SUFFICES ASSUME NEW p \in Units(f) PROVE p \in Units(g)
    OBVIOUS
  <2>1. p = <<p[1], p[2]>> /\ p[1] \in D /\ p[2] \in 1..f[p[1]]
    BY UnitsAre
  <2>2. p[1] \in E /\ p[2] \in 1..g[p[1]]
    BY <2>1
  <2>. QED
    BY <2>1, <2>2, UnitsAre
<1>. QED
  BY <1>1, <1>2, AddUpType, FS_Subset

\* f and g agree but for r, which f need not have.
Agree(D, f, r, g) ==
    /\ IsFiniteSet(D) /\ f \in [D -> Nat] /\ g \in [D \cup {r} -> Nat]
    /\ \A x \in D \ {r} : g[x] = f[x]

\* A value that grows, or a new one, makes the sum grow by as much.
LEMMA AddUpGrows ==
    ASSUME NEW D, NEW f, NEW r, NEW g, Agree(D, f, r, g),
           NEW m \in Nat, NEW b \in Nat, m <= b,
           r \in D => f[r] = m, r \notin D => m = 0, g[r] = b
    PROVE  AddUp(g) - AddUp(f) = b - m
<1>. DEFINE E == D \cup {r}
<1>. f \in [D -> Nat] /\ g \in [E -> Nat] /\ IsFiniteSet(D) /\ \A x \in D \ {r} : g[x] = f[x]
  BY DEF Agree
<1>. PICK a \in Nat : b = m + a
  <2>1. b - m \in Nat /\ b = m + (b - m)
    OBVIOUS
  <2>. QED
    BY <2>1
<1>. DEFINE More == {r} \X ((m + 1)..(m + a))
<1>1. IsFiniteSet(More) /\ Cardinality(More) = a
  <2>1. IsFiniteSet({r}) /\ Cardinality({r}) = 1
    BY FS_Singleton
  <2>. PICK l \in Int, h \in Int : l = m + 1 /\ h = m + a
    OBVIOUS
  <2>2. IsFiniteSet(l..h) /\ Cardinality(l..h) = IF l > h THEN 0 ELSE h - l + 1
    BY FS_Interval
  <2>3. Cardinality(l..h) = a /\ 1 * a = a
    BY <2>2
  <2>4. IsFiniteSet({r} \X (l..h)) /\ Cardinality({r} \X (l..h)) = Cardinality({r}) * Cardinality(l..h)
    BY <2>1, <2>2, FS_Product
  <2>. QED
    BY <2>1, <2>3, <2>4
<1>2. Units(g) = Units(f) \cup More
  <2>1. ASSUME NEW p \in Units(g) PROVE p \in Units(f) \cup More
    <3>1. p = <<p[1], p[2]>> /\ p[1] \in D \cup {r} /\ p[2] \in 1..g[p[1]]
      BY UnitsAre
    <3>2. CASE p[1] # r
      <4>1. p[1] \in D /\ p[2] \in 1..f[p[1]]
        BY <3>1, <3>2
      <4>. QED
        BY <3>1, <4>1, UnitsAre
    <3>3. CASE p[1] = r /\ p[2] > m
      BY <3>1, <3>3
    <3>4. CASE p[1] = r /\ p[2] <= m
      <4>1. r \in D /\ p[2] \in 1..f[r]
        BY <3>1, <3>4
      <4>. QED
        BY <3>1, <3>4, <4>1, UnitsAre
    <3>. QED
      BY <3>1, <3>2, <3>3, <3>4
  <2>2. ASSUME NEW p \in Units(f) PROVE p \in Units(g)
    <3>1. p = <<p[1], p[2]>> /\ p[1] \in D /\ p[2] \in 1..f[p[1]]
      BY UnitsAre
    <3>2. p[2] \in 1..g[p[1]]
      BY <3>1
    <3>. QED
      BY <3>1, <3>2, UnitsAre
  <2>3. ASSUME NEW p \in More PROVE p \in Units(g)
    <3>1. p = <<r, p[2]>> /\ p[2] \in 1..g[r]
      OBVIOUS
    <3>. QED
      BY <3>1, UnitsAre
  <2>. QED
    BY <2>1, <2>2, <2>3
<1>3. Units(f) \cap More = {}
  <2>. SUFFICES ASSUME NEW p \in Units(f), p \in More PROVE FALSE
    OBVIOUS
  <2>1. p[1] \in D /\ p[2] \in 1..f[p[1]]
    BY UnitsAre
  <2>. QED
    BY <2>1
<1>4. IsFiniteSet(E)
  BY FS_AddElement
<1>5. Cardinality(Units(g)) = Cardinality(Units(f)) + a
  <2>. HIDE DEF More
  <2>1. IsFiniteSet(Units(f)) /\ Cardinality(Units(f)) \in Nat
    BY AddUpType
  <2>2. Cardinality(Units(f) \cap More) = 0
    BY <1>3, FS_EmptySet
  <2>3. Cardinality(Units(f) \cup More) =
          Cardinality(Units(f)) + Cardinality(More) - Cardinality(Units(f) \cap More)
    BY <1>1, <2>1, FS_Union
  <2>. QED
    BY <1>1, <1>2, <2>1, <2>2, <2>3
<1>6. AddUp(f) = Cardinality(Units(f)) /\ AddUp(f) \in Nat
  BY AddUpType
<1>7. AddUp(g) = Cardinality(Units(g)) /\ AddUp(g) \in Nat
  BY <1>4, AddUpType
<1>. QED
  BY <1>5, <1>6, <1>7

LEMMA AddUpMore ==
    ASSUME NEW D, NEW f, NEW r, NEW g, Agree(D, f, r, g),
           r \in D, NEW a \in Nat, g[r] = f[r] + a
    PROVE  AddUp(g) = AddUp(f) + a
<1>1. IsFiniteSet(D) /\ f \in [D -> Nat] /\ g \in [D -> Nat]
  <2>1. D = D \cup {r}
    OBVIOUS
  <2>. QED
    BY <2>1 DEF Agree
<1>. PICK m \in Nat, b \in Nat : m = f[r] /\ b = g[r]
  BY <1>1
<1>2. m <= b /\ b = m + a
  OBVIOUS
<1>3. AddUp(g) - AddUp(f) = b - m
  BY <1>2, AddUpGrows
<1>4. AddUp(f) \in Nat /\ AddUp(g) \in Nat
  BY <1>1, AddUpType
<1>. QED
  BY <1>2, <1>3, <1>4

LEMMA AddUpNew ==
    ASSUME NEW D, NEW f, NEW r, NEW g, Agree(D, f, r, g), r \notin D
    PROVE  AddUp(g) = AddUp(f) + g[r]
<1>1. /\ IsFiniteSet(D) /\ IsFiniteSet(D \cup {r}) /\ f \in [D -> Nat]
      /\ g \in [D \cup {r} -> Nat] /\ r \in D \cup {r}
  BY FS_AddElement DEF Agree
<1>. PICK b \in Nat : b = g[r]
  BY <1>1
<1>2. 0 \in Nat /\ 0 <= b
  OBVIOUS
<1>3. AddUp(g) - AddUp(f) = b - 0
  BY <1>2, AddUpGrows
<1>4. AddUp(f) \in Nat /\ AddUp(g) \in Nat
  BY <1>1, AddUpType
<1>. QED
  BY <1>3, <1>4

\* Nothing adds up to nothing.
LEMMA AddUpEmpty ==
    ASSUME NEW f, DOMAIN f = {} PROVE AddUp(f) = 0
BY FS_EmptySet DEF AddUp

\* A sum of zeros.
LEMMA AddUpZero ==
    ASSUME NEW D, NEW f \in [D -> Nat], \A x \in D : f[x] = 0
    PROVE  AddUp(f) = 0
<1>1. Units(f) = {}
  BY UnitsAre
<1>. QED
  BY <1>1, FS_EmptySet DEF AddUp, Units
-----------------------------------------------------------------------------
(* The order of render(). *)

\* A set with zero, and with every successor of its members, has all of Nat:
\* what it lacks would be a finite set mapped into itself by +1 without 0.
LEMMA SetInduction ==
    ASSUME NEW S, 0 \in S, \A n \in Nat : n \in S => n + 1 \in S
    PROVE  Nat \subseteq S
<1>. SUFFICES ASSUME NEW m \in Nat, m \notin S PROVE FALSE
  OBVIOUS
<1>. DEFINE A == S \cap (0..m)
            f == [n \in A |-> n + 1]
<1>1. IsFiniteSet(A)
  <2>1. IsFiniteSet(0..m)
    BY FS_Interval
  <2>2. A \in SUBSET (0..m)
    OBVIOUS
  <2>. QED
    BY <2>1, <2>2, FS_Subset
<1>2. f \in [A -> A]
  OBVIOUS
<1>3. f \in Injection(A, A)
  BY <1>2 DEF Injection, IsInjective
<1>4. f \in Surjection(A, A)
  <2>. HIDE DEF f, A
  <2>. QED
    BY <1>1, <1>3, FS_Injection
<1>5. 0 \in A
  OBVIOUS
<1>6. \E n \in A : f[n] = 0
  <2>. HIDE DEF f, A
  <2>. QED
    BY <1>4, <1>5 DEF Surjection
<1>. QED
  BY <1>6

\* Sequences of T put one after the other are a sequence of T.
LEMMA Flattened ==
    ASSUME NEW T, NEW ss \in Seq(Seq(T))
    PROVE  FlattenSeq(ss) \in Seq(T)
<1>. DEFINE L == Len(ss)
            Flat(f, n) == \A i \in 1..n : f[i] = IF i = 1 THEN ss[i] ELSE f[i - 1] \o ss[i]
            S == {n \in Nat : n <= L => \E f \in [1..n -> Seq(T)] : Flat(f, n)}
<1>0. L \in Nat /\ \A i \in 1..L : ss[i] \in Seq(T)
  OBVIOUS
<1>1. CASE L = 0
  <2>1. FlattenSeq(ss) = ss /\ ss = <<>>
    BY <1>1 DEF FlattenSeq
  <2>. QED
    BY <2>1
<1>2. CASE L > 0
  <2>0. \A n \in Nat : n \in S <=> (n <= L => \E f \in [1..n -> Seq(T)] : Flat(f, n))
    <3>. HIDE DEF Flat
    <3>. QED
      OBVIOUS
  <2>. HIDE DEF S
  <2>1. 0 \in S
    <3>. DEFINE z == [i \in 1..0 |-> <<>>]
    <3>1. <<>> \in Seq(T) /\ 1..0 = {}
      OBVIOUS
    <3>2. z \in [1..0 -> Seq(T)]
      BY <3>1
    <3>3. Flat(z, 0)
      BY <3>1
    <3>. HIDE DEF z, Flat
    <3>. QED
      BY <2>0, <3>2, <3>3
  <2>2. ASSUME NEW n \in Nat, n \in S PROVE n + 1 \in S
    <3>. SUFFICES ASSUME n + 1 <= L PROVE \E f \in [1..(n + 1) -> Seq(T)] : Flat(f, n + 1)
      <4>. HIDE DEF Flat
      <4>. QED
        BY <2>0
    <3>1. PICK f \in [1..n -> Seq(T)] : Flat(f, n)
      <4>. HIDE DEF Flat
      <4>. QED
        BY <1>0, <2>0, <2>2
    <3>. DEFINE t == IF n = 0 THEN ss[1] ELSE f[n] \o ss[n + 1]
                g == [i \in 1..(n + 1) |-> IF i = n + 1 THEN t ELSE f[i]]
    <3>2. t \in Seq(T)
      BY <1>0
    <3>3. g \in [1..(n + 1) -> Seq(T)]
      <4>. HIDE DEF t
      <4>. QED
        BY <3>2
    <3>4. ASSUME NEW i \in 1..(n + 1)
          PROVE  g[i] = IF i = 1 THEN ss[i] ELSE g[i - 1] \o ss[i]
      <4>1. CASE i = n + 1
        <5>1. g[i] = t
          BY <4>1
        <5>2. n # 0 => i # 1 /\ i - 1 = n /\ g[i - 1] = f[n]
          BY <4>1
        <5>. QED
          BY <4>1, <5>1, <5>2
      <4>2. CASE i \in 1..n
        <5>1. g[i] = f[i]
          <6>. HIDE DEF t
          <6>. QED
            BY <4>2
        <5>2. i # 1 => i - 1 \in 1..(n + 1) /\ i - 1 # n + 1
          BY <4>2
        <5>3. i # 1 => g[i - 1] = f[i - 1]
          BY <5>2
        <5>. QED
          BY <3>1, <4>2, <5>1, <5>3
      <4>. QED
        BY <4>1, <4>2
    <3>. HIDE DEF g, t
    <3>. QED
      BY <3>3, <3>4
  <2>3. PICK f \in [1..L -> Seq(T)] : Flat(f, L)
    <3>1. L \in S
      BY <1>0, <2>1, <2>2, SetInduction
    <3>. HIDE DEF Flat
    <3>. QED
      BY <1>0, <2>0, <3>1
  <2>. DEFINE e(h) == [i \in 1..L |-> IF i = 1 THEN ss[i] ELSE h[i - 1] \o ss[i]]
              c == CHOOSE h : h = e(h)
              N == {n \in Nat : n + 1 <= L => c[n + 1] \in Seq(T)}
  <2>4. f = e(f)
    BY <2>3
  <2>5. c = e(c)
    BY <2>4
  <2>6. FlattenSeq(ss) = c[L]
    BY <1>2 DEF FlattenSeq
  <2>. HIDE DEF c
  <2>7. \A i \in 1..L : c[i] = IF i = 1 THEN ss[i] ELSE c[i - 1] \o ss[i]
    BY <2>5
  <2>8. 0 \in N
    BY <1>0, <2>7
  <2>9. ASSUME NEW n \in Nat, n \in N PROVE n + 1 \in N
    <3>. SUFFICES ASSUME n + 2 <= L PROVE c[n + 2] \in Seq(T)
      OBVIOUS
    <3>1. c[n + 1] \in Seq(T) /\ ss[n + 2] \in Seq(T)
      BY <1>0, <2>9
    <3>2. c[n + 2] = c[n + 1] \o ss[n + 2]
      <4>1. n + 2 \in 1..L /\ n + 2 # 1 /\ (n + 2) - 1 = n + 1
        BY <1>0
      <4>. QED
        BY <2>7, <4>1
    <3>. QED
      BY <3>1, <3>2
  <2>10. L - 1 \in N
    <3>. HIDE DEF N
    <3>1. Nat \subseteq N
      BY <2>8, <2>9, SetInduction
    <3>2. L - 1 \in Nat
      BY <1>0, <1>2
    <3>. QED
      BY <3>1, <3>2
  <2>. QED
    BY <1>0, <1>2, <2>6, <2>10
<1>. QED
  BY <1>0, <1>1, <1>2

\* A finite set as a sequence.
LEMMA RoutesInOrder == SetToSeq(Routes) \in Seq(Routes)
<1>1. IsFiniteSet(Routes)
  BY MetricsAssumption
<1>2. Cardinality(Routes) \in Nat /\ ExistsBijection(1..Cardinality(Routes), Routes)
  BY <1>1, FS_CardinalityType
<1>3. \E f \in [1..Cardinality(Routes) -> Routes] : IsInjective(f)
  BY <1>2 DEF ExistsBijection, Bijection, Injection, IsInjective
<1>4. SetToSeq(Routes) \in [1..Cardinality(Routes) -> Routes]
  BY <1>3 DEF SetToSeq
<1>. QED
  BY <1>2, <1>4

\* The counters.
LEMMA CellsAre ==
    /\ \A h \in Routes \cup {Admission} :
         /\ \A b \in 1..BUCKETS : <<h, "le", b>> \in Cells
         /\ <<h, "count", 0>> \in Cells /\ <<h, "sum", 0>> \in Cells
    /\ \A q \in Routes : <<q, "ok", 0>> \in Cells /\ <<q, "error", 0>> \in Cells
    /\ ShedCell \in Cells
    /\ \A c \in Cells :
         \/ c[1] \in Routes \cup {Admission} /\ c = <<c[1], "le", c[3]>> /\ c[3] \in 1..BUCKETS
         \/ c[1] \in Routes \cup {Admission} /\ c = <<c[1], "count", 0>>
         \/ c[1] \in Routes \cup {Admission} /\ c = <<c[1], "sum", 0>>
         \/ c[1] \in Routes /\ c = <<c[1], "ok", 0>>
         \/ c[1] \in Routes /\ c = <<c[1], "error", 0>>
         \/ c = ShedCell /\ c[1] = Admission
<1>1. \A h \in Routes \cup {Admission} : \A c \in HistogramCells(h) : c \in Cells
  BY DEF Cells
<1>2. \A h \in Routes \cup {Admission} :
         /\ \A b \in 1..BUCKETS : <<h, "le", b>> \in Cells
         /\ <<h, "count", 0>> \in Cells /\ <<h, "sum", 0>> \in Cells
  BY <1>1 DEF HistogramCells
<1>3. \A q \in Routes : <<q, "ok", 0>> \in Cells /\ <<q, "error", 0>> \in Cells
  BY DEF Cells, OutcomeCells
<1>4. ShedCell \in Cells
  BY DEF Cells
<1>5. ASSUME NEW h \in Routes \cup {Admission}, NEW c \in HistogramCells(h)
      PROVE  \/ c[1] \in Routes \cup {Admission} /\ c = <<c[1], "le", c[3]>> /\ c[3] \in 1..BUCKETS
             \/ c[1] \in Routes \cup {Admission} /\ c = <<c[1], "count", 0>>
             \/ c[1] \in Routes \cup {Admission} /\ c = <<c[1], "sum", 0>>
  <2>1. CASE c \in {h} \X {"le"} \X (1..BUCKETS)
    BY <2>1
  <2>2. CASE c = <<h, "count", 0>> \/ c = <<h, "sum", 0>>
    BY <2>2
  <2>. QED
    BY <1>5, <2>1, <2>2 DEF HistogramCells
<1>6. ASSUME NEW c \in OutcomeCells
      PROVE  \/ c[1] \in Routes /\ c = <<c[1], "ok", 0>>
             \/ c[1] \in Routes /\ c = <<c[1], "error", 0>>
  BY DEF OutcomeCells
<1>7. ShedCell[1] = Admission
  BY DEF ShedCell
<1>. QED
  BY <1>2, <1>3, <1>4, <1>5, <1>6, <1>7 DEF Cells

\* A scrape loads counters, and at least one.
LEMMA RenderedAre ==
    Rendered \in Seq(Cells) /\ Len(Rendered) \in Nat \ {0}
<1>. DEFINE routes == SetToSeq(Routes)
            outcomes == [i \in DOMAIN routes |-> RenderOutcomes(routes[i])]
            durations == [i \in DOMAIN routes |-> RenderHistogram(routes[i])]
<1>1. routes \in Seq(Routes)
  BY RoutesInOrder
<1>2. ASSUME NEW h \in Routes \cup {Admission} PROVE RenderHistogram(h) \in Seq(Cells)
  <2>1. [b \in 1..BUCKETS |-> <<h, "le", b>>] \in Seq(Cells)
    <3>1. \A b \in 1..BUCKETS : <<h, "le", b>> \in Cells
      BY CellsAre
    <3>2. [b \in 1..BUCKETS |-> <<h, "le", b>>] \in [1..BUCKETS -> Cells]
      BY <3>1
    <3>. QED
      BY <3>2, MetricsAssumption
  <2>2. << <<h, "count", 0>>, <<h, "sum", 0>> >> \in Seq(Cells)
    BY CellsAre
  <2>. QED
    BY <2>1, <2>2 DEF RenderHistogram
<1>3. ASSUME NEW q \in Routes PROVE RenderOutcomes(q) \in Seq(Cells)
  BY CellsAre DEF RenderOutcomes
<1>4. outcomes \in Seq(Seq(Cells)) /\ durations \in Seq(Seq(Cells))
  <2>. HIDE DEF routes
  <2>1. \A i \in 1..Len(routes) : routes[i] \in Routes
    BY <1>1
  <2>2. DOMAIN routes = 1..Len(routes) /\ Len(routes) \in Nat
    BY <1>1
  <2>3. outcomes \in [1..Len(routes) -> Seq(Cells)]
    BY <1>3, <2>1, <2>2
  <2>4. durations \in [1..Len(routes) -> Seq(Cells)]
    BY <1>2, <2>1, <2>2
  <2>. HIDE DEF outcomes, durations
  <2>. QED
    BY <2>2, <2>3, <2>4
<1>5. FlattenSeq(outcomes) \in Seq(Cells) /\ FlattenSeq(durations) \in Seq(Cells)
  BY <1>4, Flattened
<1>6. RenderHistogram(Admission) \in Seq(Cells) /\ <<ShedCell>> \in Seq(Cells)
  BY <1>2, CellsAre
<1>7. Rendered = FlattenSeq(outcomes) \o FlattenSeq(durations) \o RenderHistogram(Admission) \o <<ShedCell>>
  BY DEF Rendered
<1>. HIDE DEF outcomes, durations
<1>8. FlattenSeq(outcomes) \o FlattenSeq(durations) \o RenderHistogram(Admission) \in Seq(Cells)
  BY <1>5, <1>6
<1>. QED
  BY <1>6, <1>7, <1>8
-----------------------------------------------------------------------------
(* Records. *)

\* The amount beside a counter is what is left for it; there is none for one
\* that is not there.
LEMMA LeftIs ==
    ASSUME NEW s \in Seq(Cells \X Elapsed), Once(s)
    PROVE  /\ \A i \in DOMAIN s : LeftOf(s, s[i][1]) = s[i][2]
           /\ \A c : Without(s, c) => LeftOf(s, c) = 0
<1>1. ASSUME NEW i \in DOMAIN s PROVE LeftOf(s, s[i][1]) = s[i][2]
  <2>. DEFINE I == {j \in DOMAIN s : s[j][1] = s[i][1]}
  <2>1. I = {i}
    BY DEF Once
  <2>2. LeftOf(s, s[i][1]) = s[CHOOSE j \in I : TRUE][2]
    BY <2>1 DEF LeftOf
  <2>. QED
    BY <2>1, <2>2
<1>2. ASSUME NEW c, Without(s, c) PROVE LeftOf(s, c) = 0
  BY <1>2 DEF LeftOf, Without
<1>. QED
  BY <1>1, <1>2

\* What is left for a counter is a number.
LEMMA LeftType ==
    ASSUME NEW s \in Seq(Cells \X Elapsed), Once(s), NEW c
    PROVE  LeftOf(s, c) \in Nat
<1>1. CASE Without(s, c)
  BY <1>1, LeftIs
<1>2. ASSUME NEW i \in DOMAIN s, s[i][1] = c PROVE LeftOf(s, c) \in Nat
  <2>1. LeftOf(s, c) = s[i][2] /\ s[i] \in Cells \X Elapsed
    BY <1>2, LeftIs
  <2>. QED
    BY <2>1, MetricsAssumption DEF Elapsed
<1>. QED
  BY <1>1, <1>2 DEF Without

\* A fetch_add does its amount; the others are left.
LEMMA LeftTail ==
    ASSUME NEW s \in Seq(Cells \X Elapsed), Once(s), s # <<>>
    PROVE  /\ Tail(s) \in Seq(Cells \X Elapsed) /\ Once(Tail(s))
           /\ s[1] \in Cells \X Elapsed /\ LeftOf(s, s[1][1]) = s[1][2]
           /\ \A c : LeftOf(Tail(s), c) = IF c = s[1][1] THEN 0 ELSE LeftOf(s, c)
<1>1. /\ Len(s) \in Nat \ {0} /\ DOMAIN s = 1..Len(s) /\ 1 \in DOMAIN s
      /\ DOMAIN Tail(s) = 1..(Len(s) - 1)
      /\ \A i \in DOMAIN Tail(s) : i + 1 \in DOMAIN s /\ Tail(s)[i] = s[i + 1]
  OBVIOUS
<1>2. Tail(s) \in Seq(Cells \X Elapsed) /\ s[1] \in Cells \X Elapsed
  BY <1>1
<1>3. Once(Tail(s))
  BY <1>1 DEF Once
<1>4. LeftOf(s, s[1][1]) = s[1][2]
  BY <1>1, LeftIs
<1>5. LeftOf(Tail(s), s[1][1]) = 0
  <2>1. Without(Tail(s), s[1][1])
    BY <1>1 DEF Once, Without
  <2>. QED
    BY <1>2, <1>3, <2>1, LeftIs
<1>6. ASSUME NEW c, c # s[1][1] PROVE LeftOf(Tail(s), c) = LeftOf(s, c)
  <2>1. CASE Without(s, c)
    <3>1. Without(Tail(s), c)
      BY <1>1, <2>1 DEF Without
    <3>2. LeftOf(s, c) = 0
      BY <2>1, LeftIs
    <3>3. LeftOf(Tail(s), c) = 0
      BY <1>2, <1>3, <3>1, LeftIs
    <3>. QED
      BY <3>2, <3>3
  <2>2. ASSUME NEW i \in DOMAIN s, s[i][1] = c PROVE LeftOf(Tail(s), c) = LeftOf(s, c)
    <3>1. i - 1 \in DOMAIN Tail(s) /\ Tail(s)[i - 1] = s[i]
      <4>1. i # 1
        BY <1>6, <2>2
      <4>2. i - 1 \in DOMAIN Tail(s) /\ (i - 1) + 1 = i
        BY <1>1, <4>1
      <4>. QED
        BY <1>1, <4>2
    <3>2. LeftOf(Tail(s), Tail(s)[i - 1][1]) = Tail(s)[i - 1][2]
      BY <1>2, <1>3, <3>1, LeftIs
    <3>3. LeftOf(s, s[i][1]) = s[i][2]
      BY LeftIs
    <3>. QED
      BY <2>2, <3>1, <3>2, <3>3
  <2>. QED
    BY <2>1, <2>2 DEF Without
<1>. QED
  BY <1>2, <1>3, <1>4, <1>5, <1>6

\* A fetch_add more, to a counter that the others leave alone.
And(s, x, a) == Append(s, <<x, a>>)

LEMMA LeftAppend ==
    ASSUME NEW s \in Seq(Cells \X Elapsed), Once(s), NEW x \in Cells, NEW a \in Elapsed,
           Without(s, x)
    PROVE  /\ And(s, x, a) \in Seq(Cells \X Elapsed) /\ Once(And(s, x, a))
           /\ \A c : LeftOf(And(s, x, a), c) = IF c = x THEN a ELSE LeftOf(s, c)
<1>. DEFINE t == Append(s, <<x, a>>)
            l == Len(s) + 1
<1>1. /\ t \in Seq(Cells \X Elapsed) /\ Len(s) \in Nat /\ DOMAIN s = 1..Len(s)
      /\ DOMAIN t = 1..l /\ l \in DOMAIN t /\ t[l] = <<x, a>>
      /\ \A i \in DOMAIN s : i \in DOMAIN t /\ t[i] = s[i]
      /\ \A i \in DOMAIN t : i = l \/ i \in DOMAIN s
  OBVIOUS
<1>. HIDE DEF t, l
<1>2. Once(t)
  BY <1>1 DEF Once, Without
<1>3. LeftOf(t, x) = a
  <2>1. LeftOf(t, t[l][1]) = t[l][2]
    BY <1>1, <1>2, LeftIs
  <2>. QED
    BY <1>1, <2>1
<1>4. ASSUME NEW c, c # x PROVE LeftOf(t, c) = LeftOf(s, c)
  <2>1. CASE Without(s, c)
    <3>1. Without(t, c)
      BY <1>1, <1>4, <2>1 DEF Without
    <3>2. LeftOf(s, c) = 0
      BY <2>1, LeftIs
    <3>3. LeftOf(t, c) = 0
      BY <1>1, <1>2, <3>1, LeftIs
    <3>. QED
      BY <3>2, <3>3
  <2>2. ASSUME NEW i \in DOMAIN s, s[i][1] = c PROVE LeftOf(t, c) = LeftOf(s, c)
    <3>1. LeftOf(t, t[i][1]) = t[i][2] /\ LeftOf(s, s[i][1]) = s[i][2]
      BY <1>1, <1>2, LeftIs
    <3>. QED
      BY <1>1, <2>2, <3>1
  <2>. QED
    BY <2>1, <2>2 DEF Without
<1>. QED
  BY <1>1, <1>2, <1>3, <1>4 DEF t, And

\* Does c count durations.
OfDurations(c) == c[2] \in {"le", "count", "sum"}

\* A duration adds to the counters of its histogram, to each its amount.
LEMMA RecordIs ==
    ASSUME NEW h \in Routes \cup {Admission}, NEW d \in Elapsed
    PROVE  /\ Record(h, d) \in Seq(Cells \X Elapsed) /\ Once(Record(h, d))
           /\ \A i \in DOMAIN Record(h, d) :
                Record(h, d)[i][1][1] = h /\ OfDurations(Record(h, d)[i][1])
           /\ \A c \in Cells : LeftOf(Record(h, d), c) =
                IF c[1] = h /\ OfDurations(c) THEN Amount(c, d) ELSE 0
<1>. DEFINE n == BUCKETS - d + 1
            les == [i \in 1..n |-> <<<<h, "le", d + i - 1>>, 1>>]
            rest == << <<<<h, "count", 0>>, 1>>, <<<<h, "sum", 0>>, d>> >>
            R == Record(h, d)
<1>0. BUCKETS \in Nat /\ d \in 1..(BUCKETS + 1) /\ n \in Nat /\ 1 \in Elapsed
  BY MetricsAssumption DEF Elapsed
<1>1. les \in Seq(Cells \X Elapsed) /\ Len(les) = n
  <2>1. ASSUME NEW i \in 1..n PROVE <<h, "le", d + i - 1>> \in Cells
    <3>1. d + i - 1 \in 1..BUCKETS
      BY <1>0
    <3>. QED
      BY <3>1, CellsAre
  <2>2. les \in [1..n -> Cells \X Elapsed]
    BY <1>0, <2>1
  <2>. QED
    BY <1>0, <2>2
<1>2. /\ rest \in Seq(Cells \X Elapsed) /\ Len(rest) = 2
      /\ rest[1] = <<<<h, "count", 0>>, 1>> /\ rest[2] = <<<<h, "sum", 0>>, d>>
  BY <1>0, CellsAre
<1>3. R = les \o rest
  BY DEF Record
<1>4. /\ R \in Seq(Cells \X Elapsed) /\ Len(R) = n + 2 /\ DOMAIN R = 1..(n + 2)
      /\ \A i \in 1..n : R[i] = les[i]
      /\ R[n + 1] = rest[1] /\ R[n + 2] = rest[2]
  <2>. HIDE DEF les, rest, R, n
  <2>0. les \o rest \in Seq(Cells \X Elapsed)
    BY <1>1, <1>2
  <2>1. R \in Seq(Cells \X Elapsed) /\ Len(R) = Len(les) + Len(rest) /\ DOMAIN R = 1..Len(R)
    <3>1. R \in Seq(Cells \X Elapsed)
      BY <1>3, <2>0
    <3>2. les \in Seq(Cells \X Elapsed) /\ rest \in Seq(Cells \X Elapsed)
      BY <1>1, <1>2
    <3>3. Len(les \o rest) = Len(les) + Len(rest)
      BY <3>2
    <3>4. Len(R) = Len(les) + Len(rest)
      BY <1>3, <3>3
    <3>. QED
      BY <3>1, <3>4
  <2>2. \A i \in 1..Len(R) : R[i] = IF i <= Len(les) THEN les[i] ELSE rest[i - Len(les)]
    BY <1>1, <1>2, <1>3
  <2>3. n + 1 \in 1..(n + 2) /\ n + 2 \in 1..(n + 2) /\ ~(n + 1 <= n) /\ ~(n + 2 <= n)
        /\ (n + 1) - n = 1 /\ (n + 2) - n = 2 /\ \A i \in 1..n : i \in 1..(n + 2) /\ i <= n
    BY <1>0
  <2>4. Len(R) = n + 2
    BY <1>1, <1>2, <2>1
  <2>. QED
    BY <1>1, <2>1, <2>2, <2>3, <2>4
<1>5. /\ \A i \in 1..n : R[i] = <<<<h, "le", d + i - 1>>, 1>>
      /\ R[n + 1] = <<<<h, "count", 0>>, 1>> /\ R[n + 2] = <<<<h, "sum", 0>>, d>>
  <2>1. \A i \in 1..n : R[i] = les[i]
    BY <1>4
  <2>2. R[n + 1] = rest[1] /\ R[n + 2] = rest[2]
    BY <1>4
  <2>. HIDE DEF R, rest
  <2>3. R[n + 1] = <<<<h, "count", 0>>, 1>> /\ R[n + 2] = <<<<h, "sum", 0>>, d>>
    BY <1>2, <2>2
  <2>. QED
    BY <2>1, <2>3
<1>. HIDE DEF R
<1>6. \A i \in DOMAIN R : i \in 1..n \/ i = n + 1 \/ i = n + 2
  <2>1. DOMAIN R = 1..(n + 2)
    BY <1>4
  <2>. HIDE DEF n
  <2>. QED
    BY <1>0, <2>1
<1>7. Once(R)
  BY <1>0, <1>5, <1>6 DEF Once
<1>8. ASSUME NEW i \in DOMAIN R PROVE R[i][1][1] = h /\ OfDurations(R[i][1])
  BY <1>5, <1>6 DEF OfDurations
<1>9. ASSUME NEW c \in Cells, c[1] # h \/ ~OfDurations(c) PROVE LeftOf(R, c) = 0
  <2>1. Without(R, c)
    BY <1>8, <1>9 DEF Without
  <2>. QED
    BY <1>4, <1>7, <2>1, LeftIs
<1>10. ASSUME NEW c \in Cells, c[1] = h, OfDurations(c) PROVE LeftOf(R, c) = Amount(c, d)
  <2>1. CASE c = <<h, "le", c[3]>> /\ c[3] \in 1..BUCKETS /\ d <= c[3]
    <3>. PICK i \in 1..n : i = c[3] - d + 1
      BY <1>0, <2>1
    <3>1. R[i] = <<c, 1>> /\ i \in DOMAIN R
      <4>1. d + i - 1 = c[3] /\ i \in 1..(n + 2)
        BY <1>0, <2>1
      <4>2. R[i] = <<<<h, "le", d + i - 1>>, 1>>
        BY <1>5
      <4>. QED
        BY <1>4, <2>1, <4>1, <4>2
    <3>2. LeftOf(R, R[i][1]) = R[i][2]
      BY <1>4, <1>7, <3>1, LeftIs
    <3>3. LeftOf(R, c) = 1
      BY <3>1, <3>2
    <3>. QED
      BY <2>1, <3>3 DEF Amount
  <2>2. CASE c = <<h, "le", c[3]>> /\ c[3] \in 1..BUCKETS /\ ~(d <= c[3])
    <3>1. ASSUME NEW i \in DOMAIN R PROVE R[i][1] # c
      <4>1. CASE i \in 1..n
        <5>1. R[i][1][3] = d + i - 1 /\ d + i - 1 # c[3]
          BY <1>0, <1>5, <2>2, <4>1
        <5>. QED
          BY <5>1
      <4>2. CASE i = n + 1 \/ i = n + 2
        <5>1. R[i][1][2] # "le" /\ c[2] = "le"
          BY <1>5, <2>2, <4>2
        <5>. QED
          BY <5>1
      <4>. QED
        BY <1>6, <4>1, <4>2
    <3>2. LeftOf(R, c) = 0
      BY <1>4, <1>7, <3>1, LeftIs DEF Without
    <3>. QED
      BY <2>2, <3>2 DEF Amount
  <2>3. CASE c = <<h, "count", 0>>
    <3>1. R[n + 1] = <<c, 1>> /\ n + 1 \in DOMAIN R
      BY <1>0, <1>4, <1>5, <2>3
    <3>2. LeftOf(R, R[n + 1][1]) = R[n + 1][2]
      BY <1>4, <1>7, <3>1, LeftIs
    <3>3. LeftOf(R, c) = 1
      BY <3>1, <3>2
    <3>. QED
      BY <2>3, <3>3 DEF Amount
  <2>4. CASE c = <<h, "sum", 0>>
    <3>1. R[n + 2] = <<c, d>> /\ n + 2 \in DOMAIN R
      BY <1>0, <1>4, <1>5, <2>4
    <3>2. LeftOf(R, R[n + 2][1]) = R[n + 2][2]
      BY <1>4, <1>7, <3>1, LeftIs
    <3>3. LeftOf(R, c) = d
      BY <3>1, <3>2
    <3>. QED
      BY <2>4, <3>3 DEF Amount
  <2>5. c \notin OutcomeCells /\ c # ShedCell
    BY <1>10 DEF OutcomeCells, ShedCell, OfDurations
  <2>6. c[2] \notin {"ok", "error", "shed"}
    BY <1>10 DEF OfDurations
  <2>7. ShedCell[2] = "shed"
    BY DEF ShedCell
  <2>. QED
    BY <1>10, <2>1, <2>2, <2>3, <2>4, <2>6, <2>7, CellsAre
<1>. QED
  BY <1>4, <1>7, <1>8, <1>9, <1>10 DEF R
-----------------------------------------------------------------------------
(* What is due. *)

\* What the durations w add to counter c.
InAll(w, c) == AddUp([i \in DOMAIN w |-> Amount(c, w[i])])

\* The amount of a duration is a number.
LEMMA AmountType ==
    ASSUME NEW c \in Cells, OfDurations(c), NEW d \in Nat PROVE Amount(c, d) \in Nat
BY DEF OfDurations, Amount

\* A duration more adds its amount.
LEMMA InAllIs ==
    ASSUME NEW c \in Cells, OfDurations(c)
    PROVE  /\ InAll(<<>>, c) = 0
           /\ \A w \in Seq(Nat) : InAll(w, c) \in Nat
           /\ \A w \in Seq(Nat), d \in Nat : InAll(Append(w, d), c) = InAll(w, c) + Amount(c, d)
           /\ \A d \in Nat : InAll(<<d>>, c) = Amount(c, d)
<1>1. InAll(<<>>, c) = 0
  <2>1. DOMAIN [i \in DOMAIN <<>> |-> Amount(c, <<>>[i])] = {}
    OBVIOUS
  <2>. QED
    BY <2>1, AddUpEmpty DEF InAll
<1>2. ASSUME NEW w \in Seq(Nat)
      PROVE  /\ IsFiniteSet(DOMAIN w)
             /\ [i \in DOMAIN w |-> Amount(c, w[i])] \in [DOMAIN w -> Nat]
  <2>1. DOMAIN w = 1..Len(w) /\ Len(w) \in Int /\ 1 \in Int
    OBVIOUS
  <2>2. IsFiniteSet(1..Len(w))
    BY <2>1, FS_Interval
  <2>3. \A i \in DOMAIN w : w[i] \in Nat
    OBVIOUS
  <2>4. \A i \in DOMAIN w : Amount(c, w[i]) \in Nat
    BY <2>3, AmountType
  <2>. QED
    BY <2>1, <2>2, <2>4
<1>3. ASSUME NEW w \in Seq(Nat) PROVE InAll(w, c) \in Nat
  BY <1>2, AddUpType DEF InAll
<1>4. ASSUME NEW w \in Seq(Nat), NEW d \in Nat
      PROVE  InAll(Append(w, d), c) = InAll(w, c) + Amount(c, d)
  <2>. DEFINE D == DOMAIN w
              n == Len(w) + 1
              v == Append(w, d)
              f == [i \in D |-> Amount(c, w[i])]
              g == [i \in DOMAIN v |-> Amount(c, v[i])]
  <2>1. /\ v \in Seq(Nat) /\ DOMAIN v = D \cup {n} /\ n \notin D /\ v[n] = d
        /\ \A i \in D : v[i] = w[i] /\ i \in DOMAIN v
    OBVIOUS
  <2>2. f \in [D -> Nat] /\ IsFiniteSet(D)
    BY <1>2
  <2>3. g \in [DOMAIN v -> Nat]
    BY <1>2, <2>1
  <2>4. g[n] = 0 + Amount(c, d) /\ Amount(c, d) \in Nat
    <3>1. Amount(c, d) \in Nat
      BY AmountType
    <3>2. n \in DOMAIN v /\ v[n] = d
      BY <2>1
    <3>3. g[n] = Amount(c, d)
      BY <3>2
    <3>. QED
      BY <3>1, <3>3
  <2>5. \A i \in D \ {n} : g[i] = f[i]
    BY <2>1
  <2>6. InAll(v, c) = AddUp(g) /\ InAll(w, c) = AddUp(f)
    BY DEF InAll
  <2>. HIDE DEF D, n, v, f, g
  <2>7. n \notin D /\ Agree(D, f, n, g)
    BY <2>1, <2>2, <2>3, <2>5 DEF Agree
  <2>8. AddUp(g) = AddUp(f) + g[n]
    BY <2>7, AddUpNew
  <2>. QED
    BY <2>4, <2>6, <2>8 DEF v
<1>5. ASSUME NEW d \in Nat PROVE InAll(<<d>>, c) = Amount(c, d)
  <2>1. <<>> \in Seq(Nat) /\ Append(<<>>, d) = <<d>>
    OBVIOUS
  <2>2. InAll(<<d>>, c) = InAll(<<>>, c) + Amount(c, d)
    BY <1>4, <2>1
  <2>. QED
    BY <1>1, <2>2, AmountType
<1>. QED
  BY <1>1, <1>3, <1>4, <1>5

\* Which counters there are of a kind.
LEMMA CellKinds ==
    ASSUME NEW c \in Cells
    PROVE  \/ OfDurations(c) /\ c[1] \in Routes \cup {Admission} /\ c # ShedCell
              /\ c[2] \notin {"ok", "error", "shed"}
           \/ c[2] = "ok" /\ c[1] \in Routes /\ c # ShedCell /\ c = <<c[1], "ok", 0>>
           \/ c[2] = "error" /\ c[1] \in Routes /\ c # ShedCell /\ c = <<c[1], "error", 0>>
           \/ c = ShedCell /\ c[2] = "shed"
<1>1. ShedCell[2] = "shed"
  BY DEF ShedCell
<1>2. CASE c[1] \in Routes \cup {Admission} /\ c = <<c[1], "le", c[3]>>
  <2>1. c[2] = "le"
    BY <1>2
  <2>. QED
    BY <1>1, <1>2, <2>1 DEF OfDurations
<1>3. CASE c[1] \in Routes \cup {Admission} /\ c = <<c[1], "count", 0>>
  <2>1. c[2] = "count"
    BY <1>3
  <2>. QED
    BY <1>1, <1>3, <2>1 DEF OfDurations
<1>4. CASE c[1] \in Routes \cup {Admission} /\ c = <<c[1], "sum", 0>>
  <2>1. c[2] = "sum"
    BY <1>4
  <2>. QED
    BY <1>1, <1>4, <2>1 DEF OfDurations
<1>5. CASE c[1] \in Routes /\ c = <<c[1], "ok", 0>>
  <2>1. c[2] = "ok"
    BY <1>5
  <2>. QED
    BY <1>1, <1>5, <2>1
<1>6. CASE c[1] \in Routes /\ c = <<c[1], "error", 0>>
  <2>1. c[2] = "error"
    BY <1>6
  <2>. QED
    BY <1>1, <1>6, <2>1
<1>. QED
  BY <1>1, <1>2, <1>3, <1>4, <1>5, <1>6, CellsAre

\* What is due from a request that is at p, on route q, has waited w, took d and
\* was answered o.
DueAs(p, q, w, d, o, c) ==
    LET durations == IF c[1] = Admission THEN w
                     ELSE IF q = c[1] /\ o # "none" THEN <<d>> ELSE <<>>
        isAnswered == q = c[1] /\ o # "none"
    IN  CASE c[2] = "ok"    -> IF isAnswered /\ o = "ok" THEN 1 ELSE 0
          [] c[2] = "error" -> IF isAnswered /\ o # "ok" THEN 1 ELSE 0
          [] c[2] = "shed"  -> IF o = "shed" \/ p = "shed" THEN 1 ELSE 0
          [] OTHER -> AddUp([i \in DOMAIN durations |-> Amount(c, durations[i])])

\* What is due depends on the request alone.
LEMMA DueValue ==
    ASSUME NEW r, NEW c
    PROVE  /\ Due(r, c) = DueAs(pc[r], route[r], waits[r], took[r], answer[r], c)
           /\ Due(r, c)' = DueAs(pc'[r], route'[r], waits'[r], took'[r], answer'[r], c)
BY DEF Due, Durations, WasShed, DueAs

\* What is due is a number.
LEMMA DueType ==
    ASSUME Shapes, NEW r \in Requests, NEW c \in Cells PROVE Due(r, c) \in Nat
<1>1. Elapsed \subseteq Nat
  BY MetricsAssumption DEF Elapsed
<1>2. waits[r] \in Seq(Nat) /\ <<took[r]>> \in Seq(Nat)
  <2>. PICK w \in Seq(Elapsed), d \in {0} \cup Elapsed : w = waits[r] /\ d = took[r]
    BY DEF Shapes
  <2>. HIDE DEF Elapsed
  <2>1. w \in Seq(Nat)
    BY <1>1
  <2>2. d \in Nat
    BY <1>1
  <2>. QED
    BY <2>1, <2>2
<1>3. PICK x : x = DueAs(pc[r], route[r], waits[r], took[r], answer[r], c)
  OBVIOUS
<1>4. CASE OfDurations(c)
  <2>1. c[2] \notin {"ok", "error", "shed"}
    BY <1>4 DEF OfDurations
  <2>2. InAll(waits[r], c) \in Nat /\ InAll(<<took[r]>>, c) \in Nat /\ InAll(<<>>, c) = 0
    BY <1>2, <1>4, InAllIs
  <2>3. x = InAll(waits[r], c) \/ x = InAll(<<took[r]>>, c) \/ x = InAll(<<>>, c)
    BY <1>3, <2>1 DEF DueAs, InAll
  <2>. QED
    BY <1>3, <2>2, <2>3, DueValue
<1>5. CASE c[2] \in {"ok", "error", "shed"}
  <2>1. x \in {0, 1}
    BY <1>3, <1>5 DEF DueAs
  <2>. QED
    BY <1>3, <2>1, DueValue
<1>. QED
  BY <1>4, <1>5, CellKinds
-----------------------------------------------------------------------------
(* The books. *)

\* What has been added is a number, and no more than what is due.
LEMMA AddedType ==
    ASSUME Shapes, Books, NEW r \in Requests, Once(todo[r]), NEW c \in Cells
    PROVE  Added(r, c) \in Nat /\ Added(r, c) <= Due(r, c) /\ Due(r, c) \in Nat
<1>1. todo[r] \in Seq(Cells \X Elapsed)
  BY DEF Shapes
<1>2. LeftOf(todo[r], c) \in Nat /\ Due(r, c) \in Nat
  BY <1>1, LeftType, DueType
<1>3. LeftOf(todo[r], c) <= Due(r, c)
  BY DEF Books
<1>. QED
  BY <1>2, <1>3 DEF Added

\* Nothing is left of nothing.
LEMMA NothingLeft ==
    /\ <<>> \in Seq(Cells \X Elapsed) /\ Once(<<>>) /\ \A c : LeftOf(<<>>, c) = 0
<1>1. <<>> \in Seq(Cells \X Elapsed) /\ Once(<<>>) /\ \A c : Without(<<>>, c)
  BY DEF Once, Without
<1>. QED
  BY <1>1, LeftIs

\* A counter has all of the requests that have nothing left to add, and no
\* more than what is due.
LEMMA CounterBetween ==
    ASSUME Shapes, Books, \A r \in Requests : Position(r),
           NEW S \in SUBSET Requests, \A r \in S : todo[r] = <<>>, NEW c \in Cells
    PROVE  Total(S, c) <= counter[c] /\ counter[c] <= Total(Requests, c)
<1>. DEFINE due == [r \in Requests |-> Due(r, c)]
            added == [r \in Requests |-> Added(r, c)]
            of == [r \in S |-> Due(r, c)]
<1>1. \A r \in Requests : Added(r, c) \in Nat /\ Added(r, c) <= Due(r, c) /\ Due(r, c) \in Nat
  BY AddedType DEF Position
<1>2. \A r \in S : Added(r, c) = Due(r, c)
  BY <1>1, NothingLeft DEF Added
<1>3. due \in [Requests -> Nat] /\ added \in [Requests -> Nat] /\ of \in [S -> Nat]
  BY <1>1
<1>4. (\A r \in Requests : added[r] <= due[r]) /\ (\A r \in S : of[r] <= added[r])
  BY <1>1, <1>2
<1>5. counter[c] = AddUp(added) /\ Total(S, c) = AddUp(of) /\ Total(Requests, c) = AddUp(due)
  BY DEF Books, Total
<1>6. IsFiniteSet(Requests)
  BY MetricsAssumption
<1>. HIDE DEF due, added, of
<1>7. AddUp(added) <= AddUp(due)
  BY <1>3, <1>4, <1>6, AddUpMonotone
<1>8. AddUp(of) <= AddUp(added)
  BY <1>3, <1>4, <1>6, AddUpMonotone
<1>. QED
  BY <1>5, <1>7, <1>8
-----------------------------------------------------------------------------
(* What a step changes. *)

\* Only r may change.
Others(r) ==
    \A x \in Requests \ {r} :
        /\ pc'[x] = pc[x] /\ route'[x] = route[x] /\ waits'[x] = waits[x]
        /\ took'[x] = took[x] /\ answer'[x] = answer[x] /\ todo'[x] = todo[x]

\* What is due from a request depends on it alone; as long as it is not
\* answered, on its waits and on whether it is shed.
LEMMA DueUnmoved ==
    ASSUME NEW x, NEW c \in Cells,
           pc'[x] = "shed" <=> pc[x] = "shed", waits'[x] = waits[x], answer'[x] = answer[x],
           answer[x] = "none" \/ (route'[x] = route[x] /\ took'[x] = took[x])
    PROVE  Due(x, c)' = Due(x, c)
<1>1. (Durations(x, c[1]))' = Durations(x, c[1])
  BY DEF Durations
<1>2. (WasShed(x)' <=> WasShed(x))
  BY DEF WasShed
<1>3. (route[x] = c[1] /\ answer[x] # "none")' <=> (route[x] = c[1] /\ answer[x] # "none")
  OBVIOUS
<1>. QED
  BY <1>1, <1>2, <1>3 DEF Due

LEMMA DueSame ==
    ASSUME NEW x, NEW c \in Cells,
           pc'[x] = pc[x], route'[x] = route[x], waits'[x] = waits[x],
           took'[x] = took[x], answer'[x] = answer[x]
    PROVE  Due(x, c)' = Due(x, c)
BY DueUnmoved

\* What is left depends on what it has begun.
LEMMA LeftSame ==
    ASSUME NEW x, NEW t, todo'[x] = t
    PROVE  (\A c : LeftOf(todo[x], c)' = LeftOf(t, c)) /\ (Once(todo[x])' <=> Once(t))
BY DEF LeftOf, Once

\* So does where it is.
LEMMA PositionSame ==
    ASSUME NEW x, Position(x),
           pc'[x] = pc[x], waits'[x] = waits[x],
           took'[x] = took[x], answer'[x] = answer[x], todo'[x] = todo[x]
    PROVE  Position(x)'
<1>1. Once(todo[x])'
  BY DEF Position, Once
<1>. QED
  BY <1>1 DEF Position

\* The totals of a scrape in progress, when what is due from who had ended
\* stays and what is due from the others does not shrink.
LEMMA ScrapeKept ==
    ASSUME Shapes, ScrapeBetween, UNCHANGED scrape,
           \A x \in before : \A c \in Cells : Due(x, c)' = Due(x, c),
           \A x \in Requests : \A c \in Cells : Due(x, c)' \in Nat /\ Due(x, c) <= Due(x, c)'
    PROVE  ScrapeBetween'
<1>. SUFFICES ASSUME loaded > 0
     PROVE  /\ Total(before, Rendered[loaded])' <= shown
            /\ shown <= Total(Requests, Rendered[loaded])'
  BY DEF ScrapeBetween, scrape
<1>. PICK c \in Cells : c = Rendered[loaded]
  <2>1. loaded \in 1..Len(Rendered)
    BY RenderedAre DEF Shapes
  <2>. QED
    BY <2>1, RenderedAre
<1>1. Total(before, c) <= shown /\ shown <= Total(Requests, c) /\ shown \in Nat
  BY DEF ScrapeBetween, Shapes
<1>2. Rendered[loaded]' = c
  BY DEF scrape, Rendered, RenderOutcomes, RenderHistogram, ShedCell
<1>. DEFINE f == [x \in Requests |-> Due(x, c)]
            g == [x \in Requests |-> Due(x, c)']
<1>3. (Total(before, Rendered[loaded]))' = Total(before, c)
  <2>1. (Total(before, Rendered[loaded]))' = AddUp([x \in before |-> Due(x, c)'])
    BY <1>2 DEF Total, scrape
  <2>2. [x \in before |-> Due(x, c)'] = [x \in before |-> Due(x, c)]
    OBVIOUS
  <2>. QED
    BY <2>1, <2>2 DEF Total
<1>4. Total(Requests, c) = AddUp(f)
  BY DEF Total
<1>5. (Total(Requests, Rendered[loaded]))' = AddUp(g)
  BY <1>2 DEF Total
<1>6. f \in [Requests -> Nat]
  BY DueType
<1>7. g \in [Requests -> Nat] /\ \A x \in Requests : f[x] <= g[x]
  OBVIOUS
<1>8. AddUp(f) <= AddUp(g) /\ AddUp(f) \in Nat /\ AddUp(g) \in Nat
  <2>. HIDE DEF f, g
  <2>. QED
    BY <1>6, <1>7, MetricsAssumption, AddUpMonotone, AddUpType
<1>. QED
  BY <1>1, <1>3, <1>4, <1>5, <1>8

\* A step of a request that had nothing left to add keeps the invariant, when
\* what it begins to add is what becomes due.
LEMMA RequestStep ==
    ASSUME IInv, NEW r \in Requests, Shapes', Others(r), UNCHANGED <<counter, scrape>>,
           ~Ended(r), todo[r] = <<>>, Position(r)',
           \A c \in Cells : Due(r, c)' = Due(r, c) + LeftOf(todo'[r], c)
    PROVE  IInv'
<1>. PICK s \in Seq(Cells \X Elapsed) : s = todo'[r] /\ Once(s)
  <2>1. todo'[r] \in Seq(Cells \X Elapsed)
    BY DEF Shapes
  <2>2. Once(todo'[r])
    BY DEF Position, Once
  <2>. QED
    BY <2>1, <2>2
<1>1. Shapes /\ Books /\ ScrapeBetween /\ \A x \in Requests : Position(x)
  BY DEF IInv
<1>2. ASSUME NEW x \in Requests, x # r, NEW c \in Cells
      PROVE  Due(x, c)' = Due(x, c) /\ LeftOf(todo[x], c)' = LeftOf(todo[x], c)
  <2>1. Due(x, c)' = Due(x, c)
    BY <1>2, DueSame DEF Others
  <2>2. todo'[x] = todo[x]
    BY <1>2 DEF Others
  <2>. QED
    BY <2>1, <2>2, LeftSame
<1>3. ASSUME NEW c \in Cells
      PROVE  /\ Due(r, c)' = Due(r, c) + LeftOf(s, c) /\ LeftOf(s, c) \in Nat
             /\ LeftOf(todo[r], c)' = LeftOf(s, c) /\ LeftOf(todo[r], c) = 0
  <2>1. LeftOf(s, c) \in Nat /\ LeftOf(todo[r], c) = 0
    BY LeftType, NothingLeft
  <2>2. LeftOf(todo[r], c)' = LeftOf(s, c)
    BY DEF LeftOf
  <2>. QED
    BY <2>1, <2>2
<1>4. ASSUME NEW x \in Requests, NEW c \in Cells
      PROVE  /\ Due(x, c)' \in Nat /\ Due(x, c) <= Due(x, c)'
             /\ LeftOf(todo[x], c)' <= Due(x, c)'
             /\ Added(x, c)' = Added(x, c)
  <2>1. Due(x, c) \in Nat /\ LeftOf(todo[x], c) <= Due(x, c)
    BY <1>1, DueType DEF Books
  <2>2. CASE x # r
    BY <1>2, <2>1, <2>2 DEF Added
  <2>3. CASE x = r
    BY <1>3, <2>1, <2>3 DEF Added
  <2>. QED
    BY <2>2, <2>3
<1>5. Books'
  <2>. SUFFICES ASSUME NEW c \in Cells
       PROVE  counter'[c] = AddUp([x \in Requests |-> Added(x, c)'])
    BY <1>4 DEF Books
  <2>1. [x \in Requests |-> Added(x, c)'] = [x \in Requests |-> Added(x, c)]
    BY <1>4
  <2>. QED
    BY <1>1, <2>1 DEF Books
<1>6. \A x \in Requests : Position(x)'
  <2>. SUFFICES ASSUME NEW x \in Requests, x # r PROVE Position(x)'
    OBVIOUS
  <2>. QED
    <3>1. Position(x)
      BY <1>1
    <3>2. /\ pc'[x] = pc[x] /\ waits'[x] = waits[x] /\ took'[x] = took[x]
          /\ answer'[x] = answer[x] /\ todo'[x] = todo[x]
      BY DEF Others
    <3>. QED
      BY <3>1, <3>2, PositionSame
<1>7. \A x \in before : x \in Requests /\ x # r
  BY <1>1 DEF IInv, Shapes
<1>8. ScrapeBetween'
  <2>1. \A x \in before : \A c \in Cells : Due(x, c)' = Due(x, c)
    BY <1>2, <1>7
  <2>. QED
    BY <1>1, <1>4, <2>1, ScrapeKept
<1>9. (\A x \in before : Ended(x))'
  <2>1. \A x \in before : pc'[x] = pc[x]
    BY <1>7 DEF Others
  <2>. QED
    BY <2>1 DEF IInv, Ended, scrape
<1>. QED
  BY <1>5, <1>6, <1>8, <1>9 DEF IInv

\* A fetch_add does what was left to do.
LEMMA AddStep ==
    ASSUME IInv, NEW r \in Requests, Add(r) PROVE IInv'
<1>1. Shapes /\ Books /\ ScrapeBetween /\ \A x \in Requests : Position(x)
  BY DEF IInv
<1>. PICK s \in Seq(Cells \X Elapsed) : s = todo[r] /\ Once(s) /\ s # <<>>
  BY <1>1 DEF Shapes, Position, Add
<1>. PICK k \in Cells, a \in Elapsed : s[1] = <<k, a>>
  BY LeftTail
<1>2. Elapsed \subseteq Nat
  BY MetricsAssumption DEF Elapsed
<1>3. /\ Tail(s) \in Seq(Cells \X Elapsed) /\ Once(Tail(s)) /\ LeftOf(s, k) = a
      /\ \A c \in Cells : LeftOf(Tail(s), c) = IF c = k THEN 0 ELSE LeftOf(s, c)
  BY LeftTail
<1>4. /\ counter' = [counter EXCEPT ![k] = @ + a] /\ todo' = [todo EXCEPT ![r] = Tail(s)]
      /\ UNCHANGED request /\ UNCHANGED scrape
  BY DEF Add
<1>5. /\ counter \in [Cells -> Nat] /\ counter' \in [Cells -> Nat] /\ counter'[k] = counter[k] + a
      /\ \A c \in Cells \ {k} : counter'[c] = counter[c]
  BY <1>1, <1>2, <1>4 DEF Shapes
<1>6. /\ todo' \in [Requests -> Seq(Cells \X Elapsed)] /\ todo'[r] = Tail(s)
      /\ \A x \in Requests \ {r} : todo'[x] = todo[x]
  BY <1>1, <1>3, <1>4 DEF Shapes
<1>7. Shapes'
  BY <1>1, <1>4, <1>5, <1>6 DEF Shapes, request, scrape, Rendered, RenderOutcomes,
     RenderHistogram, ShedCell, Cells, HistogramCells, OutcomeCells, Elapsed
<1>8. \A x \in Requests, c \in Cells : Due(x, c)' = Due(x, c)
  <2>. SUFFICES ASSUME NEW x \in Requests, NEW c \in Cells PROVE Due(x, c)' = Due(x, c)
    OBVIOUS
  <2>. QED
    BY <1>4, DueSame DEF request
<1>9. ASSUME NEW x \in Requests, NEW c \in Cells
      PROVE  LeftOf(todo[x], c)' = IF x = r /\ c = k THEN 0 ELSE LeftOf(todo[x], c)
  <2>1. CASE x = r
    <3>1. LeftOf(todo[x], c)' = LeftOf(Tail(s), c)
      <4>1. todo'[x] = Tail(s)
        BY <1>6, <2>1
      <4>. QED
        BY <4>1, LeftSame
    <3>2. LeftOf(todo[x], c) = LeftOf(s, c)
      BY <2>1
    <3>3. LeftOf(Tail(s), c) = IF c = k THEN 0 ELSE LeftOf(s, c)
      BY <1>3
    <3>. QED
      BY <2>1, <3>1, <3>2, <3>3
  <2>2. CASE x # r
    <3>1. todo'[x] = todo[x]
      BY <1>6, <2>2
    <3>. QED
      BY <2>2, <3>1, LeftSame
  <2>. QED
    BY <2>1, <2>2
<1>10. ASSUME NEW x \in Requests, NEW c \in Cells
       PROVE  /\ LeftOf(todo[x], c)' <= Due(x, c)'
              /\ Added(x, c) \in Nat
              /\ Added(x, c)' = IF x = r /\ c = k THEN Added(x, c) + a ELSE Added(x, c)
  <2>1. Added(x, c) \in Nat /\ Due(x, c) \in Nat
    BY <1>1, AddedType DEF Position
  <2>2. LeftOf(todo[x], c) <= Due(x, c) /\ LeftOf(todo[x], c) \in Nat
    <3>1. todo[x] \in Seq(Cells \X Elapsed) /\ Once(todo[x])
      BY <1>1 DEF Shapes, Position
    <3>. QED
      BY <1>1, <3>1, LeftType DEF Books
  <2>3. LeftOf(todo[r], k) = a
    BY <1>3
  <2>4. Added(x, c)' = Due(x, c) - (LeftOf(todo[x], c)')
    BY <1>8 DEF Added
  <2>. QED
    BY <1>2, <1>8, <1>9, <2>1, <2>2, <2>3, <2>4 DEF Added
<1>11. Books'
  <2>. SUFFICES ASSUME NEW c \in Cells
       PROVE  counter'[c] = AddUp([x \in Requests |-> Added(x, c)'])
    BY <1>10 DEF Books
  <2>. DEFINE f == [x \in Requests |-> Added(x, c)]
              g == [x \in Requests |-> Added(x, c)']
  <2>1. counter[c] = AddUp(f)
    BY <1>1 DEF Books
  <2>2. CASE c # k
    <3>1. f = g
      BY <1>10, <2>2
    <3>. QED
      BY <1>5, <2>1, <2>2, <3>1
  <2>3. CASE c = k
    <3>1. f \in [Requests -> Nat] /\ g \in [Requests -> Nat] /\ g[r] = f[r] + a
          /\ \A x \in Requests \ {r} : g[x] = f[x]
      BY <1>2, <1>10, <2>3
    <3>2. Requests = Requests \cup {r} /\ IsFiniteSet(Requests) /\ a \in Nat
      BY <1>2, MetricsAssumption
    <3>. HIDE DEF f, g
    <3>3. Agree(Requests, f, r, g)
      BY <3>1, <3>2 DEF Agree
    <3>4. AddUp(g) = AddUp(f) + a
      BY <3>1, <3>2, <3>3, AddUpMore
    <3>. QED
      BY <1>5, <2>1, <2>3, <3>4 DEF g
  <2>. QED
    BY <2>2, <2>3
<1>12. \A x \in Requests : Position(x)'
  <2>. SUFFICES ASSUME NEW x \in Requests PROVE Position(x)'
    OBVIOUS
  <2>1. CASE x # r
    BY <1>1, <1>4, <1>6, <2>1, PositionSame DEF request
  <2>2. CASE x = r
    <3>1. Once(todo[x])'
      <4>1. todo'[x] = Tail(s) /\ Once(Tail(s))
        BY <1>3, <1>6, <2>2
      <4>. QED
        BY <4>1, LeftSame
    <3>2. pc[x] \notin {"idle", "done", "gone"}
      BY <1>1, <2>2 DEF Position
    <3>. QED
      BY <1>1, <1>4, <3>1, <3>2 DEF Position, request
  <2>. QED
    BY <2>1, <2>2
<1>13. ScrapeBetween'
  <2>1. \A x \in before : x \in Requests
    BY <1>1 DEF Shapes
  <2>2. \A x \in before : \A c \in Cells : Due(x, c)' = Due(x, c)
    BY <1>8, <2>1
  <2>3. \A x \in Requests : \A c \in Cells : Due(x, c)' \in Nat /\ Due(x, c) <= Due(x, c)'
    <3>1. \A x \in Requests, c \in Cells : Due(x, c) \in Nat
      BY <1>1, DueType
    <3>. QED
      BY <1>8, <3>1
  <2>. QED
    BY <1>1, <1>4, <2>2, <2>3, ScrapeKept
<1>14. (\A x \in before : Ended(x))'
  BY <1>4 DEF IInv, Ended, scrape, request
<1>. QED
  BY <1>7, <1>11, <1>12, <1>13, <1>14 DEF IInv
-----------------------------------------------------------------------------
(* The steps of a request. *)

\* What a step makes of r.
Becomes(r, l, q, w, d, o, s) ==
    /\ l \in Labels /\ pc' = [pc EXCEPT ![r] = l]
    /\ q \in Routes \cup {Other} /\ route' = [route EXCEPT ![r] = q]
    /\ w \in Seq(Elapsed) /\ waits' = [waits EXCEPT ![r] = w]
    /\ d \in {0} \cup Elapsed /\ took' = [took EXCEPT ![r] = d]
    /\ o \in {"none", "ok", "error", "shed"} /\ answer' = [answer EXCEPT ![r] = o]
    /\ s \in Seq(Cells \X Elapsed) /\ todo' = [todo EXCEPT ![r] = s]

\* The types after a step.
LEMMA ShapesKept ==
    ASSUME Shapes, UNCHANGED <<counter, scrape>>, NEW r \in Requests,
           NEW l, NEW q, NEW w, NEW d, NEW o, NEW s, Becomes(r, l, q, w, d, o, s)
    PROVE  /\ Shapes' /\ Others(r)
           /\ pc'[r] = l /\ route'[r] = q /\ waits'[r] = w /\ took'[r] = d /\ answer'[r] = o
           /\ todo'[r] = s
<1>1. /\ pc' \in [Requests -> Labels] /\ pc'[r] = l
      /\ \A x \in Requests \ {r} : pc'[x] = pc[x]
  BY DEF Shapes, Becomes
<1>2. /\ route' \in [Requests -> Routes \cup {Other}] /\ route'[r] = q
      /\ \A x \in Requests \ {r} : route'[x] = route[x]
  BY DEF Shapes, Becomes
<1>3. /\ waits' \in [Requests -> Seq(Elapsed)] /\ waits'[r] = w
      /\ \A x \in Requests \ {r} : waits'[x] = waits[x]
  BY DEF Shapes, Becomes
<1>4. /\ took' \in [Requests -> {0} \cup Elapsed] /\ took'[r] = d
      /\ \A x \in Requests \ {r} : took'[x] = took[x]
  BY DEF Shapes, Becomes
<1>5. /\ answer' \in [Requests -> {"none", "ok", "error", "shed"}] /\ answer'[r] = o
      /\ \A x \in Requests \ {r} : answer'[x] = answer[x]
  BY DEF Shapes, Becomes
<1>6. /\ todo' \in [Requests -> Seq(Cells \X Elapsed)] /\ todo'[r] = s
      /\ \A x \in Requests \ {r} : todo'[x] = todo[x]
  BY DEF Shapes, Becomes
<1>7. Rendered' = Rendered /\ Cells' = Cells /\ Elapsed' = Elapsed /\ Labels' = Labels
  BY DEF Rendered, RenderOutcomes, RenderHistogram, ShedCell, Cells, HistogramCells,
     OutcomeCells, Elapsed, Labels
<1>8. /\ counter' \in [Cells -> Nat] /\ loaded' \in 0..Len(Rendered) /\ shown' \in Nat
      /\ before' \subseteq Requests
  BY DEF Shapes, scrape
<1>9. Shapes'
  BY <1>1, <1>2, <1>3, <1>4, <1>5, <1>6, <1>7, <1>8 DEF Shapes
<1>10. Others(r)
  BY <1>1, <1>2, <1>3, <1>4, <1>5, <1>6 DEF Others
<1>. QED
  BY <1>1, <1>2, <1>3, <1>4, <1>5, <1>6, <1>9, <1>10

\* Nothing is recorded when a request arrives, leases its entry, is replied to
\* or is dropped.
LEMMA MoveStep ==
    ASSUME IInv, NEW r \in Requests, NEW from \in Labels, NEW to \in Labels,
           Goes(r, from, to), UNCHANGED <<waits, took, answer, todo, counter, scrape>>,
           NEW q \in Routes \cup {Other}, route' = [route EXCEPT ![r] = q],
           q = route[r] \/ from = "idle",
           \/ from = "idle" /\ to = "start"
           \/ from = "start" /\ to = "tenant"
           \/ from = "reply" /\ to = "done"
           \/ from \in {"start", "tenant", "process", "handler"} /\ to = "gone"
    PROVE  IInv'
<1>1. Shapes /\ Position(r)
  BY DEF IInv
<1>2. pc[r] = from /\ todo[r] = <<>> /\ pc' = [pc EXCEPT ![r] = to]
  BY DEF Goes
<1>. PICK w \in Seq(Elapsed), d \in {0} \cup Elapsed, o \in {"none", "ok", "error", "shed"},
          s \in Seq(Cells \X Elapsed) :
          w = waits[r] /\ d = took[r] /\ o = answer[r] /\ s = todo[r]
  BY <1>1 DEF Shapes
<1>3. /\ waits' = [waits EXCEPT ![r] = w] /\ took' = [took EXCEPT ![r] = d]
      /\ answer' = [answer EXCEPT ![r] = o] /\ todo' = [todo EXCEPT ![r] = s]
  <2>1. waits = [waits EXCEPT ![r] = waits[r]] /\ took = [took EXCEPT ![r] = took[r]]
    BY <1>1 DEF Shapes
  <2>2. answer = [answer EXCEPT ![r] = answer[r]] /\ todo = [todo EXCEPT ![r] = todo[r]]
    BY <1>1 DEF Shapes
  <2>. QED
    BY <2>1, <2>2
<1>4. /\ Shapes' /\ Others(r) /\ pc'[r] = to /\ route'[r] = q
      /\ waits'[r] = w /\ took'[r] = d /\ answer'[r] = o /\ todo'[r] = s
  <2>1. Becomes(r, to, q, w, d, o, s)
    BY <1>2, <1>3 DEF Becomes
  <2>. QED
    BY <1>1, <2>1, ShapesKept
<1>5. Once(todo[r])'
  BY <1>2, <1>4, LeftSame, NothingLeft
<1>6. Position(r)'
  BY <1>1, <1>2, <1>4, <1>5 DEF Position
<1>7. ASSUME NEW c \in Cells PROVE Due(r, c)' = Due(r, c) + LeftOf(todo'[r], c)
  <2>1. answer[r] = "none" \/ (route'[r] = route[r] /\ took'[r] = took[r])
    BY <1>1, <1>2, <1>4 DEF Position
  <2>2. Due(r, c)' = Due(r, c)
    BY <1>2, <1>4, <2>1, DueUnmoved
  <2>3. LeftOf(todo'[r], c) = 0 /\ Due(r, c) \in Nat
    BY <1>1, <1>2, <1>4, NothingLeft, DueType
  <2>. QED
    BY <2>2, <2>3
<1>8. ~Ended(r)
  BY <1>2 DEF Ended
<1>. QED
  BY <1>2, <1>4, <1>6, <1>7, <1>8, RequestStep

\* What wait_for_slot() and acquire() record.
WaitRecord(d, served) ==
    Record(Admission, d) \o IF served THEN <<>> ELSE << <<ShedCell, 1>> >>
ByWait(d, served, c) ==
    IF c = ShedCell THEN IF served THEN 0 ELSE 1
    ELSE IF c[1] = Admission /\ OfDurations(c) THEN Amount(c, d) ELSE 0

LEMMA WaitRecordIs ==
    ASSUME NEW d \in Elapsed, NEW served \in BOOLEAN
    PROVE  /\ WaitRecord(d, served) \in Seq(Cells \X Elapsed) /\ Once(WaitRecord(d, served))
           /\ \A c \in Cells : LeftOf(WaitRecord(d, served), c) = ByWait(d, served, c)
<1>. DEFINE R == Record(Admission, d)
<1>1. R \in Seq(Cells \X Elapsed) /\ Once(R) /\ \A i \in DOMAIN R : OfDurations(R[i][1])
  BY RecordIs
<1>2. \A c \in Cells : LeftOf(R, c) = IF c[1] = Admission /\ OfDurations(c) THEN Amount(c, d) ELSE 0
  BY RecordIs
<1>3. ~OfDurations(ShedCell) /\ ShedCell \in Cells /\ 1 \in Elapsed
  BY CellsAre, MetricsAssumption DEF OfDurations, ShedCell, Elapsed
<1>4. CASE served
  <2>1. WaitRecord(d, served) = R \o <<>>
    BY <1>4 DEF WaitRecord
  <2>. HIDE DEF R
  <2>2. WaitRecord(d, served) = R
    BY <1>1, <2>1
  <2>. QED
    BY <1>1, <1>2, <1>3, <1>4, <2>2 DEF ByWait
<1>5. CASE ~served
  <2>1. WaitRecord(d, served) = R \o << <<ShedCell, 1>> >>
    BY <1>5 DEF WaitRecord
  <2>. HIDE DEF R
  <2>. PICK x \in Cells, one \in Elapsed : x = ShedCell /\ one = 1
    BY <1>3
  <2>2. R \o << <<x, one>> >> = And(R, x, one)
    <3>. PICK e \in Cells \X Elapsed : e = <<x, one>>
      OBVIOUS
    <3>1. R \o <<e>> = Append(R, e)
      BY <1>1
    <3>. QED
      BY <3>1 DEF And
  <2>3. WaitRecord(d, served) = And(R, x, one)
    BY <2>1, <2>2
  <2>4. Without(R, x)
    BY <1>1, <1>3 DEF Without
  <2>5. /\ And(R, x, one) \in Seq(Cells \X Elapsed) /\ Once(And(R, x, one))
        /\ \A c : LeftOf(And(R, x, one), c) = IF c = x THEN one ELSE LeftOf(R, c)
    BY <1>1, <2>4, LeftAppend
  <2>. QED
    BY <1>2, <1>5, <2>3, <2>5 DEF ByWait
<1>. QED
  BY <1>4, <1>5

\* What observe() records.
LEMMA RequestRecordIs ==
    ASSUME NEW q, NEW d \in Elapsed, NEW a
    PROVE  /\ RecordRequest(q, d, a) \in Seq(Cells \X Elapsed) /\ Once(RecordRequest(q, d, a))
           /\ q \notin Routes => \A c \in Cells : LeftOf(RecordRequest(q, d, a), c) = 0
           /\ q \in Routes => \A c \in Cells : LeftOf(RecordRequest(q, d, a), c) =
                IF c = <<q, Outcome(a), 0>> THEN 1
                ELSE IF c[1] = q /\ OfDurations(c) THEN Amount(c, d) ELSE 0
<1>1. CASE q \notin Routes
  BY <1>1, NothingLeft DEF RecordRequest
<1>2. CASE q \in Routes
  <2>. DEFINE R == Record(q, d)
              o == <<q, Outcome(a), 0>>
  <2>1. R \in Seq(Cells \X Elapsed) /\ Once(R) /\ \A i \in DOMAIN R : OfDurations(R[i][1])
    BY <1>2, RecordIs
  <2>2. \A c \in Cells : LeftOf(R, c) = IF c[1] = q /\ OfDurations(c) THEN Amount(c, d) ELSE 0
    BY <1>2, RecordIs
  <2>3. o \in Cells /\ ~OfDurations(o) /\ 1 \in Elapsed
    <3>1. Outcome(a) \in {"ok", "error"}
      BY DEF Outcome
    <3>2. o = <<q, "ok", 0>> \/ o = <<q, "error", 0>>
      BY <3>1
    <3>3. o \in Cells
      BY <1>2, <3>2, CellsAre
    <3>4. o[2] \in {"ok", "error"}
      BY <3>2
    <3>. QED
      BY <3>3, <3>4, MetricsAssumption DEF OfDurations, Elapsed
  <2>4. RecordRequest(q, d, a) = And(R, o, 1)
    BY <1>2 DEF RecordRequest, And
  <2>. HIDE DEF R, o
  <2>. PICK one \in Elapsed : one = 1
    BY <2>3
  <2>5. Without(R, o)
    BY <2>1, <2>3 DEF Without
  <2>6. /\ And(R, o, one) \in Seq(Cells \X Elapsed) /\ Once(And(R, o, one))
        /\ \A c : LeftOf(And(R, o, one), c) = IF c = o THEN one ELSE LeftOf(R, c)
    BY <2>1, <2>3, <2>5, LeftAppend
  <2>7. /\ RecordRequest(q, d, a) \in Seq(Cells \X Elapsed) /\ Once(RecordRequest(q, d, a))
        /\ \A c \in Cells : LeftOf(RecordRequest(q, d, a), c) =
             IF c = o THEN 1 ELSE IF c[1] = q /\ OfDurations(c) THEN Amount(c, d) ELSE 0
    BY <2>2, <2>4, <2>6
  <2>. QED
    BY <1>2, <2>7 DEF o
<1>. QED
  BY <1>1, <1>2

\* A wait of an unanswered request, of d after w.
Waits(from, to, served, w, d, v, o) ==
    /\ served \in BOOLEAN /\ from # "shed" /\ (to = "shed" <=> ~served) /\ o = "none"
    /\ w \in Seq(Elapsed) /\ d \in Elapsed /\ v = Append(w, d)

\* What it makes due.
LEMMA WaitDue ==
    ASSUME NEW from, NEW to, NEW served, NEW w, NEW d, NEW v, NEW o,
           Waits(from, to, served, w, d, v, o), NEW q, NEW e, NEW c \in Cells
    PROVE  DueAs(to, q, v, e, o, c) = DueAs(from, q, w, e, o, c) + ByWait(d, served, c)
<1>. /\ served \in BOOLEAN /\ from # "shed" /\ (to = "shed" <=> ~served) /\ o = "none"
     /\ w \in Seq(Elapsed) /\ d \in Elapsed /\ v = Append(w, d)
  BY DEF Waits
<1>. DEFINE x == DueAs(from, q, w, e, o, c)
            y == DueAs(to, q, v, e, o, c)
<1>1. CASE c = ShedCell
  <2>1. c[2] = "shed"
    BY <1>1 DEF ShedCell
  <2>2. x = 0
    BY <2>1 DEF DueAs
  <2>3. y = IF served THEN 0 ELSE 1
    BY <2>1 DEF DueAs
  <2>. HIDE DEF x, y
  <2>. QED
    BY <1>1, <2>2, <2>3 DEF x, y, ByWait
<1>2. CASE c[2] \in {"ok", "error"}
  <2>1. c # ShedCell /\ ~OfDurations(c)
    BY <1>2 DEF ShedCell, OfDurations
  <2>2. x = 0
    BY <1>2 DEF DueAs
  <2>3. y = 0
    BY <1>2 DEF DueAs
  <2>. QED
    BY <2>1, <2>2, <2>3 DEF ByWait
<1>3. CASE OfDurations(c)
  <2>1. c # ShedCell /\ c[2] \notin {"ok", "error", "shed"}
    BY <1>3 DEF ShedCell, OfDurations
  <2>2. CASE c[1] # Admission
    <3>1. InAll(<<>>, c) = 0
      BY <1>3, InAllIs
    <3>2. x = InAll(<<>>, c)
      BY <2>1, <2>2 DEF DueAs, InAll
    <3>3. y = InAll(<<>>, c)
      BY <2>1, <2>2 DEF DueAs, InAll
    <3>. QED
      BY <2>1, <2>2, <3>1, <3>2, <3>3 DEF ByWait
  <2>3. CASE c[1] = Admission
    <3>1. w \in Seq(Nat) /\ d \in Nat
      BY MetricsAssumption DEF Elapsed
    <3>2. InAll(Append(w, d), c) = InAll(w, c) + Amount(c, d)
      BY <1>3, <3>1, InAllIs
    <3>3. x = InAll(w, c)
      BY <2>1, <2>3 DEF DueAs, InAll
    <3>4. y = InAll(v, c)
      BY <2>1, <2>3 DEF DueAs, InAll
    <3>. QED
      BY <1>3, <2>1, <2>3, <3>2, <3>3, <3>4 DEF ByWait
  <2>. QED
    BY <2>2, <2>3
<1>. QED
  BY <1>1, <1>2, <1>3, CellKinds

\* A wait for admission records one duration, and one shed when it is not served.
LEMMA WaitStep ==
    ASSUME IInv, NEW r \in Requests, NEW from, NEW to, NEW served \in BOOLEAN,
           WaitEnds(r, from, to, served),
           \/ from = "tenant" /\ to = "process" /\ served
           \/ from = "process" /\ to = "handler" /\ served
           \/ from \in {"tenant", "process"} /\ to = "shed" /\ ~served
    PROVE  IInv'
<1>1. Shapes /\ Position(r)
  BY DEF IInv
<1>2. /\ pc[r] = from /\ todo[r] = <<>> /\ pc' = [pc EXCEPT ![r] = to]
      /\ UNCHANGED <<route, took, answer, counter, scrape>>
  BY DEF WaitEnds, Goes
<1>3. PICK d \in Elapsed :
        /\ waits' = [waits EXCEPT ![r] = Append(waits[r], d)]
        /\ todo' = [todo EXCEPT ![r] = WaitRecord(d, served)]
  BY DEF WaitEnds, WaitRecord
<1>4. PICK q \in Routes \cup {Other}, w \in Seq(Elapsed), e \in {0} \cup Elapsed,
           o \in {"none", "ok", "error", "shed"} :
           q = route[r] /\ w = waits[r] /\ e = took[r] /\ o = answer[r]
  BY <1>1 DEF Shapes
<1>5. PICK v \in Seq(Elapsed) : v = Append(w, d) /\ Len(v) = Len(w) + 1
  <2>1. Append(w, d) \in Seq(Elapsed) /\ Len(Append(w, d)) = Len(w) + 1
    OBVIOUS
  <2>. QED
    BY <2>1
<1>6. PICK s \in Seq(Cells \X Elapsed) : s = WaitRecord(d, served) /\ Once(s)
  BY WaitRecordIs
<1>a. Becomes(r, to, q, v, e, o, s)
  <2>1. waits' = [waits EXCEPT ![r] = v] /\ todo' = [todo EXCEPT ![r] = s]
    BY <1>3, <1>4, <1>5, <1>6
  <2>2. route = [route EXCEPT ![r] = route[r]] /\ took = [took EXCEPT ![r] = took[r]]
    BY <1>1 DEF Shapes
  <2>3. answer = [answer EXCEPT ![r] = answer[r]]
    BY <1>1 DEF Shapes
  <2>4. route' = [route EXCEPT ![r] = q] /\ took' = [took EXCEPT ![r] = e]
        /\ answer' = [answer EXCEPT ![r] = o]
    BY <1>2, <1>4, <2>2, <2>3
  <2>5. to \in Labels
    BY DEF Labels
  <2>. QED
    BY <1>2, <2>1, <2>4, <2>5 DEF Becomes
<1>b. /\ Shapes' /\ Others(r) /\ pc'[r] = to /\ route'[r] = q
      /\ waits'[r] = v /\ took'[r] = e /\ answer'[r] = o /\ todo'[r] = s
  <2>1. UNCHANGED <<counter, scrape>>
    BY <1>2
  <2>. QED
    BY <1>1, <1>a, <2>1, ShapesKept
<1>7. Position(r)'
  <2>1. Once(todo[r])'
    BY <1>6, <1>b, LeftSame
  <2>2. (from = "tenant" => w = <<>>) /\ (from = "process" => Len(w) = 1) /\ o = "none"
    BY <1>1, <1>2, <1>4 DEF Position
  <2>3. PICK n \in Nat : n = Len(w)
    OBVIOUS
  <2>4. (from = "tenant" => n = 0) /\ (from = "process" => n = 1)
    BY <2>2, <2>3
  <2>5. (to = "process" => n = 0) /\ n <= 1
    BY <2>4
  <2>6. (to = "process" => Len(v) = 1) /\ Len(v) <= 2
    BY <1>5, <2>3, <2>5
  <2>. QED
    BY <1>b, <2>1, <2>2, <2>6 DEF Position
<1>8. ASSUME NEW c \in Cells PROVE Due(r, c)' = Due(r, c) + LeftOf(todo'[r], c)
  <2>1. o = "none" /\ from # "shed" /\ (to = "shed" <=> ~served)
    BY <1>1, <1>2, <1>4 DEF Position
  <2>2. LeftOf(s, c) = ByWait(d, served, c)
    BY <1>6, WaitRecordIs
  <2>3. DueAs(to, q, v, e, o, c) = DueAs(from, q, w, e, o, c) + ByWait(d, served, c)
    <3>1. Waits(from, to, served, w, d, v, o)
      BY <1>5, <2>1 DEF Waits
    <3>. QED
      BY <3>1, WaitDue
  <2>4. Due(r, c) = DueAs(from, q, w, e, o, c)
    BY <1>2, <1>4, DueValue
  <2>5. Due(r, c)' = DueAs(to, q, v, e, o, c)
    BY <1>b, DueValue
  <2>. QED
    BY <1>b, <2>2, <2>3, <2>4, <2>5
<1>9. ~Ended(r)
  BY <1>2 DEF Ended
<1>. QED
  BY <1>2, <1>b, <1>7, <1>8, <1>9, RequestStep

\* An answer a of a request at from on route q, that took d after waits w.
AnswerAs(a) == IF a = "overloaded" THEN "shed" ELSE Outcome(a)
Answers(from, a, q, w, d) ==
    /\ a = "overloaded" <=> from = "shed"
    /\ q \in Routes \cup {Other} /\ w \in Seq(Elapsed) /\ d \in Elapsed

\* What it adds to c.
ByAnswer(a, q, d, c) ==
    IF q \notin Routes THEN 0 ELSE IF c = <<q, Outcome(a), 0>> THEN 1
    ELSE IF c[1] = q /\ OfDurations(c) THEN Amount(c, d) ELSE 0

LEMMA AnswerRecord ==
    ASSUME NEW a, NEW q, NEW d \in Elapsed, NEW c \in Cells
    PROVE  LeftOf(RecordRequest(q, d, a), c) = ByAnswer(a, q, d, c)
BY RequestRecordIs DEF ByAnswer

\* The outcome of an answer.
LEMMA OutcomeIs ==
    ASSUME NEW a
    PROVE  /\ Outcome(a) \in {"ok", "error"} /\ AnswerAs(a) \in {"ok", "error", "shed"}
           /\ AnswerAs(a) = "shed" <=> a = "overloaded"
           /\ AnswerAs(a) = "ok" <=> Outcome(a) = "ok"
<1>1. Outcome(a) \in {"ok", "error"}
  BY DEF Outcome
<1>2. Outcome("overloaded") = "error"
  <2>1. Status["overloaded"] = 429
    BY DEF Status
  <2>. QED
    BY <2>1 DEF Outcome
<1>. QED
  BY <1>1, <1>2 DEF AnswerAs

\* What an answer makes due.
LEMMA AnswerDue ==
    ASSUME NEW from, NEW a, NEW q, NEW w, NEW d, Answers(from, a, q, w, d),
           NEW e, NEW c \in Cells
    PROVE  DueAs("reply", q, w, d, AnswerAs(a), c) =
             DueAs(from, q, w, e, "none", c) + ByAnswer(a, q, d, c)
<1>. /\ a = "overloaded" <=> from = "shed"
     /\ q \in Routes \cup {Other} /\ w \in Seq(Elapsed) /\ d \in Elapsed
  BY DEF Answers
<1>. DEFINE x == DueAs(from, q, w, e, "none", c)
            y == DueAs("reply", q, w, d, AnswerAs(a), c)
<1>1. CASE c = ShedCell
  <2>1. c[2] = "shed" /\ c[2] # Outcome(a) /\ ~OfDurations(c)
    BY <1>1, OutcomeIs DEF ShedCell, OfDurations
  <2>2. x = IF from = "shed" THEN 1 ELSE 0
    BY <2>1 DEF DueAs
  <2>3. y = IF AnswerAs(a) = "shed" THEN 1 ELSE 0
    BY <2>1 DEF DueAs
  <2>4. x = y /\ x \in {0, 1}
    BY <2>2, <2>3, OutcomeIs
  <2>5. ByAnswer(a, q, d, c) = 0
    <3>1. c # <<q, Outcome(a), 0>>
      BY <2>1
    <3>. QED
      BY <2>1, <3>1 DEF ByAnswer
  <2>. HIDE DEF x, y
  <2>. QED
    BY <2>4, <2>5 DEF x, y
<1>2. ASSUME NEW k \in {"ok", "error"}, c = <<c[1], k, 0>>, c[1] \in Routes
      PROVE  y = x + ByAnswer(a, q, d, c)
  <2>1. c[2] = k /\ ~OfDurations(c)
    <3>1. c[2] = k
      BY <1>2
    <3>. QED
      BY <3>1 DEF OfDurations
  <2>2. x = 0
    BY <2>1 DEF DueAs
  <2>3. y = IF q = c[1] /\ Outcome(a) = k THEN 1 ELSE 0
    <3>1. /\ AnswerAs(a) # "none"
          /\ AnswerAs(a) = "ok" <=> Outcome(a) = "ok"
          /\ Outcome(a) = "error" <=> Outcome(a) # "ok"
      BY OutcomeIs
    <3>2. CASE k = "ok"
      BY <2>1, <3>1, <3>2 DEF DueAs
    <3>3. CASE k = "error"
      BY <2>1, <3>1, <3>3 DEF DueAs
    <3>. QED
      BY <3>2, <3>3
  <2>4. c = <<q, Outcome(a), 0>> <=> q = c[1] /\ Outcome(a) = k
    <3>. PICK h, u : h = c[1] /\ u = Outcome(a)
      OBVIOUS
    <3>1. c = <<h, k, 0>>
      BY <1>2
    <3>2. <<h, k, 0>> = <<q, u, 0>> => q = h /\ u = k
      <4>1. <<h, k, 0>>[1] = h /\ <<h, k, 0>>[2] = k /\ <<q, u, 0>>[1] = q /\ <<q, u, 0>>[2] = u
        OBVIOUS
      <4>. QED
        BY <4>1, Zenon
    <3>3. q = h /\ u = k => <<h, k, 0>> = <<q, u, 0>>
      OBVIOUS
    <3>. QED
      BY <3>1, <3>2, <3>3
  <2>5. ByAnswer(a, q, d, c) = IF q = c[1] /\ Outcome(a) = k THEN 1 ELSE 0
    BY <1>2, <2>1, <2>4 DEF ByAnswer
  <2>. HIDE DEF x, y
  <2>. QED
    BY <2>2, <2>3, <2>5
<1>3. CASE OfDurations(c)
  <2>1. c # ShedCell /\ c[2] \notin {"ok", "error", "shed"}
    BY <1>3 DEF ShedCell, OfDurations
  <2>2. c # <<q, Outcome(a), 0>>
    BY <2>1, OutcomeIs
  <2>3. ByAnswer(a, q, d, c) = IF q \in Routes /\ c[1] = q THEN Amount(c, d) ELSE 0
    BY <1>3, <2>2 DEF ByAnswer
  <2>4. CASE c[1] = Admission
    <3>1. w \in Seq(Nat)
      BY MetricsAssumption DEF Elapsed
    <3>2. InAll(w, c) \in Nat
      BY <1>3, <3>1, InAllIs
    <3>3. x = InAll(w, c)
      BY <2>1, <2>4 DEF DueAs, InAll
    <3>4. y = InAll(w, c)
      BY <2>1, <2>4 DEF DueAs, InAll
    <3>5. ByAnswer(a, q, d, c) = 0
      BY <2>3, <2>4, MetricsAssumption
    <3>. HIDE DEF x, y
    <3>. QED
      BY <3>2, <3>3, <3>4, <3>5 DEF x, y
  <2>5. CASE c[1] # Admission
    <3>1. d \in Nat
      BY MetricsAssumption DEF Elapsed
    <3>2. InAll(<<>>, c) = 0 /\ InAll(<<d>>, c) = Amount(c, d) /\ Amount(c, d) \in Nat
      BY <1>3, <3>1, InAllIs, AmountType
    <3>3. c[1] \in Routes
      BY <1>3, <2>1, <2>5, CellKinds
    <3>4. x = InAll(<<>>, c)
      BY <2>1, <2>5 DEF DueAs, InAll
    <3>5. y = IF q = c[1] THEN InAll(<<d>>, c) ELSE InAll(<<>>, c)
      <4>1. AnswerAs(a) # "none"
        BY OutcomeIs
      <4>. QED
        BY <2>1, <2>5, <4>1 DEF DueAs, InAll
    <3>. HIDE DEF x, y
    <3>6. y = x + ByAnswer(a, q, d, c)
      BY <2>3, <3>2, <3>3, <3>4, <3>5
    <3>. QED
      BY <3>6 DEF x, y
  <2>. QED
    BY <2>4, <2>5
<1>. QED
  BY <1>1, <1>2, <1>3, CellKinds

\* A response records its duration and its outcome.
LEMMA RespondStep ==
    ASSUME IInv, NEW r \in Requests, NEW from, NEW a, Respond(r, from, a),
           from \in {"start", "shed", "handler"}, a = "overloaded" <=> from = "shed"
    PROVE  IInv'
<1>1. Shapes /\ Position(r)
  BY DEF IInv
<1>2. /\ pc[r] = from /\ todo[r] = <<>> /\ pc' = [pc EXCEPT ![r] = "reply"]
      /\ answer' = [answer EXCEPT ![r] = AnswerAs(a)]
      /\ UNCHANGED <<route, waits, counter, scrape>>
  BY DEF Respond, Goes, AnswerAs
<1>3. PICK d \in Elapsed :
        /\ took' = [took EXCEPT ![r] = d]
        /\ todo' = [todo EXCEPT ![r] = RecordRequest(route[r], d, a)]
  BY DEF Respond
<1>4. PICK q \in Routes \cup {Other}, w \in Seq(Elapsed), e \in {0} \cup Elapsed :
           q = route[r] /\ w = waits[r] /\ e = took[r]
  BY <1>1 DEF Shapes
<1>5. answer[r] = "none"
  BY <1>1, <1>2 DEF Position
<1>6. PICK s \in Seq(Cells \X Elapsed) : s = RecordRequest(q, d, a) /\ Once(s)
  BY RequestRecordIs
<1>7. PICK o \in {"ok", "error", "shed"} : o = AnswerAs(a)
  BY OutcomeIs
<1>a. Becomes(r, "reply", q, w, d, o, s)
  <2>1. took' = [took EXCEPT ![r] = d] /\ todo' = [todo EXCEPT ![r] = s]
        /\ answer' = [answer EXCEPT ![r] = o]
    BY <1>2, <1>3, <1>4, <1>6, <1>7
  <2>2. route = [route EXCEPT ![r] = route[r]] /\ waits = [waits EXCEPT ![r] = waits[r]]
    BY <1>1 DEF Shapes
  <2>3. route' = [route EXCEPT ![r] = q] /\ waits' = [waits EXCEPT ![r] = w]
    BY <1>2, <1>4, <2>2
  <2>4. "reply" \in Labels
    BY DEF Labels
  <2>. QED
    BY <1>2, <2>1, <2>3, <2>4 DEF Becomes
<1>b. /\ Shapes' /\ Others(r) /\ pc'[r] = "reply" /\ route'[r] = q
      /\ waits'[r] = w /\ took'[r] = d /\ answer'[r] = o /\ todo'[r] = s
  <2>1. UNCHANGED <<counter, scrape>>
    BY <1>2
  <2>. QED
    BY <1>1, <1>a, <2>1, ShapesKept
<1>8. Position(r)'
  <2>1. Once(todo[r])'
    BY <1>6, <1>b, LeftSame
  <2>2. Len(w) <= 2
    BY <1>1, <1>4 DEF Position
  <2>. QED
    BY <1>b, <2>1, <2>2 DEF Position
<1>9. ASSUME NEW c \in Cells PROVE Due(r, c)' = Due(r, c) + LeftOf(todo'[r], c)
  <2>1. LeftOf(s, c) = ByAnswer(a, q, d, c)
    BY <1>6, AnswerRecord
  <2>2. DueAs("reply", q, w, d, AnswerAs(a), c) =
          DueAs(from, q, w, e, "none", c) + ByAnswer(a, q, d, c)
    <3>1. Answers(from, a, q, w, d)
      BY DEF Answers
    <3>. QED
      BY <3>1, AnswerDue
  <2>3. Due(r, c) = DueAs(from, q, w, e, "none", c)
    BY <1>2, <1>4, <1>5, DueValue
  <2>4. Due(r, c)' = DueAs("reply", q, w, d, o, c)
    BY <1>b, DueValue
  <2>. QED
    BY <1>7, <1>b, <2>1, <2>2, <2>3, <2>4
<1>10. ~Ended(r)
  BY <1>2 DEF Ended
<1>. QED
  BY <1>2, <1>b, <1>8, <1>9, <1>10, RequestStep

\* Every step of a request keeps the invariant.
LEMMA ServeStep ==
    ASSUME IInv, NEW r \in Requests, Serve(r) PROVE IInv'
<1>1. Shapes
  BY DEF IInv
<1>2. CASE Arrive(r)
  <2>. PICK q \in Routes \cup {Other} : route' = [route EXCEPT ![r] = q]
    BY <1>2 DEF Arrive
  <2>1. "idle" \in Labels /\ "start" \in Labels
    BY DEF Labels
  <2>. QED
    BY <1>2, <2>1, MoveStep DEF Arrive
<1>3. ASSUME UNCHANGED route PROVE route' = [route EXCEPT ![r] = route[r]] /\ route[r] \in Routes \cup {Other}
  BY <1>1, <1>3 DEF Shapes
<1>4. CASE Lease(r)
  <2>1. "start" \in Labels /\ "tenant" \in Labels
    BY DEF Labels
  <2>. QED
    BY <1>3, <1>4, <2>1, MoveStep DEF Lease
<1>5. CASE Reply(r)
  <2>1. "reply" \in Labels /\ "done" \in Labels
    BY DEF Labels
  <2>. QED
    BY <1>3, <1>5, <2>1, MoveStep DEF Reply
<1>6. CASE Drop(r)
  <2>. PICK from \in {"start", "tenant", "process", "handler"} : Goes(r, from, "gone")
    BY <1>6 DEF Drop
  <2>1. from \in Labels /\ "gone" \in Labels
    BY DEF Labels
  <2>. QED
    BY <1>3, <1>6, <2>1, MoveStep DEF Drop
<1>7. CASE Refuse(r)
  BY <1>7, RespondStep DEF Refuse
<1>8. CASE AnswerOther(r)
  BY <1>8, RespondStep DEF AnswerOther
<1>9. CASE Shed(r)
  BY <1>9, RespondStep DEF Shed
<1>10. CASE Handle(r)
  BY <1>10, RespondStep DEF Handle
<1>11. CASE TenantSlot(r)
  BY <1>11, WaitStep DEF TenantSlot
<1>12. CASE ProcessSlot(r)
  BY <1>12, WaitStep DEF ProcessSlot
<1>13. CASE TimesOut(r)
  BY <1>13, WaitStep DEF TimesOut
<1>14. CASE Add(r)
  BY <1>14, AddStep
<1>. QED
  BY <1>2, <1>4, <1>5, <1>6, <1>7, <1>8, <1>9, <1>10, <1>11, <1>12, <1>13, <1>14 DEF Serve
-----------------------------------------------------------------------------
(* The scrape, and the invariant. *)

\* The requests stay as they are while the scrape loads.
LEMMA RequestsSame ==
    ASSUME IInv, UNCHANGED <<request, todo, counter>>
    PROVE  /\ Books' /\ \A r \in Requests : Position(r)'
           /\ \A r \in Requests : Ended(r)' <=> Ended(r)
           /\ \A S \in SUBSET Requests, c \in Cells : Total(S, c)' = Total(S, c)
<1>1. ASSUME NEW r \in Requests, NEW c \in Cells
      PROVE  /\ Due(r, c)' = Due(r, c) /\ LeftOf(todo[r], c)' = LeftOf(todo[r], c)
             /\ Added(r, c)' = Added(r, c)
  <2>1. Due(r, c)' = Due(r, c)
    BY DueSame DEF request
  <2>2. LeftOf(todo[r], c)' = LeftOf(todo[r], c)
    BY LeftSame
  <2>. QED
    BY <2>1, <2>2 DEF Added
<1>2. Books'
  <2>1. \A c \in Cells, r \in Requests : LeftOf(todo[r], c)' <= Due(r, c)'
    BY <1>1 DEF IInv, Books
  <2>2. ASSUME NEW c \in Cells
        PROVE  counter'[c] = AddUp([r \in Requests |-> Added(r, c)'])
    <3>1. [r \in Requests |-> Added(r, c)'] = [r \in Requests |-> Added(r, c)]
      BY <1>1
    <3>. QED
      BY <3>1 DEF IInv, Books
  <2>. QED
    BY <2>1, <2>2 DEF Books
<1>3. ASSUME NEW r \in Requests PROVE Position(r)'
  <2>1. Position(r)
    BY DEF IInv
  <2>. QED
    BY <2>1, PositionSame DEF request
<1>4. \A r \in Requests : Ended(r)' <=> Ended(r)
  BY DEF Ended, request
<1>5. ASSUME NEW S \in SUBSET Requests, NEW c \in Cells PROVE Total(S, c)' = Total(S, c)
  <2>1. [r \in S |-> Due(r, c)'] = [r \in S |-> Due(r, c)]
    BY <1>1
  <2>. QED
    BY <2>1 DEF Total
<1>. QED
  BY <1>2, <1>3, <1>4, <1>5

\* A counter that is loaded shows what it should of the requests that had
\* ended when the scrape began.
LEMMA LoadStep ==
    ASSUME IInv, UNCHANGED <<request, todo, counter>>,
           NEW n \in 1..Len(Rendered), loaded' = n, shown' = counter[Rendered[n]],
           before' \subseteq Requests, \A r \in before' : Ended(r)
    PROVE  IInv'
<1>1. Shapes /\ Books /\ \A r \in Requests : Position(r)
  BY DEF IInv
<1>2. PICK c \in Cells, S \in SUBSET Requests : c = Rendered[n] /\ S = before'
  BY RenderedAre
<1>3. Rendered' = Rendered
  BY DEF Rendered, RenderOutcomes, RenderHistogram, ShedCell
<1>4. Shapes'
  <2>1. Cells' = Cells /\ Elapsed' = Elapsed /\ Labels' = Labels
    BY DEF Cells, HistogramCells, OutcomeCells, ShedCell, Elapsed, Labels
  <2>2. counter[c] \in Nat /\ n \in 0..Len(Rendered)
    BY <1>1, RenderedAre DEF Shapes
  <2>. QED
    BY <1>1, <1>2, <1>3, <2>1, <2>2 DEF Shapes, request
<1>5. Total(S, c) <= counter[c] /\ counter[c] <= Total(Requests, c)
  <2>1. \A r \in S : todo[r] = <<>>
    BY <1>1, <1>2 DEF Position, Ended
  <2>. QED
    BY <1>1, <2>1, CounterBetween
<1>6. ScrapeBetween'
  <2>1. Rendered[loaded]' = c
    BY <1>2, <1>3
  <2>2. Total(before, Rendered[loaded])' = Total(S, c)
    <3>1. Total(before, Rendered[loaded])' = (Total(S, c))'
      BY <1>2, <2>1 DEF Total
    <3>. QED
      BY <3>1, RequestsSame
  <2>3. Total(Requests, Rendered[loaded])' = Total(Requests, c)
    <3>1. Total(Requests, Rendered[loaded])' = (Total(Requests, c))'
      BY <2>1 DEF Total
    <3>. QED
      BY <3>1, RequestsSame
  <2>. QED
    BY <1>2, <1>5, <2>2, <2>3 DEF ScrapeBetween
<1>7. \A r \in before' : Ended(r)'
  BY RequestsSame
<1>. QED
  BY <1>4, <1>6, <1>7, RequestsSame DEF IInv

LEMMA EndScrapeStep ==
    ASSUME IInv, EndScrape PROVE IInv'
<1>1. Shapes'
  <2>1. Cells' = Cells /\ Elapsed' = Elapsed /\ Labels' = Labels /\ Rendered' = Rendered
    BY DEF Cells, HistogramCells, OutcomeCells, ShedCell, Elapsed, Labels, Rendered,
       RenderOutcomes, RenderHistogram
  <2>. QED
    BY <2>1, RenderedAre DEF IInv, Shapes, EndScrape, request
<1>2. Books' /\ \A r \in Requests : Position(r)'
  BY RequestsSame DEF EndScrape
<1>3. ScrapeBetween' /\ \A r \in before' : Ended(r)'
  BY DEF EndScrape, ScrapeBetween
<1>. QED
  BY <1>1, <1>2, <1>3 DEF IInv

\* Nothing is due, added or left at first.
LEMMA InitIInv == Init => IInv
<1>. SUFFICES ASSUME Init PROVE IInv
  OBVIOUS
<1>1. Shapes
  BY RenderedAre DEF Init, Shapes, Labels
<1>2. ASSUME NEW r \in Requests PROVE Position(r)
  BY NothingLeft DEF Init, Position
<1>3. ASSUME NEW r \in Requests, NEW c \in Cells PROVE Due(r, c) = 0 /\ LeftOf(todo[r], c) = 0
  <2>1. LeftOf(todo[r], c) = 0
    BY NothingLeft DEF Init
  <2>2. Due(r, c) = DueAs("idle", Other, <<>>, 0, "none", c)
    BY DueValue DEF Init
  <2>3. CASE OfDurations(c)
    <3>1. c[2] \notin {"ok", "error", "shed"} /\ InAll(<<>>, c) = 0
      BY <2>3, InAllIs DEF OfDurations
    <3>2. DueAs("idle", Other, <<>>, 0, "none", c) = InAll(<<>>, c)
      BY <3>1 DEF DueAs, InAll
    <3>. QED
      BY <2>1, <2>2, <3>1, <3>2
  <2>4. CASE c[2] \in {"ok", "error", "shed"}
    BY <2>1, <2>2, <2>4 DEF DueAs
  <2>. QED
    BY <2>3, <2>4, CellKinds
<1>4. Books
  <2>. SUFFICES ASSUME NEW c \in Cells
       PROVE  counter[c] = AddUp([r \in Requests |-> Added(r, c)])
    BY <1>3 DEF Books
  <2>. DEFINE f == [r \in Requests |-> Added(r, c)]
  <2>1. f \in [Requests -> Nat] /\ \A r \in Requests : f[r] = 0
    BY <1>3 DEF Added
  <2>. HIDE DEF f
  <2>2. AddUp(f) = 0
    BY <2>1, AddUpZero
  <2>. QED
    BY <2>2 DEF f, Init
<1>5. ScrapeBetween /\ \A r \in before : Ended(r)
  BY DEF Init, ScrapeBetween
<1>. QED
  BY <1>1, <1>2, <1>4, <1>5 DEF IInv

\* The invariant is inductive.
LEMMA NextIInv == IInv /\ [Next]_vars => IInv'
<1>. SUFFICES ASSUME IInv, [Next]_vars PROVE IInv'
  OBVIOUS
<1>1. CASE \E r \in Requests : Serve(r)
  BY <1>1, ServeStep
<1>2. CASE StartScrape
  <2>1. 1 \in 1..Len(Rendered)
    BY RenderedAre
  <2>2. before' \subseteq Requests /\ \A r \in before' : Ended(r)
    BY <1>2 DEF StartScrape
  <2>. QED
    BY <1>2, <2>1, <2>2, LoadStep DEF StartScrape
<1>3. CASE Load
  <2>1. PICK n \in 1..Len(Rendered) : n = loaded + 1
    BY <1>3, RenderedAre DEF Load
  <2>2. before' \subseteq Requests /\ \A r \in before' : Ended(r)
    BY <1>3 DEF Load, IInv, Shapes
  <2>3. loaded' = n /\ shown' = counter[Rendered[n]] /\ UNCHANGED <<request, todo, counter>>
    <3>1. Rendered' = Rendered
      BY DEF Rendered, RenderOutcomes, RenderHistogram, ShedCell
    <3>. QED
      BY <1>3, <2>1, <3>1 DEF Load
  <2>. QED
    BY <2>2, <2>3, LoadStep
<1>4. CASE EndScrape
  BY <1>4, EndScrapeStep
<1>5. CASE UNCHANGED vars
  <2>1. UNCHANGED <<request, todo, counter>> /\ UNCHANGED scrape
    BY <1>5 DEF vars
  <2>2. Shapes'
    <3>1. Cells' = Cells /\ Elapsed' = Elapsed /\ Labels' = Labels /\ Rendered' = Rendered
      BY DEF Cells, HistogramCells, OutcomeCells, ShedCell, Elapsed, Labels, Rendered,
         RenderOutcomes, RenderHistogram
    <3>. QED
      BY <2>1, <3>1 DEF IInv, Shapes, request, scrape
  <2>3. Books' /\ (\A r \in Requests : Position(r)') /\ \A r \in before' : Ended(r)'
    BY <2>1, RequestsSame DEF IInv, Shapes, scrape
  <2>4. ScrapeBetween'
    <3>1. \A x \in Requests : \A c \in Cells : Due(x, c)' = Due(x, c) /\ Due(x, c) \in Nat
      BY <2>1, DueSame, DueType DEF request, IInv
    <3>2. /\ \A x \in before : \A c \in Cells : Due(x, c)' = Due(x, c)
          /\ \A x \in Requests : \A c \in Cells : Due(x, c)' \in Nat /\ Due(x, c) <= Due(x, c)'
      BY <3>1 DEF IInv, Shapes
    <3>. QED
      BY <2>1, <3>2, ScrapeKept DEF IInv
  <2>. QED
    BY <2>2, <2>3, <2>4 DEF IInv
<1>. QED
  BY <1>1, <1>2, <1>3, <1>4, <1>5 DEF Next

\* The invariant holds always.
LEMMA IInvHolds == Spec => []IInv
BY InitIInv, NextIInv, PTL DEF Spec

\* Every variable has its type: a request waits twice at most, and whatever is
\* left to add is an amount for a counter (TypeOK).
THEOREM TypeCorrect == Spec => []TypeOK
<1>1. IInv => TypeOK
  <2>. SUFFICES ASSUME IInv PROVE TypeOK
    OBVIOUS
  <2>1. Shapes /\ \A r \in Requests : Position(r)
    BY DEF IInv
  <2>2. ASSUME NEW r \in Requests PROVE Len(waits[r]) <= 2 /\ Range(waits[r]) \subseteq Elapsed
    <3>1. waits[r] \in Seq(Elapsed)
      BY <2>1 DEF Shapes
    <3>2. Range(waits[r]) \subseteq Elapsed
      BY <3>1 DEF Range
    <3>. QED
      BY <2>1, <3>2 DEF Position
  <2>3. ASSUME NEW r \in Requests PROVE Range(todo[r]) \subseteq Cells \X Elapsed
    <3>1. todo[r] \in Seq(Cells \X Elapsed)
      BY <2>1 DEF Shapes
    <3>. QED
      BY <3>1 DEF Range
  <2>. QED
    BY <2>1, <2>2, <2>3 DEF TypeOK, Shapes, Labels
<1>. QED
  BY <1>1, IInvHolds, PTL

\* Whatever a scrape runs into, a number it shows has everything of the
\* requests that had ended when it began, and nothing twice or that nobody has
\* recorded by now (ScrapeBetween).
THEOREM ScrapeCorrect == Spec => []ScrapeBetween
<1>1. IInv => ScrapeBetween
  BY DEF IInv
<1>. QED
  BY <1>1, IInvHolds, PTL
=============================================================================
