--------------------------- MODULE EvidenceProofs ---------------------------
(***************************************************************************)
(* What is proved of Evidence for every list of fragments and every value  *)
(* of the limits: merging loses nothing, the selection keeps the limits,   *)
(* and what it leaves out, it leaves out because one of them is reached.   *)
(*                                                                         *)
(* Each fold of Evidence is the last value of a function that takes one    *)
(* element more at a time.  That there is one (Steps) needs a set that     *)
(* the values stay in, and then what one step keeps holds at the end       *)
(* (Counting).                                                             *)
(***************************************************************************)
EXTENDS Evidence, FiniteSetTheorems, FunctionTheorems, SequenceTheorems, WellFoundedInduction, TLAPS

\* Numbers that are the lines of a fragment, or none.
Lines == {p \in SUBSET Nat : p = {} \/ \E a, b \in Nat : p = {a, b}}

\* A fragment, found or merged.
Piece ==
    {e \in [doc : Int, rank : Nat, text : Seq(Nat), lines : Lines, score : Int, topics : SUBSET Nat] :
        e.text # <<>> /\ IsFiniteSet(e.topics)}

\* What the code's callers and its own checks of the limits see to.
Sane == /\ Fragment \subseteq Piece
        /\ MaxTotal \in Nat \ {0} /\ MaxFragments \in Nat \ {0} /\ MaxText \in Nat \ {0}
        /\ MaxPerDoc \in Nat \ {0}

-----------------------------------------------------------------------------
(* Numbers and folds.                                                      *)

\* A set of numbers that is not empty has a least.
LEMMA LeastOf ==
    ASSUME NEW T, T \subseteq Nat, T # {}
    PROVE  \E x \in T : \A y \in T : x <= y
  <1>1. PICK x \in T : \A y \in T : ~(<<y, x>> \in OpToRel(<, Nat))
    BY WFMin, NatLessThanWellFounded
  <1>2. ASSUME NEW y \in T
        PROVE  ~(y < x)
    BY <1>1 DEF OpToRel
  <1> QED
    BY <1>2

\* What zero has, and with a number the next one, every number has.
LEMMA Counting ==
    ASSUME NEW N \in Nat, NEW T, 0 \in T, \A n \in 1 .. N : n - 1 \in T => n \in T
    PROVE  N \in T
  <1> DEFINE L == {n \in 0 .. N : n \notin T}
  <1> SUFFICES ASSUME L # {}
               PROVE  FALSE
    OBVIOUS
  <1>1. PICK least : least \in L /\ \A y \in L : least <= y
    <2>1. L \subseteq Nat
      OBVIOUS
    <2> HIDE DEF L
    <2> QED
      BY <2>1, LeastOf
  <1>2. least \in 1 .. N
    BY <1>1
  <1>3. least - 1 \in T
    BY <1>1, <1>2
  <1> QED
    BY <1>1, <1>2, <1>3

LEMMA SmallestIn ==
    ASSUME NEW s, s \subseteq Nat, s # {}
    PROVE  Min(s) \in s /\ \A x \in s : Min(s) <= x
  BY LeastOf DEF Min

LEMMA LargestIn ==
    ASSUME NEW N \in Nat, NEW s, s \subseteq 1 .. N, s # {}
    PROVE  Max(s) \in s /\ \A x \in s : x <= Max(s)
  <1> DEFINE T == {n \in 0 .. N : \A y \in s : y <= n}
  <1>1. PICK least : least \in T /\ \A y \in T : least <= y
    <2>1. T \subseteq Nat /\ N \in T
      OBVIOUS
    <2> HIDE DEF T
    <2> QED
      BY <2>1, LeastOf
  <1>2. least \in s
    <2> SUFFICES ASSUME least \notin s
                 PROVE  FALSE
      OBVIOUS
    <2>1. PICK y : y \in s
      OBVIOUS
    <2>2. least \in 1 .. N
      BY <1>1, <2>1
    <2>3. least - 1 \in T
      BY <1>1, <2>2
    <2> QED
      BY <1>1, <2>2, <2>3
  <1>3. \E x \in s : \A y \in s : x >= y
    BY <1>1, <1>2
  <1> QED
    BY <1>3 DEF Max

\* The elements of a sequence in order.
LEMMA Upwards ==
    ASSUME NEW N \in Nat, NEW n \in 1 .. N
    PROVE  /\ 1 .. n \in SUBSET (1 .. N) /\ 1 .. n # {} /\ 1 .. n - 1 \in SUBSET (1 .. N)
           /\ Max(1 .. n) = n /\ (1 .. n) \ {n} = 1 .. n - 1
  <1>1. 1 .. n \subseteq 1 .. N /\ 1 .. n # {} /\ n \in 1 .. n /\ (1 .. n) \ {n} = 1 .. n - 1
    OBVIOUS
  <1>2. Max(1 .. n) \in 1 .. n /\ n <= Max(1 .. n)
    BY <1>1, LargestIn
  <1> QED
    BY <1>1, <1>2

\* The function by which a fold from left to right is defined.
Folding(N, base, step, f) ==
    \A s \in SUBSET (1 .. N) :
        f[s] = IF s = {} THEN base ELSE step[<<Max(s), f[s \ {Max(s)}]>>]

LEMMA Steps ==
    ASSUME NEW N \in Nat, NEW V, NEW base \in V, NEW step \in [(1 .. N) \X V -> V]
    PROVE  \E f \in [SUBSET (1 .. N) -> V] : Folding(N, base, step, f)
  <1> DEFINE T == {n \in 0 .. N : \E f \in [SUBSET (1 .. n) -> V] : Folding(n, base, step, f)}
  <1>1. 0 \in T
    <2>1. SUBSET (1 .. 0) = {{}}
      OBVIOUS
    <2>2. Folding(0, base, step, [s \in SUBSET (1 .. 0) |-> base])
      BY <2>1 DEF Folding
    <2> QED
      BY <2>2
  <1>2. ASSUME NEW n \in 1 .. N, n - 1 \in T
        PROVE  n \in T
    <2>1. PICK f \in [SUBSET (1 .. n - 1) -> V] : Folding(n - 1, base, step, f)
      BY <1>2
    <2> DEFINE g == [s \in SUBSET (1 .. n) |->
                       IF s \subseteq 1 .. n - 1 THEN f[s] ELSE step[<<n, f[s \ {n}]>>]]
    <2>2. ASSUME NEW s \in SUBSET (1 .. n)
          PROVE  /\ g[s] \in V
                 /\ g[s] = IF s = {} THEN base ELSE step[<<Max(s), g[s \ {Max(s)}]>>]
      <3>1. CASE s = {}
        BY <2>1, <3>1 DEF Folding
      <3>2. CASE s # {} /\ s \subseteq 1 .. n - 1
        <4>1. Max(s) \in s
          BY <3>2, n - 1 \in Nat, LargestIn
        <4>2. s \ {Max(s)} \in SUBSET (1 .. n - 1) /\ s \ {Max(s)} \in SUBSET (1 .. n)
          BY <3>2
        <4>3. g[s \ {Max(s)}] = f[s \ {Max(s)}] /\ g[s] = f[s]
          BY <3>2, <4>2
        <4> QED
          BY <2>1, <3>2, <4>3 DEF Folding
      <3>3. CASE ~(s \subseteq 1 .. n - 1)
        <4>1. n \in s /\ s # {}
          BY <3>3
        <4>2. Max(s) = n
          <5>1. Max(s) \in s /\ n <= Max(s)
            BY <4>1, n \in Nat, LargestIn
          <5>2. Max(s) \in 1 .. n
            BY <5>1
          <5> QED
            BY ONLY <5>1, <5>2, n \in Nat
        <4>3. s \ {n} \in SUBSET (1 .. n - 1) /\ s \ {n} \in SUBSET (1 .. n)
          OBVIOUS
        <4>4. g[s \ {n}] = f[s \ {n}] /\ f[s \ {n}] \in V
          BY <4>3
        <4> QED
          BY <3>3, <4>1, <4>2, <4>4
      <3> QED
        BY <3>1, <3>2, <3>3
    <2>3. g \in [SUBSET (1 .. n) -> V]
      <3>1. g = [s \in SUBSET (1 .. n) |-> g[s]]
        OBVIOUS
      <3> HIDE DEF g
      <3> QED
        BY <2>2, <3>1
    <2>4. Folding(n, base, step, g)
      <3> HIDE DEF g
      <3> QED
        BY <2>2 DEF Folding
    <2> HIDE DEF g
    <2> QED
      BY <2>3, <2>4
  <1>3. N \in T
    <2> HIDE DEF T
    <2> QED
      BY <1>1, <1>2, Counting
  <1> QED
    BY <1>3

\* A function that does so as long as it stays in V.
Follows(N, V, base, step, f) ==
    /\ f[{}] = base
    /\ \A s \in SUBSET (1 .. N) : s # {} /\ f[s \ {Max(s)}] \in V =>
           f[s] = step[<<Max(s), f[s \ {Max(s)}]>>]

\* What holds before the first element, and of a value when it held of the one before.
Stays(N, V, base, step, K) ==
    /\ <<0, base>> \in K
    /\ \A n \in 1 .. N : \A x \in V : <<n - 1, x>> \in K => <<n, step[<<n, x>>]>> \in K

\* It holds at the end.
LEMMA FoldKeeps ==
    ASSUME NEW N \in Nat, NEW V, NEW base \in V, NEW step \in [(1 .. N) \X V -> V],
           NEW f, Follows(N, V, base, step, f), NEW K, Stays(N, V, base, step, K)
    PROVE  f[1 .. N] \in V /\ <<N, f[1 .. N]>> \in K
  <1> DEFINE T == {n \in 0 .. N : f[1 .. n] \in V /\ <<n, f[1 .. n]>> \in K}
  <1>1. 0 \in T
    <2>1. 1 .. 0 = {}
      OBVIOUS
    <2> QED
      BY <2>1 DEF Follows, Stays
  <1>2. ASSUME NEW n \in 1 .. N, n - 1 \in T
        PROVE  n \in T
    <2>1. f[1 .. n - 1] \in V /\ <<n - 1, f[1 .. n - 1]>> \in K
      BY <1>2
    <2>2. f[1 .. n] = step[<<n, f[1 .. n - 1]>>]
      <3>1. /\ 1 .. n \in SUBSET (1 .. N) /\ 1 .. n # {} /\ Max(1 .. n) = n
            /\ (1 .. n) \ {n} = 1 .. n - 1
        BY Upwards
      <3> QED
        BY <2>1, <3>1 DEF Follows
    <2>3. <<n, f[1 .. n]>> \in K
      BY <2>1, <2>2 DEF Stays
    <2> QED
      BY <2>1, <2>2, <2>3
  <1>3. N \in T
    <2> HIDE DEF T
    <2> QED
      BY <1>1, <1>2, Counting
  <1> QED
    BY <1>3

-----------------------------------------------------------------------------
(* Merging two fragments.                                                  *)

LEMMA Adding ==
    ASSUME NEW S, NEW s \in Seq(S), NEW b \in S
    PROVE  /\ Append(s, b) \in Seq(S) /\ Len(Append(s, b)) = Len(s) + 1
           /\ \A i \in 1 .. Len(s) : Append(s, b)[i] = s[i]
           /\ Append(s, b)[Len(s) + 1] = b
           /\ DOMAIN s = 1 .. Len(s) /\ Len(s) \in Nat
           /\ DOMAIN Append(s, b) = 1 .. Len(s) + 1
  OBVIOUS

LEMMA AddedRange ==
    ASSUME NEW S, NEW s \in Seq(S), NEW b \in S
    PROVE  Range(s) \subseteq Range(Append(s, b)) /\ b \in Range(Append(s, b))
  <1>1. /\ DOMAIN s = 1 .. Len(s) /\ DOMAIN Append(s, b) = 1 .. Len(s) + 1 /\ Len(s) \in Nat
        /\ \A i \in 1 .. Len(s) : Append(s, b)[i] = s[i]
        /\ Append(s, b)[Len(s) + 1] = b
    BY Adding
  <1>2. \A i \in 1 .. Len(s) : i \in 1 .. Len(s) + 1
    BY <1>1
  <1>3. Len(s) + 1 \in 1 .. Len(s) + 1
    BY <1>1
  <1> QED
    BY <1>1, <1>2, <1>3, Zenon DEF Range

LEMMA WithinRange ==
    ASSUME NEW s \in Seq(Nat), NEW t \in Seq(Nat), Within(s, t)
    PROVE  Range(s) \subseteq Range(t)
  <1>1. PICK i \in 0 .. Len(t) - Len(s) : SubSeq(t, i + 1, i + Len(s)) = s
    BY DEF Within
  <1>2. ASSUME NEW k \in 1 .. Len(s)
        PROVE  s[k] = t[i + k] /\ i + k \in 1 .. Len(t)
    <2>1. i \in Int /\ i >= 0 /\ i + Len(s) <= Len(t) /\ Len(s) \in Nat /\ Len(t) \in Nat /\ k \in Int
      OBVIOUS
    <2>2. \A j \in i + 1 .. i + Len(s) : t[j] \in Nat
      BY <2>1
    <2>3. SubSeq(t, i + 1, i + Len(s))[k] = t[i + k]
      BY <2>1, <2>2, SubSeqProperties
    <2>4. s[k] = t[i + k]
      BY <1>1, <2>3, Zenon
    <2> QED
      BY <2>1, <2>4
  <1>3. DOMAIN s = 1 .. Len(s) /\ DOMAIN t = 1 .. Len(t)
    OBVIOUS
  <1> QED
    BY <1>2, <1>3, Zenon DEF Range

\* Each block of a sequence is kept.
LEMMA EachIsKept ==
    ASSUME NEW t \in Seq(Nat)
    PROVE  EachOnce(t) \in Seq(Nat) /\ Range(t) \subseteq Range(EachOnce(t))
  <1> DEFINE N == Len(t)
             V == Seq(Nat)
             Next1(m, b) == IF b \in Range(m) THEN m ELSE Append(m, b)
             Is(g) == g = [q \in SUBSET DOMAIN t |->
                             IF q = {} THEN <<>> ELSE LET x == Max(q) IN Next1(g[q \ {x}], t[x])]
             step == [p \in (1 .. N) \X V |-> Next1(p[2], t[p[1]])]
             Got(n, m) == \A j \in 1 .. n : t[j] \in Range(m)
             K == {p \in (0 .. N) \X V : Got(p[1], p[2])}
  <1>1. N \in Nat /\ DOMAIN t = 1 .. N /\ <<>> \in V /\ \A n \in 1 .. N : t[n] \in Nat
    OBVIOUS
  <1>2. step \in [(1 .. N) \X V -> V]
    <2>1. \A p \in (1 .. N) \X V : Next1(p[2], t[p[1]]) \in V
      BY <1>1
    <2> QED
      BY <2>1
  <1>3. \A q \in SUBSET (1 .. N) : q # {} => Max(q) \in 1 .. N
    BY <1>1, LargestIn
  <1>4. \E h : Is(h)
    <2>1. PICK h \in [SUBSET (1 .. N) -> V] : Folding(N, <<>>, step, h)
      BY <1>1, <1>2, Steps
    <2>2. \A q \in SUBSET (1 .. N) : h[q] = IF q = {} THEN <<>> ELSE Next1(h[q \ {Max(q)}], t[Max(q)])
      <3> HIDE DEF Next1
      <3> QED
        BY <1>3, <2>1 DEF Folding
    <2> HIDE DEF Next1
    <2> QED
      BY <1>1, <2>2
  <1>5. PICK f : f = CHOOSE g : Is(g)
    BY Zenon
  <1>6. Is(f)
    BY <1>4, <1>5, Zenon
  <1>7. EachOnce(t) = f[1 .. N]
    BY <1>1, <1>5 DEF EachOnce, FoldLeft, MapThenFoldSet
  <1>8. f[{}] = <<>> /\ \A q \in SUBSET (1 .. N) : q # {} /\ f[q \ {Max(q)}] \in V =>
                         f[q] = step[<<Max(q), f[q \ {Max(q)}]>>]
    <2> HIDE DEF Next1
    <2> QED
      BY <1>1, <1>3, <1>6
  <1>9. <<0, <<>>>> \in K
    <2>1. 0 \in 0 .. N /\ <<>> \in V /\ Got(0, <<>>)
      BY <1>1
    <2> QED
      BY ONLY <2>1
  <1>10. ASSUME NEW n \in 1 .. N, NEW m \in V, <<n - 1, m>> \in K
         PROVE  <<n, step[<<n, m>>]>> \in K
    <2>1. Got(n - 1, m) /\ t[n] \in Nat
      BY <1>1, <1>10
    <2>2. CASE t[n] \in Range(m)
      BY <2>1, <2>2
    <2>3. CASE t[n] \notin Range(m)
      <3>1. step[<<n, m>>] = Append(m, t[n])
        BY <2>3
      <3>2. /\ Range(m) \subseteq Range(Append(m, t[n])) /\ t[n] \in Range(Append(m, t[n]))
            /\ Append(m, t[n]) \in V /\ Len(Append(m, t[n])) = Len(m) + 1
        BY <2>1, AddedRange, Adding
      <3>3. Got(n, Append(m, t[n]))
        BY <2>1, <3>2
      <3>4. <<n, Append(m, t[n])>> \in (0 .. N) \X V
        <4>1. n \in 0 .. N /\ Append(m, t[n]) \in V
          BY <1>1, <3>2
        <4> QED
          BY ONLY <4>1
      <3> QED
        BY <3>1, <3>3, <3>4
    <2> QED
      BY <2>2, <2>3
  <1>11. f[1 .. N] \in V /\ <<N, f[1 .. N]>> \in K
    <2>1. N \in Nat /\ <<>> \in V
      BY <1>1
    <2> HIDE DEF K, V, N, step
    <2>2. Follows(N, V, <<>>, step, f)
      BY <1>8 DEF Follows
    <2>3. Stays(N, V, <<>>, step, K)
      BY <1>9, <1>10 DEF Stays
    <2> QED
      BY ONLY <1>2, <2>1, <2>2, <2>3, FoldKeeps
  <1>12. Got(N, f[1 .. N])
    BY <1>11
  <1>13. Range(t) \subseteq Range(f[1 .. N])
    BY <1>1, <1>12 DEF Range
  <1> QED
    BY <1>7, <1>11, <1>13

\* The text of both is in the merged one.
LEMMA MergedTextHasBoth ==
    ASSUME NEW s \in Seq(Nat), NEW t \in Seq(Nat), s # <<>>
    PROVE  /\ MergedText(s, t) \in Seq(Nat) /\ MergedText(s, t) # <<>>
           /\ Range(s) \subseteq Range(MergedText(s, t))
           /\ Range(t) \subseteq Range(MergedText(s, t))
  <1>1. Range(s) # {} /\ Range(<<>>) = {}
    <2>1. 1 \in DOMAIN s
      OBVIOUS
    <2> QED
      BY <2>1 DEF Range
  <1>2. CASE Within(t, s)
    BY <1>2, WithinRange DEF MergedText
  <1>3. CASE ~Within(t, s) /\ Within(s, t)
    BY <1>1, <1>3, WithinRange DEF MergedText
  <1>4. CASE ~Within(t, s) /\ ~Within(s, t)
    <2>1. MergedText(s, t) = EachOnce(s \o t)
      BY <1>4 DEF MergedText
    <2>2. s \o t \in Seq(Nat)
      OBVIOUS
    <2>3. Range(s) \subseteq Range(s \o t) /\ Range(t) \subseteq Range(s \o t)
      <3>1. /\ DOMAIN s = 1 .. Len(s) /\ DOMAIN t = 1 .. Len(t) /\ DOMAIN (s \o t) = 1 .. Len(s) + Len(t)
            /\ \A k \in 1 .. Len(s) : (s \o t)[k] = s[k] /\ k \in 1 .. Len(s) + Len(t)
            /\ \A k \in 1 .. Len(t) : (s \o t)[Len(s) + k] = t[k] /\ Len(s) + k \in 1 .. Len(s) + Len(t)
        BY ConcatProperties
      <3> QED
        BY <3>1, Zenon DEF Range
    <2> QED
      BY <1>1, <2>1, <2>2, <2>3, EachIsKept, Zenon
  <1> QED
    BY <1>2, <1>3, <1>4

LEMMA MergedLinesAre ==
    ASSUME NEW p \in Lines, NEW q \in Lines
    PROVE  MergedLines(p, q) \in Lines
  <1>1. CASE p = {} \/ q = {}
    BY <1>1 DEF MergedLines, Lines
  <1>2. CASE p # {} /\ q # {}
    <2>1. PICK a, b, c, d \in Nat : p = {a, b} /\ q = {c, d}
      BY <1>2 DEF Lines
    <2>2. \E x \in p \cup q : \A y \in p \cup q : x >= y
      BY <2>1
    <2>3. Max(p \cup q) \in Nat
      BY <2>1, <2>2 DEF Max
    <2>4. Min(p \cup q) \in Nat
      BY <2>1, SmallestIn
    <2> QED
      BY <1>2, <2>3, <2>4 DEF MergedLines, Lines
  <1> QED
    BY <1>1, <1>2

LEMMA LargerOf ==
    ASSUME NEW a \in Int, NEW b \in Int
    PROVE  Max({a, b}) = IF a >= b THEN a ELSE b
  <1>1. \E x \in {a, b} : \A y \in {a, b} : x >= y
    OBVIOUS
  <1>2. Max({a, b}) \in {a, b} /\ \A y \in {a, b} : Max({a, b}) >= y
    BY <1>1 DEF Max
  <1> QED
    BY <1>2

\* d has all that e has.
Has(d, e) == /\ d.doc = e.doc /\ Range(e.text) \subseteq Range(d.text) /\ e.topics \subseteq d.topics
             /\ d.score >= e.score /\ (e.rank > 0 => d.rank > 0)

LEMMA HasMore ==
    ASSUME NEW a \in Piece, NEW b \in Piece, NEW c \in Piece, Has(a, b), Has(b, c)
    PROVE  Has(a, c)
  BY DEF Has, Piece

\* What is merged has all of both, where the other is no mention, or both are.
LEMMA JoinHasBoth ==
    ASSUME NEW e \in Piece, NEW f \in Piece, e.doc = f.doc
    PROVE  /\ Join(e, f) \in Piece /\ Join(e, f).rank = e.rank /\ Join(e, f).doc = e.doc
           /\ Has(Join(e, f), e)
           /\ Join(e, f).score >= f.score /\ f.topics \subseteq Join(e, f).topics
           /\ Range(f.text) \subseteq Range(Join(e, f).text)
           /\ (f.rank > 0 => e.rank > 0) => Has(Join(e, f), f)
  <1>1. /\ e \in [doc : Int, rank : Nat, text : Seq(Nat), lines : Lines, score : Int, topics : SUBSET Nat]
        /\ e.text \in Seq(Nat) /\ e.text # <<>> /\ f.text \in Seq(Nat) /\ f.text # <<>>
        /\ e.lines \in Lines /\ f.lines \in Lines /\ e.score \in Int /\ f.score \in Int
        /\ e.topics \in SUBSET Nat /\ f.topics \in SUBSET Nat /\ IsFiniteSet(e.topics) /\ IsFiniteSet(f.topics)
    BY DEF Piece
  <1>2. IsFiniteSet(e.topics \cup f.topics)
    BY <1>1, FS_Union
  <1> DEFINE x == MergedText(e.text, f.text)
             l == MergedLines(e.lines, f.lines)
             v == Max({e.score, f.score})
             u == e.topics \cup f.topics
  <1>3. /\ x \in Seq(Nat) /\ x # <<>> /\ Range(e.text) \subseteq Range(x) /\ Range(f.text) \subseteq Range(x)
    BY <1>1, MergedTextHasBoth
  <1>4. l \in Lines
    BY <1>1, MergedLinesAre
  <1>5. v \in Int /\ v >= e.score /\ v >= f.score
    <2>1. e.score \in Int /\ f.score \in Int /\ v = IF e.score >= f.score THEN e.score ELSE f.score
      BY <1>1, LargerOf
    <2> HIDE DEF v
    <2> QED
      BY <2>1
  <1>6. Join(e, f) = [e EXCEPT !.text = x, !.lines = l, !.score = v, !.topics = u]
    BY DEF Join
  <1> HIDE DEF x, l, v
  <1>7. /\ Join(e, f).doc = e.doc /\ Join(e, f).rank = e.rank /\ Join(e, f).text = x
        /\ Join(e, f).lines = l /\ Join(e, f).score = v /\ Join(e, f).topics = u
        /\ Join(e, f) \in [doc : Int, rank : Nat, text : Seq(Nat), lines : Lines, score : Int, topics : SUBSET Nat]
    BY <1>1, <1>3, <1>4, <1>5, <1>6
  <1> QED
    BY <1>1, <1>2, <1>3, <1>5, <1>7 DEF Has, Piece

-----------------------------------------------------------------------------
(* One fragment more.                                                      *)

\* Some fragment of m has all that e has.
Inside(e, m) == \E k \in DOMAIN m : Has(m[k], e)

\* x has all that is in m, and f, and is of their documents.
Grown(m, f, x) ==
    /\ x \in Seq(Piece) /\ Inside(f, x)
    /\ \A k \in DOMAIN m : Inside(m[k], x)
    /\ \A k \in DOMAIN x : x[k].doc = f.doc \/ \E j \in DOMAIN m : x[k].doc = m[j].doc

LEMMA InsideGrown ==
    ASSUME NEW e \in Piece, NEW m \in Seq(Piece), NEW x \in Seq(Piece), Inside(e, m),
           \A k \in DOMAIN m : Inside(m[k], x)
    PROVE  Inside(e, x)
  <1>1. \A q \in Seq(Piece) : \A k \in DOMAIN q : q[k] \in Piece
    OBVIOUS
  <1>2. PICK k \in DOMAIN m : Has(m[k], e)
    BY DEF Inside
  <1>3. PICK j \in DOMAIN x : Has(x[j], m[k])
    BY DEF Inside
  <1> QED
    BY <1>1, <1>2, <1>3, HasMore DEF Inside

LEMMA HasItself ==
    ASSUME NEW e \in Piece
    PROVE  Has(e, e)
  BY DEF Has, Piece

LEMMA AppendGrows ==
    ASSUME NEW m \in Seq(Piece), NEW f \in Piece
    PROVE  Grown(m, f, Append(m, f))
  <1>1. /\ DOMAIN m = 1 .. Len(m) /\ DOMAIN Append(m, f) = 1 .. Len(m) + 1 /\ Len(m) \in Nat
        /\ \A i \in 1 .. Len(m) : Append(m, f)[i] = m[i] /\ m[i] \in Piece
        /\ Append(m, f)[Len(m) + 1] = f /\ Append(m, f) \in Seq(Piece)
    BY Adding
  <1>2. \A i \in 1 .. Len(m) + 1 : i \in 1 .. Len(m) \/ i = Len(m) + 1
    BY <1>1
  <1>3. \A i \in 1 .. Len(m) : i \in 1 .. Len(m) + 1
    BY <1>1
  <1>4. Len(m) + 1 \in 1 .. Len(m) + 1
    BY <1>1
  <1>5. Inside(f, Append(m, f)) /\ \A k \in DOMAIN m : Inside(m[k], Append(m, f))
    BY <1>1, <1>3, <1>4, HasItself, Zenon DEF Inside
  <1>6. \A k \in DOMAIN Append(m, f) :
            Append(m, f)[k].doc = f.doc \/ \E j \in DOMAIN m : Append(m, f)[k].doc = m[j].doc
    BY <1>1, <1>2, Zenon
  <1> QED
    BY <1>1, <1>5, <1>6 DEF Grown

LEMMA ReplaceGrows ==
    ASSUME NEW m \in Seq(Piece), NEW f \in Piece, NEW i \in DOMAIN m, NEW e \in Piece,
           Has(e, m[i]), Has(e, f)
    PROVE  Grown(m, f, [m EXCEPT ![i] = e])
  <1> DEFINE x == [m EXCEPT ![i] = e]
  <1>1. /\ x \in Seq(Piece) /\ DOMAIN x = DOMAIN m
        /\ \A j \in DOMAIN m : x[j] = (IF j = i THEN e ELSE m[j]) /\ m[j] \in Piece
    OBVIOUS
  <1> HIDE DEF x
  <1>2. Inside(f, x)
    BY <1>1 DEF Inside
  <1>3. ASSUME NEW k \in DOMAIN m
        PROVE  Inside(m[k], x)
    <2>1. Has(x[k], m[k])
      BY <1>1, HasItself
    <2> QED
      BY <1>1, <2>1 DEF Inside
  <1>4. e.doc = f.doc
    BY DEF Has
  <1>5. ASSUME NEW k \in DOMAIN x
        PROVE  x[k].doc = f.doc \/ \E j \in DOMAIN m : x[k].doc = m[j].doc
    BY <1>1, <1>4
  <1>6. Grown(m, f, x)
    BY <1>1, <1>2, <1>3, <1>5 DEF Grown
  <1> QED
    BY <1>6 DEF x

LEMMA AdjoinGrows ==
    ASSUME NEW m \in Seq(Piece), NEW f \in Piece
    PROVE  Grown(m, f, Adjoin(m, f))
  <1> DEFINE near == {i \in DOMAIN m : Neighbours(m[i], f)}
             i == Max(near)
  <1>1. Adjoin(m, f) = Append(m, f) \/ (near # {} /\ Adjoin(m, f) = [m EXCEPT ![i] = Join(m[i], f)])
    BY DEF Adjoin
  <1>2. ASSUME near # {}
        PROVE  Grown(m, f, [m EXCEPT ![i] = Join(m[i], f)])
    <2>1. near \subseteq 1 .. Len(m) /\ Len(m) \in Nat /\ DOMAIN m = 1 .. Len(m)
      OBVIOUS
    <2>2. i \in near
      BY <1>2, <2>1, LargestIn
    <2>3. i \in DOMAIN m /\ m[i] \in Piece /\ m[i].doc = f.doc /\ (f.rank > 0 => m[i].rank > 0)
      <3>1. i \in DOMAIN m /\ Neighbours(m[i], f)
        BY <2>2
      <3>2. m[i] \in Piece
        BY <2>2
      <3> HIDE DEF i
      <3> QED
        BY <3>1, <3>2, Zenon DEF Neighbours
    <2> HIDE DEF i, near
    <2> QED
      BY <2>3, JoinHasBoth, ReplaceGrows
  <1> QED
    BY <1>1, <1>2, AppendGrows

LEMMA MentionGrows ==
    ASSUME NEW m \in Seq(Piece), NEW f \in Piece, f.rank = 0
    PROVE  Grown(m, f, Mention(m, f))
  <1> DEFINE same == {j \in DOMAIN m : m[j].doc = f.doc /\ Overlaps(m[j].text, f.text)}
             i == Min(same)
  <1>1. Mention(m, f) = IF same = {} THEN Append(m, f) ELSE [m EXCEPT ![i] = Join(m[i], f)]
    BY DEF Mention
  <1>2. ASSUME same # {}
        PROVE  Grown(m, f, [m EXCEPT ![i] = Join(m[i], f)])
    <2>1. same \subseteq Nat /\ DOMAIN m = 1 .. Len(m)
      OBVIOUS
    <2>2. i \in same
      BY <1>2, <2>1, SmallestIn
    <2>3. i \in DOMAIN m /\ m[i] \in Piece /\ m[i].doc = f.doc /\ ~(f.rank > 0)
      BY <2>1, <2>2
    <2> HIDE DEF i, same
    <2> QED
      BY <2>3, JoinHasBoth, ReplaceGrows
  <1> QED
    BY <1>1, <1>2, AppendGrows

LEMMA OnceGrows ==
    ASSUME NEW m \in Seq(Piece), NEW f \in Piece, f.doc # Target
    PROVE  Grown(m, f, Once(m, f))
  <1> DEFINE same == {j \in DOMAIN m : Same(m[j], f)}
             i == Min(same)
             e == [Join(m[i], f) EXCEPT !.rank = Max({@, f.rank})]
  <1>1. Once(m, f) = IF same = {} THEN Append(m, f) ELSE [m EXCEPT ![i] = e]
    BY DEF Once
  <1>2. ASSUME same # {}
        PROVE  Grown(m, f, [m EXCEPT ![i] = e])
    <2>1. same \subseteq Nat /\ DOMAIN m = 1 .. Len(m)
      OBVIOUS
    <2>2. i \in same
      BY <1>2, <2>1, SmallestIn
    <2>3. i \in DOMAIN m /\ m[i] \in Piece /\ m[i].doc = f.doc
      BY <2>1, <2>2 DEF Same
    <2> DEFINE d == Join(m[i], f)
               r == Max({d.rank, f.rank})
    <2>4. d \in Piece /\ d.rank = m[i].rank /\ Has(d, m[i])
      BY <2>3, JoinHasBoth
    <2>5. d.rank \in Nat /\ f.rank \in Nat
      BY <2>4 DEF Piece
    <2>6. r \in Nat /\ r >= d.rank /\ r >= f.rank
      BY <2>5, LargerOf
    <2>7. /\ f.doc = d.doc /\ Range(f.text) \subseteq Range(d.text) /\ f.topics \subseteq d.topics
          /\ d.score >= f.score
      BY <2>3, JoinHasBoth
    <2>8. e = [d EXCEPT !.rank = r]
      OBVIOUS
    <2> HIDE DEF d, r, e
    <2>9. /\ e \in Piece /\ e.doc = d.doc /\ e.text = d.text /\ e.topics = d.topics
          /\ e.score = d.score /\ e.rank = r
      BY <2>4, <2>6, <2>8 DEF Piece
    <2>10. Has(e, m[i]) /\ Has(e, f)
      <3> HIDE DEF i
      <3>1. m[i].rank > 0 => e.rank > 0
        BY <2>4, <2>5, <2>6, <2>9
      <3>2. f.rank > 0 => e.rank > 0
        BY <2>5, <2>6, <2>9
      <3>3. Has(d, m[i])
        BY <2>4
      <3> QED
        BY <2>7, <2>9, <3>1, <3>2, <3>3 DEF Has
    <2> HIDE DEF i, same
    <2> QED
      BY <2>3, <2>9, <2>10, ReplaceGrows
  <1> QED
    BY <1>1, <1>2, AppendGrows

-----------------------------------------------------------------------------
(* All fragments, one after the other.                                     *)

\* Whatever was found is part of a fragment after neighbours were merged.
LEMMA CoalescedHas ==
    ASSUME NEW fs \in Seq(Piece)
    PROVE  /\ Coalesced(fs) \in Seq(Piece)
           /\ \A i \in DOMAIN fs : Inside(fs[i], Coalesced(fs))
  <1>0. PICK base : base = <<>>
    OBVIOUS
  <1> DEFINE N == Len(fs)
             V == Seq(Piece)
             Step(m, f) == Adjoin(m, f)
             Is(g) == g = [q \in SUBSET DOMAIN fs |->
                             IF q = {} THEN base
                             ELSE LET x == Max(q) IN Step(g[q \ {x}], fs[x])]
             step == [p \in (1 .. N) \X V |-> Step(p[2], fs[p[1]])]
             Got(n, m) == \A j \in 1 .. n : Inside(fs[j], m)
             K == {p \in (0 .. N) \X V : Got(p[1], p[2])}
  <1>1. /\ N \in Nat /\ DOMAIN fs = 1 .. N /\ base \in V
        /\ \A n \in 1 .. N : fs[n] \in Piece
    BY <1>0
  <1>2. ASSUME NEW m \in V, NEW f \in Piece
        PROVE  Grown(m, f, Step(m, f))
    BY AdjoinGrows
  <1>3. step \in [(1 .. N) \X V -> V]
    <2>1. \A p \in (1 .. N) \X V : Step(p[2], fs[p[1]]) \in V
      <3> HIDE DEF Step
      <3> QED
        BY <1>1, <1>2 DEF Grown
    <2> HIDE DEF Step, V
    <2> QED
      BY <2>1
  <1>4. \A q \in SUBSET (1 .. N) : q # {} => Max(q) \in 1 .. N
    BY <1>1, LargestIn
  <1>5. \E h : Is(h)
    <2>1. PICK h \in [SUBSET (1 .. N) -> V] : Folding(N, base, step, h)
      <3> HIDE DEF N, V, step
      <3> QED
        BY <1>1, <1>3, Steps
    <2>2. \A q \in SUBSET (1 .. N) :
              h[q] = IF q = {} THEN base ELSE Step(h[q \ {Max(q)}], fs[Max(q)])
      <3> HIDE DEF Step
      <3> QED
        BY <1>4, <2>1 DEF Folding
    <2> HIDE DEF Step
    <2> QED
      BY <1>1, <2>2
  <1>6. PICK g : g = CHOOSE h : Is(h)
    OBVIOUS
  <1>7. Is(g)
    BY <1>5, <1>6, Zenon
  <1>8. Coalesced(fs) = g[1 .. N]
    BY <1>0, <1>1, <1>6 DEF Coalesced, FoldLeft, MapThenFoldSet
  <1>9. g[{}] = base /\ \A q \in SUBSET (1 .. N) : q # {} /\ g[q \ {Max(q)}] \in V =>
                         g[q] = step[<<Max(q), g[q \ {Max(q)}]>>]
    <2> HIDE DEF Step
    <2> QED
      BY <1>1, <1>4, <1>7
  <1>10. <<0, base>> \in K
    <2>1. Got(0, base)
      BY <1>0, <1>1
    <2>2. <<0, base>> \in (0 .. N) \X V
      BY <1>1
    <2> QED
      BY <2>1, <2>2
  <1>11. ASSUME NEW n \in 1 .. N, NEW m \in V, <<n - 1, m>> \in K
         PROVE  <<n, step[<<n, m>>]>> \in K
    <2> DEFINE x == Step(m, fs[n])
    <2>1. Got(n - 1, m) /\ fs[n] \in Piece /\ x \in V /\ step[<<n, m>>] = x
      <3> HIDE DEF Step
      <3> QED
        BY <1>1, <1>2, <1>11 DEF Grown
    <2>2. Got(n, x)
      <3> HIDE DEF Step
      <3>1. Grown(m, fs[n], x)
        BY <1>2, <2>1
      <3>2. ASSUME NEW j \in 1 .. n
            PROVE  Inside(fs[j], x)
        <4>1. CASE j = n
          BY <3>1, <4>1 DEF Grown
        <4>2. CASE j \in 1 .. n - 1
          BY <1>1, <2>1, <3>1, <4>2, InsideGrown DEF Grown
        <4> QED
          BY <4>1, <4>2
      <3> QED
        BY <3>2
    <2> HIDE DEF Step
    <2>3. <<n, x>> \in (0 .. N) \X V
      <3>1. n \in 0 .. N /\ x \in V
        BY <1>1, <2>1
      <3> QED
        BY ONLY <3>1
    <2> QED
      BY <2>1, <2>2, <2>3
  <1>12. g[1 .. N] \in V /\ <<N, g[1 .. N]>> \in K
    <2>1. N \in Nat /\ base \in V
      BY <1>1
    <2> HIDE DEF K, V, N, step
    <2>2. Follows(N, V, base, step, g)
      BY <1>9 DEF Follows
    <2>3. Stays(N, V, base, step, K)
      BY <1>10, <1>11 DEF Stays
    <2> QED
      BY ONLY <1>3, <2>1, <2>2, <2>3, FoldKeeps
  <1>13. Got(N, g[1 .. N])
    BY <1>12
  <1> QED
    BY <1>1, <1>8, <1>12, <1>13

\* The mentions.
LEMMA MentionsHas ==
    ASSUME NEW fs \in Seq(Piece)
    PROVE  /\ Mentions(fs) \in Seq(Piece)
           /\ \A i \in DOMAIN fs : fs[i].rank > 0 => Inside(fs[i], Mentions(fs))
  <1>0. PICK base : base = <<>>
    OBVIOUS
  <1> DEFINE N == Len(fs)
             V == Seq(Piece)
             Step(m, f) == IF f.rank > 0 THEN Append(m, f) ELSE m
             Is(g) == g = [q \in SUBSET DOMAIN fs |->
                             IF q = {} THEN base
                             ELSE LET x == Max(q) IN Step(g[q \ {x}], fs[x])]
             step == [p \in (1 .. N) \X V |-> Step(p[2], fs[p[1]])]
             Got(n, m) == \A j \in 1 .. n : fs[j].rank > 0 => Inside(fs[j], m)
             K == {p \in (0 .. N) \X V : Got(p[1], p[2])}
  <1>1. /\ N \in Nat /\ DOMAIN fs = 1 .. N /\ base \in V
        /\ \A n \in 1 .. N : fs[n] \in Piece
    BY <1>0
  <1>2. ASSUME NEW m \in V, NEW f \in Piece
        PROVE  IF f.rank > 0 THEN Grown(m, f, Step(m, f)) ELSE Step(m, f) = m
    BY AppendGrows
  <1>3. step \in [(1 .. N) \X V -> V]
    <2>1. \A p \in (1 .. N) \X V : Step(p[2], fs[p[1]]) \in V
      <3> HIDE DEF Step
      <3> QED
        BY <1>1, <1>2 DEF Grown
    <2> HIDE DEF Step, V
    <2> QED
      BY <2>1
  <1>4. \A q \in SUBSET (1 .. N) : q # {} => Max(q) \in 1 .. N
    BY <1>1, LargestIn
  <1>5. \E h : Is(h)
    <2>1. PICK h \in [SUBSET (1 .. N) -> V] : Folding(N, base, step, h)
      <3> HIDE DEF N, V, step
      <3> QED
        BY <1>1, <1>3, Steps
    <2>2. \A q \in SUBSET (1 .. N) :
              h[q] = IF q = {} THEN base ELSE Step(h[q \ {Max(q)}], fs[Max(q)])
      <3> HIDE DEF Step
      <3> QED
        BY <1>4, <2>1 DEF Folding
    <2> HIDE DEF Step
    <2> QED
      BY <1>1, <2>2
  <1>6. PICK g : g = CHOOSE h : Is(h)
    OBVIOUS
  <1>7. Is(g)
    BY <1>5, <1>6, Zenon
  <1>8. Mentions(fs) = g[1 .. N]
    BY <1>0, <1>1, <1>6 DEF Mentions, FoldLeft, MapThenFoldSet
  <1>9. g[{}] = base /\ \A q \in SUBSET (1 .. N) : q # {} /\ g[q \ {Max(q)}] \in V =>
                         g[q] = step[<<Max(q), g[q \ {Max(q)}]>>]
    <2> HIDE DEF Step
    <2> QED
      BY <1>1, <1>4, <1>7
  <1>10. <<0, base>> \in K
    <2>1. Got(0, base)
      BY <1>0, <1>1
    <2>2. <<0, base>> \in (0 .. N) \X V
      BY <1>1
    <2> QED
      BY <2>1, <2>2
  <1>11. ASSUME NEW n \in 1 .. N, NEW m \in V, <<n - 1, m>> \in K
         PROVE  <<n, step[<<n, m>>]>> \in K
    <2> DEFINE x == Step(m, fs[n])
    <2>1. Got(n - 1, m) /\ fs[n] \in Piece /\ x \in V /\ step[<<n, m>>] = x
      <3> HIDE DEF Step
      <3> QED
        BY <1>1, <1>2, <1>11 DEF Grown
    <2>2. Got(n, x)
      <3> HIDE DEF Step
      <3>1. x = m \/ Grown(m, fs[n], x)
        BY <1>2, <2>1
      <3>2. ASSUME NEW j \in 1 .. n, fs[j].rank > 0
            PROVE  Inside(fs[j], x)
        <4>1. CASE j = n
          BY <1>2, <2>1, <3>2, <4>1 DEF Grown
        <4>2. CASE j # n
          <5>1. Inside(fs[j], m)
            BY <2>1, <3>2, <4>2
          <5> QED
            BY <1>1, <2>1, <3>1, <5>1, InsideGrown DEF Grown
        <4> QED
          BY <4>1, <4>2
      <3> QED
        BY <3>2
    <2> HIDE DEF Step
    <2>3. <<n, x>> \in (0 .. N) \X V
      <3>1. n \in 0 .. N /\ x \in V
        BY <1>1, <2>1
      <3> QED
        BY ONLY <3>1
    <2> QED
      BY <2>1, <2>2, <2>3
  <1>12. g[1 .. N] \in V /\ <<N, g[1 .. N]>> \in K
    <2>1. N \in Nat /\ base \in V
      BY <1>1
    <2> HIDE DEF K, V, N, step
    <2>2. Follows(N, V, base, step, g)
      BY <1>9 DEF Follows
    <2>3. Stays(N, V, base, step, K)
      BY <1>10, <1>11 DEF Stays
    <2> QED
      BY ONLY <1>3, <2>1, <2>2, <2>3, FoldKeeps
  <1>13. Got(N, g[1 .. N])
    BY <1>12
  <1> QED
    BY <1>1, <1>8, <1>12, <1>13

\* Whatever was found is part of a fragment after the others were merged into the mentions.
LEMMA MentionedHas ==
    ASSUME NEW fs \in Seq(Piece)
    PROVE  /\ Mentioned(fs) \in Seq(Piece)
           /\ \A i \in DOMAIN fs : Inside(fs[i], Mentioned(fs))
  <1>0. PICK base : base = Mentions(fs)
    OBVIOUS
  <1> DEFINE N == Len(fs)
             V == Seq(Piece)
             Step(m, f) == IF f.rank > 0 THEN m ELSE Mention(m, f)
             Is(g) == g = [q \in SUBSET DOMAIN fs |->
                             IF q = {} THEN base
                             ELSE LET x == Max(q) IN Step(g[q \ {x}], fs[x])]
             step == [p \in (1 .. N) \X V |-> Step(p[2], fs[p[1]])]
             Got(n, m) == \A j \in 1 .. N : j <= n \/ fs[j].rank > 0 => Inside(fs[j], m)
             K == {p \in (0 .. N) \X V : Got(p[1], p[2])}
  <1>1. /\ N \in Nat /\ DOMAIN fs = 1 .. N /\ base \in V
        /\ \A n \in 1 .. N : fs[n] \in Piece
    BY <1>0, MentionsHas
  <1>2. ASSUME NEW m \in V, NEW f \in Piece
        PROVE  IF f.rank > 0 THEN Step(m, f) = m ELSE Grown(m, f, Step(m, f))
    <2>1. f.rank \in Nat
      BY DEF Piece
    <2> QED
      BY <2>1, MentionGrows
  <1>3. step \in [(1 .. N) \X V -> V]
    <2>1. \A p \in (1 .. N) \X V : Step(p[2], fs[p[1]]) \in V
      <3> HIDE DEF Step
      <3> QED
        BY <1>1, <1>2 DEF Grown
    <2> HIDE DEF Step, V
    <2> QED
      BY <2>1
  <1>4. \A q \in SUBSET (1 .. N) : q # {} => Max(q) \in 1 .. N
    BY <1>1, LargestIn
  <1>5. \E h : Is(h)
    <2>1. PICK h \in [SUBSET (1 .. N) -> V] : Folding(N, base, step, h)
      <3> HIDE DEF N, V, step
      <3> QED
        BY <1>1, <1>3, Steps
    <2>2. \A q \in SUBSET (1 .. N) :
              h[q] = IF q = {} THEN base ELSE Step(h[q \ {Max(q)}], fs[Max(q)])
      <3> HIDE DEF Step
      <3> QED
        BY <1>4, <2>1 DEF Folding
    <2> HIDE DEF Step
    <2> QED
      BY <1>1, <2>2
  <1>6. PICK g : g = CHOOSE h : Is(h)
    OBVIOUS
  <1>7. Is(g)
    BY <1>5, <1>6, Zenon
  <1>8. Mentioned(fs) = g[1 .. N]
    BY <1>0, <1>1, <1>6 DEF Mentioned, FoldLeft, MapThenFoldSet
  <1>9. g[{}] = base /\ \A q \in SUBSET (1 .. N) : q # {} /\ g[q \ {Max(q)}] \in V =>
                         g[q] = step[<<Max(q), g[q \ {Max(q)}]>>]
    <2> HIDE DEF Step
    <2> QED
      BY <1>1, <1>4, <1>7
  <1>10. <<0, base>> \in K
    <2>1. Got(0, base)
      BY <1>0, <1>1, MentionsHas
    <2>2. <<0, base>> \in (0 .. N) \X V
      BY <1>1
    <2> QED
      BY <2>1, <2>2
  <1>11. ASSUME NEW n \in 1 .. N, NEW m \in V, <<n - 1, m>> \in K
         PROVE  <<n, step[<<n, m>>]>> \in K
    <2> DEFINE x == Step(m, fs[n])
    <2>1. Got(n - 1, m) /\ fs[n] \in Piece /\ x \in V /\ step[<<n, m>>] = x
      <3> HIDE DEF Step
      <3> QED
        BY <1>1, <1>2, <1>11 DEF Grown
    <2>2. Got(n, x)
      <3> HIDE DEF Step
      <3>1. x = m \/ Grown(m, fs[n], x)
        BY <1>2, <2>1
      <3>2. ASSUME NEW j \in 1 .. N, j <= n \/ fs[j].rank > 0
            PROVE  Inside(fs[j], x)
        <4>1. CASE j = n
          BY <1>2, <2>1, <3>2, <4>1 DEF Grown
        <4>2. CASE j # n
          <5>1. Inside(fs[j], m)
            BY <2>1, <3>2, <4>2
          <5> QED
            BY <1>1, <2>1, <3>1, <5>1, InsideGrown DEF Grown
        <4> QED
          BY <4>1, <4>2
      <3> QED
        BY <3>2
    <2> HIDE DEF Step
    <2>3. <<n, x>> \in (0 .. N) \X V
      <3>1. n \in 0 .. N /\ x \in V
        BY <1>1, <2>1
      <3> QED
        BY ONLY <3>1
    <2> QED
      BY <2>1, <2>2, <2>3
  <1>12. g[1 .. N] \in V /\ <<N, g[1 .. N]>> \in K
    <2>1. N \in Nat /\ base \in V
      BY <1>1
    <2> HIDE DEF K, V, N, step
    <2>2. Follows(N, V, base, step, g)
      BY <1>9 DEF Follows
    <2>3. Stays(N, V, base, step, K)
      BY <1>10, <1>11 DEF Stays
    <2> QED
      BY ONLY <1>3, <2>1, <2>2, <2>3, FoldKeeps
  <1>13. Got(N, g[1 .. N])
    BY <1>12
  <1> QED
    BY <1>1, <1>8, <1>12, <1>13

\* Of other documents, it is part of one of the fragments that are eligible.
LEMMA UniqueHas ==
    ASSUME NEW fs \in Seq(Piece)
    PROVE  /\ Unique(fs) \in Seq(Piece)
           /\ \A i \in DOMAIN fs : fs[i].doc # Target => Inside(fs[i], Unique(fs))
           /\ \A k \in DOMAIN Unique(fs) : Unique(fs)[k].doc # Target
  <1>0. PICK base : base = <<>>
    OBVIOUS
  <1> DEFINE N == Len(fs)
             V == Seq(Piece)
             Step(m, f) == Once(m, f)
             Is(g) == g = [q \in SUBSET DOMAIN fs |->
                             IF q = {} THEN base
                             ELSE LET x == Max(q) IN Step(g[q \ {x}], fs[x])]
             step == [p \in (1 .. N) \X V |-> Step(p[2], fs[p[1]])]
             Got(n, m) == /\ \A j \in 1 .. n : fs[j].doc # Target => Inside(fs[j], m)
                          /\ \A k \in DOMAIN m : m[k].doc # Target
             K == {p \in (0 .. N) \X V : Got(p[1], p[2])}
  <1>1. /\ N \in Nat /\ DOMAIN fs = 1 .. N /\ base \in V
        /\ \A n \in 1 .. N : fs[n] \in Piece
    BY <1>0
  <1>2. ASSUME NEW m \in V, NEW f \in Piece
        PROVE  IF f.doc # Target THEN Grown(m, f, Step(m, f)) ELSE Step(m, f) = m
    BY OnceGrows DEF Once
  <1>3. step \in [(1 .. N) \X V -> V]
    <2>1. \A p \in (1 .. N) \X V : Step(p[2], fs[p[1]]) \in V
      <3> HIDE DEF Step
      <3> QED
        BY <1>1, <1>2 DEF Grown
    <2> HIDE DEF Step, V
    <2> QED
      BY <2>1
  <1>4. \A q \in SUBSET (1 .. N) : q # {} => Max(q) \in 1 .. N
    BY <1>1, LargestIn
  <1>5. \E h : Is(h)
    <2>1. PICK h \in [SUBSET (1 .. N) -> V] : Folding(N, base, step, h)
      <3> HIDE DEF N, V, step
      <3> QED
        BY <1>1, <1>3, Steps
    <2>2. \A q \in SUBSET (1 .. N) :
              h[q] = IF q = {} THEN base ELSE Step(h[q \ {Max(q)}], fs[Max(q)])
      <3> HIDE DEF Step
      <3> QED
        BY <1>4, <2>1 DEF Folding
    <2> HIDE DEF Step
    <2> QED
      BY <1>1, <2>2
  <1>6. PICK g : g = CHOOSE h : Is(h)
    OBVIOUS
  <1>7. Is(g)
    BY <1>5, <1>6, Zenon
  <1>8. Unique(fs) = g[1 .. N]
    BY <1>0, <1>1, <1>6 DEF Unique, FoldLeft, MapThenFoldSet
  <1>9. g[{}] = base /\ \A q \in SUBSET (1 .. N) : q # {} /\ g[q \ {Max(q)}] \in V =>
                         g[q] = step[<<Max(q), g[q \ {Max(q)}]>>]
    <2> HIDE DEF Step
    <2> QED
      BY <1>1, <1>4, <1>7
  <1>10. <<0, base>> \in K
    <2>1. Got(0, base)
      BY <1>0, <1>1
    <2>2. <<0, base>> \in (0 .. N) \X V
      BY <1>1
    <2> QED
      BY <2>1, <2>2
  <1>11. ASSUME NEW n \in 1 .. N, NEW m \in V, <<n - 1, m>> \in K
         PROVE  <<n, step[<<n, m>>]>> \in K
    <2> DEFINE x == Step(m, fs[n])
    <2>1. Got(n - 1, m) /\ fs[n] \in Piece /\ x \in V /\ step[<<n, m>>] = x
      <3> HIDE DEF Step
      <3> QED
        BY <1>1, <1>2, <1>11 DEF Grown
    <2>2. Got(n, x)
      <3> HIDE DEF Step
      <3>1. x = m \/ Grown(m, fs[n], x)
        BY <1>2, <2>1
      <3>2. ASSUME NEW j \in 1 .. n, fs[j].doc # Target
            PROVE  Inside(fs[j], x)
        <4>1. CASE j = n
          BY <1>2, <2>1, <3>2, <4>1 DEF Grown
        <4>2. CASE j # n
          <5>1. Inside(fs[j], m)
            <6>1. j \in 1 .. n - 1
              BY <4>2
            <6>2. \A k \in 1 .. n - 1 : fs[k].doc # Target => Inside(fs[k], m)
              BY <2>1
            <6> QED
              BY <3>2, <6>1, <6>2, Zenon
          <5> QED
            BY <1>1, <2>1, <3>1, <5>1, InsideGrown DEF Grown
        <4> QED
          BY <4>1, <4>2
      <3>3. \A k \in DOMAIN x : x[k].doc # Target
        <4>1. \A k \in DOMAIN m : m[k].doc # Target
          BY <2>1
        <4>2. CASE fs[n].doc = Target
          BY <1>2, <2>1, <4>1, <4>2
        <4>3. CASE fs[n].doc # Target
          <5>1. \A k \in DOMAIN x : x[k].doc = fs[n].doc \/ \E j \in DOMAIN m : x[k].doc = m[j].doc
            BY <1>2, <2>1, <4>3 DEF Grown
          <5> QED
            BY <4>1, <4>3, <5>1
        <4> QED
          BY <4>2, <4>3
      <3> QED
        BY <3>2, <3>3
    <2> HIDE DEF Step
    <2>3. <<n, x>> \in (0 .. N) \X V
      <3>1. n \in 0 .. N /\ x \in V
        BY <1>1, <2>1
      <3> QED
        BY ONLY <3>1
    <2> QED
      BY <2>1, <2>2, <2>3
  <1>12. g[1 .. N] \in V /\ <<N, g[1 .. N]>> \in K
    <2>1. N \in Nat /\ base \in V
      BY <1>1
    <2> HIDE DEF K, V, N, step
    <2>2. Follows(N, V, base, step, g)
      BY <1>9 DEF Follows
    <2>3. Stays(N, V, base, step, K)
      BY <1>10, <1>11 DEF Stays
    <2> QED
      BY ONLY <1>3, <2>1, <2>2, <2>3, FoldKeeps
  <1>13. Got(N, g[1 .. N])
    BY <1>12
  <1> QED
    BY <1>1, <1>8, <1>12, <1>13

-----------------------------------------------------------------------------
(* The order in which they are read.                                       *)

LEMMA FirstIs ==
    ASSUME NEW e \in Piece
    PROVE  First(e) \in Int /\ e.rank \in Int /\ e.score \in Int /\ e.doc \in Int
  <1>1. e.lines \in Lines /\ e.rank \in Int /\ e.score \in Int /\ e.doc \in Int
    BY DEF Piece
  <1>2. e.lines # {} => Min(e.lines) \in Nat
    BY <1>1, SmallestIn DEF Lines
  <1> QED
    BY <1>1, <1>2 DEF First

\* Some are read at any time relative to each other, but there is no circle.
LEMMA BeforeOrders ==
    ASSUME NEW e \in Piece, NEW f \in Piece, NEW g \in Piece
    PROVE  /\ ~(Before(e, f) /\ Before(f, e))
           /\ Before(e, g) => Before(e, f) \/ Before(f, g)
  <1>1. \A x \in {e, f, g} : First(x) \in Int /\ x.rank \in Int /\ x.score \in Int /\ x.doc \in Int
    BY FirstIs
  <1>2. ~(Before(e, f) /\ Before(f, e))
    BY <1>1 DEF Before
  <1>3. ASSUME Before(e, g), ~Before(e, f)
        PROVE  Before(f, g)
    <2>1. e.rank <= f.rank /\ (e.rank = f.rank => e.score <= f.score)
      BY <1>1, <1>3 DEF Before
    <2>2. g.rank <= e.rank /\ (e.rank = g.rank => g.score <= e.score)
      BY <1>1, <1>3 DEF Before
    <2>3. CASE g.rank # f.rank \/ g.score # f.score
      BY <1>1, <2>1, <2>2, <2>3 DEF Before
    <2>4. CASE g.rank = f.rank /\ g.score = f.score
      <3>1. e.rank = f.rank /\ e.score = f.score
        BY <1>1, <2>1, <2>2, <2>4
      <3>2. f.doc <= e.doc /\ (e.doc = f.doc => First(f) <= First(e))
        BY <1>1, <1>3, <3>1 DEF Before
      <3>3. e.doc <= g.doc /\ (e.doc = g.doc => First(e) < First(g))
        BY <1>1, <1>3, <2>4, <3>1 DEF Before
      <3> QED
        BY <1>1, <2>4, <3>2, <3>3 DEF Before
    <2> QED
      BY <2>3, <2>4
  <1> QED
    BY <1>2, <1>3

\* Whatever order they have, no fragment is lost or doubled by sorting.
LEMMA RankedSame ==
    ASSUME NEW fs \in Seq(Piece)
    PROVE  /\ Ranked(fs) \in Seq(Piece) /\ DOMAIN Ranked(fs) = DOMAIN fs
           /\ \A i \in DOMAIN fs : \E n \in DOMAIN fs : Ranked(fs)[n] = fs[i]
           /\ \A n \in DOMAIN fs : \E i \in DOMAIN fs : Ranked(fs)[n] = fs[i]
  <1> DEFINE N == Len(fs)
             D == DOMAIN fs
             Prior(j, i) == Before(fs[j], fs[i]) \/ (j < i /\ ~Before(fs[i], fs[j]))
             earlier(i) == {j \in D : Prior(j, i)}
             rho == [i \in D |-> Cardinality(earlier(i))]
  <1>1. N \in Nat /\ D = 1 .. N /\ \A i \in D : i \in Int /\ fs[i] \in Piece
    OBVIOUS
  <1>2. IsFiniteSet(D) /\ Cardinality(D) = N /\ Cardinality(0 .. N - 1) = N /\ IsFiniteSet(0 .. N - 1)
    <2>1. IsFiniteSet(1 .. N) /\ Cardinality(1 .. N) = N
      BY ONLY N \in Nat, FS_Interval
    <2>2. IsFiniteSet(0 .. N - 1) /\ Cardinality(0 .. N - 1) = N
      <3>1. N - 1 \in Int /\ 0 \in Int /\ (IF 0 > N - 1 THEN 0 ELSE (N - 1) - 0 + 1) = N
        BY <1>1
      <3> QED
        BY ONLY <3>1, FS_Interval
    <2> QED
      BY <1>1, <2>1, <2>2
  <1>3. ASSUME NEW i \in D, NEW j \in D, i # j
        PROVE  (Prior(i, j) \/ Prior(j, i)) /\ ~(Prior(i, j) /\ Prior(j, i)) /\ ~Prior(i, i)
    <2>1. ~(Before(fs[i], fs[j]) /\ Before(fs[j], fs[i])) /\ ~Before(fs[i], fs[i])
      BY <1>1, BeforeOrders
    <2>2. i \in Int /\ j \in Int
      BY <1>1
    <2> QED
      BY <1>3, <2>1, <2>2
  <1>4. ASSUME NEW i \in D, NEW j \in D, NEW k \in D, Prior(k, j), Prior(j, i)
        PROVE  Prior(k, i)
    <2>1. /\ Before(fs[k], fs[j]) => Before(fs[k], fs[i]) \/ Before(fs[i], fs[j])
          /\ Before(fs[j], fs[i]) => Before(fs[j], fs[k]) \/ Before(fs[k], fs[i])
          /\ Before(fs[i], fs[k]) => Before(fs[i], fs[j]) \/ Before(fs[j], fs[k])
          /\ ~(Before(fs[i], fs[j]) /\ Before(fs[j], fs[i]))
          /\ ~(Before(fs[k], fs[j]) /\ Before(fs[j], fs[k]))
      BY <1>1, BeforeOrders
    <2>2. i \in Int /\ j \in Int /\ k \in Int
      BY <1>1
    <2> QED
      BY <1>4, <2>1, <2>2
  <1>5. ASSUME NEW i \in D
        PROVE  IsFiniteSet(earlier(i)) /\ Cardinality(earlier(i)) \in 0 .. N - 1
    <2>1. i \notin earlier(i)
      BY <1>1, BeforeOrders
    <2>2. earlier(i) \subseteq D \ {i}
      BY <2>1
    <2>3. IsFiniteSet(D \ {i}) /\ Cardinality(D \ {i}) = N - 1
      BY <1>2, FS_RemoveElement
    <2> HIDE DEF earlier
    <2>4. IsFiniteSet(earlier(i)) /\ Cardinality(earlier(i)) <= N - 1 /\ Cardinality(earlier(i)) \in Nat
      BY <2>2, <2>3, FS_Subset, FS_CardinalityType
    <2> QED
      BY <1>1, <2>4
  <1>6. ASSUME NEW i \in D, NEW j \in D, Prior(j, i)
        PROVE  Cardinality(earlier(j)) < Cardinality(earlier(i))
    <2>1. earlier(j) \subseteq earlier(i) /\ j \in earlier(i)
      BY <1>4, <1>6
    <2>2. j \notin earlier(j)
      BY <1>1, BeforeOrders
    <2>3. earlier(j) \subseteq earlier(i) \ {j}
      BY <2>1, <2>2
    <2> HIDE DEF earlier
    <2>4. /\ IsFiniteSet(earlier(i)) /\ Cardinality(earlier(i)) \in Nat
          /\ IsFiniteSet(earlier(j)) /\ Cardinality(earlier(j)) \in Nat
      BY <1>1, <1>5
    <2>5. IsFiniteSet(earlier(i) \ {j}) /\ Cardinality(earlier(i) \ {j}) = Cardinality(earlier(i)) - 1
      BY <2>1, <2>4, FS_RemoveElement
    <2>6. Cardinality(earlier(j)) <= Cardinality(earlier(i) \ {j})
      BY <2>3, <2>5, FS_Subset
    <2> QED
      BY <2>4, <2>5, <2>6
  <1>7. \A i \in D, j \in D : rho[i] = rho[j] => i = j
    <2> SUFFICES ASSUME NEW i \in D, NEW j \in D, i # j
                 PROVE  rho[i] # rho[j]
      OBVIOUS
    <2>1. Prior(i, j) \/ Prior(j, i)
      BY <1>3
    <2> HIDE DEF earlier, Prior
    <2>2. Cardinality(earlier(i)) \in Nat /\ Cardinality(earlier(j)) \in Nat
      BY <1>1, <1>5
    <2>3. Cardinality(earlier(i)) < Cardinality(earlier(j)) \/ Cardinality(earlier(j)) < Cardinality(earlier(i))
      BY <1>6, <2>1
    <2> QED
      BY <2>2, <2>3
  <1>8. \A n \in D : \E i \in D : rho[i] = n - 1
    <2>1. rho \in [D -> 0 .. N - 1]
      <3> HIDE DEF earlier
      <3> QED
        BY <1>5
    <2> HIDE DEF rho, D
    <2>2. rho \in Injection(D, 0 .. N - 1)
      BY <1>7, <2>1 DEF Injection, IsInjective
    <2>3. rho \in Surjection(D, 0 .. N - 1)
      BY <1>2, <2>2, FS_Injection
    <2>4. \A n \in D : n - 1 \in 0 .. N - 1
      BY <1>1
    <2> QED
      BY <2>3, <2>4 DEF Surjection
  <1> DEFINE pick(n) == CHOOSE i \in D : Cardinality(earlier(i)) = n - 1
  <1>9. Ranked(fs) = [n \in D |-> fs[pick(n)]]
    BY Zenon DEF Ranked
  <1>10. \A n \in D : pick(n) \in D /\ rho[pick(n)] = n - 1
    <2> HIDE DEF earlier
    <2> QED
      BY <1>8
  <1> HIDE DEF rho, pick
  <1>11. ASSUME NEW i \in D
         PROVE  \E n \in D : Ranked(fs)[n] = fs[i]
    <2>1. rho[i] \in 0 .. N - 1
      <3> HIDE DEF earlier
      <3> QED
        BY <1>5 DEF rho
    <2>2. rho[i] + 1 \in D /\ (rho[i] + 1) - 1 = rho[i]
      BY <1>1, <2>1
    <2>3. pick(rho[i] + 1) = i
      BY <1>7, <1>10, <2>2
    <2>4. Ranked(fs)[rho[i] + 1] = fs[i]
      BY <1>9, <2>2, <2>3
    <2> QED
      BY <2>2, <2>4
  <1>12. DOMAIN Ranked(fs) = D /\ \A n \in D : \E i \in D : Ranked(fs)[n] = fs[i]
    BY <1>9, <1>10
  <1>13. Ranked(fs) \in Seq(Piece)
    <2>1. Ranked(fs) \in [1 .. N -> Piece]
      BY <1>1, <1>9, <1>10
    <2> QED
      BY <1>1, <2>1
  <1> QED
    BY <1>11, <1>12, <1>13

\* What was found of other documents is part of a fragment that is eligible; those of the
\* entity's own are not.
LEMMA EligibleHas ==
    ASSUME NEW fs \in Seq(Piece)
    PROVE  /\ Eligible(fs) \in Seq(Piece)
           /\ \A i \in DOMAIN fs : fs[i].doc # Target => Inside(fs[i], Eligible(fs))
           /\ \A k \in DOMAIN Eligible(fs) : Eligible(fs)[k].doc # Target
  <1>1. PICK a : a = Coalesced(fs)
    OBVIOUS
  <1>2. PICK b : b = Mentioned(a)
    OBVIOUS
  <1>3. PICK c : c = Unique(b)
    OBVIOUS
  <1>4. PICK d : d = Ranked(c)
    OBVIOUS
  <1>5. Eligible(fs) = d
    BY <1>1, <1>2, <1>3, <1>4 DEF Eligible
  <1>6. a \in Seq(Piece) /\ \A i \in DOMAIN fs : Inside(fs[i], a)
    BY <1>1, CoalescedHas
  <1>7. b \in Seq(Piece) /\ \A i \in DOMAIN a : Inside(a[i], b)
    BY <1>2, <1>6, MentionedHas
  <1>8. /\ c \in Seq(Piece) /\ \A i \in DOMAIN b : b[i].doc # Target => Inside(b[i], c)
        /\ \A k \in DOMAIN c : c[k].doc # Target
    BY <1>3, <1>7, UniqueHas
  <1>9. /\ d \in Seq(Piece) /\ DOMAIN d = DOMAIN c
        /\ \A i \in DOMAIN c : \E n \in DOMAIN c : d[n] = c[i]
        /\ \A n \in DOMAIN c : \E i \in DOMAIN c : d[n] = c[i]
    BY <1>4, <1>8, RankedSame
  <1>10. ASSUME NEW k \in DOMAIN d
         PROVE  d[k].doc # Target
    <2>1. PICK i \in DOMAIN c : d[k] = c[i]
      BY <1>9, Zenon
    <2> QED
      BY <1>8, <2>1, Zenon
  <1>11. ASSUME NEW i \in DOMAIN fs, fs[i].doc # Target
         PROVE  Inside(fs[i], d)
    <2>1. fs[i] \in Piece /\ \A q \in Seq(Piece) : \A k \in DOMAIN q : q[k] \in Piece
      OBVIOUS
    <2>2. Inside(fs[i], b)
      BY <1>6, <1>7, <2>1, InsideGrown
    <2>3. PICK k \in DOMAIN b : Has(b[k], fs[i])
      BY <2>2 DEF Inside
    <2>4. b[k].doc # Target
      BY <1>11, <2>3 DEF Has
    <2>5. PICK j \in DOMAIN c : Has(c[j], b[k])
      BY <1>8, <2>4 DEF Inside
    <2>6. Has(c[j], fs[i])
      BY <1>7, <1>8, <2>1, <2>3, <2>5, HasMore
    <2> QED
      BY <1>9, <2>6 DEF Inside
  <1> QED
    BY <1>5, <1>9, <1>10, <1>11

-----------------------------------------------------------------------------
(* Sums.                                                                   *)

OneOf(s) == CHOOSE x \in s : TRUE

LEMMA OneLess ==
    ASSUME NEW S, IsFiniteSet(S), NEW s \in SUBSET S, s # {}
    PROVE  /\ OneOf(s) \in s /\ s \ {OneOf(s)} \in SUBSET S /\ IsFiniteSet(s)
           /\ Cardinality(s) \in Nat \ {0} /\ Cardinality(s \ {OneOf(s)}) = Cardinality(s) - 1
  <1>1. OneOf(s) \in s
    BY DEF OneOf
  <1>2. IsFiniteSet(s)
    BY FS_Subset
  <1>3. Cardinality(s) \in Nat /\ Cardinality(s) # 0
    BY <1>2, FS_CardinalityType, FS_EmptySet
  <1>4. Cardinality(s \ {OneOf(s)}) = Cardinality(s) - 1
    BY <1>1, <1>2, FS_RemoveElement
  <1> QED
    BY <1>1, <1>2, <1>3, <1>4

\* What the empty set is in, and a set when it is without one of its elements, all are in.
LEMMA Subsets ==
    ASSUME NEW S, IsFiniteSet(S), NEW T, {} \in T,
           \A s \in SUBSET S : s # {} /\ s \ {OneOf(s)} \in T => s \in T
    PROVE  \A s \in SUBSET S : s \in T
  <1> DEFINE L == {n \in Nat : \E s \in SUBSET S : s \notin T /\ Cardinality(s) = n}
  <1> SUFFICES ASSUME NEW z \in SUBSET S, z \notin T
               PROVE  FALSE
    OBVIOUS
  <1>1. L # {}
    <2>1. z # {}
      OBVIOUS
    <2>2. Cardinality(z) \in Nat
      BY <2>1, OneLess
    <2> QED
      BY <2>2
  <1>2. PICK least : least \in L /\ \A y \in L : least <= y
    <2>1. L \subseteq Nat
      OBVIOUS
    <2> HIDE DEF L
    <2> QED
      BY <1>1, <2>1, LeastOf
  <1>3. PICK s \in SUBSET S : s \notin T /\ Cardinality(s) = least
    BY <1>2
  <1>4. /\ s # {} /\ s \ {OneOf(s)} \in SUBSET S /\ Cardinality(s) \in Nat \ {0}
        /\ Cardinality(s \ {OneOf(s)}) = Cardinality(s) - 1
    BY <1>3, OneLess
  <1>5. s \ {OneOf(s)} \notin T
    BY <1>3, <1>4
  <1>6. Cardinality(s) - 1 \in L
    BY <1>4, <1>5
  <1> QED
    BY <1>2, <1>3, <1>4, <1>6

\* The function by which a sum is defined.
Summing(S, w, f) ==
    \A s \in SUBSET S : f[s] = IF s = {} THEN 0 ELSE w[OneOf(s)] + f[s \ {OneOf(s)}]

SumRun(S, w, f) ==
    f = [s \in SUBSET S |-> IF s = {} THEN 0 ELSE w[OneOf(s)] + f[s \ {OneOf(s)}]]

LEMMA Sums ==
    ASSUME NEW S, IsFiniteSet(S), NEW w \in [S -> Nat]
    PROVE  \E f : SumRun(S, w, f)
  <1> DEFINE Up(n) == {s \in SUBSET S : Cardinality(s) <= n}
             Is(n, f) == f = [s \in Up(n) |-> IF s = {} THEN 0 ELSE w[OneOf(s)] + f[s \ {OneOf(s)}]]
             T == {n \in Nat : \E f : Is(n, f)}
  <1>1. 0 \in T
    <2>1. ASSUME NEW s \in SUBSET S, s # {}
          PROVE  ~(Cardinality(s) <= 0)
      <3>1. Cardinality(s) \in Nat \ {0}
        BY <2>1, OneLess
      <3> QED
        BY <3>1
    <2>2. Is(0, [s \in Up(0) |-> 0])
      BY <2>1
    <2> QED
      BY <2>2
  <1>2. ASSUME NEW n \in Nat \ {0}, n - 1 \in T
        PROVE  n \in T
    <2>1. PICK f : Is(n - 1, f)
      BY <1>2
    <2> DEFINE g == [s \in Up(n) |-> IF s = {} THEN 0 ELSE w[OneOf(s)] + f[s \ {OneOf(s)}]]
    <2>2. ASSUME NEW s \in Up(n), s # {}
          PROVE  g[s \ {OneOf(s)}] = f[s \ {OneOf(s)}]
      <3>1. s \ {OneOf(s)} \in Up(n - 1) /\ s \ {OneOf(s)} \in Up(n)
        BY <2>2, OneLess
      <3> HIDE DEF Up
      <3> QED
        BY <2>1, <3>1
    <2>3. Is(n, g)
      <3> HIDE DEF Up
      <3>1. \A s \in Up(n) : g[s] = IF s = {} THEN 0 ELSE w[OneOf(s)] + g[s \ {OneOf(s)}]
        BY <2>2
      <3>2. g = [s \in Up(n) |-> g[s]]
        OBVIOUS
      <3> HIDE DEF g
      <3> QED
        BY <3>1, <3>2
    <2> HIDE DEF g, Is
    <2> QED
      BY <2>3
  <1>3. Cardinality(S) \in Nat /\ Up(Cardinality(S)) = SUBSET S
    BY FS_Subset, FS_CardinalityType
  <1>4. Cardinality(S) \in T
    <2> HIDE DEF T
    <2> QED
      BY <1>1, <1>2, <1>3, Counting
  <1>5. PICK f : Is(Cardinality(S), f)
    BY <1>4
  <1>6. SumRun(S, w, f)
    BY <1>3, <1>5 DEF SumRun
  <1> QED
    BY <1>6

\* A sum over some elements is a number.
LEMMA SumOver ==
    ASSUME NEW S, IsFiniteSet(S), NEW w \in [S -> Nat], NEW f, SumRun(S, w, f)
    PROVE  Summing(S, w, f) /\ \A s \in SUBSET S : f[s] \in Nat
  <1>1. Summing(S, w, f)
    BY DEF Summing, SumRun
  <1> DEFINE T == {s \in SUBSET S : f[s] \in Nat}
  <1>2. {} \in T
    BY <1>1 DEF Summing
  <1>3. ASSUME NEW s \in SUBSET S, s # {}, s \ {OneOf(s)} \in T
        PROVE  s \in T
    <2>1. w[OneOf(s)] \in Nat
      BY <1>3, OneLess
    <2>2. f[s] = w[OneOf(s)] + f[s \ {OneOf(s)}]
      BY <1>1, <1>3 DEF Summing
    <2> QED
      BY <1>3, <2>1, <2>2
  <1>4. \A s \in SUBSET S : s \in T
    <2> HIDE DEF T
    <2> QED
      BY <1>2, <1>3, Subsets
  <1> QED
    BY <1>1, <1>4

LEMMA SumIs ==
    ASSUME NEW S, IsFiniteSet(S), NEW w \in [S -> Nat]
    PROVE  \E f : /\ Summing(S, w, f) /\ \A s \in SUBSET S : f[s] \in Nat
                  /\ Sum(w) = f[S]
  <1>1. PICK f : f = CHOOSE g : SumRun(S, w, g)
    OBVIOUS
  <1>2. SumRun(S, w, f)
    BY <1>1, Sums
  <1>3. DOMAIN w = S
    OBVIOUS
  <1>4. Sum(w) = f[S]
    BY <1>1, <1>3 DEF Sum, SumRun, FoldSet, MapThenFoldSet, OneOf
  <1> QED
    BY <1>2, <1>4, SumOver

\* What one element is given more, the sum is more.
LEMMA SumChanged ==
    ASSUME NEW S, IsFiniteSet(S), NEW w \in [S -> Nat], NEW i \in S, NEW v \in Nat
    PROVE  Sum(w) \in Nat /\ Sum([w EXCEPT ![i] = v]) = Sum(w) - w[i] + v
  <1> DEFINE u == [w EXCEPT ![i] = v]
  <1>1. u \in [S -> Nat] /\ u[i] = v /\ \A j \in S : j # i => u[j] = w[j]
    OBVIOUS
  <1>2. PICK f : Summing(S, w, f) /\ (\A s \in SUBSET S : f[s] \in Nat) /\ Sum(w) = f[S]
    BY SumIs
  <1>3. PICK g : Summing(S, u, g) /\ (\A s \in SUBSET S : g[s] \in Nat) /\ Sum(u) = g[S]
    <2> HIDE DEF u
    <2> QED
      BY <1>1, SumIs
  <1> HIDE DEF u
  <1> DEFINE T == {s \in SUBSET S : g[s] = IF i \in s THEN f[s] - w[i] + v ELSE f[s]}
  <1>4. {} \in T
    BY <1>2, <1>3 DEF Summing
  <1>5. ASSUME NEW s \in SUBSET S, s # {}, s \ {OneOf(s)} \in T
        PROVE  s \in T
    <2>1. OneOf(s) \in s /\ s \ {OneOf(s)} \in SUBSET S
      BY <1>5, OneLess
    <2>2. f[s] = w[OneOf(s)] + f[s \ {OneOf(s)}] /\ g[s] = u[OneOf(s)] + g[s \ {OneOf(s)}]
      BY <1>2, <1>3, <1>5 DEF Summing
    <2>3. /\ f[s \ {OneOf(s)}] \in Nat /\ g[s \ {OneOf(s)}] \in Nat
          /\ w[OneOf(s)] \in Nat /\ u[OneOf(s)] \in Nat /\ w[i] \in Nat
      BY <1>1, <1>2, <1>3, <2>1
    <2>4. CASE OneOf(s) = i
      BY <1>1, <1>5, <2>1, <2>2, <2>3, <2>4
    <2>5. CASE OneOf(s) # i
      BY <1>1, <1>5, <2>1, <2>2, <2>3, <2>5
    <2> QED
      BY <2>4, <2>5
  <1>6. \A s \in SUBSET S : s \in T
    <2> HIDE DEF T
    <2> QED
      BY <1>4, <1>5, Subsets
  <1>7. Sum(u) = Sum(w) - w[i] + v /\ Sum(w) \in Nat
    BY <1>2, <1>3, <1>6
  <1> QED
    BY <1>7 DEF u

LEMMA NothingSummed ==
    ASSUME NEW S, IsFiniteSet(S)
    PROVE  Sum([i \in S |-> 0]) = 0
  <1> DEFINE w == [i \in S |-> 0]
  <1>1. w \in [S -> Nat] /\ \A i \in S : w[i] = 0
    OBVIOUS
  <1> HIDE DEF w
  <1>2. PICK f : Summing(S, w, f) /\ Sum(w) = f[S]
    BY <1>1, SumIs
  <1> DEFINE T == {s \in SUBSET S : f[s] = 0}
  <1>3. {} \in T
    BY <1>2 DEF Summing
  <1>4. ASSUME NEW s \in SUBSET S, s # {}, s \ {OneOf(s)} \in T
        PROVE  s \in T
    <2>1. OneOf(s) \in S
      BY <1>4, OneLess
    <2>2. f[s] = w[OneOf(s)] + f[s \ {OneOf(s)}]
      BY <1>2, <1>4 DEF Summing
    <2> QED
      BY <1>1, <1>4, <2>1, <2>2
  <1>5. \A s \in SUBSET S : s \in T
    <2> HIDE DEF T
    <2> QED
      BY <1>3, <1>4, Subsets
  <1>6. Sum(w) = 0
    BY <1>2, <1>5
  <1> QED
    BY <1>6 DEF w

-----------------------------------------------------------------------------
(* The selection.                                                          *)

OfDocument(es, t, d) == {j \in Taken(t) : es[j].doc = d}

\* What is taken keeps the limits.
Good(es, t) ==
    /\ t \in [DOMAIN es -> Nat]
    /\ Sum(t) <= MaxTotal /\ Cardinality(Taken(t)) <= MaxFragments
    /\ \A i \in DOMAIN es : t[i] <= MaxText
    /\ \A d : Cardinality(OfDocument(es, t, d)) <= MaxPerDoc

\* A limit is reached that keeps the i-th fragment out.
Reached(es, t, i) ==
    \/ Sum(t) = MaxTotal \/ Cardinality(Taken(t)) = MaxFragments
    \/ Cardinality(OfDocument(es, t, es[i].doc)) = MaxPerDoc

LEMMA Counts ==
    ASSUME NEW es \in Seq(Piece), NEW t \in [DOMAIN es -> Nat]
    PROVE  /\ IsFiniteSet(DOMAIN es) /\ Sum(t) \in Nat
           /\ Taken(t) \subseteq DOMAIN es /\ IsFiniteSet(Taken(t)) /\ Cardinality(Taken(t)) \in Nat
           /\ \A d : IsFiniteSet(OfDocument(es, t, d)) /\ Cardinality(OfDocument(es, t, d)) \in Nat
  <1>1. DOMAIN es = 1 .. Len(es) /\ Len(es) \in Nat /\ DOMAIN t = DOMAIN es
    OBVIOUS
  <1>2. IsFiniteSet(DOMAIN es)
    <2>1. IsFiniteSet(1 .. Len(es))
      BY <1>1, FS_Interval
    <2> QED
      BY <1>1, <2>1
  <1>3. Taken(t) \subseteq DOMAIN es
    BY <1>1 DEF Taken
  <1>4. IsFiniteSet(Taken(t)) /\ Cardinality(Taken(t)) \in Nat
    BY <1>2, <1>3, FS_Subset, FS_CardinalityType
  <1>5. ASSUME NEW d
        PROVE  IsFiniteSet(OfDocument(es, t, d)) /\ Cardinality(OfDocument(es, t, d)) \in Nat
    <2>1. OfDocument(es, t, d) \subseteq Taken(t)
      BY DEF OfDocument
    <2> QED
      BY <1>4, <2>1, FS_Subset, FS_CardinalityType
  <1>6. Sum(t) \in Nat
    <2>1. PICK f : (\A s \in SUBSET DOMAIN es : f[s] \in Nat) /\ Sum(t) = f[DOMAIN es]
      BY <1>2, SumIs
    <2> QED
      BY <2>1
  <1> QED
    BY <1>2, <1>3, <1>4, <1>5, <1>6

\* The smallest of a fragment's length, its limit and what is left of the whole.
LEMMA SmallestOfThree ==
    ASSUME NEW a \in Nat \ {0}, NEW b \in Nat \ {0}, NEW c \in Nat
    PROVE  /\ Smaller(a, Smaller(b, c)) \in Nat
           /\ Smaller(a, Smaller(b, c)) <= b /\ Smaller(a, Smaller(b, c)) <= c
           /\ Smaller(a, Smaller(b, c)) = 0 => c = 0
  BY DEF Smaller

\* How much more of a fragment may be taken.
LEMMA RoomIs ==
    ASSUME Sane, NEW es \in Seq(Piece), NEW t, Good(es, t), NEW i \in DOMAIN es
    PROVE  /\ Room(es, t, i) \in Nat /\ Room(es, t, i) <= MaxText
           /\ Sum(t) + Room(es, t, i) <= MaxTotal
           /\ Room(es, t, i) = 0 => Reached(es, t, i)
           /\ Room(es, t, i) > 0 => /\ Cardinality(Taken(t)) < MaxFragments
                                    /\ Cardinality(OfDocument(es, t, es[i].doc)) < MaxPerDoc
  <1>1. /\ t \in [DOMAIN es -> Nat] /\ Sum(t) <= MaxTotal /\ Cardinality(Taken(t)) <= MaxFragments
        /\ Cardinality(OfDocument(es, t, es[i].doc)) <= MaxPerDoc
    BY DEF Good
  <1>2. /\ Sum(t) \in Nat /\ Cardinality(Taken(t)) \in Nat
        /\ Cardinality(OfDocument(es, t, es[i].doc)) \in Nat
    BY <1>1, Counts
  <1>3. MaxTotal \in Nat /\ MaxFragments \in Nat /\ MaxPerDoc \in Nat /\ MaxText \in Nat \ {0}
    BY DEF Sane
  <1>4. Len(es[i].text) \in Nat \ {0}
    <2>1. es[i] \in Piece
      OBVIOUS
    <2>2. es[i].text \in Seq(Nat) /\ es[i].text # <<>>
      BY <2>1 DEF Piece
    <2> QED
      BY <2>2
  <1>5. Room(es, t, i) =
            IF \/ Cardinality(Taken(t)) >= MaxFragments
               \/ Cardinality(OfDocument(es, t, es[i].doc)) >= MaxPerDoc
            THEN 0 ELSE Smaller(Len(es[i].text), Smaller(MaxText, MaxTotal - Sum(t)))
    BY DEF Room, OfDocument
  <1>6. CASE \/ Cardinality(Taken(t)) >= MaxFragments
             \/ Cardinality(OfDocument(es, t, es[i].doc)) >= MaxPerDoc
    BY <1>1, <1>2, <1>3, <1>5, <1>6 DEF Reached
  <1>7. CASE /\ ~(Cardinality(Taken(t)) >= MaxFragments)
             /\ ~(Cardinality(OfDocument(es, t, es[i].doc)) >= MaxPerDoc)
    <2>1. Room(es, t, i) = Smaller(Len(es[i].text), Smaller(MaxText, MaxTotal - Sum(t)))
      BY <1>5, <1>7
    <2>2. MaxTotal - Sum(t) \in Nat
      BY <1>1, <1>2, <1>3
    <2>3. /\ Room(es, t, i) \in Nat /\ Room(es, t, i) <= MaxText /\ Room(es, t, i) <= MaxTotal - Sum(t)
          /\ Room(es, t, i) = 0 => MaxTotal - Sum(t) = 0
      <3>1. \A a \in Nat \ {0} : \A b \in Nat \ {0} : \A c \in Nat :
                LET n == Smaller(a, Smaller(b, c)) IN n \in Nat /\ n <= b /\ n <= c /\ (n = 0 => c = 0)
        BY SmallestOfThree
      <3>2. LET n == Smaller(Len(es[i].text), Smaller(MaxText, MaxTotal - Sum(t)))
            IN  n \in Nat /\ n <= MaxText /\ n <= MaxTotal - Sum(t) /\ (n = 0 => MaxTotal - Sum(t) = 0)
        BY <1>3, <1>4, <2>2, <3>1, Zenon
      <3> QED
        BY <2>1, <3>2, Zenon
    <2>4. Sum(t) + Room(es, t, i) <= MaxTotal
      BY <1>2, <1>3, <2>3
    <2>5. ASSUME Room(es, t, i) = 0
          PROVE  Reached(es, t, i)
      <3>1. Sum(t) = MaxTotal
        BY <1>1, <1>2, <1>3, <2>3, <2>5
      <3> QED
        BY <3>1 DEF Reached
    <2>6. Cardinality(Taken(t)) < MaxFragments /\ Cardinality(OfDocument(es, t, es[i].doc)) < MaxPerDoc
      BY <1>2, <1>3, <1>7
    <2> QED
      BY <2>3, <2>4, <2>5, <2>6
  <1> QED
    BY <1>6, <1>7

\* x has all that is taken in t, and keeps the limits.
More(es, t, x) ==
    /\ Good(es, x) /\ \A j \in DOMAIN es : (t[j] > 0 => x[j] > 0) /\ (Reached(es, t, j) => Reached(es, x, j))

LEMMA AddKeeps ==
    ASSUME Sane, NEW es \in Seq(Piece), NEW t, Good(es, t), NEW i \in DOMAIN es
    PROVE  /\ More(es, t, Add(es, t, i))
           /\ Add(es, t, i)[i] > 0 \/ Reached(es, Add(es, t, i), i)
  <1> DEFINE v == Room(es, t, i)
             x == [t EXCEPT ![i] = v]
  <1>1. t \in [DOMAIN es -> Nat]
    BY DEF Good
  <1>2. More(es, t, t)
    BY DEF More
  <1>3. CASE t[i] > 0
    BY <1>2, <1>3 DEF Add
  <1>4. CASE ~(t[i] > 0) /\ v = 0
    <2>1. t[i] = 0
      BY <1>1, <1>4
    <2>2. Add(es, t, i) = [t EXCEPT ![i] = 0]
      BY <1>4 DEF Add
    <2>3. Add(es, t, i) = t
      BY <1>1, <2>1, <2>2
    <2> QED
      BY <1>2, <1>4, <2>3, RoomIs
  <1>5. CASE ~(t[i] > 0) /\ v # 0
    <2>1. t[i] = 0 /\ Add(es, t, i) = x
      BY <1>1, <1>5 DEF Add
    <2>2. /\ v \in Nat /\ v > 0 /\ v <= MaxText /\ Sum(t) + v <= MaxTotal
          /\ Cardinality(Taken(t)) < MaxFragments
          /\ Cardinality(OfDocument(es, t, es[i].doc)) < MaxPerDoc
      BY <1>5, RoomIs
    <2> HIDE DEF v
    <2>3. /\ x \in [DOMAIN es -> Nat] /\ x[i] = v /\ \A j \in DOMAIN es : j # i => x[j] = t[j]
      BY <1>1, <2>2
    <2>4. Sum(x) = Sum(t) + v /\ Sum(t) \in Nat
      <3>1. Sum(x) = Sum(t) - t[i] + v /\ Sum(t) \in Nat
        BY <1>1, <2>2, Counts, SumChanged
      <3> QED
        BY <2>1, <2>2, <3>1
    <2> HIDE DEF x
    <2>5. Taken(x) = Taken(t) \cup {i} /\ i \notin Taken(t)
      BY <1>1, <2>1, <2>2, <2>3 DEF Taken
    <2>6. /\ IsFiniteSet(Taken(t)) /\ Cardinality(Taken(t)) \in Nat
          /\ \A d : IsFiniteSet(OfDocument(es, t, d)) /\ Cardinality(OfDocument(es, t, d)) \in Nat
      BY <1>1, Counts
    <2>7. Cardinality(Taken(x)) = Cardinality(Taken(t)) + 1
      BY <2>5, <2>6, FS_AddElement
    <2>8. ASSUME NEW d
          PROVE  Cardinality(OfDocument(es, x, d)) =
                    IF es[i].doc = d THEN Cardinality(OfDocument(es, t, d)) + 1
                    ELSE Cardinality(OfDocument(es, t, d))
      <3>1. CASE es[i].doc = d
        <4>1. /\ OfDocument(es, x, d) = OfDocument(es, t, d) \cup {i}
              /\ i \notin OfDocument(es, t, d)
          <5>1. i \notin OfDocument(es, t, d)
            BY <2>5 DEF OfDocument
          <5>2. \A j : j \in OfDocument(es, x, d) <=> j \in OfDocument(es, t, d) \/ j = i
            BY <2>5, <3>1, Zenon DEF OfDocument
          <5> QED
            BY <5>1, <5>2, Zenon
        <4>2. Cardinality(OfDocument(es, t, d) \cup {i}) = Cardinality(OfDocument(es, t, d)) + 1
          <5>1. IsFiniteSet(OfDocument(es, t, d))
            BY <2>6
          <5> QED
            BY <4>1, <5>1, FS_AddElement
        <4> QED
          BY <3>1, <4>1, <4>2, Zenon
      <3>2. CASE es[i].doc # d
        <4>1. OfDocument(es, x, d) = OfDocument(es, t, d)
          BY <2>5, <3>2 DEF OfDocument
        <4> QED
          BY <3>2, <4>1
      <3> QED
        BY <3>1, <3>2
    <2>9. MaxTotal \in Nat /\ MaxFragments \in Nat /\ MaxPerDoc \in Nat /\ MaxText \in Nat
      BY DEF Sane
    <2>10. Good(es, x)
      <3>1. \A j \in DOMAIN es : x[j] <= MaxText
        BY <2>2, <2>3 DEF Good
      <3>2. Sum(x) <= MaxTotal /\ Cardinality(Taken(x)) <= MaxFragments
        BY <2>2, <2>4, <2>6, <2>7, <2>9
      <3>3. ASSUME NEW d
            PROVE  Cardinality(OfDocument(es, x, d)) <= MaxPerDoc
        <4>1. Cardinality(OfDocument(es, t, d)) <= MaxPerDoc /\ Cardinality(OfDocument(es, t, d)) \in Nat
          BY <2>6 DEF Good
        <4> QED
          BY <2>2, <2>6, <2>8, <2>9, <4>1
      <3> QED
        BY <2>3, <3>1, <3>2, <3>3 DEF Good
    <2>11. ASSUME NEW j \in DOMAIN es
           PROVE  (t[j] > 0 => x[j] > 0) /\ (Reached(es, t, j) => Reached(es, x, j))
      <3>1. t[j] > 0 => x[j] > 0
        BY <2>2, <2>3
      <3>2. ~(Sum(t) = MaxTotal) /\ ~(Cardinality(Taken(t)) = MaxFragments)
        BY <2>2, <2>4, <2>6, <2>9
      <3>3. CASE Cardinality(OfDocument(es, t, es[j].doc)) = MaxPerDoc
        <4>1. es[i].doc # es[j].doc
          BY <2>2, <2>9, <3>3
        <4>2. Cardinality(OfDocument(es, x, es[j].doc)) = MaxPerDoc
          BY <2>8, <3>3, <4>1
        <4> QED
          BY <3>1, <4>2 DEF Reached
      <3> QED
        BY <3>1, <3>2, <3>3 DEF Reached
    <2>12. More(es, t, x) /\ x[i] > 0
      BY <2>2, <2>3, <2>10, <2>11 DEF More
    <2> QED
      BY <2>1, <2>12
  <1> QED
    BY <1>3, <1>4, <1>5

LEMMA MoreOfMore ==
    ASSUME NEW es, NEW a, NEW b, NEW c, More(es, a, b), More(es, b, c)
    PROVE  More(es, a, c)
  BY DEF More

LEMMA CountedIs ==
    ASSUME Sane, NEW es \in Seq(Piece), NEW t, Good(es, t), NEW g
    PROVE  Counted(es, t, g) \in Nat
  <1> DEFINE S == {i \in Taken(t) : g \in GroupsOf(es[i])}
             w == [i \in S |-> Smaller(Len(es[i].text), MaxText)]
             Is(f) == f = [s \in SUBSET S |->
                             IF s = {} THEN 0
                             ELSE Smaller(Len(es[OneOf(s)].text), MaxText) + f[s \ {OneOf(s)}]]
  <1>1. IsFiniteSet(S) /\ S \subseteq DOMAIN es
    <2>1. t \in [DOMAIN es -> Nat]
      BY DEF Good
    <2>2. IsFiniteSet(Taken(t)) /\ Taken(t) \subseteq DOMAIN es /\ S \subseteq Taken(t)
      BY <2>1, Counts
    <2> HIDE DEF S
    <2> QED
      BY <2>2, FS_Subset
  <1>2. w \in [S -> Nat]
    <2>1. ASSUME NEW i \in S
          PROVE  Smaller(Len(es[i].text), MaxText) \in Nat
      <3>1. es[i] \in Piece
        BY <1>1
      <3>2. Len(es[i].text) \in Nat /\ MaxText \in Nat
        BY <3>1 DEF Piece, Sane
      <3> QED
        BY <3>2 DEF Smaller
    <2> HIDE DEF S
    <2> QED
      BY <2>1
  <1>3. \A f : Is(f) <=> SumRun(S, w, f)
    <2>1. \A s \in SUBSET S : s # {} => OneOf(s) \in S /\ w[OneOf(s)] = Smaller(Len(es[OneOf(s)].text), MaxText)
      <3>1. \A s \in SUBSET S : s # {} => OneOf(s) \in S
        BY <1>1, OneLess
      <3> HIDE DEF S
      <3> QED
        BY <3>1
    <2> HIDE DEF S, w
    <2> QED
      BY <2>1 DEF SumRun
  <1>4. PICK f : f = CHOOSE h : Is(h)
    OBVIOUS
  <1>5. \E h : Is(h)
    <2> HIDE DEF S, w, Is
    <2> QED
      BY <1>1, <1>2, <1>3, Sums
  <1>6. SumRun(S, w, f)
    <2> HIDE DEF S, w, Is
    <2> QED
      BY <1>3, <1>4, <1>5
  <1>7. Counted(es, t, g) = f[S]
    BY <1>4 DEF Counted, FoldSet, MapThenFoldSet, OneOf
  <1>8. f[S] \in Nat
    <2> HIDE DEF S, w
    <2> QED
      BY <1>1, <1>2, <1>6, SumOver
  <1> QED
    BY <1>7, <1>8

\* The groups can be counted.
LEMMA GroupsFinite ==
    ASSUME NEW es \in Seq(Piece)
    PROVE  Cardinality(Groups(es)) \in Nat
  <1>1. ASSUME NEW i \in DOMAIN es
        PROVE  IsFiniteSet(GroupsOf(es[i]))
    <2> DEFINE e == es[i]
               A == {x \in {0, 1} : IF x = 0 THEN e.rank > 0 ELSE e.score > 0 \/ e.rank = 0}
               B == IF e.topics = {} THEN {0} ELSE e.topics
               h == [p \in A \X B |-> <<p[1], p[2], e.doc>>]
    <2>1. IsFiniteSet(A)
      <3>1. A \subseteq {0} \cup {1}
        OBVIOUS
      <3>2. IsFiniteSet({0} \cup {1})
        BY FS_Singleton, FS_AddElement
      <3> HIDE DEF A
      <3> QED
        BY <3>1, <3>2, FS_Subset
    <2>2. IsFiniteSet(B)
      <3>1. e \in Piece
        OBVIOUS
      <3>2. IsFiniteSet(e.topics)
        BY <3>1 DEF Piece
      <3> QED
        BY <3>2, FS_Singleton
    <2>3. IsFiniteSet(A \X B)
      <3> HIDE DEF A, B
      <3> QED
        BY <2>1, <2>2, FS_Product
    <2>4. GroupsOf(e) = {h[p] : p \in A \X B}
      <3>1. GroupsOf(e) = {<<k, t, e.doc>> : k \in A, t \in B}
        BY DEF GroupsOf
      <3> HIDE DEF A, B, e
      <3>2. ASSUME NEW k \in A, NEW t \in B
            PROVE  <<k, t, e.doc>> \in {h[p] : p \in A \X B}
        <4>1. <<k, t>> \in A \X B /\ h[<<k, t>>] = <<k, t, e.doc>>
          OBVIOUS
        <4> QED
          BY <4>1
      <3>3. ASSUME NEW p \in A \X B
            PROVE  h[p] \in {<<k, t, e.doc>> : k \in A, t \in B}
        OBVIOUS
      <3> QED
        BY <3>1, <3>2, <3>3
    <2>5. h \in Surjection(A \X B, {h[p] : p \in A \X B})
      <3> HIDE DEF A, B
      <3> QED
        BY DEF Surjection
    <2> HIDE DEF h, A, B
    <2>6. IsFiniteSet({h[p] : p \in A \X B})
      BY <2>3, <2>5, FS_Surjection
    <2> QED
      BY <2>4, <2>6
  <1> DEFINE h == [i \in DOMAIN es |-> GroupsOf(es[i])]
             U == {h[i] : i \in DOMAIN es}
  <1>2. IsFiniteSet(DOMAIN es)
    <2>1. DOMAIN es = 1 .. Len(es) /\ Len(es) \in Nat /\ IsFiniteSet(1 .. Len(es))
      BY FS_Interval
    <2> QED
      BY <2>1
  <1>3. IsFiniteSet(U)
    <2>1. h \in Surjection(DOMAIN es, U)
      BY DEF Surjection
    <2> HIDE DEF h, U
    <2> QED
      BY <1>2, <2>1, FS_Surjection
  <1>4. \A T \in U : IsFiniteSet(T)
    BY <1>1
  <1>5. Groups(es) = UNION U
    BY DEF Groups
  <1> HIDE DEF U
  <1>6. IsFiniteSet(UNION U)
    BY <1>3, <1>4, FS_UNION
  <1> QED
    BY <1>5, <1>6, FS_CardinalityType

-----------------------------------------------------------------------------
(* The folds of the selection.                                             *)

\* What a group takes keeps the limits.
LEMMA ServeKeeps ==
    ASSUME Sane, NEW es \in Seq(Piece), NEW t, Good(es, t), NEW g
    PROVE  Good(es, Serve(es, t, g))
  <1>0. PICK base, seq : /\ base = [taken |-> t, covered |-> Counted(es, t, g)]
                         /\ seq = [i \in DOMAIN es |-> i]
    OBVIOUS
  <1> DEFINE N == Len(es)
             V == {a \in [taken : [DOMAIN es -> Nat], covered : Int] : Good(es, a.taken)}
             Step(a, i) == Count(es, g, a, i)
             Got(n, a) == TRUE
  <1>1. /\ N \in Nat /\ DOMAIN es = 1 .. N /\ DOMAIN seq = 1 .. N /\ base \in V /\ Got(0, base)
        /\ \A n \in 1 .. N : seq[n] = n
    <2>1. t \in [DOMAIN es -> Nat]
      BY DEF Good
    <2>2. Counted(es, t, g) \in Int
      BY CountedIs
    <2> QED
      BY <1>0, <2>1, <2>2
  <1>2. \A n \in 1 .. N, a \in V : /\ Step(a, seq[n]) \in V
                                   /\ Got(n - 1, a) => Got(n, Step(a, seq[n]))
    <2> SUFFICES ASSUME NEW i \in DOMAIN es, NEW a \in V
                 PROVE  Count(es, g, a, i) \in V
      BY <1>1
    <2> DEFINE x == Add(es, a.taken, i)
    <2>1. Good(es, a.taken) /\ a.covered \in Int
      OBVIOUS
    <2>2. Good(es, x)
      BY <2>1, AddKeeps DEF More
    <2>3. x \in [DOMAIN es -> Nat] /\ a.taken \in [DOMAIN es -> Nat]
      BY <2>1, <2>2 DEF Good
    <2>4. Count(es, g, a, i) = a \/ Count(es, g, a, i) = [taken |-> x, covered |-> a.covered + x[i] - a.taken[i]]
      BY DEF Count
    <2> HIDE DEF x
    <2>5. a.covered + x[i] - a.taken[i] \in Int
      BY <2>1, <2>3
    <2> QED
      BY <2>2, <2>3, <2>4, <2>5
  <1> DEFINE Is(h) == h = [q \in SUBSET DOMAIN seq |->
                             IF q = {} THEN base
                             ELSE LET x == Max(q) IN Step(h[q \ {x}], seq[x])]
             step == [p \in (1 .. N) \X V |-> Step(p[2], seq[p[1]])]
             K == {p \in (0 .. N) \X V : Got(p[1], p[2])}
  <1>3. step \in [(1 .. N) \X V -> V]
    <2>1. \A p \in (1 .. N) \X V : Step(p[2], seq[p[1]]) \in V
      <3> HIDE DEF Step, V, N
      <3> QED
        BY <1>2
    <2> HIDE DEF Step, V
    <2> QED
      BY <2>1
  <1>4. \A q \in SUBSET (1 .. N) : q # {} => Max(q) \in 1 .. N
    <2>1. N \in Nat
      BY <1>1
    <2> HIDE DEF N
    <2> QED
      BY <2>1, LargestIn
  <1>5. \E h : Is(h)
    <2>1. PICK h \in [SUBSET (1 .. N) -> V] : Folding(N, base, step, h)
      <3> HIDE DEF N, V, step
      <3> QED
        BY <1>1, <1>3, Steps
    <2>2. \A q \in SUBSET (1 .. N) :
              h[q] = IF q = {} THEN base ELSE Step(h[q \ {Max(q)}], seq[Max(q)])
      <3> HIDE DEF Step, V, N
      <3> QED
        BY <1>4, <2>1 DEF Folding
    <2>3. DOMAIN seq = 1 .. N
      BY <1>1
    <2> HIDE DEF Step, N, V
    <2> QED
      BY <2>2, <2>3
  <1>6. PICK f : f = CHOOSE h : Is(h)
    OBVIOUS
  <1>7. Is(f)
    BY <1>5, <1>6
  <1>8. Serve(es, t, g) = f[1 .. N].taken
    BY <1>0, <1>1, <1>6 DEF Serve, FoldLeft, MapThenFoldSet
  <1>9. f[{}] = base /\ \A q \in SUBSET (1 .. N) : q # {} /\ f[q \ {Max(q)}] \in V =>
                         f[q] = step[<<Max(q), f[q \ {Max(q)}]>>]
    <2> HIDE DEF Step, V, N
    <2> QED
      BY <1>1, <1>4, <1>7
  <1>10. f[1 .. N] \in V /\ <<N, f[1 .. N]>> \in K
    <2>1. N \in Nat /\ base \in V
      BY <1>1
    <2>2. \A n \in 1 .. N, x \in V : step[<<n, x>>] = Step(x, seq[n])
      <3> HIDE DEF Step, V, N
      <3> QED
        OBVIOUS
    <2>3. \A n \in 1 .. N : n - 1 \in 0 .. N /\ n \in 0 .. N /\ 0 \in 0 .. N
      BY <2>1
    <2>4. 0 \in 0 .. N
      BY <2>1
    <2> HIDE DEF V, N, step, Step, Got
    <2>5. Follows(N, V, base, step, f)
      BY <1>9 DEF Follows
    <2>6. Stays(N, V, base, step, K)
      <3>1. <<0, base>> \in K
        BY <1>1, <2>1, <2>4
      <3>2. ASSUME NEW n \in 1 .. N, NEW x \in V, <<n - 1, x>> \in K
            PROVE  <<n, step[<<n, x>>]>> \in K
        <4>1. Got(n - 1, x)
          BY <3>2
        <4>2. Step(x, seq[n]) \in V /\ Got(n, Step(x, seq[n]))
          BY <1>2, <4>1
        <4> QED
          BY <2>2, <2>3, <4>2
      <3> HIDE DEF K
      <3> QED
        BY <3>1, <3>2 DEF Stays
    <2> HIDE DEF K
    <2> QED
      BY ONLY <1>3, <2>1, <2>5, <2>6, FoldKeeps
  <1>11. Got(N, f[1 .. N])
    BY <1>10
  <1> QED
    BY <1>8, <1>10

\* What all groups take keeps the limits.
LEMMA ServedKeeps ==
    ASSUME Sane, NEW es \in Seq(Piece)
    PROVE  Good(es, Served(es))
  <1> DEFINE order == [n \in 1 .. Cardinality(Groups(es)) |->
                         CHOOSE g \in Groups(es) : Cardinality({h \in Groups(es) : LessGroup(h, g)}) = n - 1]
  <1>0. PICK base, seq : base = [i \in DOMAIN es |-> 0] /\ seq = order
    OBVIOUS
  <1> DEFINE N == Cardinality(Groups(es))
             V == {t \in [DOMAIN es -> Nat] : Good(es, t)}
             Step(t, g) == Serve(es, t, g)
             Got(n, t) == TRUE
  <1>1. N \in Nat /\ DOMAIN seq = 1 .. N /\ base \in V /\ Got(0, base)
    <2>1. N \in Nat
      BY GroupsFinite
    <2>2. DOMAIN seq = 1 .. N
      BY <1>0
    <2>3. base \in [DOMAIN es -> Nat] /\ \A i \in DOMAIN es : base[i] = 0
      BY <1>0
    <2>4. Taken(base) = {} /\ \A d : OfDocument(es, base, d) = {}
      BY <2>3 DEF Taken, OfDocument
    <2>5. IsFiniteSet(DOMAIN es) /\ Cardinality({}) = 0
      BY <2>3, Counts, FS_EmptySet
    <2>6. Sum(base) = 0
      BY <1>0, <2>5, NothingSummed
    <2>7. MaxTotal \in Nat /\ MaxFragments \in Nat /\ MaxPerDoc \in Nat /\ MaxText \in Nat
      BY DEF Sane
    <2>8. Good(es, base)
      <3>1. Cardinality(Taken(base)) = 0 /\ \A d : Cardinality(OfDocument(es, base, d)) = 0
        BY <2>4, <2>5
      <3>2. \A i \in DOMAIN es : base[i] <= MaxText
        BY <2>3, <2>7
      <3> QED
        BY <2>3, <2>6, <2>7, <3>1, <3>2 DEF Good
    <2> QED
      BY <2>1, <2>2, <2>3, <2>8
  <1>2. \A n \in 1 .. N, t \in V : /\ Step(t, seq[n]) \in V
                                   /\ Got(n - 1, t) => Got(n, Step(t, seq[n]))
    BY ServeKeeps DEF Good
  <1> HIDE DEF order
  <1> DEFINE Is(h) == h = [q \in SUBSET DOMAIN seq |->
                             IF q = {} THEN base
                             ELSE LET x == Max(q) IN Step(h[q \ {x}], seq[x])]
             step == [p \in (1 .. N) \X V |-> Step(p[2], seq[p[1]])]
             K == {p \in (0 .. N) \X V : Got(p[1], p[2])}
  <1>3. step \in [(1 .. N) \X V -> V]
    <2>1. \A p \in (1 .. N) \X V : Step(p[2], seq[p[1]]) \in V
      <3> HIDE DEF Step, V, N
      <3> QED
        BY <1>2
    <2> HIDE DEF Step, V
    <2> QED
      BY <2>1
  <1>4. \A q \in SUBSET (1 .. N) : q # {} => Max(q) \in 1 .. N
    <2>1. N \in Nat
      BY <1>1
    <2> HIDE DEF N
    <2> QED
      BY <2>1, LargestIn
  <1>5. \E h : Is(h)
    <2>1. PICK h \in [SUBSET (1 .. N) -> V] : Folding(N, base, step, h)
      <3> HIDE DEF N, V, step
      <3> QED
        BY <1>1, <1>3, Steps
    <2>2. \A q \in SUBSET (1 .. N) :
              h[q] = IF q = {} THEN base ELSE Step(h[q \ {Max(q)}], seq[Max(q)])
      <3> HIDE DEF Step, V, N
      <3> QED
        BY <1>4, <2>1 DEF Folding
    <2>3. DOMAIN seq = 1 .. N
      BY <1>1
    <2> HIDE DEF Step, N, V
    <2> QED
      BY <2>2, <2>3
  <1>6. PICK f : f = CHOOSE h : Is(h)
    OBVIOUS
  <1>7. Is(f)
    BY <1>5, <1>6
  <1>8. Served(es) = f[1 .. N]
    BY <1>0, <1>1, <1>6 DEF Served, InOrder, order, FoldLeft, MapThenFoldSet
  <1>9. f[{}] = base /\ \A q \in SUBSET (1 .. N) : q # {} /\ f[q \ {Max(q)}] \in V =>
                         f[q] = step[<<Max(q), f[q \ {Max(q)}]>>]
    <2> HIDE DEF Step, V, N
    <2> QED
      BY <1>1, <1>4, <1>7
  <1>10. f[1 .. N] \in V /\ <<N, f[1 .. N]>> \in K
    <2>1. N \in Nat /\ base \in V
      BY <1>1
    <2>2. \A n \in 1 .. N, x \in V : step[<<n, x>>] = Step(x, seq[n])
      <3> HIDE DEF Step, V, N
      <3> QED
        OBVIOUS
    <2>3. \A n \in 1 .. N : n - 1 \in 0 .. N /\ n \in 0 .. N /\ 0 \in 0 .. N
      BY <2>1
    <2>4. 0 \in 0 .. N
      BY <2>1
    <2> HIDE DEF V, N, step, Step, Got
    <2>5. Follows(N, V, base, step, f)
      BY <1>9 DEF Follows
    <2>6. Stays(N, V, base, step, K)
      <3>1. <<0, base>> \in K
        BY <1>1, <2>1, <2>4
      <3>2. ASSUME NEW n \in 1 .. N, NEW x \in V, <<n - 1, x>> \in K
            PROVE  <<n, step[<<n, x>>]>> \in K
        <4>1. Got(n - 1, x)
          BY <3>2
        <4>2. Step(x, seq[n]) \in V /\ Got(n, Step(x, seq[n]))
          BY <1>2, <4>1
        <4> QED
          BY <2>2, <2>3, <4>2
      <3> HIDE DEF K
      <3> QED
        BY <3>1, <3>2 DEF Stays
    <2> HIDE DEF K
    <2> QED
      BY ONLY <1>3, <2>1, <2>5, <2>6, FoldKeeps
  <1>11. Got(N, f[1 .. N])
    BY <1>10
  <1> QED
    BY <1>8, <1>10

\* Then each fragment is taken, or was before, or a limit is reached.
LEMMA FilledKeeps ==
    ASSUME Sane, NEW es \in Seq(Piece), NEW taken, Good(es, taken)
    PROVE  /\ Good(es, Filled(es, taken))
           /\ \A i \in DOMAIN es : Filled(es, taken)[i] > 0 \/ Reached(es, Filled(es, taken), i)
  <1>0. PICK base, seq : base = taken /\ seq = [i \in DOMAIN es |-> i]
    OBVIOUS
  <1> DEFINE N == Len(es)
             V == {t \in [DOMAIN es -> Nat] : Good(es, t)}
             Step(t, i) == Add(es, t, i)
             Got(n, t) == \A i \in 1 .. n : t[i] > 0 \/ Reached(es, t, i)
  <1>1. /\ N \in Nat /\ DOMAIN es = 1 .. N /\ DOMAIN seq = 1 .. N /\ base \in V /\ Got(0, base)
        /\ \A n \in 1 .. N : seq[n] = n
    BY <1>0 DEF Good
  <1>2. \A n \in 1 .. N, t \in V : /\ Step(t, seq[n]) \in V
                                   /\ Got(n - 1, t) => Got(n, Step(t, seq[n]))
    <2> SUFFICES ASSUME NEW n \in 1 .. N, NEW t \in V
                 PROVE  Add(es, t, n) \in V /\ (Got(n - 1, t) => Got(n, Add(es, t, n)))
      BY <1>1
    <2> DEFINE x == Add(es, t, n)
    <2>1. More(es, t, x) /\ (x[n] > 0 \/ Reached(es, x, n))
      BY <1>1, AddKeeps
    <2> HIDE DEF x
    <2>2. x \in V
      BY <2>1 DEF More, Good
    <2>3. ASSUME Got(n - 1, t), NEW i \in 1 .. n
          PROVE  x[i] > 0 \/ Reached(es, x, i)
      <3>1. i \in DOMAIN es
        BY <1>1
      <3>2. CASE i = n
        BY <2>1, <3>2
      <3>3. CASE i # n
        <4>1. t[i] > 0 \/ Reached(es, t, i)
          BY <1>1, <2>3, <3>3
        <4> QED
          BY <2>1, <3>1, <4>1 DEF More
      <3> QED
        BY <3>2, <3>3
    <2> QED
      BY <2>2, <2>3 DEF x
  <1> DEFINE Is(h) == h = [q \in SUBSET DOMAIN seq |->
                             IF q = {} THEN base
                             ELSE LET x == Max(q) IN Step(h[q \ {x}], seq[x])]
             step == [p \in (1 .. N) \X V |-> Step(p[2], seq[p[1]])]
             K == {p \in (0 .. N) \X V : Got(p[1], p[2])}
  <1>3. step \in [(1 .. N) \X V -> V]
    <2>1. \A p \in (1 .. N) \X V : Step(p[2], seq[p[1]]) \in V
      <3> HIDE DEF Step, V, N
      <3> QED
        BY <1>2
    <2> HIDE DEF Step, V
    <2> QED
      BY <2>1
  <1>4. \A q \in SUBSET (1 .. N) : q # {} => Max(q) \in 1 .. N
    <2>1. N \in Nat
      BY <1>1
    <2> HIDE DEF N
    <2> QED
      BY <2>1, LargestIn
  <1>5. \E h : Is(h)
    <2>1. PICK h \in [SUBSET (1 .. N) -> V] : Folding(N, base, step, h)
      <3> HIDE DEF N, V, step
      <3> QED
        BY <1>1, <1>3, Steps
    <2>2. \A q \in SUBSET (1 .. N) :
              h[q] = IF q = {} THEN base ELSE Step(h[q \ {Max(q)}], seq[Max(q)])
      <3> HIDE DEF Step, V, N
      <3> QED
        BY <1>4, <2>1 DEF Folding
    <2>3. DOMAIN seq = 1 .. N
      BY <1>1
    <2> HIDE DEF Step, N, V
    <2> QED
      BY <2>2, <2>3
  <1>6. PICK f : f = CHOOSE h : Is(h)
    OBVIOUS
  <1>7. Is(f)
    BY <1>5, <1>6
  <1>8. Filled(es, taken) = f[1 .. N]
    BY <1>0, <1>1, <1>6 DEF Filled, FoldLeft, MapThenFoldSet
  <1>9. f[{}] = base /\ \A q \in SUBSET (1 .. N) : q # {} /\ f[q \ {Max(q)}] \in V =>
                         f[q] = step[<<Max(q), f[q \ {Max(q)}]>>]
    <2> HIDE DEF Step, V, N
    <2> QED
      BY <1>1, <1>4, <1>7
  <1>10. f[1 .. N] \in V /\ <<N, f[1 .. N]>> \in K
    <2>1. N \in Nat /\ base \in V
      BY <1>1
    <2>2. \A n \in 1 .. N, x \in V : step[<<n, x>>] = Step(x, seq[n])
      <3> HIDE DEF Step, V, N
      <3> QED
        OBVIOUS
    <2>3. \A n \in 1 .. N : n - 1 \in 0 .. N /\ n \in 0 .. N /\ 0 \in 0 .. N
      BY <2>1
    <2>4. 0 \in 0 .. N
      BY <2>1
    <2> HIDE DEF V, N, step, Step, Got
    <2>5. Follows(N, V, base, step, f)
      BY <1>9 DEF Follows
    <2>6. Stays(N, V, base, step, K)
      <3>1. <<0, base>> \in K
        BY <1>1, <2>1, <2>4
      <3>2. ASSUME NEW n \in 1 .. N, NEW x \in V, <<n - 1, x>> \in K
            PROVE  <<n, step[<<n, x>>]>> \in K
        <4>1. Got(n - 1, x)
          BY <3>2
        <4>2. Step(x, seq[n]) \in V /\ Got(n, Step(x, seq[n]))
          BY <1>2, <4>1
        <4> QED
          BY <2>2, <2>3, <4>2
      <3> HIDE DEF K
      <3> QED
        BY <3>1, <3>2 DEF Stays
    <2> HIDE DEF K
    <2> QED
      BY ONLY <1>3, <2>1, <2>5, <2>6, FoldKeeps
  <1>11. Got(N, f[1 .. N])
    BY <1>10
  <1> QED
    BY <1>1, <1>8, <1>10, <1>11

-----------------------------------------------------------------------------
(* The properties.                                                         *)

Found == source \in Seq(Piece)

LEMMA FoundAll == ASSUME Found PROVE NothingLost
  <1> SUFFICES ASSUME NEW i \in DOMAIN source, source[i].doc # Target
               PROVE  \E e \in Range(Eligible(source)) :
                         /\ e.doc = source[i].doc /\ Range(source[i].text) \subseteq Range(e.text)
                         /\ source[i].topics \subseteq e.topics /\ e.score >= source[i].score
                         /\ source[i].rank > 0 => e.rank > 0
    BY DEF NothingLost
  <1>1. PICK k \in DOMAIN Eligible(source) : Has(Eligible(source)[k], source[i])
    BY EligibleHas DEF Found, Inside
  <1>2. Eligible(source)[k] \in Range(Eligible(source))
    BY DEF Range
  <1> QED
    BY <1>1, <1>2 DEF Has

LEMMA SelectionKeeps ==
    ASSUME Sane, Found
    PROVE  /\ Eligible(source) \in Seq(Piece)
           /\ Good(Eligible(source), Selection(Eligible(source)))
           /\ \A i \in DOMAIN Eligible(source) :
                 \/ Selection(Eligible(source))[i] > 0
                 \/ Reached(Eligible(source), Selection(Eligible(source)), i)
  BY EligibleHas, ServedKeeps, FilledKeeps DEF Found, Selection

LEMMA LimitsHold == ASSUME Sane, Found PROVE LimitsKept
  <1> DEFINE es == Eligible(source)
             t == Selection(es)
  <1>1. Good(es, t) /\ \A k \in DOMAIN es : es[k].doc # Target
    BY SelectionKeeps, EligibleHas DEF Found
  <1>2. \A d : {i \in Taken(t) : es[i].doc = d} = OfDocument(es, t, d)
    BY DEF OfDocument
  <1> HIDE DEF es, t
  <1>3. /\ Sum(t) <= MaxTotal /\ Cardinality(Taken(t)) <= MaxFragments
        /\ \A i \in DOMAIN es : t[i] <= MaxText /\ (t[i] > 0 => es[i].doc # Target)
        /\ \A d \in {e.doc : e \in Range(es)} : Cardinality({i \in Taken(t) : es[i].doc = d}) <= MaxPerDoc
    BY <1>1, <1>2 DEF Good
  <1> QED
    BY <1>3 DEF LimitsKept, es, t

LEMMA LeftOut == ASSUME Sane, Found PROVE NothingLeft
  <1> DEFINE es == Eligible(source)
             t == Selection(es)
             w == ClaimGroups(es, t)
             topics(i) == IF es[i].topics = {} THEN {0} ELSE es[i].topics
             of(x) == {i \in Taken(t) : x \in topics(i)}
  <1>1. Good(es, t) /\ \A i \in DOMAIN es : t[i] > 0 \/ Reached(es, t, i)
    BY SelectionKeeps
  <1>2. w = [x \in UNION {topics(i) : i \in Taken(t)} |->
               [evidence |-> of(x), sources |-> {es[i].doc : i \in of(x)},
                required |-> \E i \in of(x) : es[i].rank > 0 \/ es[i].score > 1]]
    BY DEF ClaimGroups
  <1> HIDE DEF es, t
  <1>3. ASSUME NEW i \in DOMAIN es \ Taken(t)
        PROVE  \/ Sum(t) = MaxTotal \/ Cardinality(Taken(t)) = MaxFragments
               \/ Cardinality({j \in Taken(t) : es[j].doc = es[i].doc}) = MaxPerDoc
    <2>1. DOMAIN t = DOMAIN es
      BY <1>1 DEF Good
    <2>2. ~(t[i] > 0)
      BY <2>1 DEF Taken
    <2>3. Reached(es, t, i)
      BY <1>1, <2>2
    <2>4. {j \in Taken(t) : es[j].doc = es[i].doc} = OfDocument(es, t, es[i].doc)
      BY DEF OfDocument
    <2> QED
      BY <2>3, <2>4 DEF Reached
  <1> HIDE DEF w
  <1>4. ASSUME NEW x \in DOMAIN w
        PROVE  w[x].evidence # {} /\ w[x].sources \subseteq {es[i].doc : i \in Taken(t)}
    <2>1. x \in UNION {topics(i) : i \in Taken(t)}
      BY <1>2
    <2>2. w[x].evidence = of(x) /\ w[x].sources = {es[i].doc : i \in of(x)}
      BY <1>2, <2>1
    <2>3. PICK i \in Taken(t) : x \in topics(i)
      BY <2>1
    <2> HIDE DEF topics
    <2> QED
      BY <2>2, <2>3
  <1> QED
    BY <1>3, <1>4, Zenon DEF NothingLeft, es, t, w

LEMMA FoundAlways ==
    ASSUME Sane
    PROVE  (Init => Found) /\ (Found /\ [Next]_source => Found')
  <1>1. Init => Found
    BY DEF Init, Found
  <1>2. ASSUME Found, NEW f \in Fragment, Find(f)
        PROVE  Found'
    BY <1>2 DEF Found, Find, Sane
  <1> QED
    BY <1>1, <1>2 DEF Next, Found

\* Whatever is found and in whatever order, merging loses no text, topic or mention of it, what
\* is taken keeps the limits, whatever they are, and the rest is left out only when one of them
\* is reached (organize_evidence).
THEOREM EvidenceSound ==
    ASSUME Sane
    PROVE  Spec => [](NothingLost /\ LimitsKept /\ NothingLeft)
  <1>1. Found => NothingLost /\ LimitsKept /\ NothingLeft
    BY FoundAll, LimitsHold, LeftOut
  <1> QED
    BY <1>1, FoundAlways, PTL DEF Spec
=============================================================================
