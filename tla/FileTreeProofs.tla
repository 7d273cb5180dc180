--------------------------- MODULE FileTreeProofs ---------------------------
(***************************************************************************)
(* Every live entry is found under the path its row carries, until a       *)
(* deletion, renaming or move is applied while another is under way, and   *)
(* is shown there, until a renaming strays: for every set of entries,      *)
(* names and processes, every matching of names and every bound on the     *)
(* depth and the number of transactions.                                   *)
(***************************************************************************)
EXTENDS FileTree, FiniteSetTheorems, SequenceTheorems, WellFoundedInduction, TLAPS

-----------------------------------------------------------------------------
(* What makes Sound inductive: the tree, here, and what is shown, below.   *)

\* What the constants stand for is told apart.
Distinct ==
    /\ Root \notin Entry /\ None \notin Entry /\ Root # None
    /\ Directory \cap File = {} /\ Uploader \cap Mutator = {}

\* An entry that is there, or will be when its transaction commits.
Held(e) == entry[e].status \in {"live", "pending"}

\* It stands under the directory that its row names, and carries the path of it.
Seated(e) ==
    LET up == entry[e].parent
    IN  /\ up = Root \/ (up \in Directory /\ Held(up) /\ (Live(e) => Live(up)))
        /\ entry[e].name \in Name
        /\ PathOf(up) \in Seq(Name)
        /\ entry[e].path = Append(PathOf(up), entry[e].name)

\* No two have one name in one directory.
Unique ==
    \A e, f \in Entry :
        Held(e) /\ Held(f) /\ entry[e].parent = entry[f].parent /\ entry[e].name = entry[f].name
            => e = f

\* A directory is share-locked together with all above it.
Closed(S) ==
    \A d \in S : /\ d \in Directory /\ Live(d)
                 /\ entry[d].parent = Root \/ entry[d].parent \in S

Standing == Unique /\ \A e \in Entry : Held(e) => Seated(e)

Locks ==
    /\ \A p, q \in Process : p # q =>
          /\ tx[p].locked \cap (tx[q].locked \cup tx[q].shared) = {}
          /\ tx[p].made \cap tx[q].made = {}
    /\ \A p \in Process : Closed(tx[p].shared) /\ tx[p].made \subseteq Entry
    /\ \A e \in Entry : entry[e].status = "pending" <=> \E p \in Process : e \in tx[p].made

\* An uploaded file that is not committed stands in a directory that stays where it is.
Uploading(u) ==
    /\ tx[u].at \in {"idle", "parents", "check", "insert", "storing"}
    /\ tx[u].at \in {"parents", "insert"} => tx[u].path \in Path /\ tx[u].op # "update"
    /\ tx[u].at = "check" => tx[u].op = "update" \/ tx[u].path \in Path
    /\ tx[u].at # "idle" /\ tx[u].op = "update" =>
          tx[u].root \in File /\ entry[tx[u].root].status \in {"live", "deleted"}
    /\ tx[u].at = "storing" /\ tx[u].op # "update" => tx[u].made = {tx[u].root} /\ tx[u].root \in File
    /\ tx[u].made # {} => tx[u].at = "storing" /\ tx[u].op # "update"
    /\ \A f \in tx[u].made : entry[f].parent = Root \/ entry[f].parent \in tx[u].shared

\* The entry that a subtree is named by, and that is locked with what is below it.
Guarded(m) ==
    tx[m].at = "aim" \/ (tx[m].at = "apply" /\ ~(tx[m].op = "delete" /\ tx[m].root \in File))

\* Where a directory goes: its path is known, and is not below the directory itself.
Aimed(m) ==
    LET root == tx[m].root
        base == Front(tx[m].target)
        up   == tx[m].parent
    IN  /\ ~IsPrefix(entry[root].path, base)
        /\ tx[m].base[1] = base
        /\ up = Root \/ (up \in Directory /\ (Live(up) \/ up \in tx[m].made))
        /\ PathOf(up) = base
        /\ \A d \in tx[m].made :
              /\ d \in Directory /\ IsPrefix(entry[d].path, base)
              /\ \/ entry[d].parent \in tx[m].made \cup {Root}
                 \/ entry[d].parent \in Directory /\ Live(entry[d].parent)

Mutating(m) ==
    /\ tx[m].at \in {"idle", "lock", "aim", "apply"}
    /\ tx[m].at # "idle" => /\ tx[m].op \in {"delete", "rename", "move"}
                            /\ tx[m].root \in Entry /\ Live(tx[m].root)
    /\ Guarded(m) => tx[m].root \in tx[m].locked
    /\ tx[m].at = "aim" => tx[m].op = "move"
    /\ tx[m].at # "idle" /\ tx[m].op = "rename" =>
          tx[m].target[1] \in Name /\ tx[m].parent = entry[tx[m].root].parent
    /\ tx[m].at # "idle" /\ tx[m].op = "move" =>
          /\ tx[m].target \in Path
          /\ tx[m].root \in Directory => ~IsPrefix(entry[tx[m].root].path, Front(tx[m].target))
    /\ tx[m].at = "apply" /\ tx[m].op = "move" => Aimed(m)
    /\ tx[m].made # {} => tx[m].at = "apply" /\ tx[m].op = "move"

\* A row and a transaction have their fields.
RowField == {"status", "parent", "name", "path", "shown", "checksum"}
TxField  == {"at", "op", "path", "target", "root", "parent", "base", "checksum", "strict",
             "shared", "locked", "made"}

RowOK(x) == x = [k \in RowField |-> x[k]]
TxOK(x)  == x = [k \in TxField |-> x[k]]

Rows         == entry = [e \in Entry |-> entry[e]] /\ \A e \in Entry : RowOK(entry[e])
Transactions == tx = [p \in Process |-> tx[p]] /\ \A p \in Process : TxOK(tx[p])

TreeInv ==
    /\ Rows /\ Transactions
    /\ Standing
    /\ Locks
    /\ \A u \in Uploader : Uploading(u)
    /\ \A m \in Mutator : Mutating(m)

-----------------------------------------------------------------------------
(* Paths: sequences of names.                                              *)

LEMMA LeastOf ==
    ASSUME NEW T, T \subseteq Nat, T # {}
    PROVE  \E x \in T : \A y \in T : x <= y
  <1>1. PICK x \in T : \A y \in T : ~(<<y, x>> \in OpToRel(<, Nat))
    BY WFMin, NatLessThanWellFounded
  <1>2. ASSUME NEW y \in T
        PROVE  ~(y < x)
    BY <1>1 DEF OpToRel
  <1> QED
    BY <1>2

\* One path begins with another when the names agree as far as that goes.
LEMMA PrefixIs ==
    ASSUME NEW s \in Seq(Name), NEW t \in Seq(Name)
    PROVE  IsPrefix(s, t) <=> Len(s) <= Len(t) /\ \A i \in 1 .. Len(s) : s[i] = t[i]
  <1>1. Len(s) \in Nat /\ Len(t) \in Nat
    OBVIOUS
  <1>2. SubSeq(s, 1, Len(s)) = s
    OBVIOUS
  <1>3. ASSUME Len(s) <= Len(t)
        PROVE  /\ SubSeq(t, 1, Len(s)) \in Seq(Name) /\ Len(SubSeq(t, 1, Len(s))) = Len(s)
               /\ \A i \in 1 .. Len(s) : SubSeq(t, 1, Len(s))[i] = t[i]
    BY <1>1, <1>3
  <1>4. ASSUME Len(s) <= Len(t), \A i \in 1 .. Len(s) : s[i] = t[i]
        PROVE  s = SubSeq(t, 1, Len(s))
    BY <1>1, <1>3, <1>4, SeqEqual
  <1> QED
    BY <1>1, <1>2, <1>3, <1>4 DEF IsPrefix

LEMMA AppendIs ==
    ASSUME NEW s \in Seq(Name), NEW n \in Name
    PROVE  /\ Append(s, n) \in Seq(Name) /\ Len(Append(s, n)) = Len(s) + 1 /\ Len(s) \in Nat
           /\ \A i \in 1 .. Len(s) : Append(s, n)[i] = s[i]
           /\ Append(s, n)[Len(s) + 1] = n
           /\ Front(Append(s, n)) = s /\ Last(Append(s, n)) = n
           /\ s \o <<n>> = Append(s, n)
  <1>1. /\ Append(s, n) \in Seq(Name) /\ Len(Append(s, n)) = Len(s) + 1 /\ Len(s) \in Nat
        /\ \A i \in 1 .. Len(s) : Append(s, n)[i] = s[i]
        /\ Append(s, n)[Len(s) + 1] = n
    OBVIOUS
  <1>2. SubSeq(Append(s, n), 1, Len(s)) = s
    OBVIOUS
  <1> QED
    BY <1>1, <1>2, AppendIsConcat DEF Front, Last

\* A path that begins one ends there or begins its front as well.
LEMMA PrefixOfAppend ==
    ASSUME NEW s \in Seq(Name), NEW t \in Seq(Name), NEW n \in Name
    PROVE  IsPrefix(s, Append(t, n)) <=> s = Append(t, n) \/ IsPrefix(s, t)
  <1>1. PICK a \in Seq(Name) : a = Append(t, n)
    BY AppendProperties
  <1>2. /\ Len(a) = Len(t) + 1 /\ Len(t) \in Nat /\ Len(s) \in Nat
        /\ \A i \in 1 .. Len(t) : a[i] = t[i]
    BY <1>1
  <1>3. /\ IsPrefix(s, t) <=> Len(s) <= Len(t) /\ \A i \in 1 .. Len(s) : s[i] = t[i]
        /\ IsPrefix(s, a) <=> Len(s) <= Len(a) /\ \A i \in 1 .. Len(s) : s[i] = a[i]
        /\ IsPrefix(a, a)
    BY <1>2, PrefixIs
  <1>4. IsPrefix(s, t) => IsPrefix(s, a)
    BY <1>2, <1>3
  <1>5. IsPrefix(s, a) /\ Len(s) <= Len(t) => IsPrefix(s, t)
    BY <1>2, <1>3
  <1>6. ASSUME IsPrefix(s, a), ~(Len(s) <= Len(t))
        PROVE  s = a
    BY <1>2, <1>3, <1>6, SeqEqual
  <1> QED
    BY <1>1, <1>3, <1>4, <1>5, <1>6

LEMMA PrefixOrder ==
    ASSUME NEW s \in Seq(Name), NEW t \in Seq(Name)
    PROVE  /\ IsPrefix(s, s)
           /\ IsPrefix(s, t) => Len(s) <= Len(t)
           /\ IsPrefix(s, t) /\ Len(s) = Len(t) => s = t
           /\ \A r \in Seq(Name) : IsPrefix(r, s) /\ IsPrefix(s, t) => IsPrefix(r, t)
  <1>1. Len(s) \in Nat /\ Len(t) \in Nat
    OBVIOUS
  <1>2. IsPrefix(s, t) /\ Len(s) = Len(t) => s = t
    BY PrefixIs, SeqEqual
  <1>3. ASSUME NEW r \in Seq(Name), IsPrefix(r, s), IsPrefix(s, t)
        PROVE  IsPrefix(r, t)
    <2>1. Len(r) \in Nat /\ Len(r) <= Len(s) /\ Len(s) <= Len(t)
      BY <1>1, <1>3, PrefixIs
    <2>2. \A i \in 1 .. Len(r) : r[i] = s[i] /\ s[i] = t[i]
      BY <1>1, <1>3, <2>1, PrefixIs
    <2> QED
      BY <2>1, <2>2, PrefixIs, <1>1
  <1> QED
    BY <1>1, <1>2, <1>3, PrefixIs

\* The first i names of a path.
LEMMA PartOf ==
    ASSUME NEW s \in Seq(Name), NEW i \in 0 .. Len(s)
    PROVE  /\ SubSeq(s, 1, i) \in Seq(Name) /\ Len(SubSeq(s, 1, i)) = i
           /\ \A j \in 1 .. i : SubSeq(s, 1, i)[j] = s[j]
           /\ IsPrefix(SubSeq(s, 1, i), s)
           /\ i > 0 => SubSeq(s, 1, i) = Append(SubSeq(s, 1, i - 1), s[i])
  <1>1. /\ SubSeq(s, 1, i) \in Seq(Name) /\ Len(SubSeq(s, 1, i)) = i
        /\ \A j \in 1 .. i : SubSeq(s, 1, i)[j] = s[j]
    OBVIOUS
  <1>2. IsPrefix(SubSeq(s, 1, i), s)
    <2>1. PICK t \in Seq(Name) : t = SubSeq(s, 1, i)
      BY <1>1
    <2>2. Len(t) <= Len(s) /\ \A j \in 1 .. Len(t) : t[j] = s[j]
      BY <1>1, <2>1
    <2> QED
      BY <2>1, <2>2, PrefixIs
  <1>3. ASSUME i > 0
        PROVE  SubSeq(s, 1, i) = Append(SubSeq(s, 1, i - 1), s[i])
    <2>1. i \in 1 .. Len(s) /\ s[i] \in Name
      BY <1>3
    <2>2. /\ SubSeq(s, 1, i - 1) \in Seq(Name) /\ Len(SubSeq(s, 1, i - 1)) = i - 1
          /\ \A j \in 1 .. i - 1 : SubSeq(s, 1, i - 1)[j] = s[j]
      BY <2>1
    <2>3. PICK t \in Seq(Name) : t = SubSeq(s, 1, i - 1)
      BY <2>2
    <2>4. /\ Append(t, s[i]) \in Seq(Name) /\ Len(Append(t, s[i])) = i
          /\ \A j \in 1 .. i : Append(t, s[i])[j] = s[j]
      BY <2>1, <2>2, <2>3, AppendIs
    <2> QED
      BY <1>1, <2>3, <2>4, SeqEqual
  <1> QED
    BY <1>1, <1>2, <1>3

\* A path whose first part was exchanged.
LEMMA RebasedIs ==
    ASSUME NEW old \in Seq(Name), NEW new \in Seq(Name), NEW t \in Seq(Name), NEW n \in Name,
           IsPrefix(old, t)
    PROVE  /\ Rebased(old, old, new) = new
           /\ Rebased(t, old, new) \in Seq(Name)
           /\ Rebased(Append(t, n), old, new) = Append(Rebased(t, old, new), n)
  <1>1. Len(old) \in Nat /\ Len(t) \in Nat /\ Len(old) <= Len(t)
    BY PrefixIs
  <1>2. SubSeq(old, Len(old) + 1, Len(old)) = <<>>
    BY <1>1, SubSeqEmpty
  <1>3. new \o <<>> = new
    BY ConcatEmptySeq
  <1>4. PICK r \in Seq(Name) : r = SubSeq(t, Len(old) + 1, Len(t))
    <2>1. \A i \in Len(old) + 1 .. Len(t) : t[i] \in Name
      BY <1>1
    <2>2. Len(old) + 1 \in Int /\ Len(t) \in Int
      BY <1>1
    <2>3. SubSeq(t, Len(old) + 1, Len(t)) \in Seq(Name)
      BY <2>1, <2>2, SubSeqProperties, Zenon
    <2> QED
      BY <2>3
  <1>5. SubSeq(Append(t, n), Len(old) + 1, Len(Append(t, n))) = r \o <<n>>
    <2>1. Append(t, n) \in Seq(Name) /\ Len(Append(t, n)) = Len(t) + 1
          /\ Append(t, n)[Len(t) + 1] = n /\ \A i \in 1 .. Len(t) : Append(t, n)[i] = t[i]
      BY AppendIs
    <2>2. PICK a \in Seq(Name) : a = Append(t, n)
      BY <2>1
    <2>3. SubSeq(a, Len(old) + 1, Len(a)) = SubSeq(a, Len(old) + 1, Len(a) - 1) \o <<a[Len(a)]>>
      <3>1. Len(old) + 1 \in 1 .. Len(a) /\ Len(a) \in Len(old) + 1 .. Len(a)
        BY <1>1, <2>1, <2>2
      <3> QED
        BY <3>1, SubSeqRecursiveSecond
    <2>4. SubSeq(a, Len(old) + 1, Len(t)) = r
      BY <1>1, <1>4, <2>1, <2>2
    <2>5. Len(a) - 1 = Len(t) /\ a[Len(a)] = n
      BY <1>1, <2>1, <2>2
    <2> QED
      BY <2>2, <2>3, <2>4, <2>5
  <1>6. new \o (r \o <<n>>) = (new \o r) \o <<n>>
    <2>1. <<n>> \in Seq(Name)
      OBVIOUS
    <2> QED
      BY <2>1, ConcatAssociative
  <1>7. new \o r \in Seq(Name)
    OBVIOUS
  <1>8. (new \o r) \o <<n>> = Append(new \o r, n)
    BY <1>7, AppendIs
  <1> QED
    BY <1>2, <1>3, <1>4, <1>5, <1>6, <1>7, <1>8 DEF Rebased

-----------------------------------------------------------------------------
(* Where the entries of a standing tree are found.                         *)

LEMMA PathFacts ==
    ASSUME Distinct, Standing, NEW e \in Entry, Held(e), NEW up, up = entry[e].parent
    PROVE  /\ up = Root \/ (up \in Directory /\ up \in Entry /\ Held(up) /\ (Live(e) => Live(up)))
           /\ entry[e].name \in Name /\ PathOf(up) \in Seq(Name)
           /\ entry[e].path = Append(PathOf(up), entry[e].name)
           /\ PathOf(e) = entry[e].path
           /\ entry[e].path \in Seq(Name) /\ Len(PathOf(up)) \in Nat
           /\ Len(entry[e].path) = Len(PathOf(up)) + 1
  <1>1. /\ up = Root \/ (up \in Directory /\ up \in Entry /\ Held(up) /\ (Live(e) => Live(up)))
        /\ entry[e].name \in Name /\ PathOf(up) \in Seq(Name)
        /\ entry[e].path = Append(PathOf(up), entry[e].name)
    <2>1. Seated(e)
      BY DEF Standing
    <2> QED
      BY <2>1 DEF Seated, Entry
  <1>2. PathOf(e) = entry[e].path
    BY DEF Distinct, PathOf
  <1> QED
    BY <1>1, <1>2, AppendIs

LEMMA PathOfRoot == PathOf(Root) = <<>> /\ <<>> \in Seq(Name) /\ Len(<<>>) = 0
  BY DEF PathOf

\* No two entries carry one path.
LEMMA OnePath ==
    ASSUME Distinct, Standing, NEW a \in Entry, NEW b \in Entry, Held(a), Held(b),
           entry[a].path = entry[b].path
    PROVE  a = b
  <1> DEFINE Twin(e) == \E f \in Entry : /\ Held(e) /\ Held(f) /\ e # f
                                         /\ entry[e].path = entry[f].path
             T       == {Len(entry[e].path) : e \in {x \in Entry : Twin(x)}}
  <1> SUFFICES ASSUME a # b
               PROVE  FALSE
    OBVIOUS
  <1>1. T \subseteq Nat /\ T # {}
    <2>1. ASSUME NEW e \in Entry, Held(e)
          PROVE  Len(entry[e].path) \in Nat
      BY <2>1, PathFacts
    <2>2. Twin(a)
      OBVIOUS
    <2> QED
      BY <2>1, <2>2
  <1>2. PICK least \in T : \A x \in T : least <= x
    <2> HIDE DEF T
    <2> QED
      BY <1>1, LeastOf
  <1>3. PICK e \in Entry, f \in Entry :
           Held(e) /\ Held(f) /\ e # f /\ entry[e].path = entry[f].path
             /\ Len(entry[e].path) = least
    BY <1>2
  <1>4. PICK v, w : v = entry[e].parent /\ w = entry[f].parent
    OBVIOUS
  <1>5. /\ v = Root \/ (v \in Entry /\ Held(v))
        /\ entry[e].name \in Name /\ PathOf(v) \in Seq(Name)
        /\ entry[e].path = Append(PathOf(v), entry[e].name)
        /\ Len(PathOf(v)) \in Nat /\ Len(entry[e].path) = Len(PathOf(v)) + 1
    BY <1>3, <1>4, PathFacts
  <1>6. /\ w = Root \/ (w \in Entry /\ Held(w))
        /\ entry[f].name \in Name /\ PathOf(w) \in Seq(Name)
        /\ entry[f].path = Append(PathOf(w), entry[f].name)
    BY <1>3, <1>4, PathFacts
  <1>7. PathOf(v) = PathOf(w) /\ entry[e].name = entry[f].name
    <2>1. Append(PathOf(v), entry[e].name) = Append(PathOf(w), entry[f].name)
      BY <1>3, <1>5, <1>6
    <2>2. \A s, t \in Seq(Name), m, n \in Name : Append(s, m) = Append(t, n) => s = t /\ m = n
      BY AppendInjective
    <2> QED
      BY <1>5, <1>6, <2>1, <2>2
  <1>8. v # w
    BY <1>3, <1>4, <1>7 DEF Standing, Unique
  <1>9. ASSUME NEW d \in Entry, Held(d)
        PROVE  PathOf(d) = entry[d].path /\ PathOf(d) # <<>>
    BY <1>9, PathFacts, PathOfRoot
  <1>10. v \in Entry /\ w \in Entry /\ Held(v) /\ Held(w)
    BY <1>5, <1>6, <1>7, <1>8, <1>9, PathOfRoot
  <1>11. Twin(v) /\ Len(entry[v].path) < least
    BY <1>3, <1>5, <1>7, <1>8, <1>9, <1>10
  <1>12. Len(entry[v].path) \in T
    BY <1>10, <1>11
  <1> HIDE DEF T
  <1> QED
    BY <1>1, <1>2, <1>11, <1>12

\* What Walk looks up at one name.
NextOn(e, n) ==
    LET next == Child(e, n) IN IF next = {} THEN None ELSE CHOOSE c \in next : TRUE

\* Walk is the function that its recursive definition says.
LEMMA WalkIs ==
    ASSUME NEW path \in Seq(Name), NEW i \in 0 .. Len(path)
    PROVE  Walk(path)[i] = IF i = 0 THEN Root ELSE NextOn(Walk(path)[i - 1], path[i])
  <1> DEFINE G(f, n) == f = [j \in 0 .. n |-> IF j = 0 THEN Root ELSE NextOn(f[j - 1], path[j])]
             T       == {n \in 0 .. Len(path) : ~\E f : G(f, n)}
  <1>1. Len(path) \in Nat
    OBVIOUS
  <1>2. T = {}
    <2> SUFFICES ASSUME T # {}
                 PROVE  FALSE
      OBVIOUS
    <2>1. PICK n \in T : \A y \in T : n <= y
      <3>1. T \subseteq Nat
        BY <1>1
      <3> HIDE DEF T
      <3> QED
        BY <3>1, LeastOf
    <2>2. n \in 0 .. Len(path) /\ ~\E f : G(f, n)
      BY <2>1
    <2>3. CASE n = 0
      <3>1. PICK f : f = [j \in 0 .. 0 |-> Root]
        OBVIOUS
      <3>2. G(f, 0)
        BY <3>1
      <3> QED
        BY <2>2, <2>3, <3>2
    <2>4. CASE n # 0
      <3>1. n - 1 \in 0 .. Len(path) /\ n - 1 \notin T
        <4>1. n - 1 \in 0 .. Len(path) /\ ~(n <= n - 1)
          BY <1>1, <2>2, <2>4
        <4> HIDE DEF T
        <4> QED
          BY <2>1, <4>1
      <3>2. PICK f : G(f, n - 1)
        BY <3>1
      <3>3. PICK g : g = [j \in 0 .. n |-> IF j <= n - 1 THEN f[j] ELSE NextOn(f[n - 1], path[n])]
        OBVIOUS
      <3>4. ASSUME NEW j \in 0 .. n
            PROVE  g[j] = IF j = 0 THEN Root ELSE NextOn(g[j - 1], path[j])
        <4>1. CASE j <= n - 1
          BY <1>1, <2>2, <2>4, <3>2, <3>3, <4>1
        <4>2. CASE j = n
          BY <1>1, <2>2, <2>4, <3>2, <3>3, <4>2
        <4> QED
          BY <1>1, <2>2, <4>1, <4>2
      <3>5. G(g, n)
        BY <3>3, <3>4
      <3> QED
        BY <2>2, <3>5
    <2> QED
      BY <2>3, <2>4
  <1>3. \E f : G(f, Len(path))
    BY <1>1, <1>2
  <1>4. Walk(path) = CHOOSE f : G(f, Len(path))
    BY DEF Walk, NextOn
  <1>5. PICK w : w = Walk(path)
    OBVIOUS
  <1>6. G(w, Len(path))
    BY <1>3, <1>4, <1>5
  <1> QED
    BY <1>5, <1>6

\* The i-th entry on a path carries the first i names of it.
Follows(path, i, v, w) == v = Walk(path)[i - 1] /\ w = Walk(path)[i]

LEMMA WalkStep ==
    ASSUME Distinct, Standing, NEW path \in Seq(Name), NEW i \in 1 .. Len(path),
           NEW v, NEW w, Follows(path, i, v, w)
    PROVE  /\ w = None <=> Child(v, path[i]) = {}
           /\ w # None => /\ w \in Entry /\ Live(w) /\ v # None /\ path[i] \in Name
                          /\ entry[w].parent = v /\ entry[w].name = path[i]
  <1>1. w = NextOn(v, path[i])
    <2>1. v = Walk(path)[i - 1] /\ w = Walk(path)[i] /\ i \in 0 .. Len(path) /\ i # 0
      BY DEF Follows
    <2> QED
      BY <2>1, WalkIs
  <1>2. CASE Child(v, path[i]) = {}
    BY <1>1, <1>2 DEF NextOn
  <1>3. CASE Child(v, path[i]) # {}
    <2>1. w \in Child(v, path[i])
      BY <1>1, <1>3 DEF NextOn
    <2>2. w \in Entry /\ Live(w) /\ entry[w].parent = v /\ entry[w].name = path[i] /\ Held(w)
      BY <2>1 DEF Child, Live, Held
    <2>3. v = Root \/ v \in Entry
      BY <2>2, PathFacts
    <2> QED
      BY <1>3, <2>2, <2>3 DEF Distinct
  <1> QED
    BY <1>2, <1>3

\* What is there is found.
LEMMA WalkFinds ==
    ASSUME Distinct, Standing, NEW path \in Seq(Name), NEW i \in 1 .. Len(path),
           NEW v, NEW w, Follows(path, i, v, w), NEW c \in Child(v, path[i])
    PROVE  w \in Entry /\ Live(w) /\ entry[w].parent = v /\ entry[w].name = path[i]
  <1>1. w # None
    BY WalkStep
  <1> QED
    BY <1>1, WalkStep

LEMMA WalkPath ==
    ASSUME Distinct, Standing, NEW path \in Seq(Name), NEW k \in 0 .. Len(path),
           Walk(path)[k] # None
    PROVE  /\ PathOf(Walk(path)[k]) = SubSeq(path, 1, k)
           /\ IF k = 0 THEN Walk(path)[k] = Root
                       ELSE Walk(path)[k] \in Entry /\ Live(Walk(path)[k])
           /\ \A j \in 0 .. k : Walk(path)[j] # None
  <1> DEFINE Right(i) == /\ PathOf(Walk(path)[i]) = SubSeq(path, 1, i)
                         /\ \A j \in 0 .. i : Walk(path)[j] # None
             T        == {i \in 0 .. Len(path) : Walk(path)[i] # None /\ ~Right(i)}
  <1>0. Len(path) \in Nat /\ Walk(path)[0] = Root
    BY WalkIs
  <1>1. T = {}
    <2> SUFFICES ASSUME T # {}
                 PROVE  FALSE
      OBVIOUS
    <2>1. PICK n \in T : \A y \in T : n <= y
      <3>1. T \subseteq Nat
        BY <1>0
      <3> HIDE DEF T
      <3> QED
        BY <3>1, LeastOf
    <2>2. n \in 0 .. Len(path) /\ Walk(path)[n] # None /\ ~Right(n)
      BY <2>1
    <2>3. n # 0
      <3>1. SubSeq(path, 1, 0) = <<>>
        BY SubSeqEmpty
      <3>2. Right(0)
        BY <1>0, <3>1, PathOfRoot DEF Distinct
      <3> QED
        BY <2>2, <3>2
    <2>4. PICK v, w : v = Walk(path)[n - 1] /\ w = Walk(path)[n]
      OBVIOUS
    <2>5. n \in 1 .. Len(path) /\ n - 1 \in 0 .. Len(path)
      BY <1>0, <2>2, <2>3
    <2>6. w \in Entry /\ Live(w) /\ v # None /\ entry[w].parent = v /\ entry[w].name = path[n]
      BY <2>2, <2>4, <2>5, WalkStep DEF Follows
    <2>7. n - 1 \notin T
      BY <1>0, <2>1, <2>5
    <2>8. Right(n - 1)
      BY <2>4, <2>5, <2>6, <2>7
    <2>9. PathOf(w) = Append(PathOf(v), path[n])
      BY <2>6, PathFacts DEF Live, Held
    <2>10. PathOf(w) = SubSeq(path, 1, n)
      <3>1. SubSeq(path, 1, n) = Append(SubSeq(path, 1, n - 1), path[n])
        BY <1>0, <2>5, PartOf
      <3> QED
        BY <2>4, <2>8, <2>9, <3>1
    <2>11. \A j \in 0 .. n : Walk(path)[j] # None
      BY <1>0, <2>2, <2>5, <2>8
    <2> QED
      BY <2>2, <2>4, <2>10, <2>11
  <1>2. Right(k)
    BY <1>1
  <1>3. k # 0 => Walk(path)[k] \in Entry /\ Live(Walk(path)[k])
    <2>1. PICK v, w : Follows(path, k, v, w) /\ w = Walk(path)[k]
      BY DEF Follows
    <2> QED
      BY <1>0, <2>1, WalkStep
  <1> QED
    BY <1>0, <1>2, <1>3

\* A walk along the path of an entry, and beyond, passes it.
LEMMA WalkPasses ==
    ASSUME Distinct, Standing, NEW path \in Seq(Name), NEW a \in Entry, Live(a),
           IsPrefix(entry[a].path, path)
    PROVE  Len(entry[a].path) \in 1 .. Len(path) /\ Walk(path)[Len(entry[a].path)] = a
  <1> DEFINE On(e) == Live(e) /\ IsPrefix(entry[e].path, path)
             T     == {Len(entry[e].path) : e \in
                         {x \in Entry : On(x) /\ Walk(path)[Len(entry[x].path)] # x}}
  <1>0. Len(path) \in Nat /\ Walk(path)[0] = Root
    BY WalkIs
  <1>1. ASSUME NEW e \in Entry, Live(e)
        PROVE  entry[e].path \in Seq(Name) /\ Len(entry[e].path) \in Nat \ {0}
    BY <1>1, PathFacts DEF Live, Held
  <1>2. ASSUME NEW e \in Entry, On(e)
        PROVE  /\ Len(entry[e].path) \in 1 .. Len(path)
               /\ entry[e].path[Len(entry[e].path)] = path[Len(entry[e].path)]
    <2>1. PICK s \in Seq(Name) : s = entry[e].path /\ Len(s) \in Nat \ {0} /\ IsPrefix(s, path)
      BY <1>1, <1>2
    <2> QED
      BY <1>0, <2>1, PrefixIs
  <1>3. T = {}
    <2> SUFFICES ASSUME T # {}
                 PROVE  FALSE
      OBVIOUS
    <2>1. PICK least : least \in T /\ \A y \in T : least <= y
      <3>1. T \subseteq Nat
        BY <1>1
      <3> HIDE DEF T
      <3> QED
        BY <3>1, LeastOf
    <2>2. PICK e \in Entry : On(e) /\ Walk(path)[Len(entry[e].path)] # e /\ Len(entry[e].path) = least
      BY <2>1
    <2>3. PICK up : up = entry[e].parent
      OBVIOUS
    <2>4. /\ up = Root \/ (up \in Entry /\ Live(up))
          /\ entry[e].name \in Name /\ PathOf(up) \in Seq(Name)
          /\ entry[e].path = Append(PathOf(up), entry[e].name)
          /\ Len(PathOf(up)) \in Nat /\ least = Len(PathOf(up)) + 1
      BY <2>2, <2>3, PathFacts DEF Live, Held
    <2>5. PICK k \in Nat : k = Len(PathOf(up)) /\ k + 1 = least
      BY <2>4
    <2>6. k + 1 \in 1 .. Len(path) /\ entry[e].path[k + 1] = path[k + 1]
      BY <1>2, <2>2, <2>5
    <2>7. entry[e].name = path[k + 1]
      BY <2>4, <2>5, <2>6, AppendIs
    <2>8. Walk(path)[k] = up
      <3>1. CASE up = Root
        BY <1>0, <2>5, <3>1, PathOfRoot
      <3>2. CASE up \in Entry /\ Live(up)
        <4>1. PathOf(up) = entry[up].path
          BY <3>2, PathFacts DEF Live, Held
        <4>2. IsPrefix(PathOf(up), entry[e].path)
          BY <2>4, PrefixOfAppend, PrefixOrder
        <4>3. PICK s, t \in Seq(Name) : s = PathOf(up) /\ t = entry[e].path
          BY <1>1, <2>2, <2>4
        <4>4. IsPrefix(PathOf(up), path)
          BY <2>2, <4>2, <4>3, PrefixOrder
        <4>5. k \notin T
          <5>1. ~(least <= k)
            BY <2>5
          <5> HIDE DEF T
          <5> QED
            BY <2>1, <5>1
        <4>6. On(up)
          BY <3>2, <4>1, <4>4
        <4> QED
          BY <2>5, <3>2, <4>1, <4>5, <4>6
      <3> QED
        BY <2>4, <3>1, <3>2
    <2>9. e \in Child(up, path[k + 1])
      BY <2>2, <2>3, <2>7 DEF Child
    <2>10. PICK w : w = Walk(path)[k + 1]
      OBVIOUS
    <2>11. w \in Entry /\ Live(w) /\ entry[w].parent = up /\ entry[w].name = path[k + 1]
      <3>1. PICK i \in 1 .. Len(path) : i = k + 1
        BY <2>6
      <3>2. up = Walk(path)[i - 1] /\ w = Walk(path)[i] /\ Child(up, path[i]) # {}
        <4>1. i - 1 = k
          BY <2>5, <3>1
        <4> QED
          BY <2>8, <2>9, <2>10, <3>1, <4>1
      <3>3. Follows(path, i, up, w)
        BY <3>2 DEF Follows
      <3>4. PICK c : c \in Child(up, path[i])
        BY <3>2
      <3>5. w \in Entry /\ Live(w) /\ entry[w].parent = up /\ entry[w].name = path[i]
        BY ONLY Distinct, Standing, <3>3, <3>4, WalkFinds
      <3> QED
        BY <3>1, <3>5
    <2>12. w = e
      BY <2>2, <2>3, <2>7, <2>11 DEF Standing, Unique, Live, Held
    <2> QED
      BY <2>2, <2>5, <2>10, <2>12
  <1> QED
    BY <1>2, <1>3

\* In a standing tree every live entry is found by the names that lead to it.
LEMMA StandingIsFound ==
    ASSUME Distinct, Standing, NEW e \in Entry, Live(e)
    PROVE  At(entry[e].path) = e
  <1>1. entry[e].path \in Seq(Name)
    BY PathFacts DEF Live, Held
  <1>2. IsPrefix(entry[e].path, entry[e].path)
    BY <1>1, PrefixOrder
  <1>3. Walk(entry[e].path)[Len(entry[e].path)] = e
    BY <1>1, <1>2, WalkPasses
  <1> QED
    BY <1>1, <1>3 DEF At

-----------------------------------------------------------------------------
(* Directories that are made on the way.                                   *)

LEMMA PathIs ==
    ASSUME NEW path \in Path
    PROVE  /\ path \in Seq(Name) /\ Len(path) \in Nat \ {0}
           /\ Front(path) \in Seq(Name) /\ Front(path) = SubSeq(path, 1, Len(path) - 1)
           /\ Len(Front(path)) = Len(path) - 1
           /\ Last(path) \in Name
  <1>1. PICK n \in 1 .. MaxDepth : path \in [1 .. n -> Name]
    BY DEF Path
  <1>2. n \in Nat \ {0}
    OBVIOUS
  <1>3. path \in Seq(Name) /\ Len(path) = n
    BY <1>1, <1>2
  <1>4. PICK i \in 0 .. Len(path) : i = Len(path) - 1
    BY <1>2, <1>3
  <1>5. SubSeq(path, 1, i) \in Seq(Name) /\ Len(SubSeq(path, 1, i)) = i
    BY <1>3, <1>4, PartOf
  <1> QED
    BY <1>1, <1>2, <1>3, <1>4, <1>5 DEF Front, Last

\* The names that are missing are those after the k-th.
LEMMA MissingIs ==
    ASSUME Distinct, Standing, NEW path \in Seq(Name)
    PROVE  \E k \in 0 .. Len(path) :
              /\ Missing(path) = k + 1 .. Len(path)
              /\ Len(path) - Cardinality(Missing(path)) = k
              /\ Walk(path)[k] # None
  <1>0. Len(path) \in Nat /\ Walk(path)[0] = Root
    BY WalkIs
  <1>1. ASSUME NEW i \in 1 .. Len(path), Walk(path)[i] # None
        PROVE  \A j \in 0 .. i : Walk(path)[j] # None
    BY <1>1, <1>0, WalkPath
  <1>2. PICK k \in 0 .. Len(path) : Missing(path) = k + 1 .. Len(path) /\ Walk(path)[k] # None
    <2>1. CASE Missing(path) = {}
      <3>1. Missing(path) = Len(path) + 1 .. Len(path)
        BY <1>0, <2>1
      <3>2. Walk(path)[Len(path)] # None
        BY <1>0, <2>1 DEF Missing, Distinct
      <3> QED
        BY <1>0, <3>1, <3>2
    <2>2. CASE Missing(path) # {}
      <3>1. PICK least \in Missing(path) : \A y \in Missing(path) : least <= y
        <4>1. Missing(path) \subseteq Nat
          BY <1>0 DEF Missing
        <4> QED
          BY <2>2, <4>1, LeastOf
      <3>2. least \in 1 .. Len(path) /\ Walk(path)[least] = None
        BY <3>1 DEF Missing
      <3>3. ASSUME NEW i \in least .. Len(path)
            PROVE  i \in Missing(path)
        BY <1>0, <1>1, <3>2 DEF Missing
      <3>4. Missing(path) = least .. Len(path)
        BY <1>0, <3>1, <3>2, <3>3 DEF Missing
      <3>5. PICK i \in 0 .. Len(path) : least = i + 1
        BY <1>0, <3>2
      <3>6. i \notin Missing(path)
        BY <1>0, <3>1, <3>5
      <3>7. Walk(path)[i] # None
        BY <1>0, <3>5, <3>6 DEF Missing, Distinct
      <3> QED
        BY <3>4, <3>5, <3>7
    <2> QED
      BY <2>1, <2>2
  <1>3. Cardinality(k + 1 .. Len(path)) = Len(path) - k
    <2>1. k + 1 \in Int /\ Len(path) \in Int
      BY <1>0
    <2>2. Cardinality(k + 1 .. Len(path))
            = IF k + 1 > Len(path) THEN 0 ELSE Len(path) - (k + 1) + 1
      BY <2>1, FS_Interval
    <2> QED
      BY <1>0, <2>2
  <1> QED
    BY <1>0, <1>2, <1>3

\* The entries on a path, those that are made from the k-th name on included: each carries what
\* leads to it.
Grows(g, path, ids, status, k) ==
    /\ Node(path, ids, 0) = Root
    /\ \A i \in 1 .. k : /\ Node(path, ids, i) = Walk(path)[i]
                         /\ Walk(path)[i] \in Entry /\ Live(Walk(path)[i])
                         /\ entry[Walk(path)[i]].path = SubSeq(path, 1, i)
    /\ \A i \in k + 1 .. Len(path) :
          /\ Node(path, ids, i) = ids[i] /\ ids[i] \in Range(ids) /\ Walk(path)[i] = None
          /\ ids[i] \in Directory /\ ids[i] \in Entry /\ entry[ids[i]].status = "unused"
          /\ g[ids[i]] =
               [status |-> status, parent |-> Node(path, ids, i - 1), name |-> path[i],
                path |-> SubSeq(path, 1, i), shown |-> g[ids[i]].shown, checksum |-> None]
    /\ \A e \in Range(ids) : \E i \in k + 1 .. Len(path) : e = ids[i]
    /\ \A e \in Entry \ Range(ids) : g[e] = entry[e]
    /\ g = [e \in Entry |-> g[e]]

LEMMA GrownIs ==
    ASSUME Distinct, Standing, NEW path \in Seq(Name), NEW ids \in Fresh(path), NEW status,
           NEW k \in 0 .. Len(path), Missing(path) = k + 1 .. Len(path),
           Len(path) - Cardinality(Missing(path)) = k, Walk(path)[k] # None
    PROVE  Grows(Grown(path, ids, status), path, ids, status, k)
  <1>0. Len(path) \in Nat /\ Walk(path)[0] = Root
    BY WalkIs
  <1>1. /\ ids \in [k + 1 .. Len(path) -> {d \in Directory : entry[d].status = "unused"}]
        /\ \A i, j \in k + 1 .. Len(path) : ids[i] = ids[j] => i = j
    BY DEF Fresh, IsInjective
  <1>2. ASSUME NEW i \in 0 .. k
        PROVE  /\ Node(path, ids, i) = Walk(path)[i] /\ PathOf(Walk(path)[i]) = SubSeq(path, 1, i)
               /\ i # 0 => Walk(path)[i] \in Entry /\ Live(Walk(path)[i])
    <2>1. Walk(path)[i] # None /\ i \in 0 .. Len(path)
      BY <1>0, WalkPath
    <2>2. Node(path, ids, i) = Walk(path)[i]
      BY <1>0, <2>1 DEF Node
    <2>3. PICK j \in 0 .. Len(path) : j = i
      BY <2>1
    <2>4. Walk(path)[j] # None
      BY <2>1, <2>3
    <2> QED
      BY <2>2, <2>3, <2>4, WalkPath
  <1>3. \A i \in 1 .. k : /\ Node(path, ids, i) = Walk(path)[i]
                          /\ Walk(path)[i] \in Entry /\ Live(Walk(path)[i])
                          /\ entry[Walk(path)[i]].path = SubSeq(path, 1, i)
    BY <1>2 DEF PathOf, Distinct
  <1>4. ASSUME NEW e \in Range(ids)
        PROVE  /\ e \in Directory /\ e \in Entry /\ entry[e].status = "unused"
               /\ \E i \in k + 1 .. Len(path) : e = ids[i]
    BY <1>1 DEF Range, Entry
  <1>5. PICK known : known = Walk(path)[k]
    OBVIOUS
  <1>6. known = Node(path, ids, Len(path) - Cardinality(Missing(path)))
    BY <1>2, <1>5
  <1>7. ASSUME NEW i \in k + 1 .. Len(path)
        PROVE  /\ Node(path, ids, i) = ids[i] /\ ids[i] \in Range(ids) /\ Walk(path)[i] = None
               /\ Grown(path, ids, status)[ids[i]] =
                    [status |-> status, parent |-> Node(path, ids, i - 1), name |-> path[i],
                     path |-> SubSeq(path, 1, i),
                     shown |-> Grown(path, ids, status)[ids[i]].shown, checksum |-> None]
    <2>1. i # 0 /\ i \in Missing(path) /\ i \in Nat
      BY <1>0
    <2>2. Node(path, ids, i) = ids[i] /\ Walk(path)[i] = None
      BY <2>1 DEF Node, Missing
    <2>3. ids[i] \in Range(ids)
      BY <1>1 DEF Range
    <2>4. (CHOOSE j \in Missing(path) : ids[j] = ids[i]) = i
      BY <1>1
    <2>5. SubSeq(path, 1, k) \o SubSeq(path, k + 1, i) = SubSeq(path, 1, i)
      <3>1. 1 \in 1 .. Len(path) + 1 /\ k \in 1 - 1 .. Len(path) /\ i \in k .. Len(path)
        BY <1>0
      <3> QED
        BY <3>1, ConcatAdjacentSubSeq
    <2>6. PathOf(known) = SubSeq(path, 1, k)
      BY <1>2, <1>5
    <2>7. PICK s : s = ShownOf(known) \o SubSeq(path, k + 1, i)
      OBVIOUS
    <2>8. Grown(path, ids, status)[ids[i]]
            = [Unused EXCEPT !.status = status, !.parent = Node(path, ids, i - 1), !.name = path[i],
                 !.path = PathOf(known) \o SubSeq(path, k + 1, i), !.shown = s]
      BY <1>4, <1>6, <2>3, <2>4, <2>7, Zenon DEF Grown
    <2>9. PICK up, n, p : up = Node(path, ids, i - 1) /\ n = path[i] /\ p = SubSeq(path, 1, i)
      OBVIOUS
    <2>10. Grown(path, ids, status)[ids[i]]
            = [Unused EXCEPT !.status = status, !.parent = up, !.name = n, !.path = p, !.shown = s]
      BY <2>5, <2>6, <2>8, <2>9
    <2>11. [Unused EXCEPT !.status = status, !.parent = up, !.name = n, !.path = p, !.shown = s]
             = [status |-> status, parent |-> up, name |-> n, path |-> p, shown |-> s,
                checksum |-> None]
      <3>1. PICK a : a = [Unused EXCEPT !.status = status, !.parent = up]
        OBVIOUS
      <3>2. a = [status |-> status, parent |-> up, name |-> None, path |-> <<>>, shown |-> <<>>,
                 checksum |-> None]
        BY <3>1 DEF Unused
      <3>3. PICK b : b = [a EXCEPT !.name = n, !.path = p]
        OBVIOUS
      <3>4. b = [status |-> status, parent |-> up, name |-> n, path |-> p, shown |-> <<>>,
                 checksum |-> None]
        BY <3>2, <3>3
      <3>5. [b EXCEPT !.shown = s]
              = [status |-> status, parent |-> up, name |-> n, path |-> p, shown |-> s,
                 checksum |-> None]
        BY <3>4
      <3> QED
        BY <3>1, <3>3, <3>5
    <2>12. PICK z : z = Grown(path, ids, status)[ids[i]]
      OBVIOUS
    <2>13. z = [status |-> status, parent |-> up, name |-> n, path |-> p, shown |-> z.shown,
                checksum |-> None]
      BY <2>10, <2>11, <2>12
    <2> QED
      BY <2>2, <2>3, <2>9, <2>12, <2>13
  <1>8. /\ \A e \in Entry \ Range(ids) : Grown(path, ids, status)[e] = entry[e]
        /\ Grown(path, ids, status) = [e \in Entry |-> Grown(path, ids, status)[e]]
    BY DEF Grown
  <1> QED
    <2>1. Node(path, ids, 0) = Root
      BY DEF Node
    <2>2. \A i \in k + 1 .. Len(path) :
             ids[i] \in Directory /\ ids[i] \in Entry /\ entry[ids[i]].status = "unused"
      BY <1>4, <1>7
    <2> QED
      BY <1>3, <1>4, <1>7, <1>8, <2>1, <2>2 DEF Grows

\* No entry that is not committed has the name of one that is made.
NotPending(path, ids) ==
    \A i \in Missing(path), e \in Entry :
        ~(/\ entry[e].status = "pending" /\ entry[e].parent = Node(path, ids, i - 1)
          /\ entry[e].name = path[i])

LEMMA GrownStands ==
    ASSUME Distinct, Standing, NEW path \in Seq(Name), NEW ids \in Fresh(path),
           NEW status \in {"live", "pending"}, NotPending(path, ids),
           \A i \in 1 .. Len(path) : Walk(path)[i] \notin File,
           entry' = Grown(path, ids, status)
    PROVE  Standing'
  <1>0. Len(path) \in Nat
    OBVIOUS
  <1>1. PICK k \in 0 .. Len(path) : /\ Missing(path) = k + 1 .. Len(path)
                                    /\ Len(path) - Cardinality(Missing(path)) = k
                                    /\ Walk(path)[k] # None
    BY MissingIs
  <1>g. Grows(entry', path, ids, status, k)
    <2>1. PICK g : g = Grown(path, ids, status)
      OBVIOUS
    <2>2. entry' = g
      BY <2>1
    <2>3. Grows(g, path, ids, status, k)
      BY <1>1, <2>1, GrownIs
    <2> QED
      BY <2>2, <2>3
  <1>2. /\ Node(path, ids, 0) = Root
        /\ \A i \in 1 .. k : /\ Node(path, ids, i) = Walk(path)[i]
                             /\ Walk(path)[i] \in Entry /\ Live(Walk(path)[i])
                             /\ entry[Walk(path)[i]].path = SubSeq(path, 1, i)
        /\ \A i \in k + 1 .. Len(path) :
              /\ Node(path, ids, i) = ids[i] /\ ids[i] \in Range(ids) /\ Walk(path)[i] = None
              /\ ids[i] \in Directory /\ ids[i] \in Entry /\ entry[ids[i]].status = "unused"
              /\ entry'[ids[i]].status = status
              /\ entry'[ids[i]].parent = Node(path, ids, i - 1) /\ entry'[ids[i]].name = path[i]
              /\ entry'[ids[i]].path = SubSeq(path, 1, i)
        /\ \A e \in Range(ids) : \E i \in k + 1 .. Len(path) : e = ids[i]
        /\ \A e \in Entry \ Range(ids) : entry'[e] = entry[e]
    <2>1. ASSUME NEW i \in k + 1 .. Len(path)
          PROVE  /\ entry'[ids[i]].status = status
                 /\ entry'[ids[i]].parent = Node(path, ids, i - 1)
                 /\ entry'[ids[i]].name = path[i]
                 /\ entry'[ids[i]].path = SubSeq(path, 1, i)
      <3>1. entry'[ids[i]] =
               [status |-> status, parent |-> Node(path, ids, i - 1), name |-> path[i],
                path |-> SubSeq(path, 1, i), shown |-> entry'[ids[i]].shown, checksum |-> None]
        BY <1>g, Zenon DEF Grows
      <3> QED
        BY <3>1
    <2> QED
      BY <1>g, <2>1, Zenon DEF Grows
  <1>3. ASSUME NEW e \in Entry, Held(e)
        PROVE  e \notin Range(ids) /\ entry'[e] = entry[e]
    BY <1>2, <1>3 DEF Held
  <1>4. ASSUME NEW i \in 0 .. Len(path), NEW up, up = Node(path, ids, i)
        PROVE  /\ PathOf(up)' = SubSeq(path, 1, i)
               /\ up = Root \/ (up \in Directory /\ Held(up)' /\ (status = "live" => Live(up)'))
    <2>1. CASE i = 0
      BY <1>2, <1>4, <2>1, SubSeqEmpty DEF PathOf
    <2>2. CASE i \in 1 .. k
      <3>1. up \in Entry /\ Live(up) /\ entry[up].path = SubSeq(path, 1, i)
        BY <1>2, <1>4, <2>2
      <3>2. up \in Directory /\ up # Root
        BY <1>2, <1>4, <2>2, <3>1 DEF Entry, Distinct
      <3>3. entry'[up] = entry[up]
        BY <1>3, <3>1 DEF Live, Held
      <3> QED
        BY <3>1, <3>2, <3>3 DEF PathOf, Live, Held
    <2>3. CASE i \in k + 1 .. Len(path)
      <3>1. up = ids[i] /\ up \in Directory /\ up \in Entry
        BY <1>2, <1>4, <2>3
      <3>2. entry'[up].path = SubSeq(path, 1, i) /\ entry'[up].status = status
        BY <1>2, <2>3, <3>1
      <3> QED
        BY <3>1, <3>2 DEF Distinct, PathOf, Live, Held
    <2> QED
      BY <1>0, <2>1, <2>2, <2>3
  <1>5. ASSUME NEW e \in Range(ids)
        PROVE  \E i \in k + 1 .. Len(path) :
                 /\ i \in 1 .. Len(path) /\ i - 1 \in 0 .. Len(path)
                 /\ e = ids[i] /\ entry'[e].parent = Node(path, ids, i - 1)
                 /\ entry'[e].name = path[i] /\ entry'[e].status = status
                 /\ entry'[e].path = SubSeq(path, 1, i)
    <2>1. PICK i \in k + 1 .. Len(path) : e = ids[i]
      BY <1>2
    <2> QED
      BY <1>0, <1>2, <2>1
  <1>6. ASSUME NEW e \in Entry, Held(e)'
        PROVE  Seated(e)'
    <2>1. CASE e \in Range(ids)
      <3>1. PICK i \in k + 1 .. Len(path) :
               /\ i \in 1 .. Len(path) /\ i - 1 \in 0 .. Len(path)
               /\ e = ids[i] /\ entry'[e].parent = Node(path, ids, i - 1)
               /\ entry'[e].name = path[i] /\ entry'[e].status = status
               /\ entry'[e].path = SubSeq(path, 1, i)
        BY <1>5, <2>1
      <3>2. PICK up : up = Node(path, ids, i - 1)
        OBVIOUS
      <3>3. /\ PathOf(up)' = SubSeq(path, 1, i - 1)
            /\ up = Root \/ (up \in Directory /\ Held(up)' /\ (status = "live" => Live(up)'))
        BY <1>4, <3>1, <3>2
      <3>4. /\ SubSeq(path, 1, i) = Append(SubSeq(path, 1, i - 1), path[i])
            /\ SubSeq(path, 1, i - 1) \in Seq(Name)
        BY <1>0, <3>1, PartOf
      <3>5. path[i] \in Name
        BY <3>1
      <3>6. Live(e)' => status = "live"
        BY <3>1 DEF Live
      <3> QED
        BY <3>1, <3>2, <3>3, <3>4, <3>5, <3>6 DEF Seated
    <2>2. CASE e \notin Range(ids)
      <3>1. Held(e) /\ entry'[e] = entry[e]
        BY <1>2, <1>6, <2>2 DEF Held
      <3>2. PICK up : up = entry[e].parent
        OBVIOUS
      <3>3. /\ up = Root \/ (up \in Directory /\ up \in Entry /\ Held(up) /\ (Live(e) => Live(up)))
            /\ entry[e].name \in Name /\ PathOf(up) \in Seq(Name)
            /\ entry[e].path = Append(PathOf(up), entry[e].name)
        BY <3>1, <3>2, PathFacts
      <3>4. PathOf(up)' = PathOf(up) /\ (up # Root => entry'[up] = entry[up])
        BY <1>3, <3>3 DEF PathOf
      <3> QED
        BY <3>1, <3>2, <3>3, <3>4 DEF Seated, Held, Live
    <2> QED
      BY <2>1, <2>2
  <1>7. ASSUME NEW a \in Entry, NEW b \in Entry, Held(a), a \notin Range(ids), b \in Range(ids),
               entry[a].parent = entry'[b].parent, entry[a].name = entry'[b].name
        PROVE  FALSE
    <2>1. PICK i \in k + 1 .. Len(path) :
             /\ i \in 1 .. Len(path) /\ b = ids[i] /\ entry'[b].parent = Node(path, ids, i - 1)
             /\ entry'[b].name = path[i]
      BY <1>5, <1>7
    <2>2. PICK up : up = Node(path, ids, i - 1) /\ up = entry[a].parent
      BY <1>7, <2>1
    <2>3. CASE i # k + 1
      <3>1. i - 1 \in k + 1 .. Len(path)
        BY <1>0, <2>1, <2>3
      <3>2. up \in Entry /\ entry[up].status = "unused"
        BY <1>2, <2>2, <3>1
      <3>3. up = Root \/ Held(up)
        BY <1>7, <2>2, PathFacts
      <3> QED
        BY <3>2, <3>3 DEF Held, Distinct
    <2>4. CASE i = k + 1
      <3>1. up = Walk(path)[i - 1]
        <4>1. CASE k = 0
          BY <1>2, <2>2, <2>4, <4>1, WalkIs
        <4>2. CASE k # 0
          BY <1>2, <2>2, <2>4, <4>2
        <4> QED
          BY <4>1, <4>2
      <3>2. Walk(path)[i] = None
        BY <1>2, <2>1
      <3>3. Child(up, path[i]) = {}
        <4>1. PICK w : w = Walk(path)[i]
          OBVIOUS
        <4>2. Follows(path, i, up, w) /\ w = None
          BY <3>1, <3>2, <4>1 DEF Follows
        <4> QED
          BY <2>1, <4>2, WalkStep
      <3>4. ~Live(a)
        BY <1>7, <2>1, <2>2, <3>3 DEF Child
      <3>5. entry[a].status = "pending" /\ i \in Missing(path)
        BY <1>1, <1>7, <2>1, <3>4 DEF Live, Held
      <3> QED
        BY <1>7, <2>1, <2>2, <3>5 DEF NotPending
    <2> QED
      BY <2>3, <2>4
  <1>8. ASSUME NEW a \in Range(ids), NEW b \in Range(ids), entry'[a].parent = entry'[b].parent,
               entry'[a].name = entry'[b].name
        PROVE  a = b
    <2>1. PICK i \in k + 1 .. Len(path) :
             /\ i - 1 \in 0 .. Len(path) /\ a = ids[i] /\ entry'[a].parent = Node(path, ids, i - 1)
      BY <1>5
    <2>2. PICK j \in k + 1 .. Len(path) :
             /\ j - 1 \in 0 .. Len(path) /\ b = ids[j] /\ entry'[b].parent = Node(path, ids, j - 1)
      BY <1>5
    <2>3. PICK up : up = Node(path, ids, i - 1) /\ up = Node(path, ids, j - 1)
      BY <1>8, <2>1, <2>2
    <2>4. PathOf(up)' = SubSeq(path, 1, i - 1) /\ PathOf(up)' = SubSeq(path, 1, j - 1)
      BY <1>4, <2>1, <2>2, <2>3
    <2>5. Len(SubSeq(path, 1, i - 1)) = i - 1 /\ Len(SubSeq(path, 1, j - 1)) = j - 1
      BY <2>1, <2>2, PartOf
    <2>6. i = j
      BY <1>0, <2>4, <2>5
    <2> QED
      BY <2>1, <2>2, <2>6
  <1>9. ASSUME NEW a \in Entry, NEW b \in Entry, Held(a)', Held(b)',
               entry'[a].parent = entry'[b].parent, entry'[a].name = entry'[b].name
        PROVE  a = b
    <2>1. ASSUME NEW e \in Entry \ Range(ids), Held(e)'
          PROVE  Held(e) /\ entry'[e] = entry[e]
      BY <1>2, <2>1 DEF Held
    <2>2. CASE a \notin Range(ids) /\ b \notin Range(ids)
      BY <1>9, <2>1, <2>2 DEF Standing, Unique
    <2>3. CASE a \notin Range(ids) /\ b \in Range(ids)
      BY <1>7, <1>9, <2>1, <2>3
    <2>4. CASE a \in Range(ids) /\ b \notin Range(ids)
      BY <1>7, <1>9, <2>1, <2>4
    <2>5. CASE a \in Range(ids) /\ b \in Range(ids)
      BY <1>8, <1>9, <2>5
    <2> QED
      BY <2>2, <2>3, <2>4, <2>5
  <1> QED
    BY <1>6, <1>9 DEF Standing, Unique

-----------------------------------------------------------------------------
(* What a step of one process leaves to the others.                        *)

\* What the transactions of the others rely on stays as it is.
Untouched(p) ==
    \A q \in Process \ {p} :
       /\ \A e \in tx[q].shared \cup tx[q].made : entry'[e] = entry[e]
       /\ q \in Uploader /\ tx[q].at # "idle" /\ tx[q].op = "update" =>
             entry'[tx[q].root].status \in {"live", "deleted"}
       /\ q \in Mutator /\ tx[q].at # "idle" => \A e \in Entry : Live(e) =>
             Live(e)' /\ entry'[e].parent = entry[e].parent /\ entry'[e].path = entry[e].path

\* The locks of a transaction y of p, and what it has made.
Fits(p, y) ==
    /\ \A q \in Process \ {p} : /\ y.locked \cap (tx[q].locked \cup tx[q].shared) = {}
                                /\ tx[q].locked \cap y.shared = {}
                                /\ y.made \cap tx[q].made = {}
    /\ y.made \subseteq Entry
    /\ \A d \in y.shared : /\ d \in Directory /\ Live(d)'
                           /\ entry'[d].parent = Root \/ entry'[d].parent \in y.shared
    /\ \A e \in Entry : entry'[e].status = "pending" <=>
          e \in y.made \/ \E q \in Process \ {p} : e \in tx[q].made

LEMMA OthersKeep ==
    ASSUME TreeInv, NEW p \in Process, Untouched(p), NEW q \in Process, q # p, tx'[q] = tx[q]
    PROVE  /\ Closed(tx[q].shared)'
           /\ q \in Uploader => Uploading(q)'
           /\ q \in Mutator => Mutating(q)'
  <1>1. PICK x : x = tx[q] /\ tx'[q] = x
    OBVIOUS
  <1>2. /\ \A e \in x.shared \cup x.made : entry'[e] = entry[e]
        /\ q \in Uploader /\ x.at # "idle" /\ x.op = "update" =>
             entry'[x.root].status \in {"live", "deleted"}
        /\ q \in Mutator /\ x.at # "idle" => \A e \in Entry : Live(e) =>
             Live(e)' /\ entry'[e].parent = entry[e].parent /\ entry'[e].path = entry[e].path
    BY <1>1 DEF Untouched
  <1>3. Closed(x.shared)'
    <2>1. Closed(x.shared)
      BY <1>1 DEF TreeInv, Locks
    <2> QED
      BY <1>2, <2>1 DEF Closed, Live
  <1>4. ASSUME q \in Uploader
        PROVE  Uploading(q)'
    <2>1. Uploading(q)
      BY <1>4 DEF TreeInv
    <2> QED
      BY <1>1, <1>2, <1>4, <2>1 DEF Uploading
  <1>5. ASSUME q \in Mutator
        PROVE  Mutating(q)'
    <2>1. Mutating(q)
      BY <1>5 DEF TreeInv
    <2>2. ASSUME x.at = "apply", x.op = "move"
          PROVE  Aimed(q)'
      <3>1. Aimed(q) /\ Live(x.root) /\ x.root \in Entry
        BY <1>1, <2>1, <2>2 DEF Mutating
      <3>2. PICK root, up, base : root = x.root /\ up = x.parent /\ base = Front(x.target)
        OBVIOUS
      <3>3. /\ ~IsPrefix(entry[root].path, base) /\ x.base[1] = base
            /\ up = Root \/ (up \in Directory /\ (Live(up) \/ up \in x.made))
            /\ PathOf(up) = base
            /\ \A d \in x.made :
                 /\ d \in Directory /\ IsPrefix(entry[d].path, base)
                 /\ \/ entry[d].parent \in x.made \cup {Root}
                    \/ entry[d].parent \in Directory /\ Live(entry[d].parent)
        BY <1>1, <3>1, <3>2 DEF Aimed
      <3>4. /\ entry'[root].path = entry[root].path
            /\ Live(up) /\ up \in Directory => Live(up)' /\ entry'[up].path = entry[up].path
            /\ up \in x.made => entry'[up] = entry[up]
        BY <1>2, <1>5, <2>2, <3>1, <3>2 DEF Entry
      <3>5. PathOf(up)' = PathOf(up)
        BY <3>3, <3>4 DEF PathOf
      <3>6. ASSUME NEW d \in x.made
            PROVE  /\ d \in Directory /\ IsPrefix(entry'[d].path, base)
                   /\ \/ entry'[d].parent \in x.made \cup {Root}
                      \/ /\ entry'[d].parent \in Directory
                         /\ entry'[entry'[d].parent].status = "live"
        <4>1. entry'[d] = entry[d]
          BY <1>2
        <4>2. PICK v : v = entry[d].parent
          OBVIOUS
        <4>3. v \in Directory /\ Live(v) => Live(v)'
          BY <1>2, <1>5, <2>2 DEF Entry
        <4>4. /\ d \in Directory /\ IsPrefix(entry[d].path, base)
              /\ v \in x.made \cup {Root} \/ (v \in Directory /\ Live(v))
          BY <3>3, <4>2
        <4> QED
          BY <4>1, <4>2, <4>3, <4>4 DEF Live
      <3>7. /\ ~IsPrefix(entry'[root].path, base)
            /\ up = Root \/ (up \in Directory /\ (Live(up)' \/ up \in x.made))
            /\ PathOf(up)' = base
        BY <3>3, <3>4, <3>5
      <3>8. /\ tx'[q].root = root /\ tx'[q].parent = up /\ Front(tx'[q].target) = base
            /\ tx'[q].base[1] = base /\ tx'[q].made = x.made
        BY <1>1, <3>2, <3>3
      <3> QED
        BY <3>6, <3>7, <3>8 DEF Aimed, Live
    <2> QED
      BY <1>1, <1>2, <1>5, <2>1, <2>2 DEF Mutating, Guarded
  <1> QED
    BY <1>1, <1>3, <1>4, <1>5

\* A step of p from which the invariant follows.
LEMMA StepKeeps ==
    ASSUME Distinct, TreeInv, NEW p \in Process, NEW y, tx' = [tx EXCEPT ![p] = y], TxOK(y),
           Rows', Standing', Untouched(p), Fits(p, y),
           p \in Uploader => Uploading(p)', p \in Mutator => Mutating(p)'
    PROVE  TreeInv'
  <1>1. /\ tx' = [q \in Process |-> tx'[q]] /\ tx'[p] = y
        /\ \A q \in Process : q # p => tx'[q] = tx[q]
    BY DEF TreeInv, Transactions
  <1>2. Transactions'
    BY <1>1 DEF TreeInv, Transactions, TxOK
  <1>3. ASSUME NEW q \in Process, q # p
        PROVE  /\ Closed(tx[q].shared)' /\ (q \in Uploader => Uploading(q)')
               /\ (q \in Mutator => Mutating(q)')
    BY <1>1, <1>3, OthersKeep
  <1>4. Closed(tx[p].shared)' /\ \A q \in Process : tx'[q].made \subseteq Entry
    BY <1>1 DEF Fits, Closed, TreeInv, Locks
  <1>5. ASSUME NEW q \in Process, NEW r \in Process, q # r
        PROVE  /\ tx'[q].locked \cap (tx'[r].locked \cup tx'[r].shared) = {}
               /\ tx'[q].made \cap tx'[r].made = {}
    <2>1. CASE q # p /\ r # p
      BY <1>1, <1>5, <2>1 DEF TreeInv, Locks
    <2>2. CASE q = p
      BY <1>1, <1>5, <2>2 DEF Fits
    <2>3. CASE r = p
      BY <1>1, <1>5, <2>3 DEF Fits
    <2> QED
      BY <2>1, <2>2, <2>3
  <1>6. ASSUME NEW e \in Entry
        PROVE  entry'[e].status = "pending" <=> \E q \in Process : e \in tx'[q].made
    <2>1. entry'[e].status = "pending" <=>
             e \in y.made \/ \E q \in Process \ {p} : e \in tx[q].made
      BY DEF Fits
    <2> QED
      BY <1>1, <2>1
  <1>7. Locks'
    BY <1>1, <1>3, <1>4, <1>5, <1>6 DEF Locks
  <1>8. /\ \A u \in Uploader : Uploading(u)'
        /\ \A m \in Mutator : Mutating(m)'
    BY <1>3 DEF Process
  <1> QED
    BY <1>2, <1>7, <1>8 DEF TreeInv

\* What a process has locked, shared and made fits, where the rows do not change.
LEMMA SameRows ==
    ASSUME TreeInv, NEW p \in Process, entry' = entry
    PROVE  /\ Rows' /\ Standing' /\ Untouched(p) /\ Fits(p, tx[p])
           /\ Closed(tx[p].shared)
  <1>1. Rows' /\ Standing'
    BY DEF TreeInv, Rows, Standing, Unique, Seated, Held, Live, PathOf
  <1>2. Untouched(p)
    <2>1. ASSUME NEW q \in Uploader, tx[q].at # "idle", tx[q].op = "update"
          PROVE  entry[tx[q].root].status \in {"live", "deleted"}
      <3>1. Uploading(q)
        BY DEF TreeInv
      <3> QED
        BY <2>1, <3>1 DEF Uploading
    <2> QED
      BY <2>1 DEF Untouched, Live
  <1>3. Closed(tx[p].shared)
    BY DEF TreeInv, Locks
  <1>4. Fits(p, tx[p])
    <2>1. \A q \in Process \ {p} : /\ tx[p].locked \cap (tx[q].locked \cup tx[q].shared) = {}
                                   /\ tx[q].locked \cap tx[p].shared = {}
                                   /\ tx[p].made \cap tx[q].made = {}
      BY DEF TreeInv, Locks
    <2>2. \A d \in tx[p].shared : /\ d \in Directory /\ Live(d)'
                                  /\ entry'[d].parent = Root \/ entry'[d].parent \in tx[p].shared
      BY <1>3 DEF Closed, Live
    <2>3. \A e \in Entry : entry'[e].status = "pending" <=> \E q \in Process : e \in tx[q].made
      BY DEF TreeInv, Locks
    <2>4. tx[p].made \subseteq Entry
      BY DEF TreeInv, Locks
    <2> QED
      BY <2>1, <2>2, <2>3, <2>4 DEF Fits
  <1> QED
    BY <1>1, <1>2, <1>3, <1>4

LEMMA TxGoesTo ==
    ASSUME NEW x, TxOK(x), NEW v, NEW y, y = [x EXCEPT !.at = v]
    PROVE  /\ TxOK(y) /\ y.at = v
           /\ y.op = x.op /\ y.path = x.path /\ y.target = x.target /\ y.root = x.root
           /\ y.parent = x.parent /\ y.base = x.base
           /\ y.shared = x.shared /\ y.locked = x.locked /\ y.made = x.made
  BY DEF TxOK, TxField

LEMMA NoTxIs ==
    /\ TxOK(NoTx) /\ NoTx.at = "idle" /\ NoTx.op = None /\ NoTx.root = None
    /\ NoTx.shared = {} /\ NoTx.locked = {} /\ NoTx.made = {}
  BY DEF NoTx, TxOK, TxField

LEMMA TxIs ==
    ASSUME TreeInv, NEW p \in Process
    PROVE  /\ TxOK(tx[p])
           /\ \A y : [tx EXCEPT ![p] = y] = [q \in Process |-> IF q = p THEN y ELSE tx[q]]
  BY DEF TreeInv, Transactions

\* A transaction that ends leaves no lock and nothing that is not committed.
LEMMA EndsKeep ==
    ASSUME Distinct, TreeInv, NEW p \in Process, Ends(p), Rows', Standing', Untouched(p),
           \A e \in Entry : entry'[e].status = "pending" <=>
              \E q \in Process \ {p} : e \in tx[q].made
    PROVE  TreeInv'
  <1>1. PICK y : y = NoTx
    OBVIOUS
  <1>2. tx' = [tx EXCEPT ![p] = y]
    BY <1>1 DEF Ends
  <1>3. /\ TxOK(y) /\ y.at = "idle" /\ y.shared = {} /\ y.locked = {} /\ y.made = {}
    BY <1>1, NoTxIs
  <1>4. tx'[p] = y
    BY <1>2 DEF TreeInv, Transactions
  <1>5. Fits(p, y)
    BY <1>3 DEF Fits
  <1>6. Uploading(p)' /\ Mutating(p)'
    BY <1>3, <1>4 DEF Uploading, Mutating, Guarded
  <1> QED
    BY <1>2, <1>3, <1>5, <1>6, StepKeeps

\* An upload that goes on to its next step, with the rows as they are.
LEMMA NextStepKeeps ==
    ASSUME Distinct, TreeInv, NEW u \in Uploader, entry' = entry, NEW v,
           tx' = [tx EXCEPT ![u].at = v],
           tx[u].at \in {"check"},
           v = IF tx[u].op = "update" THEN "storing" ELSE "insert"
    PROVE  TreeInv'
  <1>0. u \in Process /\ TxOK(tx[u]) /\ Uploading(u) /\ u \notin Mutator
    BY TxIs DEF Process, TreeInv, Distinct
  <1>1. PICK y : y = [tx[u] EXCEPT !.at = v]
    OBVIOUS
  <1>2. tx' = [tx EXCEPT ![u] = y] /\ tx'[u] = y
    BY <1>0, <1>1 DEF TreeInv, Transactions
  <1>3. /\ TxOK(y) /\ y.at = v /\ y.op = tx[u].op /\ y.path = tx[u].path /\ y.root = tx[u].root
        /\ y.shared = tx[u].shared /\ y.locked = tx[u].locked /\ y.made = tx[u].made
    BY <1>0, <1>1, TxGoesTo
  <1>4. Rows' /\ Standing' /\ Untouched(u) /\ Fits(u, y)
    <2>1. Fits(u, tx[u])
      BY <1>0, SameRows
    <2>2. Fits(u, y)
      BY <1>3, <2>1 DEF Fits
    <2> QED
      BY <1>0, <2>2, SameRows
  <1>5. Uploading(u)'
    BY <1>0, <1>2, <1>3 DEF Uploading
  <1> QED
    BY <1>0, <1>2, <1>3, <1>4, <1>5, StepKeeps

LEMMA LockChecksumKeeps ==
    ASSUME Distinct, TreeInv, NEW u \in Uploader, LockChecksum(u)
    PROVE  TreeInv'
  BY NextStepKeeps DEF LockChecksum

\* What an upload or an update begins with.
LEMMA BeginUploadKeeps ==
    ASSUME Distinct, TreeInv, NEW u \in Uploader, NEW path \in Path, NEW c, NEW strict,
           BeginUpload(u, path, c, strict)
    PROVE  TreeInv'
  <1>0. u \in Process /\ u \notin Mutator
    BY DEF Process, Distinct
  <1>v. PICK v : v = IF Len(path) = 1 THEN "check" ELSE "parents"
    OBVIOUS
  <1>y. PICK y : y = [NoTx EXCEPT !.at = v, !.op = "upload", !.path = path, !.checksum = c,
                                  !.strict = strict]
    OBVIOUS
  <1>1. tx' = [tx EXCEPT ![u] = y] /\ entry' = entry /\ v \in {"check", "parents"}
    BY <1>v, <1>y, Zenon DEF BeginUpload
  <1>2. /\ TxOK(y) /\ y.at = v /\ y.op = "upload" /\ y.path = path
        /\ y.shared = {} /\ y.locked = {} /\ y.made = {}
    BY <1>y DEF NoTx, TxOK, TxField
  <1>3. tx'[u] = y
    BY <1>0, <1>1 DEF TreeInv, Transactions
  <1>4. tx[u].made = {}
    BY <1>0 DEF TreeInv, Uploading, BeginUpload
  <1>5. Rows' /\ Standing' /\ Untouched(u) /\ Fits(u, tx[u])
    BY <1>0, <1>1, SameRows
  <1>6. Fits(u, y)
    BY <1>2, <1>4, <1>5 DEF Fits
  <1>7. Uploading(u)'
    BY <1>1, <1>2, <1>3 DEF Uploading
  <1> QED
    BY <1>0, <1>1, <1>2, <1>5, <1>6, <1>7, StepKeeps

LEMMA BeginUpdateKeeps ==
    ASSUME Distinct, TreeInv, NEW u \in Uploader, NEW f \in File, NEW c, NEW strict,
           BeginUpdate(u, f, c, strict)
    PROVE  TreeInv'
  <1>0. u \in Process /\ u \notin Mutator
    BY DEF Process, Distinct
  <1>1. PICK y : /\ y = [NoTx EXCEPT !.at = "check", !.op = "update", !.root = f, !.locked = {f},
                                     !.checksum = c, !.strict = strict]
                 /\ tx' = [tx EXCEPT ![u] = y] /\ entry' = entry
    BY DEF BeginUpdate
  <1>2. /\ TxOK(y) /\ y.at = "check" /\ y.op = "update" /\ y.root = f
        /\ y.shared = {} /\ y.locked = {f} /\ y.made = {}
    BY <1>1 DEF NoTx, TxOK, TxField
  <1>3. tx'[u] = y
    BY <1>0, <1>1 DEF TreeInv, Transactions
  <1>4. tx[u].made = {} /\ Live(f) /\ Lockable(u, {f})
    BY <1>0 DEF TreeInv, Uploading, BeginUpdate
  <1>5. Rows' /\ Standing' /\ Untouched(u) /\ Fits(u, tx[u])
    BY <1>0, <1>1, SameRows
  <1>6. Fits(u, y)
    BY <1>2, <1>4, <1>5 DEF Fits, Lockable
  <1>7. Uploading(u)'
    BY <1>1, <1>2, <1>3, <1>4 DEF Uploading, Live
  <1> QED
    BY <1>0, <1>1, <1>2, <1>5, <1>6, <1>7, StepKeeps

-----------------------------------------------------------------------------
(* Steps that make directories.                                            *)

\* Only what was unused is changed.
LEMMA GrowKeeps ==
    ASSUME Distinct, TreeInv, NEW p \in Process, NEW path \in Seq(Name), NEW ids \in Fresh(path),
           NEW status \in {"live", "pending"}, CanGrow(p, path, ids), tx[p].made = {},
           entry' = Grown(path, ids, status)
    PROVE  /\ Rows' /\ Standing' /\ Untouched(p)
           /\ \A e \in Entry : entry[e].status # "unused" => entry'[e] = entry[e]
           /\ \E k \in 0 .. Len(path) : Grows(entry', path, ids, status, k)
           /\ \A e \in Range(ids) : e \in Entry /\ e \in Directory /\ entry'[e].status = status
                                    /\ entry[e].status = "unused"
           /\ \A e \in Entry \ Range(ids) : entry'[e] = entry[e]
  <1>1. Standing /\ Rows /\ Locks
    BY DEF TreeInv
  <1>2. PICK k \in 0 .. Len(path) : Grows(entry', path, ids, status, k)
    <2>1. PICK k \in 0 .. Len(path) : /\ Missing(path) = k + 1 .. Len(path)
                                      /\ Len(path) - Cardinality(Missing(path)) = k
                                      /\ Walk(path)[k] # None
      BY <1>1, MissingIs
    <2>2. PICK g : g = Grown(path, ids, status)
      OBVIOUS
    <2>3. Grows(g, path, ids, status, k) /\ entry' = g
      BY <1>1, <2>1, <2>2, GrownIs
    <2> QED
      BY <2>3
  <1>3. ASSUME NEW e \in Range(ids)
        PROVE  /\ e \in Entry /\ e \in Directory /\ entry'[e].status = status
               /\ entry[e].status = "unused" /\ RowOK(entry'[e])
    <2>1. PICK i \in k + 1 .. Len(path) : e = ids[i]
      BY <1>2 DEF Grows
    <2>2. PICK up, n, q, s :
            entry'[e] = [status |-> status, parent |-> up, name |-> n, path |-> q, shown |-> s,
                         checksum |-> None]
      <3>1. entry'[ids[i]] =
              [status |-> status, parent |-> Node(path, ids, i - 1), name |-> path[i],
               path |-> SubSeq(path, 1, i), shown |-> entry'[ids[i]].shown, checksum |-> None]
        BY <1>2, Zenon DEF Grows
      <3> QED
        BY <2>1, <3>1
    <2>3. e \in Entry /\ e \in Directory /\ entry[e].status = "unused"
      BY <1>2, <2>1, Zenon DEF Grows
    <2> QED
      BY <2>2, <2>3 DEF RowOK, RowField
  <1>4. /\ \A e \in Entry \ Range(ids) : entry'[e] = entry[e]
        /\ entry' = [e \in Entry |-> entry'[e]]
    BY <1>2 DEF Grows
  <1>5. Rows'
    BY <1>1, <1>3, <1>4 DEF Rows, RowOK
  <1>6. \A e \in Entry : entry[e].status # "unused" => entry'[e] = entry[e]
    BY <1>3, <1>4
  <1>7. NotPending(path, ids)
    <2> SUFFICES ASSUME NEW i \in Missing(path), NEW e \in Entry, entry[e].status = "pending",
                        entry[e].parent = Node(path, ids, i - 1), entry[e].name = path[i]
                 PROVE  FALSE
      BY DEF NotPending
    <2>1. PICK q \in Process : e \in tx[q].made
      BY <1>1 DEF Locks
    <2> QED
      BY <2>1 DEF CanGrow, Clash
  <1>8. Standing'
    BY <1>1, <1>7, GrownStands DEF CanGrow
  <1>9. Untouched(p)
    <2> SUFFICES ASSUME NEW q \in Process \ {p}
                 PROVE  /\ \A e \in tx[q].shared \cup tx[q].made : entry'[e] = entry[e]
                        /\ q \in Uploader /\ tx[q].at # "idle" /\ tx[q].op = "update" =>
                              entry'[tx[q].root].status \in {"live", "deleted"}
                        /\ q \in Mutator => \A e \in Entry : Live(e) =>
                              Live(e)' /\ entry'[e].parent = entry[e].parent
                              /\ entry'[e].path = entry[e].path
      BY DEF Untouched
    <2>1. ASSUME NEW e \in tx[q].shared
          PROVE  entry'[e] = entry[e]
      BY <1>1, <1>6, <2>1 DEF Locks, Closed, Live, Entry
    <2>2. ASSUME NEW e \in tx[q].made
          PROVE  entry'[e] = entry[e]
      <3>1. e \in Entry /\ entry[e].status = "pending"
        BY <1>1, <2>2 DEF Locks
      <3> QED
        BY <1>6, <3>1
    <2>3. ASSUME q \in Uploader, tx[q].at # "idle", tx[q].op = "update"
          PROVE  entry'[tx[q].root].status \in {"live", "deleted"}
      <3>1. tx[q].root \in File /\ entry[tx[q].root].status \in {"live", "deleted"}
        BY <2>3 DEF TreeInv, Uploading
      <3> QED
        BY <1>6, <3>1 DEF Entry
    <2> QED
      BY <1>6, <2>1, <2>2, <2>3 DEF Live
  <1> QED
    BY <1>2, <1>3, <1>4, <1>5, <1>6, <1>8, <1>9

\* Directories that are committed at once need no lock afterwards.
LEMMA GrowFits ==
    ASSUME Distinct, TreeInv, NEW p \in Process, NEW path \in Seq(Name), NEW ids \in Fresh(path),
           CanGrow(p, path, ids), tx[p].made = {}, entry' = Grown(path, ids, "live"),
           NEW y, y.shared = tx[p].shared, y.locked = tx[p].locked, y.made = tx[p].made
    PROVE  Fits(p, y) /\ Rows' /\ Standing' /\ Untouched(p)
  <1>1. /\ Rows' /\ Standing' /\ Untouched(p)
        /\ \A e \in Entry : entry[e].status # "unused" => entry'[e] = entry[e]
        /\ \A e \in Range(ids) : e \in Entry /\ entry'[e].status = "live"
                                 /\ entry[e].status = "unused"
        /\ \A e \in Entry \ Range(ids) : entry'[e] = entry[e]
    BY GrowKeeps
  <1>2. Locks
    BY DEF TreeInv
  <1>3. ASSUME NEW d \in tx[p].shared
        PROVE  /\ d \in Directory /\ Live(d)'
               /\ entry'[d].parent = Root \/ entry'[d].parent \in tx[p].shared
    BY <1>1, <1>2 DEF Locks, Closed, Live, Entry
  <1>4. ASSUME NEW e \in Entry
        PROVE  entry'[e].status = "pending" <=> \E q \in Process \ {p} : e \in tx[q].made
    <2>1. entry'[e].status = "pending" <=> entry[e].status = "pending"
      BY <1>1
    <2> QED
      BY <1>2, <2>1 DEF Locks
  <1>5. \A q \in Process \ {p} : /\ y.locked \cap (tx[q].locked \cup tx[q].shared) = {}
                                 /\ tx[q].locked \cap y.shared = {}
    BY <1>2 DEF Locks
  <1> QED
    BY <1>1, <1>3, <1>4, <1>5 DEF Fits

LEMMA CreateDirectoryKeeps ==
    ASSUME Distinct, TreeInv, NEW u \in Uploader, NEW path \in Path, NEW ids \in Fresh(path),
           CreateDirectory(u, path, ids)
    PROVE  TreeInv'
  <1>0. u \in Process /\ u \notin Mutator /\ path \in Seq(Name) /\ Uploading(u) /\ TxOK(tx[u])
    BY PathIs, TxIs DEF Process, Distinct, TreeInv
  <1>1. PICK y : y = tx[u]
    OBVIOUS
  <1>2. /\ CanGrow(u, path, ids) /\ entry' = Grown(path, ids, "live") /\ tx' = tx
        /\ tx[u].at = "idle"
    BY DEF CreateDirectory
  <1>3. tx' = [tx EXCEPT ![u] = y] /\ y.made = {}
    BY <1>0, <1>1, <1>2 DEF TreeInv, Transactions, Uploading
  <1>4. Fits(u, y) /\ Rows' /\ Standing' /\ Untouched(u)
    BY <1>0, <1>1, <1>2, <1>3, GrowFits
  <1>5. Uploading(u)'
    BY <1>0, <1>1, <1>2, <1>3 DEF Uploading
  <1> QED
    BY <1>0, <1>1, <1>3, <1>4, <1>5, StepKeeps

LEMMA MakeParentsKeeps ==
    ASSUME Distinct, TreeInv, NEW u \in Uploader, NEW ids \in Fresh(Front(tx[u].path)),
           MakeParents(u, ids)
    PROVE  TreeInv'
  <1>0. /\ u \in Process /\ u \notin Mutator /\ Uploading(u) /\ TxOK(tx[u])
        /\ tx[u].at = "parents"
    BY TxIs DEF Process, Distinct, TreeInv, MakeParents
  <1>1. /\ tx[u].path \in Path /\ tx[u].op # "update" /\ tx[u].made = {}
        /\ Front(tx[u].path) \in Seq(Name)
    BY <1>0, PathIs DEF Uploading
  <1>2. PICK y, path : y = [tx[u] EXCEPT !.at = "check"] /\ path = Front(tx[u].path)
    OBVIOUS
  <1>3. /\ TxOK(y) /\ y.at = "check" /\ y.op = tx[u].op /\ y.path = tx[u].path
        /\ y.root = tx[u].root
        /\ y.shared = tx[u].shared /\ y.locked = tx[u].locked /\ y.made = tx[u].made
    BY <1>0, <1>2, TxGoesTo
  <1>4. /\ CanGrow(u, path, ids) /\ entry' = Grown(path, ids, "live")
        /\ tx' = [tx EXCEPT ![u] = y] /\ tx'[u] = y
    BY <1>0, <1>2 DEF MakeParents, TreeInv, Transactions
  <1>5. Fits(u, y) /\ Rows' /\ Standing' /\ Untouched(u)
    BY <1>0, <1>1, <1>2, <1>3, <1>4, GrowFits
  <1>6. Uploading(u)'
    BY <1>0, <1>1, <1>3, <1>4 DEF Uploading
  <1> QED
    BY <1>0, <1>3, <1>4, <1>5, <1>6, StepKeeps

-----------------------------------------------------------------------------
(* The file of an upload.                                                  *)

\* The directories on a path are share-locked from the root on.
LEMMA AncestorsClosed ==
    ASSUME Distinct, Standing, NEW path \in Seq(Name), Len(path) > 0,
           \A i \in 1 .. Len(path) - 1 : Walk(path)[i] \notin File
    PROVE  Closed(Ancestors(path))
  <1> SUFFICES ASSUME NEW d \in Ancestors(path)
               PROVE  /\ d \in Directory /\ Live(d)
                      /\ entry[d].parent = Root \/ entry[d].parent \in Ancestors(path)
    BY DEF Closed
  <1>0. Len(path) \in Nat \ {0} /\ Walk(path)[0] = Root
    BY WalkIs
  <1>1. PICK i \in 1 .. Len(path) - 1 : d = Walk(path)[i] /\ d # None
    BY DEF Ancestors
  <1>2. PICK v : v = Walk(path)[i - 1]
    OBVIOUS
  <1>3. i \in 1 .. Len(path)
    BY <1>0
  <1>4. d \in Entry /\ Live(d) /\ v # None /\ entry[d].parent = v
    <2>1. Follows(path, i, v, d)
      BY <1>1, <1>2 DEF Follows
    <2> QED
      BY <1>1, <1>3, <2>1, WalkStep
  <1>5. d \in Directory
    BY <1>1, <1>4 DEF Entry
  <1>6. v = Root \/ v \in Ancestors(path)
    <2>1. CASE i = 1
      BY <1>0, <1>2, <2>1
    <2>2. CASE i # 1
      <3>1. i - 1 \in 1 .. Len(path) - 1
        BY <1>0, <2>2
      <3> QED
        BY <1>2, <1>4, <3>1 DEF Ancestors
    <2> QED
      BY <2>1, <2>2
  <1> QED
    BY <1>4, <1>5, <1>6

\* Nothing on a path to a directory is a file.
LEMMA NoFileAbove ==
    ASSUME Distinct, Standing, NEW path \in Seq(Name), NEW k \in 0 .. Len(path),
           Walk(path)[k] \in Directory \cup {Root}
    PROVE  \A i \in 1 .. k : Walk(path)[i] \notin File
  <1>0. Len(path) \in Nat /\ Walk(path)[k] # None
    BY DEF Distinct, Entry
  <1> SUFFICES ASSUME NEW i \in 1 .. k
               PROVE  Walk(path)[i] \notin File
    OBVIOUS
  <1>1. CASE i = k
    BY <1>1 DEF Distinct, Entry
  <1>2. CASE i # k
    <2>1. PICK j \in 1 .. Len(path) : j = i + 1 /\ j \in 0 .. k
      BY <1>0, <1>2
    <2>2. PICK v, w : v = Walk(path)[j - 1] /\ w = Walk(path)[j]
      OBVIOUS
    <2>3. w # None
      BY <1>0, <2>1, <2>2, WalkPath
    <2>4. w \in Entry /\ Live(w) /\ entry[w].parent = v
      <3>1. Follows(path, j, v, w)
        BY <2>2 DEF Follows
      <3> QED
        BY <2>3, <3>1, WalkStep
    <2>5. v = Root \/ v \in Directory
      BY <2>4, PathFacts DEF Live, Held
    <2>6. v = Walk(path)[i]
      BY <2>1, <2>2
    <2> QED
      BY <2>5, <2>6 DEF Distinct, Entry
  <1> QED
    BY <1>1, <1>2

LEMMA InsertFileKeeps ==
    ASSUME Distinct, TreeInv, NEW u \in Uploader, NEW f \in File, InsertFile(u, f)
    PROVE  TreeInv'
  <1>0. /\ u \in Process /\ u \notin Mutator /\ Uploading(u) /\ TxOK(tx[u])
        /\ tx[u].at = "insert" /\ Standing /\ Locks /\ Rows /\ f \in Entry
    BY TxIs DEF Process, Distinct, TreeInv, InsertFile, Entry
  <1>1. PICK path : path = tx[u].path
    OBVIOUS
  <1>2. /\ path \in Seq(Name) /\ Len(path) \in Nat \ {0} /\ Last(path) \in Name
        /\ tx[u].op # "update" /\ tx[u].made = {}
    BY <1>0, <1>1, PathIs DEF Uploading
  <1>3. PICK parent, n : parent = Walk(path)[Len(path) - 1] /\ n = Last(path)
    OBVIOUS
  <1>4. PICK r : r = [status |-> "pending", parent |-> parent, name |-> n,
                      path |-> PathOf(parent) \o <<n>>, shown |-> ShownOf(parent) \o <<n>>,
                      checksum |-> None]
    OBVIOUS
  <1>5. PICK y : y = [tx[u] EXCEPT !.at = "storing", !.root = f, !.made = {f},
                                   !.shared = Ancestors(path)]
    OBVIOUS
  <1>6. /\ entry[f].status = "unused" /\ Shareable(u, Ancestors(path))
        /\ parent \in Directory \cup {Root}
        /\ Child(parent, n) = {} /\ ~Clash(u, parent, n)
        /\ entry' = [entry EXCEPT ![f] = r]
        /\ tx' = [tx EXCEPT ![u].at = "storing", ![u].root = f, ![u].made = {f},
                            ![u].shared = LockedBy(path)]
    BY <1>1, <1>3, <1>4, Zenon DEF InsertFile
  <1>7. tx' = [tx EXCEPT ![u] = y] /\ tx'[u] = y
    BY <1>0, <1>5, <1>6 DEF TreeInv, Transactions, LockedBy
  <1>8. /\ TxOK(y) /\ y.at = "storing" /\ y.root = f /\ y.made = {f} /\ y.op = tx[u].op
        /\ y.shared = Ancestors(path) /\ y.locked = tx[u].locked
    BY <1>0, <1>5 DEF TxOK, TxField
  <1>9. entry'[f] = r /\ \A e \in Entry : e # f => entry'[e] = entry[e]
    BY <1>0, <1>6 DEF Rows
  <1>10. /\ parent # None /\ f \notin Directory /\ f # Root
         /\ parent = Root \/ (parent \in Entry /\ Live(parent) /\ parent \in Directory)
         /\ PathOf(parent) \in Seq(Name)
    <2>1. Len(path) - 1 \in 0 .. Len(path) /\ parent # None /\ f \notin Directory /\ f # Root
      BY <1>0, <1>2, <1>6 DEF Distinct, Entry
    <2>2. PICK i \in 0 .. Len(path) : i = Len(path) - 1 /\ Walk(path)[i] = parent
      BY <1>3, <2>1
    <2>3. /\ PathOf(parent) = SubSeq(path, 1, i)
          /\ IF i = 0 THEN parent = Root ELSE parent \in Entry /\ Live(parent)
      BY <1>0, <1>2, <2>1, <2>2, WalkPath
    <2>4. SubSeq(path, 1, i) \in Seq(Name)
      BY <1>2, PartOf
    <2>5. parent # Root => parent \in Directory
      BY <1>6
    <2> QED
      BY <2>1, <2>3, <2>4, <2>5, <1>6 DEF Distinct
  <1>11. /\ r.status = "pending" /\ r.parent = parent /\ r.name = n /\ n \in Name
         /\ r.path = Append(PathOf(parent), n) /\ RowOK(r)
    <2>1. PathOf(parent) \o <<n>> = Append(PathOf(parent), n) /\ n \in Name
      BY <1>2, <1>3, <1>10, AppendIs
    <2> QED
      BY <1>4, <1>10, <2>1 DEF RowOK, RowField
  <1>12. Rows'
    BY <1>0, <1>6, <1>9, <1>11 DEF Rows, RowOK
  <1>13. ASSUME NEW e \in Entry, Held(e)'
         PROVE  Seated(e)' /\ (e # f => Held(e) /\ entry'[e] = entry[e])
    <2>1. CASE e = f
      <3>1. parent # Root => entry'[parent] = entry[parent]
        BY <1>9, <1>10
      <3>2. PathOf(parent)' = PathOf(parent) /\ ~Live(f)'
        BY <1>9, <1>11, <3>1 DEF PathOf, Live
      <3> QED
        BY <1>9, <1>10, <1>11, <2>1, <3>1, <3>2 DEF Seated, Live, Held
    <2>2. CASE e # f
      <3>1. Held(e) /\ entry'[e] = entry[e]
        BY <1>9, <1>13, <2>2 DEF Held
      <3>2. PICK up : up = entry[e].parent
        OBVIOUS
      <3>3. /\ up = Root \/ (up \in Directory /\ up \in Entry /\ Held(up) /\ (Live(e) => Live(up)))
            /\ entry[e].name \in Name /\ PathOf(up) \in Seq(Name)
            /\ entry[e].path = Append(PathOf(up), entry[e].name)
        BY <1>0, <3>1, <3>2, PathFacts
      <3>4. PathOf(up)' = PathOf(up) /\ (up # Root => entry'[up] = entry[up])
        BY <1>9, <1>10, <3>3 DEF PathOf
      <3> QED
        BY <2>2, <3>1, <3>2, <3>3, <3>4 DEF Seated, Held, Live
    <2> QED
      BY <2>1, <2>2
  <1>14. ASSUME NEW e \in Entry, Held(e), entry[e].parent = parent, entry[e].name = n
         PROVE  FALSE
    <2>1. ~Live(e)
      BY <1>6, <1>14 DEF Child
    <2>2. PICK q \in Process : e \in tx[q].made
      BY <1>0, <1>14, <2>1 DEF Held, Live, Locks
    <2> QED
      BY <1>2, <1>6, <1>14, <2>2 DEF Clash
  <1>15. Standing'
    <2>1. ASSUME NEW a \in Entry, NEW b \in Entry, Held(a)', Held(b)',
                 entry'[a].parent = entry'[b].parent, entry'[a].name = entry'[b].name
          PROVE  a = b
      <3>1. CASE a # f /\ b # f
        BY <1>0, <1>13, <2>1, <3>1 DEF Standing, Unique
      <3>2. CASE a = f /\ b # f
        BY <1>9, <1>11, <1>13, <1>14, <2>1, <3>2
      <3>3. CASE a # f /\ b = f
        BY <1>9, <1>11, <1>13, <1>14, <2>1, <3>3
      <3> QED
        BY <3>1, <3>2, <3>3
    <2> QED
      BY <1>13, <2>1 DEF Standing, Unique
  <1>16. \A q \in Process : f \notin tx[q].made /\ f \notin tx[q].shared
    BY <1>0, <1>6, <1>10 DEF Locks, Closed
  <1>17. Untouched(u)
    <2> SUFFICES ASSUME NEW q \in Process \ {u}
                 PROVE  /\ \A e \in tx[q].shared \cup tx[q].made : entry'[e] = entry[e]
                        /\ q \in Uploader /\ tx[q].at # "idle" /\ tx[q].op = "update" =>
                              entry'[tx[q].root].status \in {"live", "deleted"}
                        /\ q \in Mutator => \A e \in Entry : Live(e) =>
                              Live(e)' /\ entry'[e].parent = entry[e].parent
                              /\ entry'[e].path = entry[e].path
      BY DEF Untouched
    <2>1. \A e \in tx[q].shared \cup tx[q].made : e \in Entry /\ e # f
      BY <1>0, <1>16 DEF Locks, Closed, Entry
    <2>2. ASSUME q \in Uploader, tx[q].at # "idle", tx[q].op = "update"
          PROVE  entry'[tx[q].root].status \in {"live", "deleted"}
      <3>1. tx[q].root \in File /\ entry[tx[q].root].status \in {"live", "deleted"}
        BY <2>2 DEF TreeInv, Uploading
      <3> QED
        BY <1>6, <1>9, <3>1 DEF Entry
    <2>3. \A e \in Entry : Live(e) => entry'[e] = entry[e]
      BY <1>6, <1>9 DEF Live
    <2> QED
      BY <1>9, <2>1, <2>2, <2>3 DEF Live
  <1>18. Closed(Ancestors(path)) /\ (parent = Root \/ parent \in Ancestors(path))
    <2>0. Len(path) - 1 \in 0 .. Len(path)
      BY <1>2
    <2>1. PICK i \in 0 .. Len(path) : i = Len(path) - 1
      BY <2>0
    <2>2. Walk(path)[i] \in Directory \cup {Root}
      BY <1>3, <1>6, <2>1
    <2>3. \A j \in 1 .. i : Walk(path)[j] \notin File
      BY <1>0, <1>2, <2>2, NoFileAbove
    <2>4. Closed(Ancestors(path))
      BY <1>0, <1>2, <2>1, <2>3, AncestorsClosed
    <2>5. i = 0 \/ Len(path) - 1 \in 1 .. Len(path) - 1
      BY <1>2, <2>1
    <2>6. parent = Root \/ parent \in Ancestors(path)
      BY <1>2, <1>3, <1>10, <2>1, <2>5, WalkIs DEF Ancestors
    <2> QED
      BY <2>4, <2>6
  <1>19. Fits(u, y)
    <2>1. ASSUME NEW d \in Ancestors(path)
          PROVE  /\ d \in Directory /\ Live(d)'
                 /\ entry'[d].parent = Root \/ entry'[d].parent \in Ancestors(path)
      BY <1>9, <1>10, <1>18 DEF Closed, Live, Entry
    <2>2. \A q \in Process \ {u} : /\ y.locked \cap (tx[q].locked \cup tx[q].shared) = {}
                                   /\ tx[q].locked \cap y.shared = {}
                                   /\ y.made \cap tx[q].made = {}
      BY <1>0, <1>6, <1>8, <1>16 DEF Locks, Shareable
    <2>3. ASSUME NEW e \in Entry
          PROVE  entry'[e].status = "pending" <=>
                   e \in {f} \/ \E q \in Process \ {u} : e \in tx[q].made
      BY <1>0, <1>2, <1>9, <1>11, <1>16 DEF Locks
    <2> QED
      BY <1>0, <1>8, <2>1, <2>2, <2>3 DEF Fits
  <1>20. Uploading(u)'
    BY <1>2, <1>7, <1>8, <1>9, <1>11, <1>18 DEF Uploading
  <1> QED
    BY <1>0, <1>7, <1>8, <1>12, <1>15, <1>17, <1>19, <1>20, StepKeeps

-----------------------------------------------------------------------------
(* Transactions that end.                                                  *)

\* The tree stands where entries go and the rest keeps its place.
LEMMA PlacesStand ==
    ASSUME Distinct, Standing,
           \A e \in Entry : Held(e)' =>
              /\ Held(e) /\ entry'[e].parent = entry[e].parent /\ entry'[e].name = entry[e].name
              /\ entry'[e].path = entry[e].path
              /\ entry[e].parent # Root =>
                    /\ entry'[entry[e].parent].status \in {"live", "pending"}
                    /\ entry'[e].status = "live" => entry'[entry[e].parent].status = "live"
    PROVE  Standing'
  <1>1. ASSUME NEW e \in Entry, Held(e)'
        PROVE  Seated(e)'
    <2>1. PICK up : up = entry[e].parent
      OBVIOUS
    <2>2. /\ Held(e) /\ entry'[e].parent = up /\ entry'[e].name = entry[e].name
          /\ entry'[e].path = entry[e].path
          /\ up # Root => Held(up)' /\ (Live(e)' => Live(up)')
      BY <1>1, <2>1 DEF Held, Live
    <2>3. /\ up = Root \/ (up \in Directory /\ up \in Entry)
          /\ entry[e].name \in Name /\ PathOf(up) \in Seq(Name)
          /\ entry[e].path = Append(PathOf(up), entry[e].name)
      BY <2>1, <2>2, PathFacts
    <2>4. PathOf(up)' = PathOf(up)
      BY <2>2, <2>3 DEF PathOf
    <2> QED
      BY <2>2, <2>3, <2>4 DEF Seated
  <1>2. Unique'
    BY DEF Standing, Unique
  <1> QED
    BY <1>1, <1>2 DEF Standing

\* What a step of p has to leave as it is.
LEMMA LeavesOthers ==
    ASSUME TreeInv, NEW p \in Process,
           \A q \in Process \ {p} : \A e \in tx[q].shared \cup tx[q].made : entry'[e] = entry[e],
           \A f \in File : entry[f].status \in {"live", "deleted"} =>
                              entry'[f].status \in {"live", "deleted"},
           (\E m \in Mutator \ {p} : tx[m].at # "idle") => \A e \in Entry : Live(e) =>
              Live(e)' /\ entry'[e].parent = entry[e].parent /\ entry'[e].path = entry[e].path
    PROVE  Untouched(p)
  <1>1. ASSUME NEW q \in Uploader, tx[q].at # "idle", tx[q].op = "update"
        PROVE  entry'[tx[q].root].status \in {"live", "deleted"}
    BY <1>1 DEF TreeInv, Uploading
  <1> QED
    BY <1>1 DEF Untouched

LEMMA CommitFileKeeps ==
    ASSUME Distinct, TreeInv, NEW u \in Uploader, CommitFile(u)
    PROVE  TreeInv'
  <1>0. /\ u \in Process /\ u \notin Mutator /\ Uploading(u) /\ Standing /\ Locks /\ Rows
        /\ tx[u].at = "storing" /\ Ends(u)
    BY DEF Process, Distinct, TreeInv, CommitFile
  <1>1. PICK r : r = tx[u].root
    OBVIOUS
  <1>2. /\ r \in File /\ r \in Entry
        /\ \/ tx[u].made = {} /\ entry[r].status \in {"live", "deleted"}
           \/ tx[u].made = {r} /\ entry[r].status = "pending"
    BY <1>0, <1>1 DEF Uploading, Entry, Locks
  <1>3. PICK s : s = IF entry[r].status = "pending" THEN "live" ELSE entry[r].status
    OBVIOUS
  <1>4. PICK x, c : x = entry[r] /\ c = tx[u].checksum
    OBVIOUS
  <1>5. PICK z : z = [x EXCEPT !.checksum = c, !.status = s]
    OBVIOUS
  <1>6. RowOK(z) /\ z.status = s /\ z.parent = x.parent /\ z.name = x.name /\ z.path = x.path
    <2>1. RowOK(x)
      BY <1>0, <1>2, <1>4 DEF Rows
    <2> QED
      BY <1>5, <2>1 DEF RowOK, RowField
  <1>7. entry' = [entry EXCEPT ![r] = z]
    BY <1>0, <1>1, <1>2, <1>3, <1>4, <1>5 DEF CommitFile, Rows, RowOK, RowField
  <1>8. entry'[r] = z /\ \A e \in Entry : e # r => entry'[e] = entry[e]
    BY <1>0, <1>2, <1>7 DEF Rows
  <1>9. Rows'
    BY <1>0, <1>6, <1>7, <1>8 DEF Rows, RowOK
  <1>10. ASSUME NEW e \in Entry
         PROVE  /\ Held(e)' <=> Held(e)
                /\ Live(e) => Live(e)'
                /\ entry'[e].parent = entry[e].parent /\ entry'[e].name = entry[e].name
                /\ entry'[e].path = entry[e].path
                /\ entry[e].status \in {"live", "deleted"} => entry'[e].status = entry[e].status
    BY <1>2, <1>3, <1>4, <1>6, <1>8 DEF Held, Live
  <1>11. ASSUME NEW e \in Entry, Held(e)', NEW up, up = entry[e].parent, up # Root
         PROVE  up \in Entry /\ Held(up)' /\ (Live(e)' => Live(up)')
    <2>1. up \in Entry /\ Held(up) /\ (Live(e) => Live(up))
      BY <1>0, <1>10, <1>11, PathFacts
    <2>2. ASSUME e = r, entry[r].status = "pending"
          PROVE  Live(up)
      BY <1>0, <1>2, <1>11, <2>2 DEF Uploading, Locks, Closed
    <2>3. Live(e)' => Live(e) \/ (e = r /\ entry[r].status = "pending")
      BY <1>2, <1>8, <1>3, <1>6, <1>4 DEF Live
    <2> QED
      BY <1>10, <2>1, <2>2, <2>3
  <1>12. Standing'
    <2>1. ASSUME NEW e \in Entry, Held(e)', entry[e].parent # Root
          PROVE  /\ entry'[entry[e].parent].status \in {"live", "pending"}
                 /\ entry'[e].status = "live" => entry'[entry[e].parent].status = "live"
      BY <1>11, <2>1 DEF Held, Live
    <2> QED
      BY <1>0, <1>10, <2>1, PlacesStand
  <1>13. ASSUME NEW q \in Process \ {u}, NEW e \in tx[q].shared \cup tx[q].made
         PROVE  entry'[e] = entry[e]
    <2>1. e \in Entry /\ (e \in tx[q].shared => e \in Directory)
      BY <1>0, <1>13 DEF Locks, Closed, Entry
    <2>2. e # r
      BY <1>0, <1>2, <1>13, <2>1 DEF Locks, Distinct
    <2> QED
      BY <1>8, <2>1, <2>2
  <1>14. Untouched(u)
    <2>1. \A f \in File : entry[f].status \in {"live", "deleted"} =>
                             entry'[f].status \in {"live", "deleted"}
      BY <1>10 DEF Entry
    <2> QED
      BY <1>0, <1>10, <1>13, <2>1, LeavesOthers
  <1>15. ASSUME NEW e \in Entry
         PROVE  entry'[e].status = "pending" <=> \E q \in Process \ {u} : e \in tx[q].made
    <2>1. CASE e = r
      BY <1>0, <1>2, <1>3, <1>4, <1>6, <1>8, <2>1 DEF Locks
    <2>2. CASE e # r
      BY <1>0, <1>2, <1>8, <2>2 DEF Locks
    <2> QED
      BY <2>1, <2>2
  <1> QED
    BY <1>0, <1>9, <1>12, <1>14, <1>15, EndsKeep

LEMMA FailKeeps ==
    ASSUME Distinct, TreeInv, NEW p \in Process, Fail(p)
    PROVE  TreeInv'
  <1>0. /\ Standing /\ Locks /\ Rows /\ Ends(p)
        /\ entry' = [e \in Entry |-> IF e \in tx[p].made THEN Unused ELSE entry[e]]
    BY DEF TreeInv, Fail
  <1>1. PICK S : S = tx[p].made
    OBVIOUS
  <1>2. /\ \A e \in Entry : entry'[e] = IF e \in S THEN Unused ELSE entry[e]
        /\ \A e \in S : e \in Entry /\ entry[e].status = "pending"
        /\ Unused.status = "unused"
    BY <1>0, <1>1 DEF Locks, Unused
  <1>3. RowOK(Unused)
    BY DEF RowOK, RowField, Unused
  <1>4. Rows'
    BY <1>0, <1>2, <1>3 DEF Rows, RowOK
  <1>5. ASSUME NEW e \in Entry, Held(e)'
        PROVE  e \notin S /\ Held(e) /\ entry'[e] = entry[e]
    BY <1>2, <1>5 DEF Held
  <1>6. ASSUME NEW e \in Entry, Held(e)', NEW up, up = entry[e].parent, up # Root
        PROVE  Held(up)' /\ (Live(e)' => Live(up)')
    <2>1. up \in Entry /\ Held(up) /\ (Live(e) => Live(up))
      BY <1>0, <1>5, <1>6, PathFacts
    <2>2. CASE Live(e)
      BY <1>2, <2>1, <2>2 DEF Live, Held
    <2>3. CASE ~Live(e)
      <3>1. entry[e].status = "pending" /\ ~Live(e)'
        BY <1>5, <1>6, <2>3 DEF Held, Live
      <3>2. PICK q \in Process : e \in tx[q].made
        BY <1>0, <3>1 DEF Locks
      <3>3. q # p
        BY <1>1, <1>5, <1>6, <3>2
      <3>4. up \notin S
        <4>1. CASE q \in Uploader
          <5>1. up \in tx[q].shared
            BY <1>6, <3>2, <4>1 DEF TreeInv, Uploading
          <5>2. Live(up)
            BY <1>0, <5>1 DEF Locks, Closed
          <5> QED
            BY <1>2, <5>2 DEF Live
        <4>2. CASE q \in Mutator
          <5>1. Mutating(q)
            BY <4>2 DEF TreeInv
          <5>2. Aimed(q)
            BY <3>2, <5>1 DEF Mutating
          <5>3. up \in tx[q].made \/ Live(up)
            BY <1>6, <3>2, <5>2 DEF Aimed
          <5> QED
            BY <1>0, <1>1, <1>2, <3>3, <5>3 DEF Live, Locks
        <4> QED
          BY <4>1, <4>2 DEF Process
      <3> QED
        BY <1>2, <2>1, <3>1, <3>4 DEF Held
    <2> QED
      BY <2>2, <2>3
  <1>7. Standing'
    <2>1. ASSUME NEW e \in Entry, Held(e)', entry[e].parent # Root
          PROVE  /\ entry'[entry[e].parent].status \in {"live", "pending"}
                 /\ entry'[e].status = "live" => entry'[entry[e].parent].status = "live"
      BY <1>6, <2>1 DEF Held, Live
    <2> QED
      BY <1>0, <1>5, <2>1, PlacesStand
  <1>8. ASSUME NEW q \in Process \ {p}, NEW e \in tx[q].shared \cup tx[q].made
        PROVE  entry'[e] = entry[e]
    <2>1. e \in Entry /\ (e \in tx[q].shared => Live(e)) /\ (e \in tx[q].made => e \notin S)
      BY <1>0, <1>1, <1>8 DEF Locks, Closed, Entry
    <2> QED
      BY <1>2, <1>8, <2>1 DEF Live
  <1>9. Untouched(p)
    <2>1. \A f \in File : entry[f].status \in {"live", "deleted"} =>
                             entry'[f].status \in {"live", "deleted"}
      BY <1>2 DEF Entry
    <2>2. \A e \in Entry : Live(e) => entry'[e] = entry[e]
      BY <1>2 DEF Live
    <2> QED
      BY <1>8, <2>1, <2>2, LeavesOthers DEF Live
  <1>10. ASSUME NEW e \in Entry
         PROVE  entry'[e].status = "pending" <=> \E q \in Process \ {p} : e \in tx[q].made
    BY <1>0, <1>1, <1>2 DEF Locks
  <1> QED
    BY <1>0, <1>4, <1>7, <1>9, <1>10, EndsKeep

-----------------------------------------------------------------------------
(* The steps of a deletion, a renaming or a move before it is applied.     *)

LEMMA BeginKeeps ==
    ASSUME Distinct, TreeInv, NEW m \in Mutator, NEW path \in Path, NEW target,
           NEW op \in {"delete", "rename", "move"}, NEW at \in {"lock", "apply"},
           Begin(m, op, path, target, at),
           at = "apply" => op = "delete" /\ At(path) \in File,
           op = "rename" => target[1] \in Name,
           op = "move" => /\ target \in Path
                          /\ At(path) \in Directory => ~IsPrefix(path, Front(target))
    PROVE  TreeInv'
  <1>0. m \in Process /\ m \notin Uploader /\ Standing /\ tx[m].at = "idle" /\ tx[m].made = {}
    BY DEF Process, Distinct, TreeInv, Mutating, Begin
  <1>1. PICK root, up : root = At(path) /\ up = entry[root].parent
    OBVIOUS
  <1>2. root \in Entry /\ Live(root) /\ entry[root].path = path
    <2>1. path \in Seq(Name) /\ Len(path) \in Nat \ {0}
      BY PathIs
    <2>2. PICK k \in 0 .. Len(path) : k = Len(path) /\ root = Walk(path)[k] /\ Walk(path)[k] # None
      BY <1>1, <2>1 DEF Begin, At
    <2>3. PathOf(root) = SubSeq(path, 1, Len(path)) /\ root \in Entry /\ Live(root)
      BY <1>0, <2>1, <2>2, WalkPath
    <2>4. SubSeq(path, 1, Len(path)) = path
      BY <2>1
    <2> QED
      BY <2>3, <2>4 DEF PathOf, Distinct
  <1>3. PICK y : /\ y = [NoTx EXCEPT !.at = at, !.op = op, !.path = path, !.target = target,
                                     !.root = root, !.parent = up]
                 /\ tx' = [tx EXCEPT ![m] = y] /\ entry' = entry
    BY <1>1, Zenon DEF Begin
  <1>4. /\ TxOK(y) /\ y.at = at /\ y.op = op /\ y.target = target /\ y.root = root
        /\ y.parent = up /\ y.shared = {} /\ y.locked = {} /\ y.made = {}
    BY <1>3 DEF NoTx, TxOK, TxField
  <1>5. tx'[m] = y
    BY <1>0, <1>3 DEF TreeInv, Transactions
  <1>6. Rows' /\ Standing' /\ Untouched(m) /\ Fits(m, tx[m])
    BY <1>0, <1>3, SameRows
  <1>7. Fits(m, y)
    BY <1>0, <1>4, <1>6 DEF Fits
  <1>8. Mutating(m)'
    BY <1>1, <1>2, <1>3, <1>4, <1>5 DEF Mutating, Guarded, Live
  <1> QED
    BY <1>0, <1>3, <1>4, <1>6, <1>7, <1>8, StepKeeps

LEMMA BeginDeleteKeeps ==
    ASSUME Distinct, TreeInv, NEW m \in Mutator, NEW path \in Path, BeginDelete(m, path)
    PROVE  TreeInv'
  <1>1. PICK at : at = IF At(path) \in File THEN "apply" ELSE "lock"
    OBVIOUS
  <1>2. Begin(m, "delete", path, <<>>, at)
    BY <1>1 DEF BeginDelete
  <1> QED
    BY <1>1, <1>2, BeginKeeps

LEMMA BeginRenameKeeps ==
    ASSUME Distinct, TreeInv, NEW m \in Mutator, NEW path \in Path, NEW n \in Name,
           BeginRename(m, path, n)
    PROVE  TreeInv'
  <1>1. PICK target : target = <<n>>
    OBVIOUS
  <1>2. Begin(m, "rename", path, target, "lock") /\ target[1] \in Name
    BY <1>1 DEF BeginRename
  <1> QED
    BY <1>2, BeginKeeps

LEMMA BeginMoveKeeps ==
    ASSUME Distinct, TreeInv, NEW m \in Mutator, NEW path \in Path, NEW target \in Path,
           BeginMove(m, path, target)
    PROVE  TreeInv'
  BY BeginKeeps DEF BeginMove

LEMMA LockKeeps ==
    ASSUME Distinct, TreeInv, NEW m \in Mutator, Lock(m)
    PROVE  TreeInv'
  <1>0. /\ m \in Process /\ m \notin Uploader /\ Mutating(m) /\ TxOK(tx[m]) /\ tx[m].at = "lock"
        /\ Lockable(m, {tx[m].root})
    BY TxIs DEF Process, Distinct, TreeInv, Lock
  <1>1. PICK v, r : v = (IF tx[m].op = "move" THEN "aim" ELSE "apply") /\ r = tx[m].root
    OBVIOUS
  <1>2. PICK y : y = [tx[m] EXCEPT !.locked = {r}, !.at = v]
    OBVIOUS
  <1>3. tx' = [tx EXCEPT ![m] = y] /\ tx'[m] = y /\ entry' = entry
    BY <1>0, <1>1, <1>2 DEF Lock, TreeInv, Transactions
  <1>4. /\ TxOK(y) /\ y.at = v /\ y.op = tx[m].op /\ y.target = tx[m].target /\ y.root = r
        /\ y.parent = tx[m].parent /\ y.shared = tx[m].shared /\ y.locked = {r}
        /\ y.made = tx[m].made
    BY <1>0, <1>1, <1>2 DEF TxOK, TxField
  <1>5. Rows' /\ Standing' /\ Untouched(m) /\ Fits(m, tx[m])
    BY <1>0, <1>3, SameRows
  <1>6. Fits(m, y)
    BY <1>0, <1>1, <1>4, <1>5 DEF Fits, Lockable
  <1>7. Mutating(m)'
    BY <1>0, <1>1, <1>3, <1>4 DEF Mutating, Guarded, Live
  <1> QED
    BY <1>0, <1>3, <1>4, <1>5, <1>6, <1>7, StepKeeps

LEMMA AimKeeps ==
    ASSUME Distinct, TreeInv, NEW m \in Mutator, NEW ids \in Fresh(Front(tx[m].target)), Aim(m, ids)
    PROVE  TreeInv'
  <1>0. /\ m \in Process /\ m \notin Uploader /\ Mutating(m) /\ TxOK(tx[m]) /\ tx[m].at = "aim"
        /\ Standing /\ Locks
    BY TxIs DEF Process, Distinct, TreeInv, Aim
  <1>1. PICK path, root : path = Front(tx[m].target) /\ root = tx[m].root
    OBVIOUS
  <1>2. /\ path \in Seq(Name) /\ Len(path) \in Nat /\ ids \in Fresh(path) /\ tx[m].op = "move"
        /\ tx[m].made = {} /\ root \in Entry /\ Live(root) /\ root \in tx[m].locked
        /\ root \in Directory => ~IsPrefix(entry[root].path, path)
        /\ tx[m].target \in Path
    BY <1>0, <1>1, PathIs DEF Mutating, Guarded
  <1>3. PICK parent, grown : parent = Node(path, ids, Len(path)) /\ grown = Grown(path, ids, "pending")
    OBVIOUS
  <1>4. PICK base : base = IF parent = Root THEN <<<<>>, <<>>>>
                           ELSE <<grown[parent].path, grown[parent].shown>>
    OBVIOUS
  <1>5. PICK y : y = [tx[m] EXCEPT !.at = "apply", !.parent = parent, !.made = Range(ids),
                                   !.shared = Ancestors(path), !.base = base]
    OBVIOUS
  <1>6. /\ CanGrow(m, path, ids) /\ entry' = Grown(path, ids, "pending") /\ entry' = grown
        /\ tx' = [tx EXCEPT ![m].at = "apply", ![m].parent = parent, ![m].made = Range(ids),
                            ![m].shared = Ancestors(path), ![m].base = base]
    BY <1>1, <1>3, <1>4, Zenon DEF Aim
  <1>7. tx' = [tx EXCEPT ![m] = y] /\ tx'[m] = y
    <2>1. tx' = [tx EXCEPT ![m] = y]
      BY <1>0, <1>5, <1>6 DEF TreeInv, Transactions
    <2> QED
      BY <1>0, <2>1 DEF TreeInv, Transactions
  <1>8. /\ TxOK(y) /\ y.at = "apply" /\ y.op = "move" /\ y.root = root
        /\ y.target = tx[m].target /\ y.parent = parent /\ y.made = Range(ids)
        /\ y.shared = Ancestors(path) /\ y.locked = tx[m].locked /\ y.base = base
    BY <1>0, <1>1, <1>2, <1>5 DEF TxOK, TxField
  <1>9. /\ Rows' /\ Standing' /\ Untouched(m)
        /\ \A e \in Entry : entry[e].status # "unused" => entry'[e] = entry[e]
        /\ \A e \in Range(ids) : e \in Entry /\ e \in Directory /\ entry'[e].status = "pending"
                                 /\ entry[e].status = "unused"
        /\ \A e \in Entry \ Range(ids) : entry'[e] = entry[e]
    BY <1>0, <1>2, <1>6, GrowKeeps
  <1>10. PICK k \in 0 .. Len(path) : Grows(entry', path, ids, "pending", k)
    BY <1>0, <1>2, <1>6, GrowKeeps
  <1>11. /\ Node(path, ids, 0) = Root
         /\ \A i \in 1 .. k : /\ Node(path, ids, i) = Walk(path)[i]
                              /\ Walk(path)[i] \in Entry /\ Live(Walk(path)[i])
                              /\ entry[Walk(path)[i]].path = SubSeq(path, 1, i)
         /\ \A i \in k + 1 .. Len(path) :
               /\ Node(path, ids, i) = ids[i] /\ ids[i] \in Range(ids)
               /\ ids[i] \in Directory /\ ids[i] \in Entry
         /\ \A e \in Range(ids) : \E i \in k + 1 .. Len(path) : e = ids[i]
    BY <1>10, Zenon DEF Grows
  <1>12. ASSUME NEW i \in k + 1 .. Len(path)
         PROVE  /\ entry'[ids[i]].parent = Node(path, ids, i - 1)
                /\ entry'[ids[i]].path = SubSeq(path, 1, i)
    <2>1. entry'[ids[i]] =
             [status |-> "pending", parent |-> Node(path, ids, i - 1), name |-> path[i],
              path |-> SubSeq(path, 1, i), shown |-> entry'[ids[i]].shown, checksum |-> None]
      BY <1>10, Zenon DEF Grows
    <2> QED
      BY <2>1
  <1>13. \A i \in 1 .. Len(path) : Walk(path)[i] \notin File
    BY <1>6 DEF CanGrow
  <1>14. ASSUME NEW i \in 1 .. k, NEW w, w = Walk(path)[i]
         PROVE  w \in Directory /\ Live(w)' /\ entry'[w] = entry[w]
    <2>1. w \in Entry /\ Live(w) /\ w \notin File
      <3>1. i \in 1 .. Len(path)
        BY <1>2
      <3> QED
        BY <1>11, <1>13, <1>14, <3>1
    <2> QED
      BY <1>9, <2>1 DEF Live, Entry
  <1>15. /\ parent = Root \/ (parent \in Directory /\ (Live(parent)' \/ parent \in Range(ids)))
         /\ PathOf(parent)' = path /\ base[1] = path
    <2>1. CASE Len(path) = 0
      <3>1. parent = Root /\ path = <<>>
        BY <1>2, <1>3, <1>11, <2>1
      <3> QED
        BY <1>4, <3>1 DEF PathOf
    <2>2. CASE Len(path) # 0
      <3>1. Len(path) \in 1 .. Len(path) /\ SubSeq(path, 1, Len(path)) = path
        BY <1>2, <2>2
      <3>2. CASE Len(path) = k
        <4>1. /\ parent = Walk(path)[k] /\ k \in 1 .. k /\ parent \in Entry /\ Live(parent)
              /\ entry[parent].path = path
          BY <1>3, <1>11, <3>1, <3>2
        <4>2. parent \in Directory /\ Live(parent)' /\ entry'[parent] = entry[parent]
          BY <1>14, <4>1
        <4>3. parent # Root
          BY <4>1 DEF Distinct
        <4> QED
          BY <1>4, <1>6, <4>1, <4>2, <4>3 DEF PathOf
      <3>3. CASE Len(path) # k
        <4>1. Len(path) \in k + 1 .. Len(path)
          BY <1>2, <3>3
        <4>2. PICK i \in k + 1 .. Len(path) : i = Len(path)
          BY <4>1
        <4>3. parent = ids[i] /\ parent \in Range(ids) /\ parent \in Directory /\ parent \in Entry
          BY <1>3, <1>11, <4>2
        <4>4. entry'[parent].path = path /\ parent # Root
          BY <1>12, <3>1, <4>2, <4>3 DEF Distinct
        <4> QED
          BY <1>4, <1>6, <4>3, <4>4 DEF PathOf
      <3> QED
        BY <3>2, <3>3
    <2> QED
      BY <2>1, <2>2
  <1>16. ~IsPrefix(entry[root].path, path)
    <2>1. CASE root \in Directory
      BY <1>2, <2>1
    <2>2. CASE root \in File
      BY <1>0, <1>2, <1>13, <2>2, WalkPasses
    <2> QED
      BY <1>2, <2>1, <2>2 DEF Entry
  <1>17. ASSUME NEW d \in Range(ids)
         PROVE  /\ d \in Directory /\ IsPrefix(entry'[d].path, path)
                /\ \/ entry'[d].parent \in Range(ids) \cup {Root}
                   \/ /\ entry'[d].parent \in Directory
                      /\ entry'[entry'[d].parent].status = "live"
    <2>1. PICK i \in k + 1 .. Len(path) : d = ids[i]
      BY <1>11
    <2>2. entry'[d].parent = Node(path, ids, i - 1) /\ entry'[d].path = SubSeq(path, 1, i)
      BY <1>12, <2>1
    <2>3. IsPrefix(SubSeq(path, 1, i), path) /\ d \in Directory
      BY <1>2, <1>9, PartOf
    <2>4. CASE i = 1
      BY <1>11, <2>2, <2>3, <2>4
    <2>5. CASE i # 1 /\ i - 1 \in 1 .. k
      <3>1. PICK v : v = Walk(path)[i - 1] /\ v = Node(path, ids, i - 1)
        BY <1>11, <2>5
      <3>2. v \in Directory /\ Live(v)'
        BY <1>14, <2>5, <3>1
      <3> QED
        BY <2>2, <2>3, <3>1, <3>2 DEF Live
    <2>6. CASE i - 1 \in k + 1 .. Len(path)
      BY <1>11, <2>2, <2>3, <2>6
    <2> QED
      BY <1>2, <2>4, <2>5, <2>6
  <1>18. Closed(Ancestors(path))
    <2>1. CASE Len(path) = 0
      BY <2>1 DEF Ancestors, Closed
    <2>2. CASE Len(path) # 0
      <3>1. \A i \in 1 .. Len(path) - 1 : Walk(path)[i] \notin File
        BY <1>2, <1>13
      <3> QED
        BY <1>0, <1>2, <2>2, <3>1, AncestorsClosed
    <2> QED
      BY <2>1, <2>2
  <1>19. Fits(m, y)
    <2>1. ASSUME NEW d \in Ancestors(path)
          PROVE  /\ d \in Directory /\ Live(d)'
                 /\ entry'[d].parent = Root \/ entry'[d].parent \in Ancestors(path)
      BY <1>9, <1>18 DEF Closed, Live, Entry
    <2>2. \A q \in Process \ {m} : /\ y.locked \cap (tx[q].locked \cup tx[q].shared) = {}
                                   /\ tx[q].locked \cap y.shared = {}
      BY <1>0, <1>6, <1>8 DEF Locks, CanGrow, Shareable
    <2>3. \A q \in Process \ {m} : y.made \cap tx[q].made = {}
      <3>1. \A q \in Process : \A e \in tx[q].made : e \in Entry /\ entry[e].status = "pending"
        BY <1>0 DEF Locks
      <3> QED
        BY <1>8, <1>9, <3>1
    <2>4. ASSUME NEW e \in Entry
          PROVE  entry'[e].status = "pending" <=>
                   e \in Range(ids) \/ \E q \in Process \ {m} : e \in tx[q].made
      <3>1. entry[e].status = "pending" <=> \E q \in Process \ {m} : e \in tx[q].made
        BY <1>0, <1>2 DEF Locks
      <3> QED
        BY <1>9, <3>1
    <2>5. y.made \subseteq Entry
      BY <1>8, <1>9
    <2> QED
      BY <1>8, <2>1, <2>2, <2>3, <2>4, <2>5 DEF Fits
  <1>20. Mutating(m)'
    <2>1. entry'[root] = entry[root] /\ Live(root)'
      BY <1>2, <1>9 DEF Live
    <2>2. Aimed(m)'
      BY <1>1, <1>7, <1>8, <1>15, <1>16, <1>17, <2>1 DEF Aimed, Live
    <2> QED
      BY <1>1, <1>2, <1>7, <1>8, <2>1, <2>2 DEF Mutating, Guarded, Live
  <1> QED
    BY <1>0, <1>7, <1>8, <1>9, <1>19, <1>20, StepKeeps

-----------------------------------------------------------------------------
(* What is below an entry.                                                 *)

\* All that has the path of an entry before its own is the entry, or in a directory below it.
LEMMA SubtreeUp ==
    ASSUME Distinct, Standing, NEW root \in Entry, Held(root), NEW e \in Entry, Held(e),
           NEW up, up = entry[e].parent
    PROVE  IsPrefix(entry[root].path, entry[e].path)
             <=> e = root \/ (up # Root /\ IsPrefix(entry[root].path, entry[up].path))
  <1>1. PICK r, t, n : r = entry[root].path /\ t = PathOf(up) /\ n = entry[e].name
    OBVIOUS
  <1>2. /\ r \in Seq(Name) /\ t \in Seq(Name) /\ n \in Name /\ entry[e].path = Append(t, n)
        /\ Len(r) \in Nat \ {0}
    <2>1. r \in Seq(Name) /\ Len(r) \in Nat \ {0}
      BY <1>1, PathFacts
    <2> QED
      BY <1>1, <2>1, PathFacts
  <1>3. IsPrefix(r, entry[e].path) <=> r = entry[e].path \/ IsPrefix(r, t)
    BY <1>2, PrefixOfAppend
  <1>4. r = entry[e].path <=> e = root
    BY <1>1, OnePath
  <1>5. up = Root => ~IsPrefix(r, t)
    <2>1. up = Root => Len(t) = 0
      BY <1>1, PathOfRoot
    <2>2. IsPrefix(r, t) => Len(r) <= Len(t)
      BY <1>2, PrefixOrder
    <2> QED
      BY <1>2, <2>1, <2>2
  <1>6. up # Root => t = entry[up].path
    BY <1>1 DEF PathOf
  <1> QED
    BY <1>1, <1>3, <1>4, <1>5, <1>6

\* No directory below one that is locked is share-locked by another process, for it would
\* have that one share-locked as well.
LEMMA NoneShared ==
    ASSUME Distinct, TreeInv, NEW m \in Process, NEW u \in Process, u # m, NEW root \in Entry,
           root \in tx[m].locked, Live(root), NEW d \in tx[u].shared
    PROVE  ~IsPrefix(entry[root].path, entry[d].path)
  <1> DEFINE On(x) == IsPrefix(entry[root].path, entry[x].path)
             T     == {Len(entry[x].path) : x \in {z \in tx[u].shared : On(z)}}
  <1>0. Standing /\ Locks /\ Held(root)
    BY DEF TreeInv, Live, Held
  <1>1. ASSUME NEW x \in tx[u].shared
        PROVE  /\ x \in Entry /\ Held(x) /\ x # root
               /\ entry[x].parent = Root \/ entry[x].parent \in tx[u].shared
    BY <1>0 DEF Locks, Closed, Entry, Live, Held
  <1>2. ASSUME NEW x \in tx[u].shared
        PROVE  /\ Len(entry[x].path) \in Nat
               /\ Len(entry[x].path) = Len(PathOf(entry[x].parent)) + 1
               /\ Len(PathOf(entry[x].parent)) \in Nat
    BY <1>0, <1>1, PathFacts
  <1> SUFFICES ASSUME On(d)
               PROVE  FALSE
    OBVIOUS
  <1>3. PICK least \in T : \A y \in T : least <= y
    <2>1. T \subseteq Nat /\ T # {}
      BY <1>2
    <2> HIDE DEF T
    <2> QED
      BY <2>1, LeastOf
  <1>4. PICK x \in tx[u].shared : On(x) /\ Len(entry[x].path) = least
    BY <1>3
  <1>5. PICK up : up = entry[x].parent
    OBVIOUS
  <1>6. up # Root /\ On(up)
    <2>1. x \in Entry /\ Held(x) /\ x # root
      BY <1>1
    <2> QED
      BY <1>0, <1>4, <1>5, <2>1, SubtreeUp
  <1>7. up \in tx[u].shared /\ Len(entry[up].path) < least /\ Len(entry[up].path) \in Nat
    <2>1. up \in tx[u].shared /\ Len(PathOf(up)) \in Nat /\ least = Len(PathOf(up)) + 1
      BY <1>1, <1>2, <1>4, <1>5, <1>6
    <2>2. PathOf(up) = entry[up].path
      BY <1>6 DEF PathOf
    <2> QED
      BY <2>1, <2>2
  <1>8. Len(entry[up].path) \in T /\ least \in Nat
    BY <1>2, <1>4, <1>6, <1>7
  <1> HIDE DEF T
  <1> QED
    BY <1>3, <1>7, <1>8

\* Nor is a file uploaded there.
LEMMA NoneUploaded ==
    ASSUME Distinct, TreeInv, NEW m \in Process, NEW u \in Uploader, u # m, NEW root \in Entry,
           root \in tx[m].locked, Live(root), NEW f \in tx[u].made
    PROVE  ~IsPrefix(entry[root].path, entry[f].path)
  <1>0. /\ u \in Process /\ Standing /\ Locks /\ Held(root) /\ f \in Entry
        /\ entry[f].status = "pending" /\ Held(f) /\ f # root
    BY DEF TreeInv, Live, Held, Process, Locks
  <1>1. PICK up : up = entry[f].parent
    OBVIOUS
  <1>2. up = Root \/ up \in tx[u].shared
    BY <1>1 DEF TreeInv, Uploading
  <1>3. up # Root => ~IsPrefix(entry[root].path, entry[up].path)
    BY <1>0, <1>2, NoneShared
  <1> QED
    BY <1>0, <1>1, <1>3, SubtreeUp

\* No other deletion, renaming or move is under way.
Alone(m) == \A q \in Mutator \ {m} : tx[q].at = "idle"

LEMMA AloneMakes ==
    ASSUME TreeInv, NEW m \in Mutator, Alone(m), NEW q \in Process \ {m}
    PROVE  tx[q].made # {} => q \in Uploader
  BY DEF TreeInv, Mutating, Alone, Process

-----------------------------------------------------------------------------
(* Deletion.                                                               *)

LEMMA ApplyDeleteKeeps ==
    ASSUME Distinct, TreeInv, NEW m \in Mutator, Alone(m), ApplyDelete(m)
    PROVE  TreeInv'
  <1>0. /\ m \in Process /\ m \in Mutator /\ m \notin Uploader /\ Mutating(m)
        /\ tx[m].at = "apply" /\ tx[m].op = "delete"
        /\ Standing /\ Locks /\ Rows /\ Ends(m)
    BY DEF Process, Distinct, TreeInv, ApplyDelete
  <1>1. PICK root : root = tx[m].root
    OBVIOUS
  <1>2. /\ root \in Entry /\ Live(root) /\ Held(root) /\ tx[m].made = {}
        /\ root \in Directory => root \in tx[m].locked
    BY <1>0, <1>1 DEF Mutating, Guarded, Live, Held, Distinct
  <1>3. PICK gone : gone = IF root \in File THEN {root} ELSE Subtree(root)
    OBVIOUS
  <1>4. /\ Lockable(m, gone)
        /\ entry' = [e \in Entry |->
                       IF e \in gone THEN [entry[e] EXCEPT !.status = "deleted"] ELSE entry[e]]
    BY <1>1, <1>3 DEF ApplyDelete
  <1>5. \A e \in gone : e \in Entry /\ Live(e)
    BY <1>2, <1>3 DEF Subtree
  <1>6. ASSUME NEW e \in Entry
        PROVE  /\ e \notin gone => entry'[e] = entry[e]
               /\ e \in gone => entry'[e].status = "deleted"
               /\ RowOK(entry'[e])
    BY <1>0, <1>4 DEF Rows, RowOK, RowField
  <1>7. Rows'
    BY <1>4, <1>6 DEF Rows, RowOK
  <1>8. ASSUME NEW e \in Entry, Held(e)'
        PROVE  e \notin gone /\ Held(e) /\ entry'[e] = entry[e]
    BY <1>6, <1>8 DEF Held
  <1>9. ASSUME NEW e \in Entry, Held(e), e \notin gone, NEW up, up = entry[e].parent, up # Root
        PROVE  up \in Entry /\ Held(up) /\ (Live(e) => Live(up)) /\ up \notin gone
    <2>1. up \in Directory /\ up \in Entry /\ Held(up) /\ (Live(e) => Live(up))
      BY <1>0, <1>9, PathFacts
    <2>2. CASE root \in File
      BY <1>3, <2>1, <2>2 DEF Distinct
    <2>3. CASE root \notin File
      <3>1. root \in Directory /\ root \in tx[m].locked
        BY <1>2, <2>3 DEF Entry
      <3> SUFFICES ASSUME up \in gone
                   PROVE  FALSE
        BY <2>1
      <3>2. IsPrefix(entry[root].path, entry[up].path)
        BY <1>3, <2>3 DEF Subtree
      <3>3. IsPrefix(entry[root].path, entry[e].path)
        BY <1>0, <1>2, <1>9, <3>2, SubtreeUp
      <3>4. ~Live(e)
        BY <1>3, <1>9, <2>3, <3>3 DEF Subtree
      <3>5. PICK u \in Process : e \in tx[u].made
        BY <1>0, <1>9, <3>4 DEF Locks, Held, Live
      <3>6. u \in Uploader /\ u # m
        BY <1>2, <3>5, AloneMakes
      <3> QED
        BY <1>0, <1>2, <3>1, <3>3, <3>5, <3>6, NoneUploaded
    <2> QED
      BY <2>2, <2>3
  <1>10. Standing'
    <2>1. ASSUME NEW e \in Entry, Held(e)', entry[e].parent # Root
          PROVE  /\ entry'[entry[e].parent].status \in {"live", "pending"}
                 /\ entry'[e].status = "live" => entry'[entry[e].parent].status = "live"
      <3>1. PICK up : up = entry[e].parent
        OBVIOUS
      <3>2. up \in Entry /\ Held(up) /\ (Live(e) => Live(up)) /\ up \notin gone
        BY <1>8, <1>9, <2>1, <3>1
      <3> QED
        BY <1>6, <1>8, <2>1, <3>1, <3>2 DEF Held, Live
    <2> QED
      BY <1>0, <1>8, <2>1, PlacesStand
  <1>11. ASSUME NEW q \in Process \ {m}, NEW e \in tx[q].shared \cup tx[q].made
         PROVE  entry'[e] = entry[e]
    <2>1. e \in Entry /\ (e \in tx[q].shared => e \notin gone)
      BY <1>0, <1>4, <1>11 DEF Locks, Closed, Entry, Lockable
    <2>2. e \in tx[q].made => e \notin gone
      BY <1>0, <1>5, <1>11, <2>1 DEF Locks, Live
    <2> QED
      BY <1>6, <1>11, <2>1, <2>2
  <1>12. Untouched(m)
    <2>1. \A f \in File : entry[f].status \in {"live", "deleted"} =>
                             entry'[f].status \in {"live", "deleted"}
      BY <1>6 DEF Entry
    <2> QED
      BY <1>0, <1>11, <2>1, LeavesOthers DEF Alone
  <1>13. ASSUME NEW e \in Entry
         PROVE  entry'[e].status = "pending" <=> \E q \in Process \ {m} : e \in tx[q].made
    <2>1. entry'[e].status = "pending" <=> entry[e].status = "pending"
      BY <1>5, <1>6 DEF Live
    <2> QED
      BY <1>0, <1>2, <2>1 DEF Locks
  <1> QED
    BY <1>0, <1>7, <1>10, <1>12, <1>13, EndsKeep

-----------------------------------------------------------------------------
(* Renaming and moving.                                                    *)

\* A subtree goes under newup, with the name n, as a whole.
Moved(root, newup, n, old, new) ==
    \A e \in Entry : Held(e) =>
       /\ entry'[e].name = IF e = root THEN n ELSE entry[e].name
       /\ entry'[e].parent = IF e = root THEN newup ELSE entry[e].parent
       /\ entry'[e].path = IF IsPrefix(old, entry[e].path)
                             THEN Rebased(entry[e].path, old, new) ELSE entry[e].path

\* What was there is there, and lives where its directory does.
StatusKept ==
    \A e \in Entry :
       /\ Held(e)' => Held(e)
       /\ Held(e) => Held(e)'
       /\ Live(e) => Live(e)'
       /\ Live(e)' /\ ~Live(e) /\ entry[e].parent # Root =>
             entry'[entry[e].parent].status = "live"

\* Where it goes: to a directory that stays, is not below it and has no other of that name.
Goes(root, newup, n, old, base, new) ==
    /\ root \in Entry /\ Live(root) /\ old = entry[root].path
    /\ newup = Root \/ (newup \in Directory /\ Held(newup) /\ entry'[newup].status = "live")
    /\ base \in Seq(Name) /\ PathOf(newup) = base /\ ~IsPrefix(old, base)
    /\ n \in Name /\ new = Append(base, n)
    /\ \A e \in Entry : Held(e) /\ entry[e].parent = newup /\ entry[e].name = n => e = root

LEMMA MoveStands ==
    ASSUME Distinct, Standing, NEW root, NEW newup, NEW n, NEW old, NEW base, NEW new,
           Goes(root, newup, n, old, base, new), StatusKept, Moved(root, newup, n, old, new)
    PROVE  Standing'
  <1>0. /\ root \in Entry /\ Live(root) /\ old = entry[root].path
        /\ newup = Root \/ (newup \in Directory /\ Held(newup) /\ entry'[newup].status = "live")
        /\ base \in Seq(Name) /\ PathOf(newup) = base /\ ~IsPrefix(old, base)
        /\ n \in Name /\ new = Append(base, n)
    BY DEF Goes
  <1> USE <1>0
  <1>1. /\ old \in Seq(Name) /\ Held(root) /\ new \in Seq(Name) /\ root # Root
        /\ newup # Root => newup \in Entry /\ Held(newup)
    BY PathFacts, AppendIs DEF Live, Held, Entry, Distinct
  <1>2. PathOf(newup)' = base
    <2>1. CASE newup = Root
      BY <2>1 DEF PathOf
    <2>2. CASE newup # Root
      <3>1. entry[newup].path = base /\ newup \in Entry /\ Held(newup)
        BY <1>1, <2>2 DEF PathOf
      <3>2. entry'[newup].path = base
        BY <3>1 DEF Moved
      <3> QED
        BY <2>2, <3>2 DEF PathOf
    <2> QED
      BY <2>1, <2>2
  <1>3. ASSUME NEW e \in Entry, Held(e)'
        PROVE  Seated(e)'
    <2>1. PICK up, a : up = entry[e].parent /\ a = entry[e].name
      OBVIOUS
    <2>2. /\ up = Root \/ (up \in Directory /\ up \in Entry /\ Held(up) /\ (Live(e) => Live(up)))
          /\ a \in Name /\ PathOf(up) \in Seq(Name) /\ Held(e)
          /\ entry[e].path = Append(PathOf(up), a)
      BY <1>3, <2>1, PathFacts DEF StatusKept
    <2>3. IsPrefix(old, entry[e].path) <=> e = root \/ (up # Root /\ IsPrefix(old, entry[up].path))
      <3>1. IsPrefix(entry[root].path, entry[e].path)
              <=> e = root \/ (up # Root /\ IsPrefix(entry[root].path, entry[up].path))
        <4>1. root \in Entry /\ Held(root) /\ e \in Entry /\ Held(e) /\ up = entry[e].parent
          BY <1>1, <2>1, <2>2
        <4> QED
          BY ONLY Distinct, Standing, <4>1, SubtreeUp
      <3> QED
        BY <3>1
    <2>4. ASSUME up # Root
          PROVE  Held(up)' /\ (Live(e)' => Live(up)')
      <3>1. Held(up)' /\ (Live(e) => Live(up)')
        BY <2>2, <2>4 DEF StatusKept
      <3>2. Live(e)' /\ ~Live(e) => Live(up)'
        BY <2>1, <2>4 DEF StatusKept, Live
      <3> QED
        BY <3>1, <3>2
    <2>5. CASE e = root
      <3>1. entry'[e].path = Rebased(old, old, new)
            /\ entry'[e].parent = newup /\ entry'[e].name = n
        BY <2>2, <2>3, <2>5 DEF Moved
      <3>2. Rebased(old, old, new) = new
        <4>1. IsPrefix(old, old)
          BY <1>1, PrefixOrder
        <4> QED
          BY <1>1, <4>1, RebasedIs
      <3>3. newup # Root => newup \in Directory /\ Held(newup)' /\ Live(newup)'
        BY <1>1 DEF StatusKept, Live
      <3> QED
        BY <1>2, <3>1, <3>2, <3>3 DEF Seated
    <2>6. CASE e # root /\ IsPrefix(old, entry[e].path)
      <3>1. up # Root /\ IsPrefix(old, entry[up].path) /\ up \in Directory /\ up \in Entry /\ Held(up)
        BY <2>2, <2>3, <2>6
      <3>2. PICK t \in Seq(Name) : t = entry[up].path /\ t = PathOf(up)
        BY <2>2, <3>1 DEF PathOf
      <3>3. /\ Rebased(t, old, new) \in Seq(Name)
            /\ Rebased(Append(t, a), old, new) = Append(Rebased(t, old, new), a)
        <4>1. IsPrefix(old, t)
          BY <3>1, <3>2
        <4>2. a \in Name /\ old \in Seq(Name) /\ new \in Seq(Name)
          BY <1>1, <2>2
        <4> QED
          BY ONLY <4>1, <4>2, t \in Seq(Name), RebasedIs
      <3>4. entry'[e].path = Rebased(Append(t, a), old, new)
            /\ entry'[e].parent = up /\ entry'[e].name = a
        <4>1. entry[e].path = Append(t, a)
          BY <2>2, <3>2
        <4> QED
          BY <2>1, <2>2, <2>6, <4>1 DEF Moved
      <3>5. PathOf(up)' = Rebased(t, old, new)
        <4>1. entry'[up].path = Rebased(entry[up].path, old, new)
          BY <1>1, <3>1 DEF Moved
        <4> QED
          BY <3>1, <3>2, <4>1 DEF PathOf
      <3> QED
        BY <2>2, <2>4, <3>1, <3>3, <3>4, <3>5 DEF Seated
    <2>7. CASE e # root /\ ~IsPrefix(old, entry[e].path)
      <3>1. /\ entry'[e].path = entry[e].path
            /\ entry'[e].parent = up /\ entry'[e].name = a
        BY <2>1, <2>2, <2>7 DEF Moved
      <3>2. PathOf(up)' = PathOf(up)
        BY <2>2, <2>3, <2>7 DEF PathOf, Moved
      <3> QED
        BY <2>2, <2>4, <3>1, <3>2 DEF Seated
    <2> QED
      BY <2>5, <2>6, <2>7
  <1>4. ASSUME NEW e \in Entry, NEW f \in Entry, Held(e)', Held(f)',
               entry'[e].parent = entry'[f].parent, entry'[e].name = entry'[f].name
        PROVE  e = f
    <2>1. Held(e) /\ Held(f)
      BY <1>4 DEF StatusKept
    <2>2. CASE e # root /\ f # root
      BY <1>4, <2>1, <2>2 DEF Standing, Unique, Moved
    <2>3. CASE e = root /\ f # root
      BY <1>4, <2>1, <2>3 DEF Moved, Goes
    <2>4. CASE e # root /\ f = root
      BY <1>4, <2>1, <2>4 DEF Moved, Goes
    <2> QED
      BY <2>2, <2>3, <2>4
  <1> QED
    BY <1>3, <1>4 DEF Standing, Unique

\* Below what is locked nothing is about to arrive, but what its process makes itself.
LEMMA NonePending ==
    ASSUME Distinct, TreeInv, NEW m \in Mutator, Alone(m), NEW root \in Entry, root \in tx[m].locked,
           Live(root), NEW e \in Entry, entry[e].status = "pending", e \notin tx[m].made
    PROVE  ~IsPrefix(entry[root].path, entry[e].path)
  <1>1. PICK u \in Process : e \in tx[u].made
    BY DEF TreeInv, Locks
  <1>2. m \in Process /\ u \in Uploader /\ u # m
    BY <1>1, AloneMakes DEF Process
  <1> QED
    BY <1>1, <1>2, NoneUploaded

\* All that is held and below an entry that is locked is its subtree.
LEMMA SubtreeIs ==
    ASSUME Distinct, TreeInv, NEW m \in Mutator, Alone(m), NEW root \in Entry, root \in tx[m].locked,
           Live(root), NEW e \in Entry
    PROVE  /\ e \in Subtree(root) <=> Live(e) /\ IsPrefix(entry[root].path, entry[e].path)
           /\ Held(e) /\ e \notin tx[m].made =>
                (e \in Subtree(root) <=> IsPrefix(entry[root].path, entry[e].path))
           /\ root \in Subtree(root)
  <1>1. e \in Subtree(root) <=> Live(e) /\ IsPrefix(entry[root].path, entry[e].path)
    BY DEF Subtree
  <1>2. Held(e) /\ ~Live(e) => entry[e].status = "pending"
    BY DEF Held, Live
  <1>3. IsPrefix(entry[root].path, entry[root].path)
    BY PathFacts, PrefixOrder DEF TreeInv, Live, Held
  <1>4. root \in Subtree(root)
    BY <1>3 DEF Subtree
  <1> QED
    BY <1>1, <1>2, <1>4, NonePending

LEMMA ApplyRenameKeeps ==
    ASSUME Distinct, TreeInv, NEW m \in Mutator, Alone(m), ApplyRename(m)
    PROVE  TreeInv'
  <1>0. /\ m \in Process /\ m \in Mutator /\ m \notin Uploader /\ Mutating(m)
        /\ tx[m].at = "apply" /\ tx[m].op = "rename"
        /\ Standing /\ Locks /\ Rows /\ Ends(m)
    BY DEF Process, Distinct, TreeInv, ApplyRename
  <1>1. PICK root, n, old, up : /\ root = tx[m].root /\ n = tx[m].target[1]
                                /\ old = entry[root].path /\ up = entry[root].parent
    OBVIOUS
  <1>2. /\ root \in Entry /\ Live(root) /\ Held(root) /\ n \in Name
        /\ tx[m].made = {} /\ root \in tx[m].locked
    BY <1>0, <1>1 DEF Mutating, Guarded, Live, Held
  <1>3. PICK base, new : base = PathOf(up) /\ new = Append(base, n)
    OBVIOUS
  <1>4. /\ up = Root \/ (up \in Directory /\ up \in Entry /\ Held(up) /\ Live(up))
        /\ base \in Seq(Name) /\ old \in Seq(Name)
        /\ Len(old) = Len(base) + 1 /\ Len(base) \in Nat /\ old = Append(base, entry[root].name)
        /\ entry[root].name \in Name
    BY <1>0, <1>1, <1>2, <1>3, PathFacts
  <1>5. Front(old) \o <<n>> = new /\ new \in Seq(Name) /\ ~IsPrefix(old, base)
    <2>1. Front(old) = base /\ base \o <<n>> = new /\ new \in Seq(Name)
      BY <1>2, <1>3, <1>4, AppendIs
    <2>2. IsPrefix(old, base) => Len(old) <= Len(base)
      <3>1. old \in Seq(Name) /\ base \in Seq(Name)
        BY <1>4
      <3> QED
        BY ONLY <3>1, PrefixOrder
    <2>3. ~IsPrefix(old, base)
      BY <1>4, <2>2
    <2> QED
      BY <2>1, <2>3
  <1>6. PICK S, seen, shows, shown :
           /\ S = Subtree(root) /\ seen = entry[root].shown /\ shows = Front(seen) \o <<n>>
           /\ shown = {root} \cup Matched(seen)
    OBVIOUS
  <1>7. /\ Child(up, n) \subseteq {root} /\ ~Clash(m, up, n)
        /\ Lockable(m, S \cup shown)
        /\ entry' = [e \in Entry |->
             [entry[e] EXCEPT
                !.name  = IF e = root THEN n ELSE @,
                !.path  = IF e \in S THEN Rebased(@, old, new) ELSE @,
                !.shown = IF e \in shown THEN Rebased(@, seen, shows) ELSE @]]
    BY <1>1, <1>2, <1>5, <1>6, Zenon DEF ApplyRename
  <1>8. ASSUME NEW e \in Entry
        PROVE  /\ e \in S <=> Live(e) /\ IsPrefix(old, entry[e].path)
               /\ Held(e) => (e \in S <=> IsPrefix(old, entry[e].path))
               /\ root \in S
    BY <1>1, <1>2, <1>6, SubtreeIs
  <1>9. \A e \in shown : e = root \/ Live(e)
    BY <1>6 DEF Matched
  <1>10. ASSUME NEW e \in Entry
         PROVE  /\ entry'[e].status = entry[e].status /\ entry'[e].parent = entry[e].parent
                /\ entry'[e].name = IF e = root THEN n ELSE entry[e].name
                /\ entry'[e].path = IF e \in S THEN Rebased(entry[e].path, old, new)
                                               ELSE entry[e].path
                /\ e \notin S \cup shown => entry'[e] = entry[e]
                /\ RowOK(entry'[e])
    <2>1. PICK x : x = entry[e] /\ RowOK(x)
      BY <1>0 DEF Rows
    <2>2. PICK a, b, c : /\ a = (IF e = root THEN n ELSE x.name)
                         /\ b = (IF e \in S THEN Rebased(x.path, old, new) ELSE x.path)
                         /\ c = (IF e \in shown THEN Rebased(x.shown, seen, shows) ELSE x.shown)
      OBVIOUS
    <2>3. entry'[e] = [x EXCEPT !.name = a, !.path = b, !.shown = c]
      BY <1>7, <2>1, <2>2, Zenon
    <2>4. PICK z : z = [x EXCEPT !.name = a, !.path = b, !.shown = c]
      OBVIOUS
    <2>5. /\ RowOK(z) /\ z.status = x.status /\ z.parent = x.parent /\ z.name = a /\ z.path = b
          /\ z.shown = c /\ (a = x.name /\ b = x.path /\ c = x.shown => z = x)
      BY <2>1, <2>4 DEF RowOK, RowField
    <2>6. e \notin S => e # root
      BY <1>8
    <2> QED
      BY <2>1, <2>2, <2>3, <2>4, <2>5, <2>6
  <1>11. Rows'
    BY <1>7, <1>10 DEF Rows
  <1>12. Standing'
    <2>2. ASSUME NEW e \in Entry, Held(e), entry[e].parent = up, entry[e].name = n
          PROVE  e = root
      <3>1. CASE Live(e)
        BY <1>7, <2>2, <3>1 DEF Child
      <3>2. CASE ~Live(e)
        <4>1. PICK q \in Process : e \in tx[q].made
          BY <1>0, <2>2, <3>2 DEF Held, Live, Locks
        <4> QED
          BY <1>2, <1>7, <2>2, <4>1 DEF Clash
      <3> QED
        BY <3>1, <3>2
    <2>3. StatusKept
      BY <1>10 DEF StatusKept, Held, Live
    <2>4. Moved(root, up, n, old, new)
      BY <1>1, <1>8, <1>10 DEF Moved
    <2>5. up = Root \/ (up \in Directory /\ Held(up) /\ entry'[up].status = "live")
      BY <1>4, <1>10 DEF Live
    <2>6. Goes(root, up, n, old, base, new)
      BY <1>1, <1>2, <1>3, <1>4, <1>5, <2>2, <2>5, Zenon DEF Goes
    <2> QED
      BY <1>0, <2>3, <2>4, <2>6, MoveStands
  <1>13. ASSUME NEW q \in Process \ {m}, NEW e \in tx[q].shared \cup tx[q].made
         PROVE  entry'[e] = entry[e]
    <2>1. e \in Entry /\ (e \in tx[q].shared => e \notin S \cup shown)
      BY <1>0, <1>7, <1>13 DEF Locks, Closed, Entry, Lockable
    <2>2. e \in tx[q].made => e \notin S \cup shown
      BY <1>0, <1>2, <1>8, <1>9, <1>13, <2>1 DEF Locks, Live
    <2> QED
      BY <1>10, <1>13, <2>1, <2>2
  <1>14. Untouched(m)
    <2>1. \A f \in File : entry[f].status \in {"live", "deleted"} =>
                             entry'[f].status \in {"live", "deleted"}
      BY <1>10 DEF Entry
    <2> QED
      BY <1>0, <1>13, <2>1, LeavesOthers DEF Alone
  <1>15. ASSUME NEW e \in Entry
         PROVE  entry'[e].status = "pending" <=> \E q \in Process \ {m} : e \in tx[q].made
    <2>1. entry'[e].status = "pending" <=> entry[e].status = "pending"
      BY <1>10
    <2> QED
      BY <1>0, <1>2, <2>1 DEF Locks
  <1>z. m \in Process /\ Ends(m)
    BY <1>0
  <1> QED
    BY ONLY Distinct, TreeInv, <1>z, <1>11, <1>12, <1>14, <1>15, EndsKeep

LEMMA ApplyMoveKeeps ==
    ASSUME Distinct, TreeInv, NEW m \in Mutator, Alone(m), ApplyMove(m)
    PROVE  TreeInv'
  <1>0. /\ m \in Process /\ m \in Mutator /\ m \notin Uploader /\ Mutating(m) /\ Aimed(m)
        /\ tx[m].at = "apply" /\ tx[m].op = "move"
        /\ Standing /\ Locks /\ Rows /\ Ends(m)
    BY DEF Process, Distinct, TreeInv, ApplyMove, Mutating
  <1>1. PICK root, n, old, up, made :
           /\ root = tx[m].root /\ n = Last(tx[m].target) /\ old = entry[root].path
           /\ up = tx[m].parent /\ made = tx[m].made
    OBVIOUS
  <1>2. PICK base : base = Front(tx[m].target)
    OBVIOUS
  <1>3. /\ root \in Entry /\ Live(root) /\ Held(root) /\ root \in tx[m].locked
        /\ n \in Name /\ base \in Seq(Name)
    BY <1>0, <1>1, <1>2, PathIs DEF Mutating, Guarded, Live, Held
  <1>4. /\ ~IsPrefix(old, base) /\ tx[m].base[1] = base /\ PathOf(up) = base
        /\ up = Root \/ (up \in Directory /\ (Live(up) \/ up \in made))
        /\ \A d \in made : /\ d \in Directory /\ IsPrefix(entry[d].path, base)
                           /\ \/ entry[d].parent \in made \cup {Root}
                              \/ entry[d].parent \in Directory /\ Live(entry[d].parent)
    BY <1>0, <1>1, <1>2 DEF Aimed
  <1>5. \A d \in made : d \in Entry /\ entry[d].status = "pending" /\ Held(d)
    BY <1>0, <1>1 DEF Locks, Held
  <1>6. PICK new : new = Append(base, n) /\ base \o <<n>> = new
    BY <1>3, AppendIs
  <1>7. PICK S, grown :
           /\ S = Subtree(root)
           /\ grown = [e \in Entry |->
                IF e \in made THEN [entry[e] EXCEPT !.status = "live"] ELSE entry[e]]
    OBVIOUS
  <1>8. Child(up, n) \subseteq {root} /\ ~Clash(m, up, n) /\ Lockable(m, S)
    BY <1>1, <1>3, <1>7, Zenon DEF ApplyMove
  <1>e. entry' = [e \in Entry |->
           IF e \notin Subtree(root) THEN grown[e]
           ELSE [grown[e] EXCEPT
              !.name   = IF e = root THEN n ELSE @,
              !.parent = IF e = root THEN up ELSE @,
              !.path   = Rebased(@, old, tx[m].base[1] \o <<n>>),
              !.shown  = Rebased(@, entry[root].shown, tx[m].base[2] \o <<n>>)]]
    <2>1. Live(tx[m].root)
      BY <1>1, <1>3
    <2>2. entry' = [e \in Entry |->
             IF e \notin Subtree(tx[m].root)
             THEN [d \in Entry |->
                     IF d \in tx[m].made THEN [entry[d] EXCEPT !.status = "live"] ELSE entry[d]][e]
             ELSE [[d \in Entry |->
                      IF d \in tx[m].made THEN [entry[d] EXCEPT !.status = "live"] ELSE entry[d]][e]
                   EXCEPT
                !.name   = IF e = tx[m].root THEN Last(tx[m].target) ELSE @,
                !.parent = IF e = tx[m].root THEN tx[m].parent ELSE @,
                !.path   = Rebased(@, entry[tx[m].root].path,
                                   tx[m].base[1] \o <<Last(tx[m].target)>>),
                !.shown  = Rebased(@, entry[tx[m].root].shown,
                                   tx[m].base[2] \o <<Last(tx[m].target)>>)]]
      BY <2>1, ZenonT(60) DEF ApplyMove
    <2> QED
      BY <1>1, <1>7, <2>2, Zenon
  <1>9. old \in Seq(Name) /\ Len(base) \in Nat
    BY <1>0, <1>1, <1>3, PathFacts
  <1>10. ASSUME NEW e \in Entry
         PROVE  /\ e \in S <=> Live(e) /\ IsPrefix(old, entry[e].path)
                /\ Held(e) => (e \in S <=> IsPrefix(old, entry[e].path))
                /\ root \in S
    <2>1. /\ e \in S <=> Live(e) /\ IsPrefix(old, entry[e].path)
          /\ Held(e) /\ e \notin made => (e \in S <=> IsPrefix(old, entry[e].path))
          /\ root \in S
      BY <1>1, <1>3, <1>7, SubtreeIs
    <2>2. ASSUME e \in made, IsPrefix(old, entry[e].path)
          PROVE  FALSE
      <3>1. entry[e].path \in Seq(Name) /\ IsPrefix(entry[e].path, base)
        BY <1>0, <1>4, <1>5, <2>2, PathFacts
      <3>2. PICK p \in Seq(Name) : p = entry[e].path
        BY <3>1
      <3>3. IsPrefix(old, p) /\ IsPrefix(p, base) => IsPrefix(old, base)
        <4>1. old \in Seq(Name) /\ base \in Seq(Name)
          BY <1>3, <1>9
        <4> QED
          BY ONLY <4>1, p \in Seq(Name), PrefixOrder
      <3> QED
        BY <1>4, <2>2, <3>1, <3>2, <3>3
    <2> QED
      BY <2>1, <2>2
  <1>11. ASSUME NEW e \in Entry
         PROVE  /\ entry'[e].status = IF e \in made THEN "live" ELSE entry[e].status
                /\ entry'[e].parent = IF e = root THEN up ELSE entry[e].parent
                /\ entry'[e].name = IF e = root THEN n ELSE entry[e].name
                /\ entry'[e].path = IF e \in S THEN Rebased(entry[e].path, old, new)
                                               ELSE entry[e].path
                /\ e \notin S /\ e \notin made => entry'[e] = entry[e]
                /\ RowOK(entry'[e])
    <2>1. PICK x : x = entry[e] /\ RowOK(x)
      BY <1>0 DEF Rows
    <2>2. PICK a, b, c, d : /\ a = (IF e = root THEN n ELSE x.name)
                            /\ b = (IF e = root THEN up ELSE x.parent)
                            /\ c = Rebased(x.path, old, new)
                            /\ d = Rebased(x.shown, entry[root].shown, tx[m].base[2] \o <<n>>)
      OBVIOUS
    <2>3. e \in S => e \notin made
      BY <1>5, <1>10 DEF Live
    <2>4. CASE e \in S
      <3>1. grown[e] = x
        BY <1>7, <2>1, <2>3, <2>4
      <3>2. entry'[e] = [x EXCEPT !.name = a, !.parent = b, !.path = c, !.shown = d]
        <4>1. tx[m].base[1] \o <<n>> = new
          BY <1>4, <1>6
        <4> QED
          BY <1>7, <1>e, <2>2, <2>4, <3>1, <4>1, Zenon
      <3>3. PICK w, z : w = [x EXCEPT !.name = a, !.parent = b] /\ z = [w EXCEPT !.path = c, !.shown = d]
        OBVIOUS
      <3>4. /\ RowOK(w) /\ w.status = x.status /\ w.name = a /\ w.parent = b
        BY <2>1, <3>3 DEF RowOK, RowField
      <3>5. /\ RowOK(z) /\ z.status = x.status /\ z.name = a /\ z.parent = b /\ z.path = c
            /\ z.shown = d
        BY <3>3, <3>4 DEF RowOK, RowField
      <3>6. entry'[e] = z
        BY <2>1, <3>2, <3>3, <3>5 DEF RowOK, RowField
      <3> QED
        BY <2>1, <2>2, <2>3, <2>4, <3>5, <3>6
    <2>5. CASE e \notin S
      <3>1. e # root
        BY <1>10, <2>5
      <3>2. entry'[e] = grown[e]
        BY <1>7, <1>e, <2>5
      <3>3. CASE e \in made
        <4>1. entry'[e] = [x EXCEPT !.status = "live"]
          BY <1>7, <2>1, <3>2, <3>3
        <4>2. PICK z : z = [x EXCEPT !.status = "live"]
          OBVIOUS
        <4>3. /\ RowOK(z) /\ z.status = "live" /\ z.name = x.name /\ z.parent = x.parent
              /\ z.path = x.path /\ z.shown = x.shown
          BY <2>1, <4>2 DEF RowOK, RowField
        <4> QED
          BY <2>1, <2>5, <3>1, <3>3, <4>1, <4>2, <4>3
      <3>4. CASE e \notin made
        BY <1>7, <2>1, <2>5, <3>1, <3>2, <3>4
      <3> QED
        BY <3>3, <3>4
    <2> QED
      BY <2>4, <2>5
  <1>12. Rows'
    BY <1>11, <1>e DEF Rows
  <1>13. Standing'
    <2>1. ASSUME NEW e \in Entry, Held(e), entry[e].parent = up, entry[e].name = n
          PROVE  e = root
      <3>1. CASE Live(e)
        BY <1>8, <2>1, <3>1 DEF Child
      <3>2. CASE ~Live(e)
        <4>1. PICK q \in Process : e \in tx[q].made
          BY <1>0, <2>1, <3>2 DEF Held, Live, Locks
        <4>2. CASE q = m
          <5>1. entry[e].path \in Seq(Name) /\ Len(entry[e].path) = Len(base) + 1
            BY <1>0, <1>4, <2>1, PathFacts
          <5>2. IsPrefix(entry[e].path, base)
            BY <1>1, <1>4, <4>1, <4>2
          <5>3. Len(entry[e].path) <= Len(base)
            BY <1>3, <5>1, <5>2, PrefixOrder
          <5> QED
            BY <1>9, <5>1, <5>3
        <4>3. CASE q # m
          BY <1>8, <2>1, <4>1, <4>3 DEF Clash
        <4> QED
          BY <4>2, <4>3
      <3> QED
        BY <3>1, <3>2
    <2>2. ASSUME NEW e \in Entry
          PROVE  /\ Held(e)' <=> Held(e)
                 /\ Live(e)' <=> Live(e) \/ e \in made
      BY <1>5, <1>11 DEF Held, Live
    <2>3. StatusKept
      <3>1. ASSUME NEW e \in Entry, e \in made, entry[e].parent # Root
            PROVE  entry'[entry[e].parent].status = "live"
        <4>1. PICK v : v = entry[e].parent
          OBVIOUS
        <4>2. v \in made \/ (v \in Directory /\ Live(v))
          BY <1>4, <3>1, <4>1
        <4>3. v \in Entry
          BY <1>5, <4>2 DEF Entry
        <4> QED
          BY <2>2, <4>1, <4>2, <4>3 DEF Live
      <3> QED
        BY <2>2, <3>1 DEF StatusKept
    <2>4. Moved(root, up, n, old, new)
      BY <1>10, <1>11 DEF Moved
    <2>5. up = Root \/ (up \in Directory /\ Held(up) /\ entry'[up].status = "live")
      <3>1. up # Root => up \in Directory /\ up \in Entry /\ (Live(up) \/ up \in made)
        BY <1>4 DEF Entry
      <3> QED
        BY <1>5, <2>2, <3>1 DEF Live, Held
    <2>6. Goes(root, up, n, old, base, new)
      BY <1>1, <1>3, <1>4, <1>6, <2>1, <2>5, Zenon DEF Goes
    <2> QED
      BY <1>0, <2>3, <2>4, <2>6, MoveStands
  <1>14. ASSUME NEW q \in Process \ {m}, NEW e \in tx[q].shared \cup tx[q].made
         PROVE  entry'[e] = entry[e]
    <2>1. e \in Entry /\ (e \in tx[q].shared => e \notin S /\ Live(e))
      BY <1>0, <1>8, <1>14 DEF Locks, Closed, Entry, Lockable
    <2>2. e \in tx[q].made => e \notin S /\ e \notin made
      BY <1>0, <1>1, <1>10, <1>14, <2>1 DEF Locks, Live
    <2>3. Live(e) => e \notin made
      BY <1>5 DEF Live
    <2> QED
      BY <1>11, <1>14, <2>1, <2>2, <2>3
  <1>15. Untouched(m)
    <2>1. \A f \in File : entry[f].status \in {"live", "deleted"} =>
                             entry'[f].status \in {"live", "deleted"}
      BY <1>11 DEF Entry
    <2> QED
      BY <1>0, <1>14, <2>1, LeavesOthers DEF Alone
  <1>16. ASSUME NEW e \in Entry
         PROVE  entry'[e].status = "pending" <=> \E q \in Process \ {m} : e \in tx[q].made
    <2>1. entry'[e].status = "pending" <=> entry[e].status = "pending" /\ e \notin made
      BY <1>11
    <2> QED
      BY <1>0, <1>1, <2>1 DEF Locks
  <1>z. m \in Process /\ Ends(m)
    BY <1>0
  <1> QED
    BY ONLY Distinct, TreeInv, <1>z, <1>12, <1>13, <1>15, <1>16, EndsKeep

-----------------------------------------------------------------------------
(* The invariant.                                                          *)

LEMMA PathSplits ==
    ASSUME NEW path \in Path
    PROVE  path = Append(Front(path), Last(path))
  <1>1. path \in Seq(Name) /\ Len(path) \in Nat \ {0} /\ Front(path) = SubSeq(path, 1, Len(path) - 1)
    BY PathIs
  <1>2. PICK i \in 0 .. Len(path) : i = Len(path) /\ i > 0
    <2>1. Len(path) \in 0 .. Len(path) /\ Len(path) > 0
      BY <1>1
    <2> QED
      BY <2>1
  <1>3. SubSeq(path, 1, i) = Append(SubSeq(path, 1, i - 1), path[i])
    BY <1>1, <1>2, PartOf
  <1>4. SubSeq(path, 1, Len(path)) = path
    BY <1>1
  <1> QED
    BY <1>1, <1>2, <1>3, <1>4 DEF Last

LEMMA TreeStarts ==
    ASSUME Distinct, Init
    PROVE  TreeInv
  <1>d. PICK D \in SUBSET Directory : \E place \in [D -> Path] :
           /\ IsInjective(place)
           /\ \A d \in D : Len(place[d]) > 1 => Front(place[d]) \in Range(place)
           /\ entry = [e \in Entry |->
                IF e \notin D THEN Unused
                ELSE [status   |-> "live",
                      parent   |-> IF Len(place[e]) = 1 THEN Root
                                   ELSE CHOOSE d \in D : place[d] = Front(place[e]),
                      name     |-> Last(place[e]),
                      path     |-> place[e],
                      shown    |-> place[e],
                      checksum |-> None]]
    BY DEF Init
  <1>1. PICK place \in [D -> Path] :
           /\ IsInjective(place)
           /\ \A d \in D : Len(place[d]) > 1 => Front(place[d]) \in Range(place)
           /\ entry = [e \in Entry |->
                IF e \notin D THEN Unused
                ELSE [status   |-> "live",
                      parent   |-> IF Len(place[e]) = 1 THEN Root
                                   ELSE CHOOSE d \in D : place[d] = Front(place[e]),
                      name     |-> Last(place[e]),
                      path     |-> place[e],
                      shown    |-> place[e],
                      checksum |-> None]]
    BY <1>d
  <1>2. Rows
    <2>1. ASSUME NEW e \in Entry
          PROVE  RowOK(entry[e])
      <3>1. CASE e \notin D
        BY <1>1, <3>1 DEF RowOK, RowField, Unused
      <3>2. CASE e \in D
        <4>1. PICK up, a, p :
                entry[e] = [status |-> "live", parent |-> up, name |-> a, path |-> p, shown |-> p,
                            checksum |-> None]
          BY <1>1, <3>2, Zenon
        <4> QED
          BY <4>1 DEF RowOK, RowField
      <3> QED
        BY <3>1, <3>2
    <2> QED
      BY <1>1, <2>1 DEF Rows
  <1>3. ASSUME NEW e \in Entry, e \notin D
        PROVE  entry[e].status = "unused"
    BY <1>1, <1>3 DEF Unused
  <1>4. ASSUME NEW e \in D, NEW up, up = entry[e].parent
        PROVE  /\ e \in Entry /\ entry[e].status = "live" /\ entry[e].path = place[e]
               /\ entry[e].shown = place[e] /\ entry[e].name = Last(place[e])
               /\ up = Root \/ up \in D
               /\ PathOf(up) = Front(place[e])
               /\ place[e] \in Path
    <2>1. e \in Entry /\ place[e] \in Path
      BY <1>1 DEF Entry
    <2>2. PICK v : v = IF Len(place[e]) = 1 THEN Root
                       ELSE CHOOSE d \in D : place[d] = Front(place[e])
      OBVIOUS
    <2>3. entry[e] = [status |-> "live", parent |-> v, name |-> Last(place[e]), path |-> place[e],
                      shown |-> place[e], checksum |-> None]
      BY <1>1, <2>1, <2>2, Zenon
    <2>4. /\ entry[e].status = "live" /\ entry[e].path = place[e] /\ entry[e].shown = place[e]
          /\ entry[e].name = Last(place[e]) /\ up = v
      BY <1>4, <2>3
    <2>5. CASE Len(place[e]) = 1
      <3>1. Len(Front(place[e])) = 0 /\ Front(place[e]) \in Seq(Name)
        BY <2>1, <2>5, PathIs
      <3>2. Front(place[e]) = <<>>
        BY <3>1
      <3> QED
        BY <2>1, <2>2, <2>4, <2>5, <3>2, PathOfRoot
    <2>6. CASE Len(place[e]) # 1
      <3>1. Len(place[e]) > 1
        <4>1. PICK k : k = Len(place[e]) /\ k \in Nat \ {0}
          BY <2>1, PathIs
        <4>2. k > 1
          BY <2>6, <4>1
        <4> QED
          BY <4>1, <4>2
      <3>2. \E d \in D : place[d] = Front(place[e])
        BY <1>1, <3>1 DEF Range
      <3>3. up \in D /\ place[up] = Front(place[e])
        BY <2>2, <2>4, <2>6, <3>2
      <3>4. up \in Entry /\ up # Root
        BY <3>3 DEF Entry, Distinct
      <3>5. entry[up].path = place[up]
        BY <1>1, <3>3, <3>4
      <3> QED
        BY <2>1, <2>4, <3>3, <3>4, <3>5 DEF PathOf
    <2> QED
      BY <2>5, <2>6
  <1>5. ASSUME NEW e \in Entry, Held(e)
        PROVE  e \in D
    BY <1>3, <1>5 DEF Held
  <1>6. Standing
    <2>1. ASSUME NEW e \in D
          PROVE  Seated(e) /\ entry[e].path = Append(PathOf(entry[e].parent), entry[e].name)
      <3>1. PICK up : up = entry[e].parent
        OBVIOUS
      <3>2. /\ entry[e].path = place[e]
            /\ entry[e].name = Last(place[e])
            /\ up = Root \/ up \in D
            /\ PathOf(up) = Front(place[e]) /\ place[e] \in Path
        BY <1>4, <3>1
      <3>3. PICK t, a : /\ t = Front(place[e]) /\ a = Last(place[e])
                        /\ t \in Seq(Name) /\ a \in Name /\ place[e] = Append(t, a)
        BY <3>2, PathIs, PathSplits, Zenon
      <3>4. up # Root => up \in Directory /\ entry[up].status = "live"
        BY <1>1, <1>4, <3>2
      <3> QED
        <4>1. /\ entry[e].path = Append(t, a)
              /\ entry[e].name = a /\ PathOf(up) = t
          BY <3>2, <3>3, Zenon
        <4> QED
          BY <3>1, <3>2, <3>3, <3>4, <4>1 DEF Seated, Held, Live
    <2>2. ASSUME NEW a \in D, NEW b \in D, entry[a].parent = entry[b].parent,
                 entry[a].name = entry[b].name
          PROVE  a = b
      <3>1. entry[a].path = entry[b].path
        BY <2>1, <2>2
      <3>2. place[a] = place[b]
        BY <1>4, <3>1
      <3> QED
        BY <1>1, <3>2 DEF IsInjective
    <2>3. \A e \in Entry : Held(e) => Seated(e)
      BY <1>5, <2>1
    <2>4. Unique
      BY <1>5, <2>2 DEF Unique
    <2> QED
      BY <2>3, <2>4 DEF Standing
  <1>7. \A p \in Process : tx[p] = NoTx
    BY DEF Init
  <1>8. Transactions
    BY <1>7, NoTxIs DEF Init, Transactions
  <1>9. \A e \in Entry : entry[e].status # "pending"
    BY <1>3, <1>4
  <1>10. Locks
    BY <1>7, <1>9, NoTxIs DEF Locks, Closed
  <1>11. ASSUME NEW u \in Uploader
         PROVE  Uploading(u)
    <2>1. tx[u] = NoTx
      BY <1>7 DEF Process
    <2> QED
      BY <2>1, NoTxIs DEF Uploading
  <1>12. ASSUME NEW m \in Mutator
         PROVE  Mutating(m)
    <2>1. tx[m] = NoTx
      BY <1>7 DEF Process
    <2> QED
      BY <2>1, NoTxIs DEF Mutating, Guarded
  <1> QED
    BY <1>2, <1>6, <1>8, <1>10, <1>11, <1>12 DEF TreeInv

LEMMA TreeKeeps ==
    ASSUME Distinct, TreeInv, [Next]_vars
    PROVE  crossed' \/ TreeInv'
  <1>1. CASE UNCHANGED vars
    <2>1. Rows' /\ Transactions'
      BY <1>1 DEF vars, TreeInv, Rows, Transactions
    <2>2. Standing'
      BY <1>1 DEF vars, TreeInv, Standing, Unique, Seated, Held, Live, PathOf
    <2>3. Locks'
      BY <1>1 DEF vars, TreeInv, Locks, Closed, Live
    <2>4. \A u \in Uploader : Uploading(u)'
      BY <1>1 DEF vars, TreeInv, Uploading
    <2>5. \A x \in Mutator : Mutating(x)'
      <3>1. ASSUME NEW x \in Mutator
            PROVE  /\ Aimed(x)' <=> Aimed(x)
                   /\ Guarded(x)' <=> Guarded(x)
        BY <1>1 DEF vars, Aimed, Guarded, Live, PathOf
      <3> QED
        BY <1>1, <3>1 DEF vars, TreeInv, Mutating, Live
    <2> QED
      BY <2>1, <2>2, <2>3, <2>4, <2>5 DEF TreeInv
  <1>2. ASSUME NEW u \in Uploader, NEW path \in Path, NEW ids \in Fresh(path),
               CreateDirectory(u, path, ids)
        PROVE  TreeInv'
    BY <1>2, CreateDirectoryKeeps
  <1>3. ASSUME NEW u \in Uploader, NEW path \in Path, NEW c, NEW strict,
               BeginUpload(u, path, c, strict)
        PROVE  TreeInv'
    BY <1>3, BeginUploadKeeps
  <1>4. ASSUME NEW u \in Uploader, NEW ids \in Fresh(Front(tx[u].path)), MakeParents(u, ids)
        PROVE  TreeInv'
    BY <1>4, MakeParentsKeeps
  <1>5. ASSUME NEW u \in Uploader, NEW f \in File, NEW c, NEW strict, BeginUpdate(u, f, c, strict)
        PROVE  TreeInv'
    BY <1>5, BeginUpdateKeeps
  <1>6. ASSUME NEW u \in Uploader, NEW f \in File, InsertFile(u, f)
        PROVE  TreeInv'
    BY <1>6, InsertFileKeeps
  <1>7. ASSUME NEW u \in Uploader, LockChecksum(u) \/ CommitFile(u)
        PROVE  TreeInv'
    BY <1>7, LockChecksumKeeps, CommitFileKeeps
  <1>8. ASSUME NEW m \in Mutator, NEW path \in Path, BeginDelete(m, path)
        PROVE  TreeInv'
    BY <1>8, BeginDeleteKeeps
  <1>9. ASSUME NEW m \in Mutator, NEW path \in Path, NEW n \in Name, BeginRename(m, path, n)
        PROVE  TreeInv'
    BY <1>9, BeginRenameKeeps
  <1>10. ASSUME NEW m \in Mutator, NEW path \in Path, NEW target \in Path,
                BeginMove(m, path, target)
         PROVE  TreeInv'
    BY <1>10, BeginMoveKeeps
  <1>11. ASSUME NEW m \in Mutator, NEW ids \in Fresh(Front(tx[m].target)), Aim(m, ids)
         PROVE  TreeInv'
    BY <1>11, AimKeeps
  <1>12. ASSUME NEW m \in Mutator, Lock(m)
         PROVE  TreeInv'
    BY <1>12, LockKeeps
  <1>13. ASSUME NEW m \in Mutator, ApplyDelete(m) \/ ApplyRename(m) \/ ApplyMove(m)
         PROVE  crossed' \/ TreeInv'
    <2>1. crossed' \/ Alone(m)
      BY <1>13 DEF ApplyDelete, ApplyRename, ApplyMove, Applied, Alone
    <2> QED
      BY <1>13, <2>1, ApplyDeleteKeeps, ApplyRenameKeeps, ApplyMoveKeeps
  <1>14. ASSUME NEW p \in Process, Fail(p)
         PROVE  TreeInv'
    BY <1>14, FailKeeps
  <1> QED
    BY <1>1, <1>2, <1>3, <1>4, <1>5, <1>6, <1>7, <1>8, <1>9, <1>10, <1>11, <1>12, <1>13, <1>14, Zenon
       DEF Next

-----------------------------------------------------------------------------
(* Where the entries are shown.                                            *)

\* An entry is shown where it is, and so is the directory that a move has read.
ShownRows  == \A e \in Entry : Held(e) => entry[e].shown = entry[e].path
ShownBases == \A m \in Mutator :
                 tx[m].at = "apply" /\ tx[m].op = "move" => tx[m].base[2] = tx[m].base[1]
Shows      == strayed \/ (ShownRows /\ ShownBases)

\* A step of p after which p has no directory read.
LEMMA BasesKept ==
    ASSUME TreeInv, ShownBases, NEW p \in Process, NEW y, tx' = [tx EXCEPT ![p] = y],
           p \in Mutator => ~(y.at = "apply" /\ y.op = "move")
    PROVE  ShownBases'
  <1>1. \A q \in Process : tx'[q] = IF q = p THEN y ELSE tx[q]
    BY DEF TreeInv, Transactions
  <1> QED
    BY <1>1 DEF ShownBases, Process

LEMMA BasesEnd ==
    ASSUME TreeInv, ShownBases, NEW p \in Process, Ends(p)
    PROVE  ShownBases'
  <1>1. PICK y : y = NoTx
    OBVIOUS
  <1>2. tx' = [tx EXCEPT ![p] = y] /\ y.at = "idle"
    BY <1>1, NoTxIs DEF Ends
  <1> QED
    BY <1>2, BasesKept

LEMMA ShownOfIs ==
    ASSUME Distinct, ShownRows, NEW e, e = Root \/ (e \in Entry /\ Held(e))
    PROVE  ShownOf(e) = PathOf(e)
  BY DEF ShownRows, ShownOf, PathOf, Distinct

\* What the names that are found on a path lead to is there.
LEMMA WalkHeld ==
    ASSUME Distinct, Standing, NEW path \in Seq(Name), NEW k \in 0 .. Len(path),
           Walk(path)[k] # None
    PROVE  Walk(path)[k] = Root \/ (Walk(path)[k] \in Entry /\ Held(Walk(path)[k]))
  BY WalkPath DEF Live, Held

LEMMA GrownShown ==
    ASSUME Distinct, Standing, ShownRows, NEW path \in Seq(Name), NEW ids \in Fresh(path),
           NEW status, entry' = Grown(path, ids, status)
    PROVE  ShownRows'
  <1>1. PICK k \in 0 .. Len(path) : /\ Missing(path) = k + 1 .. Len(path)
                                    /\ Len(path) - Cardinality(Missing(path)) = k
                                    /\ Walk(path)[k] # None
    BY MissingIs
  <1>2. PICK known : known = Walk(path)[k]
    OBVIOUS
  <1>3. known = Node(path, ids, Len(path) - Cardinality(Missing(path)))
    <2>1. k \in Nat /\ k \notin k + 1 .. Len(path) /\ Walk(path)[0] = Root
      BY WalkIs
    <2> QED
      BY <1>1, <1>2, <2>1 DEF Node
  <1>4. ShownOf(known) = PathOf(known)
    BY <1>1, <1>2, WalkHeld, ShownOfIs
  <1>5. ASSUME NEW e \in Entry, e \notin Range(ids)
        PROVE  entry'[e] = entry[e]
    BY <1>5 DEF Grown
  <1>6. ASSUME NEW e \in Entry, e \in Range(ids)
        PROVE  entry'[e].shown = entry'[e].path
    <2>1. PICK i : i = CHOOSE j \in Missing(path) : ids[j] = e
      OBVIOUS
    <2>2. PICK up, n, q : /\ up = Node(path, ids, i - 1) /\ n = path[i]
                          /\ q = PathOf(known)
                                   \o SubSeq(path, Len(path) - Cardinality(Missing(path)) + 1, i)
      OBVIOUS
    <2>3. entry'[e] = [Unused EXCEPT !.status = status, !.parent = up, !.name = n, !.path = q,
                         !.shown = q]
      BY <1>3, <1>4, <1>6, <2>1, <2>2, Zenon DEF Grown
    <2>4. PICK a : a = [Unused EXCEPT !.status = status, !.parent = up, !.name = n]
      OBVIOUS
    <2>5. a = [status |-> status, parent |-> up, name |-> n, path |-> <<>>, shown |-> <<>>,
               checksum |-> None]
      BY <2>4 DEF Unused
    <2>6. PICK b : b = [a EXCEPT !.path = q, !.shown = q]
      OBVIOUS
    <2>7. b.path = q /\ b.shown = q
      BY <2>5, <2>6
    <2>8. entry'[e] = b
      BY <2>3, <2>4, <2>6
    <2> QED
      BY <2>7, <2>8
  <1> QED
    BY <1>5, <1>6 DEF ShownRows, Held

LEMMA InsertShown ==
    ASSUME Distinct, TreeInv, ShownRows, NEW u \in Uploader, NEW f \in File, InsertFile(u, f)
    PROVE  ShownRows'
  <1>1. PICK path, parent : path = tx[u].path /\ parent = Walk(path)[Len(path) - 1]
    OBVIOUS
  <1>2. path \in Seq(Name) /\ Len(path) \in Nat \ {0} /\ Standing /\ Rows
    BY <1>1, PathIs DEF TreeInv, Uploading, InsertFile
  <1>3. parent # None
    BY <1>1, Zenon DEF InsertFile, Distinct, Entry
  <1>4. ShownOf(parent) = PathOf(parent)
    <2>0. Len(path) - 1 \in 0 .. Len(path)
      BY <1>2
    <2>1. PICK k \in 0 .. Len(path) : k = Len(path) - 1
      BY <2>0
    <2>2. parent = Walk(path)[k]
      BY <1>1, <2>1
    <2>3. parent = Root \/ (parent \in Entry /\ Held(parent))
      BY <1>2, <1>3, <2>2, WalkHeld
    <2> QED
      BY <2>3, ShownOfIs
  <1>5. PICK q, r : /\ q = PathOf(parent) \o <<Last(path)>>
                    /\ r = [status |-> "pending", parent |-> parent, name |-> Last(path),
                            path |-> q, shown |-> q, checksum |-> None]
    OBVIOUS
  <1>6. entry' = [entry EXCEPT ![f] = r]
    BY <1>1, <1>4, <1>5, Zenon DEF InsertFile
  <1>7. r.path = q /\ r.shown = q
    BY <1>5
  <1> QED
    BY <1>2, <1>6, <1>7 DEF ShownRows, Held, Rows

LEMMA CommitShown ==
    ASSUME Distinct, TreeInv, ShownRows, NEW u \in Uploader, CommitFile(u)
    PROVE  ShownRows'
  <1>1. PICK r, c : r = tx[u].root /\ c = tx[u].checksum
    OBVIOUS
  <1>2. /\ r \in Entry /\ Rows /\ entry[r].status \in {"live", "deleted", "pending"}
    BY <1>1 DEF TreeInv, Uploading, Locks, CommitFile, Entry, Process
  <1>3. PICK x, s : x = entry[r] /\ s = IF x.status = "pending" THEN "live" ELSE x.status
    OBVIOUS
  <1>4. PICK z : z = [x EXCEPT !.checksum = c, !.status = s]
    OBVIOUS
  <1>5. RowOK(x)
    BY <1>2, <1>3 DEF Rows
  <1>6. z.path = x.path /\ z.shown = x.shown /\ z.status = s
    BY <1>4, <1>5 DEF RowOK, RowField
  <1>7. entry' = [entry EXCEPT ![r] = z]
    BY <1>1, <1>2, <1>3, <1>4, <1>5 DEF CommitFile, Rows, RowOK, RowField
  <1>8. entry'[r] = z /\ \A e \in Entry : e # r => entry'[e] = entry[e]
    BY <1>2, <1>7 DEF Rows
  <1>9. s \in {"live", "pending"} => x.status \in {"live", "pending"}
    BY <1>3
  <1> QED
    BY <1>2, <1>3, <1>6, <1>8, <1>9 DEF ShownRows, Held

LEMMA DeleteShown ==
    ASSUME TreeInv, ShownRows, NEW m \in Mutator, ApplyDelete(m)
    PROVE  ShownRows'
  <1>1. PICK gone : entry' = [e \in Entry |->
           IF e \in gone THEN [entry[e] EXCEPT !.status = "deleted"] ELSE entry[e]]
    BY DEF ApplyDelete
  <1>2. ASSUME NEW e \in Entry, e \in gone
        PROVE  entry'[e].status = "deleted"
    <2>1. PICK x : x = entry[e] /\ RowOK(x)
      BY DEF TreeInv, Rows
    <2>2. entry'[e] = [x EXCEPT !.status = "deleted"]
      BY <1>1, <1>2, <2>1
    <2> QED
      BY <2>1, <2>2 DEF RowOK, RowField
  <1> QED
    BY <1>1, <1>2 DEF ShownRows, Held

\* A renaming that does not stray exchanges both paths of the same entries, and alike.
LEMMA RenameShown ==
    ASSUME Distinct, TreeInv, ShownRows, NEW m \in Mutator, ApplyRename(m), ~strayed'
    PROVE  ShownRows'
  <1>1. PICK root, n, old, new, S :
           /\ root = tx[m].root /\ n = tx[m].target[1]
           /\ old = entry[root].path /\ new = Front(old) \o <<n>> /\ S = Subtree(root)
    OBVIOUS
  <1>2. root \in Entry /\ Live(root) /\ Rows
    BY <1>1 DEF TreeInv, Mutating, ApplyRename
  <1>3. entry[root].shown = old
    BY <1>1, <1>2 DEF ShownRows, Live, Held
  <1>4. {root} \cup Matched(old) = S
    BY <1>1, <1>2, <1>3, Zenon DEF ApplyRename
  <1>5. entry' = [e \in Entry |->
           [entry[e] EXCEPT
              !.name  = IF e = root THEN n ELSE @,
              !.path  = IF e \in S THEN Rebased(@, old, new) ELSE @,
              !.shown = IF e \in S THEN Rebased(@, old, new) ELSE @]]
    BY <1>1, <1>2, <1>3, <1>4, Zenon DEF ApplyRename
  <1>6. ASSUME NEW e \in Entry, Held(e)'
        PROVE  entry'[e].shown = entry'[e].path
    <2>1. PICK x : x = entry[e] /\ RowOK(x)
      BY <1>2 DEF Rows
    <2>2. PICK a, b, c : /\ a = (IF e = root THEN n ELSE x.name)
                         /\ b = (IF e \in S THEN Rebased(x.path, old, new) ELSE x.path)
                         /\ c = (IF e \in S THEN Rebased(x.shown, old, new) ELSE x.shown)
      OBVIOUS
    <2>3. entry'[e] = [x EXCEPT !.name = a, !.path = b, !.shown = c]
      BY <1>5, <2>1, <2>2, Zenon
    <2>4. PICK z : z = [x EXCEPT !.name = a, !.path = b, !.shown = c]
      OBVIOUS
    <2>5. z.status = x.status /\ z.path = b /\ z.shown = c
      BY <2>1, <2>4 DEF RowOK, RowField
    <2>6. x.shown = x.path
      BY <1>6, <2>1, <2>3, <2>4, <2>5 DEF ShownRows, Held
    <2> QED
      BY <2>2, <2>3, <2>4, <2>5, <2>6
  <1> QED
    BY <1>6 DEF ShownRows

\* So does a move, to the path that the row of the directory shows.
LEMMA MoveShown ==
    ASSUME Distinct, TreeInv, ShownRows, ShownBases, NEW m \in Mutator, ApplyMove(m)
    PROVE  ShownRows'
  <1>1. PICK root, n, old, new, seen, shows, up, S, made, grown :
           /\ root = tx[m].root /\ n = Last(tx[m].target)
           /\ old = entry[root].path /\ new = tx[m].base[1] \o <<n>> /\ up = tx[m].parent
           /\ seen = entry[root].shown /\ shows = tx[m].base[2] \o <<n>>
           /\ S = Subtree(root) /\ made = tx[m].made
           /\ grown = [e \in Entry |->
                         IF e \in made THEN [entry[e] EXCEPT !.status = "live"] ELSE entry[e]]
    OBVIOUS
  <1>2. /\ root \in Entry /\ Live(root) /\ Rows /\ tx[m].at = "apply" /\ tx[m].op = "move"
        /\ \A e \in made : entry[e].status = "pending"
    BY <1>1 DEF TreeInv, Mutating, ApplyMove, Locks, Process
  <1>3. seen = old /\ shows = new
    BY <1>1, <1>2 DEF ShownRows, ShownBases, Live, Held
  <1>4. entry' = [e \in Entry |->
           IF e \notin S THEN grown[e]
           ELSE [grown[e] EXCEPT
              !.name   = IF e = root THEN n ELSE @,
              !.parent = IF e = root THEN up ELSE @,
              !.path   = Rebased(@, old, new),
              !.shown  = Rebased(@, seen, shows)]]
    <2>1. Live(tx[m].root)
      BY <1>1, <1>2
    <2>2. entry' = [e \in Entry |->
             IF e \notin Subtree(tx[m].root)
             THEN [d \in Entry |->
                     IF d \in tx[m].made THEN [entry[d] EXCEPT !.status = "live"] ELSE entry[d]][e]
             ELSE [[d \in Entry |->
                      IF d \in tx[m].made THEN [entry[d] EXCEPT !.status = "live"] ELSE entry[d]][e]
                   EXCEPT
                !.name   = IF e = tx[m].root THEN Last(tx[m].target) ELSE @,
                !.parent = IF e = tx[m].root THEN tx[m].parent ELSE @,
                !.path   = Rebased(@, entry[tx[m].root].path,
                                   tx[m].base[1] \o <<Last(tx[m].target)>>),
                !.shown  = Rebased(@, entry[tx[m].root].shown,
                                   tx[m].base[2] \o <<Last(tx[m].target)>>)]]
      BY <2>1, ZenonT(60) DEF ApplyMove
    <2> QED
      BY <1>1, <2>2, Zenon
  <1>5. ASSUME NEW e \in Entry
        PROVE  /\ RowOK(grown[e]) /\ grown[e].path = entry[e].path
               /\ grown[e].shown = entry[e].shown
               /\ grown[e].status \in {"live", "pending"} => Held(e)
    <2>1. PICK x : x = entry[e] /\ RowOK(x)
      BY <1>2 DEF Rows
    <2>2. CASE e \in made
      <3>1. PICK z : z = [x EXCEPT !.status = "live"] /\ z = grown[e]
        BY <1>1, <2>1, <2>2
      <3>2. RowOK(z) /\ z.path = x.path /\ z.shown = x.shown
        BY <2>1, <3>1 DEF RowOK, RowField
      <3> QED
        BY <1>2, <2>1, <2>2, <3>1, <3>2 DEF Held
    <2>3. CASE e \notin made
      BY <1>1, <2>1, <2>3 DEF Held
    <2> QED
      BY <2>2, <2>3
  <1>6. ASSUME NEW e \in Entry, Held(e)'
        PROVE  entry'[e].shown = entry'[e].path
    <2>1. PICK x : /\ x = grown[e] /\ RowOK(x) /\ x.path = entry[e].path
                   /\ x.shown = entry[e].shown
                   /\ x.status \in {"live", "pending"} => Held(e)
      BY <1>5
    <2>2. CASE e \notin S
      BY <1>4, <1>6, <2>1, <2>2 DEF ShownRows, Held
    <2>3. CASE e \in S
      <3>1. PICK a, b, c, d : /\ a = (IF e = root THEN n ELSE x.name)
                              /\ b = (IF e = root THEN up ELSE x.parent)
                              /\ c = Rebased(x.path, old, new)
                              /\ d = Rebased(x.shown, seen, shows)
        OBVIOUS
      <3>2. entry'[e] = [x EXCEPT !.name = a, !.parent = b, !.path = c, !.shown = d]
        BY <1>4, <2>1, <2>3, <3>1, Zenon
      <3>3. PICK w, z : /\ w = [x EXCEPT !.name = a, !.parent = b]
                        /\ z = [w EXCEPT !.path = c, !.shown = d]
        OBVIOUS
      <3>4. RowOK(w) /\ w.status = x.status
        BY <2>1, <3>3 DEF RowOK, RowField
      <3>5. z.status = x.status /\ z.path = c /\ z.shown = d
        BY <3>3, <3>4 DEF RowOK, RowField
      <3>6. entry'[e] = z
        BY <2>1, <3>2, <3>3, <3>4, <3>5 DEF RowOK, RowField
      <3>7. x.shown = x.path
        BY <1>6, <2>1, <3>5, <3>6 DEF ShownRows, Held
      <3> QED
        BY <1>3, <3>1, <3>5, <3>6, <3>7
    <2> QED
      BY <2>2, <2>3
  <1> QED
    BY <1>6 DEF ShownRows

\* The directory that a move goes to is read when it is there, as found or as made.
LEMMA AimShown ==
    ASSUME Distinct, TreeInv, ShownRows, ShownBases, NEW m \in Mutator,
           NEW ids \in Fresh(Front(tx[m].target)), Aim(m, ids)
    PROVE  ShownRows' /\ ShownBases'
  <1>0. /\ Mutating(m) /\ tx[m].at = "aim" /\ Standing /\ m \in Process /\ TxOK(tx[m])
        /\ TreeInv'
    BY AimKeeps, TxIs DEF TreeInv, Aim, Process
  <1>1. PICK path : path = Front(tx[m].target) /\ path \in Seq(Name) /\ ids \in Fresh(path)
    BY <1>0, PathIs DEF Mutating
  <1>2. PICK parent, grown : /\ parent = Node(path, ids, Len(path))
                             /\ grown = Grown(path, ids, "pending") /\ entry' = grown
    BY <1>1, Zenon DEF Aim
  <1>3. ShownRows'
    BY <1>0, <1>1, <1>2, GrownShown
  <1>4. PICK base : base = IF parent = Root THEN <<<<>>, <<>>>>
                           ELSE <<grown[parent].path, grown[parent].shown>>
    OBVIOUS
  <1>5. PICK y : y = [tx[m] EXCEPT !.at = "apply", !.parent = parent, !.made = Range(ids),
                                   !.shared = Ancestors(path), !.base = base]
    OBVIOUS
  <1>6. tx' = [tx EXCEPT ![m].at = "apply", ![m].parent = parent, ![m].made = Range(ids),
                         ![m].shared = Ancestors(path), ![m].base = base]
    BY <1>1, <1>2, <1>4, Zenon DEF Aim
  <1>7. tx' = [tx EXCEPT ![m] = y]
    BY <1>0, <1>5, <1>6 DEF TreeInv, Transactions
  <1>8. tx'[m] = y /\ \A q \in Process : q # m => tx'[q] = tx[q]
    BY <1>0, <1>7 DEF TreeInv, Transactions
  <1>9. y.at = "apply" /\ y.op = tx[m].op /\ y.parent = parent /\ y.made = Range(ids) /\ y.base = base
    BY <1>0, <1>5 DEF TxOK, TxField
  <1>10. tx[m].op = "move"
    BY <1>0 DEF Mutating
  <1>11. parent = Root \/ (parent \in Entry /\ Held(parent)')
    <2>1. Aimed(m)' /\ Locks'
      BY <1>0, <1>8, <1>9, <1>10 DEF TreeInv, Mutating
    <2>2. parent = Root \/ (parent \in Directory /\ (Live(parent)' \/ parent \in Range(ids)))
      BY <1>8, <1>9, <2>1 DEF Aimed
    <2>3. \A e \in Range(ids) : e \in Entry => entry'[e].status = "pending"
      BY <1>0, <1>8, <1>9, <2>1 DEF Locks
    <2> QED
      BY <2>2, <2>3 DEF Live, Held, Entry
  <1>12. base[2] = base[1]
    <2>1. CASE parent = Root
      BY <1>4, <2>1
    <2>2. CASE parent # Root
      BY <1>2, <1>3, <1>4, <1>11, <2>2 DEF ShownRows
    <2> QED
      BY <2>1, <2>2
  <1>13. ShownBases'
    BY <1>8, <1>9, <1>12 DEF ShownBases, Process
  <1> QED
    BY <1>3, <1>13

\* What happened is not forgotten.
LEMMA HistoryStays ==
    ASSUME [Next]_vars
    PROVE  (strayed => strayed') /\ (crossed => crossed')
  <1>1. CASE UNCHANGED vars
    BY <1>1 DEF vars
  <1>2. ASSUME UNCHANGED history
        PROVE  (strayed => strayed') /\ (crossed => crossed')
    BY <1>2 DEF history
  <1>3. ASSUME NEW m \in Mutator, Applied(m), UNCHANGED strayed \/ ApplyRename(m)
        PROVE  (strayed => strayed') /\ (crossed => crossed')
    BY <1>3 DEF Applied, ApplyRename
  <1>4. ASSUME NEW u \in Uploader, NEW path, NEW ids, CreateDirectory(u, path, ids)
        PROVE  UNCHANGED history
    BY <1>4 DEF CreateDirectory, history
  <1>5. ASSUME NEW u \in Uploader, NEW path, NEW c, NEW strict, BeginUpload(u, path, c, strict)
        PROVE  UNCHANGED history
    BY <1>5 DEF BeginUpload, history
  <1>6. ASSUME NEW u \in Uploader, NEW ids, MakeParents(u, ids)
        PROVE  UNCHANGED history
    BY <1>6 DEF MakeParents, history
  <1>7. ASSUME NEW u \in Uploader, NEW f, NEW c, NEW strict, BeginUpdate(u, f, c, strict)
        PROVE  UNCHANGED history
    BY <1>7 DEF BeginUpdate, history
  <1>8. ASSUME NEW u \in Uploader, NEW f, InsertFile(u, f)
        PROVE  UNCHANGED history
    BY <1>8 DEF InsertFile, history
  <1>9. ASSUME NEW u \in Uploader, LockChecksum(u) \/ CommitFile(u)
        PROVE  UNCHANGED history
    BY <1>9 DEF LockChecksum, CommitFile, history
  <1>10. ASSUME NEW m \in Mutator, NEW path, BeginDelete(m, path)
         PROVE  UNCHANGED history
    BY <1>10 DEF BeginDelete, Begin, history
  <1>11. ASSUME NEW m \in Mutator, NEW path, NEW n, BeginRename(m, path, n)
         PROVE  UNCHANGED history
    BY <1>11 DEF BeginRename, Begin, history
  <1>12. ASSUME NEW m \in Mutator, NEW path, NEW target, BeginMove(m, path, target)
         PROVE  UNCHANGED history
    BY <1>12 DEF BeginMove, Begin, history
  <1>13. ASSUME NEW m \in Mutator, NEW ids, Aim(m, ids)
         PROVE  UNCHANGED history
    BY <1>13 DEF Aim, history
  <1>14. ASSUME NEW m \in Mutator, Lock(m)
         PROVE  UNCHANGED history
    BY <1>14 DEF Lock, history
  <1>15. ASSUME NEW m \in Mutator, ApplyDelete(m) \/ ApplyRename(m) \/ ApplyMove(m)
         PROVE  Applied(m) /\ (UNCHANGED strayed \/ ApplyRename(m))
    BY <1>15 DEF ApplyDelete, ApplyRename, ApplyMove
  <1>16. ASSUME NEW p \in Process, Fail(p)
         PROVE  UNCHANGED history
    BY <1>16 DEF Fail, history
  <1> QED
    BY <1>1, <1>2, <1>3, <1>4, <1>5, <1>6, <1>7, <1>8, <1>9, <1>10, <1>11, <1>12, <1>13, <1>14,
       <1>15, <1>16, Zenon DEF Next

LEMMA ShowsKeeps ==
    ASSUME Distinct, TreeInv, Shows, [Next]_vars
    PROVE  Shows'
  <1>1. strayed => strayed'
    BY HistoryStays
  <1> SUFFICES ASSUME ~strayed'
               PROVE  ShownRows' /\ ShownBases'
    BY DEF Shows
  <1>2. ShownRows /\ ShownBases /\ Standing
    BY <1>1 DEF Shows, TreeInv
  <1>3. ASSUME entry' = entry
        PROVE  ShownRows'
    BY <1>2, <1>3 DEF ShownRows, Held
  <1>4. ASSUME tx' = tx
        PROVE  ShownBases'
    BY <1>2, <1>4 DEF ShownBases
  <1>5. ASSUME NEW u \in Uploader, NEW y, tx' = [tx EXCEPT ![u] = y]
        PROVE  ShownBases'
    BY <1>2, <1>5, BasesKept DEF Process, Distinct
  <1>6. CASE UNCHANGED vars
    BY <1>3, <1>4, <1>6 DEF vars
  <1>7. ASSUME NEW u \in Uploader, NEW path \in Path, NEW ids \in Fresh(path),
               CreateDirectory(u, path, ids)
        PROVE  ShownRows' /\ ShownBases'
    <2>1. path \in Seq(Name) /\ entry' = Grown(path, ids, "live") /\ tx' = tx
      BY <1>7, PathIs DEF CreateDirectory
    <2> QED
      BY <1>2, <1>4, <2>1, GrownShown
  <1>8. ASSUME NEW u \in Uploader, NEW path \in Path, NEW c, NEW strict,
               BeginUpload(u, path, c, strict)
        PROVE  ShownRows' /\ ShownBases'
    <2>1. entry' = entry /\ \E y : tx' = [tx EXCEPT ![u] = y]
      BY <1>8 DEF BeginUpload
    <2> QED
      BY <1>3, <1>5, <2>1
  <1>9. ASSUME NEW u \in Uploader, NEW ids \in Fresh(Front(tx[u].path)), MakeParents(u, ids)
        PROVE  ShownRows' /\ ShownBases'
    <2>1. PICK path : path = Front(tx[u].path) /\ path \in Seq(Name) /\ ids \in Fresh(path)
      BY <1>9, PathIs DEF TreeInv, Uploading, MakeParents
    <2>2. entry' = Grown(path, ids, "live") /\ tx' = [tx EXCEPT ![u].at = "check"]
      BY <1>9, <2>1 DEF MakeParents
    <2>3. ShownBases'
      BY <1>5, <2>2
    <2> QED
      BY <1>2, <2>1, <2>2, <2>3, GrownShown
  <1>10. ASSUME NEW u \in Uploader, NEW f \in File, NEW c, NEW strict, BeginUpdate(u, f, c, strict)
         PROVE  ShownRows' /\ ShownBases'
    <2>1. entry' = entry /\ \E y : tx' = [tx EXCEPT ![u] = y]
      BY <1>10 DEF BeginUpdate
    <2> QED
      BY <1>3, <1>5, <2>1
  <1>11. ASSUME NEW u \in Uploader, NEW f \in File, InsertFile(u, f)
         PROVE  ShownRows' /\ ShownBases'
    <2>1. PICK y : tx' = [tx EXCEPT ![u] = y]
      <3>1. u \in Process
        BY DEF Process
      <3>2. PICK a, b, c, d : tx' = [tx EXCEPT ![u].at = a, ![u].root = b, ![u].made = c, ![u].shared = d]
        BY <1>11 DEF InsertFile
      <3>3. tx' = [tx EXCEPT ![u] = [tx[u] EXCEPT !.at = a, !.root = b, !.made = c, !.shared = d]]
        BY <3>1, <3>2 DEF TreeInv, Transactions
      <3> QED
        BY <3>3
    <2> QED
      BY <1>2, <1>5, <1>11, <2>1, InsertShown
  <1>12. ASSUME NEW u \in Uploader, LockChecksum(u)
         PROVE  ShownRows' /\ ShownBases'
    <2>1. entry' = entry /\ \E v : tx' = [tx EXCEPT ![u].at = v]
      BY <1>12 DEF LockChecksum
    <2> QED
      BY <1>3, <1>5, <2>1
  <1>13. ASSUME NEW u \in Uploader, CommitFile(u)
         PROVE  ShownRows' /\ ShownBases'
    BY <1>2, <1>13, CommitShown, BasesEnd DEF CommitFile, Process
  <1>14. ASSUME NEW m \in Mutator, NEW op, NEW path, NEW target, NEW at,
                Begin(m, op, path, target, at), at = "apply" => op # "move"
         PROVE  ShownRows' /\ ShownBases'
    <2>1. PICK y : /\ y = [NoTx EXCEPT !.at = at, !.op = op, !.path = path, !.target = target,
                                       !.root = At(path), !.parent = entry[At(path)].parent]
                   /\ tx' = [tx EXCEPT ![m] = y] /\ entry' = entry
      BY <1>14, Zenon DEF Begin
    <2>2. y.at = at /\ y.op = op
      BY <2>1 DEF NoTx
    <2> QED
      BY <1>2, <1>3, <1>14, <2>1, <2>2, BasesKept DEF Process
  <1>15. ASSUME NEW m \in Mutator, NEW path \in Path, BeginDelete(m, path)
         PROVE  ShownRows' /\ ShownBases'
    BY <1>14, <1>15 DEF BeginDelete
  <1>16. ASSUME NEW m \in Mutator, NEW path \in Path, NEW n \in Name, BeginRename(m, path, n)
         PROVE  ShownRows' /\ ShownBases'
    BY <1>14, <1>16 DEF BeginRename
  <1>17. ASSUME NEW m \in Mutator, NEW path \in Path, NEW target \in Path,
                BeginMove(m, path, target)
         PROVE  ShownRows' /\ ShownBases'
    BY <1>14, <1>17 DEF BeginMove
  <1>18. ASSUME NEW m \in Mutator, NEW ids \in Fresh(Front(tx[m].target)), Aim(m, ids)
         PROVE  ShownRows' /\ ShownBases'
    BY <1>2, <1>18, AimShown
  <1>19. ASSUME NEW m \in Mutator, Lock(m)
         PROVE  ShownRows' /\ ShownBases'
    <2>1. PICK v, S : /\ v = (IF tx[m].op = "move" THEN "aim" ELSE "apply")
                      /\ tx' = [tx EXCEPT ![m].locked = S, ![m].at = v] /\ entry' = entry
      BY <1>19 DEF Lock
    <2>2. m \in Process /\ TxOK(tx[m])
      BY TxIs DEF Process
    <2>3. PICK y : y = [tx[m] EXCEPT !.locked = S, !.at = v]
      OBVIOUS
    <2>4. tx' = [tx EXCEPT ![m] = y] /\ y.at = v /\ y.op = tx[m].op
      BY <2>1, <2>2, <2>3 DEF TreeInv, Transactions, TxOK, TxField
    <2> QED
      BY <1>2, <1>3, <2>1, <2>2, <2>4, BasesKept
  <1>20. ASSUME NEW m \in Mutator, ApplyDelete(m) \/ ApplyRename(m) \/ ApplyMove(m)
         PROVE  ShownRows' /\ ShownBases'
    <2>1. ShownBases'
      BY <1>2, <1>20, BasesEnd DEF ApplyDelete, ApplyRename, ApplyMove, Process
    <2> QED
      BY <1>2, <1>20, <2>1, DeleteShown, RenameShown, MoveShown
  <1>21. ASSUME NEW p \in Process, Fail(p)
         PROVE  ShownRows' /\ ShownBases'
    <2>1. ShownRows'
      BY <1>2, <1>21 DEF Fail, ShownRows, Held, Unused
    <2> QED
      BY <1>2, <1>21, <2>1, BasesEnd DEF Fail
  <1> QED
    BY <1>6, <1>7, <1>8, <1>9, <1>10, <1>11, <1>12, <1>13, <1>15, <1>16, <1>17, <1>18, <1>19, <1>20,
       <1>21, Zenon DEF Next

-----------------------------------------------------------------------------
(* The theorem.                                                            *)

\* As long as no two mutations cross.
Placed == crossed \/ (TreeInv /\ Shows)

LEMMA PlacedStarts ==
    ASSUME Distinct, Init
    PROVE  Placed
  <1>1. \A e \in Entry : Held(e) => entry[e].shown = entry[e].path
    <2>1. PICK D \in SUBSET Directory : \E place \in [D -> Path] :
             entry = [e \in Entry |->
                IF e \notin D THEN Unused
                ELSE [status   |-> "live",
                      parent   |-> IF Len(place[e]) = 1 THEN Root
                                   ELSE CHOOSE d \in D : place[d] = Front(place[e]),
                      name     |-> Last(place[e]),
                      path     |-> place[e],
                      shown    |-> place[e],
                      checksum |-> None]]
      BY DEF Init
    <2> QED
      BY <2>1 DEF Held, Unused
  <1>2. \A m \in Mutator : tx[m] = NoTx
    BY DEF Init, Process
  <1>3. Shows
    BY <1>1, <1>2, NoTxIs DEF Shows, ShownRows, ShownBases
  <1> QED
    BY <1>3, TreeStarts DEF Placed

LEMMA PlacedKeeps ==
    ASSUME Distinct, Placed, [Next]_vars
    PROVE  Placed'
  BY HistoryStays, TreeKeeps, ShowsKeeps DEF Placed

LEMMA PlacedIsSound ==
    ASSUME Distinct, Placed
    PROVE  Sound
  <1> SUFFICES ASSUME TreeInv, Shows, NEW e \in Entry, Live(e)
               PROVE  InPlace(e)
    BY DEF Sound, Placed
  <1>1. At(entry[e].path) = e
    BY StandingIsFound DEF TreeInv
  <1> QED
    BY <1>1 DEF InPlace, Shows, ShownRows, Live, Held

\* Everything that is live is found under the path its row carries, as long as no deletion,
\* renaming or move was applied while another was under way, and shown there, as long as no
\* renaming strayed: for any number of transactions of either kind and any matching of names.
THEOREM LiveIsFound ==
    ASSUME Distinct
    PROVE  Spec => []Sound
  <1>1. Init => Placed
    BY PlacedStarts
  <1>2. Placed /\ [Next]_vars => Placed'
    BY PlacedKeeps
  <1>3. Placed => Sound
    BY PlacedIsSound
  <1> QED
    BY <1>1, <1>2, <1>3, PTL DEF Spec
=============================================================================
