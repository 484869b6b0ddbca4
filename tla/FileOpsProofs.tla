---------------------------- MODULE FileOpsProofs ----------------------------
(* Proofs about FileOps, for every workspace, every batch of operations and   *)
(* any number of failing calls:                                               *)
(*   - a batch that reports success has done what its operations mean;        *)
(*   - a batch that is refused, or in which one call fails, is undone;        *)
(*   - a batch of files that is applied leaves no backup behind in silence;    *)
(*   - while a batch is not applied for good, the content of every file of    *)
(*     the workspace is somewhere on disk, whatever fails or crashes.         *)
(* The sections go from paths to trees to single calls, then to the program   *)
(* of each operation, and from there to the journal and the invariant.        *)
(*                                                                            *)
(* Two trees are compared with the names of the applier hidden: Own(k) are    *)
(* the names that operations k and later may use, and Strip(t, C) is t        *)
(* without the paths that hit a name of C.  A call that stays away from the   *)
(* names C does the same to t and to Strip(t, C), so an undo that restores    *)
(* the tree before an operation still does when it starts from a tree that    *)
(* holds the leftovers of a failed operation after it.                        *)
EXTENDS FileOps, SequenceTheorems, WellFoundedInduction, TLAPS

(* --------------------------------- paths --------------------------------- *)

\* A path is a prefix of another exactly when it is no longer and agrees with it name by
\* name.
LEMMA PrefixMeans ==
    ASSUME NEW p \in Seq(Pairs), NEW q \in Seq(Pairs)
    PROVE  IsPrefix(p, q) <=> Len(p) <= Len(q) /\ \A i \in 1 .. Len(p) : p[i] = q[i]
<1>1. Len(p) \in Nat /\ Len(q) \in Nat
    OBVIOUS
<1>2. ASSUME Len(p) <= Len(q)
      PROVE  /\ SubSeq(p, 1, Len(p)) \in Seq(Pairs) /\ Len(SubSeq(p, 1, Len(p))) = Len(p)
             /\ \A i \in 1 .. Len(p) : SubSeq(p, 1, Len(p))[i] = p[i]
             /\ SubSeq(q, 1, Len(p)) \in Seq(Pairs) /\ Len(SubSeq(q, 1, Len(p))) = Len(p)
             /\ \A i \in 1 .. Len(p) : SubSeq(q, 1, Len(p))[i] = q[i]
    BY <1>1, <1>2
<1>3. ASSUME Len(p) <= Len(q), \A i \in 1 .. Len(p) : p[i] = q[i]
      PROVE  SubSeq(p, 1, Len(p)) = SubSeq(q, 1, Len(p))
    <2>1. \A i \in 1 .. Len(SubSeq(p, 1, Len(p))) : SubSeq(p, 1, Len(p))[i] = SubSeq(q, 1, Len(p))[i]
        BY <1>1, <1>2, <1>3
    <2> HIDE DEF IsPrefix
    <2> QED
        BY <2>1, <1>2, <1>3, SeqEqual
<1> QED
    BY <1>1, <1>2, <1>3 DEF IsPrefix

\* What becomes of a path when the directory from is renamed to to.
Rebase(q, from, to) == to \o SubSeq(q, Len(from) + 1, Len(q))

\* A rebased path is the new directory, followed by what followed the old one.
LEMMA RebaseMeans ==
    ASSUME NEW from \in Seq(Pairs), NEW to \in Seq(Pairs), NEW q \in Seq(Pairs), IsPrefix(from, q)
    PROVE  LET r == Rebase(q, from, to) IN
           /\ r \in Seq(Pairs) /\ Len(r) = Len(to) + Len(q) - Len(from)
           /\ \A i \in 1 .. Len(to) : r[i] = to[i]
           /\ \A i \in 1 .. Len(q) - Len(from) : r[Len(to) + i] = q[Len(from) + i]
           /\ IsPrefix(to, r)
<1> DEFINE u == SubSeq(q, Len(from) + 1, Len(q))
           r == Rebase(q, from, to)
<1>1. Len(from) \in Nat /\ Len(to) \in Nat /\ Len(q) \in Nat /\ Len(from) <= Len(q)
    BY PrefixMeans
<1>2. /\ u \in Seq(Pairs) /\ Len(u) = Len(q) - Len(from)
      /\ \A i \in 1 .. Len(q) - Len(from) : u[i] = q[Len(from) + i]
    BY <1>1
<1>3. /\ r \in Seq(Pairs) /\ Len(r) = Len(to) + Len(u)
      /\ \A i \in 1 .. Len(to) + Len(u) : r[i] = IF i <= Len(to) THEN to[i] ELSE u[i - Len(to)]
    <2> HIDE DEF u
    <2> QED
        BY <1>2, ConcatProperties DEF Rebase, u
<1> HIDE DEF u, r
<1>4. ASSUME NEW i \in 1 .. Len(to) PROVE r[i] = to[i]
    <2>1. i \in 1 .. Len(to) + Len(u) /\ i <= Len(to)
        BY <1>1, <1>2
    <2> QED
        BY <2>1, <1>3
<1>5. ASSUME NEW i \in 1 .. Len(q) - Len(from) PROVE r[Len(to) + i] = q[Len(from) + i]
    <2>1. /\ Len(to) + i \in 1 .. Len(to) + Len(u) /\ ~(Len(to) + i <= Len(to))
          /\ (Len(to) + i) - Len(to) = i
        BY <1>1, <1>2
    <2>2. r[Len(to) + i] = u[(Len(to) + i) - Len(to)]
        BY <2>1, <1>3
    <2> QED
        BY <2>1, <2>2, <1>2
<1>6. IsPrefix(to, r)
    BY <1>1, <1>2, <1>3, <1>4, PrefixMeans
<1> QED
    BY <1>1, <1>2, <1>3, <1>4, <1>5, <1>6 DEF r

\* Renaming back undoes the renaming of a path.
LEMMA RebaseBack ==
    ASSUME NEW from \in Seq(Pairs), NEW to \in Seq(Pairs), NEW q \in Seq(Pairs), IsPrefix(from, q)
    PROVE  Rebase(Rebase(q, from, to), to, from) = q
<1> DEFINE r == Rebase(q, from, to)
           s == Rebase(r, to, from)
<1>1. Len(from) \in Nat /\ Len(to) \in Nat /\ Len(q) \in Nat /\ Len(from) <= Len(q)
      /\ \A i \in 1 .. Len(from) : from[i] = q[i]
    BY PrefixMeans
<1>2. /\ r \in Seq(Pairs) /\ Len(r) = Len(to) + Len(q) - Len(from)
      /\ \A i \in 1 .. Len(q) - Len(from) : r[Len(to) + i] = q[Len(from) + i]
      /\ IsPrefix(to, r)
    BY RebaseMeans
<1> HIDE DEF r
<1>3. /\ s \in Seq(Pairs) /\ Len(s) = Len(from) + Len(r) - Len(to)
      /\ \A i \in 1 .. Len(from) : s[i] = from[i]
      /\ \A i \in 1 .. Len(r) - Len(to) : s[Len(from) + i] = r[Len(to) + i]
    BY <1>2, RebaseMeans
<1> HIDE DEF s
<1>4. Len(s) = Len(q)
    BY <1>1, <1>2, <1>3
<1>5. ASSUME NEW i \in 1 .. Len(s) PROVE s[i] = q[i]
    <2>1. CASE i <= Len(from)
        BY <2>1, <1>1, <1>3, <1>4
    <2>2. CASE i > Len(from)
        <3> DEFINE k == i - Len(from)
        <3>1. k \in 1 .. Len(q) - Len(from) /\ i = Len(from) + k /\ k \in 1 .. Len(r) - Len(to)
            BY <2>2, <1>1, <1>2, <1>4
        <3> HIDE DEF k
        <3>2. s[i] = r[Len(to) + k]
            BY <3>1, <1>3
        <3> QED
            BY <3>1, <3>2, <1>2
    <2> QED
        BY <2>1, <2>2, <1>1
<1>6. s = q
    BY <1>3, <1>4, <1>5, SeqEqual
<1> QED
    BY <1>6 DEF s, r

\* Prefix is a partial order, and the ancestors of one path are ordered among
\* themselves.
LEMMA PrefixOrder ==
    ASSUME NEW p \in Paths, NEW q \in Paths, NEW r \in Paths
    PROVE  /\ IsPrefix(p, p)
           /\ IsPrefix(p, q) /\ IsPrefix(q, p) => p = q
           /\ IsPrefix(p, q) /\ IsPrefix(q, r) => IsPrefix(p, r)
           /\ IsPrefix(p, r) /\ IsPrefix(q, r) => IsPrefix(p, q) \/ IsPrefix(q, p)
<1>1. /\ p \in Seq(Pairs) /\ q \in Seq(Pairs) /\ r \in Seq(Pairs)
      /\ Len(p) \in Nat /\ Len(q) \in Nat /\ Len(r) \in Nat
    BY DEF Paths
<1>2. /\ IsPrefix(p, p) <=> \A i \in 1 .. Len(p) : p[i] = p[i]
      /\ IsPrefix(p, q) <=> Len(p) <= Len(q) /\ \A i \in 1 .. Len(p) : p[i] = q[i]
      /\ IsPrefix(q, p) <=> Len(q) <= Len(p) /\ \A i \in 1 .. Len(q) : q[i] = p[i]
      /\ IsPrefix(q, r) <=> Len(q) <= Len(r) /\ \A i \in 1 .. Len(q) : q[i] = r[i]
      /\ IsPrefix(p, r) <=> Len(p) <= Len(r) /\ \A i \in 1 .. Len(p) : p[i] = r[i]
    BY <1>1, PrefixMeans
<1>3. IsPrefix(p, q) /\ IsPrefix(q, p) => p = q
    BY <1>1, <1>2, SeqEqual
<1>4. IsPrefix(p, q) /\ IsPrefix(q, r) => IsPrefix(p, r)
    BY <1>1, <1>2
<1>5. IsPrefix(p, r) /\ IsPrefix(q, r) => IsPrefix(p, q) \/ IsPrefix(q, p)
    <2>1. CASE Len(p) <= Len(q)
        BY <1>1, <1>2, <2>1
    <2>2. CASE Len(q) <= Len(p)
        BY <1>1, <1>2, <2>2
    <2> QED
        BY <1>1, <2>1, <2>2
<1> QED
    BY <1>2, <1>3, <1>4, <1>5

\* The first m names of a path are a path, and an ancestor of it.
LEMMA PrefixOf ==
    ASSUME NEW p \in Paths, NEW m \in 1 .. Len(p)
    PROVE  /\ SubSeq(p, 1, m) \in Paths /\ Len(SubSeq(p, 1, m)) = m
           /\ \A i \in 1 .. m : SubSeq(p, 1, m)[i] = p[i]
           /\ IsPrefix(SubSeq(p, 1, m), p)
<1>1. p \in Seq(Pairs) /\ Len(p) \in Nat
    BY DEF Paths
<1>2. /\ SubSeq(p, 1, m) \in Seq(Pairs) /\ Len(SubSeq(p, 1, m)) = m
      /\ \A i \in 1 .. m : SubSeq(p, 1, m)[i] = p[i]
    BY <1>1
<1>3. SubSeq(p, 1, m) # <<>>
    BY <1>2
<1> DEFINE s == SubSeq(p, 1, m)
<1> HIDE DEF s
<1>4. s \in Seq(Pairs) /\ Len(s) <= Len(p) /\ \A i \in 1 .. Len(s) : s[i] = p[i]
    BY <1>1, <1>2 DEF s
<1>5. IsPrefix(s, p)
    BY <1>1, <1>4, PrefixMeans
<1> QED
    BY <1>2, <1>3, <1>5 DEF Paths, s

\* An ancestor of a path is its first names, and fewer of them when it is another path.
LEMMA PrefixIs ==
    ASSUME NEW p \in Paths, NEW q \in Paths, IsPrefix(p, q)
    PROVE  /\ Len(p) \in 1 .. Len(q) /\ p = SubSeq(q, 1, Len(p))
           /\ p # q => Len(p) \in 1 .. Len(q) - 1
<1>1. p \in Seq(Pairs) /\ q \in Seq(Pairs) /\ Len(p) \in Nat /\ Len(q) \in Nat /\ p # <<>>
    BY DEF Paths
<1>2. Len(p) <= Len(q) /\ (\A i \in 1 .. Len(p) : p[i] = q[i]) /\ Len(p) > 0
    BY <1>1, PrefixMeans
<1>3. p = SubSeq(q, 1, Len(p))
    <2>1. /\ SubSeq(q, 1, Len(p)) \in Paths /\ Len(SubSeq(q, 1, Len(p))) = Len(p)
          /\ \A i \in 1 .. Len(p) : SubSeq(q, 1, Len(p))[i] = q[i]
        BY <1>1, <1>2, PrefixOf
    <2> QED
        BY <1>1, <1>2, <2>1, SeqEqual DEF Paths
<1>4. p # q => Len(p) # Len(q)
    BY <1>1, <1>2, SeqEqual
<1> QED
    BY <1>1, <1>2, <1>3, <1>4

\* A path with a component of C.
Hits(p, C) == \E i \in DOMAIN p : p[i] \in C

\* A path below one that has a reserved name has it too.
LEMMA PrefixHits ==
    ASSUME NEW p \in Paths, NEW q \in Paths, IsPrefix(p, q), NEW C, Hits(p, C)
    PROVE  Hits(q, C)
<1>1. p \in Seq(Pairs) /\ q \in Seq(Pairs) /\ DOMAIN p = 1 .. Len(p) /\ DOMAIN q = 1 .. Len(q)
      /\ Len(p) \in Nat /\ Len(q) \in Nat
    BY DEF Paths
<1>2. Len(p) <= Len(q) /\ \A i \in 1 .. Len(p) : p[i] = q[i]
    BY <1>1, PrefixMeans
<1> QED
    BY <1>1, <1>2 DEF Hits

\* Renaming between directories of the user changes nothing about the reserved names in
\* a path.
LEMMA RebaseHits ==
    ASSUME NEW from \in Paths, NEW to \in Paths, NEW q \in Paths, IsPrefix(from, q),
           NEW C, ~Hits(from, C), ~Hits(to, C)
    PROVE  Hits(Rebase(q, from, to), C) <=> Hits(q, C)
<1> DEFINE r == Rebase(q, from, to)
<1>1. /\ from \in Seq(Pairs) /\ to \in Seq(Pairs) /\ q \in Seq(Pairs)
      /\ Len(from) \in Nat /\ Len(to) \in Nat /\ Len(q) \in Nat
      /\ DOMAIN from = 1 .. Len(from) /\ DOMAIN to = 1 .. Len(to) /\ DOMAIN q = 1 .. Len(q)
    BY DEF Paths
<1>2. Len(from) <= Len(q) /\ \A i \in 1 .. Len(from) : from[i] = q[i]
    BY <1>1, PrefixMeans
<1>3. /\ r \in Seq(Pairs) /\ Len(r) = Len(to) + Len(q) - Len(from)
      /\ \A i \in 1 .. Len(to) : r[i] = to[i]
      /\ \A i \in 1 .. Len(q) - Len(from) : r[Len(to) + i] = q[Len(from) + i]
    BY <1>1, RebaseMeans
<1>4. DOMAIN r = 1 .. Len(r)
    BY <1>3
<1> HIDE DEF r
<1>5. ASSUME NEW i \in 1 .. Len(r), r[i] \in C PROVE Hits(q, C)
    <2>1. i > Len(to)
        <3>1. ASSUME i \in 1 .. Len(to) PROVE FALSE
            BY <3>1, <1>1, <1>3, <1>5 DEF Hits
        <3> QED
            BY <3>1, <1>1, <1>3
    <2> DEFINE k == i - Len(to)
    <2>2. k \in 1 .. Len(q) - Len(from) /\ i = Len(to) + k /\ Len(from) + k \in 1 .. Len(q)
        BY <2>1, <1>1, <1>2, <1>3
    <2> HIDE DEF k
    <2>3. q[Len(from) + k] \in C
        BY <2>2, <1>3, <1>5
    <2> QED
        BY <2>2, <2>3, <1>1 DEF Hits
<1>6. ASSUME NEW i \in 1 .. Len(q), q[i] \in C PROVE Hits(r, C)
    <2>1. i > Len(from)
        <3>1. ASSUME i \in 1 .. Len(from) PROVE FALSE
            BY <3>1, <1>1, <1>2, <1>6 DEF Hits
        <3> QED
            BY <3>1, <1>1
    <2> DEFINE k == i - Len(from)
    <2>2. k \in 1 .. Len(q) - Len(from) /\ i = Len(from) + k /\ Len(to) + k \in 1 .. Len(r)
        BY <2>1, <1>1, <1>2, <1>3
    <2> HIDE DEF k
    <2>3. r[Len(to) + k] \in C
        BY <2>2, <1>3, <1>6
    <2> QED
        BY <2>2, <2>3, <1>4 DEF Hits
<1>7. Hits(r, C) <=> Hits(q, C)
    BY <1>1, <1>4, <1>5, <1>6 DEF Hits
<1> QED
    BY <1>7 DEF r

\* A sibling lies in the same directory and differs in its last name only.
LEMMA SiblingMeans ==
    ASSUME NEW p \in Paths, NEW c \in Pairs
    PROVE  LET b == Sibling(p, c) IN
           /\ b \in Paths /\ Len(b) = Len(p) /\ b[Len(b)] = c
           /\ \A i \in 1 .. Len(p) - 1 : b[i] = p[i]
           /\ Front(b) = Front(p)
<1> DEFINE f == SubSeq(p, 1, Len(p) - 1)
           b == Append(f, c)
<1>1. p \in Seq(Pairs) /\ Len(p) \in Nat /\ Len(p) > 0
    BY DEF Paths
<1>2. /\ f \in Seq(Pairs) /\ Len(f) = Len(p) - 1
      /\ \A i \in 1 .. Len(p) - 1 : f[i] = p[i]
    <2>1. Len(p) - 1 \in Int /\ \A i \in 1 .. Len(p) - 1 : p[i] \in Pairs
        BY <1>1
    <2>2. /\ f \in Seq(Pairs) /\ Len(f) = IF 1 <= Len(p) - 1 THEN Len(p) - 1 - 1 + 1 ELSE 0
          /\ \A i \in 1 .. Len(p) - 1 - 1 + 1 : f[i] = p[1 + i - 1]
        BY <2>1, SubSeqProperties
    <2> HIDE DEF f
    <2>3. ASSUME NEW i \in 1 .. Len(p) - 1 PROVE f[i] = p[i]
        <3>1. i \in 1 .. Len(p) - 1 - 1 + 1 /\ 1 + i - 1 = i
            BY <1>1
        <3> QED
            BY <3>1, <2>2
    <2>4. Len(f) = Len(p) - 1
        <3>1. CASE Len(p) = 1
            BY <3>1, <2>2
        <3>2. CASE Len(p) > 1
            BY <1>1, <3>2, <2>2
        <3>3. \A i \in Nat : i > 0 => i = 1 \/ i > 1
            OBVIOUS
        <3> QED
            BY <1>1, <3>1, <3>2, <3>3
    <2> QED
        BY <2>2, <2>3, <2>4
<1> HIDE DEF f
<1>3. /\ b \in Seq(Pairs) /\ b # <<>> /\ Len(b) = Len(p) /\ b[Len(b)] = c
      /\ \A i \in 1 .. Len(p) - 1 : b[i] = f[i]
    <2>1. /\ b \in Seq(Pairs) /\ b # <<>> /\ Len(b) = Len(f) + 1
          /\ \A i \in 1 .. Len(f) : b[i] = f[i]
        BY <1>2, AppendProperties
    <2>2. b[Len(f) + 1] = c
        BY <1>2
    <2> HIDE DEF b
    <2>3. Len(f) + 1 = Len(p) /\ Len(f) = Len(p) - 1
        BY <1>1, <1>2
    <2>4. Len(b) = Len(p) /\ b[Len(b)] = c
        BY <2>1, <2>2, <2>3
    <2>5. \A i \in 1 .. Len(p) - 1 : b[i] = f[i]
        BY <2>1, <2>3
    <2> QED
        BY <2>1, <2>4, <2>5
<1>4. Len(b) - 1 = Len(f) /\ Len(b) - 1 \in Nat
    BY <1>1, <1>2, <1>3
<1> HIDE DEF b
<1>5. /\ SubSeq(b, 1, Len(b) - 1) \in Seq(Pairs) /\ Len(SubSeq(b, 1, Len(b) - 1)) = Len(f)
      /\ \A i \in 1 .. Len(f) : SubSeq(b, 1, Len(b) - 1)[i] = b[i]
    BY <1>3, <1>4
<1>6. SubSeq(b, 1, Len(b) - 1) = f
    BY <1>2, <1>3, <1>4, <1>5, SeqEqual
<1> QED
    BY <1>2, <1>3, <1>6 DEF Sibling, Front, b, f, Paths

\* A rebased path is a path below the new directory, and can be rebased back.
LEMMA RebasePath ==
    ASSUME NEW from \in Paths, NEW to \in Paths, NEW q \in Paths, IsPrefix(from, q)
    PROVE  /\ Rebase(q, from, to) \in Paths /\ IsPrefix(to, Rebase(q, from, to))
           /\ Rebase(Rebase(q, from, to), to, from) = q
<1>1. from \in Seq(Pairs) /\ to \in Seq(Pairs) /\ q \in Seq(Pairs) /\ to # <<>>
    BY DEF Paths
<1> DEFINE r == Rebase(q, from, to)
<1>2. r \in Seq(Pairs) /\ IsPrefix(to, r)
    BY <1>1, RebaseMeans
<1> HIDE DEF r
<1>3. r # <<>>
    <2>1. Len(to) <= Len(r) /\ Len(to) > 0
        BY <1>1, <1>2, PrefixMeans
    <2> QED
        BY <2>1
<1>4. Rebase(r, to, from) = q
    BY <1>1, RebaseBack DEF r
<1> QED
    BY <1>2, <1>3, <1>4 DEF Paths, r

(* --------------------------------- trees --------------------------------- *)

\* What removing a path leaves.
LEMMA WithoutMeans ==
    ASSUME NEW t, NEW p
    PROVE  LET T == Without(t, Under(t, p)) IN
           /\ T = [q \in DOMAIN T |-> T[q]]
           /\ \A q : q \in DOMAIN T <=> q \in DOMAIN t /\ ~IsPrefix(p, q)
           /\ \A q \in DOMAIN T : T[q] = t[q]
<1> HIDE DEF IsPrefix
<1> QED
    BY DEF Without, Under

\* What writing a node leaves.
LEMMA WithMeans ==
    ASSUME NEW t, NEW p, NEW c
    PROVE  LET T == With(t, p, c) IN
           /\ T = [q \in DOMAIN T |-> T[q]]
           /\ \A q : q \in DOMAIN T <=> q \in DOMAIN t \/ q = p
           /\ T[p] = c
           /\ \A q \in DOMAIN t : q # p => T[q] = t[q]
    BY DEF With

\* What a renaming leaves: the rest of the tree without the target, and the source below
\* its new name.
LEMMA MovedMeans ==
    ASSUME NEW t, DOMAIN t \subseteq Paths, NEW from \in Paths, NEW to \in Paths
    PROVE  LET T == Moved(t, from, to) IN
           /\ T = [q \in DOMAIN T |-> T[q]]
           /\ \A q : q \in DOMAIN T <=>
                  \/ q \in DOMAIN t /\ ~IsPrefix(from, q) /\ ~IsPrefix(to, q)
                  \/ \E r \in DOMAIN t : IsPrefix(from, r) /\ q = Rebase(r, from, to)
           /\ \A q \in DOMAIN t : ~IsPrefix(from, q) /\ ~IsPrefix(to, q) => T[q] = t[q]
           /\ \A r \in DOMAIN t : IsPrefix(from, r) => T[Rebase(r, from, to)] = t[r]
<1> DEFINE A == {q \in DOMAIN t : ~IsPrefix(from, q) /\ ~IsPrefix(to, q)}
           B == {Rebase(r, from, to) : r \in {r \in DOMAIN t : IsPrefix(from, r)}}
           T == Moved(t, from, to)
<1>1. T = [q \in A \cup B |-> IF q \in A THEN t[q] ELSE t[Rebase(q, to, from)]]
    <2>1. Without(t, Under(t, from) \cup Under(t, to)) = [q \in A |-> t[q]]
        <3> HIDE DEF IsPrefix
        <3> QED
            BY DEF Without, Under
    <2>2. \A q \in A : [x \in A |-> t[x]][q] = t[q]
        OBVIOUS
    <2>3. Under(t, from) = {r \in DOMAIN t : IsPrefix(from, r)}
        BY DEF Under
    <2> QED
        BY <2>1, <2>2, <2>3 DEF Moved, Rebase
<1> HIDE DEF T
<1>2. ASSUME NEW r \in DOMAIN t, IsPrefix(from, r)
      PROVE  /\ Rebase(r, from, to) \in B /\ Rebase(r, from, to) \notin A
             /\ Rebase(Rebase(r, from, to), to, from) = r
    <2>1. /\ IsPrefix(to, Rebase(r, from, to))
          /\ Rebase(Rebase(r, from, to), to, from) = r
        BY <1>2, RebasePath
    <2> HIDE DEF IsPrefix, Rebase
    <2> QED
        BY <1>2, <2>1
<1> HIDE DEF IsPrefix, Rebase
<1>3. \A r \in DOMAIN t : IsPrefix(from, r) => T[Rebase(r, from, to)] = t[r]
    BY <1>1, <1>2
<1>4. \A q \in DOMAIN t : ~IsPrefix(from, q) /\ ~IsPrefix(to, q) => T[q] = t[q]
    BY <1>1
<1>5. DOMAIN T = A \cup B /\ T = [q \in DOMAIN T |-> T[q]]
    BY <1>1
<1>6. \A q : q \in A \cup B <=>
          \/ q \in DOMAIN t /\ ~IsPrefix(from, q) /\ ~IsPrefix(to, q)
          \/ \E r \in DOMAIN t : IsPrefix(from, r) /\ q = Rebase(r, from, to)
    OBVIOUS
<1> QED
    BY <1>3, <1>4, <1>5, <1>6 DEF T

\* In a tree, everything above a node is a directory.
LEMMA TreeMeans ==
    ASSUME NEW t
    PROVE  IsTree(t) <=>
           /\ t = [q \in DOMAIN t |-> t[q]]
           /\ DOMAIN t \subseteq Paths /\ \A q \in DOMAIN t : t[q] \in Pairs
           /\ \A q \in DOMAIN t, p \in Paths : IsPrefix(p, q) /\ p # q => p \in DOMAIN t /\ t[p] = Dir
<1>1. ASSUME IsTree(t), NEW q \in DOMAIN t, NEW p \in Paths, IsPrefix(p, q), p # q
      PROVE  p \in DOMAIN t /\ t[p] = Dir
    <2>1. Len(p) \in 1 .. Len(q) - 1 /\ p = SubSeq(q, 1, Len(p))
        BY <1>1, PrefixIs DEF IsTree
    <2> QED
        BY <1>1, <2>1 DEF IsTree
<1>2. ASSUME DOMAIN t \subseteq Paths,
             \A q \in DOMAIN t, p \in Paths : IsPrefix(p, q) /\ p # q => p \in DOMAIN t /\ t[p] = Dir,
             NEW q \in DOMAIN t, NEW m \in 1 .. Len(q) - 1
      PROVE  SubSeq(q, 1, m) \in DOMAIN t /\ t[SubSeq(q, 1, m)] = Dir
    <2>1. q \in Paths /\ m \in 1 .. Len(q) /\ m # Len(q)
        BY <1>2 DEF Paths
    <2>2. /\ SubSeq(q, 1, m) \in Paths /\ IsPrefix(SubSeq(q, 1, m), q)
          /\ Len(SubSeq(q, 1, m)) = m
        BY <2>1, PrefixOf
    <2>3. SubSeq(q, 1, m) # q
        BY <2>1, <2>2
    <2> QED
        BY <1>2, <2>2, <2>3
<1> QED
    BY <1>1, <1>2 DEF IsTree

\* What lies below a file or below nothing.
LEMMA NothingUnder ==
    ASSUME NEW t, IsTree(t), NEW p \in Paths
    PROVE  /\ p \notin DOMAIN t => \A q \in DOMAIN t : ~IsPrefix(p, q)
           /\ p \in DOMAIN t /\ t[p] # Dir => \A q \in DOMAIN t : IsPrefix(p, q) => q = p
    BY TreeMeans

\* When its parent exists, everything above a path is a directory.
LEMMA ParentMeans ==
    ASSUME NEW t, IsTree(t), NEW p \in Paths, ParentExists(t, p), NEW q \in Paths, IsPrefix(q, p), q # p
    PROVE  q \in DOMAIN t /\ t[q] = Dir
<1>1. Len(q) \in 1 .. Len(p) - 1 /\ q = SubSeq(p, 1, Len(q))
    BY PrefixIs
<1>2. p \in Seq(Pairs) /\ Len(p) \in Nat /\ Len(p) > 1
    BY <1>1 DEF Paths
<1>3. SubSeq(p, 1, Len(p) - 1) \in DOMAIN t /\ t[SubSeq(p, 1, Len(p) - 1)] = Dir
    <2>1. Len(p) # 1
        <3>1. \A i \in Nat : i > 1 => i # 1
            OBVIOUS
        <3> QED
            BY <1>2, <3>1
    <2> QED
        BY <2>1 DEF ParentExists, IsDir, Exists, Front
<1> DEFINE f == SubSeq(p, 1, Len(p) - 1)
<1>4. /\ f \in Paths /\ Len(f) = Len(p) - 1
      /\ \A i \in 1 .. Len(p) - 1 : f[i] = p[i]
    BY <1>2, PrefixOf
<1> HIDE DEF f
<1>5. IsPrefix(q, f)
    <2>1. q \in Seq(Pairs) /\ Len(q) <= Len(p) - 1 /\ \A i \in 1 .. Len(q) : q[i] = p[i]
        BY <1>1, <1>2, PrefixMeans DEF Paths
    <2>2. \A i \in 1 .. Len(q) : q[i] = f[i]
        BY <2>1, <1>1, <1>2, <1>4
    <2> QED
        BY <2>1, <2>2, <1>4, PrefixMeans DEF Paths
<1> QED
    BY <1>3, <1>5, TreeMeans DEF f

\* Renaming keeps the order of the paths below the directory.
LEMMA RebasePrefix ==
    ASSUME NEW from \in Paths, NEW to \in Paths, NEW p \in Paths, NEW q \in Paths,
           IsPrefix(from, p), IsPrefix(p, q)
    PROVE  IsPrefix(Rebase(p, from, to), Rebase(q, from, to))
<1> DEFINE x == Rebase(p, from, to)
           y == Rebase(q, from, to)
<1>1. /\ from \in Seq(Pairs) /\ to \in Seq(Pairs) /\ p \in Seq(Pairs) /\ q \in Seq(Pairs)
      /\ Len(from) \in Nat /\ Len(to) \in Nat /\ Len(p) \in Nat /\ Len(q) \in Nat
    BY DEF Paths
<1>2. IsPrefix(from, q)
    BY PrefixOrder
<1>3. Len(from) <= Len(p) /\ Len(p) <= Len(q) /\ \A i \in 1 .. Len(p) : p[i] = q[i]
    BY <1>1, PrefixMeans
<1>4. /\ x \in Seq(Pairs) /\ Len(x) = Len(to) + Len(p) - Len(from)
      /\ \A i \in 1 .. Len(to) : x[i] = to[i]
      /\ \A i \in 1 .. Len(p) - Len(from) : x[Len(to) + i] = p[Len(from) + i]
    BY <1>1, RebaseMeans
<1>5. /\ y \in Seq(Pairs) /\ Len(y) = Len(to) + Len(q) - Len(from)
      /\ \A i \in 1 .. Len(to) : y[i] = to[i]
      /\ \A i \in 1 .. Len(q) - Len(from) : y[Len(to) + i] = q[Len(from) + i]
    BY <1>1, <1>2, RebaseMeans
<1> HIDE DEF x, y
<1>6. ASSUME NEW i \in 1 .. Len(x) PROVE x[i] = y[i]
    <2>1. CASE i \in 1 .. Len(to)
        BY <2>1, <1>4, <1>5
    <2>2. CASE i \notin 1 .. Len(to)
        <3> DEFINE k == i - Len(to)
        <3>1. /\ k \in 1 .. Len(p) - Len(from) /\ k \in 1 .. Len(q) - Len(from) /\ i = Len(to) + k
              /\ Len(from) + k \in 1 .. Len(p)
            BY <2>2, <1>1, <1>3, <1>4
        <3> HIDE DEF k
        <3>2. p[Len(from) + k] = q[Len(from) + k]
            BY <3>1, <1>3
        <3> QED
            BY <3>1, <3>2, <1>4, <1>5
    <2> QED
        BY <2>1, <2>2
<1>7. Len(x) <= Len(y)
    BY <1>1, <1>3, <1>4, <1>5
<1>8. IsPrefix(x, y)
    BY <1>4, <1>5, <1>6, <1>7, PrefixMeans
<1> QED
    BY <1>8 DEF x, y

\* Renaming onto a name whose parent exists, and not into itself, leaves a tree.
LEMMA MovedTree ==
    ASSUME NEW t, IsTree(t), NEW from \in Paths, NEW to \in Paths,
           ParentExists(t, to), ~IsPrefix(from, to)
    PROVE  IsTree(Moved(t, from, to))
<1> DEFINE T == Moved(t, from, to)
<1> HIDE DEF T, IsPrefix, Rebase
<1>1. /\ DOMAIN t \subseteq Paths /\ \A q \in DOMAIN t : t[q] \in Pairs
      /\ \A q \in DOMAIN t, p \in Paths : IsPrefix(p, q) /\ p # q => p \in DOMAIN t /\ t[p] = Dir
    BY TreeMeans
<1>2. /\ T = [q \in DOMAIN T |-> T[q]]
      /\ \A q : q \in DOMAIN T <=>
             \/ q \in DOMAIN t /\ ~IsPrefix(from, q) /\ ~IsPrefix(to, q)
             \/ \E r \in DOMAIN t : IsPrefix(from, r) /\ q = Rebase(r, from, to)
      /\ \A q \in DOMAIN t : ~IsPrefix(from, q) /\ ~IsPrefix(to, q) => T[q] = t[q]
      /\ \A r \in DOMAIN t : IsPrefix(from, r) => T[Rebase(r, from, to)] = t[r]
    BY <1>1, MovedMeans DEF T
<1>3. DOMAIN T \subseteq Paths /\ \A q \in DOMAIN T : T[q] \in Pairs
    BY <1>1, <1>2, RebasePath
<1>4. ASSUME NEW q \in DOMAIN t, ~IsPrefix(from, q), ~IsPrefix(to, q),
             NEW p \in Paths, IsPrefix(p, q), p # q
      PROVE  p \in DOMAIN T /\ T[p] = Dir
    <2>1. p \in DOMAIN t /\ t[p] = Dir
        BY <1>1, <1>4
    <2>2. ~IsPrefix(from, p) /\ ~IsPrefix(to, p)
        BY <1>1, <1>4, PrefixOrder
    <2> QED
        BY <1>2, <2>1, <2>2
<1>5. ASSUME NEW r \in DOMAIN t, IsPrefix(from, r), NEW p \in Paths,
             IsPrefix(p, Rebase(r, from, to)), p # Rebase(r, from, to)
      PROVE  p \in DOMAIN T /\ T[p] = Dir
    <2> DEFINE q == Rebase(r, from, to)
    <2>1. q \in Paths /\ IsPrefix(to, q) /\ Rebase(q, to, from) = r
        BY <1>1, <1>5, RebasePath
    <2>2. CASE ~IsPrefix(to, p)
        <3>1. IsPrefix(p, to) /\ p # to
            BY <1>5, <2>1, <2>2, PrefixOrder
        <3>2. p \in DOMAIN t /\ t[p] = Dir
            BY <3>1, ParentMeans
        <3>3. ~IsPrefix(from, p)
            BY <3>1, PrefixOrder
        <3> QED
            BY <1>2, <2>2, <3>2, <3>3
    <2>3. CASE IsPrefix(to, p)
        <3> DEFINE s == Rebase(p, to, from)
        <3>1. s \in Paths /\ IsPrefix(from, s) /\ Rebase(s, from, to) = p
            BY <2>3, RebasePath
        <3>2. IsPrefix(s, r) /\ s # r
            BY <1>5, <2>1, <2>3, <3>1, RebasePrefix
        <3>3. s \in DOMAIN t /\ t[s] = Dir
            BY <1>1, <3>1, <3>2
        <3> HIDE DEF s
        <3> QED
            BY <1>2, <3>1, <3>3
    <2> QED
        BY <2>2, <2>3
<1>6. ASSUME NEW q \in DOMAIN T, NEW p \in Paths, IsPrefix(p, q), p # q
      PROVE  p \in DOMAIN T /\ T[p] = Dir
    BY <1>2, <1>4, <1>5, <1>6
<1> QED
    BY <1>2, <1>3, <1>6, TreeMeans DEF T

\* Writing a node whose parent exists, and over no directory, leaves a tree.
LEMMA WithTree ==
    ASSUME NEW t, IsTree(t), NEW p \in Paths, NEW c \in Pairs, ParentExists(t, p), ~IsDir(t, p)
    PROVE  IsTree(With(t, p, c))
<1> DEFINE T == With(t, p, c)
<1> HIDE DEF T, IsPrefix
<1>1. /\ DOMAIN t \subseteq Paths /\ \A q \in DOMAIN t : t[q] \in Pairs
      /\ \A q \in DOMAIN t, r \in Paths : IsPrefix(r, q) /\ r # q => r \in DOMAIN t /\ t[r] = Dir
    BY TreeMeans
<1>2. /\ T = [q \in DOMAIN T |-> T[q]]
      /\ \A q : q \in DOMAIN T <=> q \in DOMAIN t \/ q = p
      /\ T[p] = c
      /\ \A q \in DOMAIN t : q # p => T[q] = t[q]
    BY WithMeans DEF T
<1>3. ASSUME NEW q \in DOMAIN T, NEW r \in Paths, IsPrefix(r, q), r # q
      PROVE  r \in DOMAIN T /\ T[r] = Dir
    <2>1. r \in DOMAIN t /\ t[r] = Dir
        BY <1>1, <1>2, <1>3, ParentMeans
    <2>2. r # p
        BY <2>1 DEF IsDir, Exists
    <2> QED
        BY <1>2, <2>1, <2>2
<1>4. \A q \in DOMAIN T : T[q] \in Pairs
    BY <1>1, <1>2
<1> QED
    BY <1>1, <1>2, <1>3, <1>4, TreeMeans DEF T

\* Removing a path with all below it leaves a tree.
LEMMA WithoutTree ==
    ASSUME NEW t, IsTree(t), NEW p \in Paths
    PROVE  IsTree(Without(t, Under(t, p)))
<1> DEFINE T == Without(t, Under(t, p))
<1> HIDE DEF T, IsPrefix
<1>1. /\ DOMAIN t \subseteq Paths /\ \A q \in DOMAIN t : t[q] \in Pairs
      /\ \A q \in DOMAIN t, r \in Paths : IsPrefix(r, q) /\ r # q => r \in DOMAIN t /\ t[r] = Dir
    BY TreeMeans
<1>2. /\ T = [q \in DOMAIN T |-> T[q]]
      /\ \A q : q \in DOMAIN T <=> q \in DOMAIN t /\ ~IsPrefix(p, q)
      /\ \A q \in DOMAIN T : T[q] = t[q]
    BY WithoutMeans DEF T
<1>3. ASSUME NEW q \in DOMAIN T, NEW r \in Paths, IsPrefix(r, q), r # q
      PROVE  r \in DOMAIN T /\ T[r] = Dir
    BY <1>1, <1>2, <1>3, PrefixOrder
<1> QED
    BY <1>1, <1>2, <1>3, TreeMeans DEF T

\* A directory or file that was renamed to a free name and back is as it was.
LEMMA MoveBack ==
    ASSUME NEW t, IsTree(t), NEW from \in Paths, NEW to \in Paths,
           to \notin DOMAIN t, ~IsPrefix(from, to), ~IsPrefix(to, from)
    PROVE  Moved(Moved(t, from, to), to, from) = t
<1> DEFINE T == Moved(t, from, to)
           S == Moved(T, to, from)
<1> HIDE DEF T, S, IsPrefix, Rebase
<1>1. t = [q \in DOMAIN t |-> t[q]] /\ DOMAIN t \subseteq Paths
    BY TreeMeans
<1>2. /\ \A q : q \in DOMAIN T <=>
             \/ q \in DOMAIN t /\ ~IsPrefix(from, q) /\ ~IsPrefix(to, q)
             \/ \E r \in DOMAIN t : IsPrefix(from, r) /\ q = Rebase(r, from, to)
      /\ \A q \in DOMAIN t : ~IsPrefix(from, q) /\ ~IsPrefix(to, q) => T[q] = t[q]
      /\ \A r \in DOMAIN t : IsPrefix(from, r) => T[Rebase(r, from, to)] = t[r]
    BY <1>1, MovedMeans DEF T
<1>3. DOMAIN T \subseteq Paths
    BY <1>1, <1>2, RebasePath
<1>4. /\ S = [q \in DOMAIN S |-> S[q]]
      /\ \A q : q \in DOMAIN S <=>
             \/ q \in DOMAIN T /\ ~IsPrefix(to, q) /\ ~IsPrefix(from, q)
             \/ \E r \in DOMAIN T : IsPrefix(to, r) /\ q = Rebase(r, to, from)
      /\ \A q \in DOMAIN T : ~IsPrefix(to, q) /\ ~IsPrefix(from, q) => S[q] = T[q]
      /\ \A r \in DOMAIN T : IsPrefix(to, r) => S[Rebase(r, to, from)] = T[r]
    BY <1>3, MovedMeans DEF S
<1>5. \A q \in DOMAIN t : ~IsPrefix(to, q)
    BY NothingUnder
<1>6. ASSUME NEW r \in DOMAIN t, IsPrefix(from, r)
      PROVE  /\ Rebase(r, from, to) \in DOMAIN T /\ IsPrefix(to, Rebase(r, from, to))
             /\ Rebase(Rebase(r, from, to), to, from) = r
    BY <1>1, <1>2, <1>6, RebasePath
<1>7. ASSUME NEW q \in DOMAIN t PROVE q \in DOMAIN S /\ S[q] = t[q]
    <2>1. CASE IsPrefix(from, q)
        <3> DEFINE r == Rebase(q, from, to)
        <3>1. r \in DOMAIN T /\ IsPrefix(to, r) /\ Rebase(r, to, from) = q /\ T[r] = t[q]
            BY <1>2, <1>6, <2>1
        <3> HIDE DEF r
        <3> QED
            BY <1>4, <3>1
    <2>2. CASE ~IsPrefix(from, q)
        BY <1>2, <1>4, <1>5, <2>2
    <2> QED
        BY <2>1, <2>2
<1>8. ASSUME NEW q \in DOMAIN S PROVE q \in DOMAIN t
    <2>1. CASE q \in DOMAIN T /\ ~IsPrefix(to, q) /\ ~IsPrefix(from, q)
        BY <1>2, <1>6, <2>1
    <2>2. ASSUME NEW r \in DOMAIN T, IsPrefix(to, r), q = Rebase(r, to, from) PROVE q \in DOMAIN t
        BY <1>2, <1>5, <1>6, <2>2
    <2> QED
        BY <1>4, <2>1, <2>2
<1>9. DOMAIN S = DOMAIN t /\ \A q \in DOMAIN t : S[q] = t[q]
    BY <1>7, <1>8
<1>10. S = t
    BY <1>1, <1>4, <1>9
<1> QED
    BY <1>10 DEF S, T

(* ---------------------- what the tree has for others --------------------- *)

\* The tree without the paths that have a component of C.
Strip(t, C) == Without(t, {p \in DOMAIN t : Hits(p, C)})

\* What is left of a tree when the paths with a reserved name are hidden.
LEMMA StripMeans ==
    ASSUME NEW t, NEW C
    PROVE  LET T == Strip(t, C) IN
           /\ T = [q \in DOMAIN T |-> T[q]]
           /\ \A q : q \in DOMAIN T <=> q \in DOMAIN t /\ ~Hits(q, C)
           /\ \A q \in DOMAIN T : T[q] = t[q]
    BY DEF Strip, Without

\* Hiding names the tree has none of changes nothing.
LEMMA StripNothing ==
    ASSUME NEW t, NEW C, t = [q \in DOMAIN t |-> t[q]], \A q \in DOMAIN t : ~Hits(q, C)
    PROVE  Strip(t, C) = t
<1> DEFINE T == Strip(t, C)
<1> HIDE DEF T
<1>1. /\ T = [q \in DOMAIN T |-> T[q]]
      /\ \A q : q \in DOMAIN T <=> q \in DOMAIN t /\ ~Hits(q, C)
      /\ \A q \in DOMAIN T : T[q] = t[q]
    BY StripMeans DEF T
<1>2. DOMAIN T = DOMAIN t
    BY <1>1
<1>3. T = t
    BY <1>1, <1>2
<1> QED
    BY <1>3 DEF T

\* Components that are taken from the tree one after the other.
LEMMA StripTwice ==
    ASSUME NEW t, NEW C, NEW D, C \subseteq D
    PROVE  Strip(Strip(t, C), D) = Strip(t, D)
<1> DEFINE U == Strip(t, C)
           V == Strip(U, D)
           W == Strip(t, D)
<1> HIDE DEF U, V, W
<1>1. /\ \A q : q \in DOMAIN U <=> q \in DOMAIN t /\ ~Hits(q, C)
      /\ \A q \in DOMAIN U : U[q] = t[q]
    BY StripMeans DEF U
<1>2. /\ V = [q \in DOMAIN V |-> V[q]]
      /\ \A q : q \in DOMAIN V <=> q \in DOMAIN U /\ ~Hits(q, D)
      /\ \A q \in DOMAIN V : V[q] = U[q]
    BY StripMeans DEF V
<1>3. /\ W = [q \in DOMAIN W |-> W[q]]
      /\ \A q : q \in DOMAIN W <=> q \in DOMAIN t /\ ~Hits(q, D)
      /\ \A q \in DOMAIN W : W[q] = t[q]
    BY StripMeans DEF W
<1>4. \A q : Hits(q, C) => Hits(q, D)
    BY DEF Hits
<1>5. DOMAIN V = DOMAIN W
    BY <1>1, <1>2, <1>3, <1>4
<1>6. \A q \in DOMAIN V : V[q] = W[q]
    BY <1>1, <1>2, <1>3, <1>5
<1>7. V = W
    BY <1>2, <1>3, <1>5, <1>6
<1> QED
    BY <1>7 DEF U, V, W

\* Removing and hiding commute.
LEMMA StripWithout ==
    ASSUME NEW t, NEW p, NEW C
    PROVE  Strip(Without(t, Under(t, p)), C) = Without(Strip(t, C), Under(Strip(t, C), p))
<1> DEFINE U == Without(t, Under(t, p))
           V == Strip(U, C)
           X == Strip(t, C)
           W == Without(X, Under(X, p))
<1> HIDE DEF U, V, W, X, IsPrefix
<1>1. /\ \A q : q \in DOMAIN U <=> q \in DOMAIN t /\ ~IsPrefix(p, q)
      /\ \A q \in DOMAIN U : U[q] = t[q]
    BY WithoutMeans DEF U
<1>2. /\ V = [q \in DOMAIN V |-> V[q]]
      /\ \A q : q \in DOMAIN V <=> q \in DOMAIN U /\ ~Hits(q, C)
      /\ \A q \in DOMAIN V : V[q] = U[q]
    BY StripMeans DEF V
<1>3. /\ \A q : q \in DOMAIN X <=> q \in DOMAIN t /\ ~Hits(q, C)
      /\ \A q \in DOMAIN X : X[q] = t[q]
    BY StripMeans DEF X
<1>4. /\ W = [q \in DOMAIN W |-> W[q]]
      /\ \A q : q \in DOMAIN W <=> q \in DOMAIN X /\ ~IsPrefix(p, q)
      /\ \A q \in DOMAIN W : W[q] = X[q]
    BY WithoutMeans DEF W
<1>5. DOMAIN V = DOMAIN W
    BY <1>1, <1>2, <1>3, <1>4
<1>6. \A q \in DOMAIN V : V[q] = W[q]
    BY <1>1, <1>2, <1>3, <1>4, <1>5
<1>7. V = W
    BY <1>2, <1>4, <1>5, <1>6
<1> QED
    BY <1>7 DEF U, V, W, X

\* Nothing is to be seen of a file written to, or removed at, a stripped path.
LEMMA StripHidden ==
    ASSUME NEW t, DOMAIN t \subseteq Paths, NEW p \in Paths, NEW C, Hits(p, C), NEW c
    PROVE  /\ Strip(With(t, p, c), C) = Strip(t, C)
           /\ Strip(Without(t, Under(t, p)), C) = Strip(t, C)
<1> DEFINE U == With(t, p, c)
           V == Strip(U, C)
           X == Without(t, Under(t, p))
           Y == Strip(X, C)
           W == Strip(t, C)
<1> HIDE DEF U, V, W, X, Y, IsPrefix
<1>1. /\ \A q : q \in DOMAIN U <=> q \in DOMAIN t \/ q = p
      /\ \A q \in DOMAIN t : q # p => U[q] = t[q]
    BY WithMeans DEF U
<1>2. /\ V = [q \in DOMAIN V |-> V[q]]
      /\ \A q : q \in DOMAIN V <=> q \in DOMAIN U /\ ~Hits(q, C)
      /\ \A q \in DOMAIN V : V[q] = U[q]
    BY StripMeans DEF V
<1>3. /\ W = [q \in DOMAIN W |-> W[q]]
      /\ \A q : q \in DOMAIN W <=> q \in DOMAIN t /\ ~Hits(q, C)
      /\ \A q \in DOMAIN W : W[q] = t[q]
    BY StripMeans DEF W
<1>4. V = W
    <2>1. DOMAIN V = DOMAIN W
        BY <1>1, <1>2, <1>3
    <2>2. \A q \in DOMAIN V : V[q] = W[q]
        BY <1>1, <1>2, <1>3, <2>1
    <2> QED
        BY <1>2, <1>3, <2>1, <2>2
<1>5. /\ \A q : q \in DOMAIN X <=> q \in DOMAIN t /\ ~IsPrefix(p, q)
      /\ \A q \in DOMAIN X : X[q] = t[q]
    BY WithoutMeans DEF X
<1>6. /\ Y = [q \in DOMAIN Y |-> Y[q]]
      /\ \A q : q \in DOMAIN Y <=> q \in DOMAIN X /\ ~Hits(q, C)
      /\ \A q \in DOMAIN Y : Y[q] = X[q]
    BY StripMeans DEF Y
<1>7. \A q \in DOMAIN t : IsPrefix(p, q) => Hits(q, C)
    BY PrefixHits
<1>8. Y = W
    <2>1. DOMAIN Y = DOMAIN W
        BY <1>3, <1>5, <1>6, <1>7
    <2>2. \A q \in DOMAIN Y : Y[q] = W[q]
        BY <1>3, <1>5, <1>6, <2>1
    <2> QED
        BY <1>3, <1>6, <2>1, <2>2
<1> QED
    BY <1>4, <1>8 DEF U, V, W, X, Y

\* Writing a node and hiding names it does not have commute.
LEMMA StripWith ==
    ASSUME NEW t, NEW p, NEW C, ~Hits(p, C), NEW c
    PROVE  Strip(With(t, p, c), C) = With(Strip(t, C), p, c)
<1> DEFINE U == With(t, p, c)
           V == Strip(U, C)
           X == Strip(t, C)
           W == With(X, p, c)
<1> HIDE DEF U, V, W, X
<1>1. /\ \A q : q \in DOMAIN U <=> q \in DOMAIN t \/ q = p
      /\ U[p] = c /\ \A q \in DOMAIN t : q # p => U[q] = t[q]
    BY WithMeans DEF U
<1>2. /\ V = [q \in DOMAIN V |-> V[q]]
      /\ \A q : q \in DOMAIN V <=> q \in DOMAIN U /\ ~Hits(q, C)
      /\ \A q \in DOMAIN V : V[q] = U[q]
    BY StripMeans DEF V
<1>3. /\ \A q : q \in DOMAIN X <=> q \in DOMAIN t /\ ~Hits(q, C)
      /\ \A q \in DOMAIN X : X[q] = t[q]
    BY StripMeans DEF X
<1>4. /\ W = [q \in DOMAIN W |-> W[q]]
      /\ \A q : q \in DOMAIN W <=> q \in DOMAIN X \/ q = p
      /\ W[p] = c /\ \A q \in DOMAIN X : q # p => W[q] = X[q]
    BY WithMeans DEF W
<1>5. DOMAIN V = DOMAIN W
    BY <1>1, <1>2, <1>3, <1>4
<1>6. \A q \in DOMAIN V : V[q] = W[q]
    BY <1>1, <1>2, <1>3, <1>4, <1>5
<1>7. V = W
    BY <1>2, <1>4, <1>5, <1>6
<1> QED
    BY <1>7 DEF U, V, W, X

\* Renaming and hiding names neither end has commute.
LEMMA StripMoved ==
    ASSUME NEW t, DOMAIN t \subseteq Paths, NEW from \in Paths, NEW to \in Paths,
           NEW C, ~Hits(from, C), ~Hits(to, C)
    PROVE  Strip(Moved(t, from, to), C) = Moved(Strip(t, C), from, to)
<1> DEFINE U == Moved(t, from, to)
           V == Strip(U, C)
           X == Strip(t, C)
           W == Moved(X, from, to)
<1> HIDE DEF U, V, W, X, IsPrefix, Rebase
<1>1. /\ \A q : q \in DOMAIN U <=>
             \/ q \in DOMAIN t /\ ~IsPrefix(from, q) /\ ~IsPrefix(to, q)
             \/ \E r \in DOMAIN t : IsPrefix(from, r) /\ q = Rebase(r, from, to)
      /\ \A q \in DOMAIN t : ~IsPrefix(from, q) /\ ~IsPrefix(to, q) => U[q] = t[q]
      /\ \A r \in DOMAIN t : IsPrefix(from, r) => U[Rebase(r, from, to)] = t[r]
    BY MovedMeans DEF U
<1>2. /\ V = [q \in DOMAIN V |-> V[q]]
      /\ \A q : q \in DOMAIN V <=> q \in DOMAIN U /\ ~Hits(q, C)
      /\ \A q \in DOMAIN V : V[q] = U[q]
    BY StripMeans DEF V
<1>3. /\ \A q : q \in DOMAIN X <=> q \in DOMAIN t /\ ~Hits(q, C)
      /\ \A q \in DOMAIN X : X[q] = t[q]
    BY StripMeans DEF X
<1>4. /\ W = [q \in DOMAIN W |-> W[q]]
      /\ \A q : q \in DOMAIN W <=>
             \/ q \in DOMAIN X /\ ~IsPrefix(from, q) /\ ~IsPrefix(to, q)
             \/ \E r \in DOMAIN X : IsPrefix(from, r) /\ q = Rebase(r, from, to)
      /\ \A q \in DOMAIN X : ~IsPrefix(from, q) /\ ~IsPrefix(to, q) => W[q] = X[q]
      /\ \A r \in DOMAIN X : IsPrefix(from, r) => W[Rebase(r, from, to)] = X[r]
    BY <1>3, MovedMeans DEF W
<1>5. \A r \in DOMAIN t : IsPrefix(from, r) => (Hits(Rebase(r, from, to), C) <=> Hits(r, C))
    BY RebaseHits
<1>6. DOMAIN V = DOMAIN W
    BY <1>1, <1>2, <1>3, <1>4, <1>5
<1>7. ASSUME NEW q \in DOMAIN V PROVE V[q] = W[q]
    <2>1. CASE q \in DOMAIN X /\ ~IsPrefix(from, q) /\ ~IsPrefix(to, q)
        BY <1>1, <1>2, <1>3, <1>4, <2>1
    <2>2. ASSUME NEW r \in DOMAIN X, IsPrefix(from, r), q = Rebase(r, from, to) PROVE V[q] = W[q]
        BY <1>1, <1>2, <1>3, <1>4, <1>7, <2>2
    <2> QED
        BY <1>4, <1>6, <1>7, <2>1, <2>2
<1>8. V = W
    BY <1>2, <1>4, <1>6, <1>7
<1> QED
    BY <1>8 DEF U, V, W, X

\* Renamed to a stripped path is as good as gone.
LEMMA StripMovedAway ==
    ASSUME NEW t, DOMAIN t \subseteq Paths, NEW from \in Paths, NEW to \in Paths,
           NEW C, ~Hits(from, C), Hits(to, C)
    PROVE  Strip(Moved(t, from, to), C) = Without(Strip(t, C), Under(Strip(t, C), from))
<1> DEFINE U == Moved(t, from, to)
           V == Strip(U, C)
           X == Strip(t, C)
           W == Without(X, Under(X, from))
<1> HIDE DEF U, V, W, X, IsPrefix, Rebase
<1>1. /\ \A q : q \in DOMAIN U <=>
             \/ q \in DOMAIN t /\ ~IsPrefix(from, q) /\ ~IsPrefix(to, q)
             \/ \E r \in DOMAIN t : IsPrefix(from, r) /\ q = Rebase(r, from, to)
      /\ \A q \in DOMAIN t : ~IsPrefix(from, q) /\ ~IsPrefix(to, q) => U[q] = t[q]
    BY MovedMeans DEF U
<1>2. /\ V = [q \in DOMAIN V |-> V[q]]
      /\ \A q : q \in DOMAIN V <=> q \in DOMAIN U /\ ~Hits(q, C)
      /\ \A q \in DOMAIN V : V[q] = U[q]
    BY StripMeans DEF V
<1>3. /\ \A q : q \in DOMAIN X <=> q \in DOMAIN t /\ ~Hits(q, C)
      /\ \A q \in DOMAIN X : X[q] = t[q]
    BY StripMeans DEF X
<1>4. /\ W = [q \in DOMAIN W |-> W[q]]
      /\ \A q : q \in DOMAIN W <=> q \in DOMAIN X /\ ~IsPrefix(from, q)
      /\ \A q \in DOMAIN W : W[q] = X[q]
    BY WithoutMeans DEF W
<1>5. /\ \A r \in DOMAIN t : IsPrefix(from, r) => Hits(Rebase(r, from, to), C)
      /\ \A q \in DOMAIN t : IsPrefix(to, q) => Hits(q, C)
    BY RebasePath, PrefixHits
<1>6. DOMAIN V = DOMAIN W
    BY <1>1, <1>2, <1>3, <1>4, <1>5
<1>7. \A q \in DOMAIN V : V[q] = W[q]
    BY <1>1, <1>2, <1>3, <1>4, <1>5, <1>6
<1>8. V = W
    BY <1>2, <1>4, <1>6, <1>7
<1> QED
    BY <1>8 DEF U, V, W, X

(* ------------------------ the applier's own paths ------------------------ *)

\* The names that the operations from the k-th on give.
Own(k) == {c \in Pairs : c[1] \in {"bak", "tmp"} /\ c[2] >= k}
\* The tree has none of them.
Fresh(t, k) == \A q \in DOMAIN t : ~Hits(q, Own(k))

\* The names kept for later operations are among those kept for earlier ones.
LEMMA OwnShrinks ==
    ASSUME NEW k \in Nat, NEW m \in Nat, k <= m
    PROVE  Own(m) \subseteq Own(k) /\ \A q : Hits(q, Own(m)) => Hits(q, Own(k))
<1>1. Own(m) \subseteq Own(k)
    BY DEF Own, Pairs
<1> QED
    BY <1>1 DEF Hits

\* A path of the user has none of the reserved names.
LEMMA UserPathMeans ==
    ASSUME NEW p \in Paths
    PROVE  IsUserPath(p) <=> ~Hits(p, Own(0))
<1>1. \A i \in DOMAIN p : p[i] \in Pairs
    BY DEF Paths
<1>2. \A c \in Pairs : c[1] \in {"bak", "tmp"} <=> c \in Own(0)
    BY DEF Own, Pairs
<1> QED
    BY <1>1, <1>2 DEF IsUserPath, Hits

\* The visible tree hides all the reserved names.
LEMMA VisibleMeans ==
    ASSUME NEW t, DOMAIN t \subseteq Paths
    PROVE  Visible(t) = Strip(t, Own(0))
<1>1. {p \in DOMAIN t : ~IsUserPath(p)} = {p \in DOMAIN t : Hits(p, Own(0))}
    BY UserPathMeans
<1> QED
    BY <1>1 DEF Visible, Strip

\* A path beside p that the k-th operation makes.
LEMMA OwnPath ==
    ASSUME NEW p \in Paths, IsUserPath(p), NEW k \in Nat,
           NEW b, b = BackupOf(p, k) \/ b = TempOf(p, k)
    PROVE  /\ b \in Paths /\ b # p /\ ~IsPrefix(b, p) /\ ~IsPrefix(p, b)
           /\ \A m \in Nat : ~Hits(p, Own(m))
           /\ \A m \in Nat : Hits(b, Own(m)) <=> m <= k
           /\ Len(b) = Len(p) /\ Front(b) = Front(p)
<1>1. PICK c \in Pairs : b = Sibling(p, c) /\ (c = <<"bak", k>> \/ c = <<"tmp", k>>)
    <2>1. <<"bak", k>> \in Pairs /\ <<"tmp", k>> \in Pairs
        BY DEF Pairs
    <2>2. b = Sibling(p, <<"bak", k>>) \/ b = Sibling(p, <<"tmp", k>>)
        BY DEF BackupOf, TempOf
    <2> QED
        BY <2>1, <2>2
<1>2. /\ b \in Paths /\ Len(b) = Len(p) /\ b[Len(b)] = c
      /\ \A i \in 1 .. Len(p) - 1 : b[i] = p[i]
      /\ Front(b) = Front(p)
    BY <1>1, SiblingMeans
<1>3. /\ DOMAIN b = 1 .. Len(b) /\ DOMAIN p = 1 .. Len(p) /\ Len(b) \in Nat /\ Len(p) \in Nat
      /\ Len(p) > 0
    BY <1>2 DEF Paths
<1>4. ~Hits(p, Own(0))
    BY UserPathMeans
<1>5. \A m \in Nat : ~Hits(p, Own(m))
    <2>1. \A m \in Nat : Own(m) \subseteq Own(0)
        BY OwnShrinks
    <2> QED
        BY <1>4, <2>1 DEF Hits
<1>6. ASSUME NEW m \in Nat PROVE Hits(b, Own(m)) <=> m <= k
    <2>1. c \in Own(m) <=> m <= k
        BY <1>1 DEF Own, Pairs
    <2>2. \A i \in 1 .. Len(p) - 1 : b[i] \notin Own(m)
        BY <1>2, <1>3, <1>5 DEF Hits
    <2>3. \A i \in 1 .. Len(b) : i = Len(b) \/ i \in 1 .. Len(p) - 1
        <3>1. \A m1 \in Nat : \A i \in 1 .. m1 : i = m1 \/ i \in 1 .. m1 - 1
            OBVIOUS
        <3> QED
            BY <1>2, <1>3, <3>1
    <2>4. Len(b) \in DOMAIN b
        BY <1>2, <1>3
    <2>5. Hits(b, Own(m)) <=> c \in Own(m)
        BY <1>2, <1>3, <2>2, <2>3, <2>4 DEF Hits
    <2> QED
        BY <2>1, <2>5
<1>7. b # p
    BY <1>5, <1>6
<1>8. ~IsPrefix(b, p) /\ ~IsPrefix(p, b)
    <2>1. \A i \in Nat : i \notin 1 .. i - 1
        OBVIOUS
    <2> QED
        BY <1>2, <1>3, <1>7, <2>1, PrefixIs
<1> QED
    BY <1>2, <1>5, <1>6, <1>7, <1>8

\* Renaming between names that are not reserved leaves the reserved ones unused.
LEMMA FreshMoved ==
    ASSUME NEW t, DOMAIN t \subseteq Paths, NEW from \in Paths, NEW to \in Paths, NEW k,
           Fresh(t, k), ~Hits(from, Own(k)), ~Hits(to, Own(k))
    PROVE  Fresh(Moved(t, from, to), k)
<1> DEFINE U == Moved(t, from, to)
<1> HIDE DEF U, IsPrefix, Rebase
<1>1. \A q : q \in DOMAIN U <=>
             \/ q \in DOMAIN t /\ ~IsPrefix(from, q) /\ ~IsPrefix(to, q)
             \/ \E r \in DOMAIN t : IsPrefix(from, r) /\ q = Rebase(r, from, to)
    BY MovedMeans DEF U
<1>2. \A r \in DOMAIN t : IsPrefix(from, r) => (Hits(Rebase(r, from, to), Own(k)) <=> Hits(r, Own(k)))
    BY RebaseHits
<1>3. Fresh(U, k)
    BY <1>1, <1>2 DEF Fresh
<1> QED
    BY <1>3 DEF U

\* The parent of a path exists as long as the directories above the path do.
LEMMA ParentKept ==
    ASSUME NEW t, NEW T, NEW p \in Paths, ParentExists(t, p),
           \A q \in Paths : IsPrefix(q, p) /\ q # p /\ q \in DOMAIN t /\ t[q] = Dir =>
                              q \in DOMAIN T /\ T[q] = Dir
    PROVE  ParentExists(T, p)
<1>1. CASE Len(p) = 1
    BY <1>1 DEF ParentExists
<1>2. CASE Len(p) # 1
    <2>1. Front(p) \in DOMAIN t /\ t[Front(p)] = Dir
        BY <1>2 DEF ParentExists, IsDir, Exists
    <2>2. Len(p) \in Nat /\ Len(p) > 0
        BY DEF Paths
    <2>3. Len(p) - 1 \in 1 .. Len(p) /\ Len(p) - 1 # Len(p)
        <3>1. \A i \in Nat : i > 0 /\ i # 1 => i - 1 \in 1 .. i /\ i - 1 # i
            OBVIOUS
        <3> QED
            BY <1>2, <2>2, <3>1
    <2>4. Front(p) \in Paths /\ IsPrefix(Front(p), p) /\ Len(Front(p)) = Len(p) - 1
        BY <2>3, PrefixOf DEF Front
    <2>5. Front(p) # p
        BY <2>3, <2>4
    <2>6. Front(p) \in DOMAIN T /\ T[Front(p)] = Dir
        BY <2>1, <2>4, <2>5
    <2> QED
        BY <2>6 DEF ParentExists, IsDir, Exists
<1> QED
    BY <1>1, <1>2

\* Two names in one directory have the same parent.
LEMMA ParentBeside ==
    ASSUME NEW t, NEW p, NEW b, Len(b) = Len(p), Front(b) = Front(p)
    PROVE  ParentExists(t, b) <=> ParentExists(t, p)
    BY DEF ParentExists

\* The parent of a node of a tree exists.
LEMMA ParentOfNode ==
    ASSUME NEW t, IsTree(t), NEW p \in DOMAIN t
    PROVE  ParentExists(t, p)
<1>1. p \in Paths
    BY DEF IsTree
<1>2. CASE Len(p) = 1
    BY <1>2 DEF ParentExists
<1>3. CASE Len(p) # 1
    <2>1. Len(p) \in Nat /\ Len(p) > 0
        BY <1>1 DEF Paths
    <2>2. Len(p) - 1 \in 1 .. Len(p) - 1
        <3>1. \A i \in Nat : i > 0 /\ i # 1 => i - 1 \in 1 .. i - 1
            OBVIOUS
        <3> QED
            BY <1>3, <2>1, <3>1
    <2>3. SubSeq(p, 1, Len(p) - 1) \in DOMAIN t /\ t[SubSeq(p, 1, Len(p) - 1)] = Dir
        BY <2>2 DEF IsTree
    <2> QED
        BY <2>3 DEF ParentExists, IsDir, Exists, Front
<1> QED
    BY <1>2, <1>3

\* The renamed directory itself gets the new name.
LEMMA RebaseSelf ==
    ASSUME NEW from \in Paths, NEW to \in Paths
    PROVE  Rebase(from, from, to) = to
<1> DEFINE r == Rebase(from, from, to)
<1>1. from \in Seq(Pairs) /\ to \in Seq(Pairs) /\ Len(from) \in Nat /\ Len(to) \in Nat
    BY DEF Paths
<1>2. IsPrefix(from, from)
    BY PrefixOrder
<1>3. /\ r \in Seq(Pairs) /\ Len(r) = Len(to) + Len(from) - Len(from)
      /\ \A i \in 1 .. Len(to) : r[i] = to[i]
    BY <1>1, <1>2, RebaseMeans
<1> HIDE DEF r
<1>4. Len(r) = Len(to)
    BY <1>1, <1>3
<1>5. r = to
    BY <1>1, <1>3, <1>4, SeqEqual
<1> QED
    BY <1>5 DEF r

(* ------------------------------ system calls ----------------------------- *)

\* os.Rename: what it does, when it can, and that it does all or nothing.
LEMMA RenameMeans ==
    ASSUME NEW t, NEW p, NEW q
    PROVE  /\ Effect(t, Move(p, q)) = IF p = q THEN t ELSE Moved(t, p, q)
           /\ Possible(t, Move(p, q)) <=>
                  /\ p \in DOMAIN t /\ ParentExists(t, q)
                  /\ IsPrefix(p, q) => p = q
                  /\ q \in DOMAIN t => (IsDir(t, p) <=> IsDir(t, q)) /\ Under(t, q) = {q}
           /\ Residues(t, Move(p, q)) = {t}
<1> HIDE DEF IsPrefix
<1> QED
    BY DEF Effect, Possible, Residues, Move, Exists

\* os.Remove and os.RemoveAll: what they do, when they can, and that they do all or
\* nothing.
LEMMA RemoveMeans ==
    ASSUME NEW t, NEW p
    PROVE  /\ Effect(t, Unlink(p)) = Without(t, Under(t, p))
           /\ Possible(t, Unlink(p)) <=> Under(t, p) = {p}
           /\ Residues(t, Unlink(p)) = {t}
           /\ Effect(t, UnlinkAll(p)) = Without(t, Under(t, p))
           /\ Possible(t, UnlinkAll(p))
           /\ Residues(t, UnlinkAll(p)) = {t}
BY DEF Effect, Possible, Residues, Unlink, UnlinkAll

\* os.WriteFile, os.CreateTemp, O_EXCL and Close: what they do, when they can, and what
\* a failing one leaves.
LEMMA WriteMeans ==
    ASSUME NEW t, NEW p, NEW c
    PROVE  /\ Effect(t, Write(p, c)) = With(t, p, c)
           /\ Possible(t, Write(p, c)) <=> ParentExists(t, p) /\ ~IsDir(t, p)
           /\ Residues(t, Write(p, c)) \subseteq {t, With(t, p, Partial)}
           /\ Effect(t, Reserve(p)) = t
           /\ Possible(t, Reserve(p)) <=> ParentExists(t, p) /\ ~IsDir(t, p)
           /\ Residues(t, Reserve(p)) \subseteq {t, With(t, p, Empty)}
           /\ Effect(t, Create(p)) = With(t, p, Empty)
           /\ Possible(t, Create(p)) <=> ParentExists(t, p) /\ p \notin DOMAIN t
           /\ Residues(t, Create(p)) = {t}
           /\ Effect(t, Close(p)) = t
           /\ Possible(t, Close(p))
           /\ Residues(t, Close(p)) = {t}
BY DEF Effect, Possible, Residues, Write, Reserve, Create, Close, Exists

\* A file or directory that is renamed to a name of the applier's, with what
\* that makes possible and how it is undone.
LEMMA MoveAside ==
    ASSUME NEW s, IsTree(s), NEW p \in DOMAIN s, IsUserPath(p), NEW k \in Nat,
           NEW b, b = BackupOf(p, k), \A q \in DOMAIN s : ~IsPrefix(b, q)
    PROVE  LET M == Moved(s, p, b) IN
           /\ Possible(s, Reserve(b)) /\ Possible(s, Move(p, b))
           /\ Effect(s, Move(p, b)) = M
           /\ IsTree(M) /\ p \notin DOMAIN M /\ b \in DOMAIN M /\ M[b] = s[p]
           /\ ParentExists(M, p)
           /\ Possible(M, Move(b, p)) /\ Effect(M, Move(b, p)) = s
           /\ \A q \in DOMAIN s : ~IsPrefix(p, q) => q \in DOMAIN M /\ M[q] = s[q]
<1> DEFINE M == Moved(s, p, b)
<1> HIDE DEF M, IsPrefix, Rebase
<1>1. /\ p \in Paths /\ b \in Paths /\ b # p /\ ~IsPrefix(b, p) /\ ~IsPrefix(p, b)
      /\ Len(b) = Len(p) /\ Front(b) = Front(p) /\ DOMAIN s \subseteq Paths
    BY OwnPath DEF IsTree
<1>2. ParentExists(s, p) /\ ParentExists(s, b)
    BY <1>1, ParentOfNode, ParentBeside
<1>3. b \notin DOMAIN s
    BY <1>1, PrefixOrder
<1>4. Possible(s, Reserve(b)) /\ Possible(s, Move(p, b)) /\ Effect(s, Move(p, b)) = M
    <2>1. ParentExists(s, b) /\ ~IsDir(s, b)
        BY <1>2, <1>3 DEF IsDir, Exists
    <2>2. Possible(s, Reserve(b))
        BY <2>1, WriteMeans
    <2>3. p # b /\ p \in DOMAIN s /\ ~IsPrefix(p, b) /\ b \notin DOMAIN s
        BY <1>1, <1>3
    <2>4. Possible(s, Move(p, b)) /\ Effect(s, Move(p, b)) = Moved(s, p, b)
        BY <2>1, <2>3, RenameMeans
    <2> QED
        BY <2>2, <2>4 DEF M
<1>5. IsTree(M)
    BY <1>1, <1>2, MovedTree DEF M
<1>6. /\ \A q : q \in DOMAIN M <=>
             \/ q \in DOMAIN s /\ ~IsPrefix(p, q) /\ ~IsPrefix(b, q)
             \/ \E r \in DOMAIN s : IsPrefix(p, r) /\ q = Rebase(r, p, b)
      /\ \A q \in DOMAIN s : ~IsPrefix(p, q) /\ ~IsPrefix(b, q) => M[q] = s[q]
      /\ \A r \in DOMAIN s : IsPrefix(p, r) => M[Rebase(r, p, b)] = s[r]
    BY <1>1, MovedMeans DEF M
<1>7. \A q \in DOMAIN s : ~IsPrefix(p, q) => q \in DOMAIN M /\ M[q] = s[q]
    BY <1>6
<1>8. Rebase(p, p, b) = b
    BY <1>1, RebaseSelf
<1>9. b \in DOMAIN M /\ M[b] = s[p]
    BY <1>1, <1>6, <1>8, PrefixOrder
<1>10. p \notin DOMAIN M
    <2>1. \A r \in DOMAIN s : IsPrefix(p, r) => IsPrefix(b, Rebase(r, p, b))
        BY <1>1, RebasePath
    <2> QED
        BY <1>1, <1>6, <2>1, PrefixOrder
<1>11. ParentExists(M, p)
    <2>1. ASSUME NEW q \in Paths, IsPrefix(q, p), q # p, q \in DOMAIN s, s[q] = Dir
          PROVE  q \in DOMAIN M /\ M[q] = Dir
        BY <1>1, <1>7, <2>1, PrefixOrder
    <2> QED
        BY <1>1, <1>2, <2>1, ParentKept
<1>12. Possible(M, Move(b, p))
    BY <1>1, <1>9, <1>10, <1>11, RenameMeans
<1>13. Effect(M, Move(b, p)) = s
    BY <1>1, <1>3, RenameMeans, MoveBack DEF M
<1> QED
    BY <1>4, <1>5, <1>7, <1>9, <1>10, <1>11, <1>12, <1>13 DEF M

(* --------------------- files beside and over other files ----------------- *)

\* Two trees with the same nodes are the same tree.
LEMMA SameTree ==
    ASSUME NEW t, NEW T, t = [q \in DOMAIN t |-> t[q]], T = [q \in DOMAIN T |-> T[q]],
           \A q : q \in DOMAIN t <=> q \in DOMAIN T, \A q \in DOMAIN t : t[q] = T[q]
    PROVE  t = T
<1>1. DOMAIN t = DOMAIN T
    OBVIOUS
<1>2. [q \in DOMAIN t |-> t[q]] = [q \in DOMAIN T |-> T[q]]
    BY <1>1
<1> QED
    BY <1>2

\* A file that is made where nothing is, and unlinked again.
LEMMA WithoutWith ==
    ASSUME NEW t, t = [q \in DOMAIN t |-> t[q]], NEW p \in Paths, NEW c,
           \A q \in DOMAIN t : ~IsPrefix(p, q)
    PROVE  LET T == With(t, p, c) IN Under(T, p) = {p} /\ Without(T, Under(T, p)) = t
<1> DEFINE T == With(t, p, c)
           U == Without(T, Under(T, p))
<1> HIDE DEF IsPrefix, T, U
<1>1. IsPrefix(p, p)
    BY PrefixOrder
<1>2. /\ \A q : q \in DOMAIN T <=> q \in DOMAIN t \/ q = p
      /\ \A q \in DOMAIN t : q # p => T[q] = t[q]
    BY WithMeans DEF T
<1>3. /\ U = [q \in DOMAIN U |-> U[q]]
      /\ \A q : q \in DOMAIN U <=> q \in DOMAIN T /\ ~IsPrefix(p, q)
      /\ \A q \in DOMAIN U : U[q] = T[q]
    BY WithoutMeans DEF U
<1>4. Under(T, p) = {p}
    BY <1>1, <1>2 DEF Under
<1>5. \A q : q \in DOMAIN U <=> q \in DOMAIN t
    BY <1>1, <1>2, <1>3
<1>6. \A q \in DOMAIN U : U[q] = t[q]
    BY <1>1, <1>2, <1>3, <1>5
<1>7. U = t
    BY <1>3, <1>5, <1>6, SameTree
<1> QED
    BY <1>4, <1>7 DEF T, U

\* A rename onto a file replaces it.
LEMMA MovedOverFile ==
    ASSUME NEW t, DOMAIN t \subseteq Paths, NEW from \in Paths, NEW to \in Paths, NEW c,
           \A q \in DOMAIN t : ~IsPrefix(to, q), ~IsPrefix(from, to)
    PROVE  Moved(With(t, to, c), from, to) = Moved(t, from, to)
<1> DEFINE T == With(t, to, c)
           U == Moved(T, from, to)
           V == Moved(t, from, to)
<1> HIDE DEF IsPrefix, Rebase, T, U, V
<1>1. IsPrefix(to, to)
    BY PrefixOrder
<1>2. /\ \A q : q \in DOMAIN T <=> q \in DOMAIN t \/ q = to
      /\ \A q \in DOMAIN t : q # to => T[q] = t[q]
      /\ DOMAIN T \subseteq Paths
    BY WithMeans DEF T
<1>3. /\ U = [q \in DOMAIN U |-> U[q]]
      /\ \A q : q \in DOMAIN U <=>
             \/ q \in DOMAIN T /\ ~IsPrefix(from, q) /\ ~IsPrefix(to, q)
             \/ \E r \in DOMAIN T : IsPrefix(from, r) /\ q = Rebase(r, from, to)
      /\ \A q \in DOMAIN T : ~IsPrefix(from, q) /\ ~IsPrefix(to, q) => U[q] = T[q]
      /\ \A r \in DOMAIN T : IsPrefix(from, r) => U[Rebase(r, from, to)] = T[r]
    BY <1>2, MovedMeans DEF U
<1>4. /\ V = [q \in DOMAIN V |-> V[q]]
      /\ \A q : q \in DOMAIN V <=>
             \/ q \in DOMAIN t /\ ~IsPrefix(from, q) /\ ~IsPrefix(to, q)
             \/ \E r \in DOMAIN t : IsPrefix(from, r) /\ q = Rebase(r, from, to)
      /\ \A q \in DOMAIN t : ~IsPrefix(from, q) /\ ~IsPrefix(to, q) => V[q] = t[q]
      /\ \A r \in DOMAIN t : IsPrefix(from, r) => V[Rebase(r, from, to)] = t[r]
    BY MovedMeans DEF V
<1>5. \A q \in DOMAIN t : q # to
    BY <1>1
<1>6. \A r : r \in DOMAIN T /\ IsPrefix(from, r) <=> r \in DOMAIN t /\ IsPrefix(from, r)
    BY <1>2
<1>7. \A q : q \in DOMAIN U <=> q \in DOMAIN V
    BY <1>1, <1>2, <1>3, <1>4, <1>6
<1>8. ASSUME NEW q \in DOMAIN U PROVE U[q] = V[q]
    <2>1. CASE q \in DOMAIN T /\ ~IsPrefix(from, q) /\ ~IsPrefix(to, q)
        BY <2>1, <1>1, <1>2, <1>3, <1>4
    <2>2. CASE \E r \in DOMAIN T : IsPrefix(from, r) /\ q = Rebase(r, from, to)
        BY <2>2, <1>2, <1>3, <1>4, <1>5, <1>6
    <2> QED
        BY <2>1, <2>2, <1>3
<1>9. U = V
    BY <1>3, <1>4, <1>7, <1>8, SameTree
<1> QED
    BY <1>9 DEF T, U, V

\* A file that is made and renamed is made under its new name.
LEMMA MovedLeaf ==
    ASSUME NEW t, DOMAIN t \subseteq Paths, t = [q \in DOMAIN t |-> t[q]],
           NEW from \in Paths, NEW to \in Paths, NEW c, ~IsPrefix(from, to),
           \A q \in DOMAIN t : ~IsPrefix(from, q) /\ ~IsPrefix(to, q)
    PROVE  Moved(With(t, from, c), from, to) = With(t, to, c)
<1> DEFINE T == With(t, from, c)
           U == Moved(T, from, to)
           V == With(t, to, c)
<1> HIDE DEF IsPrefix, Rebase, T, U, V
<1>1. IsPrefix(from, from) /\ IsPrefix(to, to) /\ Rebase(from, from, to) = to
    BY PrefixOrder, RebaseSelf
<1>2. /\ \A q : q \in DOMAIN T <=> q \in DOMAIN t \/ q = from
      /\ T[from] = c
      /\ \A q \in DOMAIN t : q # from => T[q] = t[q]
      /\ DOMAIN T \subseteq Paths
    BY WithMeans DEF T
<1>3. /\ U = [q \in DOMAIN U |-> U[q]]
      /\ \A q : q \in DOMAIN U <=>
             \/ q \in DOMAIN T /\ ~IsPrefix(from, q) /\ ~IsPrefix(to, q)
             \/ \E r \in DOMAIN T : IsPrefix(from, r) /\ q = Rebase(r, from, to)
      /\ \A q \in DOMAIN T : ~IsPrefix(from, q) /\ ~IsPrefix(to, q) => U[q] = T[q]
      /\ \A r \in DOMAIN T : IsPrefix(from, r) => U[Rebase(r, from, to)] = T[r]
    BY <1>2, MovedMeans DEF U
<1>4. /\ V = [q \in DOMAIN V |-> V[q]]
      /\ \A q : q \in DOMAIN V <=> q \in DOMAIN t \/ q = to
      /\ V[to] = c
      /\ \A q \in DOMAIN t : q # to => V[q] = t[q]
    BY WithMeans DEF V
<1>5. \A r : r \in DOMAIN T /\ IsPrefix(from, r) <=> r = from
    BY <1>1, <1>2
<1>6. \A q : q \in DOMAIN T /\ ~IsPrefix(from, q) /\ ~IsPrefix(to, q) <=> q \in DOMAIN t
    BY <1>1, <1>2
<1>7. \A q : q \in DOMAIN U <=> q \in DOMAIN V
    BY <1>1, <1>3, <1>4, <1>5, <1>6
<1>8. ASSUME NEW q \in DOMAIN U PROVE U[q] = V[q]
    <2>1. CASE q \in DOMAIN t
        BY <2>1, <1>1, <1>2, <1>3, <1>4, <1>6
    <2>2. CASE q = to
        BY <2>2, <1>1, <1>2, <1>3, <1>4, <1>5
    <2> QED
        BY <2>1, <2>2, <1>4, <1>7
<1>9. U = V
    BY <1>3, <1>4, <1>7, <1>8, SameTree
<1> QED
    BY <1>9 DEF T, U, V

\* A rename leaves the file x beside it alone.
LEMMA MovedBeside ==
    ASSUME NEW t, DOMAIN t \subseteq Paths, NEW from \in Paths, NEW to \in Paths,
           NEW x \in Paths, NEW c, ~IsPrefix(from, x), ~IsPrefix(to, x)
    PROVE  Moved(With(t, x, c), from, to) = With(Moved(t, from, to), x, c)
<1> DEFINE T == With(t, x, c)
           U == Moved(T, from, to)
           W == Moved(t, from, to)
           V == With(W, x, c)
<1> HIDE DEF IsPrefix, Rebase, T, U, V, W
<1>2. /\ \A q : q \in DOMAIN T <=> q \in DOMAIN t \/ q = x
      /\ T[x] = c
      /\ \A q \in DOMAIN t : q # x => T[q] = t[q]
      /\ DOMAIN T \subseteq Paths
    BY WithMeans DEF T
<1>3. /\ U = [q \in DOMAIN U |-> U[q]]
      /\ \A q : q \in DOMAIN U <=>
             \/ q \in DOMAIN T /\ ~IsPrefix(from, q) /\ ~IsPrefix(to, q)
             \/ \E r \in DOMAIN T : IsPrefix(from, r) /\ q = Rebase(r, from, to)
      /\ \A q \in DOMAIN T : ~IsPrefix(from, q) /\ ~IsPrefix(to, q) => U[q] = T[q]
      /\ \A r \in DOMAIN T : IsPrefix(from, r) => U[Rebase(r, from, to)] = T[r]
    BY <1>2, MovedMeans DEF U
<1>4. /\ \A q : q \in DOMAIN W <=>
             \/ q \in DOMAIN t /\ ~IsPrefix(from, q) /\ ~IsPrefix(to, q)
             \/ \E r \in DOMAIN t : IsPrefix(from, r) /\ q = Rebase(r, from, to)
      /\ \A q \in DOMAIN t : ~IsPrefix(from, q) /\ ~IsPrefix(to, q) => W[q] = t[q]
      /\ \A r \in DOMAIN t : IsPrefix(from, r) => W[Rebase(r, from, to)] = t[r]
    BY MovedMeans DEF W
<1>5. /\ V = [q \in DOMAIN V |-> V[q]]
      /\ \A q : q \in DOMAIN V <=> q \in DOMAIN W \/ q = x
      /\ V[x] = c
      /\ \A q \in DOMAIN W : q # x => V[q] = W[q]
    BY WithMeans DEF V
<1>6. \A r : r \in DOMAIN T /\ IsPrefix(from, r) <=> r \in DOMAIN t /\ IsPrefix(from, r)
    BY <1>2
<1>7. \A q : q \in DOMAIN U <=> q \in DOMAIN V
    BY <1>2, <1>3, <1>4, <1>5, <1>6
<1>8. ASSUME NEW q \in DOMAIN U PROVE U[q] = V[q]
    <2>1. CASE q = x
        BY <2>1, <1>2, <1>3, <1>5
    <2>2. CASE q # x /\ q \in DOMAIN T /\ ~IsPrefix(from, q) /\ ~IsPrefix(to, q)
        BY <2>2, <1>2, <1>3, <1>4, <1>5
    <2>3. CASE q # x /\ \E r \in DOMAIN T : IsPrefix(from, r) /\ q = Rebase(r, from, to)
        <3>1. PICK r \in DOMAIN T : IsPrefix(from, r) /\ q = Rebase(r, from, to)
            BY <2>3
        <3>2. r \in DOMAIN t /\ r # x
            BY <3>1, <1>6
        <3>3. U[q] = T[r] /\ T[r] = t[r] /\ W[q] = t[r] /\ q \in DOMAIN W
            BY <3>1, <3>2, <1>2, <1>3, <1>4
        <3> QED
            BY <3>3, <2>3, <1>5
    <2> QED
        BY <2>1, <2>2, <2>3, <1>3
<1>9. U = V
    BY <1>3, <1>5, <1>7, <1>8, SameTree
<1> QED
    BY <1>9 DEF T, U, V, W

\* What is under the target of a rename is gone, removed before or not.
LEMMA MovedOverNothing ==
    ASSUME NEW t, DOMAIN t \subseteq Paths, NEW from \in Paths, NEW to \in Paths,
           ~IsPrefix(from, to), ~IsPrefix(to, from)
    PROVE  Moved(Without(t, Under(t, to)), from, to) = Moved(t, from, to)
<1> DEFINE T == Without(t, Under(t, to))
           U == Moved(T, from, to)
           V == Moved(t, from, to)
<1> HIDE DEF IsPrefix, Rebase, T, U, V
<1>2. /\ \A q : q \in DOMAIN T <=> q \in DOMAIN t /\ ~IsPrefix(to, q)
      /\ \A q \in DOMAIN T : T[q] = t[q]
      /\ DOMAIN T \subseteq Paths
    BY WithoutMeans DEF T
<1>3. /\ U = [q \in DOMAIN U |-> U[q]]
      /\ \A q : q \in DOMAIN U <=>
             \/ q \in DOMAIN T /\ ~IsPrefix(from, q) /\ ~IsPrefix(to, q)
             \/ \E r \in DOMAIN T : IsPrefix(from, r) /\ q = Rebase(r, from, to)
      /\ \A q \in DOMAIN T : ~IsPrefix(from, q) /\ ~IsPrefix(to, q) => U[q] = T[q]
      /\ \A r \in DOMAIN T : IsPrefix(from, r) => U[Rebase(r, from, to)] = T[r]
    BY <1>2, MovedMeans DEF U
<1>4. /\ V = [q \in DOMAIN V |-> V[q]]
      /\ \A q : q \in DOMAIN V <=>
             \/ q \in DOMAIN t /\ ~IsPrefix(from, q) /\ ~IsPrefix(to, q)
             \/ \E r \in DOMAIN t : IsPrefix(from, r) /\ q = Rebase(r, from, to)
      /\ \A q \in DOMAIN t : ~IsPrefix(from, q) /\ ~IsPrefix(to, q) => V[q] = t[q]
      /\ \A r \in DOMAIN t : IsPrefix(from, r) => V[Rebase(r, from, to)] = t[r]
    BY MovedMeans DEF V
<1>6. \A r : r \in DOMAIN T /\ IsPrefix(from, r) <=> r \in DOMAIN t /\ IsPrefix(from, r)
    <2>1. \A r \in Paths : IsPrefix(from, r) => ~IsPrefix(to, r)
        BY PrefixOrder
    <2> QED
        BY <1>2, <2>1
<1>7. \A q : q \in DOMAIN U <=> q \in DOMAIN V
    BY <1>2, <1>3, <1>4, <1>6
<1>8. ASSUME NEW q \in DOMAIN U PROVE U[q] = V[q]
    <2>1. CASE q \in DOMAIN T /\ ~IsPrefix(from, q) /\ ~IsPrefix(to, q)
        BY <2>1, <1>2, <1>3, <1>4
    <2>2. CASE \E r \in DOMAIN T : IsPrefix(from, r) /\ q = Rebase(r, from, to)
        BY <2>2, <1>2, <1>3, <1>4, <1>6
    <2> QED
        BY <2>1, <2>2, <1>3
<1>9. U = V
    BY <1>3, <1>4, <1>7, <1>8, SameTree
<1> QED
    BY <1>9 DEF T, U, V

\* Replacing a file, or making one where nothing is.
LEMMA WithOver ==
    ASSUME NEW t, NEW p \in Paths, NEW c, \A q \in DOMAIN t : IsPrefix(p, q) => q = p
    PROVE  With(Without(t, Under(t, p)), p, c) = With(t, p, c)
<1> DEFINE T == Without(t, Under(t, p))
           U == With(T, p, c)
           V == With(t, p, c)
<1> HIDE DEF IsPrefix, T, U, V
<1>1. /\ \A q : q \in DOMAIN T <=> q \in DOMAIN t /\ ~IsPrefix(p, q)
      /\ \A q \in DOMAIN T : T[q] = t[q]
    BY WithoutMeans DEF T
<1>2. /\ U = [q \in DOMAIN U |-> U[q]]
      /\ \A q : q \in DOMAIN U <=> q \in DOMAIN T \/ q = p
      /\ U[p] = c
      /\ \A q \in DOMAIN T : q # p => U[q] = T[q]
    BY WithMeans DEF U
<1>3. /\ V = [q \in DOMAIN V |-> V[q]]
      /\ \A q : q \in DOMAIN V <=> q \in DOMAIN t \/ q = p
      /\ V[p] = c
      /\ \A q \in DOMAIN t : q # p => V[q] = t[q]
    BY WithMeans DEF V
<1>4. \A q : q \in DOMAIN U <=> q \in DOMAIN V
    BY <1>1, <1>2, <1>3
<1>5. \A q \in DOMAIN U : U[q] = V[q]
    BY <1>1, <1>2, <1>3
<1>6. U = V
    BY <1>2, <1>3, <1>4, <1>5, SameTree
<1> QED
    BY <1>6 DEF T, U, V

(* ------------------------- undoing what was done ------------------------- *)

\* A call that leaves the names in C alone.
Harmless(c, C) ==
    \/ \E p \in Paths : (c = Unlink(p) \/ c = UnlinkAll(p)) /\ ~Hits(p, C)
    \/ \E p \in Paths, q \in Paths : c = Move(p, q) /\ ~Hits(p, C) /\ ~Hits(q, C)

\* The undo list u leads from t back to s, also without its quiet call.
Undoes(u, t, s, C) ==
    \/ u = <<>> /\ t = s
    \/ \E d : u = <<Loud(d)>> /\ Harmless(d, C) /\ Effect(t, d) = s
    \/ \E a, d : /\ u = <<Loud(a), Loud(d)>> /\ Harmless(a, C) /\ Harmless(d, C)
                 /\ Effect(Effect(t, a), d) = s
    \/ \E a, d : /\ u = <<Quiet(a), Loud(d)>> /\ Harmless(a, C) /\ Harmless(d, C)
                 /\ Effect(Effect(t, a), d) = s /\ Effect(t, d) = s

\* No call of u is refused.
Goes(u, t) ==
    /\ u # <<>> => Possible(t, u[1].call)
    /\ Len(u) = 2 => Possible(Effect(t, u[1].call), u[2].call)

\* A harmless call does all or nothing, and does to the tree without the names C what it
\* does to the tree.
LEMMA HarmlessMeans ==
    ASSUME NEW t, DOMAIN t \subseteq Paths, NEW c, NEW C, Harmless(c, C)
    PROVE  /\ Residues(t, c) = {t} /\ DOMAIN Effect(t, c) \subseteq Paths
           /\ Strip(Effect(t, c), C) = Effect(Strip(t, C), c)
<1> HIDE DEF IsPrefix, Rebase
<1>1. CASE \E p \in Paths : (c = Unlink(p) \/ c = UnlinkAll(p)) /\ ~Hits(p, C)
    <2>1. PICK p \in Paths : (c = Unlink(p) \/ c = UnlinkAll(p)) /\ ~Hits(p, C)
        BY <1>1
    <2>2. /\ Residues(t, c) = {t} /\ Effect(t, c) = Without(t, Under(t, p))
          /\ Effect(Strip(t, C), c) = Without(Strip(t, C), Under(Strip(t, C), p))
        BY <2>1, RemoveMeans
    <2>3. DOMAIN Without(t, Under(t, p)) \subseteq Paths
        BY WithoutMeans
    <2> QED
        BY <2>2, <2>3, StripWithout
<1>2. CASE \E p \in Paths, q \in Paths : c = Move(p, q) /\ ~Hits(p, C) /\ ~Hits(q, C)
    <2>1. PICK p \in Paths, q \in Paths : c = Move(p, q) /\ ~Hits(p, C) /\ ~Hits(q, C)
        BY <1>2
    <2>2. /\ Residues(t, c) = {t} /\ Effect(t, c) = IF p = q THEN t ELSE Moved(t, p, q)
          /\ Effect(Strip(t, C), c) = IF p = q THEN Strip(t, C) ELSE Moved(Strip(t, C), p, q)
        BY <2>1, RenameMeans
    <2>3. DOMAIN Moved(t, p, q) \subseteq Paths
        <3>1. \A r \in DOMAIN Moved(t, p, q) :
                  r \in DOMAIN t \/ \E x \in DOMAIN t : IsPrefix(p, x) /\ r = Rebase(x, p, q)
            BY MovedMeans
        <3>2. \A x \in DOMAIN t : IsPrefix(p, x) => Rebase(x, p, q) \in Paths
            BY RebasePath
        <3> QED
            BY <3>1, <3>2
    <2>4. Strip(Moved(t, p, q), C) = Moved(Strip(t, C), p, q)
        BY <2>1, StripMoved
    <2> QED
        BY <2>2, <2>3, <2>4
<1> QED
    BY <1>1, <1>2 DEF Harmless

\* A call that is harmless to more names is harmless to fewer.
LEMMA HarmlessLess ==
    ASSUME NEW c, NEW C, NEW D \in SUBSET C, Harmless(c, C)
    PROVE  Harmless(c, D)
<1>1. \A p : Hits(p, D) => Hits(p, C)
    BY DEF Hits
<1> QED
    BY <1>1 DEF Harmless

\* What undoes a tree when many names are hidden undoes it when fewer are.
LEMMA UndoesLess ==
    ASSUME NEW u, NEW t, NEW s, NEW C, NEW D \in SUBSET C, Undoes(u, t, s, C)
    PROVE  Undoes(u, t, s, D)
<1>1. \A c : Harmless(c, C) => Harmless(c, D)
    BY HarmlessLess
<1> HIDE DEF Loud, Quiet, Effect, Harmless
<1> QED
    BY <1>1 DEF Undoes

\* One call of an undo list, done or, when it is quiet, not done.
LEMMA UndoStep ==
    ASSUME NEW u, NEW t, NEW s, NEW C, Undoes(u, t, s, C), u # <<>>
    PROVE  /\ Harmless(Head(u).call, C)
           /\ Undoes(Tail(u), Effect(t, Head(u).call), s, C)
           /\ ~Head(u).loud => Undoes(Tail(u), t, s, C)
           /\ Goes(u, t) => Possible(t, Head(u).call) /\ Goes(Tail(u), Effect(t, Head(u).call))
<1>1. CASE \E d : u = <<Loud(d)>> /\ Harmless(d, C) /\ Effect(t, d) = s
    <2>1. PICK d : u = <<Loud(d)>> /\ Harmless(d, C) /\ Effect(t, d) = s
        BY <1>1
    <2>2. Head(u) = Loud(d) /\ Tail(u) = <<>> /\ u[1] = Loud(d)
        BY <2>1
    <2>3. Head(u).call = d /\ Head(u).loud
        BY <2>2 DEF Loud
    <2>4. Len(<<>>) = 0
        OBVIOUS
    <2> HIDE DEF Effect, Harmless, Possible
    <2> QED
        BY <2>1, <2>2, <2>3, <2>4 DEF Undoes, Goes
<1>2. CASE \E a, d : \E l \in BOOLEAN :
               /\ u = <<[call |-> a, loud |-> l], Loud(d)>> /\ Harmless(a, C) /\ Harmless(d, C)
               /\ Effect(Effect(t, a), d) = s /\ (~l => Effect(t, d) = s)
    <2>1. PICK a, d : \E l \in BOOLEAN :
               /\ u = <<[call |-> a, loud |-> l], Loud(d)>> /\ Harmless(a, C) /\ Harmless(d, C)
               /\ Effect(Effect(t, a), d) = s /\ (~l => Effect(t, d) = s)
        BY <1>2
    <2>2. PICK l \in BOOLEAN :
               /\ u = <<[call |-> a, loud |-> l], Loud(d)>> /\ Harmless(a, C) /\ Harmless(d, C)
               /\ Effect(Effect(t, a), d) = s /\ (~l => Effect(t, d) = s)
        BY <2>1
    <2> DEFINE x == [call |-> a, loud |-> l]
               y == Loud(d)
    <2>3. u = <<x, y>>
        BY <2>2
    <2>4. x.call = a /\ x.loud = l /\ y.call = d
        BY DEF Loud
    <2> HIDE DEF x, y
    <2>5. Head(u) = x /\ Tail(u) = <<y>> /\ u[1] = x /\ u[2] = y /\ Len(u) = 2
        BY <2>3
    <2>6. <<y>>[1] = y /\ <<y>> # <<>> /\ Len(<<y>>) = 1
        OBVIOUS
    <2> HIDE DEF Effect, Harmless, Possible
    <2>7. /\ Undoes(<<y>>, Effect(t, a), s, C)
          /\ ~l => Undoes(<<y>>, t, s, C)
        <3>1. <<y>> = <<Loud(d)>>
            BY DEF y
        <3> QED
            BY <2>2, <3>1 DEF Undoes
    <2>8. Goes(u, t) => Possible(t, a) /\ Goes(<<y>>, Effect(t, a))
        BY <2>3, <2>4, <2>5, <2>6 DEF Goes
    <2> QED
        BY <2>2, <2>4, <2>5, <2>7, <2>8
<1> QED
    <2>1. \A a : Loud(a) = [call |-> a, loud |-> TRUE] /\ Quiet(a) = [call |-> a, loud |-> FALSE]
        BY DEF Loud, Quiet
    <2> HIDE DEF Effect, Harmless, Possible, Goes
    <2>2. \/ \E d : u = <<Loud(d)>> /\ Harmless(d, C) /\ Effect(t, d) = s
          \/ \E a, d : /\ u = <<Loud(a), Loud(d)>> /\ Harmless(a, C) /\ Harmless(d, C)
                       /\ Effect(Effect(t, a), d) = s
          \/ \E a, d : /\ u = <<Quiet(a), Loud(d)>> /\ Harmless(a, C) /\ Harmless(d, C)
                       /\ Effect(Effect(t, a), d) = s /\ Effect(t, d) = s
        BY DEF Undoes
    <2>3. CASE \E a, d : /\ u = <<Loud(a), Loud(d)>> /\ Harmless(a, C) /\ Harmless(d, C)
                         /\ Effect(Effect(t, a), d) = s
        <3>1. PICK a, d : /\ u = <<Loud(a), Loud(d)>> /\ Harmless(a, C) /\ Harmless(d, C)
                          /\ Effect(Effect(t, a), d) = s
            BY <2>3
        <3>2. u = <<[call |-> a, loud |-> TRUE], Loud(d)>>
            BY <3>1, <2>1
        <3> QED
            BY <3>1, <3>2, <1>2
    <2>4. CASE \E a, d : /\ u = <<Quiet(a), Loud(d)>> /\ Harmless(a, C) /\ Harmless(d, C)
                         /\ Effect(Effect(t, a), d) = s /\ Effect(t, d) = s
        <3>1. PICK a, d : /\ u = <<Quiet(a), Loud(d)>> /\ Harmless(a, C) /\ Harmless(d, C)
                          /\ Effect(Effect(t, a), d) = s /\ Effect(t, d) = s
            BY <2>4
        <3>2. u = <<[call |-> a, loud |-> FALSE], Loud(d)>>
            BY <3>1, <2>1
        <3> QED
            BY <3>1, <3>2, <1>2
    <2> QED
        BY <2>2, <2>3, <2>4, <1>1

(* ------------------------ what the operations do ------------------------- *)

\* The names of operation k that are unused stay unused for the later operations; hiding
\* them hides nothing.
LEMMA FreshMeans ==
    ASSUME NEW t, DOMAIN t \subseteq Paths, NEW k \in Nat, Fresh(t, k)
    PROVE  /\ Fresh(t, k + 1) /\ \A b \in Paths : Hits(b, Own(k)) => \A q \in DOMAIN t : ~IsPrefix(b, q)
           /\ t = [q \in DOMAIN t |-> t[q]] => Strip(t, Own(k)) = t
<1> HIDE DEF IsPrefix, Hits
<1>1. k \in Nat /\ k + 1 \in Nat /\ k <= k + 1
    OBVIOUS
<1>2. \A q : Hits(q, Own(k + 1)) => Hits(q, Own(k))
    BY <1>1, OwnShrinks
<1>3. Fresh(t, k + 1)
    BY <1>2 DEF Fresh
<1>4. \A b \in Paths : Hits(b, Own(k)) => \A q \in DOMAIN t : ~IsPrefix(b, q)
    BY PrefixHits DEF Fresh
<1>5. t = [q \in DOMAIN t |-> t[q]] => Strip(t, Own(k)) = t
    BY StripNothing DEF Fresh
<1> QED
    BY <1>3, <1>4, <1>5

\* Writing a name that is not reserved uses none of the reserved ones.
LEMMA FreshWith ==
    ASSUME NEW t, NEW k, Fresh(t, k), NEW p, ~Hits(p, Own(k)), NEW c
    PROVE  Fresh(With(t, p, c), k)
BY WithMeans DEF Fresh

\* A file or directory that is renamed to a name nothing has.
LEMMA MoveThere ==
    ASSUME NEW t, IsTree(t), NEW p \in Paths, NEW q \in Paths,
           q \notin DOMAIN t, Possible(t, Move(p, q))
    PROVE  LET T == Moved(t, p, q) IN
           /\ p \in DOMAIN t /\ p # q /\ ~IsPrefix(p, q) /\ ~IsPrefix(q, p)
           /\ Effect(t, Move(p, q)) = T /\ IsTree(T)
           /\ Possible(T, Move(q, p)) /\ Effect(T, Move(q, p)) = t
           /\ \A r \in DOMAIN t : ~IsPrefix(p, r) => r \in DOMAIN T /\ T[r] = t[r]
           /\ q \in DOMAIN T /\ p \notin DOMAIN T
<1> DEFINE T == Moved(t, p, q)
<1> HIDE DEF IsPrefix, Rebase, T
<1>1. /\ p \in DOMAIN t /\ ParentExists(t, q) /\ (IsPrefix(p, q) => p = q)
      /\ DOMAIN t \subseteq Paths
    BY RenameMeans DEF IsTree
<1>2. p # q /\ ~IsPrefix(p, q)
    BY <1>1
<1>3. \A r \in DOMAIN t : ~IsPrefix(q, r)
    BY NothingUnder
<1>4. IsTree(T)
    BY <1>1, <1>2, MovedTree DEF T
<1>5. /\ \A r : r \in DOMAIN T <=>
             \/ r \in DOMAIN t /\ ~IsPrefix(p, r) /\ ~IsPrefix(q, r)
             \/ \E x \in DOMAIN t : IsPrefix(p, x) /\ r = Rebase(x, p, q)
      /\ \A r \in DOMAIN t : ~IsPrefix(p, r) /\ ~IsPrefix(q, r) => T[r] = t[r]
    BY <1>1, MovedMeans DEF T
<1>6. \A r \in DOMAIN t : ~IsPrefix(p, r) => r \in DOMAIN T /\ T[r] = t[r]
    BY <1>3, <1>5
<1>7. q \in DOMAIN T
    BY <1>1, <1>5, RebaseSelf, PrefixOrder
<1>8. p \notin DOMAIN T
    <2>1. \A x \in DOMAIN t : IsPrefix(p, x) => IsPrefix(q, Rebase(x, p, q))
        BY <1>1, RebasePath
    <2> QED
        BY <1>1, <1>3, <1>5, <2>1, PrefixOrder
<1>9. ParentExists(T, p)
    <2>1. ASSUME NEW r \in Paths, IsPrefix(r, p), r # p, r \in DOMAIN t, t[r] = Dir
          PROVE  r \in DOMAIN T /\ T[r] = Dir
        BY <1>1, <1>6, <2>1, PrefixOrder
    <2> QED
        BY <1>1, <2>1, ParentOfNode, ParentKept
<1>10. Possible(T, Move(q, p))
    BY <1>1, <1>3, <1>7, <1>8, <1>9, RenameMeans
<1>11. Effect(T, Move(q, p)) = t
    BY <1>1, <1>2, <1>3, RenameMeans, MoveBack DEF T
<1>12. Effect(t, Move(p, q)) = T
    BY <1>2, RenameMeans DEF T
<1> QED
    BY <1>1, <1>2, <1>3, <1>4, <1>6, <1>7, <1>8, <1>10, <1>11, <1>12 DEF T

\* The file or directory p, backed up by the k-th operation.
LEMMA Aside ==
    ASSUME NEW s, IsTree(s), NEW p \in DOMAIN s, IsUserPath(p), NEW k \in Nat, Fresh(s, k),
           NEW b, b = BackupOf(p, k)
    PROVE  LET M == Moved(s, p, b) IN
           /\ b \in Paths /\ p \in Paths /\ ~IsPrefix(b, p) /\ ~IsPrefix(p, b)
           /\ Possible(s, Reserve(b)) /\ Possible(s, Move(p, b)) /\ Effect(s, Move(p, b)) = M
           /\ IsTree(M) /\ Fresh(M, k + 1) /\ Strip(s, Own(k)) = s
           /\ Visible(M) = Without(Visible(s), Under(Visible(s), p))
           /\ \A q \in DOMAIN M : ~IsPrefix(p, q)
           /\ b \in DOMAIN M /\ M[b] = s[p] /\ ParentExists(M, p)
           /\ Possible(M, Move(b, p)) /\ Effect(M, Move(b, p)) = s
           /\ \A q \in DOMAIN s : ~IsPrefix(p, q) => q \in DOMAIN M /\ M[q] = s[q]
<1> DEFINE M == Moved(s, p, b)
<1> HIDE DEF IsPrefix, Rebase, M
<1>1. DOMAIN s \subseteq Paths /\ p \in Paths /\ s = [q \in DOMAIN s |-> s[q]]
    BY TreeMeans DEF IsTree
<1>2. /\ b \in Paths /\ ~IsPrefix(b, p) /\ ~IsPrefix(p, b)
      /\ \A m \in Nat : ~Hits(p, Own(m))
      /\ \A m \in Nat : Hits(b, Own(m)) <=> m <= k
    BY <1>1, OwnPath
<1>3. Hits(b, Own(k)) /\ Hits(b, Own(0)) /\ ~Hits(b, Own(k + 1)) /\ ~Hits(p, Own(k + 1)) /\ ~Hits(p, Own(0))
    <2>1. k <= k /\ 0 <= k /\ ~(k + 1 <= k) /\ k + 1 \in Nat /\ 0 \in Nat
        OBVIOUS
    <2> QED
        BY <2>1, <1>2
<1>4. /\ Fresh(s, k + 1) /\ \A q \in DOMAIN s : ~IsPrefix(b, q)
      /\ Strip(s, Own(k)) = s
    BY <1>1, <1>2, <1>3, FreshMeans
<1>5. /\ Possible(s, Reserve(b)) /\ Possible(s, Move(p, b)) /\ Effect(s, Move(p, b)) = M
      /\ IsTree(M) /\ p \notin DOMAIN M /\ b \in DOMAIN M /\ M[b] = s[p]
      /\ ParentExists(M, p)
      /\ Possible(M, Move(b, p)) /\ Effect(M, Move(b, p)) = s
      /\ \A q \in DOMAIN s : ~IsPrefix(p, q) => q \in DOMAIN M /\ M[q] = s[q]
    BY <1>4, MoveAside DEF M
<1>6. \A q \in DOMAIN M : ~IsPrefix(p, q)
    BY <1>1, <1>5, NothingUnder
<1>7. Fresh(M, k + 1)
    BY <1>1, <1>2, <1>3, <1>4, FreshMoved DEF M
<1>8. Visible(M) = Without(Visible(s), Under(Visible(s), p))
    <2>1. DOMAIN M \subseteq Paths
        BY <1>5 DEF IsTree
    <2>2. Visible(M) = Strip(M, Own(0)) /\ Visible(s) = Strip(s, Own(0))
        BY <1>1, <2>1, VisibleMeans
    <2> QED
        BY <2>2, <1>1, <1>2, <1>3, StripMovedAway DEF M
<1> QED
    BY <1>1, <1>2, <1>4, <1>5, <1>6, <1>7, <1>8 DEF M

\* The backed up file replaced: what creating over it and editing it do.
LEMMA Replaced ==
    ASSUME NEW s, IsTree(s), NEW p \in DOMAIN s, IsUserPath(p), NEW k \in Nat, Fresh(s, k),
           NEW b, b = BackupOf(p, k), NEW c \in Pairs, c # Dir
    PROVE  LET T == With(Moved(s, p, b), p, c)
               u == <<Quiet(Unlink(p)), Loud(Move(b, p))>>
           IN
           /\ IsTree(T) /\ Fresh(T, k + 1)
           /\ Visible(T) = With(Without(Visible(s), Under(Visible(s), p)), p, c)
           /\ Undoes(u, T, s, Own(k + 1)) /\ Goes(u, T)
           /\ Effect(T, Move(b, p)) = s /\ (s[p] # Dir => Possible(T, Move(b, p)))
<1> DEFINE M == Moved(s, p, b)
           T == With(M, p, c)
           u == <<Quiet(Unlink(p)), Loud(Move(b, p))>>
<1> HIDE DEF IsPrefix, Rebase, M, T
<1>1. /\ b \in Paths /\ p \in Paths /\ ~IsPrefix(b, p) /\ ~IsPrefix(p, b)
      /\ IsTree(M) /\ Fresh(M, k + 1)
      /\ Visible(M) = Without(Visible(s), Under(Visible(s), p))
      /\ \A q \in DOMAIN M : ~IsPrefix(p, q)
      /\ b \in DOMAIN M /\ M[b] = s[p] /\ ParentExists(M, p)
      /\ Possible(M, Move(b, p)) /\ Effect(M, Move(b, p)) = s
    BY Aside DEF M
<1>2. IsPrefix(p, p)
    BY <1>1, PrefixOrder
<1>3. DOMAIN M \subseteq Paths /\ M = [q \in DOMAIN M |-> M[q]]
    BY <1>1, TreeMeans DEF IsTree
<1>4. IsTree(T)
    <2>1. ~IsDir(M, p)
        BY <1>1, <1>2 DEF IsDir, Exists
    <2> QED
        BY <2>1, <1>1, WithTree DEF T
<1>5. k + 1 \in Nat /\ 0 \in Nat /\ \A m \in Nat : ~Hits(p, Own(m))
    BY <1>1, OwnPath
<1>6. Fresh(T, k + 1)
    BY <1>1, <1>5, FreshWith DEF T
<1>7. Visible(T) = With(Visible(M), p, c)
    <2>1. DOMAIN T \subseteq Paths
        BY <1>4 DEF IsTree
    <2>2. Visible(T) = Strip(T, Own(0)) /\ Visible(M) = Strip(M, Own(0))
        BY <1>3, <2>1, VisibleMeans
    <2> QED
        BY <2>2, <1>5, StripWith DEF T
<1>8. Under(T, p) = {p} /\ Without(T, Under(T, p)) = M
    BY <1>1, <1>3, WithoutWith DEF T
<1>9. Effect(T, Unlink(p)) = M /\ Possible(T, Unlink(p))
    BY <1>8, RemoveMeans
<1>10. Effect(T, Move(b, p)) = s
    <2>1. Effect(T, Move(b, p)) = Moved(T, b, p) /\ Effect(M, Move(b, p)) = Moved(M, b, p)
        BY <1>1, <1>2, RenameMeans
    <2>2. Moved(T, b, p) = Moved(M, b, p)
        BY <1>1, <1>3, MovedOverFile DEF T
    <2> QED
        BY <2>1, <2>2, <1>1
<1>11. s[p] # Dir => Possible(T, Move(b, p))
    <2>1. /\ b \in DOMAIN T /\ T[b] = M[b] /\ T[p] = c /\ p \in DOMAIN T
        <3>1. b # p
            BY <1>1, <1>2
        <3> QED
            BY <3>1, <1>1, WithMeans DEF T
    <2>2. ParentExists(T, p)
        BY <1>4, <2>1, ParentOfNode
    <2>3. s[p] # Dir => (IsDir(T, b) <=> IsDir(T, p))
        BY <1>1, <2>1 DEF IsDir
    <2> QED
        BY <1>1, <1>8, <2>1, <2>2, <2>3, RenameMeans
<1>12. Harmless(Unlink(p), Own(k + 1)) /\ Harmless(Move(b, p), Own(k + 1))
    <2>1. ~Hits(b, Own(k + 1))
        <3>1. ~(k + 1 <= k)
            OBVIOUS
        <3> QED
            BY <3>1, <1>1, <1>5, OwnPath
    <2> QED
        BY <2>1, <1>1, <1>5 DEF Harmless
<1>13. Undoes(u, T, s, Own(k + 1))
    BY <1>1, <1>9, <1>10, <1>12 DEF Undoes
<1>14. Goes(u, T)
    <2>1. u[1].call = Unlink(p) /\ u[2].call = Move(b, p)
        BY DEF Quiet, Loud
    <2> HIDE DEF u
    <2> QED
        BY <2>1, <1>1, <1>9 DEF Goes
<1> QED
    BY <1>1, <1>4, <1>6, <1>7, <1>10, <1>11, <1>13, <1>14 DEF M, T

(* ------------------------ the programs, call by call --------------------- *)

\* The tree before the i-th call, when every call before it has worked.
Ran(c, i, s) ==
    IF i = 1 THEN s
    ELSE IF i = 2 THEN Effect(s, c[1])
    ELSE IF i = 3 THEN Effect(Effect(s, c[1]), c[2])
    ELSE IF i = 4 THEN Effect(Effect(Effect(s, c[1]), c[2]), c[3])
    ELSE Effect(Effect(Effect(Effect(s, c[1]), c[2]), c[3]), c[4])
Ready(c, i, s) == \A h \in 1 .. 4 : h < i => Possible(Ran(c, h, s), c[h])

\* What a program that ran to its end has made of s.
Applies(P, t, s, op, m) ==
    /\ IsTree(t) /\ Fresh(t, m + 1)
    /\ Visible(t) = Meaning(op, Visible(s))
    /\ Undoes(P.undo, t, s, Own(m + 1)) /\ Goes(P.undo, t)

\* The tree is s again but for names the m-th operation may leave.
Recovered(t, s, m) == DOMAIN t \subseteq Paths /\ Strip(t, Own(m)) = s
\* The repair f, none of whose calls is refused, leads there.
Repairs(f, t, s, m) ==
    \/ f = <<>> /\ Recovered(t, s, m)
    \/ \E c : f = <<c>> /\ Possible(t, c) /\ Recovered(Effect(t, c), s, m)
    \/ \E c, d : /\ f = <<c, d>> /\ Possible(t, c) /\ Possible(Effect(t, c), d)
                 /\ Recovered(Effect(Effect(t, c), d), s, m)
\* What is left when call c of the program fails in t; s is untouched when it
\* is refused.
Fails(c, f, t, s, m) ==
    \A r \in Residues(t, c) : Repairs(f, r, s, m) /\ (Possible(t, c) \/ (f = <<>> /\ r = s))

\* The fields of a planned operation.
LEMMA ProgramMeans ==
    ASSUME NEW c, NEW f, NEW u, NEW z, NEW P, P = Program(c, f, u, z)
    PROVE  P.run = "calls" /\ P.calls = c /\ P.fix = f /\ P.undo = u /\ P.finalize = z
BY DEF Program

\* The tree after one, two, three or four calls, and when each is possible.
LEMMA RanMeans ==
    ASSUME NEW s, NEW c
    PROVE  /\ Ran(c, 1, s) = s /\ Ran(c, 2, s) = Effect(s, c[1])
           /\ Ran(c, 3, s) = Effect(Effect(s, c[1]), c[2])
           /\ Ran(c, 4, s) = Effect(Effect(Effect(s, c[1]), c[2]), c[3])
           /\ Ran(c, 5, s) = Effect(Effect(Effect(Effect(s, c[1]), c[2]), c[3]), c[4])
           /\ \A i \in 1 .. 4 : Ran(c, i + 1, s) = Effect(Ran(c, i, s), c[i])
           /\ \A i \in 1 .. 4 : Ready(c, i + 1, s) <=> Ready(c, i, s) /\ Possible(Ran(c, i, s), c[i])
           /\ Ready(c, 1, s)
<1> HIDE DEF Effect, Possible
<1>1. /\ Ran(c, 1, s) = s /\ Ran(c, 2, s) = Effect(s, c[1])
      /\ Ran(c, 3, s) = Effect(Effect(s, c[1]), c[2])
      /\ Ran(c, 4, s) = Effect(Effect(Effect(s, c[1]), c[2]), c[3])
      /\ Ran(c, 5, s) = Effect(Effect(Effect(Effect(s, c[1]), c[2]), c[3]), c[4])
    BY DEF Ran
<1>2. \A i \in 1 .. 4 : Ran(c, i + 1, s) = Effect(Ran(c, i, s), c[i])
    <2>1. \A i \in 1 .. 4 : i = 1 \/ i = 2 \/ i = 3 \/ i = 4
        OBVIOUS
    <2>2. 1 + 1 = 2 /\ 2 + 1 = 3 /\ 3 + 1 = 4 /\ 4 + 1 = 5
        OBVIOUS
    <2> QED
        BY <2>1, <2>2, <1>1
<1>3. \A i \in 1 .. 4 : Ready(c, i + 1, s) <=> Ready(c, i, s) /\ Possible(Ran(c, i, s), c[i])
    <2>1. \A i \in 1 .. 4, h \in 1 .. 4 : h < i + 1 <=> h < i \/ h = i
        OBVIOUS
    <2> HIDE DEF Ran
    <2> QED
        BY <2>1 DEF Ready
<1>4. Ready(c, 1, s)
    BY DEF Ready
<1> QED
    BY <1>1, <1>2, <1>3, <1>4

\* A path of the user is in the visible tree exactly when it is in the tree.
LEMMA VisibleNode ==
    ASSUME NEW t, DOMAIN t \subseteq Paths, NEW p \in Paths, IsUserPath(p)
    PROVE  /\ Exists(Visible(t), p) <=> Exists(t, p)
           /\ Exists(t, p) => Visible(t)[p] = t[p]
           /\ DOMAIN Visible(t) \subseteq DOMAIN t
<1>1. Visible(t) = Strip(t, Own(0)) /\ ~Hits(p, Own(0))
    BY VisibleMeans, UserPathMeans
<1> QED
    BY <1>1, StripMeans DEF Exists

\* reserveBackupPath that fails leaves a placeholder at most.
LEMMA ReserveFails ==
    ASSUME NEW s, DOMAIN s \subseteq Paths, NEW m \in Nat, Strip(s, Own(m)) = s,
           NEW b \in Paths, Hits(b, Own(m)), NEW r \in Residues(s, Reserve(b))
    PROVE  Recovered(r, s, m)
<1>1. r = s \/ r = With(s, b, Empty)
    BY WriteMeans
<1>2. CASE r = s
    BY <1>2 DEF Recovered
<1>3. CASE r = With(s, b, Empty)
    <2>1. DOMAIN r \subseteq Paths
        BY <1>3, WithMeans
    <2> QED
        BY <2>1, <1>3, StripHidden DEF Recovered
<1> QED
    BY <1>1, <1>2, <1>3

\* A file that is created: commitCreate where nothing is.
LEMMA CreateNew ==
    ASSUME NEW s, IsTree(s), NEW m \in Nat, Fresh(s, m),
           NEW op, op.kind = "create", op.path \in Paths, IsUserPath(op.path),
           ~Exists(s, op.path), NEW P, P = CommitCreate(s, op, m), P.run = "calls"
    PROVE  /\ Len(P.calls) = 2
           /\ Applies(P, Ran(P.calls, 3, s), s, op, m)
           /\ \A i \in 1 .. 2 : Fails(P.calls[i], P.fix[i], Ran(P.calls, i, s), s, m)
           /\ P.finalize = <<>> /\ Ran(P.calls, 3, s) = With(s, op.path, Empty)
<1> DEFINE p == op.path
           T == With(s, p, Empty)
<1> HIDE DEF IsPrefix, T
<1>1. /\ P = Program(<<Create(p), Close(p)>>, <<<<>>, <<Unlink(p)>>>>, <<Loud(Unlink(p))>>, <<>>)
      /\ ParentExists(s, p)
    BY DEF CommitCreate, Refuse
<1>2. /\ P.calls = <<Create(p), Close(p)>> /\ P.fix = <<<<>>, <<Unlink(p)>>>>
      /\ P.undo = <<Loud(Unlink(p))>> /\ P.finalize = <<>>
    BY <1>1, ProgramMeans
<1>3. /\ Len(P.calls) = 2 /\ P.calls[1] = Create(p) /\ P.calls[2] = Close(p)
      /\ P.fix[1] = <<>> /\ P.fix[2] = <<Unlink(p)>>
    BY <1>2
<1>4. /\ p \in Paths /\ DOMAIN s \subseteq Paths /\ s = [q \in DOMAIN s |-> s[q]]
      /\ \A q \in DOMAIN s : ~IsPrefix(p, q)
      /\ \A h \in Nat : ~Hits(p, Own(h))
    <2>1. 0 \in Nat
        OBVIOUS
    <2> QED
        BY <2>1, OwnPath, NothingUnder, TreeMeans DEF Exists, IsTree
<1>5. Strip(s, Own(m)) = s /\ Fresh(s, m + 1)
    BY <1>4, FreshMeans
<1>6. /\ Ran(P.calls, 1, s) = s /\ Ran(P.calls, 2, s) = T /\ Ran(P.calls, 3, s) = T
    <2>1. Effect(s, Create(p)) = T /\ Effect(T, Close(p)) = T
        BY WriteMeans DEF T
    <2> QED
        BY <2>1, <1>3, RanMeans
<1>7. Effect(T, Unlink(p)) = s /\ Possible(T, Unlink(p))
    BY <1>4, WithoutWith, RemoveMeans DEF T
<1>8. IsTree(T)
    <2>1. Empty \in Pairs
        <3>1. 0 \in Nat
            OBVIOUS
        <3> QED
            BY <3>1 DEF Empty, Pairs
    <2> QED
        BY <2>1, <1>1, <1>4, WithTree DEF T, IsDir
<1>9. Fresh(T, m + 1)
    BY <1>4, <1>5, FreshWith DEF T
<1>10. Visible(T) = Meaning(op, Visible(s))
    <2>1. DOMAIN T \subseteq Paths
        BY <1>8 DEF IsTree
    <2>2. Visible(T) = Strip(T, Own(0)) /\ Visible(s) = Strip(s, Own(0))
        BY <1>4, <2>1, VisibleMeans
    <2>3. Visible(T) = With(Visible(s), p, Empty)
        BY <2>2, <1>4, StripWith DEF T
    <2>4. ~Exists(Visible(s), p) /\ DOMAIN Visible(s) \subseteq DOMAIN s
        BY <1>4, VisibleNode
    <2>5. With(Without(Visible(s), Under(Visible(s), p)), p, Empty) = With(Visible(s), p, Empty)
        BY <2>4, <1>4, WithOver
    <2> QED
        BY <2>3, <2>4, <2>5 DEF Meaning
<1>11. Undoes(P.undo, T, s, Own(m + 1)) /\ Goes(P.undo, T)
    <2>1. Harmless(Unlink(p), Own(m + 1))
        BY <1>4 DEF Harmless
    <2>2. P.undo[1].call = Unlink(p) /\ Len(P.undo) = 1
        BY <1>2 DEF Loud
    <2>3. Undoes(P.undo, T, s, Own(m + 1))
        BY <2>1, <1>2, <1>7 DEF Undoes
    <2> QED
        BY <2>2, <2>3, <1>7 DEF Goes
<1>12. Fails(P.calls[1], P.fix[1], Ran(P.calls, 1, s), s, m)
    <2>1. Residues(s, Create(p)) = {s} /\ Possible(s, Create(p))
        BY <1>1, WriteMeans DEF Exists
    <2> QED
        BY <2>1, <1>3, <1>4, <1>5, <1>6 DEF Fails, Repairs, Recovered
<1>13. Fails(P.calls[2], P.fix[2], Ran(P.calls, 2, s), s, m)
    <2>1. Residues(T, Close(p)) = {T} /\ Possible(T, Close(p))
        BY WriteMeans
    <2>2. Recovered(s, s, m)
        BY <1>4, <1>5 DEF Recovered
    <2>3. Repairs(<<Unlink(p)>>, T, s, m)
        BY <2>2, <1>7 DEF Repairs
    <2> QED
        BY <2>1, <2>3, <1>3, <1>6 DEF Fails
<1>14. \A i \in 1 .. 2 : i = 1 \/ i = 2
    OBVIOUS
<1> QED
    BY <1>2, <1>3, <1>6, <1>8, <1>9, <1>10, <1>11, <1>12, <1>13, <1>14 DEF Applies, T

\* A file that is created over another: commitCreate with overwrite.
LEMMA CreateOver ==
    ASSUME NEW s, IsTree(s), NEW m \in Nat, Fresh(s, m),
           NEW op, op.kind = "create", op.path \in Paths, IsUserPath(op.path),
           Exists(s, op.path), NEW P, P = CommitCreate(s, op, m), P.run = "calls"
    PROVE  /\ Len(P.calls) = 3
           /\ Applies(P, Ran(P.calls, 4, s), s, op, m)
           /\ s[op.path] # Dir =>
                  \A i \in 1 .. 3 : Fails(P.calls[i], P.fix[i], Ran(P.calls, i, s), s, m)
           /\ P.finalize = <<Unlink(BackupOf(op.path, m))>> /\ op.overwrite
           /\ Ran(P.calls, 4, s) = With(Moved(s, op.path, BackupOf(op.path, m)), op.path, Empty)
<1> DEFINE p == op.path
           b == BackupOf(p, m)
           M == Moved(s, p, b)
           T == With(M, p, Empty)
<1> HIDE DEF IsPrefix, b, M, T
<1>1. /\ P = Program(<<Reserve(b), Move(p, b), Write(p, Empty)>>,
                     <<<<>>, <<>>, <<Move(b, p)>>>>,
                     <<Quiet(Unlink(p)), Loud(Move(b, p))>>, <<Unlink(b)>>)
      /\ op.overwrite
    BY DEF CommitCreate, Refuse, Skip, b
<1>2. /\ P.calls = <<Reserve(b), Move(p, b), Write(p, Empty)>>
      /\ P.fix = <<<<>>, <<>>, <<Move(b, p)>>>>
      /\ P.undo = <<Quiet(Unlink(p)), Loud(Move(b, p))>> /\ P.finalize = <<Unlink(b)>>
    BY <1>1, ProgramMeans
<1>3. /\ Len(P.calls) = 3 /\ P.calls[1] = Reserve(b) /\ P.calls[2] = Move(p, b)
      /\ P.calls[3] = Write(p, Empty)
      /\ P.fix[1] = <<>> /\ P.fix[2] = <<>> /\ P.fix[3] = <<Move(b, p)>>
    BY <1>2
<1>4. p \in DOMAIN s /\ IsUserPath(p)
    BY DEF Exists
<1>5. Empty \in Pairs /\ Empty # Dir /\ Partial \in Pairs /\ Partial # Dir
    <2>1. 0 \in Nat
        OBVIOUS
    <2>2. "empty" # "dir" /\ "partial" # "dir"
        OBVIOUS
    <2> QED
        BY <2>1, <2>2 DEF Empty, Partial, Dir, Pairs
<1>6. /\ b \in Paths /\ p \in Paths
      /\ Possible(s, Reserve(b)) /\ Possible(s, Move(p, b)) /\ Effect(s, Move(p, b)) = M
      /\ IsTree(M) /\ Strip(s, Own(m)) = s
      /\ \A q \in DOMAIN M : ~IsPrefix(p, q)
      /\ ParentExists(M, p)
      /\ Possible(M, Move(b, p)) /\ Effect(M, Move(b, p)) = s
    BY <1>4, Aside DEF b, M
<1>7. DOMAIN s \subseteq Paths /\ Hits(b, Own(m))
    <2>1. m <= m
        OBVIOUS
    <2> QED
        BY <2>1, OwnPath DEF IsTree, b
<1>8. /\ IsTree(T) /\ Fresh(T, m + 1)
      /\ Visible(T) = With(Without(Visible(s), Under(Visible(s), p)), p, Empty)
      /\ Undoes(P.undo, T, s, Own(m + 1)) /\ Goes(P.undo, T)
    BY <1>2, <1>4, <1>5, Replaced DEF b, M, T
<1>9. /\ Ran(P.calls, 1, s) = s /\ Ran(P.calls, 2, s) = s /\ Ran(P.calls, 3, s) = M
      /\ Ran(P.calls, 4, s) = T
    <2>1. Effect(s, Reserve(b)) = s /\ Effect(M, Write(p, Empty)) = T
        BY WriteMeans DEF T
    <2> QED
        BY <2>1, <1>3, <1>6, RanMeans
<1>10. Visible(T) = Meaning(op, Visible(s))
    <2> HIDE DEF Under, Without, With
    <2> QED
        BY <1>8, <1>1 DEF Meaning
<1>11. Recovered(s, s, m)
    BY <1>6, <1>7 DEF Recovered
<1>12. Fails(P.calls[1], P.fix[1], Ran(P.calls, 1, s), s, m)
    BY <1>3, <1>6, <1>7, <1>9, ReserveFails DEF Fails, Repairs
<1>13. Fails(P.calls[2], P.fix[2], Ran(P.calls, 2, s), s, m)
    <2>1. Residues(s, Move(p, b)) = {s}
        BY RenameMeans
    <2> QED
        BY <2>1, <1>3, <1>6, <1>9, <1>11 DEF Fails, Repairs
<1>14. ASSUME s[p] # Dir PROVE Fails(P.calls[3], P.fix[3], Ran(P.calls, 3, s), s, m)
    <2>1. Residues(M, Write(p, Empty)) \subseteq {M, With(M, p, Partial)}
        BY WriteMeans
    <2>2. Possible(M, Write(p, Empty))
        <3>1. ~IsDir(M, p)
            BY <1>6, PrefixOrder DEF IsDir, Exists
        <3> QED
            BY <3>1, <1>6, WriteMeans
    <2>3. /\ Effect(With(M, p, Partial), Move(b, p)) = s
          /\ Possible(With(M, p, Partial), Move(b, p))
        BY <1>4, <1>5, <1>14, Replaced DEF b, M
    <2>4. Repairs(<<Move(b, p)>>, M, s, m) /\ Repairs(<<Move(b, p)>>, With(M, p, Partial), s, m)
        BY <2>3, <1>6, <1>11 DEF Repairs
    <2> QED
        BY <2>1, <2>2, <2>4, <1>3, <1>9 DEF Fails
<1>15. \A i \in 1 .. 3 : i = 1 \/ i = 2 \/ i = 3
    OBVIOUS
<1> QED
    BY <1>1, <1>2, <1>3, <1>8, <1>9, <1>10, <1>12, <1>13, <1>14, <1>15 DEF Applies, b, M, T

\* A file or directory that is deleted.
LEMMA Delete ==
    ASSUME NEW s, IsTree(s), NEW m \in Nat, Fresh(s, m),
           NEW op, op.kind = "delete", op.path \in Paths, IsUserPath(op.path),
           NEW P, P = CommitDelete(s, op, m), P.run = "calls"
    PROVE  /\ Len(P.calls) = 2
           /\ Applies(P, Ran(P.calls, 3, s), s, op, m)
           /\ \A i \in 1 .. 2 : Fails(P.calls[i], P.fix[i], Ran(P.calls, i, s), s, m)
           /\ P.finalize = <<UnlinkAll(BackupOf(op.path, m))>> /\ Exists(s, op.path)
           /\ Ran(P.calls, 3, s) = Moved(s, op.path, BackupOf(op.path, m))
<1> DEFINE p == op.path
           b == BackupOf(p, m)
           M == Moved(s, p, b)
<1> HIDE DEF IsPrefix, b, M
<1>1. /\ P = Program(<<Reserve(b), Move(p, b)>>, <<<<>>, <<>>>>,
                     <<Quiet(UnlinkAll(p)), Loud(Move(b, p))>>, <<UnlinkAll(b)>>)
      /\ p \in DOMAIN s
    BY DEF CommitDelete, Refuse, Skip, b, Exists
<1>2. /\ P.calls = <<Reserve(b), Move(p, b)>> /\ P.fix = <<<<>>, <<>>>>
      /\ P.undo = <<Quiet(UnlinkAll(p)), Loud(Move(b, p))>> /\ P.finalize = <<UnlinkAll(b)>>
    BY <1>1, ProgramMeans
<1>3. /\ Len(P.calls) = 2 /\ P.calls[1] = Reserve(b) /\ P.calls[2] = Move(p, b)
      /\ P.fix[1] = <<>> /\ P.fix[2] = <<>>
    BY <1>2
<1>6. /\ b \in Paths /\ p \in Paths
      /\ Possible(s, Reserve(b)) /\ Possible(s, Move(p, b)) /\ Effect(s, Move(p, b)) = M
      /\ IsTree(M) /\ Fresh(M, m + 1) /\ Strip(s, Own(m)) = s
      /\ Visible(M) = Without(Visible(s), Under(Visible(s), p))
      /\ \A q \in DOMAIN M : ~IsPrefix(p, q)
      /\ Possible(M, Move(b, p)) /\ Effect(M, Move(b, p)) = s
    BY <1>1, Aside DEF b, M
<1>7. DOMAIN s \subseteq Paths /\ Hits(b, Own(m))
    <2>1. m <= m
        OBVIOUS
    <2> QED
        BY <2>1, OwnPath DEF IsTree, b
<1>9. Ran(P.calls, 1, s) = s /\ Ran(P.calls, 2, s) = s /\ Ran(P.calls, 3, s) = M
    <2>1. Effect(s, Reserve(b)) = s
        BY WriteMeans
    <2> QED
        BY <2>1, <1>3, <1>6, RanMeans
<1>10. Visible(M) = Meaning(op, Visible(s))
    <2> HIDE DEF Under, Without
    <2> QED
        BY <1>6 DEF Meaning
<1>11. Recovered(s, s, m)
    BY <1>6, <1>7 DEF Recovered
<1>12. Fails(P.calls[1], P.fix[1], Ran(P.calls, 1, s), s, m)
    BY <1>3, <1>6, <1>7, <1>9, ReserveFails DEF Fails, Repairs
<1>13. Fails(P.calls[2], P.fix[2], Ran(P.calls, 2, s), s, m)
    <2>1. Residues(s, Move(p, b)) = {s}
        BY RenameMeans
    <2> QED
        BY <2>1, <1>3, <1>6, <1>9, <1>11 DEF Fails, Repairs
<1>14. Effect(M, UnlinkAll(p)) = M
    <2>1. Effect(M, UnlinkAll(p)) = Without(M, Under(M, p))
        BY RemoveMeans
    <2> DEFINE N == Without(M, Under(M, p))
    <2> HIDE DEF N
    <2>2. /\ N = [q \in DOMAIN N |-> N[q]]
          /\ \A q : q \in DOMAIN N <=> q \in DOMAIN M /\ ~IsPrefix(p, q)
          /\ \A q \in DOMAIN N : N[q] = M[q]
        BY WithoutMeans DEF N
    <2>3. M = [q \in DOMAIN M |-> M[q]]
        BY <1>6, TreeMeans
    <2>4. \A q : q \in DOMAIN N <=> q \in DOMAIN M
        BY <2>2, <1>6
    <2>5. N = M
        BY <2>2, <2>3, <2>4, SameTree
    <2> QED
        BY <2>1, <2>5 DEF N
<1>15. Undoes(P.undo, M, s, Own(m + 1)) /\ Goes(P.undo, M)
    <2>1. m + 1 \in Nat /\ ~(m + 1 <= m)
        OBVIOUS
    <2>2. ~Hits(p, Own(m + 1)) /\ ~Hits(b, Own(m + 1))
        BY <2>1, OwnPath DEF b
    <2>3. Harmless(UnlinkAll(p), Own(m + 1)) /\ Harmless(Move(b, p), Own(m + 1))
        BY <2>2, <1>6 DEF Harmless
    <2>4. P.undo[1].call = UnlinkAll(p) /\ P.undo[2].call = Move(b, p)
        BY <1>2 DEF Quiet, Loud
    <2>5. Undoes(P.undo, M, s, Own(m + 1))
        BY <2>3, <1>2, <1>6, <1>14 DEF Undoes
    <2>6. Possible(M, UnlinkAll(p))
        BY RemoveMeans
    <2> QED
        BY <2>4, <2>5, <2>6, <1>6, <1>14 DEF Goes
<1>16. \A i \in 1 .. 2 : i = 1 \/ i = 2
    OBVIOUS
<1> QED
    BY <1>1, <1>2, <1>3, <1>6, <1>9, <1>10, <1>12, <1>13, <1>15, <1>16 DEF Applies, b,
       M, Exists

\* The backup and the temporary file are beside each other.
LEMMA BackupAndTemp ==
    ASSUME NEW p \in Paths, NEW k \in Nat
    PROVE  ~IsPrefix(BackupOf(p, k), TempOf(p, k)) /\ ~IsPrefix(TempOf(p, k), BackupOf(p, k))
<1> DEFINE b == BackupOf(p, k)
           x == TempOf(p, k)
<1>1. <<"bak", k>> \in Pairs /\ <<"tmp", k>> \in Pairs /\ <<"bak", k>> # <<"tmp", k>>
    BY DEF Pairs
<1>2. b \in Paths /\ Len(b) = Len(p) /\ b[Len(b)] = <<"bak", k>>
    BY <1>1, SiblingMeans DEF BackupOf
<1>3. x \in Paths /\ Len(x) = Len(p) /\ x[Len(x)] = <<"tmp", k>>
    BY <1>1, SiblingMeans DEF TempOf
<1> HIDE DEF b, x
<1>4. Len(p) \in 1 .. Len(p)
    BY DEF Paths
<1>5. b \in Seq(Pairs) /\ x \in Seq(Pairs)
    BY <1>2, <1>3 DEF Paths
<1>6. ~(\A i \in 1 .. Len(p) : b[i] = x[i])
    BY <1>1, <1>2, <1>3, <1>4
<1> QED
    BY <1>2, <1>3, <1>5, <1>6, PrefixMeans DEF b, x

\* A file that is edited: its content is written beside it, it is backed up and
\* the new content takes its place.
LEMMA TextEdit ==
    ASSUME NEW s, IsTree(s), NEW m \in Nat, Fresh(s, m), m \in DOMAIN batch,
           NEW op, op = batch[m], op.kind = "edit", op.path \in Paths, IsUserPath(op.path),
           NEW P, P = CommitTextEdit(s, op, m), P.run = "calls"
    PROVE  /\ Len(P.calls) = 4
           /\ Applies(P, Ran(P.calls, 5, s), s, op, m)
           /\ \A i \in 1 .. 4 : Fails(P.calls[i], P.fix[i], Ran(P.calls, i, s), s, m)
           /\ P.finalize = <<Unlink(BackupOf(op.path, m))>>
           /\ Exists(s, op.path) /\ ~IsDir(s, op.path)
           /\ Ran(P.calls, 5, s) =
                  With(Moved(s, op.path, BackupOf(op.path, m)), op.path, Edited(s[op.path]))
<1> DEFINE p == op.path
           b == BackupOf(p, m)
           x == TempOf(p, m)
           c == Edited(s[p])
           M == Moved(s, p, b)
           X == With(s, x, c)
           Y == With(M, x, c)
           T == With(M, p, c)
<1> HIDE DEF IsPrefix, Rebase, b, x, c, M, X, Y, T
<1>1. /\ P = Program(<<Write(x, c), Reserve(b), Move(p, b), Move(x, p)>>,
                     <<<<UnlinkAll(x)>>, <<Unlink(x)>>, <<Unlink(x)>>,
                       <<Move(b, p), Unlink(x)>>>>,
                     <<Quiet(Unlink(p)), Loud(Move(b, p))>>, <<Unlink(b)>>)
      /\ p \in DOMAIN s /\ ~IsDir(s, p) /\ s[p] # Dir
    BY DEF CommitTextEdit, Refuse, b, x, c, Exists, IsDir
<1>2. /\ P.calls = <<Write(x, c), Reserve(b), Move(p, b), Move(x, p)>>
      /\ P.fix = <<<<UnlinkAll(x)>>, <<Unlink(x)>>, <<Unlink(x)>>, <<Move(b, p), Unlink(x)>>>>
      /\ P.undo = <<Quiet(Unlink(p)), Loud(Move(b, p))>> /\ P.finalize = <<Unlink(b)>>
    BY <1>1, ProgramMeans
<1>3. /\ Len(P.calls) = 4 /\ P.calls[1] = Write(x, c) /\ P.calls[2] = Reserve(b)
      /\ P.calls[3] = Move(p, b) /\ P.calls[4] = Move(x, p)
      /\ P.fix[1] = <<UnlinkAll(x)>> /\ P.fix[2] = <<Unlink(x)>> /\ P.fix[3] = <<Unlink(x)>>
      /\ P.fix[4] = <<Move(b, p), Unlink(x)>>
    BY <1>2
<1>4. /\ p \in Paths /\ DOMAIN s \subseteq Paths /\ s = [q \in DOMAIN s |-> s[q]] /\ s[p] \in Pairs
    BY <1>1, TreeMeans
<1>5. c \in Pairs /\ c # Dir
    <2>1. \A i \in Nat : i + 1 \in Nat /\ i + 1 # 0
        OBVIOUS
    <2> QED
        BY <2>1, <1>4 DEF c, Edited, Pairs, Dir
<1>6. /\ b \in Paths /\ ~IsPrefix(b, p) /\ ~IsPrefix(p, b)
      /\ Possible(s, Reserve(b)) /\ Possible(s, Move(p, b)) /\ Effect(s, Move(p, b)) = M
      /\ IsTree(M) /\ Strip(s, Own(m)) = s
      /\ \A q \in DOMAIN M : ~IsPrefix(p, q)
      /\ b \in DOMAIN M /\ ParentExists(M, p)
      /\ Possible(M, Move(b, p)) /\ Effect(M, Move(b, p)) = s
    BY <1>1, Aside DEF b, M
<1>7. m <= m /\ ~(m + 1 <= m) /\ m + 1 \in Nat
    OBVIOUS
<1>8. /\ x \in Paths /\ x # p /\ ~IsPrefix(x, p) /\ ~IsPrefix(p, x)
      /\ Len(x) = Len(p) /\ Front(x) = Front(p) /\ Hits(x, Own(m))
      /\ Len(b) = Len(p) /\ Front(b) = Front(p) /\ Hits(b, Own(m)) /\ b # p
    BY <1>1, <1>4, <1>7, OwnPath DEF b, x
<1>9. ~IsPrefix(b, x) /\ ~IsPrefix(x, b)
    BY <1>4, BackupAndTemp DEF b, x
<1>10. IsPrefix(x, x) /\ IsPrefix(b, b) /\ IsPrefix(p, p)
    BY <1>4, <1>6, <1>8, PrefixOrder
<1>11. /\ \A q \in DOMAIN s : ~IsPrefix(x, q) /\ ~IsPrefix(b, q)
    BY <1>4, <1>6, <1>8, FreshMeans
<1>12. \A q \in DOMAIN M : ~IsPrefix(x, q)
    <2>1. /\ \A q : q \in DOMAIN M <=>
                 \/ q \in DOMAIN s /\ ~IsPrefix(p, q) /\ ~IsPrefix(b, q)
                 \/ \E r \in DOMAIN s : IsPrefix(p, r) /\ q = Rebase(r, p, b)
        BY <1>4, <1>6, MovedMeans DEF M
    <2>2. ASSUME NEW r \in DOMAIN s, IsPrefix(p, r) PROVE ~IsPrefix(x, Rebase(r, p, b))
        <3>1. IsPrefix(b, Rebase(r, p, b)) /\ Rebase(r, p, b) \in Paths
            BY <1>4, <1>6, <2>2, RebasePath
        <3> QED
            BY <3>1, <1>6, <1>8, <1>9, PrefixOrder
    <2> QED
        BY <2>1, <2>2, <1>11
<1>13. Effect(s, Write(x, c)) = X /\ Effect(X, Reserve(b)) = X
    <2>1. Effect(s, Write(x, c)) = With(s, x, c)
        BY WriteMeans
    <2>2. Effect(X, Reserve(b)) = X
        BY WriteMeans
    <2> QED
        BY <2>1, <2>2 DEF X
<1>14. Effect(X, Move(p, b)) = Y
    <2>1. Effect(X, Move(p, b)) = Moved(X, p, b)
        BY <1>8, RenameMeans
    <2> QED
        BY <2>1, <1>4, <1>6, <1>8, <1>9, MovedBeside DEF X, Y, M
<1>15. Effect(Y, Move(x, p)) = T
    <2>1. Effect(Y, Move(x, p)) = Moved(Y, x, p)
        BY <1>8, RenameMeans
    <2>2. DOMAIN M \subseteq Paths /\ M = [q \in DOMAIN M |-> M[q]]
        BY <1>6, TreeMeans DEF IsTree
    <2> QED
        BY <2>1, <2>2, <1>4, <1>6, <1>8, <1>12, MovedLeaf DEF Y, T
<1>16. /\ Ran(P.calls, 1, s) = s /\ Ran(P.calls, 2, s) = X /\ Ran(P.calls, 3, s) = X
       /\ Ran(P.calls, 4, s) = Y /\ Ran(P.calls, 5, s) = T
    BY <1>3, <1>13, <1>14, <1>15, RanMeans
<1>17. /\ IsTree(T) /\ Fresh(T, m + 1)
       /\ Visible(T) = With(Without(Visible(s), Under(Visible(s), p)), p, c)
       /\ Undoes(P.undo, T, s, Own(m + 1)) /\ Goes(P.undo, T)
    BY <1>1, <1>2, <1>5, Replaced DEF b, M, T
<1>18. Visible(T) = Meaning(op, Visible(s))
    <2>1. Visible(s)[p] = s[p] /\ DOMAIN Visible(s) \subseteq DOMAIN s
        BY <1>1, <1>4, VisibleNode DEF Exists
    <2>2. \A q \in DOMAIN Visible(s) : IsPrefix(p, q) => q = p
        BY <2>1, <1>1, <1>4, NothingUnder
    <2>3. With(Without(Visible(s), Under(Visible(s), p)), p, c) = With(Visible(s), p, c)
        BY <2>2, <1>4, WithOver
    <2> HIDE DEF Under, Without, With
    <2> QED
        BY <2>1, <2>3, <1>17 DEF Meaning, c
<1>20. ParentExists(s, p)
    BY <1>1, ParentOfNode
<1>21. IsTree(X)
    <2>1. ParentExists(s, x) /\ ~IsDir(s, x)
        BY <1>8, <1>10, <1>11, <1>20, ParentBeside DEF IsDir, Exists
    <2> QED
        BY <2>1, <1>5, <1>8, WithTree DEF X
<1>22. IsTree(Y)
    <2>1. ParentExists(M, x) /\ ~IsDir(M, x)
        BY <1>6, <1>8, <1>10, <1>12, ParentBeside DEF IsDir, Exists
    <2> QED
        BY <2>1, <1>5, <1>6, <1>8, WithTree DEF Y
<1>23. DOMAIN X \subseteq Paths /\ Strip(X, Own(m)) = s
    BY <1>4, <1>6, <1>8, <1>21, StripHidden DEF X, IsTree
\* Whatever is left under a name of its own is gone once it is unlinked, or hidden.
<1>24. ASSUME NEW r, DOMAIN r \subseteq Paths, Strip(r, Own(m)) = s
       PROVE  Recovered(Without(r, Under(r, x)), s, m)
    <2>1. DOMAIN Without(r, Under(r, x)) \subseteq Paths
        BY <1>24, WithoutMeans
    <2> QED
        BY <2>1, <1>8, <1>24, StripHidden DEF Recovered
<1>25. Possible(X, Unlink(x))
    BY <1>4, <1>8, <1>11, WithoutWith, RemoveMeans DEF X
<1>26. Fails(P.calls[1], P.fix[1], Ran(P.calls, 1, s), s, m)
    <2>1. ParentExists(s, x) /\ ~IsDir(s, x)
        BY <1>8, <1>10, <1>11, <1>20, ParentBeside DEF IsDir, Exists
    <2>2. Possible(s, Write(x, c)) /\ Residues(s, Write(x, c)) \subseteq {s, With(s, x, Partial)}
        BY <2>1, WriteMeans
    <2>3. ASSUME NEW r \in {s, With(s, x, Partial)} PROVE Repairs(<<UnlinkAll(x)>>, r, s, m)
        <3>1. DOMAIN r \subseteq Paths /\ Strip(r, Own(m)) = s
            BY <1>4, <1>6, <1>8, StripHidden, WithMeans
        <3>2. Possible(r, UnlinkAll(x)) /\ Effect(r, UnlinkAll(x)) = Without(r, Under(r, x))
            BY RemoveMeans
        <3> QED
            BY <3>1, <3>2, <1>24 DEF Repairs
    <2> QED
        BY <2>2, <2>3, <1>3, <1>16 DEF Fails
<1>27. Fails(P.calls[2], P.fix[2], Ran(P.calls, 2, s), s, m)
    <2>1. b \notin DOMAIN X
        BY <1>8, <1>9, <1>10, <1>11, WithMeans DEF X
    <2>2. p \in DOMAIN X
        BY <1>1, WithMeans DEF X
    <2>3. ParentExists(X, b) /\ ~IsDir(X, b)
        BY <2>1, <2>2, <1>8, <1>21, ParentOfNode, ParentBeside DEF IsDir, Exists
    <2>4. Possible(X, Reserve(b)) /\ Residues(X, Reserve(b)) \subseteq {X, With(X, b, Empty)}
        BY <2>3, WriteMeans
    <2> DEFINE Z == With(X, b, Empty)
    <2> HIDE DEF Z
    <2>5. DOMAIN Z \subseteq Paths /\ Strip(Z, Own(m)) = s
        BY <1>6, <1>8, <1>23, StripHidden, WithMeans DEF Z
    <2>6. Under(Z, x) = {x}
        <3>1. \A q : q \in DOMAIN Z <=> q \in DOMAIN s \/ q = x \/ q = b
            BY WithMeans DEF Z, X
        <3> QED
            BY <3>1, <1>9, <1>10, <1>11 DEF Under
    <2>7. Possible(Z, Unlink(x))
        BY <2>6, RemoveMeans
    <2>8. \A r : Effect(r, Unlink(x)) = Without(r, Under(r, x))
        BY RemoveMeans
    <2>9. Repairs(<<Unlink(x)>>, X, s, m) /\ Repairs(<<Unlink(x)>>, Z, s, m)
        BY <2>5, <2>7, <2>8, <1>23, <1>24, <1>25 DEF Repairs
    <2> QED
        BY <2>4, <2>9, <1>3, <1>16 DEF Fails, Z
<1>28. Fails(P.calls[3], P.fix[3], Ran(P.calls, 3, s), s, m)
    <2>1. Residues(X, Move(p, b)) = {X}
        BY RenameMeans
    <2>2. b \notin DOMAIN X /\ p \in DOMAIN X
        BY <1>1, <1>8, <1>9, <1>10, <1>11, WithMeans DEF X
    <2>3. ParentExists(X, b)
        BY <2>2, <1>8, <1>21, ParentOfNode, ParentBeside
    <2>4. Possible(X, Move(p, b))
        BY <2>2, <2>3, <1>6, RenameMeans
    <2>5. Effect(X, Unlink(x)) = Without(X, Under(X, x))
        BY RemoveMeans
    <2>6. Repairs(<<Unlink(x)>>, X, s, m)
        BY <2>5, <1>23, <1>24, <1>25 DEF Repairs
    <2> QED
        BY <2>1, <2>4, <2>6, <1>3, <1>16 DEF Fails
<1>29. Fails(P.calls[4], P.fix[4], Ran(P.calls, 4, s), s, m)
    <2>1. Residues(Y, Move(x, p)) = {Y}
        BY RenameMeans
    <2>2. \A q : q \in DOMAIN Y <=> q \in DOMAIN M \/ q = x
        BY WithMeans DEF Y
    <2>3. x \in DOMAIN Y /\ b \in DOMAIN Y /\ p \notin DOMAIN Y
        BY <2>2, <1>6, <1>8, <1>10
    <2>4. ParentExists(Y, p)
        BY <2>3, <1>8, <1>22, ParentOfNode, ParentBeside
    <2>5. Possible(Y, Move(x, p)) /\ Possible(Y, Move(b, p))
        BY <2>3, <2>4, <1>6, <1>8, RenameMeans
    <2>6. Effect(Y, Move(b, p)) = X
        <3>1. Effect(Y, Move(b, p)) = Moved(Y, b, p) /\ Effect(M, Move(b, p)) = Moved(M, b, p)
            BY <1>8, RenameMeans
        <3>2. DOMAIN M \subseteq Paths
            BY <1>6 DEF IsTree
        <3>3. Moved(Y, b, p) = With(Moved(M, b, p), x, c)
            BY <3>2, <1>4, <1>6, <1>8, <1>9, MovedBeside DEF Y
        <3> QED
            BY <3>1, <3>3, <1>6 DEF X
    <2>7. Effect(X, Unlink(x)) = Without(X, Under(X, x))
        BY RemoveMeans
    <2>8. Repairs(<<Move(b, p), Unlink(x)>>, Y, s, m)
        BY <2>5, <2>6, <2>7, <1>23, <1>24, <1>25 DEF Repairs
    <2> QED
        BY <2>1, <2>5, <2>8, <1>3, <1>16 DEF Fails
<1>30. \A i \in 1 .. 4 : i = 1 \/ i = 2 \/ i = 3 \/ i = 4
    OBVIOUS
<1> QED
    BY <1>1, <1>2, <1>3, <1>16, <1>17, <1>18, <1>26, <1>27, <1>28, <1>29, <1>30 DEF
       Applies, b, c, M, T, Exists

\* A rename to a name that is free.
LEMMA RenameNew ==
    ASSUME NEW s, IsTree(s), NEW m \in Nat, Fresh(s, m),
           NEW op, op.kind = "rename", op.path \in Paths, IsUserPath(op.path),
           op.newPath \in Paths, IsUserPath(op.newPath), ~Exists(s, op.newPath),
           NEW P, P = CommitRename(s, op, m), P.run = "calls"
    PROVE  /\ Len(P.calls) = 1
           /\ Ready(P.calls, 2, s) =>
                  /\ Applies(P, Ran(P.calls, 2, s), s, op, m)
                  /\ Possible(s, Move(op.path, op.newPath))
                  /\ Ran(P.calls, 2, s) = Moved(s, op.path, op.newPath)
           /\ \A i \in 1 .. 1 : Fails(P.calls[i], P.fix[i], Ran(P.calls, i, s), s, m)
           /\ P.finalize = <<>> /\ Exists(s, op.path)
<1> DEFINE p == op.path
           q == op.newPath
           T == Moved(s, p, q)
<1> HIDE DEF IsPrefix, T
<1>1. /\ P = Program(<<Move(p, q)>>, <<<<>>>>, <<Loud(Move(q, p))>>, <<>>)
      /\ p \in DOMAIN s /\ q \notin DOMAIN s
    BY DEF CommitRename, Refuse, Exists
<1>2. /\ P.calls = <<Move(p, q)>> /\ P.fix = <<<<>>>>
      /\ P.undo = <<Loud(Move(q, p))>> /\ P.finalize = <<>>
    BY <1>1, ProgramMeans
<1>3. Len(P.calls) = 1 /\ P.calls[1] = Move(p, q) /\ P.fix[1] = <<>>
    BY <1>2
<1>4. /\ DOMAIN s \subseteq Paths /\ s = [r \in DOMAIN s |-> s[r]]
      /\ \A h \in Nat : ~Hits(p, Own(h)) /\ ~Hits(q, Own(h))
    <2>1. 0 \in Nat
        OBVIOUS
    <2> QED
        BY <2>1, OwnPath, TreeMeans
<1>5. 0 \in Nat /\ m + 1 \in Nat
    OBVIOUS
<1>6. Strip(s, Own(m)) = s /\ Fresh(s, m + 1)
    BY <1>4, FreshMeans
<1>7. ASSUME Ready(P.calls, 2, s)
      PROVE  /\ Applies(P, Ran(P.calls, 2, s), s, op, m)
             /\ Possible(s, Move(p, q)) /\ Ran(P.calls, 2, s) = T
    <2>1. Possible(s, Move(p, q)) /\ Ran(P.calls, 2, s) = Effect(s, Move(p, q))
        <3>1. 1 \in 1 .. 4 /\ 1 + 1 = 2
            OBVIOUS
        <3>2. Ready(P.calls, 2, s) => Possible(Ran(P.calls, 1, s), P.calls[1])
            BY <3>1, RanMeans
        <3> QED
            BY <3>2, <1>3, <1>7, RanMeans
    <2>2. /\ ~IsPrefix(p, q) /\ ~IsPrefix(q, p)
          /\ Effect(s, Move(p, q)) = T /\ IsTree(T)
          /\ Possible(T, Move(q, p)) /\ Effect(T, Move(q, p)) = s
        BY <2>1, <1>1, MoveThere DEF T
    <2>3. Fresh(T, m + 1)
        BY <1>4, <1>5, <1>6, FreshMoved DEF T
    <2>4. Visible(T) = Moved(Visible(s), p, q)
        <3>1. DOMAIN T \subseteq Paths
            BY <2>2 DEF IsTree
        <3>2. Visible(T) = Strip(T, Own(0)) /\ Visible(s) = Strip(s, Own(0))
            BY <3>1, <1>4, VisibleMeans
        <3> QED
            BY <3>2, <1>4, <1>5, StripMoved DEF T
    <2>5. ~Exists(Visible(s), q)
        BY <1>1, <1>4, VisibleNode DEF Exists
    <2>6. Visible(T) = Meaning(op, Visible(s))
        <3> HIDE DEF Moved
        <3> QED
            BY <2>4, <2>5 DEF Meaning
    <2>7. Harmless(Move(q, p), Own(m + 1))
        BY <1>4, <1>5 DEF Harmless
    <2>8. P.undo[1].call = Move(q, p) /\ Len(P.undo) = 1
        BY <1>2 DEF Loud
    <2>9. Undoes(P.undo, T, s, Own(m + 1))
        BY <2>2, <2>7, <1>2 DEF Undoes
    <2>10. Goes(P.undo, T)
        BY <2>2, <2>8 DEF Goes
    <2> QED
        BY <2>1, <2>2, <2>3, <2>6, <2>9, <2>10 DEF Applies
<1>8. Fails(P.calls[1], P.fix[1], Ran(P.calls, 1, s), s, m)
    <2>1. Residues(s, Move(p, q)) = {s} /\ Ran(P.calls, 1, s) = s
        BY RenameMeans, RanMeans
    <2> QED
        BY <2>1, <1>3, <1>4, <1>6 DEF Fails, Repairs, Recovered
<1>9. \A i \in 1 .. 1 : i = 1
    OBVIOUS
<1> QED
    BY <1>1, <1>2, <1>3, <1>7, <1>8, <1>9 DEF Exists, T

\* A rename over a file or directory, which is backed up.
LEMMA RenameOver ==
    ASSUME NEW s, IsTree(s), NEW m \in Nat, Fresh(s, m),
           NEW op, op.kind = "rename", op.path \in Paths, IsUserPath(op.path),
           op.newPath \in Paths, IsUserPath(op.newPath), Exists(s, op.newPath),
           NEW P, P = CommitRename(s, op, m), P.run = "calls"
    PROVE  /\ Len(P.calls) = 3
           /\ Ready(P.calls, 4, s) =>
                  LET M == Moved(s, op.newPath, BackupOf(op.newPath, m)) IN
                  /\ Applies(P, Ran(P.calls, 4, s), s, op, m)
                  /\ Possible(M, Move(op.path, op.newPath))
                  /\ Ran(P.calls, 4, s) = Moved(M, op.path, op.newPath)
           /\ ~IsPrefix(op.path, op.newPath) /\ ~IsPrefix(op.newPath, op.path) =>
                  \A i \in 1 .. 3 : Fails(P.calls[i], P.fix[i], Ran(P.calls, i, s), s, m)
           /\ P.finalize = <<UnlinkAll(BackupOf(op.newPath, m))>> /\ op.overwrite
           /\ Exists(s, op.path)
<1> DEFINE p == op.path
           q == op.newPath
           b == BackupOf(q, m)
           M == Moved(s, q, b)
           T == Moved(M, p, q)
<1> HIDE DEF IsPrefix, b, M, T
<1>1. /\ P = Program(<<Reserve(b), Move(q, b), Move(p, q)>>,
                     <<<<>>, <<>>, <<Move(b, q)>>>>,
                     <<Loud(Move(q, p)), Loud(Move(b, q))>>, <<UnlinkAll(b)>>)
      /\ p \in DOMAIN s /\ q \in DOMAIN s /\ op.overwrite
    BY DEF CommitRename, Refuse, Skip, Exists, b
<1>2. /\ P.calls = <<Reserve(b), Move(q, b), Move(p, q)>> /\ P.fix = <<<<>>, <<>>, <<Move(b, q)>>>>
      /\ P.undo = <<Loud(Move(q, p)), Loud(Move(b, q))>> /\ P.finalize = <<UnlinkAll(b)>>
    BY <1>1, ProgramMeans
<1>3. /\ Len(P.calls) = 3 /\ P.calls[1] = Reserve(b) /\ P.calls[2] = Move(q, b)
      /\ P.calls[3] = Move(p, q) /\ P.fix[1] = <<>> /\ P.fix[2] = <<>> /\ P.fix[3] = <<Move(b, q)>>
    BY <1>2
<1>4. /\ DOMAIN s \subseteq Paths /\ s = [r \in DOMAIN s |-> s[r]]
      /\ \A h \in Nat : ~Hits(p, Own(h)) /\ ~Hits(q, Own(h))
    <2>1. 0 \in Nat
        OBVIOUS
    <2> QED
        BY <2>1, OwnPath, TreeMeans
<1>5. 0 \in Nat /\ m + 1 \in Nat
    OBVIOUS
<1>6. Hits(b, Own(m)) /\ ~Hits(b, Own(m + 1))
    <2>1. m <= m /\ ~(m + 1 <= m)
        OBVIOUS
    <2>2. \A h \in Nat : Hits(b, Own(h)) <=> h <= m
        BY OwnPath DEF b
    <2> QED
        BY <2>1, <2>2, <1>5
<1>7. /\ b \in Paths /\ Possible(s, Reserve(b)) /\ Possible(s, Move(q, b)) /\ Effect(s, Move(q, b)) = M
      /\ IsTree(M) /\ Fresh(M, m + 1) /\ Strip(s, Own(m)) = s
      /\ Visible(M) = Without(Visible(s), Under(Visible(s), q))
      /\ \A r \in DOMAIN M : ~IsPrefix(q, r)
      /\ ParentExists(M, q)
      /\ Possible(M, Move(b, q)) /\ Effect(M, Move(b, q)) = s
      /\ \A r \in DOMAIN s : ~IsPrefix(q, r) => r \in DOMAIN M /\ M[r] = s[r]
    BY <1>1, Aside DEF b, M
<1>8. q \notin DOMAIN M
    BY <1>7, PrefixOrder
<1>9. Ran(P.calls, 1, s) = s /\ Ran(P.calls, 2, s) = s /\ Ran(P.calls, 3, s) = M
    <2>1. Effect(s, Reserve(b)) = s
        BY WriteMeans
    <2> QED
        BY <2>1, <1>3, <1>7, RanMeans
<1>10. ASSUME Ready(P.calls, 4, s)
       PROVE  /\ Applies(P, Ran(P.calls, 4, s), s, op, m)
              /\ Possible(M, Move(p, q)) /\ Ran(P.calls, 4, s) = T
    <2>1. Possible(M, Move(p, q)) /\ Ran(P.calls, 4, s) = Effect(M, Move(p, q))
        <3>1. 3 \in 1 .. 4 /\ 3 + 1 = 4
            OBVIOUS
        <3>2. /\ Ready(P.calls, 4, s) => Possible(Ran(P.calls, 3, s), P.calls[3])
              /\ Ran(P.calls, 4, s) = Effect(Ran(P.calls, 3, s), P.calls[3])
            BY <3>1, RanMeans
        <3> QED
            BY <3>2, <1>3, <1>9, <1>10
    <2>2. /\ ~IsPrefix(p, q) /\ ~IsPrefix(q, p)
          /\ Effect(M, Move(p, q)) = T /\ IsTree(T)
          /\ Possible(T, Move(q, p)) /\ Effect(T, Move(q, p)) = M
        BY <2>1, <1>7, <1>8, MoveThere DEF T
    <2>3. DOMAIN M \subseteq Paths /\ DOMAIN T \subseteq Paths
        BY <2>2, <1>7 DEF IsTree
    <2>4. Fresh(T, m + 1)
        BY <2>3, <1>4, <1>5, <1>7, FreshMoved DEF T
    <2>5. Visible(T) = Moved(Visible(s), p, q)
        <3>1. Visible(T) = Strip(T, Own(0)) /\ Visible(M) = Strip(M, Own(0))
            BY <2>3, VisibleMeans
        <3>2. Visible(T) = Moved(Visible(M), p, q)
            BY <3>1, <2>3, <1>4, <1>5, StripMoved DEF T
        <3>3. DOMAIN Visible(s) \subseteq Paths
            BY <1>4, VisibleNode
        <3> QED
            BY <3>2, <3>3, <2>2, <1>7, MovedOverNothing
    <2>6. Visible(T) = Meaning(op, Visible(s))
        <3> HIDE DEF Moved
        <3> QED
            BY <2>5, <1>1 DEF Meaning
    <2>7. Harmless(Move(q, p), Own(m + 1)) /\ Harmless(Move(b, q), Own(m + 1))
        BY <1>4, <1>5, <1>6, <1>7 DEF Harmless
    <2>8. P.undo[1].call = Move(q, p) /\ P.undo[2].call = Move(b, q)
        BY <1>2 DEF Loud
    <2>9. Undoes(P.undo, T, s, Own(m + 1))
        BY <2>2, <2>7, <1>2, <1>7 DEF Undoes
    <2>10. Goes(P.undo, T)
        BY <2>2, <2>8, <1>7 DEF Goes
    <2> QED
        BY <2>1, <2>2, <2>4, <2>6, <2>9, <2>10 DEF Applies
<1>11. Recovered(s, s, m)
    BY <1>4, <1>7 DEF Recovered
<1>12. Fails(P.calls[1], P.fix[1], Ran(P.calls, 1, s), s, m)
    BY <1>3, <1>4, <1>6, <1>7, <1>9, ReserveFails DEF Fails, Repairs
<1>13. Fails(P.calls[2], P.fix[2], Ran(P.calls, 2, s), s, m)
    <2>1. Residues(s, Move(q, b)) = {s}
        BY RenameMeans
    <2> QED
        BY <2>1, <1>3, <1>7, <1>9, <1>11 DEF Fails, Repairs
<1>14. ASSUME ~IsPrefix(p, q), ~IsPrefix(q, p)
       PROVE  Fails(P.calls[3], P.fix[3], Ran(P.calls, 3, s), s, m)
    <2>1. Residues(M, Move(p, q)) = {M}
        BY RenameMeans
    <2>2. p \in DOMAIN M
        BY <1>1, <1>7, <1>14
    <2>3. Possible(M, Move(p, q))
        BY <2>2, <1>7, <1>8, <1>14, RenameMeans
    <2>4. Repairs(<<Move(b, q)>>, M, s, m)
        BY <1>7, <1>11 DEF Repairs
    <2> QED
        BY <2>1, <2>3, <2>4, <1>3, <1>9 DEF Fails
<1>15. \A i \in 1 .. 3 : i = 1 \/ i = 2 \/ i = 3
    OBVIOUS
<1> QED
    BY <1>1, <1>2, <1>3, <1>10, <1>12, <1>13, <1>14, <1>15 DEF b, M, T, Exists

\* An operation of a batch is well formed.
LEMMA OpMeans ==
    ASSUME NEW ops \in Batches, NEW m \in 1 .. Len(ops)
    PROVE  /\ Len(ops) \in Nat /\ m \in DOMAIN ops
           /\ ops[m].kind \in {"create", "edit", "rename", "delete"}
           /\ ops[m].path \in Paths /\ IsUserPath(ops[m].path)
           /\ ops[m].kind = "rename" => ops[m].newPath \in Paths /\ IsUserPath(ops[m].newPath)
           /\ ops[m].kind = "create" => \A h \in 1 .. m : ops[h].kind = "create"
<1>1. ops \in Seq(Range(ops))
    BY FileOpsAssumption
<1>2. Len(ops) \in Nat /\ DOMAIN ops = 1 .. Len(ops)
    BY <1>1
<1>3. \A h \in 1 .. Len(ops) : ops[h] \in Range(ops)
    BY <1>2 DEF Range
<1>4. \A h \in 1 .. Len(ops) : ops[h].kind \in {"create", "edit", "rename", "delete"}
    BY <1>3, FileOpsAssumption
<1>5. /\ ops[m].path \in Paths /\ IsUserPath(ops[m].path)
      /\ ops[m].kind = "rename" => ops[m].newPath \in Paths /\ IsUserPath(ops[m].newPath)
    BY <1>3, FileOpsAssumption
<1>6. ASSUME ops[m].kind = "create", NEW h \in 1 .. m PROVE ops[h].kind = "create"
    <2>1. h \in DOMAIN ops /\ m \in DOMAIN ops /\ h <= m
        BY <1>2
    <2>2. Rank(ops[h]) <= Rank(ops[m])
        BY <2>1, FileOpsAssumption
    <2>3. Rank(ops[m]) = 1
        BY <1>6 DEF Rank
    <2>4. /\ ops[h].kind = "edit" => Rank(ops[h]) = 2
          /\ ops[h].kind = "rename" => Rank(ops[h]) = 3
          /\ ops[h].kind = "delete" => Rank(ops[h]) = 4
        BY DEF Rank
    <2>5. ~(2 <= 1) /\ ~(3 <= 1) /\ ~(4 <= 1)
        OBVIOUS
    <2>6. ops[h].kind \in {"create", "edit", "rename", "delete"}
        BY <2>1, <1>2, <1>4
    <2> QED
        BY <2>2, <2>3, <2>4, <2>5, <2>6
<1> QED
    BY <1>2, <1>4, <1>5, <1>6

\* The overwriting operations the local repairs can cope with: a create does not
\* replace a directory and a rename does not replace what its path is under.
Apart(op, s) ==
    op.overwrite =>
        /\ op.kind = "create" => ~IsDir(s, op.path)
        /\ op.kind = "rename" => ~IsPrefix(op.path, op.newPath) /\ ~IsPrefix(op.newPath, op.path)

\* A call that discards a backup.
Discards(c) == \E b \in Paths : ~IsUserPath(b) /\ (c = Unlink(b) \/ c = UnlinkAll(b))

\* What holds of the program of every operation.
LEMMA EachRuns ==
    ASSUME batch \in Batches, NEW m \in 1 .. Len(batch), NEW s, IsTree(s), Fresh(s, m),
           NEW P, P = ProgramOf(s, m), P.run = "calls"
    PROVE  /\ Len(P.calls) \in 1 .. 4
           /\ Ready(P.calls, Len(P.calls) + 1, s) =>
                  Applies(P, Ran(P.calls, Len(P.calls) + 1, s), s, batch[m], m)
           /\ Apart(batch[m], s) =>
                  \A i \in 1 .. Len(P.calls) : Fails(P.calls[i], P.fix[i], Ran(P.calls, i, s), s, m)
           /\ P.finalize = <<>> \/ \E c : P.finalize = <<c>> /\ Discards(c)
<1> DEFINE op == batch[m]
<1> HIDE DEF op, IsPrefix
<1>1. /\ m \in Nat /\ m \in DOMAIN batch /\ op.kind \in {"create", "edit", "rename", "delete"}
      /\ op.path \in Paths /\ IsUserPath(op.path)
      /\ op.kind = "rename" => op.newPath \in Paths /\ IsUserPath(op.newPath)
    BY OpMeans DEF op
<1>2. 1 + 1 = 2 /\ 2 + 1 = 3 /\ 3 + 1 = 4 /\ 4 + 1 = 5
    OBVIOUS
<1>3. 1 \in 1 .. 4 /\ 2 \in 1 .. 4 /\ 3 \in 1 .. 4 /\ 4 \in 1 .. 4
    OBVIOUS
<1>4. ASSUME NEW p \in Paths, IsUserPath(p)
      PROVE  Discards(Unlink(BackupOf(p, m))) /\ Discards(UnlinkAll(BackupOf(p, m)))
    <2>1. 0 \in Nat /\ 0 <= m
        BY <1>1
    <2>2. BackupOf(p, m) \in Paths /\ Hits(BackupOf(p, m), Own(0))
        BY <2>1, <1>1, <1>4, OwnPath
    <2>3. ~IsUserPath(BackupOf(p, m))
        BY <2>2, UserPathMeans
    <2> QED
        BY <2>2, <2>3 DEF Discards
<1>5. CASE op.kind = "create" /\ ~Exists(s, op.path)
    <2>1. P = CommitCreate(s, op, m)
        BY <1>5 DEF ProgramOf, op
    <2> HIDE DEF Applies, Fails, CommitCreate, Exists
    <2>2. /\ Len(P.calls) = 2 /\ Applies(P, Ran(P.calls, 3, s), s, op, m)
          /\ \A i \in 1 .. 2 : Fails(P.calls[i], P.fix[i], Ran(P.calls, i, s), s, m)
          /\ P.finalize = <<>>
        BY <2>1, <1>1, <1>5, CreateNew
    <2> QED
        BY <2>2, <1>2, <1>3 DEF op
<1>6. CASE op.kind = "create" /\ Exists(s, op.path)
    <2>1. P = CommitCreate(s, op, m)
        BY <1>6 DEF ProgramOf, op
    <2>2. IsDir(s, op.path) <=> s[op.path] = Dir
        BY <1>6 DEF IsDir
    <2> HIDE DEF Applies, Fails, CommitCreate, Exists, IsDir
    <2>3. /\ Len(P.calls) = 3 /\ Applies(P, Ran(P.calls, 4, s), s, op, m)
          /\ s[op.path] # Dir =>
                \A i \in 1 .. 3 : Fails(P.calls[i], P.fix[i], Ran(P.calls, i, s), s, m)
          /\ P.finalize = <<Unlink(BackupOf(op.path, m))>> /\ op.overwrite
        BY <2>1, <1>1, <1>6, CreateOver
    <2>4. Apart(op, s) => s[op.path] # Dir
        BY <2>2, <2>3, <1>6 DEF Apart
    <2> QED
        BY <2>3, <2>4, <1>1, <1>2, <1>3, <1>4 DEF op
<1>7. CASE op.kind = "edit"
    <2>1. P = CommitTextEdit(s, op, m)
        BY <1>7 DEF ProgramOf, op
    <2> HIDE DEF Applies, Fails, CommitTextEdit
    <2>2. /\ Len(P.calls) = 4 /\ Applies(P, Ran(P.calls, 5, s), s, op, m)
          /\ \A i \in 1 .. 4 : Fails(P.calls[i], P.fix[i], Ran(P.calls, i, s), s, m)
          /\ P.finalize = <<Unlink(BackupOf(op.path, m))>>
        BY <2>1, <1>1, <1>7, TextEdit DEF op
    <2> QED
        BY <2>2, <1>1, <1>2, <1>3, <1>4 DEF op
<1>8. CASE op.kind = "rename" /\ ~Exists(s, op.newPath)
    <2>1. P = CommitRename(s, op, m)
        BY <1>8 DEF ProgramOf, op
    <2> HIDE DEF Applies, Fails, CommitRename, Exists
    <2>2. /\ Len(P.calls) = 1
          /\ Ready(P.calls, 2, s) => Applies(P, Ran(P.calls, 2, s), s, op, m)
          /\ \A i \in 1 .. 1 : Fails(P.calls[i], P.fix[i], Ran(P.calls, i, s), s, m)
          /\ P.finalize = <<>>
        BY <2>1, <1>1, <1>8, RenameNew
    <2> QED
        BY <2>2, <1>2, <1>3 DEF op
<1>9. CASE op.kind = "rename" /\ Exists(s, op.newPath)
    <2>1. P = CommitRename(s, op, m)
        BY <1>9 DEF ProgramOf, op
    <2> HIDE DEF Applies, Fails, CommitRename, Exists
    <2>2. /\ Len(P.calls) = 3
          /\ Ready(P.calls, 4, s) => Applies(P, Ran(P.calls, 4, s), s, op, m)
          /\ ~IsPrefix(op.path, op.newPath) /\ ~IsPrefix(op.newPath, op.path) =>
                \A i \in 1 .. 3 : Fails(P.calls[i], P.fix[i], Ran(P.calls, i, s), s, m)
          /\ P.finalize = <<UnlinkAll(BackupOf(op.newPath, m))>> /\ op.overwrite
        BY <2>1, <1>1, <1>9, RenameOver
    <2>3. Apart(op, s) => ~IsPrefix(op.path, op.newPath) /\ ~IsPrefix(op.newPath, op.path)
        BY <2>2, <1>9 DEF Apart
    <2>4. Discards(UnlinkAll(BackupOf(op.newPath, m)))
        BY <1>1, <1>4, <1>9
    <2> QED
        BY <2>2, <2>3, <2>4, <1>2, <1>3 DEF op
<1>10. CASE op.kind = "delete"
    <2>1. P = CommitDelete(s, op, m)
        BY <1>10 DEF ProgramOf, op
    <2> HIDE DEF Applies, Fails, CommitDelete
    <2>2. /\ Len(P.calls) = 2 /\ Applies(P, Ran(P.calls, 3, s), s, op, m)
          /\ \A i \in 1 .. 2 : Fails(P.calls[i], P.fix[i], Ran(P.calls, i, s), s, m)
          /\ P.finalize = <<UnlinkAll(BackupOf(op.path, m))>>
        BY <2>1, <1>1, <1>10, Delete
    <2> QED
        BY <2>2, <1>1, <1>2, <1>3, <1>4 DEF op
<1> QED
    BY <1>1, <1>5, <1>6, <1>7, <1>8, <1>9, <1>10

\* An operation that is skipped means nothing to be done.
LEMMA Skipped ==
    ASSUME batch \in Batches, NEW m \in 1 .. Len(batch), NEW s, IsTree(s),
           ProgramOf(s, m).run = "skip"
    PROVE  Visible(s) = Meaning(batch[m], Visible(s))
<1> DEFINE op == batch[m]
           p == op.path
           V == Visible(s)
<1> HIDE DEF op, IsPrefix, V
<1>1. /\ op.kind \in {"create", "edit", "rename", "delete"}
      /\ p \in Paths /\ IsUserPath(p)
      /\ op.kind = "rename" => op.newPath \in Paths /\ IsUserPath(op.newPath)
      /\ DOMAIN s \subseteq Paths
    BY OpMeans DEF op, IsTree
<1>2. CASE op.kind = "create"
    <2>1. Exists(s, p) /\ ~op.overwrite
        BY <1>2 DEF ProgramOf, CommitCreate, Refuse, Program, op
    <2>2. Exists(V, p)
        BY <2>1, <1>1, VisibleNode DEF V
    <2> QED
        BY <2>1, <2>2, <1>2 DEF Meaning, op, V
<1>3. CASE op.kind = "edit"
    BY <1>3 DEF ProgramOf, CommitTextEdit, Refuse, Program, op
<1>4. CASE op.kind = "rename"
    <2>1. Exists(s, op.newPath) /\ ~op.overwrite
        BY <1>4 DEF ProgramOf, CommitRename, Refuse, Program, op
    <2>2. Exists(V, op.newPath)
        BY <2>1, <1>1, <1>4, VisibleNode DEF V
    <2> QED
        BY <2>1, <2>2, <1>4 DEF Meaning, op, V
<1>5. CASE op.kind = "delete"
    <2>1. ~Exists(s, p)
        BY <1>5 DEF ProgramOf, CommitDelete, Refuse, Program, op
    <2>2. \A q \in DOMAIN V : ~IsPrefix(p, q)
        BY <2>1, <1>1, NothingUnder, VisibleNode DEF V, Exists
    <2> DEFINE N == Without(V, Under(V, p))
    <2> HIDE DEF N
    <2>3. /\ N = [q \in DOMAIN N |-> N[q]]
          /\ \A q : q \in DOMAIN N <=> q \in DOMAIN V /\ ~IsPrefix(p, q)
          /\ \A q \in DOMAIN N : N[q] = V[q]
        BY WithoutMeans DEF N
    <2>4. V = [q \in DOMAIN V |-> V[q]]
        BY <1>1, VisibleMeans, StripMeans DEF V
    <2>5. \A q : q \in DOMAIN N <=> q \in DOMAIN V
        BY <2>2, <2>3
    <2>6. N = V
        BY <2>3, <2>4, <2>5, SameTree
    <2> QED
        BY <2>6, <1>5 DEF Meaning, op, V, N
<1> QED
    BY <1>1, <1>2, <1>3, <1>4, <1>5

(* ------------------------- what a batch means ---------------------------- *)

\* A set of naturals that is not empty has a least element.
LEMMA LeastNat ==
    ASSUME NEW T \in SUBSET Nat, T # {}
    PROVE  \E x \in T : \A y \in T : x <= y
<1> DEFINE R == {ss \in Nat \X Nat : ss[1] < ss[2]}
<1>1. IsWellFoundedOn(R, Nat)
    BY NatLessThanWellFounded DEF OpToRel
<1> HIDE DEF R
<1>2. PICK x \in T : \A y \in T : ~(<<y, x>> \in R)
    BY <1>1, WFMin
<1>3. ASSUME NEW y \in T PROVE x <= y
    <2>1. ~(y < x)
        BY <1>2 DEF R
    <2> QED
        BY <2>1
<1> QED
    BY <1>3

\* The recursive function of After satisfies its equation.
LEMMA AfterMeans ==
    ASSUME NEW ops, Len(ops) \in Nat
    PROVE  /\ After(ops)[0] = Start
           /\ \A m \in 1 .. Len(ops) : After(ops)[m] = Meaning(ops[m], After(ops)[m - 1])
<1> DEFINE Solves(f, k) == f = [m \in 0 .. k |-> IF m = 0 THEN Start ELSE Meaning(ops[m], f[m - 1])]
           T == {k \in Nat : ~\E f : Solves(f, k)}
<1> HIDE DEF Meaning
<1>1. Solves([m \in 0 .. 0 |-> Start], 0)
    BY DEF Solves
<1>2. ASSUME NEW k \in Nat, k # 0, NEW f, Solves(f, k - 1)
      PROVE  \E g : Solves(g, k)
    <2> DEFINE g == [m \in 0 .. k |-> IF m = k THEN Meaning(ops[k], f[k - 1]) ELSE f[m]]
    <2>1. DOMAIN g = 0 .. k /\ \A m \in 0 .. k : g[m] = IF m = k THEN Meaning(ops[k], f[k - 1]) ELSE f[m]
        OBVIOUS
    <2>2. \A m \in 0 .. k : m # k => m \in 0 .. k - 1
        OBVIOUS
    <2>3. \A m \in 0 .. k : m # 0 => m - 1 \in 0 .. k /\ m - 1 # k
        OBVIOUS
    <2>4. \A m \in 0 .. k - 1 : f[m] = IF m = 0 THEN Start ELSE Meaning(ops[m], f[m - 1])
        BY <1>2
    <2>5. \A m \in 0 .. k : g[m] = IF m = 0 THEN Start ELSE Meaning(ops[m], g[m - 1])
        <3>1. ASSUME NEW m \in 0 .. k, m = 0
              PROVE  g[m] = Start
            BY <1>2, <2>1, <2>2, <2>4, <3>1
        <3>2. ASSUME NEW m \in 0 .. k, m # 0
              PROVE  g[m] = Meaning(ops[m], f[m - 1]) /\ g[m - 1] = f[m - 1]
            BY <2>1, <2>2, <2>3, <2>4, <3>2
        <3> QED
            BY <3>1, <3>2
    <2>6. g = [m \in 0 .. k |-> g[m]]
        OBVIOUS
    <2> HIDE DEF g
    <2>7. Solves(g, k)
        BY <2>5, <2>6
    <2> QED
        BY <2>7
<1> HIDE DEF Solves
<1>3. T = {}
    <2> SUFFICES ASSUME T # {} PROVE FALSE
        OBVIOUS
    <2>1. PICK k \in T : \A y \in T : k <= y
        BY LeastNat
    <2>2. k \in Nat /\ k # 0
        BY <2>1, <1>1
    <2>3. k - 1 \in Nat /\ ~(k <= k - 1)
        BY <2>2
    <2>4. PICK f : Solves(f, k - 1)
        BY <2>1, <2>3
    <2> QED
        BY <2>1, <2>2, <2>4, <1>2
<1>4. PICK f : Solves(f, Len(ops))
    BY <1>3
<1>5. After(ops) = [m \in 0 .. Len(ops) |->
                       IF m = 0 THEN Start ELSE Meaning(ops[m], After(ops)[m - 1])]
    BY <1>4 DEF After, Solves
<1>6. 0 \in 0 .. Len(ops) /\ \A m \in 1 .. Len(ops) : m \in 0 .. Len(ops) /\ m # 0
    OBVIOUS
<1> QED
    BY <1>5, <1>6

(* ------------------------------- the journal ----------------------------- *)

\* H holds the trees between the entries of the journal jl.
Chain(H, jl, k) ==
    /\ H[1] = Start
    /\ \A e \in 1 .. Len(jl) :
           Undoes(jl[e].undo, H[e + 1], H[e], Own(k)) /\ Goes(jl[e].undo, H[e + 1])

\* s is what the operations before the k-th have made of the workspace.
Reached(s, k, ops, jl) ==
    /\ IsTree(s) /\ Fresh(s, k)
    /\ Visible(s) = After(ops)[k - 1]
    /\ (\A h \in 1 .. k - 1 : ops[h].kind = "create") =>
           \A p \in Paths : IsUserPath(p) /\ IsDir(s, p) => IsDir(Start, p)
    /\ \E H : Chain(H, jl, k) /\ H[Len(jl) + 1] = s

\* P is a program of the k-th operation, run from s.
Final(f) == f = <<>> \/ \E c : f = <<c>> /\ Discards(c)
Running(P, s, k, ops) ==
    /\ Len(P.calls) \in 1 .. 4
    /\ Ready(P.calls, Len(P.calls) + 1, s) =>
           Applies(P, Ran(P.calls, Len(P.calls) + 1, s), s, ops[k], k)
    /\ Apart(ops[k], s) =>
           \A i \in 1 .. Len(P.calls) : Fails(P.calls[i], P.fix[i], Ran(P.calls, i, s), s, k)
    /\ Final(P.finalize)

\* The tree t is being undone: u and then the journal jl lead back to Start.
Undoing(H, jl, u, t, k, f) ==
    /\ Chain(H, jl, k) /\ DOMAIN t \subseteq Paths
    /\ Undoes(u, Strip(t, Own(k)), H[Len(jl) + 1], Own(k))
    /\ f = 0 => Undoes(u, t, H[Len(jl) + 1], Own(k)) /\ Goes(u, t)

OverwritesApart(ops) == \A m \in 1 .. Len(ops) : Apart(ops[m], Start)

\* The workspace at the start is a tree of the user, with no reserved name in it.
LEMMA StartMeans ==
    IsTree(Start) /\ Fresh(Start, 1) /\ Visible(Start) = Start
<1>1. IsTree(Start) /\ \A p \in DOMAIN Start : IsUserPath(p)
    BY FileOpsAssumption
<1>2. DOMAIN Start \subseteq Paths /\ Start = [q \in DOMAIN Start |-> Start[q]]
    BY <1>1, TreeMeans
<1>3. \A p \in DOMAIN Start : ~Hits(p, Own(0))
    BY <1>1, <1>2, UserPathMeans
<1>4. Fresh(Start, 1)
    <2>1. 0 \in Nat /\ 1 \in Nat /\ 0 <= 1
        OBVIOUS
    <2> QED
        BY <2>1, <1>3, OwnShrinks DEF Fresh
<1>5. Visible(Start) = Start
    BY <1>2, <1>3, VisibleMeans, StripNothing
<1> QED
    BY <1>1, <1>4, <1>5

\* Before its first operation the batch is where it starts.
LEMMA ReachedFirst ==
    ASSUME NEW ops \in Batches
    PROVE  Reached(Start, 1, ops, <<>>)
<1> DEFINE H == [i \in {1} |-> Start]
<1>1. Len(ops) \in Nat
    BY FileOpsAssumption
<1>2. Visible(Start) = After(ops)[1 - 1]
    BY <1>1, AfterMeans, StartMeans
<1>3. Len(<<>>) = 0 /\ 0 + 1 = 1 /\ 1 .. 0 = {}
    OBVIOUS
<1>4. H[1] = Start
    OBVIOUS
<1> HIDE DEF H
<1>5. Chain(H, <<>>, 1) /\ H[Len(<<>>) + 1] = Start
    BY <1>3, <1>4 DEF Chain
<1> QED
    BY <1>2, <1>5, StartMeans DEF Reached

\* A journal of k operations is one of k + 1.
LEMMA ChainLater ==
    ASSUME NEW H, NEW jl, NEW k \in Nat, Chain(H, jl, k)
    PROVE  Chain(H, jl, k + 1)
<1>1. k + 1 \in Nat /\ k <= k + 1
    OBVIOUS
<1>2. Own(k + 1) \in SUBSET Own(k)
    BY <1>1, OwnShrinks
<1> QED
    BY <1>2, UndoesLess DEF Chain

\* An operation that changes nothing leads to the same tree and journals nothing.
LEMMA ReachedSkip ==
    ASSUME NEW ops \in Batches, NEW k \in 1 .. Len(ops), NEW s, NEW jl, Reached(s, k, ops, jl),
           Visible(s) = Meaning(ops[k], Visible(s))
    PROVE  Reached(s, k + 1, ops, jl)
<1>1. Len(ops) \in Nat /\ k \in Nat /\ (k + 1) - 1 = k
    BY OpMeans
<1>2. Visible(s) = After(ops)[k]
    BY <1>1, AfterMeans DEF Reached
<1>3. Fresh(s, k + 1)
    BY <1>1, FreshMeans DEF Reached, IsTree
<1>4. \A h \in 1 .. k - 1 : h \in 1 .. k
    BY <1>1
<1>5. \E H : Chain(H, jl, k + 1) /\ H[Len(jl) + 1] = s
    BY <1>1, ChainLater DEF Reached
<1> QED
    BY <1>1, <1>2, <1>3, <1>4, <1>5 DEF Reached

\* Creating a file makes no directory.
LEMMA CreateMakesNoDir ==
    ASSUME NEW s, IsTree(s), NEW t, IsTree(t), NEW op, op.kind = "create",
           op.path \in Paths, IsUserPath(op.path), Visible(t) = Meaning(op, Visible(s)),
           NEW p \in Paths, IsUserPath(p), IsDir(t, p)
    PROVE  IsDir(s, p)
<1> DEFINE V == Visible(s)
           W == Without(V, Under(V, op.path))
<1> HIDE DEF IsPrefix, V, W
<1>1. p \in DOMAIN Visible(t) /\ Visible(t)[p] = Dir
    BY VisibleNode DEF IsDir, IsTree, Exists
<1>2. p \in DOMAIN V /\ V[p] = Dir => IsDir(s, p)
    BY VisibleNode DEF V, IsDir, IsTree, Exists
<1>3. CASE Visible(t) = V
    BY <1>1, <1>2, <1>3
<1>4. CASE Visible(t) = With(W, op.path, Empty)
    <2>1. "empty" # "dir"
        OBVIOUS
    <2>2. Empty # Dir
        BY <2>1 DEF Empty, Dir
    <2>3. p \in DOMAIN W /\ W[p] = Dir
        BY <2>2, <1>1, <1>4, WithMeans
    <2> QED
        BY <2>3, <1>2, WithoutMeans DEF W
<1>5. Visible(t) = V \/ Visible(t) = With(W, op.path, Empty)
    <2> HIDE DEF With, Without, Under
    <2> QED
        BY DEF Meaning, V, W
<1> QED
    BY <1>3, <1>4, <1>5

\* An operation that is applied leads to the next tree and journals its undo.
LEMMA ReachedNext ==
    ASSUME NEW ops \in Batches, NEW k \in 1 .. Len(ops), NEW s, NEW S, NEW jl \in Seq(S),
           Reached(s, k, ops, jl), NEW P, NEW t, Applies(P, t, s, ops[k], k)
    PROVE  Reached(t, k + 1, ops, Append(jl, [undo |-> P.undo, finalize |-> P.finalize]))
<1> DEFINE x == [undo |-> P.undo, finalize |-> P.finalize]
           L == Len(jl)
           jn == Append(jl, x)
<1>1. Len(ops) \in Nat /\ k \in Nat /\ (k + 1) - 1 = k
    BY OpMeans
<1>2. PICK H : Chain(H, jl, k) /\ H[L + 1] = s
    BY DEF Reached
<1> DEFINE G == [i \in Nat |-> IF i = L + 2 THEN t ELSE H[i]]
<1>3. x.undo = P.undo
    OBVIOUS
<1> HIDE DEF x
<1>4. /\ L \in Nat /\ Len(jn) = L + 1 /\ jn[L + 1] = x
      /\ \A e \in 1 .. L : jn[e] = jl[e]
    OBVIOUS
<1>5. G[1] = H[1] /\ G[L + 2] = t /\ G[L + 1] = s /\ \A e \in 1 .. L : G[e] = H[e] /\ G[e + 1] = H[e + 1]
    BY <1>2, <1>4
<1>6. (L + 1) + 1 = L + 2 /\ \A e \in 1 .. L + 1 : e \in 1 .. L \/ e = L + 1
    BY <1>4
<1> HIDE DEF G, jn, L
<1>7. Chain(H, jl, k + 1)
    BY <1>1, <1>2, ChainLater
<1>8. Chain(G, jn, k + 1)
    <2>1. ASSUME NEW e \in 1 .. L
          PROVE  Undoes(jn[e].undo, G[e + 1], G[e], Own(k + 1)) /\ Goes(jn[e].undo, G[e + 1])
        BY <1>4, <1>5, <1>7 DEF Chain, L
    <2>2. Undoes(jn[L + 1].undo, G[(L + 1) + 1], G[L + 1], Own(k + 1)) /\ Goes(jn[L + 1].undo, G[(L + 1) + 1])
        BY <1>3, <1>4, <1>5, <1>6 DEF Applies
    <2>3. G[1] = Start
        BY <1>2, <1>5 DEF Chain
    <2> QED
        BY <2>1, <2>2, <2>3, <1>4, <1>6 DEF Chain
<1>9. G[Len(jn) + 1] = t
    BY <1>4, <1>5, <1>6
<1>10. IsTree(t) /\ Fresh(t, k + 1) /\ Visible(t) = After(ops)[k]
    <2>1. Visible(t) = Meaning(ops[k], After(ops)[k - 1])
        BY DEF Applies, Reached
    <2> QED
        BY <2>1, <1>1, AfterMeans DEF Applies
<1>11. ASSUME \A h \in 1 .. k : ops[h].kind = "create", NEW p \in Paths, IsUserPath(p), IsDir(t, p)
       PROVE  IsDir(Start, p)
    <2>1. k \in 1 .. k /\ \A h \in 1 .. k - 1 : h \in 1 .. k
        BY <1>1
    <2>2. IsTree(s) /\ (IsDir(s, p) => IsDir(Start, p))
        BY <2>1, <1>11 DEF Reached
    <2>3. ops[k].kind = "create" /\ ops[k].path \in Paths /\ IsUserPath(ops[k].path)
        BY <2>1, <1>11, OpMeans
    <2>4. Visible(t) = Meaning(ops[k], Visible(s))
        BY DEF Applies
    <2> QED
        BY <2>2, <2>3, <2>4, <1>10, <1>11, CreateMakesNoDir
<1> QED
    BY <1>1, <1>8, <1>9, <1>10, <1>11 DEF Reached, jn, x

\* What is said of the overwriting operations of the batch holds of the one at hand.
LEMMA ApartHere ==
    ASSUME NEW ops \in Batches, NEW k \in 1 .. Len(ops), NEW s, NEW jl, Reached(s, k, ops, jl),
           OverwritesApart(ops)
    PROVE  Apart(ops[k], s)
<1> HIDE DEF IsPrefix
<1>1. Apart(ops[k], Start)
    BY DEF OverwritesApart
<1>2. ASSUME ops[k].kind = "create", ~IsDir(Start, ops[k].path) PROVE ~IsDir(s, ops[k].path)
    <2>1. /\ \A h \in 1 .. k : ops[h].kind = "create"
          /\ ops[k].path \in Paths /\ IsUserPath(ops[k].path)
        BY <1>2, OpMeans
    <2>2. \A h \in 1 .. k - 1 : h \in 1 .. k
        OBVIOUS
    <2> QED
        BY <2>1, <2>2, <1>2 DEF Reached
<1> QED
    BY <1>1, <1>2 DEF Apart

(* ----------------------------- undoing it all ---------------------------- *)

\* Without undo steps the tree is already the one before the operation.
LEMMA UndoesNothing ==
    ASSUME NEW t, NEW s, NEW C
    PROVE  Undoes(<<>>, t, s, C) <=> t = s
<1>1. \A x, y : <<>> # <<x>> /\ <<>> # <<x, y>>
    OBVIOUS
<1> HIDE DEF Loud, Quiet, Effect, Harmless
<1> QED
    BY <1>1 DEF Undoes

\* Without undo steps there is nothing that could fail.
LEMMA GoesNothing == \A t : Goes(<<>>, t)
<1>1. Len(<<>>) = 0
    OBVIOUS
<1> QED
    BY <1>1 DEF Goes

\* A batch that stops where its failed operation left nothing visible begins to undo its
\* journal.
LEMMA UndoBegins ==
    ASSUME NEW s, NEW k, NEW ops, NEW jl, Reached(s, k, ops, jl), NEW t, Recovered(t, s, k),
           NEW f, f = 0 => t = s
    PROVE  \E H : Undoing(H, jl, <<>>, t, k, f)
BY UndoesNothing, GoesNothing DEF Reached, Recovered, Undoing

\* The undo of the last entry starts from the tree that entry left.
LEMMA UndoTurns ==
    ASSUME NEW S, NEW jl \in Seq(S), jl # <<>>, NEW H, NEW t, NEW k, NEW f, Undoing(H, jl, <<>>, t, k, f)
    PROVE  Undoing(H, Front(jl), Last(jl).undo, t, k, f)
<1> DEFINE L == Len(jl)
           u == Last(jl).undo
           F == Front(jl)
<1>1. L \in Nat /\ L >= 1 /\ L \in 1 .. L /\ (L - 1) + 1 = L
    OBVIOUS
<1>2. Last(jl) = jl[L] /\ F = SubSeq(jl, 1, L - 1)
    BY DEF Last, Front
<1>3. Len(F) = L - 1 /\ \A e \in 1 .. L - 1 : F[e] = jl[e] /\ e \in 1 .. L
    BY <1>1, <1>2
<1> HIDE DEF L, F
<1>4. Strip(t, Own(k)) = H[L + 1] /\ (f = 0 => t = H[L + 1])
    BY UndoesNothing DEF Undoing, L
<1>5. Undoes(u, H[L + 1], H[L], Own(k)) /\ Goes(u, H[L + 1])
    BY <1>1, <1>2 DEF Undoing, Chain, L
<1>6. Chain(H, F, k)
    BY <1>3 DEF Undoing, Chain, L
<1> QED
    BY <1>1, <1>3, <1>4, <1>5, <1>6 DEF Undoing, L, F

\* An undo step succeeds when no fault is left over, and brings the tree one step
\* closer.
LEMMA UndoWorks ==
    ASSUME NEW jl, NEW H, NEW u, u # <<>>, NEW t, NEW k, NEW f, Undoing(H, jl, u, t, k, f)
    PROVE  /\ Undoing(H, jl, Tail(u), Effect(t, Head(u).call), k, f)
           /\ f = 0 => Possible(t, Head(u).call)
           /\ Residues(t, Head(u).call) = {t}
           /\ f # 0 /\ ~Head(u).loud => Undoing(H, jl, Tail(u), t, k, f)
<1> DEFINE c == Head(u).call
           s == H[Len(jl) + 1]
<1>1. /\ DOMAIN t \subseteq Paths /\ Undoes(u, Strip(t, Own(k)), s, Own(k))
      /\ f = 0 => Undoes(u, t, s, Own(k)) /\ Goes(u, t)
    BY DEF Undoing
<1>2. /\ Harmless(c, Own(k)) /\ Undoes(Tail(u), Effect(Strip(t, Own(k)), c), s, Own(k))
      /\ ~Head(u).loud => Undoes(Tail(u), Strip(t, Own(k)), s, Own(k))
    BY <1>1, UndoStep
<1>3. f = 0 => Undoes(Tail(u), Effect(t, c), s, Own(k)) /\ Possible(t, c) /\ Goes(Tail(u), Effect(t, c))
    BY <1>1, UndoStep
<1>4. /\ Residues(t, c) = {t} /\ DOMAIN Effect(t, c) \subseteq Paths
      /\ Strip(Effect(t, c), Own(k)) = Effect(Strip(t, Own(k)), c)
    BY <1>1, <1>2, HarmlessMeans
<1> QED
    BY <1>1, <1>2, <1>3, <1>4 DEF Undoing

\* With the journal undone the visible tree is the one at the start.
LEMMA UndoEnds ==
    ASSUME NEW H, NEW t, NEW k \in Nat, NEW f, Undoing(H, <<>>, <<>>, t, k, f)
    PROVE  Visible(t) = Visible(Start)
<1>1. Len(<<>>) + 1 = 1 /\ 0 \in Nat /\ 0 <= k
    OBVIOUS
<1>2. DOMAIN t \subseteq Paths /\ Strip(t, Own(k)) = Start
    BY <1>1, UndoesNothing DEF Undoing, Chain
<1>3. Own(k) \subseteq Own(0)
    BY <1>1, OwnShrinks
<1>4. Strip(t, Own(0)) = Strip(Start, Own(0))
    BY <1>2, <1>3, StripTwice
<1>5. DOMAIN Start \subseteq Paths
    BY StartMeans DEF IsTree
<1> QED
    BY <1>2, <1>4, <1>5, VisibleMeans

(* ---------------------------- the invariant ------------------------------ *)

\* Reached(s, k, ops, jl): the operations before k lead from Start to s, and jl
\* holds the undo of each that changed something; the trees in between are the
\* chain H that the rollback goes back along.

\* Between operations the tree is the one the batch has reached.
InOp ==
    phase = "op" => /\ j \in 1 .. Len(batch) + 1 /\ errs = {} /\ faults = 0 /\ todo = <<>>
                    /\ Reached(tree, j, batch, journal)
\* In an operation the tree is what its first n - 1 calls made of such a tree s.
InCall ==
    phase = "call" =>
        /\ j \in 1 .. Len(batch) /\ errs = {} /\ faults = 0 /\ todo = <<>>
        /\ \E s : /\ Reached(s, j, batch, journal) /\ Running(plan, s, j, batch)
                  /\ n \in 1 .. Len(plan.calls) /\ Ready(plan.calls, n, s)
                  /\ tree = Ran(plan.calls, n, s)
\* After a failed call, what is left of the repair leads back to s, but for
\* hidden names.
InRepair ==
    phase = "repair" =>
        /\ j \in 1 .. Len(batch) /\ errs = {"op"}
        /\ OverwritesApart(batch) /\ faults <= 1 =>
               \E s : /\ Reached(s, j, batch, journal) /\ Repairs(todo, tree, s, j)
                      /\ faults = 0 => todo = <<>> /\ tree = s
\* The journal and what is left of an undo lead back to Start, unless the
\* fault was spent in an undo that reports it.
InUndo ==
    phase = "undo" =>
        /\ j \in Nat /\ "op" \in errs
        /\ OverwritesApart(batch) /\ faults <= 1 =>
               \/ "undo" \in errs /\ faults = 1
               \/ "undo" \notin errs /\ \E H : Undoing(H, journal, todo, tree, j, faults)
\* A committed batch is applied, and finalizing touches backups only.
InFinalize ==
    phase = "finalize" =>
        /\ "op" \notin errs /\ Final(todo)
        /\ DOMAIN tree \subseteq Paths /\ Visible(tree) = Meant(batch)
InDone ==
    phase = "done" =>
        /\ "op" \in errs /\ OverwritesApart(batch) /\ faults <= 1 =>
               Visible(tree) = Visible(Start) \/ (faults = 1 /\ "undo" \in errs)
        /\ "op" \notin errs => Visible(tree) = Meant(batch)

Inv ==
    /\ batch \in Batches /\ faults \in Nat
    /\ \E S : journal \in Seq(S)
    /\ \A e \in 1 .. Len(journal) : Final(journal[e].finalize)
    /\ InOp /\ InCall /\ InRepair /\ InUndo /\ InFinalize /\ InDone

\* Nothing has been begun.
LEMMA InitInv == Init => Inv
<1> SUFFICES ASSUME Init PROVE Inv
    OBVIOUS
<1>1. batch \in Batches /\ tree = Start /\ phase = "op" /\ j = 1 /\ todo = <<>> /\ journal = <<>>
      /\ errs = {} /\ faults = 0
    BY DEF Init
<1>2. Reached(tree, j, batch, journal)
    BY <1>1, ReachedFirst
<1>3. Len(batch) \in Nat
    BY <1>1, FileOpsAssumption
<1>4. j \in 1 .. Len(batch) + 1
    BY <1>1, <1>3
<1>5. <<>> \in Seq({}) /\ 1 .. Len(<<>>) = {} /\ 0 \in Nat
    OBVIOUS
<1> QED
    BY <1>1, <1>2, <1>4, <1>5 DEF Inv, InOp, InCall, InRepair, InUndo, InFinalize, InDone

\* An operation is refused with nothing done, skipped, or planned as its program.
LEMMA StepBegin ==
    ASSUME Inv, Begin
    PROVE  Inv'
<1>1. phase = "op" /\ j <= Len(batch) /\ batch' = batch /\ tree' = tree /\ journal' = journal
      /\ faults' = faults /\ n' = 1
    BY DEF Begin
<1>2. /\ batch \in Batches /\ faults = 0 /\ (\E S : journal \in Seq(S)) /\ todo = <<>>
      /\ \A e \in 1 .. Len(journal) : Final(journal[e].finalize)
      /\ j \in 1 .. Len(batch) + 1 /\ errs = {} /\ Reached(tree, j, batch, journal)
    BY <1>1 DEF Inv, InOp
<1>3. Len(batch) \in Nat
    BY <1>2, FileOpsAssumption
<1>4. j \in 1 .. Len(batch) /\ j \in Nat /\ j + 1 \in 1 .. Len(batch) + 1
    BY <1>1, <1>2, <1>3
<1> DEFINE p == ProgramOf(tree, j)
<1> HIDE DEF p
<1>5. \/ /\ p.run = "refuse"
         /\ errs' = errs \cup {"op"}
         /\ phase' = "undo"
         /\ UNCHANGED <<j, plan, todo>>
      \/ /\ p.run = "skip"
         /\ j' = j + 1
         /\ UNCHANGED <<errs, phase, todo, plan>>
      \/ /\ p.run = "calls"
         /\ plan' = p /\ phase' = "call"
         /\ UNCHANGED <<errs, todo, j>>
    BY DEF Begin, p
<1>6. CASE p.run = "refuse" /\ errs' = errs \cup {"op"} /\ phase' = "undo" /\ UNCHANGED <<j, plan, todo>>
    <2>1. DOMAIN tree \subseteq Paths /\ tree = [q \in DOMAIN tree |-> tree[q]] /\ Fresh(tree, j)
        BY <1>2, TreeMeans DEF Reached
    <2>2. Recovered(tree, tree, j)
        BY <2>1, <1>4, FreshMeans DEF Recovered
    <2>3. \E H : Undoing(H, journal, <<>>, tree, j, faults)
        BY <2>2, <1>2, UndoBegins
    <2>4. "undo" \notin errs' /\ "op" \in errs'
        BY <1>2, <1>6
    <2> QED
        BY <2>3, <2>4, <1>1, <1>2, <1>4, <1>6 DEF Inv, InOp, InCall, InRepair, InUndo,
           InFinalize, InDone
<1>7. CASE p.run = "skip" /\ j' = j + 1 /\ UNCHANGED <<errs, phase, todo, plan>>
    <2>1. Visible(tree) = Meaning(batch[j], Visible(tree))
        BY <1>2, <1>4, <1>7, Skipped DEF Reached, p
    <2>2. Reached(tree, j + 1, batch, journal)
        BY <2>1, <1>2, <1>4, ReachedSkip
    <2> QED
        BY <2>2, <1>1, <1>2, <1>4, <1>7 DEF Inv, InOp, InCall, InRepair, InUndo,
           InFinalize, InDone
<1>8. CASE p.run = "calls" /\ plan' = p /\ phase' = "call" /\ UNCHANGED <<errs, todo, j>>
    <2>1. Running(p, tree, j, batch)
        BY <1>2, <1>4, <1>8, EachRuns DEF Reached, Running, Final, p
    <2>2. 1 \in 1 .. Len(p.calls)
        BY <2>1 DEF Running
    <2>3. Ready(p.calls, 1, tree) /\ tree = Ran(p.calls, 1, tree)
        BY RanMeans
    <2> QED
        BY <2>1, <2>2, <2>3, <1>1, <1>2, <1>4, <1>8 DEF Inv, InOp, InCall, InRepair,
           InUndo, InFinalize, InDone
<1> QED
    BY <1>5, <1>6, <1>7, <1>8

\* A call that is not the last brings the operation one call further.
LEMMA StepCall ==
    ASSUME Inv, Call
    PROVE  Inv'
<1>1. /\ phase = "call" /\ n < Len(plan.calls) /\ n' = n + 1
      /\ Possible(tree, plan.calls[n]) /\ tree' = Effect(tree, plan.calls[n])
      /\ UNCHANGED <<batch, phase, j, plan, todo, journal, errs, faults>>
    BY DEF Call, Works
<1>2. PICK s : /\ Reached(s, j, batch, journal) /\ Running(plan, s, j, batch)
               /\ n \in 1 .. Len(plan.calls) /\ Ready(plan.calls, n, s)
               /\ tree = Ran(plan.calls, n, s)
    BY <1>1 DEF Inv, InCall
<1>3. n \in 1 .. 4 /\ n + 1 \in 1 .. Len(plan.calls)
    BY <1>1, <1>2 DEF Running
<1>4. Ready(plan.calls, n + 1, s) /\ tree' = Ran(plan.calls, n + 1, s)
    BY <1>1, <1>2, <1>3, RanMeans
<1> QED
    BY <1>1, <1>2, <1>3, <1>4 DEF Inv, InOp, InCall, InRepair, InUndo, InFinalize, InDone

\* The last call completes the operation and appends its undo to the journal.
LEMMA StepLastCall ==
    ASSUME Inv, LastCall
    PROVE  Inv'
<1> DEFINE x == [undo |-> plan.undo, finalize |-> plan.finalize]
<1>1. /\ phase = "call" /\ n = Len(plan.calls) /\ phase' = "op" /\ j' = j + 1
      /\ Possible(tree, plan.calls[n]) /\ tree' = Effect(tree, plan.calls[n])
      /\ journal' = Append(journal, x)
      /\ UNCHANGED <<batch, plan, n, todo, errs, faults>>
    BY DEF LastCall, Works
<1>2. PICK s : /\ Reached(s, j, batch, journal) /\ Running(plan, s, j, batch)
               /\ n \in 1 .. Len(plan.calls) /\ Ready(plan.calls, n, s)
               /\ tree = Ran(plan.calls, n, s)
    BY <1>1 DEF Inv, InCall
<1>3. /\ batch \in Batches /\ faults = 0 /\ todo = <<>> /\ errs = {} /\ j \in 1 .. Len(batch)
      /\ \A e \in 1 .. Len(journal) : Final(journal[e].finalize)
    BY <1>1 DEF Inv, InCall
<1>4. PICK S : journal \in Seq(S)
    BY DEF Inv
<1>5. n \in 1 .. 4
    BY <1>1, <1>2 DEF Running
<1>6. Applies(plan, tree', s, batch[j], j)
    BY <1>1, <1>2, <1>5, RanMeans DEF Running
<1>7. Reached(tree', j + 1, batch, journal')
    BY <1>1, <1>2, <1>3, <1>4, <1>6, ReachedNext
<1>8. x.finalize = plan.finalize
    OBVIOUS
<1>9. Final(x.finalize)
    BY <1>2, <1>8 DEF Running
<1> HIDE DEF x
<1>10. /\ journal' \in Seq(S \cup {x}) /\ Len(journal') = Len(journal) + 1
       /\ journal'[Len(journal) + 1] = x /\ \A e \in 1 .. Len(journal) : journal'[e] = journal[e]
       /\ Len(journal) \in Nat
    <2>1. journal \in Seq(S \cup {x}) /\ x \in S \cup {x}
        BY <1>4, SeqMonotonic
    <2> QED
        BY <2>1, <1>1
<1>11. \A e \in 1 .. Len(journal') : Final(journal'[e].finalize)
    <2>1. \A e \in 1 .. Len(journal) + 1 : e \in 1 .. Len(journal) \/ e = Len(journal) + 1
        BY <1>10
    <2> QED
        BY <2>1, <1>3, <1>9, <1>10
<1>12. j + 1 \in 1 .. Len(batch) + 1
    BY <1>3, OpMeans
<1> QED
    BY <1>1, <1>3, <1>7, <1>10, <1>11, <1>12 DEF Inv, InOp, InCall, InRepair, InUndo,
       InFinalize, InDone

\* A call that fails leaves a residue that the repair of the operation removes, or none.
LEMMA StepCallFails ==
    ASSUME Inv, CallFails
    PROVE  Inv'
<1>1. /\ phase = "call" /\ tree' \in Residues(tree, plan.calls[n])
      /\ IF Possible(tree, plan.calls[n]) THEN faults' = faults + 1 ELSE faults' = faults
      /\ errs' = errs \cup {"op"} /\ phase' = "repair" /\ todo' = plan.fix[n]
      /\ UNCHANGED <<batch, j, plan, n, journal>>
    BY DEF CallFails, Breaks
<1>2. PICK s : /\ Reached(s, j, batch, journal) /\ Running(plan, s, j, batch)
               /\ n \in 1 .. Len(plan.calls) /\ Ready(plan.calls, n, s)
               /\ tree = Ran(plan.calls, n, s)
    BY <1>1 DEF Inv, InCall
<1>3. batch \in Batches /\ faults = 0 /\ errs = {} /\ j \in 1 .. Len(batch)
    BY <1>1 DEF Inv, InCall
<1>4. errs' = {"op"} /\ faults' \in Nat
    BY <1>1, <1>3
<1>5. ASSUME OverwritesApart(batch)
      PROVE  Repairs(todo', tree', s, j) /\ (faults' = 0 => todo' = <<>> /\ tree' = s)
    <2>1. Apart(batch[j], s)
        BY <1>2, <1>3, <1>5, ApartHere
    <2>2. Fails(plan.calls[n], plan.fix[n], tree, s, j)
        BY <2>1, <1>2 DEF Running
    <2>3. faults' = 0 => ~Possible(tree, plan.calls[n])
        BY <1>1, <1>3
    <2> QED
        BY <2>2, <2>3, <1>1 DEF Fails
<1> QED
    BY <1>1, <1>2, <1>3, <1>4, <1>5 DEF Inv, InOp, InCall, InRepair, InUndo, InFinalize,
       InDone

\* A repair call is possible and is followed by the rest of the repair.
LEMMA RepairsMeans ==
    ASSUME NEW f, NEW t, NEW s, NEW m, Repairs(f, t, s, m)
    PROVE  /\ f = <<>> => Recovered(t, s, m)
           /\ f # <<>> => Possible(t, Head(f)) /\ Repairs(Tail(f), Effect(t, Head(f)), s, m)
<1>1. CASE \E c : f = <<c>> /\ Possible(t, c) /\ Recovered(Effect(t, c), s, m)
    <2>1. PICK c : f = <<c>> /\ Possible(t, c) /\ Recovered(Effect(t, c), s, m)
        BY <1>1
    <2>2. f # <<>> /\ Head(f) = c /\ Tail(f) = <<>>
        BY <2>1
    <2> QED
        BY <2>1, <2>2 DEF Repairs
<1>2. CASE \E c, d : /\ f = <<c, d>> /\ Possible(t, c) /\ Possible(Effect(t, c), d)
                     /\ Recovered(Effect(Effect(t, c), d), s, m)
    <2>1. PICK c, d : /\ f = <<c, d>> /\ Possible(t, c) /\ Possible(Effect(t, c), d)
                      /\ Recovered(Effect(Effect(t, c), d), s, m)
        BY <1>2
    <2>2. f # <<>> /\ Head(f) = c /\ Tail(f) = <<d>>
        BY <2>1
    <2> QED
        BY <2>1, <2>2 DEF Repairs
<1> HIDE DEF Recovered, Possible, Effect
<1> QED
    BY <1>1, <1>2 DEF Repairs

\* A repair call that succeeds, or that takes the fault, leaves what the undo hides.
LEMMA StepRepair ==
    ASSUME Inv, Repair
    PROVE  Inv'
<1>1. /\ phase = "repair" /\ todo # <<>> /\ (Works(Head(todo)) \/ Breaks(Head(todo)))
      /\ todo' = Tail(todo) /\ UNCHANGED <<batch, phase, j, plan, n, journal, errs>>
    BY DEF Repair
<1>2. batch \in Batches /\ faults \in Nat /\ errs = {"op"} /\ j \in 1 .. Len(batch)
    BY <1>1 DEF Inv, InRepair
<1>3. faults' \in Nat /\ faults <= faults'
    BY <1>1, <1>2 DEF Works, Breaks
<1>4. ASSUME OverwritesApart(batch), faults' <= 1
      PROVE  \E s : /\ Reached(s, j, batch, journal) /\ Repairs(todo', tree', s, j)
                    /\ faults' = 0 => todo' = <<>> /\ tree' = s
    <2>1. faults <= 1
        BY <1>2, <1>3, <1>4
    <2>2. PICK s : /\ Reached(s, j, batch, journal) /\ Repairs(todo, tree, s, j)
                   /\ faults = 0 => todo = <<>> /\ tree = s
        BY <2>1, <1>1, <1>4 DEF Inv, InRepair
    <2>3. faults = 1 /\ faults' = 1
        BY <2>1, <2>2, <1>1, <1>2, <1>3, <1>4
    <2>4. Possible(tree, Head(todo)) /\ Repairs(todo', Effect(tree, Head(todo)), s, j)
        BY <2>2, <1>1, RepairsMeans
    <2>5. tree' = Effect(tree, Head(todo))
        <3>1. Breaks(Head(todo)) => faults' = faults + 1
            BY <2>4 DEF Breaks
        <3>2. ~Breaks(Head(todo))
            BY <3>1, <2>3
        <3> QED
            BY <3>2, <1>1 DEF Works
    <2> QED
        BY <2>2, <2>3, <2>4, <2>5
<1> QED
    BY <1>1, <1>2, <1>3, <1>4 DEF Inv, InOp, InCall, InRepair, InUndo, InFinalize, InDone

\* The repair has left the tree before the operation, apart from hidden names.
LEMMA StepRepairDone ==
    ASSUME Inv, RepairDone
    PROVE  Inv'
<1>1. /\ phase = "repair" /\ todo = <<>> /\ phase' = "undo"
      /\ UNCHANGED <<batch, tree, j, plan, n, todo, journal, errs, faults>>
    BY DEF RepairDone
<1>2. batch \in Batches /\ faults \in Nat /\ errs = {"op"} /\ j \in 1 .. Len(batch)
    BY <1>1 DEF Inv, InRepair
<1>3. ASSUME OverwritesApart(batch), faults <= 1
      PROVE  \E H : Undoing(H, journal, todo, tree, j, faults)
    <2>1. PICK s : /\ Reached(s, j, batch, journal) /\ Repairs(todo, tree, s, j)
                   /\ faults = 0 => todo = <<>> /\ tree = s
        BY <1>1, <1>3 DEF Inv, InRepair
    <2>2. Recovered(tree, s, j)
        BY <2>1, <1>1, RepairsMeans
    <2> QED
        BY <2>1, <2>2, <1>1, UndoBegins
<1>4. "undo" \notin errs /\ "op" \in errs /\ j \in Nat
    BY <1>2
<1> QED
    BY <1>1, <1>2, <1>3, <1>4 DEF Inv, InOp, InCall, InRepair, InUndo, InFinalize, InDone

\* A journal without its last entry.
LEMMA FrontMeans ==
    ASSUME NEW S, NEW jl \in Seq(S), jl # <<>>
    PROVE  /\ Front(jl) \in Seq(S) /\ Len(Front(jl)) = Len(jl) - 1 /\ Len(jl) \in Nat
           /\ \A e \in 1 .. Len(jl) - 1 : Front(jl)[e] = jl[e] /\ e \in 1 .. Len(jl)
<1> DEFINE L == Len(jl)
           F == Front(jl)
<1>1. L \in Nat /\ L >= 1
    OBVIOUS
<1>2. F = SubSeq(jl, 1, L - 1)
    BY DEF Front
<1> HIDE DEF F
<1>3. /\ Len(F) = L - 1
      /\ \A e \in 1 .. L - 1 : F[e] = jl[e]
    <2>1. 1 \in Int /\ L - 1 \in Int /\ \A i \in 1 .. L - 1 : jl[i] \in S
        BY <1>1
    <2>2. /\ Len(SubSeq(jl, 1, L - 1)) = IF 1 <= L - 1 THEN (L - 1) - 1 + 1 ELSE 0
          /\ \A i \in 1 .. (L - 1) - 1 + 1 : SubSeq(jl, 1, L - 1)[i] = jl[1 + i - 1]
        BY <2>1, SubSeqProperties
    <2>3. (L - 1) - 1 + 1 = L - 1 /\ \A i \in 1 .. L - 1 : 1 + i - 1 = i
        BY <1>1
    <2> HIDE DEF L
    <2>4. Len(F) = L - 1
        BY <1>1, <1>2, <2>2, <2>3
    <2>5. \A e \in 1 .. L - 1 : F[e] = jl[e]
        BY <1>2, <2>2, <2>3
    <2> QED
        BY <2>4, <2>5
<1>4. F \in Seq(S)
    BY <1>1, <1>2
<1>5. \A e \in 1 .. L - 1 : e \in 1 .. L
    BY <1>1
<1> QED
    BY <1>1, <1>3, <1>4, <1>5 DEF F

\* The next entry to undo is the last one.
LEMMA StepUndoNext ==
    ASSUME Inv, UndoNext
    PROVE  Inv'
<1>1. /\ phase = "undo" /\ todo = <<>> /\ journal # <<>>
      /\ todo' = Last(journal).undo /\ journal' = Front(journal)
      /\ UNCHANGED <<batch, tree, phase, j, plan, n, errs, faults>>
    BY DEF UndoNext
<1>2. PICK S : journal \in Seq(S)
    BY DEF Inv
<1>3. /\ journal' \in Seq(S) /\ Len(journal') = Len(journal) - 1 /\ Len(journal) \in Nat
      /\ \A e \in 1 .. Len(journal) - 1 : journal'[e] = journal[e] /\ e \in 1 .. Len(journal)
    BY <1>1, <1>2, FrontMeans
<1>4. \A e \in 1 .. Len(journal') : Final(journal'[e].finalize)
    BY <1>3 DEF Inv
<1>5. ASSUME NEW H, Undoing(H, journal, todo, tree, j, faults)
      PROVE  Undoing(H, journal', todo', tree, j, faults)
    BY <1>1, <1>2, <1>5, UndoTurns
<1> QED
    BY <1>1, <1>3, <1>4, <1>5 DEF Inv, InOp, InCall, InRepair, InUndo, InFinalize, InDone

\* An undo step works, or takes the fault and is reported.
LEMMA StepUndo ==
    ASSUME Inv, Undo
    PROVE  Inv'
<1> DEFINE c == Head(todo).call
           loud == Head(todo).loud
<1> HIDE DEF c, loud
<1>1. /\ phase = "undo" /\ todo # <<>> /\ todo' = Tail(todo)
      /\ UNCHANGED <<batch, phase, j, plan, n, journal>>
      /\ \/ Works(c) /\ UNCHANGED errs
         \/ Breaks(c) /\ errs' = IF loud THEN errs \cup {"undo"} ELSE errs
    BY DEF Undo, c, loud
<1>2. batch \in Batches /\ faults \in Nat /\ "op" \in errs /\ j \in Nat
    BY <1>1 DEF Inv, InUndo
<1>3. faults' \in Nat /\ faults <= faults' /\ "op" \in errs' /\ errs \subseteq errs'
    BY <1>1, <1>2 DEF Works, Breaks
<1>4. ASSUME OverwritesApart(batch), faults' <= 1
      PROVE  \/ "undo" \in errs' /\ faults' = 1
             \/ "undo" \notin errs' /\ \E H : Undoing(H, journal, todo', tree', j, faults')
    <2>1. faults <= 1
        BY <1>2, <1>3, <1>4
    <2>2. \/ "undo" \in errs /\ faults = 1
          \/ "undo" \notin errs /\ \E H : Undoing(H, journal, todo, tree, j, faults)
        BY <2>1, <1>1, <1>4 DEF Inv, InUndo
    <2>3. CASE "undo" \in errs /\ faults = 1
        BY <2>3, <1>2, <1>3, <1>4
    <2>4. CASE "undo" \notin errs /\ \E H : Undoing(H, journal, todo, tree, j, faults)
        <3>1. PICK H : Undoing(H, journal, todo, tree, j, faults)
            BY <2>4
        <3>2. /\ Undoing(H, journal, todo', Effect(tree, c), j, faults)
              /\ faults = 0 => Possible(tree, c)
              /\ Residues(tree, c) = {tree}
              /\ faults # 0 /\ ~loud => Undoing(H, journal, todo', tree, j, faults)
            <4> HIDE DEF Undoing, Possible, Residues, Effect
            <4>1. /\ Undoing(H, journal, Tail(todo), Effect(tree, Head(todo).call), j, faults)
                  /\ faults = 0 => Possible(tree, Head(todo).call)
                  /\ Residues(tree, Head(todo).call) = {tree}
                  /\ faults # 0 /\ ~Head(todo).loud =>
                         Undoing(H, journal, Tail(todo), tree, j, faults)
                BY <3>1, <1>1, UndoWorks
            <4> QED
                BY <4>1, <1>1 DEF c, loud
        <3>3. CASE Works(c) /\ UNCHANGED errs
            BY <3>2, <3>3, <2>4 DEF Works
        <3>4. CASE Breaks(c) /\ errs' = IF loud THEN errs \cup {"undo"} ELSE errs
            <4>1. /\ tree' = tree
                  /\ IF Possible(tree, c) THEN faults' = faults + 1 ELSE faults' = faults
                BY <3>2, <3>4 DEF Breaks
            <4>2. faults' = 1
                <5>1. faults = 0 => faults' = 1
                    BY <4>1, <3>2
                <5>2. faults # 0 => faults = 1
                    BY <2>1, <1>2
                <5> QED
                    BY <5>1, <5>2, <1>2, <1>3, <1>4
            <4>3. CASE loud
                BY <4>2, <4>3, <3>4
            <4>4. CASE ~loud
                <5>1. "undo" \notin errs'
                    BY <4>4, <3>4, <2>4
                <5>2. /\ DOMAIN tree \subseteq Paths /\ Chain(H, journal, j)
                      /\ Undoes(todo', Strip(tree, Own(j)), H[Len(journal) + 1], Own(j))
                    <6>1. Undoes(todo, Strip(tree, Own(j)), H[Len(journal) + 1], Own(j))
                        BY <3>1 DEF Undoing
                    <6>2. Undoes(todo', Strip(tree, Own(j)), H[Len(journal) + 1], Own(j))
                        BY <6>1, <4>4, <1>1, UndoStep DEF loud
                    <6> QED
                        BY <6>2, <3>1 DEF Undoing
                <5>3. Undoing(H, journal, todo', tree', j, faults')
                    BY <5>2, <4>1, <4>2 DEF Undoing
                <5> QED
                    BY <5>1, <5>3
            <4> QED
                BY <4>3, <4>4
        <3> QED
            BY <3>3, <3>4, <1>1
    <2> QED
        BY <2>2, <2>3, <2>4
<1> QED
    BY <1>1, <1>2, <1>3, <1>4 DEF Inv, InOp, InCall, InRepair, InUndo, InFinalize, InDone

\* The batch is committed when every operation has been applied.
LEMMA StepCommit ==
    ASSUME Inv, Commit
    PROVE  Inv'
<1>1. /\ phase = "op" /\ j > Len(batch) /\ phase' = "finalize"
      /\ UNCHANGED <<batch, tree, j, plan, n, todo, journal, errs, faults>>
    BY DEF Commit
<1>2. /\ batch \in Batches /\ errs = {} /\ todo = <<>> /\ j \in 1 .. Len(batch) + 1
      /\ Reached(tree, j, batch, journal)
    BY <1>1 DEF Inv, InOp
<1>3. Len(batch) \in Nat
    BY <1>2, FileOpsAssumption
<1>4. j - 1 = Len(batch)
    BY <1>1, <1>2, <1>3
<1>5. DOMAIN tree \subseteq Paths /\ Visible(tree) = Meant(batch)
    BY <1>2, <1>4 DEF Reached, IsTree, Meant
<1> QED
    BY <1>1, <1>2, <1>5 DEF Inv, InOp, InCall, InRepair, InUndo, InFinalize, InDone, Final

\* The entries are finalized from the first to the last.
LEMMA StepFinalizeNext ==
    ASSUME Inv, FinalizeNext
    PROVE  Inv'
<1>1. /\ phase = "finalize" /\ todo = <<>> /\ journal # <<>>
      /\ todo' = Head(journal).finalize /\ journal' = Tail(journal)
      /\ UNCHANGED <<batch, tree, phase, j, plan, n, errs, faults>>
    BY DEF FinalizeNext
<1>2. PICK S : journal \in Seq(S)
    BY DEF Inv
<1>3. /\ journal' \in Seq(S) /\ Len(journal') = Len(journal) - 1 /\ Len(journal) \in Nat
      /\ \A e \in 1 .. Len(journal) - 1 : journal'[e] = journal[e + 1] /\ e + 1 \in 1 .. Len(journal)
      /\ Head(journal) = journal[1] /\ 1 \in 1 .. Len(journal)
    BY <1>1, <1>2
<1>4. \A e \in 1 .. Len(journal') : Final(journal'[e].finalize)
    BY <1>3 DEF Inv
<1>5. Final(todo')
    BY <1>1, <1>3 DEF Inv
<1> QED
    BY <1>1, <1>3, <1>4, <1>5 DEF Inv, InOp, InCall, InRepair, InUndo, InFinalize, InDone

\* Discarding a backup, done or not, changes nothing that is visible.
LEMMA DiscardsMeans ==
    ASSUME NEW c, Discards(c), NEW t, DOMAIN t \subseteq Paths,
           NEW r, r = Effect(t, c) \/ r \in Residues(t, c)
    PROVE  DOMAIN r \subseteq Paths /\ Visible(r) = Visible(t)
<1>1. PICK b \in Paths : ~IsUserPath(b) /\ (c = Unlink(b) \/ c = UnlinkAll(b))
    BY DEF Discards
<1>2. r = Without(t, Under(t, b)) \/ r = t
    BY <1>1, RemoveMeans
<1>3. CASE r = Without(t, Under(t, b))
    <2>1. DOMAIN r \subseteq Paths
        BY <1>3, WithoutMeans
    <2>2. Hits(b, Own(0))
        BY <1>1, UserPathMeans
    <2>3. Strip(r, Own(0)) = Strip(t, Own(0))
        BY <2>2, <1>3, StripHidden
    <2> QED
        BY <2>1, <2>3, VisibleMeans
<1> QED
    BY <1>2, <1>3

\* Removing a backup changes nothing visible.
LEMMA StepFinalize ==
    ASSUME Inv, Finalize
    PROVE  Inv'
<1>1. /\ phase = "finalize" /\ todo # <<>> /\ todo' = Tail(todo)
      /\ \/ Works(Head(todo)) /\ UNCHANGED errs
         \/ Breaks(Head(todo)) /\ errs' = errs \cup {"finalize"}
      /\ UNCHANGED <<batch, phase, j, plan, n, journal>>
    BY DEF Finalize
<1>2. /\ "op" \notin errs /\ Final(todo) /\ DOMAIN tree \subseteq Paths /\ Visible(tree) = Meant(batch)
      /\ faults \in Nat
    BY <1>1 DEF Inv, InFinalize
<1>3. PICK c : todo = <<c>> /\ Discards(c)
    BY <1>1, <1>2 DEF Final
<1>4. Head(todo) = c /\ todo' = <<>>
    BY <1>1, <1>3
<1>5. tree' = Effect(tree, c) \/ tree' \in Residues(tree, c)
    BY <1>1, <1>4 DEF Works, Breaks
<1>6. DOMAIN tree' \subseteq Paths /\ Visible(tree') = Meant(batch)
    BY <1>2, <1>3, <1>5, DiscardsMeans
<1>7. faults' \in Nat
    BY <1>1, <1>2 DEF Works, Breaks
<1>8. "op" \notin errs'
    <2>1. "op" # "finalize"
        OBVIOUS
    <2> QED
        BY <2>1, <1>1, <1>2
<1> QED
    BY <1>1, <1>2, <1>4, <1>6, <1>7, <1>8 DEF Inv, InOp, InCall, InRepair, InUndo,
       InFinalize, InDone, Final

\* The answer is given when nothing is left to do.
LEMMA StepReturn ==
    ASSUME Inv, Return
    PROVE  Inv'
<1>1. /\ phase \in {"undo", "finalize"} /\ todo = <<>> /\ journal = <<>> /\ phase' = "done"
      /\ UNCHANGED <<batch, tree, j, plan, n, todo, journal, errs, faults>>
    BY DEF Return
<1>2. CASE phase = "undo"
    <2>1. j \in Nat /\ "op" \in errs
        BY <1>2 DEF Inv, InUndo
    <2>2. ASSUME OverwritesApart(batch), faults <= 1
          PROVE  Visible(tree) = Visible(Start) \/ (faults = 1 /\ "undo" \in errs)
        <3>1. ASSUME NEW H, Undoing(H, journal, todo, tree, j, faults)
              PROVE  Visible(tree) = Visible(Start)
            BY <3>1, <2>1, <1>1, UndoEnds
        <3> QED
            BY <3>1, <2>2, <1>2 DEF Inv, InUndo
    <2> QED
        BY <2>1, <2>2, <1>1 DEF Inv, InOp, InCall, InRepair, InUndo, InFinalize, InDone
<1>3. CASE phase = "finalize"
    BY <1>1, <1>3 DEF Inv, InOp, InCall, InRepair, InUndo, InFinalize, InDone
<1> QED
    BY <1>1, <1>2, <1>3

\* Every step keeps the invariant.
LEMMA StepInv == Inv /\ [Next]_vars => Inv'
<1> SUFFICES ASSUME Inv, [Next]_vars PROVE Inv'
    OBVIOUS
<1>1. CASE Begin
    BY <1>1, StepBegin
<1>2. CASE Call
    BY <1>2, StepCall
<1>3. CASE LastCall
    BY <1>3, StepLastCall
<1>4. CASE CallFails
    BY <1>4, StepCallFails
<1>5. CASE Repair
    BY <1>5, StepRepair
<1>6. CASE RepairDone
    BY <1>6, StepRepairDone
<1>7. CASE UndoNext
    BY <1>7, StepUndoNext
<1>8. CASE Undo
    BY <1>8, StepUndo
<1>9. CASE Commit
    BY <1>9, StepCommit
<1>10. CASE FinalizeNext
    BY <1>10, StepFinalizeNext
<1>11. CASE Finalize
    BY <1>11, StepFinalize
<1>12. CASE Return
    BY <1>12, StepReturn
<1>13. CASE Crash \/ UNCHANGED vars
    <2>1. UNCHANGED <<batch, tree, phase, j, plan, n, todo, journal, errs, faults>>
        BY <1>13 DEF Crash, vars
    <2> QED
        BY <2>1 DEF Inv, InOp, InCall, InRepair, InUndo, InFinalize, InDone
<1> QED
    BY <1>1, <1>2, <1>3, <1>4, <1>5, <1>6, <1>7, <1>8, <1>9, <1>10, <1>11, <1>12, <1>13
    DEF Next, Step

\* A batch that is applied has done what its operations mean, one after the
\* other, whatever failed while its backups were discarded.
THEOREM AppliesWhatIsMeant == Spec => []SuccessMeansBatch
<1>1. Inv => SuccessMeansBatch
    BY DEF Inv, InDone, SuccessMeansBatch
<1> QED
    BY <1>1, InitInv, StepInv, PTL DEF Spec

\* A batch that is refused, or in which one system call fails, is undone, if
\* its overwriting operations are ones whose repair can work.
THEOREM RollsBack == Spec => [](OverwritesApart(batch) => OneFaultRollsBack)
<1>1. Inv => (OverwritesApart(batch) => OneFaultRollsBack)
    BY DEF Inv, InDone, OneFaultRollsBack
<1> QED
    BY <1>1, InitInv, StepInv, PTL DEF Spec

(* ------------------------------ the backups ------------------------------ *)

\* The finalization f discards the backup b.
Target(f, b) == f = <<Unlink(b)>> \/ f = <<UnlinkAll(b)>>

\* On the way from s to t the applier made one file of its own, f's target.
Keeps(f, t, s) ==
    /\ \A q \in Paths : ~IsUserPath(q) => (q \in DOMAIN t <=> q \in DOMAIN s \/ Target(f, q))
    /\ \A q \in DOMAIN s : ~IsUserPath(q) => t[q] = s[q]
    /\ \A b \in Paths : Target(f, b) => ~IsUserPath(b) /\ b \notin DOMAIN s /\ t[b] # Dir
    /\ \A p \in Paths : IsUserPath(p) /\ IsDir(t, p) => IsDir(s, p)

\* What the removal of a backup is about.
LEMMA TargetMeans ==
    ASSUME NEW b, NEW q
    PROVE  /\ Target(<<Unlink(b)>>, q) <=> q = b
           /\ Target(<<UnlinkAll(b)>>, q) <=> q = b
           /\ ~Target(<<>>, q)
<1>1. Unlink(b).at = b /\ Unlink(q).at = q /\ UnlinkAll(b).at = b /\ UnlinkAll(q).at = q
    BY DEF Unlink, UnlinkAll
<1>2. \A x, y : <<x>> = <<y>> => x = y
    OBVIOUS
<1>3. \A x : <<x>> # <<>>
    OBVIOUS
<1> HIDE DEF Unlink, UnlinkAll
<1>4. q = b => Target(<<Unlink(b)>>, q) /\ Target(<<UnlinkAll(b)>>, q)
    BY DEF Target
<1>5. Target(<<Unlink(b)>>, q) => q = b
    BY <1>1, <1>2 DEF Target
<1>6. Target(<<UnlinkAll(b)>>, q) => q = b
    BY <1>1, <1>2 DEF Target
<1>7. ~Target(<<>>, q)
    BY <1>3 DEF Target
<1> QED
    BY <1>4, <1>5, <1>6, <1>7

\* A single file that is renamed to a name that is free.
LEMMA LeafMoves ==
    ASSUME NEW t, DOMAIN t \subseteq Paths, NEW from \in DOMAIN t, NEW to \in Paths,
           \A r \in DOMAIN t : (IsPrefix(from, r) => r = from) /\ ~IsPrefix(to, r)
    PROVE  LET T == Moved(t, from, to) IN
           /\ \A r : r \in DOMAIN T <=> (r \in DOMAIN t /\ r # from) \/ r = to
           /\ T[to] = t[from]
           /\ \A r \in DOMAIN t : r # from => T[r] = t[r]
<1> DEFINE T == Moved(t, from, to)
<1> HIDE DEF IsPrefix, Rebase, T
<1>1. from \in Paths /\ IsPrefix(from, from) /\ IsPrefix(to, to) /\ Rebase(from, from, to) = to
    BY PrefixOrder, RebaseSelf
<1>2. /\ \A q : q \in DOMAIN T <=>
             \/ q \in DOMAIN t /\ ~IsPrefix(from, q) /\ ~IsPrefix(to, q)
             \/ \E r \in DOMAIN t : IsPrefix(from, r) /\ q = Rebase(r, from, to)
      /\ \A q \in DOMAIN t : ~IsPrefix(from, q) /\ ~IsPrefix(to, q) => T[q] = t[q]
      /\ \A r \in DOMAIN t : IsPrefix(from, r) => T[Rebase(r, from, to)] = t[r]
    BY <1>1, MovedMeans DEF T
<1>3. \A r : r \in DOMAIN T <=> (r \in DOMAIN t /\ r # from) \/ r = to
    BY <1>1, <1>2
<1>4. T[to] = t[from] /\ \A r \in DOMAIN t : r # from => T[r] = t[r]
    BY <1>1, <1>2
<1> QED
    BY <1>3, <1>4 DEF T

\* Nothing is lost by a second change that loses nothing.
LEMMA KeepsThen ==
    ASSUME NEW f, NEW t, NEW s, NEW u, DOMAIN s \subseteq Paths, DOMAIN t \subseteq Paths,
           Keeps(f, t, s), Keeps(<<>>, u, t)
    PROVE  Keeps(f, u, s)
<1>1. \A q : ~Target(<<>>, q)
    BY TargetMeans
<1> HIDE DEF Target
<1>2. \A q \in Paths : ~IsUserPath(q) => (q \in DOMAIN u <=> q \in DOMAIN s \/ Target(f, q))
    BY <1>1 DEF Keeps
<1>3. \A q \in DOMAIN s : ~IsUserPath(q) => u[q] = s[q]
    BY DEF Keeps
<1>4. \A b \in Paths : Target(f, b) => ~IsUserPath(b) /\ b \notin DOMAIN s /\ u[b] # Dir
    BY DEF Keeps
<1>5. \A p \in Paths : IsUserPath(p) /\ IsDir(u, p) => IsDir(s, p)
    BY DEF Keeps
<1> QED
    BY <1>2, <1>3, <1>4, <1>5 DEF Keeps

\* Writing a file of the user hides no backup.
LEMMA KeepsWith ==
    ASSUME NEW t, DOMAIN t \subseteq Paths, NEW p \in Paths, IsUserPath(p), NEW c, c # Dir
    PROVE  Keeps(<<>>, With(t, p, c), t)
<1> DEFINE T == With(t, p, c)
<1> HIDE DEF T, Target
<1>1. /\ \A q : q \in DOMAIN T <=> q \in DOMAIN t \/ q = p
      /\ T[p] = c
      /\ \A q \in DOMAIN t : q # p => T[q] = t[q]
    BY WithMeans DEF T
<1>2. \A q : ~Target(<<>>, q)
    BY TargetMeans
<1>3. \A q \in Paths : IsDir(T, q) => IsDir(t, q)
    BY <1>1 DEF IsDir, Exists
<1> QED
    BY <1>1, <1>2, <1>3 DEF Keeps, T

\* Renaming a file of the user to an unused name hides no backup.
LEMMA KeepsMoved ==
    ASSUME NEW t, IsTree(t), NEW p \in DOMAIN t, IsUserPath(p), t[p] # Dir,
           NEW q \in Paths, IsUserPath(q), q \notin DOMAIN t
    PROVE  Keeps(<<>>, Moved(t, p, q), t)
<1> DEFINE T == Moved(t, p, q)
<1> HIDE DEF T, Target, IsPrefix
<1>1. DOMAIN t \subseteq Paths /\ p \in Paths
    BY DEF IsTree
<1>2. \A r \in DOMAIN t : (IsPrefix(p, r) => r = p) /\ ~IsPrefix(q, r)
    BY <1>1, NothingUnder
<1>3. /\ \A r : r \in DOMAIN T <=> (r \in DOMAIN t /\ r # p) \/ r = q
      /\ T[q] = t[p]
      /\ \A r \in DOMAIN t : r # p => T[r] = t[r]
    BY <1>1, <1>2, LeafMoves DEF T
<1>4. \A r : ~Target(<<>>, r)
    BY TargetMeans
<1>5. \A r \in Paths : IsDir(T, r) => IsDir(t, r)
    BY <1>3 DEF IsDir, Exists
<1> QED
    BY <1>3, <1>4, <1>5 DEF Keeps, T

\* A file moved to its backup leaves a backup that the finalizer removes.
LEMMA KeepsAside ==
    ASSUME NEW s, IsTree(s), NEW p \in DOMAIN s, IsUserPath(p), s[p] # Dir,
           NEW k \in Nat, Fresh(s, k), NEW b, b = BackupOf(p, k),
           NEW f, f = <<Unlink(b)>> \/ f = <<UnlinkAll(b)>>
    PROVE  Keeps(f, Moved(s, p, b), s)
<1> DEFINE T == Moved(s, p, b)
<1> HIDE DEF T, Target, IsPrefix
<1>1. DOMAIN s \subseteq Paths /\ p \in Paths
    BY DEF IsTree
<1>2. b \in Paths /\ Hits(b, Own(k)) /\ Hits(b, Own(0))
    <2>1. 0 \in Nat /\ 0 <= k /\ k <= k
        OBVIOUS
    <2> QED
        BY <2>1, <1>1, OwnPath
<1>3. ~IsUserPath(b)
    BY <1>2, UserPathMeans
<1>4. \A r \in DOMAIN s : (IsPrefix(p, r) => r = p) /\ ~IsPrefix(b, r)
    BY <1>1, <1>2, NothingUnder, FreshMeans
<1>5. b \notin DOMAIN s
    BY <1>2, <1>4, PrefixOrder
<1>6. /\ \A r : r \in DOMAIN T <=> (r \in DOMAIN s /\ r # p) \/ r = b
      /\ T[b] = s[p]
      /\ \A r \in DOMAIN s : r # p => T[r] = s[r]
    BY <1>1, <1>2, <1>4, LeafMoves DEF T
<1>7. \A r : Target(f, r) <=> r = b
    <2>1. CASE f = <<Unlink(b)>>
        BY <2>1, TargetMeans
    <2>2. CASE f = <<UnlinkAll(b)>>
        BY <2>2, TargetMeans
    <2> QED
        BY <2>1, <2>2
<1>8. \A r \in Paths : IsDir(T, r) => IsDir(s, r)
    BY <1>6 DEF IsDir, Exists
<1> QED
    BY <1>3, <1>5, <1>6, <1>7, <1>8 DEF Keeps, T

\* A file that is backed up and replaced.
LEMMA KeepsReplaced ==
    ASSUME NEW s, IsTree(s), NEW p \in DOMAIN s, IsUserPath(p), s[p] # Dir,
           NEW k \in Nat, Fresh(s, k), NEW b, b = BackupOf(p, k), NEW c, c # Dir
    PROVE  Keeps(<<Unlink(b)>>, With(Moved(s, p, b), p, c), s)
<1> DEFINE M == Moved(s, p, b)
<1> HIDE DEF M, IsPrefix
<1>1. Keeps(<<Unlink(b)>>, M, s)
    BY KeepsAside DEF M
<1>2. DOMAIN s \subseteq Paths /\ p \in Paths
    BY DEF IsTree
<1>3. DOMAIN M \subseteq Paths
    BY Aside DEF M, IsTree
<1>4. Keeps(<<>>, With(M, p, c), M)
    BY <1>2, <1>3, KeepsWith
<1> QED
    BY <1>1, <1>2, <1>3, <1>4, KeepsThen DEF M

\* What a program that ran to its end leaves beside the files, when it names
\* files only.
LEMMA EachKeeps ==
    ASSUME batch \in Batches, NEW m \in 1 .. Len(batch), NEW s, IsTree(s), Fresh(s, m),
           ~IsDir(s, batch[m].path),
           batch[m].kind = "rename" => ~IsDir(s, batch[m].newPath),
           NEW P, P = ProgramOf(s, m), P.run = "calls", Ready(P.calls, Len(P.calls) + 1, s)
    PROVE  Keeps(P.finalize, Ran(P.calls, Len(P.calls) + 1, s), s)
<1> DEFINE op == batch[m]
           p == op.path
           q == op.newPath
           b == BackupOf(p, m)
           z == BackupOf(q, m)
<1> HIDE DEF op, IsPrefix, b, z
<1>1. /\ m \in Nat /\ m \in DOMAIN batch /\ op.kind \in {"create", "edit", "rename", "delete"}
      /\ p \in Paths /\ IsUserPath(p)
      /\ op.kind = "rename" => q \in Paths /\ IsUserPath(q)
      /\ DOMAIN s \subseteq Paths
    BY OpMeans DEF op, IsTree
<1>2. 1 + 1 = 2 /\ 2 + 1 = 3 /\ 3 + 1 = 4 /\ 4 + 1 = 5
    OBVIOUS
<1>3. Empty # Dir
    <2>1. "empty" # "dir"
        OBVIOUS
    <2> QED
        BY <2>1 DEF Empty, Dir
<1>4. ASSUME Exists(s, p) PROVE p \in DOMAIN s /\ s[p] # Dir
    BY <1>4 DEF Exists, IsDir, op
<1>5. CASE op.kind = "create" /\ ~Exists(s, p)
    <2>1. P = CommitCreate(s, op, m)
        BY <1>5 DEF ProgramOf, op
    <2> HIDE DEF Applies, Fails, CommitCreate, Exists
    <2>2. Len(P.calls) = 2 /\ P.finalize = <<>> /\ Ran(P.calls, 3, s) = With(s, p, Empty)
        BY <2>1, <1>1, <1>5, CreateNew
    <2>3. Keeps(<<>>, With(s, p, Empty), s)
        BY <1>1, <1>3, KeepsWith
    <2> QED
        BY <2>2, <2>3, <1>2
<1>6. CASE op.kind = "create" /\ Exists(s, p)
    <2>1. P = CommitCreate(s, op, m)
        BY <1>6 DEF ProgramOf, op
    <2> HIDE DEF Applies, Fails, CommitCreate, Exists
    <2>2. /\ Len(P.calls) = 3 /\ P.finalize = <<Unlink(b)>>
          /\ Ran(P.calls, 4, s) = With(Moved(s, p, b), p, Empty)
        BY <2>1, <1>1, <1>6, CreateOver DEF b
    <2>3. Keeps(<<Unlink(b)>>, With(Moved(s, p, b), p, Empty), s)
        BY <1>1, <1>3, <1>4, <1>6, KeepsReplaced DEF b
    <2> QED
        BY <2>2, <2>3, <1>2
<1>7. CASE op.kind = "edit"
    <2>1. P = CommitTextEdit(s, op, m)
        BY <1>7 DEF ProgramOf, op
    <2> HIDE DEF Applies, Fails, CommitTextEdit, Exists
    <2>2. /\ Len(P.calls) = 4 /\ P.finalize = <<Unlink(b)>> /\ Exists(s, p)
          /\ Ran(P.calls, 5, s) = With(Moved(s, p, b), p, Edited(s[p]))
        BY <2>1, <1>1, <1>7, TextEdit DEF b, op
    <2>3. Edited(s[p]) # Dir
        <3>1. s[p] \in Pairs
            BY <2>2, <1>4, TreeMeans
        <3>2. \A i \in Nat : i + 1 # 0
            OBVIOUS
        <3> QED
            BY <3>1, <3>2 DEF Edited, Dir, Pairs
    <2>4. Keeps(<<Unlink(b)>>, With(Moved(s, p, b), p, Edited(s[p])), s)
        BY <2>2, <2>3, <1>1, <1>4, KeepsReplaced DEF b
    <2> QED
        BY <2>2, <2>4, <1>2
<1>8. CASE op.kind = "rename" /\ ~Exists(s, q)
    <2>1. P = CommitRename(s, op, m)
        BY <1>8 DEF ProgramOf, op
    <2> HIDE DEF Applies, Fails, CommitRename
    <2>2. Len(P.calls) = 1 /\ P.finalize = <<>> /\ Exists(s, p)
        <3> HIDE DEF Exists
        <3> QED
            BY <2>1, <1>1, <1>8, RenameNew
    <2>3. Ran(P.calls, 2, s) = Moved(s, p, q)
        <3> HIDE DEF Exists
        <3> QED
            BY <2>1, <2>2, <1>1, <1>2, <1>8, RenameNew
    <2>4. q \notin DOMAIN s
        BY <1>8 DEF Exists
    <2>5. Keeps(<<>>, Moved(s, p, q), s)
        BY <2>2, <2>4, <1>1, <1>4, <1>8, KeepsMoved
    <2> QED
        BY <2>2, <2>3, <2>5, <1>2
<1>9. CASE op.kind = "rename" /\ Exists(s, q)
    <2> DEFINE M == Moved(s, q, z)
    <2> HIDE DEF M
    <2>1. P = CommitRename(s, op, m)
        BY <1>9 DEF ProgramOf, op
    <2> HIDE DEF Applies, Fails, CommitRename
    <2>2. Len(P.calls) = 3 /\ P.finalize = <<UnlinkAll(z)>>
        <3> HIDE DEF Exists
        <3> QED
            BY <2>1, <1>1, <1>9, RenameOver DEF z
    <2>3. Possible(M, Move(p, q)) /\ Ran(P.calls, 4, s) = Moved(M, p, q)
        <3> HIDE DEF Exists, Possible
        <3> QED
            BY <2>1, <2>2, <1>1, <1>2, <1>9, RenameOver DEF z, M
    <2>4. q \in DOMAIN s /\ s[q] # Dir
        BY <1>9 DEF Exists, IsDir, op
    <2>5. Keeps(<<UnlinkAll(z)>>, M, s)
        BY <2>4, <1>1, <1>9, KeepsAside DEF z, M
    <2>6. IsTree(M) /\ \A r \in DOMAIN M : ~IsPrefix(q, r)
        BY <2>4, <1>1, <1>9, Aside DEF z, M
    <2>7. q \notin DOMAIN M
        BY <2>6, <1>1, <1>9, PrefixOrder
    <2>8. p \in DOMAIN M
        BY <2>3, RenameMeans
    <2>9. M[p] # Dir
        BY <2>5, <2>8, <1>1 DEF Keeps, IsDir, Exists, op
    <2>10. Keeps(<<>>, Moved(M, p, q), M)
        BY <2>6, <2>7, <2>8, <2>9, <1>1, <1>9, KeepsMoved
    <2>11. DOMAIN M \subseteq Paths
        BY <2>6 DEF IsTree
    <2>12. Keeps(<<UnlinkAll(z)>>, Moved(M, p, q), s)
        BY <2>5, <2>10, <2>11, <1>1, KeepsThen
    <2> QED
        BY <2>2, <2>3, <2>12, <1>2
<1>10. CASE op.kind = "delete"
    <2>1. P = CommitDelete(s, op, m)
        BY <1>10 DEF ProgramOf, op
    <2> HIDE DEF Applies, Fails, CommitDelete, Exists
    <2>2. /\ Len(P.calls) = 2 /\ P.finalize = <<UnlinkAll(b)>> /\ Exists(s, p)
          /\ Ran(P.calls, 3, s) = Moved(s, p, b)
        BY <2>1, <1>1, <1>10, Delete DEF b
    <2>3. Keeps(<<UnlinkAll(b)>>, Moved(s, p, b), s)
        BY <2>2, <1>1, <1>4, KeepsAside DEF b
    <2> QED
        BY <2>2, <2>3, <1>2
<1> QED
    BY <1>1, <1>5, <1>6, <1>7, <1>8, <1>9, <1>10

\* The own files of t are the backups that the entries of jl discard, each its own.
Backups(t, jl) ==
    /\ DOMAIN t \subseteq Paths
    /\ \A q \in Paths : ~IsUserPath(q) =>
           (q \in DOMAIN t <=> \E e \in 1 .. Len(jl) : Target(jl[e].finalize, q))
    /\ \A q \in DOMAIN t : ~IsUserPath(q) => t[q] # Dir
    /\ \A e, g \in 1 .. Len(jl) : \A q \in Paths :
           Target(jl[e].finalize, q) /\ Target(jl[g].finalize, q) => e = g

\* A batch of files makes no directory.
DirsKept(t) == \A p \in Paths : IsUserPath(p) /\ IsDir(t, p) => IsDir(Start, p)

\* The batches FileBackupsDiscarded speaks of.
FilesOnly(ops) ==
    \A m \in DOMAIN ops : ~IsDir(Start, ops[m].path) /\ ~IsDir(Start, ops[m].newPath)

\* The own files of t are what u and then the entries of jl discard.
Left(t, u, jl) ==
    /\ \A q, r \in DOMAIN t : ~IsUserPath(q) /\ IsPrefix(q, r) => r = q
    /\ \A q \in Paths : ~IsUserPath(q) =>
           (q \in DOMAIN t <=> Target(u, q) \/ \E e \in 1 .. Len(jl) : Target(jl[e].finalize, q))
    /\ \A e, g \in 1 .. Len(jl) : \A q \in Paths :
           Target(jl[e].finalize, q) /\ Target(jl[g].finalize, q) => e = g
    /\ \A e \in 1 .. Len(jl) : \A q \in Paths : ~(Target(jl[e].finalize, q) /\ Target(u, q))

\* Until the commit every backup is the target of one journal entry; from then
\* on, of an entry not yet finalized, or its removal has been reported as failed.
KeptInOp ==
    phase = "op" => DirsKept(tree) /\ Backups(tree, journal)
KeptInCall ==
    phase = "call" =>
        \E s : /\ DirsKept(s) /\ Backups(s, journal)
               /\ Ready(plan.calls, n, s) /\ tree = Ran(plan.calls, n, s)
               /\ Ready(plan.calls, Len(plan.calls) + 1, s) =>
                      Keeps(plan.finalize, Ran(plan.calls, Len(plan.calls) + 1, s), s)
KeptInFinalize ==
    phase = "finalize" =>
        /\ errs \subseteq {"finalize"}
        /\ "finalize" \in errs => faults > 0
        /\ "finalize" \notin errs => Left(tree, todo, journal)
KeptInDone ==
    phase = "done" /\ "op" \notin errs =>
        /\ errs \subseteq {"finalize"}
        /\ "finalize" \in errs => faults > 0
        /\ "finalize" \notin errs => \A q \in DOMAIN tree : IsUserPath(q)

Kept == KeptInOp /\ KeptInCall /\ KeptInFinalize /\ KeptInDone

\* A program that ran to its end adds its backup.
LEMMA BackupsNext ==
    ASSUME NEW s, NEW t, NEW S, NEW jl \in Seq(S), Backups(s, jl), DirsKept(s),
           DOMAIN t \subseteq Paths, NEW x, Keeps(x.finalize, t, s)
    PROVE  DirsKept(t) /\ Backups(t, Append(jl, x))
<1> DEFINE L == Len(jl)
           jn == Append(jl, x)
           T(e, q) == Target(jl[e].finalize, q)
           N(q) == Target(x.finalize, q)
<1>1. /\ L \in Nat /\ Len(jn) = L + 1 /\ jn[L + 1] = x /\ \A e \in 1 .. L : jn[e] = jl[e] /\ e # L + 1
      /\ \A e \in 1 .. L + 1 : e \in 1 .. L \/ e = L + 1
      /\ L + 1 \in 1 .. L + 1 /\ \A e \in 1 .. L : e \in 1 .. L + 1
    OBVIOUS
<1> HIDE DEF jn, L, Target
<1>2. /\ \A e \in 1 .. L : \A q : Target(jn[e].finalize, q) <=> T(e, q)
      /\ \A q : Target(jn[L + 1].finalize, q) <=> N(q)
    BY <1>1
<1>3. /\ \A q \in Paths : ~IsUserPath(q) => (q \in DOMAIN s <=> \E e \in 1 .. L : T(e, q))
      /\ \A q \in DOMAIN s : ~IsUserPath(q) => s[q] # Dir
      /\ \A e, g \in 1 .. L : \A q \in Paths : T(e, q) /\ T(g, q) => e = g
      /\ DOMAIN s \subseteq Paths
    BY DEF Backups, L
<1>4. /\ \A q \in Paths : ~IsUserPath(q) => (q \in DOMAIN t <=> q \in DOMAIN s \/ N(q))
      /\ \A q \in DOMAIN s : ~IsUserPath(q) => t[q] = s[q]
      /\ \A q \in Paths : N(q) => ~IsUserPath(q) /\ q \notin DOMAIN s /\ t[q] # Dir
      /\ \A q \in Paths : IsUserPath(q) /\ IsDir(t, q) => IsDir(s, q)
    BY DEF Keeps
<1>5. DirsKept(t)
    BY <1>4 DEF DirsKept
<1>6. ASSUME NEW q \in Paths, ~IsUserPath(q)
      PROVE  q \in DOMAIN t <=> \E e \in 1 .. L + 1 : Target(jn[e].finalize, q)
    <2>1. q \in DOMAIN t <=> (\E e \in 1 .. L : T(e, q)) \/ N(q)
        BY <1>3, <1>4, <1>6
    <2> QED
        BY <2>1, <1>1, <1>2
<1>7. ASSUME NEW q \in DOMAIN t, ~IsUserPath(q) PROVE t[q] # Dir
    BY <1>3, <1>4, <1>7
<1>8. ASSUME NEW e \in 1 .. L + 1, NEW g \in 1 .. L + 1, NEW q \in Paths,
             Target(jn[e].finalize, q), Target(jn[g].finalize, q)
      PROVE  e = g
    <2>1. \A i \in 1 .. L : T(i, q) => ~N(q)
        BY <1>3, <1>4
    <2> QED
        BY <2>1, <1>1, <1>2, <1>3, <1>8
<1> QED
    BY <1>1, <1>5, <1>6, <1>7, <1>8 DEF Backups, jn

\* There are no backups at the start.
LEMMA KeptInit == Init => Kept
<1> SUFFICES ASSUME Init PROVE Kept
    OBVIOUS
<1>1. tree = Start /\ phase = "op" /\ journal = <<>>
    BY DEF Init
<1>2. IsTree(Start) /\ \A p \in DOMAIN Start : IsUserPath(p)
    BY FileOpsAssumption
<1>3. 1 .. Len(<<>>) = {}
    OBVIOUS
<1>4. DirsKept(tree) /\ Backups(tree, journal)
    BY <1>1, <1>2, <1>3 DEF DirsKept, Backups, IsTree
<1> QED
    BY <1>1, <1>4 DEF Kept, KeptInOp, KeptInCall, KeptInFinalize, KeptInDone

\* Planning an operation puts nothing aside.
LEMMA KeptBegin ==
    ASSUME Inv, Kept, FilesOnly(batch), Begin
    PROVE  Kept'
<1>1. phase = "op" /\ j <= Len(batch) /\ batch' = batch /\ tree' = tree /\ journal' = journal
      /\ n' = 1 /\ (phase' = "op" \/ phase' = "undo" \/ phase' = "call")
    BY DEF Begin
<1>2. /\ batch \in Batches /\ j \in 1 .. Len(batch) + 1 /\ Reached(tree, j, batch, journal)
      /\ DirsKept(tree) /\ Backups(tree, journal)
    BY <1>1 DEF Inv, InOp, Kept, KeptInOp
<1>3. Len(batch) \in Nat
    BY <1>2, FileOpsAssumption
<1>4. j \in 1 .. Len(batch)
    BY <1>1, <1>2, <1>3
<1>5. CASE phase' = "op"
    BY <1>1, <1>2, <1>5 DEF Kept, KeptInOp, KeptInCall, KeptInFinalize, KeptInDone
<1>6. CASE phase' = "undo"
    BY <1>6 DEF Kept, KeptInOp, KeptInCall, KeptInFinalize, KeptInDone
<1>7. CASE phase' = "call"
    <2> DEFINE p == ProgramOf(tree, j)
    <2> HIDE DEF p
    <2>1. p.run = "calls" /\ plan' = p
        BY <1>1, <1>7 DEF Begin, p
    <2>2. /\ ~IsDir(tree, batch[j].path)
          /\ batch[j].kind = "rename" => ~IsDir(tree, batch[j].newPath)
        <3>1. j \in DOMAIN batch
            BY <1>2, <1>4, OpMeans
        <3> QED
            BY <3>1, <1>2, <1>4, OpMeans DEF FilesOnly, DirsKept
    <2>3. Ready(p.calls, Len(p.calls) + 1, tree) =>
              Keeps(p.finalize, Ran(p.calls, Len(p.calls) + 1, tree), tree)
        BY <2>1, <2>2, <1>2, <1>4, EachKeeps DEF Reached, p
    <2>4. Ready(p.calls, 1, tree) /\ tree = Ran(p.calls, 1, tree)
        BY RanMeans
    <2> QED
        BY <2>1, <2>3, <2>4, <1>1, <1>2, <1>7 DEF Kept, KeptInOp, KeptInCall,
           KeptInFinalize, KeptInDone
<1> QED
    BY <1>1, <1>5, <1>6, <1>7

\* A call that puts a file aside is in the operation that will remove it.
LEMMA KeptCall ==
    ASSUME Inv, Kept, Call
    PROVE  Kept'
<1>1. /\ phase = "call" /\ n < Len(plan.calls) /\ n' = n + 1
      /\ Possible(tree, plan.calls[n]) /\ tree' = Effect(tree, plan.calls[n])
      /\ UNCHANGED <<phase, plan, journal>>
    BY DEF Call, Works
<1>2. PICK s : /\ DirsKept(s) /\ Backups(s, journal)
               /\ Ready(plan.calls, n, s) /\ tree = Ran(plan.calls, n, s)
               /\ Ready(plan.calls, Len(plan.calls) + 1, s) =>
                      Keeps(plan.finalize, Ran(plan.calls, Len(plan.calls) + 1, s), s)
    BY <1>1 DEF Kept, KeptInCall
<1>3. n \in 1 .. 4
    BY <1>1 DEF Inv, InCall, Running
<1>4. Ready(plan.calls, n + 1, s) /\ tree' = Ran(plan.calls, n + 1, s)
    BY <1>1, <1>2, <1>3, RanMeans
<1> QED
    BY <1>1, <1>2, <1>4 DEF Kept, KeptInOp, KeptInCall, KeptInFinalize, KeptInDone

\* The finalizers of an applied operation are in the journal.
LEMMA KeptLastCall ==
    ASSUME Inv, Kept, LastCall, Inv'
    PROVE  Kept'
<1> DEFINE x == [undo |-> plan.undo, finalize |-> plan.finalize]
<1>1. /\ phase = "call" /\ n = Len(plan.calls) /\ phase' = "op"
      /\ Possible(tree, plan.calls[n]) /\ tree' = Effect(tree, plan.calls[n])
      /\ journal' = Append(journal, x)
    BY DEF LastCall, Works
<1>2. PICK s : /\ DirsKept(s) /\ Backups(s, journal)
               /\ Ready(plan.calls, n, s) /\ tree = Ran(plan.calls, n, s)
               /\ Ready(plan.calls, Len(plan.calls) + 1, s) =>
                      Keeps(plan.finalize, Ran(plan.calls, Len(plan.calls) + 1, s), s)
    BY <1>1 DEF Kept, KeptInCall
<1>3. n \in 1 .. 4
    BY <1>1 DEF Inv, InCall, Running
<1>4. Keeps(plan.finalize, tree', s)
    BY <1>1, <1>2, <1>3, RanMeans
<1>5. DOMAIN tree' \subseteq Paths
    BY <1>1 DEF Inv, InOp, Reached, IsTree
<1>6. x.finalize = plan.finalize
    OBVIOUS
<1> HIDE DEF x
<1>7. PICK S : journal \in Seq(S)
    BY DEF Inv
<1>8. DirsKept(tree') /\ Backups(tree', journal')
    BY <1>1, <1>2, <1>4, <1>5, <1>6, <1>7, BackupsNext
<1> QED
    BY <1>1, <1>8 DEF Kept, KeptInOp, KeptInCall, KeptInFinalize, KeptInDone

\* At the commit every backup has its finalizer in the journal.
LEMMA KeptCommit ==
    ASSUME Inv, Kept, Commit
    PROVE  Kept'
<1>1. /\ phase = "op" /\ phase' = "finalize" /\ UNCHANGED <<tree, todo, journal, errs, faults>>
    BY DEF Commit
<1>2. errs = {} /\ todo = <<>> /\ IsTree(tree) /\ Backups(tree, journal)
    BY <1>1 DEF Inv, InOp, Reached, Kept, KeptInOp
<1>3. ASSUME NEW q \in DOMAIN tree, NEW r \in DOMAIN tree, ~IsUserPath(q), IsPrefix(q, r)
      PROVE  r = q
    <2> HIDE DEF IsPrefix
    <2>1. tree[q] # Dir
        BY <1>2, <1>3 DEF Backups
    <2>2. DOMAIN tree \subseteq Paths
        BY <1>2 DEF IsTree
    <2> QED
        BY <2>1, <2>2, <1>2, <1>3, NothingUnder
<1>4. \A q : ~Target(<<>>, q)
    BY TargetMeans
<1> HIDE DEF Target, IsPrefix
<1>5. Left(tree, todo, journal)
    BY <1>2, <1>3, <1>4 DEF Backups, Left
<1> QED
    BY <1>1, <1>2, <1>5 DEF Kept, KeptInOp, KeptInCall, KeptInFinalize, KeptInDone

\* What is taken from the journal is what is finalized next.
LEMMA KeptFinalizeNext ==
    ASSUME Inv, Kept, FinalizeNext
    PROVE  Kept'
<1>1. /\ phase = "finalize" /\ todo = <<>> /\ journal # <<>>
      /\ todo' = Head(journal).finalize /\ journal' = Tail(journal)
      /\ UNCHANGED <<tree, phase, errs, faults>>
    BY DEF FinalizeNext
<1>2. PICK S : journal \in Seq(S)
    BY DEF Inv
<1> DEFINE L == Len(journal)
<1>3. /\ Len(journal') = L - 1 /\ L \in Nat
      /\ \A e \in 1 .. L - 1 : journal'[e] = journal[e + 1] /\ e + 1 \in 1 .. L /\ e + 1 # 1
      /\ Head(journal) = journal[1] /\ 1 \in 1 .. L
    BY <1>1, <1>2
<1>4. /\ \A e \in 1 .. L : e = 1 \/ (e - 1 \in 1 .. L - 1 /\ (e - 1) + 1 = e)
      /\ \A e, g \in 1 .. L - 1 : e + 1 = g + 1 => e = g
    BY <1>3
<1> HIDE DEF L, Target, IsPrefix
<1>5. ASSUME Left(tree, todo, journal)
      PROVE  Left(tree, todo', journal')
    <2>1. \A q : ~Target(todo, q)
        BY <1>1, TargetMeans
    <2>2. ASSUME NEW q \in Paths, ~IsUserPath(q)
          PROVE  q \in DOMAIN tree <=> \/ Target(todo', q)
                                       \/ \E e \in 1 .. Len(journal') : Target(journal'[e].finalize, q)
        <3>1. q \in DOMAIN tree <=> \E e \in 1 .. L : Target(journal[e].finalize, q)
            BY <1>5, <2>1, <2>2 DEF Left, L
        <3>2. (\E e \in 1 .. L : Target(journal[e].finalize, q)) <=>
                  \/ Target(journal[1].finalize, q)
                  \/ \E e \in 1 .. L - 1 : Target(journal[e + 1].finalize, q)
            BY <1>3, <1>4
        <3> QED
            BY <3>1, <3>2, <1>1, <1>3
    <2>3. \A e, g \in 1 .. L : \A q \in Paths :
              Target(journal[e].finalize, q) /\ Target(journal[g].finalize, q) => e = g
        BY <1>5 DEF Left, L
    <2>4. \A e, g \in 1 .. L - 1 : \A q \in Paths :
              Target(journal'[e].finalize, q) /\ Target(journal'[g].finalize, q) => e = g
        BY <2>3, <1>3, <1>4
    <2>5. \A e \in 1 .. L - 1 : \A q \in Paths :
              ~(Target(journal'[e].finalize, q) /\ Target(todo', q))
        BY <2>3, <1>1, <1>3
    <2> QED
        BY <2>2, <2>4, <2>5, <1>3, <1>5 DEF Left
<1> QED
    BY <1>1, <1>5 DEF Kept, KeptInOp, KeptInCall, KeptInFinalize, KeptInDone

\* A finalizer removes its backup, or reports that it could not.
LEMMA KeptFinalize ==
    ASSUME Inv, Kept, Finalize
    PROVE  Kept'
<1>1. /\ phase = "finalize" /\ todo # <<>> /\ todo' = Tail(todo)
      /\ \/ Works(Head(todo)) /\ UNCHANGED errs
         \/ Breaks(Head(todo)) /\ errs' = errs \cup {"finalize"}
      /\ UNCHANGED <<phase, journal>>
    BY DEF Finalize
<1>2. /\ Final(todo) /\ DOMAIN tree \subseteq Paths /\ faults \in Nat
      /\ errs \subseteq {"finalize"} /\ ("finalize" \in errs => faults > 0)
    BY <1>1 DEF Inv, InFinalize, Kept, KeptInFinalize
<1>3. PICK c : todo = <<c>> /\ Discards(c)
    BY <1>1, <1>2 DEF Final
<1>4. Head(todo) = c /\ todo' = <<>>
    BY <1>1, <1>3
<1>5. PICK b \in Paths : ~IsUserPath(b) /\ (c = Unlink(b) \/ c = UnlinkAll(b))
    BY <1>3 DEF Discards
<1>6. \A q : Target(todo, q) <=> q = b
    <2>1. CASE c = Unlink(b)
        BY <2>1, <1>3, TargetMeans
    <2>2. CASE c = UnlinkAll(b)
        BY <2>2, <1>3, TargetMeans
    <2> QED
        BY <2>1, <2>2, <1>5
<1>7. \A q : ~Target(todo', q)
    BY <1>4, TargetMeans
<1> HIDE DEF Target, IsPrefix
<1>8. ASSUME "finalize" \notin errs
      PROVE  /\ Left(tree, todo, journal) /\ Possible(tree, c)
             /\ Effect(tree, c) = Without(tree, Under(tree, b))
    <2>1. Left(tree, todo, journal)
        BY <1>1, <1>8 DEF Kept, KeptInFinalize
    <2>2. b \in DOMAIN tree
        BY <2>1, <1>5, <1>6 DEF Left
    <2>3. Under(tree, b) = {b}
        <3>1. \A r \in DOMAIN tree : IsPrefix(b, r) => r = b
            BY <2>1, <2>2, <1>5 DEF Left
        <3>2. IsPrefix(b, b)
            BY <1>5, PrefixOrder
        <3> QED
            BY <3>1, <3>2, <2>2 DEF Under
    <2>4. CASE c = Unlink(b)
        <3>1. Effect(tree, Unlink(b)) = Without(tree, Under(tree, b)) /\ Possible(tree, Unlink(b))
            BY <2>3, RemoveMeans
        <3> QED
            BY <3>1, <2>1, <2>4
    <2>5. CASE c = UnlinkAll(b)
        <3>1. Effect(tree, UnlinkAll(b)) = Without(tree, Under(tree, b)) /\ Possible(tree, UnlinkAll(b))
            BY RemoveMeans
        <3> QED
            BY <3>1, <2>1, <2>5
    <2> QED
        BY <2>4, <2>5, <1>5
<1>9. CASE Works(c) /\ UNCHANGED errs
    <2>1. tree' = Effect(tree, c) /\ faults' = faults
        BY <1>9 DEF Works
    <2>2. ASSUME "finalize" \notin errs
          PROVE  Left(tree', todo', journal)
        <3>1. \A q : q \in DOMAIN tree' <=> q \in DOMAIN tree /\ ~IsPrefix(b, q)
            BY <2>1, <2>2, <1>8, WithoutMeans
        <3>2. b \in DOMAIN tree /\ IsPrefix(b, b)
            BY <2>2, <1>5, <1>6, <1>8, PrefixOrder DEF Left
        <3>3. \A q : q \in DOMAIN tree' <=> q \in DOMAIN tree /\ q # b
            BY <3>1, <3>2, <2>2, <1>5, <1>8 DEF Left
        <3>4. \A e \in 1 .. Len(journal) : ~Target(journal[e].finalize, b)
            BY <2>2, <1>5, <1>6, <1>8 DEF Left
        <3>5. ASSUME NEW q \in Paths, ~IsUserPath(q)
              PROVE  q \in DOMAIN tree' <=> \E e \in 1 .. Len(journal) : Target(journal[e].finalize, q)
            BY <3>3, <3>4, <3>5, <2>2, <1>6, <1>8 DEF Left
        <3>6. \A q, r \in DOMAIN tree' : ~IsUserPath(q) /\ IsPrefix(q, r) => r = q
            BY <3>3, <2>2, <1>8 DEF Left
        <3>7. \A e, g \in 1 .. Len(journal) : \A q \in Paths :
                  Target(journal[e].finalize, q) /\ Target(journal[g].finalize, q) => e = g
            BY <2>2, <1>8 DEF Left
        <3> QED
            BY <3>5, <3>6, <3>7, <1>7 DEF Left
    <2> QED
        BY <2>1, <2>2, <1>1, <1>2, <1>9 DEF Kept, KeptInOp, KeptInCall, KeptInFinalize,
           KeptInDone
<1>10. CASE Breaks(c) /\ errs' = errs \cup {"finalize"}
    <2>1. IF Possible(tree, c) THEN faults' = faults + 1 ELSE faults' = faults
        BY <1>10 DEF Breaks
    <2>2. faults' > 0
        <3>1. CASE "finalize" \in errs
            BY <3>1, <2>1, <1>2
        <3>2. CASE "finalize" \notin errs
            BY <3>2, <2>1, <1>2, <1>8
        <3> QED
            BY <3>1, <3>2
    <2>3. "finalize" \in errs' /\ errs' \subseteq {"finalize"}
        BY <1>2, <1>10
    <2> QED
        BY <2>2, <2>3, <1>1 DEF Kept, KeptInOp, KeptInCall, KeptInFinalize, KeptInDone
<1> QED
    BY <1>1, <1>4, <1>9, <1>10

\* After the last finalizer no backup is left that was not reported.
LEMMA KeptReturn ==
    ASSUME Inv, Kept, Return
    PROVE  Kept'
<1>1. /\ phase \in {"undo", "finalize"} /\ todo = <<>> /\ journal = <<>> /\ phase' = "done"
      /\ UNCHANGED <<tree, journal, errs, faults>>
    BY DEF Return
<1>2. CASE phase = "undo"
    <2>1. "op" \in errs
        BY <1>2 DEF Inv, InUndo
    <2> QED
        BY <2>1, <1>1 DEF Kept, KeptInOp, KeptInCall, KeptInFinalize, KeptInDone
<1>3. CASE phase = "finalize"
    <2>1. DOMAIN tree \subseteq Paths
        BY <1>3 DEF Inv, InFinalize
    <2>2. 1 .. Len(<<>>) = {}
        OBVIOUS
    <2> HIDE DEF Target
    <2>3. \A q : ~Target(<<>>, q)
        BY TargetMeans
    <2>4. Left(tree, todo, journal) => \A q \in DOMAIN tree : IsUserPath(q)
        BY <2>1, <2>2, <2>3, <1>1 DEF Left
    <2> QED
        BY <2>4, <1>1, <1>3 DEF Kept, KeptInOp, KeptInCall, KeptInFinalize, KeptInDone
<1> QED
    BY <1>1, <1>2, <1>3

\* Every step keeps the account of the backups, in a batch of files.
LEMMA StepKept ==
    Inv /\ (FilesOnly(batch) => Kept) /\ [Next]_vars => (FilesOnly(batch) => Kept)'
<1> SUFFICES ASSUME Inv, FilesOnly(batch) => Kept, [Next]_vars, FilesOnly(batch)'
             PROVE  Kept'
    OBVIOUS
<1>1. batch' = batch
    BY DEF Next, Step, Begin, Call, LastCall, CallFails, Repair, RepairDone, UndoNext, Undo,
           Commit, FinalizeNext, Finalize, Return, Crash, vars
<1>2. FilesOnly(batch) /\ Kept
    BY <1>1 DEF FilesOnly
<1>3. CASE Begin
    BY <1>2, <1>3, KeptBegin
<1>4. CASE Call
    BY <1>2, <1>4, KeptCall
<1>5. CASE LastCall
    BY <1>2, <1>5, StepInv, KeptLastCall
<1>6. CASE CallFails \/ Repair \/ RepairDone \/ UndoNext \/ Undo
    <2>1. phase' = "repair" \/ phase' = "undo"
        BY <1>6 DEF CallFails, Repair, RepairDone, UndoNext, Undo
    <2> QED
        BY <2>1 DEF Kept, KeptInOp, KeptInCall, KeptInFinalize, KeptInDone
<1>7. CASE Commit
    BY <1>2, <1>7, KeptCommit
<1>8. CASE FinalizeNext
    BY <1>2, <1>8, KeptFinalizeNext
<1>9. CASE Finalize
    BY <1>2, <1>9, KeptFinalize
<1>10. CASE Return
    BY <1>2, <1>10, KeptReturn
<1>11. CASE Crash \/ UNCHANGED vars
    <2>1. UNCHANGED <<batch, tree, phase, j, plan, n, todo, journal, errs, faults>>
        BY <1>11 DEF Crash, vars
    <2> QED
        BY <2>1, <1>2 DEF Kept, KeptInOp, KeptInCall, KeptInFinalize, KeptInDone
<1> QED
    BY <1>3, <1>4, <1>5, <1>6, <1>7, <1>8, <1>9, <1>10, <1>11 DEF Next, Step

\* A batch of files that is applied leaves no backup behind without an error
\* that says so, and none at all when no system call failed of itself.
THEOREM DiscardsBackups == Spec => []FileBackupsDiscarded
<1>1. ASSUME Inv, FilesOnly(batch) => Kept PROVE FileBackupsDiscarded
    <2> SUFFICES ASSUME FilesOnly(batch), phase = "done", "op" \notin errs
                 PROVE  LET leftover == \E p \in DOMAIN tree : ~IsUserPath(p) IN
                        /\ leftover => "finalize" \in errs
                        /\ faults = 0 => ~leftover /\ errs = {}
        BY DEF FileBackupsDiscarded, BackupsDiscarded, FilesOnly
    <2>1. /\ errs \subseteq {"finalize"} /\ ("finalize" \in errs => faults > 0)
          /\ "finalize" \notin errs => \A q \in DOMAIN tree : IsUserPath(q)
        BY <1>1 DEF Kept, KeptInDone
    <2>2. faults = 0 => "finalize" \notin errs
        BY <2>1
    <2> QED
        BY <2>1, <2>2
<1>2. Init => (FilesOnly(batch) => Kept)
    BY KeptInit
<1> QED
    BY <1>1, <1>2, InitInv, StepInv, StepKept, PTL DEF Spec

(* ------------------- where a file of another tree has gone --------------- *)

\* The content of every file of the workspace is in some file of t.
Contents(t) == \A p \in DOMAIN Start : \E q \in DOMAIN t : t[q] = Start[p]

\* Every file of e is in t, at the path f gives.  What is carried elsewhere is
\* not carried below a path it was not below, and leaves a path it was below
\* only when that path is gone, or one of the user's (unless moved: then even
\* such a path takes along what was below it).  C are the names of operations
\* that have not been undone by name.
Carried(f, t, e, C, moved) ==
    /\ DOMAIN t \subseteq Paths /\ DOMAIN e \subseteq Paths
    /\ \A q \in DOMAIN e : f[q] \in DOMAIN t /\ t[f[q]] = e[q]
    /\ \A q \in DOMAIN e, p \in Paths : ~Hits(p, C) /\ IsPrefix(p, f[q]) => IsPrefix(p, q)
    /\ \A q \in DOMAIN e, p \in DOMAIN t :
           ~Hits(p, C) /\ IsPrefix(p, q) /\ (IsUserPath(p) => moved) => IsPrefix(p, f[q])

\* What a tree has, a tree it is carried to has.
LEMMA CarriedContents ==
    ASSUME NEW f, NEW t, NEW e, NEW C, NEW moved, Carried(f, t, e, C, moved), Contents(e)
    PROVE  Contents(t)
BY DEF Carried, Contents

\* Removing a path from both trees.
LEMMA CarriedLess ==
    ASSUME NEW f, NEW t, NEW e, NEW C, NEW moved, Carried(f, t, e, C, moved),
           NEW x \in Paths, ~Hits(x, C)
    PROVE  Carried(f, Without(t, Under(t, x)), Without(e, Under(e, x)), C, moved)
<1> DEFINE T == Without(t, Under(t, x))
           E == Without(e, Under(e, x))
<1> HIDE DEF IsPrefix, T, E
<1>1. /\ \A q : q \in DOMAIN T <=> q \in DOMAIN t /\ ~IsPrefix(x, q)
      /\ \A q \in DOMAIN T : T[q] = t[q]
    BY WithoutMeans DEF T
<1>2. /\ \A q : q \in DOMAIN E <=> q \in DOMAIN e /\ ~IsPrefix(x, q)
      /\ \A q \in DOMAIN E : E[q] = e[q]
    BY WithoutMeans DEF E
<1> QED
    BY <1>1, <1>2 DEF Carried, T, E

\* Renaming a path in both trees: the renamed files are carried along.
LEMMA CarriedMoved ==
    ASSUME NEW f, NEW t, NEW e, NEW C, NEW moved, Carried(f, t, e, C, moved),
           NEW x \in DOMAIN t, NEW y \in Paths, ~Hits(x, C), ~Hits(y, C),
           IsUserPath(x) => moved
    PROVE  \E g : Carried(g, Moved(t, x, y), Moved(e, x, y), C, moved)
<1> DEFINE T == Moved(t, x, y)
           E == Moved(e, x, y)
           g == [q \in Paths |-> IF IsPrefix(y, q) THEN Rebase(f[Rebase(q, y, x)], x, y) ELSE f[q]]
<1> HIDE DEF IsPrefix, Rebase, Hits, T, E, g
<1>1. /\ DOMAIN t \subseteq Paths /\ DOMAIN e \subseteq Paths /\ x \in Paths
      /\ \A q \in DOMAIN e : f[q] \in DOMAIN t /\ f[q] \in Paths /\ t[f[q]] = e[q]
    BY DEF Carried
<1>2. ASSUME NEW q \in DOMAIN e, NEW p \in Paths, ~Hits(p, C), IsPrefix(p, f[q])
      PROVE  IsPrefix(p, q)
    BY <1>2 DEF Carried
<1>3. ASSUME NEW q \in DOMAIN e, NEW p \in DOMAIN t, ~Hits(p, C), IsPrefix(p, q), IsUserPath(p) => moved
      PROVE  IsPrefix(p, f[q])
    BY <1>3 DEF Carried
<1>4. /\ \A q : q \in DOMAIN T <=>
             \/ q \in DOMAIN t /\ ~IsPrefix(x, q) /\ ~IsPrefix(y, q)
             \/ \E r \in DOMAIN t : IsPrefix(x, r) /\ q = Rebase(r, x, y)
      /\ \A q \in DOMAIN t : ~IsPrefix(x, q) /\ ~IsPrefix(y, q) => T[q] = t[q]
      /\ \A r \in DOMAIN t : IsPrefix(x, r) => T[Rebase(r, x, y)] = t[r]
    BY <1>1, MovedMeans DEF T
<1>5. /\ \A q : q \in DOMAIN E <=>
             \/ q \in DOMAIN e /\ ~IsPrefix(x, q) /\ ~IsPrefix(y, q)
             \/ \E r \in DOMAIN e : IsPrefix(x, r) /\ q = Rebase(r, x, y)
      /\ \A q \in DOMAIN e : ~IsPrefix(x, q) /\ ~IsPrefix(y, q) => E[q] = e[q]
      /\ \A r \in DOMAIN e : IsPrefix(x, r) => E[Rebase(r, x, y)] = e[r]
    BY <1>1, MovedMeans DEF E
<1>6. \A r \in Paths : IsPrefix(x, r) =>
          /\ Rebase(r, x, y) \in Paths /\ IsPrefix(y, Rebase(r, x, y))
          /\ Rebase(Rebase(r, x, y), y, x) = r
    BY <1>1, RebasePath
<1>7. DOMAIN T \subseteq Paths /\ DOMAIN E \subseteq Paths
    BY <1>1, <1>4, <1>5, <1>6
<1>8. ASSUME NEW q \in DOMAIN e, ~IsPrefix(x, q), ~IsPrefix(y, q)
      PROVE  g[q] = f[q] /\ f[q] \in DOMAIN T /\ T[f[q]] = e[q] /\ E[q] = e[q]
    <2>1. ~IsPrefix(x, f[q]) /\ ~IsPrefix(y, f[q])
        BY <1>1, <1>2, <1>8
    <2> QED
        BY <2>1, <1>1, <1>4, <1>5, <1>8 DEF g
<1>9. ASSUME NEW r \in DOMAIN e, IsPrefix(x, r)
      PROVE  /\ IsPrefix(x, f[r]) /\ g[Rebase(r, x, y)] = Rebase(f[r], x, y)
             /\ Rebase(f[r], x, y) \in DOMAIN T /\ T[Rebase(f[r], x, y)] = e[r]
             /\ E[Rebase(r, x, y)] = e[r]
    <2>1. IsPrefix(x, f[r])
        BY <1>3, <1>9
    <2> QED
        BY <2>1, <1>1, <1>4, <1>5, <1>6, <1>9 DEF g
<1>10. ASSUME NEW q \in DOMAIN E
       PROVE  \/ q \in DOMAIN e /\ ~IsPrefix(x, q) /\ ~IsPrefix(y, q)
              \/ \E r \in DOMAIN e : IsPrefix(x, r) /\ q = Rebase(r, x, y)
    BY <1>5
<1>11. ASSUME NEW q \in DOMAIN E PROVE g[q] \in DOMAIN T /\ T[g[q]] = E[q]
    BY <1>8, <1>9, <1>10
\* A path beside the names C that is below y was below x.
<1>12. ASSUME NEW p \in Paths, IsPrefix(y, p), ~Hits(p, C)
       PROVE  /\ Rebase(p, y, x) \in Paths /\ IsPrefix(x, Rebase(p, y, x))
              /\ Rebase(Rebase(p, y, x), x, y) = p /\ ~Hits(Rebase(p, y, x), C)
    <2>1. /\ Rebase(p, y, x) \in Paths /\ IsPrefix(x, Rebase(p, y, x))
          /\ Rebase(Rebase(p, y, x), x, y) = p
        BY <1>1, <1>12, RebasePath
    <2>2. Hits(Rebase(p, y, x), C) <=> Hits(p, C)
        BY <1>1, <1>12, RebaseHits
    <2> QED
        BY <2>1, <2>2, <1>12
<1>13. ASSUME NEW r \in Paths, IsPrefix(x, r), NEW p \in Paths, IsPrefix(p, Rebase(r, x, y))
       PROVE  \/ IsPrefix(p, y)
              \/ IsPrefix(y, p) /\ IsPrefix(Rebase(p, y, x), r)
    <2>1. IsPrefix(p, y) \/ IsPrefix(y, p)
        BY <1>6, <1>13, PrefixOrder
    <2>2. ASSUME IsPrefix(y, p) PROVE IsPrefix(Rebase(p, y, x), r)
        <3>1. IsPrefix(Rebase(p, y, x), Rebase(Rebase(r, x, y), y, x))
            BY <1>1, <1>6, <1>13, <2>2, RebasePrefix
        <3> QED
            BY <3>1, <1>6, <1>13
    <2> QED
        BY <2>1, <2>2
<1>14. ASSUME NEW q \in DOMAIN E, NEW p \in Paths, ~Hits(p, C), IsPrefix(p, g[q])
       PROVE  IsPrefix(p, q)
    <2>1. CASE q \in DOMAIN e /\ ~IsPrefix(x, q) /\ ~IsPrefix(y, q)
        BY <2>1, <1>2, <1>8, <1>14
    <2>2. ASSUME NEW r \in DOMAIN e, IsPrefix(x, r), q = Rebase(r, x, y) PROVE IsPrefix(p, q)
        <3>1. r \in Paths /\ f[r] \in Paths /\ IsPrefix(x, f[r]) /\ IsPrefix(p, Rebase(f[r], x, y))
            BY <1>1, <1>9, <1>14, <2>2
        <3>2. q \in Paths /\ IsPrefix(y, q)
            BY <3>1, <1>6, <2>2
        <3>3. CASE IsPrefix(p, y)
            BY <3>2, <3>3, PrefixOrder
        <3>4. CASE IsPrefix(y, p) /\ IsPrefix(Rebase(p, y, x), f[r])
            <4>1. Rebase(p, y, x) \in Paths /\ IsPrefix(x, Rebase(p, y, x))
                  /\ Rebase(Rebase(p, y, x), x, y) = p /\ ~Hits(Rebase(p, y, x), C)
                BY <1>12, <1>14, <3>4
            <4>2. IsPrefix(Rebase(p, y, x), r)
                BY <4>1, <3>4, <1>2
            <4> QED
                BY <4>1, <4>2, <3>1, <1>1, <2>2, RebasePrefix
        <3> QED
            BY <3>1, <3>3, <3>4, <1>13
    <2> QED
        BY <2>1, <2>2, <1>10
<1>15. ASSUME NEW q \in DOMAIN E, NEW p \in DOMAIN T, ~Hits(p, C), IsPrefix(p, q), IsUserPath(p) => moved
       PROVE  IsPrefix(p, g[q])
    <2>1. p \in Paths
        BY <1>7
    <2>2. CASE q \in DOMAIN e /\ ~IsPrefix(x, q) /\ ~IsPrefix(y, q)
        <3>1. ~IsPrefix(y, p)
            BY <2>1, <2>2, <1>1, <1>15, PrefixOrder
        <3>2. p \in DOMAIN t
            BY <3>1, <2>1, <1>1, <1>4, <1>6
        <3> QED
            BY <3>2, <2>2, <1>3, <1>8, <1>15
    <2>3. ASSUME NEW r \in DOMAIN e, IsPrefix(x, r), q = Rebase(r, x, y) PROVE IsPrefix(p, g[q])
        <3>1. r \in Paths /\ f[r] \in Paths /\ IsPrefix(x, f[r]) /\ g[q] = Rebase(f[r], x, y)
            BY <1>1, <1>9, <2>3
        <3>2. g[q] \in Paths /\ IsPrefix(y, g[q])
            BY <3>1, <1>6
        <3>3. CASE IsPrefix(p, y)
            BY <3>2, <3>3, <2>1, PrefixOrder
        <3>4. CASE IsPrefix(y, p) /\ IsPrefix(Rebase(p, y, x), r)
            <4> DEFINE o == Rebase(p, y, x)
            <4>1. o \in Paths /\ IsPrefix(x, o) /\ Rebase(o, x, y) = p /\ ~Hits(o, C)
                BY <1>12, <1>15, <3>4, <2>1
            <4>2. o \in DOMAIN t
                <5>1. PICK s \in DOMAIN t : IsPrefix(x, s) /\ p = Rebase(s, x, y)
                    BY <3>4, <1>4
                <5> QED
                    BY <5>1, <1>1, <1>6
            <4>3. IsUserPath(o) => moved
                <5>1. IsUserPath(o) => IsUserPath(x)
                    BY <4>1, <1>1, UserPathMeans, PrefixHits
                <5> QED
                    BY <5>1
            <4>4. IsPrefix(o, f[r])
                BY <4>1, <4>2, <4>3, <3>4, <1>3
            <4> HIDE DEF o
            <4>5. IsPrefix(Rebase(o, x, y), Rebase(f[r], x, y))
                BY <4>1, <4>4, <3>1, <1>1, RebasePrefix
            <4> QED
                BY <4>1, <4>5, <3>1
        <3> QED
            BY <3>1, <3>3, <3>4, <2>1, <2>3, <1>13, <1>15
    <2> QED
        BY <2>2, <2>3, <1>10
<1>16. Carried(g, T, E, C, moved)
    BY <1>7, <1>11, <1>14, <1>15 DEF Carried
<1> QED
    BY <1>16 DEF T, E

\* A call of an undo that works takes what is carried along.
LEMMA CarriedOn ==
    ASSUME NEW f, NEW t, NEW e, NEW C, NEW moved, Carried(f, t, e, C, moved),
           NEW c, Harmless(c, C), Possible(t, c),
           c.do = "rename" /\ IsUserPath(c.at) => moved
    PROVE  \E g : Carried(g, Effect(t, c), Effect(e, c), C, moved)
<1> HIDE DEF IsPrefix, Rebase, Hits, Carried
<1>1. ASSUME NEW x \in Paths, c = Unlink(x) \/ c = UnlinkAll(x), ~Hits(x, C)
      PROVE  Carried(f, Effect(t, c), Effect(e, c), C, moved)
    BY <1>1, CarriedLess, RemoveMeans
<1>2. ASSUME NEW x \in Paths, NEW y \in Paths, c = Move(x, y), ~Hits(x, C), ~Hits(y, C)
      PROVE  \E g : Carried(g, Effect(t, c), Effect(e, c), C, moved)
    <2>1. /\ Effect(t, c) = IF x = y THEN t ELSE Moved(t, x, y)
          /\ Effect(e, c) = IF x = y THEN e ELSE Moved(e, x, y)
          /\ x \in DOMAIN t
        BY <1>2, RenameMeans
    <2>2. c.do = "rename" /\ c.at = x
        BY <1>2 DEF Move
    <2> QED
        BY <2>1, <2>2, <1>2, CarriedMoved
<1> QED
    BY <1>1, <1>2 DEF Harmless

(* --------------------- what a failed operation leaves -------------------- *)

\* All of g is in t.
Holds(t, g) == DOMAIN t \subseteq Paths /\ \A q \in DOMAIN g : q \in DOMAIN t /\ t[q] = g[q]

\* The repair f only removes what is not in g.
Spares(f, g) ==
    f = <<>> \/ \E x \in Paths : /\ f = <<Unlink(x)>> \/ f = <<UnlinkAll(x)>>
                                 /\ \A q \in DOMAIN g : ~IsPrefix(x, q)

\* What is left when operation m, begun in s, has failed and f is left of its
\* repair: s with what the operation wrote, or s with p moved aside and, of a
\* create, an unfinished file in its place.
Mends(f, t, s, m, op) ==
    \/ Holds(t, s) /\ Spares(f, s)
    \/ \E p \in DOMAIN s :
           LET b == BackupOf(p, m)
               M == Moved(s, p, b)
           IN  /\ IsUserPath(p) /\ Holds(t, M)
               /\ \A q \in DOMAIN t : IsPrefix(p, q) => q = p /\ op.kind = "create"
               /\ \/ Spares(f, M)
                  \/ /\ f # <<>> /\ Head(f) = Move(b, p)
                     /\ Spares(Tail(f), s) /\ Spares(Tail(f), M)

\* A renaming to a free path loses nothing.
LEMMA MovedContents ==
    ASSUME NEW s, DOMAIN s \subseteq Paths, NEW p \in Paths, NEW q \in Paths,
           \A r \in DOMAIN s : IsPrefix(q, r) => IsPrefix(p, r), Contents(s)
    PROVE  Contents(Moved(s, p, q))
<1> HIDE DEF IsPrefix, Rebase
<1> DEFINE M == Moved(s, p, q)
<1>1. /\ \A r : r \in DOMAIN M <=>
             \/ r \in DOMAIN s /\ ~IsPrefix(p, r) /\ ~IsPrefix(q, r)
             \/ \E o \in DOMAIN s : IsPrefix(p, o) /\ r = Rebase(o, p, q)
      /\ \A r \in DOMAIN s : ~IsPrefix(p, r) /\ ~IsPrefix(q, r) => M[r] = s[r]
      /\ \A o \in DOMAIN s : IsPrefix(p, o) => M[Rebase(o, p, q)] = s[o]
    BY MovedMeans
<1> HIDE DEF M
<1>2. ASSUME NEW r \in DOMAIN s PROVE \E o \in DOMAIN M : M[o] = s[r]
    BY <1>1
<1> QED
    BY <1>2 DEF Contents, M

\* What a tree holds has its contents.
LEMMA HoldsContents ==
    ASSUME NEW t, NEW g, Holds(t, g), Contents(g)
    PROVE  Contents(t)
BY DEF Holds, Contents

\* Removing what is not in g.
LEMMA SparesStep ==
    ASSUME NEW f, f # <<>>, NEW t, NEW g, Holds(t, g), Spares(f, g)
    PROVE  LET c == Head(f) IN
           /\ Holds(Effect(t, c), g) /\ Spares(Tail(f), g)
           /\ Residues(t, c) = {t} /\ DOMAIN Effect(t, c) \subseteq DOMAIN t
<1> HIDE DEF IsPrefix
<1>1. PICK x \in Paths : /\ f = <<Unlink(x)>> \/ f = <<UnlinkAll(x)>>
                         /\ \A q \in DOMAIN g : ~IsPrefix(x, q)
    BY DEF Spares
<1>2. PICK c : f = <<c>> /\ (c = Unlink(x) \/ c = UnlinkAll(x))
    <2> HIDE DEF Unlink, UnlinkAll
    <2> QED
        BY <1>1
<1>3. Head(f) = c /\ Tail(f) = <<>>
    BY <1>2
<1>4. Effect(t, Head(f)) = Without(t, Under(t, x)) /\ Residues(t, Head(f)) = {t}
    BY <1>2, <1>3, RemoveMeans
<1> DEFINE T == Without(t, Under(t, x))
<1> HIDE DEF T
<1>5. /\ \A q : q \in DOMAIN T <=> q \in DOMAIN t /\ ~IsPrefix(x, q)
      /\ \A q \in DOMAIN T : T[q] = t[q]
    BY WithoutMeans DEF T
<1>6. Holds(T, g)
    BY <1>1, <1>5 DEF Holds
<1> HIDE DEF Holds, Effect, Residues
<1> QED
    BY <1>4, <1>5, <1>3, <1>6 DEF Spares, T

\* A call of a repair, whether it works or not, leaves what the rest can go on from.
LEMMA MendsStep ==
    ASSUME NEW s, IsTree(s), NEW m \in Nat, Fresh(s, m), NEW op,
           NEW f, f # <<>>, NEW t, Mends(f, t, s, m, op),
           NEW r, r = Effect(t, Head(f)) \/ r \in Residues(t, Head(f))
    PROVE  Mends(Tail(f), r, s, m, op)
<1> HIDE DEF IsPrefix, Rebase, Spares, Holds
<1>1. CASE Holds(t, s) /\ Spares(f, s)
    <2>1. Holds(r, s) /\ Spares(Tail(f), s)
        BY <1>1, SparesStep
    <2> QED
        BY <2>1 DEF Mends
<1>2. ASSUME NEW p \in DOMAIN s, NEW b, b = BackupOf(p, m), NEW M, M = Moved(s, p, b),
             IsUserPath(p), Holds(t, M),
             \A q \in DOMAIN t : IsPrefix(p, q) => q = p /\ op.kind = "create",
             \/ Spares(f, M)
             \/ /\ Head(f) = Move(b, p)
                /\ Spares(Tail(f), s) /\ Spares(Tail(f), M)
      PROVE  Mends(Tail(f), r, s, m, op)
    <2>1. CASE Spares(f, M)
        <3>1. Holds(r, M) /\ Spares(Tail(f), M) /\ DOMAIN r \subseteq DOMAIN t
            <4> HIDE DEF Effect, Residues
            <4>1. /\ Holds(Effect(t, Head(f)), M) /\ Spares(Tail(f), M)
                  /\ Residues(t, Head(f)) = {t} /\ DOMAIN Effect(t, Head(f)) \subseteq DOMAIN t
                BY <2>1, <1>2, SparesStep
            <4> QED
                BY <4>1, <1>2
        <3>2. \A q \in DOMAIN r : IsPrefix(p, q) => q = p /\ op.kind = "create"
            BY <3>1, <1>2
        <3> QED
            BY <3>1, <3>2, <1>2 DEF Mends
    <2>2. CASE /\ Head(f) = Move(b, p)
               /\ Spares(Tail(f), s) /\ Spares(Tail(f), M)
        <3>1. /\ b \in Paths /\ p \in Paths /\ ~IsPrefix(b, p) /\ ~IsPrefix(p, b) /\ b # p
              /\ DOMAIN s \subseteq Paths /\ DOMAIN t \subseteq Paths
            BY <1>2, OwnPath DEF IsTree, Holds
        <3>2. Residues(t, Move(b, p)) = {t} /\ Effect(t, Move(b, p)) = Moved(t, b, p)
            BY <3>1, RenameMeans
        <3>3. CASE r = t
            BY <3>3, <2>2, <1>2 DEF Mends
        <3>4. CASE r = Moved(t, b, p)
            <4>1. /\ \A q : q \in DOMAIN M <=>
                         \/ q \in DOMAIN s /\ ~IsPrefix(p, q) /\ ~IsPrefix(b, q)
                         \/ \E o \in DOMAIN s : IsPrefix(p, o) /\ q = Rebase(o, p, b)
                  /\ \A q \in DOMAIN s : ~IsPrefix(p, q) /\ ~IsPrefix(b, q) => M[q] = s[q]
                  /\ \A o \in DOMAIN s : IsPrefix(p, o) => M[Rebase(o, p, b)] = s[o]
                BY <3>1, <1>2, MovedMeans
            <4>2. /\ \A q : q \in DOMAIN r <=>
                         \/ q \in DOMAIN t /\ ~IsPrefix(b, q) /\ ~IsPrefix(p, q)
                         \/ \E o \in DOMAIN t : IsPrefix(b, o) /\ q = Rebase(o, b, p)
                  /\ \A q \in DOMAIN t : ~IsPrefix(b, q) /\ ~IsPrefix(p, q) => r[q] = t[q]
                  /\ \A o \in DOMAIN t : IsPrefix(b, o) => r[Rebase(o, b, p)] = t[o]
                BY <3>1, <3>4, MovedMeans
            <4>3. \A q \in DOMAIN s : ~IsPrefix(b, q)
                <5>1. m <= m
                    OBVIOUS
                <5>2. Hits(b, Own(m))
                    BY <5>1, <3>1, <1>2, OwnPath
                <5> QED
                    BY <5>2, <3>1, FreshMeans
            <4>4. \A o \in DOMAIN s : IsPrefix(p, o) =>
                      IsPrefix(b, Rebase(o, p, b)) /\ Rebase(Rebase(o, p, b), b, p) = o
                BY <3>1, RebasePath
            <4>5. \A o \in DOMAIN t : IsPrefix(b, o) => Rebase(o, b, p) \in Paths
                BY <3>1, RebasePath
            <4>6. ASSUME NEW q \in DOMAIN s PROVE q \in DOMAIN r /\ r[q] = s[q]
                <5>1. CASE IsPrefix(p, q)
                    <6>1. Rebase(q, p, b) \in DOMAIN t /\ t[Rebase(q, p, b)] = s[q]
                        BY <5>1, <4>1, <1>2 DEF Holds
                    <6> QED
                        BY <6>1, <5>1, <4>2, <4>4
                <5>2. CASE ~IsPrefix(p, q)
                    BY <5>2, <4>1, <4>2, <4>3, <1>2 DEF Holds
                <5> QED
                    BY <5>1, <5>2
            <4>7. Holds(r, s)
                BY <4>2, <4>5, <4>6, <3>1 DEF Holds
            <4> QED
                BY <4>7, <2>2 DEF Mends
        <3> QED
            BY <3>2, <3>3, <3>4, <2>2
    <2> QED
        BY <2>1, <2>2, <1>2
<1> QED
    BY <1>1, <1>2 DEF Mends

\* Whatever has been mended, the contents are there.
LEMMA MendsContents ==
    ASSUME NEW s, IsTree(s), NEW m \in Nat, Fresh(s, m), NEW op,
           NEW f, NEW t, Mends(f, t, s, m, op), Contents(s)
    PROVE  Contents(t)
<1> HIDE DEF IsPrefix, Rebase, Spares, Holds, Contents
<1>1. ASSUME NEW p \in DOMAIN s, IsUserPath(p), Holds(t, Moved(s, p, BackupOf(p, m)))
      PROVE  Contents(t)
    <2>1. DOMAIN s \subseteq Paths /\ p \in Paths /\ BackupOf(p, m) \in Paths /\ m <= m
        BY <1>1, OwnPath DEF IsTree
    <2>2. Hits(BackupOf(p, m), Own(m))
        BY <2>1, <1>1, OwnPath
    <2>3. \A q \in DOMAIN s : ~IsPrefix(BackupOf(p, m), q)
        BY <2>1, <2>2, FreshMeans
    <2> QED
        BY <2>1, <2>3, <1>1, MovedContents, HoldsContents
<1> QED
    BY <1>1, HoldsContents DEF Mends

\* What is above a path is above its siblings.
LEMMA PrefixBeside ==
    ASSUME NEW p \in Paths, NEW c \in Pairs, NEW o \in Paths, o # p, o # Sibling(p, c)
    PROVE  IsPrefix(o, p) <=> IsPrefix(o, Sibling(p, c))
<1> DEFINE b == Sibling(p, c)
<1>1. b \in Paths /\ Len(b) = Len(p) /\ \A i \in 1 .. Len(p) - 1 : b[i] = p[i]
    BY SiblingMeans
<1> HIDE DEF IsPrefix, b
<1>2. /\ p \in Seq(Pairs) /\ b \in Seq(Pairs) /\ o \in Seq(Pairs)
      /\ Len(p) \in Nat /\ Len(o) \in Nat
    BY <1>1 DEF Paths
<1>3. IsPrefix(o, p) => Len(o) \in 1 .. Len(p) - 1
    BY PrefixIs
<1>4. IsPrefix(o, b) => Len(o) \in 1 .. Len(p) - 1
    <2>1. o # b
        BY DEF b
    <2> QED
        BY <2>1, <1>1, PrefixIs
<1>5. /\ IsPrefix(o, p) <=> Len(o) <= Len(p) /\ \A i \in 1 .. Len(o) : o[i] = p[i]
      /\ IsPrefix(o, b) <=> Len(o) <= Len(p) /\ \A i \in 1 .. Len(o) : o[i] = b[i]
    BY <1>1, <1>2, PrefixMeans
<1>6. Len(o) \in 1 .. Len(p) - 1 => \A i \in 1 .. Len(o) : b[i] = p[i]
    BY <1>1, <1>2
<1>7. IsPrefix(o, p) <=> IsPrefix(o, b)
    BY <1>3, <1>4, <1>5, <1>6
<1> QED
    BY <1>7 DEF b

\* After its repair every file of s is at its path, or where p was moved aside.
LEMMA MendsEnds ==
    ASSUME NEW s, IsTree(s), NEW m \in Nat, Fresh(s, m), NEW op, NEW t, Mends(<<>>, t, s, m, op),
           NEW moved, op.kind = "create" => ~moved
    PROVE  \E f : Carried(f, t, s, Own(m), moved)
<1> HIDE DEF IsPrefix, Rebase
<1>1. DOMAIN s \subseteq Paths /\ m \in Nat /\ m <= m /\ DOMAIN t \subseteq Paths
    BY DEF IsTree, Mends, Holds
<1>2. CASE Holds(t, s)
    <2> DEFINE f == [q \in Paths |-> q]
    <2>1. Carried(f, t, s, Own(m), moved)
        BY <1>1, <1>2 DEF Carried, Holds
    <2> QED
        BY <2>1
<1>3. ASSUME NEW p \in DOMAIN s, IsUserPath(p), NEW b, b = BackupOf(p, m), Holds(t, Moved(s, p, b)),
             \A q \in DOMAIN t : IsPrefix(p, q) => q = p /\ op.kind = "create"
      PROVE  \E f : Carried(f, t, s, Own(m), moved)
    <2> DEFINE M == Moved(s, p, b)
               f == [q \in Paths |-> IF IsPrefix(p, q) THEN Rebase(q, p, b) ELSE q]
    <2> HIDE DEF M, f
    <2>1. /\ b \in Paths /\ p \in Paths /\ ~IsPrefix(b, p) /\ ~IsPrefix(p, b) /\ b # p
          /\ Len(b) = Len(p) /\ Front(b) = Front(p) /\ Hits(b, Own(m))
        BY <1>1, <1>3, OwnPath
    <2>2. /\ \A q : q \in DOMAIN M <=>
                 \/ q \in DOMAIN s /\ ~IsPrefix(p, q) /\ ~IsPrefix(b, q)
                 \/ \E o \in DOMAIN s : IsPrefix(p, o) /\ q = Rebase(o, p, b)
          /\ \A q \in DOMAIN s : ~IsPrefix(p, q) /\ ~IsPrefix(b, q) => M[q] = s[q]
          /\ \A o \in DOMAIN s : IsPrefix(p, o) => M[Rebase(o, p, b)] = s[o]
        BY <2>1, <1>1, MovedMeans DEF M
    <2>3. \A q \in DOMAIN s : ~IsPrefix(b, q)
        BY <2>1, <1>1, FreshMeans
    <2>4. ASSUME NEW q \in DOMAIN s PROVE f[q] \in DOMAIN t /\ t[f[q]] = s[q]
        BY <2>2, <2>3, <1>1, <1>3 DEF f, Holds, M
    <2>5. ASSUME NEW q \in Paths, IsPrefix(p, q)
          PROVE  f[q] = Rebase(q, p, b) /\ f[q] \in Paths /\ IsPrefix(b, f[q])
        BY <2>1, <2>5, RebasePath DEF f
    <2>6. ASSUME NEW o \in Paths, o # p, o # b PROVE IsPrefix(o, p) <=> IsPrefix(o, b)
        <3>1. b = Sibling(p, <<"bak", m>>) /\ <<"bak", m>> \in Pairs
            BY <1>1, <1>3 DEF BackupOf, Pairs
        <3> QED
            BY <3>1, <2>1, <2>6, PrefixBeside
    <2>8. ASSUME NEW q \in DOMAIN s, NEW o \in Paths, ~Hits(o, Own(m)), IsPrefix(o, f[q])
          PROVE  IsPrefix(o, q)
        <3>1. CASE ~IsPrefix(p, q)
            BY <3>1, <2>8, <1>1 DEF f
        <3>2. CASE IsPrefix(p, q)
            <4>1. IsPrefix(o, b) \/ IsPrefix(b, o)
                BY <3>2, <2>1, <2>5, <2>8, <1>1, PrefixOrder
            <4>2. ~IsPrefix(b, o) /\ o # b
                BY <4>1, <2>1, <2>8, PrefixHits
            <4> QED
                BY <4>1, <4>2, <3>2, <2>1, <2>6, <1>1, PrefixOrder
        <3> QED
            BY <3>1, <3>2
    <2>9. ASSUME NEW q \in DOMAIN s, NEW o \in DOMAIN t, ~Hits(o, Own(m)), IsPrefix(o, q),
                 IsUserPath(o) => moved
          PROVE  IsPrefix(o, f[q])
        <3>1. CASE ~IsPrefix(p, q)
            BY <3>1, <2>9, <1>1 DEF f
        <3>2. CASE IsPrefix(p, q)
            <4>1. ~IsPrefix(p, o)
                BY <2>9, <1>3
            <4>2. IsPrefix(o, p) /\ o # p
                BY <4>1, <3>2, <2>1, <2>9, <1>1, PrefixOrder
            <4>3. IsPrefix(o, b)
                BY <4>2, <2>1, <2>6, <2>9, <1>1
            <4> QED
                BY <4>3, <3>2, <2>1, <2>5, <1>1, PrefixOrder
        <3> QED
            BY <3>1, <3>2
    <2>10. Carried(f, t, s, Own(m), moved)
        BY <2>4, <2>8, <2>9, <1>1 DEF Carried
    <2> QED
        BY <2>10
<1> QED
    BY <1>2, <1>3 DEF Mends

(* ---------------- no operation loses what a file contained --------------- *)

\* In the middle of the undo u of t nothing is lost either.
Midway(u, t) == Len(u) = 2 => Contents(Effect(t, u[1].call))
\* Only the undo of a rename moves paths of the user.
UserMoves(u, moved) ==
    \A i \in 1 .. Len(u) :
        u[i].call.do = "rename" /\ IsUserPath(u[i].call.at) => moved

\* The program P, run by operation k from s, keeps the contents: after every
\* call, after every call that fails, and while it is undone.
Saves(P, s, k, op) ==
    /\ \A i \in 1 .. Len(P.calls) + 1 : Ready(P.calls, i, s) => Contents(Ran(P.calls, i, s))
    /\ \A i \in 1 .. Len(P.calls) : Ready(P.calls, i, s) =>
           \A r \in Residues(Ran(P.calls, i, s), P.calls[i]) : Mends(P.fix[i], r, s, k, op)
    /\ Ready(P.calls, Len(P.calls) + 1, s) =>
           Midway(P.undo, Ran(P.calls, Len(P.calls) + 1, s))
    /\ UserMoves(P.undo, op.kind = "rename")

\* A tree holds itself, and a file that is not in g can be written beside it.
LEMMA HoldsMore ==
    ASSUME NEW g, DOMAIN g \subseteq Paths
    PROVE  /\ Holds(g, g)
           /\ \A t, c : \A p \in Paths : Holds(t, g) /\ p \notin DOMAIN g => Holds(With(t, p, c), g)
<1>1. ASSUME NEW t, NEW c, NEW p \in Paths, Holds(t, g), p \notin DOMAIN g
      PROVE  Holds(With(t, p, c), g)
    BY <1>1, WithMeans DEF Holds
<1> QED
    BY <1>1 DEF Holds

\* What a repair with one removal, or none, does not touch.
LEMMA SparesMeans ==
    ASSUME NEW g, NEW x \in Paths, \A q \in DOMAIN g : ~IsPrefix(x, q)
    PROVE  Spares(<<>>, g) /\ Spares(<<Unlink(x)>>, g) /\ Spares(<<UnlinkAll(x)>>, g)
BY DEF Spares

\* With p moved aside, nothing is lost, and what the next call leaves can be
\* mended.
LEMMA AsideSaves ==
    ASSUME NEW s, IsTree(s), Contents(s), NEW p \in DOMAIN s, IsUserPath(p), NEW k \in Nat, Fresh(s, k),
           NEW b, b = BackupOf(p, k), NEW M, M = Moved(s, p, b), NEW op
    PROVE  /\ IsTree(M) /\ DOMAIN M \subseteq Paths /\ Contents(M)
           /\ Contents(Effect(M, UnlinkAll(p)))
           /\ \A v : Contents(With(M, p, v)) /\ Effect(With(M, p, v), Unlink(p)) = M
           /\ \A r \in Residues(s, Reserve(b)) : Mends(<<>>, r, s, k, op)
           /\ \A r \in Residues(s, Move(p, b)) : Mends(<<>>, r, s, k, op)
           /\ Mends(<<Move(b, p)>>, M, s, k, op)
           /\ \A c : op.kind = "create" => Mends(<<Move(b, p)>>, With(M, p, c), s, k, op)
<1> HIDE DEF IsPrefix, Rebase
<1>1. /\ b \in Paths /\ p \in Paths /\ IsTree(M) /\ DOMAIN M \subseteq Paths /\ DOMAIN s \subseteq Paths
      /\ \A q \in DOMAIN M : ~IsPrefix(p, q)
      /\ M = [q \in DOMAIN M |-> M[q]]
    <2>1. /\ b \in Paths /\ p \in Paths /\ IsTree(M)
          /\ \A q \in DOMAIN M : ~IsPrefix(p, q)
        BY Aside
    <2> QED
        BY <2>1, TreeMeans
<1>2. \A q \in DOMAIN s : ~IsPrefix(b, q)
    <2>1. k <= k
        OBVIOUS
    <2>2. Hits(b, Own(k))
        BY <1>1, <2>1, OwnPath
    <2> QED
        BY <1>1, <2>2, FreshMeans
<1>3. Contents(M)
    BY <1>1, <1>2, MovedContents
<1>4. p \notin DOMAIN M /\ b \notin DOMAIN s
    BY <1>1, <1>2, PrefixOrder
<1>5. /\ Holds(s, s) /\ Holds(M, M) /\ (\A c : Holds(With(M, p, c), M)) /\ (\A c : Holds(With(s, b, c), s))
    BY <1>1, <1>4, HoldsMore
<1>6. Contents(Effect(M, UnlinkAll(p)))
    <2>1. Effect(M, UnlinkAll(p)) = Without(M, Under(M, p))
        BY RemoveMeans
    <2>2. Holds(Without(M, Under(M, p)), M)
        BY <1>1, WithoutMeans DEF Holds
    <2> QED
        BY <2>1, <2>2, <1>3, HoldsContents
<1>7. ASSUME NEW c PROVE Contents(With(M, p, c)) /\ Effect(With(M, p, c), Unlink(p)) = M
    <2>1. Contents(With(M, p, c))
        BY <1>3, <1>5, HoldsContents
    <2> QED
        BY <2>1, <1>1, WithoutWith, RemoveMeans
<1>8. ASSUME NEW r, Holds(r, s) PROVE Mends(<<>>, r, s, k, op)
    BY <1>8 DEF Mends, Spares
<1>9. \A r \in Residues(s, Reserve(b)) : Mends(<<>>, r, s, k, op)
    <2>1. \A r \in Residues(s, Reserve(b)) : r = s \/ r = With(s, b, Empty)
        BY WriteMeans
    <2> QED
        BY <2>1, <1>5, <1>8
<1>10. \A r \in Residues(s, Move(p, b)) : Mends(<<>>, r, s, k, op)
    BY <1>5, <1>8, RenameMeans
<1>11. ASSUME NEW t, Holds(t, M), \A q \in DOMAIN t : IsPrefix(p, q) => q = p /\ op.kind = "create"
       PROVE  Mends(<<Move(b, p)>>, t, s, k, op)
    <2> DEFINE f == <<Move(b, p)>>
    <2>1. f # <<>> /\ Head(f) = Move(b, p) /\ Tail(f) = <<>> /\ Spares(<<>>, s) /\ Spares(<<>>, M)
        BY DEF Spares
    <2> HIDE DEF f, Spares, Holds
    <2>2. Mends(f, t, s, k, op)
        BY <2>1, <1>11 DEF Mends
    <2> QED
        BY <2>2 DEF f
<1>12. Mends(<<Move(b, p)>>, M, s, k, op)
    BY <1>1, <1>5, <1>11
<1>13. ASSUME NEW c, op.kind = "create" PROVE Mends(<<Move(b, p)>>, With(M, p, c), s, k, op)
    <2>1. \A q \in DOMAIN With(M, p, c) : q \in DOMAIN M \/ q = p
        BY WithMeans
    <2> QED
        BY <2>1, <1>1, <1>5, <1>11, <1>13
<1> QED
    BY <1>1, <1>3, <1>6, <1>7, <1>9, <1>10, <1>12, <1>13

\* A backup is not a path of the user.
LEMMA BackupIsHidden ==
    ASSUME NEW p \in Paths, IsUserPath(p), NEW k \in Nat
    PROVE  ~IsUserPath(BackupOf(p, k))
<1>1. 0 \in Nat /\ 0 <= k
    OBVIOUS
<1>2. BackupOf(p, k) \in Paths /\ Hits(BackupOf(p, k), Own(0))
    BY <1>1, OwnPath
<1> QED
    BY <1>2, UserPathMeans

\* Creating a file where nothing is.
LEMMA CreateNewSaves ==
    ASSUME NEW s, IsTree(s), Contents(s), NEW m \in Nat, Fresh(s, m),
           NEW op, op.kind = "create", op.path \in Paths, IsUserPath(op.path),
           ~Exists(s, op.path), NEW P, P = CommitCreate(s, op, m), P.run = "calls"
    PROVE  Saves(P, s, m, op)
<1> DEFINE p == op.path
           T == With(s, p, Empty)
<1> HIDE DEF IsPrefix, T
<1>1. P = Program(<<Create(p), Close(p)>>, <<<<>>, <<Unlink(p)>>>>, <<Loud(Unlink(p))>>, <<>>)
    BY DEF CommitCreate, Refuse
<1>2. /\ P.calls = <<Create(p), Close(p)>> /\ P.fix = <<<<>>, <<Unlink(p)>>>>
      /\ P.undo = <<Loud(Unlink(p))>>
    BY <1>1, ProgramMeans
<1>3. /\ Len(P.calls) = 2 /\ P.calls[1] = Create(p) /\ P.calls[2] = Close(p)
      /\ P.fix[1] = <<>> /\ P.fix[2] = <<Unlink(p)>>
      /\ Len(P.undo) = 1 /\ P.undo[1] = Loud(Unlink(p))
    BY <1>2
<1>4. /\ p \in Paths /\ DOMAIN s \subseteq Paths /\ p \notin DOMAIN s
      /\ \A q \in DOMAIN s : ~IsPrefix(p, q)
    BY NothingUnder DEF Exists, IsTree
<1>5. Ran(P.calls, 1, s) = s /\ Ran(P.calls, 2, s) = T /\ Ran(P.calls, 3, s) = T
    <2>1. Effect(s, Create(p)) = T /\ Effect(T, Close(p)) = T
        BY WriteMeans DEF T
    <2> QED
        BY <2>1, <1>3, RanMeans
<1>6. Holds(s, s) /\ Holds(T, s)
    BY <1>4, HoldsMore DEF T
<1>7. Contents(T)
    BY <1>6, HoldsContents
<1>8. \A r \in Residues(s, P.calls[1]) : Mends(P.fix[1], r, s, m, op)
    <2>1. Residues(s, Create(p)) = {s} /\ Spares(<<>>, s)
        BY WriteMeans DEF Spares
    <2> HIDE DEF Residues, Spares, Holds
    <2> QED
        BY <2>1, <1>3, <1>6 DEF Mends
<1>9. \A r \in Residues(T, P.calls[2]) : Mends(P.fix[2], r, s, m, op)
    <2>1. Residues(T, Close(p)) = {T} /\ Spares(<<Unlink(p)>>, s)
        BY <1>4, WriteMeans, SparesMeans
    <2> HIDE DEF Residues, Spares, Holds
    <2> QED
        BY <2>1, <1>3, <1>6 DEF Mends
<1>10. UserMoves(P.undo, op.kind = "rename")
    BY <1>3 DEF UserMoves, Loud, Unlink
<1>11. Midway(P.undo, T)
    BY <1>3 DEF Midway
<1>12. 2 + 1 = 3 /\ (\A i \in 1 .. 2 : i = 1 \/ i = 2) /\ (\A i \in 1 .. 3 : i = 1 \/ i = 2 \/ i = 3)
    OBVIOUS
<1> QED
    BY <1>3, <1>5, <1>7, <1>8, <1>9, <1>10, <1>11, <1>12 DEF Saves

\* Creating a file over another.
LEMMA CreateOverSaves ==
    ASSUME NEW s, IsTree(s), Contents(s), NEW m \in Nat, Fresh(s, m),
           NEW op, op.kind = "create", op.path \in Paths, IsUserPath(op.path),
           Exists(s, op.path), NEW P, P = CommitCreate(s, op, m), P.run = "calls"
    PROVE  Saves(P, s, m, op)
<1> DEFINE p == op.path
           b == BackupOf(p, m)
           M == Moved(s, p, b)
           T == With(M, p, Empty)
<1> HIDE DEF IsPrefix, b, M, T
<1>1. P = Program(<<Reserve(b), Move(p, b), Write(p, Empty)>>, <<<<>>, <<>>, <<Move(b, p)>>>>,
                  <<Quiet(Unlink(p)), Loud(Move(b, p))>>, <<Unlink(b)>>)
    BY DEF CommitCreate, Refuse, Skip, b
<1>2. /\ P.calls = <<Reserve(b), Move(p, b), Write(p, Empty)>>
      /\ P.fix = <<<<>>, <<>>, <<Move(b, p)>>>>
      /\ P.undo = <<Quiet(Unlink(p)), Loud(Move(b, p))>>
    BY <1>1, ProgramMeans
<1>3. /\ Len(P.calls) = 3 /\ P.calls[1] = Reserve(b) /\ P.calls[2] = Move(p, b)
      /\ P.calls[3] = Write(p, Empty)
      /\ P.fix[1] = <<>> /\ P.fix[2] = <<>> /\ P.fix[3] = <<Move(b, p)>>
      /\ Len(P.undo) = 2 /\ P.undo[1] = Quiet(Unlink(p)) /\ P.undo[2] = Loud(Move(b, p))
    BY <1>2
<1>4. p \in DOMAIN s
    BY DEF Exists
<1>5. /\ Contents(M) /\ Contents(T) /\ Effect(T, Unlink(p)) = M
      /\ \A r \in Residues(s, Reserve(b)) : Mends(<<>>, r, s, m, op)
      /\ \A r \in Residues(s, Move(p, b)) : Mends(<<>>, r, s, m, op)
      /\ Mends(<<Move(b, p)>>, M, s, m, op)
      /\ Mends(<<Move(b, p)>>, With(M, p, Partial), s, m, op)
    BY <1>4, AsideSaves DEF b, M, T
<1>6. Ran(P.calls, 1, s) = s /\ Ran(P.calls, 2, s) = s /\ Ran(P.calls, 3, s) = M /\ Ran(P.calls, 4, s) = T
    <2>1. Effect(s, Reserve(b)) = s
        BY WriteMeans
    <2>2. Effect(s, Move(p, b)) = M
        BY <1>4, Aside DEF b, M
    <2>3. Effect(M, Write(p, Empty)) = T
        BY WriteMeans DEF T
    <2> QED
        BY <2>1, <2>2, <2>3, <1>3, RanMeans
<1>7. \A r \in Residues(M, Write(p, Empty)) : Mends(<<Move(b, p)>>, r, s, m, op)
    <2>1. \A r \in Residues(M, Write(p, Empty)) : r = M \/ r = With(M, p, Partial)
        BY WriteMeans
    <2> QED
        BY <2>1, <1>5
<1>8. UserMoves(P.undo, op.kind = "rename")
    <2>1. ~IsUserPath(b)
        BY <1>4, BackupIsHidden DEF b
    <2>2. \A i \in 1 .. 2 : i = 1 \/ i = 2
        OBVIOUS
    <2>3. Move(b, p).at = b /\ Unlink(p).do = "remove"
        BY DEF Move, Unlink
    <2>4. P.undo[1].call = Unlink(p) /\ P.undo[2].call = Move(b, p)
        BY <1>3 DEF Quiet, Loud
    <2> QED
        BY <2>1, <2>2, <2>3, <2>4, <1>3 DEF UserMoves
<1>9. Midway(P.undo, T)
    BY <1>3, <1>5 DEF Midway, Quiet
<1>10. /\ 3 + 1 = 4 /\ \A i \in 1 .. 3 : i = 1 \/ i = 2 \/ i = 3
       /\ \A i \in 1 .. 4 : i = 1 \/ i = 2 \/ i = 3 \/ i = 4
    OBVIOUS
<1> HIDE DEF Mends, Contents, Residues, Effect
<1> QED
    BY <1>3, <1>5, <1>6, <1>7, <1>8, <1>9, <1>10 DEF Saves

\* Editing a file.
LEMMA TextEditSaves ==
    ASSUME NEW s, IsTree(s), Contents(s), NEW m \in Nat, Fresh(s, m), m \in DOMAIN batch,
           NEW op, op = batch[m], op.kind = "edit", op.path \in Paths, IsUserPath(op.path),
           NEW P, P = CommitTextEdit(s, op, m), P.run = "calls"
    PROVE  Saves(P, s, m, op)
<1> DEFINE p == op.path
           b == BackupOf(p, m)
           x == TempOf(p, m)
           c == Edited(s[p])
           M == Moved(s, p, b)
           X == With(s, x, c)
           Y == With(M, x, c)
           T == With(M, p, c)
<1> HIDE DEF IsPrefix, Rebase, b, x, c, M, X, Y, T
<1>1. /\ P = Program(<<Write(x, c), Reserve(b), Move(p, b), Move(x, p)>>,
                     <<<<UnlinkAll(x)>>, <<Unlink(x)>>, <<Unlink(x)>>,
                       <<Move(b, p), Unlink(x)>>>>,
                     <<Quiet(Unlink(p)), Loud(Move(b, p))>>, <<Unlink(b)>>)
      /\ p \in DOMAIN s
    BY DEF CommitTextEdit, Refuse, b, x, c, Exists
<1>2. /\ P.calls = <<Write(x, c), Reserve(b), Move(p, b), Move(x, p)>>
      /\ P.fix = <<<<UnlinkAll(x)>>, <<Unlink(x)>>, <<Unlink(x)>>, <<Move(b, p), Unlink(x)>>>>
      /\ P.undo = <<Quiet(Unlink(p)), Loud(Move(b, p))>>
    BY <1>1, ProgramMeans
<1>3. /\ Len(P.calls) = 4 /\ P.calls[1] = Write(x, c) /\ P.calls[2] = Reserve(b)
      /\ P.calls[3] = Move(p, b) /\ P.calls[4] = Move(x, p)
      /\ P.fix[1] = <<UnlinkAll(x)>> /\ P.fix[2] = <<Unlink(x)>> /\ P.fix[3] = <<Unlink(x)>>
      /\ P.fix[4] = <<Move(b, p), Unlink(x)>>
      /\ Len(P.undo) = 2 /\ P.undo[1] = Quiet(Unlink(p)) /\ P.undo[2] = Loud(Move(b, p))
    BY <1>2
<1>4. /\ IsTree(M) /\ DOMAIN M \subseteq Paths /\ Contents(M) /\ Contents(T)
      /\ p \in Paths /\ DOMAIN s \subseteq Paths
    <2>1. DOMAIN s \subseteq Paths
        BY DEF IsTree
    <2> HIDE DEF IsTree, Contents, Effect, Fresh, Mends, Residues
    <2>2. p \in DOMAIN s
        BY <1>1
    <2>3. /\ IsTree(M) /\ DOMAIN M \subseteq Paths /\ Contents(M)
          /\ Contents(T)
        BY <2>2, AsideSaves DEF b, M, T
    <2> QED
        BY <2>1, <2>3
<1>5. /\ b \in Paths /\ ~IsPrefix(b, p) /\ ~IsPrefix(p, b)
      /\ \A q \in DOMAIN M : ~IsPrefix(p, q)
    BY <1>1, Aside DEF b, M
<1>6. /\ x \in Paths /\ ~IsPrefix(x, p) /\ ~IsPrefix(p, x) /\ Hits(x, Own(m)) /\ Hits(b, Own(m))
    <2>1. m <= m
        OBVIOUS
    <2> QED
        BY <2>1, <1>4, OwnPath DEF b, x
<1>7. ~IsPrefix(b, x) /\ ~IsPrefix(x, b)
    BY <1>4, BackupAndTemp DEF b, x
<1>8. \A q \in DOMAIN s : ~IsPrefix(x, q) /\ ~IsPrefix(b, q)
    BY <1>4, <1>5, <1>6, FreshMeans
<1>9. \A q \in DOMAIN M : ~IsPrefix(x, q)
    <2>1. \A q : q \in DOMAIN M <=>
             \/ q \in DOMAIN s /\ ~IsPrefix(p, q) /\ ~IsPrefix(b, q)
             \/ \E r \in DOMAIN s : IsPrefix(p, r) /\ q = Rebase(r, p, b)
        BY <1>4, <1>5, MovedMeans DEF M
    <2>2. \A r \in DOMAIN s : IsPrefix(p, r) =>
              Rebase(r, p, b) \in Paths /\ IsPrefix(b, Rebase(r, p, b))
        BY <1>4, <1>5, RebasePath
    <2> QED
        BY <2>1, <2>2, <1>4, <1>5, <1>6, <1>7, <1>8, PrefixOrder
<1>10. x \notin DOMAIN s /\ x \notin DOMAIN M /\ b \notin DOMAIN s /\ b # x
    BY <1>5, <1>6, <1>7, <1>8, <1>9, PrefixOrder
<1>11. /\ Holds(s, s) /\ Holds(X, s) /\ Holds(With(s, x, Partial), s) /\ Holds(With(X, b, Empty), s)
       /\ Holds(Y, M)
    BY <1>4, <1>5, <1>6, <1>10, HoldsMore DEF X, Y
<1>12. Contents(X) /\ Contents(Y)
    BY <1>4, <1>11, HoldsContents
<1>13. /\ Ran(P.calls, 1, s) = s /\ Ran(P.calls, 2, s) = X /\ Ran(P.calls, 3, s) = X
       /\ Ran(P.calls, 4, s) = Y /\ Ran(P.calls, 5, s) = T
    <2>1. Effect(s, Write(x, c)) = X
        BY WriteMeans DEF X
    <2>2. Effect(X, Reserve(b)) = X
        BY WriteMeans
    <2>3. Effect(X, Move(p, b)) = Y
        <3>1. Effect(X, Move(p, b)) = Moved(X, p, b)
            BY <1>5, RenameMeans, PrefixOrder, <1>4
        <3> QED
            BY <3>1, <1>4, <1>5, <1>6, <1>7, MovedBeside DEF X, Y, M
    <2>4. Ran(P.calls, 5, s) = T
        <3> HIDE DEF CommitTextEdit, Applies, Fails
        <3>1. Ran(P.calls, 5, s) =
                  With(Moved(s, op.path, BackupOf(op.path, m)), op.path, Edited(s[op.path]))
            BY TextEdit
        <3> QED
            BY <3>1 DEF T, M, b, c
    <2> QED
        BY <2>1, <2>2, <2>3, <2>4, <1>3, RanMeans
<1>14. /\ Spares(<<UnlinkAll(x)>>, s) /\ Spares(<<Unlink(x)>>, s) /\ Spares(<<Unlink(x)>>, M)
    BY <1>6, <1>8, <1>9, SparesMeans
<1>15. \A r \in Residues(s, Write(x, c)) : Mends(<<UnlinkAll(x)>>, r, s, m, op)
    <2>1. \A r \in Residues(s, Write(x, c)) : r = s \/ r = With(s, x, Partial)
        BY WriteMeans
    <2> HIDE DEF Residues, Spares, Holds
    <2> QED
        BY <2>1, <1>11, <1>14 DEF Mends
<1>16. \A r \in Residues(X, Reserve(b)) : Mends(<<Unlink(x)>>, r, s, m, op)
    <2>1. \A r \in Residues(X, Reserve(b)) : r = X \/ r = With(X, b, Empty)
        BY WriteMeans
    <2> HIDE DEF Residues, Spares, Holds
    <2> QED
        BY <2>1, <1>11, <1>14 DEF Mends
<1>17. \A r \in Residues(X, Move(p, b)) : Mends(<<Unlink(x)>>, r, s, m, op)
    <2>1. Residues(X, Move(p, b)) = {X}
        BY RenameMeans
    <2> HIDE DEF Residues, Spares, Holds
    <2> QED
        BY <2>1, <1>11, <1>14 DEF Mends
<1>18. \A r \in Residues(Y, Move(x, p)) : Mends(<<Move(b, p), Unlink(x)>>, r, s, m, op)
    <2> DEFINE f == <<Move(b, p), Unlink(x)>>
    <2>1. Residues(Y, Move(x, p)) = {Y}
        BY RenameMeans
    <2>2. f # <<>> /\ Head(f) = Move(b, p) /\ Tail(f) = <<Unlink(x)>>
        OBVIOUS
    <2>3. \A q \in DOMAIN Y : ~IsPrefix(p, q)
        <3>1. \A q \in DOMAIN Y : q \in DOMAIN M \/ q = x
            BY WithMeans DEF Y
        <3> QED
            BY <3>1, <1>5, <1>6
    <2> HIDE DEF f, Residues, Spares, Holds
    <2>4. Mends(f, Y, s, m, op)
        BY <2>2, <2>3, <1>1, <1>11, <1>14 DEF Mends, M, b
    <2> QED
        BY <2>1, <2>4 DEF f
<1>19. UserMoves(P.undo, op.kind = "rename")
    <2>1. ~IsUserPath(b)
        BY <1>4, BackupIsHidden DEF b
    <2>2. \A i \in 1 .. 2 : i = 1 \/ i = 2
        OBVIOUS
    <2>3. Move(b, p).at = b /\ Unlink(p).do = "remove"
        BY DEF Move, Unlink
    <2>4. P.undo[1].call = Unlink(p) /\ P.undo[2].call = Move(b, p)
        BY <1>3 DEF Quiet, Loud
    <2> QED
        BY <2>1, <2>2, <2>3, <2>4, <1>3 DEF UserMoves
<1>20. Midway(P.undo, T)
    <2>1. M = [q \in DOMAIN M |-> M[q]]
        BY <1>4, TreeMeans
    <2>2. Effect(T, Unlink(p)) = M
        BY <2>1, <1>4, <1>5, WithoutWith, RemoveMeans DEF T
    <2> QED
        BY <2>2, <1>3, <1>4 DEF Midway, Quiet
<1>21. /\ 4 + 1 = 5 /\ \A i \in 1 .. 4 : i = 1 \/ i = 2 \/ i = 3 \/ i = 4
       /\ \A i \in 1 .. 5 : i = 1 \/ i = 2 \/ i = 3 \/ i = 4 \/ i = 5
    OBVIOUS
<1> HIDE DEF Mends, Contents, Residues, Effect
<1> QED
    BY <1>3, <1>4, <1>12, <1>13, <1>15, <1>16, <1>17, <1>18, <1>19, <1>20, <1>21 DEF Saves

\* Renaming to a name nothing has.
LEMMA RenameNewSaves ==
    ASSUME NEW s, IsTree(s), Contents(s), NEW m \in Nat, Fresh(s, m),
           NEW op, op.kind = "rename", op.path \in Paths, IsUserPath(op.path),
           op.newPath \in Paths, IsUserPath(op.newPath), ~Exists(s, op.newPath),
           NEW P, P = CommitRename(s, op, m), P.run = "calls"
    PROVE  Saves(P, s, m, op)
<1> DEFINE p == op.path
           q == op.newPath
           T == Moved(s, p, q)
<1> HIDE DEF IsPrefix, T
<1>1. P = Program(<<Move(p, q)>>, <<<<>>>>, <<Loud(Move(q, p))>>, <<>>)
    BY DEF CommitRename, Refuse, Exists
<1>2. /\ P.calls = <<Move(p, q)>> /\ P.fix = <<<<>>>> /\ P.undo = <<Loud(Move(q, p))>>
    BY <1>1, ProgramMeans
<1>3. /\ Len(P.calls) = 1 /\ P.calls[1] = Move(p, q) /\ P.fix[1] = <<>>
      /\ Len(P.undo) = 1
    BY <1>2
<1>4. /\ DOMAIN s \subseteq Paths /\ \A r \in DOMAIN s : ~IsPrefix(q, r)
    BY NothingUnder DEF Exists, IsTree
<1>5. Contents(T)
    BY <1>4, MovedContents DEF T
<1>6. Ran(P.calls, 1, s) = s /\ (Ready(P.calls, 2, s) => Ran(P.calls, 2, s) = T)
    <2> HIDE DEF CommitRename, Exists, Applies, Fails
    <2> QED
        BY RanMeans, RenameNew DEF T
<1>7. \A r \in Residues(s, Move(p, q)) : Mends(<<>>, r, s, m, op)
    <2>1. Residues(s, Move(p, q)) = {s} /\ Holds(s, s) /\ Spares(<<>>, s)
        BY <1>4, RenameMeans, HoldsMore DEF Spares
    <2> HIDE DEF Residues, Spares, Holds
    <2> QED
        BY <2>1 DEF Mends
<1>8. UserMoves(P.undo, op.kind = "rename")
    BY DEF UserMoves
<1>9. \A t : Midway(P.undo, t)
    <2>1. Len(P.undo) # 2
        BY <1>3
    <2> QED
        BY <2>1 DEF Midway
<1>10. 1 + 1 = 2 /\ (\A i \in 1 .. 1 : i = 1) /\ (\A i \in 1 .. 2 : i = 1 \/ i = 2)
    OBVIOUS
<1> HIDE DEF Mends, Contents, Residues, Effect
<1> QED
    BY <1>3, <1>5, <1>6, <1>7, <1>8, <1>9, <1>10 DEF Saves

\* Renaming over a file or directory.
LEMMA RenameOverSaves ==
    ASSUME NEW s, IsTree(s), Contents(s), NEW m \in Nat, Fresh(s, m),
           NEW op, op.kind = "rename", op.path \in Paths, IsUserPath(op.path),
           op.newPath \in Paths, IsUserPath(op.newPath), Exists(s, op.newPath),
           NEW P, P = CommitRename(s, op, m), P.run = "calls"
    PROVE  Saves(P, s, m, op)
<1> DEFINE p == op.path
           q == op.newPath
           b == BackupOf(q, m)
           M == Moved(s, q, b)
           T == Moved(M, p, q)
<1> HIDE DEF IsPrefix, b, M, T
<1>1. P = Program(<<Reserve(b), Move(q, b), Move(p, q)>>, <<<<>>, <<>>, <<Move(b, q)>>>>,
                  <<Loud(Move(q, p)), Loud(Move(b, q))>>, <<UnlinkAll(b)>>)
    BY DEF CommitRename, Refuse, Skip, Exists, b
<1>2. /\ P.calls = <<Reserve(b), Move(q, b), Move(p, q)>> /\ P.fix = <<<<>>, <<>>, <<Move(b, q)>>>>
      /\ P.undo = <<Loud(Move(q, p)), Loud(Move(b, q))>>
    BY <1>1, ProgramMeans
<1>3. /\ Len(P.calls) = 3 /\ P.calls[1] = Reserve(b) /\ P.calls[2] = Move(q, b)
      /\ P.calls[3] = Move(p, q) /\ P.fix[1] = <<>> /\ P.fix[2] = <<>> /\ P.fix[3] = <<Move(b, q)>>
      /\ P.undo[1] = Loud(Move(q, p))
    BY <1>2
<1>4. q \in DOMAIN s
    BY DEF Exists
<1>5. /\ IsTree(M) /\ DOMAIN M \subseteq Paths /\ Contents(M)
      /\ \A r \in Residues(s, Reserve(b)) : Mends(<<>>, r, s, m, op)
      /\ \A r \in Residues(s, Move(q, b)) : Mends(<<>>, r, s, m, op)
      /\ Mends(<<Move(b, q)>>, M, s, m, op)
    BY <1>4, AsideSaves DEF b, M
<1>6. \A r \in DOMAIN M : ~IsPrefix(q, r)
    BY <1>4, Aside DEF b, M
<1>7. q \notin DOMAIN M
    BY <1>6, PrefixOrder
<1>8. Contents(T)
    BY <1>5, <1>6, MovedContents DEF T
<1>9. Ran(P.calls, 1, s) = s /\ Ran(P.calls, 2, s) = s /\ Ran(P.calls, 3, s) = M
    <2>1. Effect(s, Reserve(b)) = s
        BY WriteMeans
    <2>2. Effect(s, Move(q, b)) = M
        BY <1>4, Aside DEF b, M
    <2> QED
        BY <2>1, <2>2, <1>3, RanMeans
<1>10. Ready(P.calls, 4, s) => Possible(M, Move(p, q)) /\ Ran(P.calls, 4, s) = T
    <2> HIDE DEF CommitRename, Exists, Applies, Fails, Possible
    <2> QED
        BY RenameOver DEF b, M, T
<1>11. Ready(P.calls, 4, s) => Effect(T, Move(q, p)) = M
    BY <1>5, <1>7, <1>10, MoveThere DEF T
<1>12. \A r \in Residues(M, Move(p, q)) : Mends(<<Move(b, q)>>, r, s, m, op)
    BY <1>5, RenameMeans
<1>13. UserMoves(P.undo, op.kind = "rename")
    BY DEF UserMoves
<1>14. Ready(P.calls, 4, s) => Midway(P.undo, T)
    BY <1>3, <1>5, <1>11 DEF Midway, Loud
<1>15. /\ 3 + 1 = 4 /\ \A i \in 1 .. 3 : i = 1 \/ i = 2 \/ i = 3
       /\ \A i \in 1 .. 4 : i = 1 \/ i = 2 \/ i = 3 \/ i = 4
    OBVIOUS
<1> HIDE DEF Mends, Contents, Residues, Effect
<1> QED
    BY <1>3, <1>5, <1>8, <1>9, <1>10, <1>12, <1>13, <1>14, <1>15 DEF Saves

\* Deleting a file or directory.
LEMMA DeleteSaves ==
    ASSUME NEW s, IsTree(s), Contents(s), NEW m \in Nat, Fresh(s, m),
           NEW op, op.kind = "delete", op.path \in Paths, IsUserPath(op.path),
           NEW P, P = CommitDelete(s, op, m), P.run = "calls"
    PROVE  Saves(P, s, m, op)
<1> DEFINE p == op.path
           b == BackupOf(p, m)
           M == Moved(s, p, b)
<1> HIDE DEF IsPrefix, b, M
<1>1. /\ P = Program(<<Reserve(b), Move(p, b)>>, <<<<>>, <<>>>>,
                     <<Quiet(UnlinkAll(p)), Loud(Move(b, p))>>, <<UnlinkAll(b)>>)
      /\ p \in DOMAIN s
    BY DEF CommitDelete, Refuse, Skip, b, Exists
<1>2. /\ P.calls = <<Reserve(b), Move(p, b)>> /\ P.fix = <<<<>>, <<>>>>
      /\ P.undo = <<Quiet(UnlinkAll(p)), Loud(Move(b, p))>>
    BY <1>1, ProgramMeans
<1>3. /\ Len(P.calls) = 2 /\ P.calls[1] = Reserve(b) /\ P.calls[2] = Move(p, b)
      /\ P.fix[1] = <<>> /\ P.fix[2] = <<>>
      /\ Len(P.undo) = 2 /\ P.undo[1] = Quiet(UnlinkAll(p)) /\ P.undo[2] = Loud(Move(b, p))
    BY <1>2
<1>4. /\ Contents(M) /\ Contents(Effect(M, UnlinkAll(p)))
      /\ \A r \in Residues(s, Reserve(b)) : Mends(<<>>, r, s, m, op)
      /\ \A r \in Residues(s, Move(p, b)) : Mends(<<>>, r, s, m, op)
    BY <1>1, AsideSaves DEF b, M
<1>5. Ran(P.calls, 1, s) = s /\ Ran(P.calls, 2, s) = s /\ Ran(P.calls, 3, s) = M
    <2>1. Effect(s, Reserve(b)) = s
        BY WriteMeans
    <2>2. Effect(s, Move(p, b)) = M
        BY <1>1, Aside DEF b, M
    <2> QED
        BY <2>1, <2>2, <1>3, RanMeans
<1>6. UserMoves(P.undo, op.kind = "rename")
    <2>1. ~IsUserPath(b)
        BY BackupIsHidden DEF b
    <2>2. \A i \in 1 .. 2 : i = 1 \/ i = 2
        OBVIOUS
    <2>3. Move(b, p).at = b /\ UnlinkAll(p).do = "removeAll"
        BY DEF Move, UnlinkAll
    <2>4. P.undo[1].call = UnlinkAll(p) /\ P.undo[2].call = Move(b, p)
        BY <1>3 DEF Quiet, Loud
    <2> QED
        BY <2>1, <2>2, <2>3, <2>4, <1>3 DEF UserMoves
<1>7. Midway(P.undo, M)
    BY <1>3, <1>4 DEF Midway, Quiet
<1>8. 2 + 1 = 3 /\ (\A i \in 1 .. 2 : i = 1 \/ i = 2) /\ (\A i \in 1 .. 3 : i = 1 \/ i = 2 \/ i = 3)
    OBVIOUS
<1> HIDE DEF Mends, Contents, Residues, Effect
<1> QED
    BY <1>3, <1>4, <1>5, <1>6, <1>7, <1>8 DEF Saves

\* The program of every operation keeps the contents.
LEMMA EachSaves ==
    ASSUME batch \in Batches, NEW m \in 1 .. Len(batch), NEW s, IsTree(s), Fresh(s, m), Contents(s),
           NEW P, P = ProgramOf(s, m), P.run = "calls"
    PROVE  Saves(P, s, m, batch[m])
<1> DEFINE op == batch[m]
<1> HIDE DEF op, Saves, Contents
<1>1. /\ m \in Nat /\ m \in DOMAIN batch /\ op.kind \in {"create", "edit", "rename", "delete"}
      /\ op.path \in Paths /\ IsUserPath(op.path)
      /\ op.kind = "rename" => op.newPath \in Paths /\ IsUserPath(op.newPath)
    BY OpMeans DEF op
<1>2. P = CASE op.kind = "create" -> CommitCreate(s, op, m)
            [] op.kind = "edit" -> CommitTextEdit(s, op, m)
            [] op.kind = "rename" -> CommitRename(s, op, m)
            [] op.kind = "delete" -> CommitDelete(s, op, m)
    BY DEF ProgramOf, op
<1> HIDE DEF CommitCreate, CommitTextEdit, CommitRename, CommitDelete, Exists
<1>3. CASE op.kind = "create"
    BY <1>1, <1>2, <1>3, CreateNewSaves, CreateOverSaves DEF op
<1>4. CASE op.kind = "edit"
    BY <1>1, <1>2, <1>4, TextEditSaves DEF op
<1>5. CASE op.kind = "rename"
    BY <1>1, <1>2, <1>5, RenameNewSaves, RenameOverSaves DEF op
<1>6. CASE op.kind = "delete"
    BY <1>1, <1>2, <1>6, DeleteSaves DEF op
<1> QED
    BY <1>1, <1>3, <1>4, <1>5, <1>6

(* ----------------------- the contents and the journal -------------------- *)

\* One of the operations before the k-th renames.
Renamed(ops, k) == \E h \in 1 .. k - 1 : ops[h].kind = "rename"

\* The trees between the entries of the journal, and those in the middle of an
\* entry's undo, have every content.
Retained(H, jl, moved) ==
    /\ \A i \in 1 .. Len(jl) + 1 : Contents(H[i])
    /\ \A e \in 1 .. Len(jl) : Midway(jl[e].undo, H[e + 1]) /\ UserMoves(jl[e].undo, moved)

\* The operations before k lead from Start to s along such trees, whatever
\* they replaced.
Traced(s, k, ops, jl) ==
    /\ IsTree(s) /\ Fresh(s, k) /\ Contents(s)
    /\ \E H : Chain(H, jl, k) /\ H[Len(jl) + 1] = s /\ Retained(H, jl, Renamed(ops, k))

\* The tree t is being undone: it holds, at the paths f gives, all of a tree e
\* from which u and then the journal jl lead back to Start.
Retracing(H, jl, u, e, f, t, k, moved) ==
    /\ Chain(H, jl, k) /\ Retained(H, jl, moved)
    /\ Undoes(u, e, H[Len(jl) + 1], Own(k))
    /\ Contents(e) /\ Midway(u, e) /\ UserMoves(u, moved)
    /\ Carried(f, t, e, Own(k), moved)

\* Start has its own contents.
LEMMA TracedFirst ==
    ASSUME NEW ops
    PROVE  Traced(Start, 1, ops, <<>>)
<1> DEFINE H == [i \in {1} |-> Start]
<1>1. Len(<<>>) = 0 /\ 0 + 1 = 1 /\ 1 .. 0 = {} /\ 1 .. 1 = {1}
    OBVIOUS
<1>2. H[1] = Start /\ Contents(Start)
    BY DEF Contents
<1> HIDE DEF H, Contents
<1>3. Chain(H, <<>>, 1) /\ H[Len(<<>>) + 1] = Start
    BY <1>1, <1>2 DEF Chain
<1>4. Retained(H, <<>>, Renamed(ops, 1))
    BY <1>1, <1>2 DEF Retained
<1> QED
    BY <1>2, <1>3, <1>4, StartMeans DEF Traced

\* What holds of the journal before an operation holds of it later.
LEMMA RetainedLater ==
    ASSUME NEW ops, NEW k \in Nat, NEW H, NEW jl, Retained(H, jl, Renamed(ops, k))
    PROVE  Retained(H, jl, Renamed(ops, k + 1))
<1>1. Renamed(ops, k) => Renamed(ops, k + 1)
    <2>1. \A h \in 1 .. k - 1 : h \in 1 .. (k + 1) - 1
        OBVIOUS
    <2> QED
        BY <2>1 DEF Renamed
<1>2. \A u : UserMoves(u, Renamed(ops, k)) => UserMoves(u, Renamed(ops, k + 1))
    BY <1>1 DEF UserMoves
<1> QED
    BY <1>2 DEF Retained

\* An operation that is skipped changes no content.
LEMMA TracedSkip ==
    ASSUME NEW ops, NEW k \in Nat, NEW s, NEW jl, Traced(s, k, ops, jl)
    PROVE  Traced(s, k + 1, ops, jl)
<1>1. PICK H : Chain(H, jl, k) /\ H[Len(jl) + 1] = s /\ Retained(H, jl, Renamed(ops, k))
    BY DEF Traced
<1>2. Chain(H, jl, k + 1) /\ Retained(H, jl, Renamed(ops, k + 1))
    BY <1>1, ChainLater, RetainedLater
<1>3. Fresh(s, k + 1)
    BY FreshMeans DEF Traced, IsTree
<1> QED
    BY <1>1, <1>2, <1>3 DEF Traced

\* An operation that is applied adds its tree to those the journal leads through.
LEMMA TracedNext ==
    ASSUME NEW ops, NEW k \in Nat \ {0}, NEW s, NEW S, NEW jl \in Seq(S), Traced(s, k, ops, jl),
           NEW P, NEW t, Applies(P, t, s, ops[k], k), Contents(t), Midway(P.undo, t),
           UserMoves(P.undo, ops[k].kind = "rename")
    PROVE  Traced(t, k + 1, ops, Append(jl, [undo |-> P.undo, finalize |-> P.finalize]))
<1> DEFINE x == [undo |-> P.undo, finalize |-> P.finalize]
           L == Len(jl)
           jn == Append(jl, x)
           moved == Renamed(ops, k + 1)
<1>1. PICK H : Chain(H, jl, k) /\ H[L + 1] = s /\ Retained(H, jl, Renamed(ops, k))
    BY DEF Traced
<1> DEFINE G == [i \in Nat |-> IF i = L + 2 THEN t ELSE H[i]]
<1>2. x.undo = P.undo
    OBVIOUS
<1> HIDE DEF x
<1>3. /\ L \in Nat /\ Len(jn) = L + 1 /\ jn[L + 1] = x
      /\ \A e \in 1 .. L : jn[e] = jl[e]
    OBVIOUS
<1>4. G[1] = H[1] /\ G[L + 2] = t /\ G[L + 1] = s /\ \A e \in 1 .. L : G[e] = H[e] /\ G[e + 1] = H[e + 1]
    BY <1>1, <1>3
<1>5. (L + 1) + 1 = L + 2 /\ \A e \in 1 .. L + 1 : e \in 1 .. L \/ e = L + 1
    BY <1>3
<1> HIDE DEF G, jn, L, moved
<1>6. Chain(H, jl, k + 1) /\ Retained(H, jl, moved)
    BY <1>1, ChainLater, RetainedLater DEF moved
<1>7. Chain(G, jn, k + 1)
    <2>1. ASSUME NEW e \in 1 .. L
          PROVE  Undoes(jn[e].undo, G[e + 1], G[e], Own(k + 1)) /\ Goes(jn[e].undo, G[e + 1])
        BY <1>3, <1>4, <1>6 DEF Chain, L
    <2>2. Undoes(jn[L + 1].undo, G[(L + 1) + 1], G[L + 1], Own(k + 1)) /\ Goes(jn[L + 1].undo, G[(L + 1) + 1])
        BY <1>2, <1>3, <1>4, <1>5 DEF Applies
    <2>3. G[1] = Start
        BY <1>1, <1>4 DEF Chain
    <2> QED
        BY <2>1, <2>2, <2>3, <1>3, <1>5 DEF Chain
<1>8. UserMoves(P.undo, moved)
    <2>1. k \in 1 .. (k + 1) - 1
        OBVIOUS
    <2>2. ops[k].kind = "rename" => moved
        BY <2>1 DEF moved, Renamed
    <2> QED
        BY <2>2 DEF UserMoves
<1>9. Retained(G, jn, moved)
    <2>1. \A i \in 1 .. L + 2 : i = L + 2 \/ i = L + 1 \/ i \in 1 .. L
        BY <1>3
    <2>2. \A i \in 1 .. L + 2 : Contents(G[i])
        <3>1. Contents(s) /\ \A e \in 1 .. L : Contents(H[e])
            <4>1. \A e \in 1 .. L : e \in 1 .. L + 1
                BY <1>3
            <4> QED
                BY <4>1, <1>6 DEF Traced, Retained, L
        <3> QED
            BY <3>1, <2>1, <1>4
    <2>3. ASSUME NEW e \in 1 .. L
          PROVE  Midway(jn[e].undo, G[e + 1]) /\ UserMoves(jn[e].undo, moved)
        BY <1>3, <1>4, <1>6 DEF Retained, L
    <2>4. Midway(jn[L + 1].undo, G[(L + 1) + 1]) /\ UserMoves(jn[L + 1].undo, moved)
        BY <1>2, <1>3, <1>4, <1>5, <1>8
    <2> QED
        BY <2>2, <2>3, <2>4, <1>3, <1>5 DEF Retained
<1>10. G[Len(jn) + 1] = t
    BY <1>3, <1>4, <1>5
<1> QED
    BY <1>7, <1>9, <1>10 DEF Traced, Applies, jn, x, moved

\* A tree carries itself.
LEMMA CarriedSelf ==
    ASSUME NEW t, DOMAIN t \subseteq Paths, NEW C, NEW moved
    PROVE  \E f : Carried(f, t, t, C, moved)
<1> DEFINE f == [q \in Paths |-> q]
<1>1. Carried(f, t, t, C, moved)
    BY DEF Carried
<1> QED
    BY <1>1

\* A batch that stops begins to go back from the tree before the operation.
LEMMA RetraceBegins ==
    ASSUME NEW s, NEW k, NEW ops, NEW jl, Traced(s, k, ops, jl),
           NEW f, NEW t, Carried(f, t, s, Own(k), Renamed(ops, k))
    PROVE  \E H, e, g : Retracing(H, jl, <<>>, e, g, t, k, Renamed(ops, k))
<1>1. PICK H : Chain(H, jl, k) /\ H[Len(jl) + 1] = s /\ Retained(H, jl, Renamed(ops, k))
    BY DEF Traced
<1>2. Midway(<<>>, s) /\ UserMoves(<<>>, Renamed(ops, k))
    <2>1. Len(<<>>) = 0 /\ 1 .. 0 = {} /\ 0 # 2
        OBVIOUS
    <2> QED
        BY <2>1 DEF Midway, UserMoves
<1>3. Retracing(H, jl, <<>>, s, f, t, k, Renamed(ops, k))
    BY <1>1, <1>2, UndoesNothing DEF Retracing, Traced
<1> QED
    BY <1>3

\* With an entry undone, its tree is where the undo of the one before starts.
LEMMA RetraceTurns ==
    ASSUME NEW S, NEW jl \in Seq(S), jl # <<>>, NEW H, NEW e, NEW f, NEW t, NEW k, NEW moved,
           Retracing(H, jl, <<>>, e, f, t, k, moved)
    PROVE  Retracing(H, Front(jl), Last(jl).undo, e, f, t, k, moved)
<1> DEFINE L == Len(jl)
           u == Last(jl).undo
           F == Front(jl)
<1>1. L \in Nat /\ L >= 1 /\ L \in 1 .. L /\ (L - 1) + 1 = L
    OBVIOUS
<1>2. Last(jl) = jl[L]
    BY DEF Last
<1>3. Len(F) = L - 1 /\ \A d \in 1 .. L - 1 : F[d] = jl[d] /\ d \in 1 .. L
    BY FrontMeans
<1> HIDE DEF L, F
<1>4. e = H[L + 1]
    BY UndoesNothing DEF Retracing, L
<1>5. Undoes(u, e, H[L], Own(k)) /\ Midway(u, e) /\ UserMoves(u, moved)
    BY <1>1, <1>2, <1>4 DEF Retracing, Chain, Retained, L
<1>6. Chain(H, F, k)
    BY <1>3 DEF Retracing, Chain, L
<1>7. Retained(H, F, moved)
    <2>1. \A i \in 1 .. L : i \in 1 .. L + 1
        BY <1>1
    <2> QED
        BY <2>1, <1>1, <1>3 DEF Retracing, Retained, L
<1> QED
    BY <1>1, <1>3, <1>5, <1>6, <1>7 DEF Retracing, F

\* An undo list has two calls at most, and its tail has the others.
LEMMA UndoTail ==
    ASSUME NEW u, u # <<>>, NEW e, NEW s, NEW C, Undoes(u, e, s, C), NEW moved, UserMoves(u, moved)
    PROVE  /\ Head(u) = u[1] /\ 1 \in 1 .. Len(u)
           /\ Len(u) = 2 \/ Tail(u) = <<>>
           /\ UserMoves(Tail(u), moved) /\ \A t : Midway(Tail(u), t)
<1>1. (\E a : u = <<a>>) \/ (\E a, d : u = <<a, d>>)
    <2> HIDE DEF Loud, Quiet, Effect, Harmless
    <2> QED
        BY DEF Undoes
<1>2. ASSUME NEW a, u = <<a>>
      PROVE  Head(u) = u[1] /\ 1 \in 1 .. Len(u) /\ Tail(u) = <<>>
    BY <1>2
<1>3. ASSUME NEW a, NEW d, u = <<a, d>>
      PROVE  /\ Head(u) = u[1] /\ 1 \in 1 .. Len(u) /\ 2 \in 1 .. Len(u) /\ Len(u) = 2
             /\ Tail(u) = <<d>> /\ u[2] = d
    BY <1>3
<1>4. UserMoves(<<>>, moved) /\ \A t : Midway(<<>>, t)
    <2>1. Len(<<>>) = 0 /\ 1 .. 0 = {} /\ 0 # 2
        OBVIOUS
    <2> QED
        BY <2>1 DEF Midway, UserMoves
<1>5. ASSUME NEW a, NEW d, u = <<a, d>> PROVE UserMoves(<<d>>, moved) /\ \A t : Midway(<<d>>, t)
    <2>1. Len(<<d>>) = 1 /\ <<d>>[1] = d /\ 1 # 2 /\ \A i \in 1 .. 1 : i = 1
        OBVIOUS
    <2> QED
        BY <2>1, <1>3, <1>5 DEF Midway, UserMoves
<1> QED
    BY <1>1, <1>2, <1>3, <1>4, <1>5

\* An undo step that succeeds keeps what is carried; so does a quiet one that
\* fails, the rest of the undo being made for that.
LEMMA RetraceStep ==
    ASSUME NEW S, NEW jl \in Seq(S), NEW H, NEW u, u # <<>>, NEW e, NEW f, NEW t, NEW k, NEW moved,
           Retracing(H, jl, u, e, f, t, k, moved), NEW c, c = Head(u).call
    PROVE  /\ Residues(t, c) = {t}
           /\ Possible(t, c) =>
                  \E d, g : Retracing(H, jl, Tail(u), d, g, Effect(t, c), k, moved)
           /\ ~Head(u).loud => Retracing(H, jl, Tail(u), e, f, t, k, moved)
<1> DEFINE s == H[Len(jl) + 1]
           d == Effect(e, c)
<1> HIDE DEF s, d, Carried, Contents
<1>1. /\ Undoes(u, e, s, Own(k)) /\ Contents(e) /\ Midway(u, e) /\ UserMoves(u, moved)
      /\ Carried(f, t, e, Own(k), moved) /\ Chain(H, jl, k) /\ Retained(H, jl, moved)
    BY DEF Retracing, s
<1>2. /\ Harmless(c, Own(k)) /\ Undoes(Tail(u), d, s, Own(k))
      /\ ~Head(u).loud => Undoes(Tail(u), e, s, Own(k))
    <2> HIDE DEF Harmless, Undoes, Goes, Effect
    <2> QED
        BY <1>1, UndoStep DEF d
<1>3. /\ Head(u) = u[1] /\ 1 \in 1 .. Len(u)
      /\ Len(u) = 2 \/ Tail(u) = <<>>
      /\ UserMoves(Tail(u), moved) /\ \A x : Midway(Tail(u), x)
    BY <1>1, UndoTail
<1>4. Residues(t, c) = {t}
    BY <1>1, <1>2, HarmlessMeans DEF Carried
<1>5. Contents(d)
    <2>1. CASE Len(u) = 2
        BY <2>1, <1>1, <1>3 DEF Midway, d
    <2>2. CASE Tail(u) = <<>>
        <3>1. d = s
            <4>1. Undoes(<<>>, d, s, Own(k))
                BY <2>2, <1>2
            <4> QED
                BY <4>1, UndoesNothing
        <3>2. Len(jl) + 1 \in 1 .. Len(jl) + 1
            <4>1. Len(jl) \in Nat
                OBVIOUS
            <4> QED
                BY <4>1
        <3> QED
            BY <3>1, <3>2, <1>1 DEF Retained, s
    <2> QED
        BY <2>1, <2>2, <1>3
<1>6. c.do = "rename" /\ IsUserPath(c.at) => moved
    BY <1>1, <1>3 DEF UserMoves
<1>7. ASSUME Possible(t, c)
      PROVE  \E x, g : Retracing(H, jl, Tail(u), x, g, Effect(t, c), k, moved)
    <2>1. PICK g : Carried(g, Effect(t, c), d, Own(k), moved)
        <3> HIDE DEF Effect, Possible
        <3> QED
            BY <1>1, <1>2, <1>6, <1>7, CarriedOn DEF d
    <2>2. Retracing(H, jl, Tail(u), d, g, Effect(t, c), k, moved)
        BY <2>1, <1>1, <1>2, <1>3, <1>5 DEF Retracing, s
    <2> QED
        BY <2>2
<1>8. ~Head(u).loud => Retracing(H, jl, Tail(u), e, f, t, k, moved)
    BY <1>1, <1>2, <1>3 DEF Retracing, s
<1> QED
    BY <1>4, <1>7, <1>8

(* ---------------------------- the contents kept -------------------------- *)

SavedInOp == phase = "op" => Traced(tree, j, batch, journal)
SavedInCall ==
    phase = "call" =>
        \E s : /\ Traced(s, j, batch, journal) /\ Saves(plan, s, j, batch[j])
               /\ Running(plan, s, j, batch)
               /\ n \in 1 .. Len(plan.calls) /\ Ready(plan.calls, n, s)
               /\ tree = Ran(plan.calls, n, s)
SavedInRepair ==
    phase = "repair" =>
        \E s : Traced(s, j, batch, journal) /\ Mends(todo, tree, s, j, batch[j])
\* No fault is counted: an undo that reports nothing has kept what it carries.
SavedInUndo ==
    phase = "undo" /\ "undo" \notin errs =>
        \E H, e, f : Retracing(H, journal, todo, e, f, tree, j, Renamed(batch, j))
SavedInDone ==
    phase = "done" /\ "op" \in errs /\ "undo" \notin errs => Contents(tree)

Saved ==
    /\ phase \in {"op", "call", "repair", "undo", "finalize", "done"}
    /\ SavedInOp /\ SavedInCall /\ SavedInRepair /\ SavedInUndo /\ SavedInDone

\* Nothing has been begun.
LEMMA SavedInit == Init => Saved
<1> SUFFICES ASSUME Init PROVE Saved
    OBVIOUS
<1>1. tree = Start /\ phase = "op" /\ j = 1 /\ journal = <<>>
    BY DEF Init
<1> QED
    BY <1>1, TracedFirst DEF Saved, SavedInOp, SavedInCall, SavedInRepair, SavedInUndo,
       SavedInDone

\* An operation is refused with nothing done, skipped, or planned as its program.
LEMMA SavedBegin ==
    ASSUME Inv, Saved, Begin
    PROVE  Saved'
<1>1. phase = "op" /\ j <= Len(batch) /\ batch' = batch /\ tree' = tree /\ journal' = journal
      /\ n' = 1
    BY DEF Begin
<1>2. /\ batch \in Batches /\ todo = <<>> /\ errs = {}
      /\ j \in 1 .. Len(batch) + 1 /\ Traced(tree, j, batch, journal)
    BY <1>1 DEF Inv, InOp, Saved, SavedInOp
<1>3. Len(batch) \in Nat
    BY <1>2, FileOpsAssumption
<1>4. j \in 1 .. Len(batch) /\ j \in Nat
    BY <1>1, <1>2, <1>3
<1> DEFINE p == ProgramOf(tree, j)
<1> HIDE DEF p
<1>5. \/ /\ p.run = "refuse"
         /\ phase' = "undo"
         /\ UNCHANGED <<j, plan, todo>>
      \/ /\ p.run = "skip"
         /\ j' = j + 1
         /\ UNCHANGED <<errs, phase, todo, plan>>
      \/ /\ p.run = "calls"
         /\ plan' = p /\ phase' = "call"
         /\ UNCHANGED <<errs, todo, j>>
    BY DEF Begin, p
<1>6. CASE p.run = "refuse" /\ phase' = "undo" /\ UNCHANGED <<j, plan, todo>>
    <2>1. DOMAIN tree \subseteq Paths
        BY <1>2 DEF Traced, IsTree
    <2>2. \E H, e, f : Retracing(H, journal, <<>>, e, f, tree, j, Renamed(batch, j))
        BY <2>1, <1>2, CarriedSelf, RetraceBegins
    <2> QED
        BY <2>2, <1>1, <1>2, <1>6 DEF Saved, SavedInOp, SavedInCall, SavedInRepair,
           SavedInUndo, SavedInDone
<1>7. CASE p.run = "skip" /\ j' = j + 1 /\ UNCHANGED <<errs, phase, todo, plan>>
    <2>1. Traced(tree, j + 1, batch, journal)
        BY <1>2, <1>4, TracedSkip
    <2> QED
        BY <2>1, <1>1, <1>7 DEF Saved, SavedInOp, SavedInCall, SavedInRepair, SavedInUndo,
           SavedInDone
<1>8. CASE p.run = "calls" /\ plan' = p /\ phase' = "call" /\ UNCHANGED <<errs, todo, j>>
    <2>1. IsTree(tree) /\ Fresh(tree, j) /\ Contents(tree)
        BY <1>2 DEF Traced
    <2>2. Running(p, tree, j, batch)
        BY <2>1, <1>2, <1>4, <1>8, EachRuns DEF Running, Final, p
    <2>3. Saves(p, tree, j, batch[j])
        BY <2>1, <1>2, <1>4, <1>8, EachSaves DEF p
    <2>4. 1 \in 1 .. Len(p.calls)
        <3>1. Len(p.calls) \in 1 .. 4
            BY <2>2 DEF Running
        <3> QED
            BY <3>1
    <2>5. Ready(p.calls, 1, tree) /\ tree = Ran(p.calls, 1, tree)
        BY RanMeans
    <2> QED
        BY <2>2, <2>3, <2>4, <2>5, <1>1, <1>2, <1>8 DEF Saved, SavedInOp, SavedInCall,
           SavedInRepair, SavedInUndo, SavedInDone
<1> QED
    BY <1>5, <1>6, <1>7, <1>8

\* A call that is not the last brings the operation one call further.
LEMMA SavedCall ==
    ASSUME Inv, Saved, Call
    PROVE  Saved'
<1>1. /\ phase = "call" /\ n < Len(plan.calls) /\ n' = n + 1
      /\ Possible(tree, plan.calls[n]) /\ tree' = Effect(tree, plan.calls[n])
      /\ UNCHANGED <<batch, phase, j, plan, todo, journal, errs>>
    BY DEF Call, Works
<1>2. PICK s : /\ Traced(s, j, batch, journal) /\ Saves(plan, s, j, batch[j])
               /\ Running(plan, s, j, batch)
               /\ n \in 1 .. Len(plan.calls) /\ Ready(plan.calls, n, s)
               /\ tree = Ran(plan.calls, n, s)
    BY <1>1 DEF Saved, SavedInCall
<1>3. n \in 1 .. 4 /\ n + 1 \in 1 .. Len(plan.calls)
    BY <1>1, <1>2 DEF Running
<1>4. Ready(plan.calls, n + 1, s) /\ tree' = Ran(plan.calls, n + 1, s)
    BY <1>1, <1>2, <1>3, RanMeans
<1> QED
    BY <1>1, <1>2, <1>3, <1>4 DEF Saved, SavedInOp, SavedInCall, SavedInRepair, SavedInUndo,
       SavedInDone

\* The last call completes the operation and appends its undo to the journal.
LEMMA SavedLastCall ==
    ASSUME Inv, Saved, LastCall
    PROVE  Saved'
<1> DEFINE x == [undo |-> plan.undo, finalize |-> plan.finalize]
<1>1. /\ phase = "call" /\ n = Len(plan.calls) /\ phase' = "op" /\ j' = j + 1
      /\ Possible(tree, plan.calls[n]) /\ tree' = Effect(tree, plan.calls[n])
      /\ journal' = Append(journal, x)
      /\ UNCHANGED <<batch, plan, n, todo, errs>>
    BY DEF LastCall, Works
<1>2. PICK s : /\ Traced(s, j, batch, journal) /\ Saves(plan, s, j, batch[j])
               /\ Running(plan, s, j, batch)
               /\ n \in 1 .. Len(plan.calls) /\ Ready(plan.calls, n, s)
               /\ tree = Ran(plan.calls, n, s)
    BY <1>1 DEF Saved, SavedInCall
<1>3. batch \in Batches /\ j \in 1 .. Len(batch)
    BY <1>1 DEF Inv, InCall
<1>4. PICK S : journal \in Seq(S)
    BY DEF Inv
<1>5. n \in 1 .. 4 /\ n + 1 \in 1 .. Len(plan.calls) + 1 /\ j \in Nat \ {0}
    BY <1>1, <1>2, <1>3 DEF Running
<1>6. Ready(plan.calls, n + 1, s) /\ tree' = Ran(plan.calls, n + 1, s)
    BY <1>1, <1>2, <1>5, RanMeans
<1>7. Applies(plan, tree', s, batch[j], j)
    BY <1>1, <1>2, <1>6 DEF Running
<1>8. /\ Contents(tree') /\ Midway(plan.undo, tree')
      /\ UserMoves(plan.undo, batch[j].kind = "rename")
    <2> HIDE DEF Contents, Midway
    <2> QED
        BY <1>1, <1>2, <1>5, <1>6 DEF Saves
<1>9. Traced(tree', j + 1, batch, journal')
    BY <1>1, <1>2, <1>4, <1>5, <1>7, <1>8, TracedNext
<1> QED
    BY <1>1, <1>9 DEF Saved, SavedInOp, SavedInCall, SavedInRepair, SavedInUndo, SavedInDone

\* A call that fails leaves what its repair can go on from.
LEMMA SavedCallFails ==
    ASSUME Inv, Saved, CallFails
    PROVE  Saved'
<1>1. /\ phase = "call" /\ tree' \in Residues(tree, plan.calls[n])
      /\ phase' = "repair" /\ todo' = plan.fix[n]
      /\ UNCHANGED <<batch, j, plan, n, journal>>
    BY DEF CallFails, Breaks
<1>2. PICK s : /\ Traced(s, j, batch, journal) /\ Saves(plan, s, j, batch[j])
               /\ n \in 1 .. Len(plan.calls) /\ Ready(plan.calls, n, s)
               /\ tree = Ran(plan.calls, n, s)
    BY <1>1 DEF Saved, SavedInCall
<1>3. Mends(todo', tree', s, j, batch[j])
    BY <1>1, <1>2 DEF Saves
<1> QED
    BY <1>1, <1>2, <1>3 DEF Saved, SavedInOp, SavedInCall, SavedInRepair, SavedInUndo,
       SavedInDone

\* So does each call of the repair, whether it works or not.
LEMMA SavedRepair ==
    ASSUME Inv, Saved, Repair
    PROVE  Saved'
<1>1. /\ phase = "repair" /\ todo # <<>> /\ (Works(Head(todo)) \/ Breaks(Head(todo)))
      /\ todo' = Tail(todo) /\ UNCHANGED <<batch, phase, j, plan, n, journal, errs>>
    BY DEF Repair
<1>2. PICK s : Traced(s, j, batch, journal) /\ Mends(todo, tree, s, j, batch[j])
    BY <1>1 DEF Saved, SavedInRepair
<1>3. tree' = Effect(tree, Head(todo)) \/ tree' \in Residues(tree, Head(todo))
    BY <1>1 DEF Works, Breaks
<1>4. IsTree(s) /\ Fresh(s, j) /\ j \in Nat
    BY <1>1, <1>2 DEF Traced, Inv, InRepair
<1>5. Mends(Tail(todo), tree', s, j, batch[j])
    BY <1>1, <1>2, <1>3, <1>4, MendsStep
<1> QED
    BY <1>1, <1>2, <1>5 DEF Saved, SavedInOp, SavedInCall, SavedInRepair, SavedInUndo,
       SavedInDone

\* The rollback starts from a tree that carries the one before the operation.
LEMMA SavedRepairDone ==
    ASSUME Inv, Saved, RepairDone
    PROVE  Saved'
<1>1. /\ phase = "repair" /\ todo = <<>> /\ phase' = "undo"
      /\ UNCHANGED <<batch, tree, j, plan, n, todo, journal, errs>>
    BY DEF RepairDone
<1>2. PICK s : Traced(s, j, batch, journal) /\ Mends(todo, tree, s, j, batch[j])
    BY <1>1 DEF Saved, SavedInRepair
<1>3. IsTree(s) /\ Fresh(s, j) /\ batch \in Batches /\ j \in 1 .. Len(batch) /\ j \in Nat
    BY <1>1, <1>2 DEF Traced, Inv, InRepair
<1>4. batch[j].kind = "create" => ~Renamed(batch, j)
    <2>1. batch[j].kind = "create" => \A h \in 1 .. j : batch[h].kind = "create"
        BY <1>3, OpMeans
    <2>2. "create" # "rename" /\ \A h \in 1 .. j - 1 : h \in 1 .. j
        BY <1>3
    <2> QED
        BY <2>1, <2>2 DEF Renamed
<1>5. Mends(<<>>, tree, s, j, batch[j])
    BY <1>1, <1>2
<1>6. PICK f : Carried(f, tree, s, Own(j), Renamed(batch, j))
    BY <1>3, <1>4, <1>5, MendsEnds
<1>7. \E H, e, g : Retracing(H, journal, <<>>, e, g, tree, j, Renamed(batch, j))
    BY <1>2, <1>6, RetraceBegins
<1> QED
    BY <1>1, <1>7 DEF Saved, SavedInOp, SavedInCall, SavedInRepair, SavedInUndo, SavedInDone

\* The next entry to undo is the last one.
LEMMA SavedUndoNext ==
    ASSUME Inv, Saved, UndoNext
    PROVE  Saved'
<1>1. /\ phase = "undo" /\ todo = <<>> /\ journal # <<>>
      /\ todo' = Last(journal).undo /\ journal' = Front(journal)
      /\ UNCHANGED <<batch, tree, phase, j, plan, n, errs>>
    BY DEF UndoNext
<1>2. PICK S : journal \in Seq(S)
    BY DEF Inv
<1>3. ASSUME NEW H, NEW e, NEW f, NEW moved, Retracing(H, journal, todo, e, f, tree, j, moved)
      PROVE  Retracing(H, journal', todo', e, f, tree, j, moved)
    BY <1>1, <1>2, <1>3, RetraceTurns
<1> QED
    BY <1>1, <1>3 DEF Saved, SavedInOp, SavedInCall, SavedInRepair, SavedInUndo, SavedInDone

\* An undo step works, is quiet, or is reported.
LEMMA SavedUndo ==
    ASSUME Inv, Saved, Undo
    PROVE  Saved'
<1> DEFINE c == Head(todo).call
           loud == Head(todo).loud
           moved == Renamed(batch, j)
<1> HIDE DEF c, loud, moved
<1>1. /\ phase = "undo" /\ todo # <<>> /\ todo' = Tail(todo)
      /\ UNCHANGED <<batch, phase, j, plan, n, journal>>
      /\ \/ Works(c) /\ UNCHANGED errs
         \/ Breaks(c) /\ errs' = IF loud THEN errs \cup {"undo"} ELSE errs
    BY DEF Undo, c, loud
<1>2. PICK S : journal \in Seq(S)
    BY DEF Inv
<1>3. ASSUME "undo" \notin errs'
      PROVE  \E H, e, f : Retracing(H, journal, Tail(todo), e, f, tree', j, moved)
    <2>1. "undo" \notin errs
        BY <1>1, <1>3
    <2>2. PICK H, e, f : Retracing(H, journal, todo, e, f, tree, j, moved)
        BY <2>1, <1>1 DEF Saved, SavedInUndo, moved
    <2>3. /\ Residues(tree, c) = {tree}
          /\ Possible(tree, c) =>
                 \E d, g : Retracing(H, journal, Tail(todo), d, g, Effect(tree, c), j, moved)
          /\ ~loud => Retracing(H, journal, Tail(todo), e, f, tree, j, moved)
        BY <2>2, <1>1, <1>2, RetraceStep DEF c, loud
    <2>4. CASE Works(c) /\ UNCHANGED errs
        <3>1. Possible(tree, c) /\ tree' = Effect(tree, c)
            BY <2>4 DEF Works
        <3> QED
            BY <3>1, <2>3
    <2>5. CASE Breaks(c) /\ errs' = IF loud THEN errs \cup {"undo"} ELSE errs
        <3>1. tree' = tree /\ ~loud
            BY <2>3, <2>5, <1>3 DEF Breaks
        <3> QED
            BY <3>1, <2>3
    <2> QED
        BY <2>4, <2>5, <1>1
<1> QED
    BY <1>1, <1>3 DEF Saved, SavedInOp, SavedInCall, SavedInRepair, SavedInUndo, SavedInDone, moved

\* With the journal undone the tree still carries Start.
LEMMA SavedReturn ==
    ASSUME Inv, Saved, Return
    PROVE  Saved'
<1>1. /\ phase \in {"undo", "finalize"} /\ phase' = "done"
      /\ UNCHANGED <<batch, tree, j, plan, n, todo, journal, errs>>
    BY DEF Return
<1>2. CASE phase = "undo"
    <2>1. ASSUME "undo" \notin errs PROVE Contents(tree)
        <3>1. PICK H, e, f : Retracing(H, journal, todo, e, f, tree, j, Renamed(batch, j))
            BY <2>1, <1>2 DEF Saved, SavedInUndo
        <3> QED
            BY <3>1, CarriedContents DEF Retracing
    <2> QED
        BY <2>1, <1>1 DEF Saved, SavedInOp, SavedInCall, SavedInRepair, SavedInUndo,
           SavedInDone, Contents
<1>3. CASE phase = "finalize"
    <2>1. "op" \notin errs
        BY <1>3 DEF Inv, InFinalize
    <2> QED
        BY <2>1, <1>1 DEF Saved, SavedInOp, SavedInCall, SavedInRepair, SavedInUndo, SavedInDone
<1> QED
    BY <1>1, <1>2, <1>3

\* Every step keeps what the contents need.
LEMMA StepSaved == Inv /\ Saved /\ [Next]_vars => Saved'
<1> SUFFICES ASSUME Inv, Saved, [Next]_vars PROVE Saved'
    OBVIOUS
<1>1. CASE Begin
    BY <1>1, SavedBegin
<1>2. CASE Call
    BY <1>2, SavedCall
<1>3. CASE LastCall
    BY <1>3, SavedLastCall
<1>4. CASE CallFails
    BY <1>4, SavedCallFails
<1>5. CASE Repair
    BY <1>5, SavedRepair
<1>6. CASE RepairDone
    BY <1>6, SavedRepairDone
<1>7. CASE UndoNext
    BY <1>7, SavedUndoNext
<1>8. CASE Undo
    BY <1>8, SavedUndo
<1>9. CASE Commit \/ FinalizeNext \/ Finalize
    <2>1. phase' = "finalize"
        BY <1>9 DEF Commit, FinalizeNext, Finalize
    <2> QED
        BY <2>1 DEF Saved, SavedInOp, SavedInCall, SavedInRepair, SavedInUndo, SavedInDone
<1>10. CASE Return
    BY <1>10, SavedReturn
<1>11. CASE Crash \/ UNCHANGED vars
    <2>1. UNCHANGED <<batch, tree, phase, j, plan, n, todo, journal, errs>>
        BY <1>11 DEF Crash, vars
    <2> QED
        BY <2>1 DEF Saved, SavedInOp, SavedInCall, SavedInRepair, SavedInUndo, SavedInDone, Contents
<1> QED
    BY <1>1, <1>2, <1>3, <1>4, <1>5, <1>6, <1>7, <1>8, <1>9, <1>10, <1>11 DEF Next, Step

\* At every moment until the batch is committed, killed or not and whatever
\* fails, the content of every file of the workspace is in some file, unless
\* the error says that undoing failed.
THEOREM KeepsContents == Spec => []ContentKept
<1>1. Inv /\ Saved => ContentKept
    <2> SUFFICES ASSUME Inv, Saved, phase # "finalize", "undo" \notin errs,
                        ~(phase = "done" /\ "op" \notin errs)
                 PROVE  Contents(tree)
        BY DEF ContentKept, Contents
    <2>1. CASE phase = "op"
        BY <2>1 DEF Saved, SavedInOp, Traced
    <2>2. CASE phase = "call"
        <3>1. PICK s : /\ Saves(plan, s, j, batch[j])
                       /\ n \in 1 .. Len(plan.calls) /\ Ready(plan.calls, n, s)
                       /\ tree = Ran(plan.calls, n, s)
            BY <2>2 DEF Saved, SavedInCall
        <3>2. n \in 1 .. Len(plan.calls) + 1
            BY <3>1
        <3> QED
            BY <3>1, <3>2 DEF Saves
    <2>3. CASE phase = "repair"
        <3>1. PICK s : Traced(s, j, batch, journal) /\ Mends(todo, tree, s, j, batch[j])
            BY <2>3 DEF Saved, SavedInRepair
        <3>2. IsTree(s) /\ Fresh(s, j) /\ Contents(s) /\ j \in Nat
            BY <3>1, <2>3 DEF Traced, Inv, InRepair
        <3> QED
            BY <3>1, <3>2, MendsContents
    <2>4. CASE phase = "undo"
        <3>1. PICK H, e, f : Retracing(H, journal, todo, e, f, tree, j, Renamed(batch, j))
            BY <2>4 DEF Saved, SavedInUndo
        <3> QED
            BY <3>1, CarriedContents DEF Retracing
    <2>5. CASE phase = "done"
        BY <2>5 DEF Saved, SavedInDone
    <2> QED
        BY <2>1, <2>2, <2>3, <2>4, <2>5 DEF Saved
<1> QED
    BY <1>1, InitInv, StepInv, SavedInit, StepSaved, PTL DEF Spec
=============================================================================
