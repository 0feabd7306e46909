-------------------------- MODULE SessionLedgerProofs --------------------------
(***************************************************************************)
(* Theorems about the session ledger and its guard (SessionLedger), for    *)
(* any session IDs, any threshold, any number of spare sessions and any    *)
(* length of the ledger.                                                   *)
(***************************************************************************)
EXTENDS SessionLedger, SequenceTheorems, WellFoundedInduction, FiniteSetTheorems, TLAPS

------------------------------------------------------------------------------
(***************************************************************************)
(* Ledgers.  Only is a recursive function; the sets of naturals on which a *)
(* fact about it holds are shown to be all of them.                        *)
(***************************************************************************)

\* A set of naturals has a least element: the library's minimal elements of a
\* well-founded relation, for <.
LEMMA LeastOfNaturals ==
    ASSUME NEW T, T \subseteq Nat, T # {}
    PROVE  \E x \in T : \A y \in T : x <= y
  <1> DEFINE R == OpToRel(<, Nat)
  <1>1. IsWellFoundedOn(R, Nat)
    BY NatLessThanWellFounded, Zenon
  <1>2. ASSUME NEW x \in Nat, NEW y \in Nat, <<x, y>> \notin R PROVE ~(x < y)
    BY <1>2 DEF OpToRel
  <1> HIDE DEF R
  <1>3. PICK x \in T : \A y \in T : ~(<<y, x>> \in R)
    BY <1>1, WFMin
  <1>4. ASSUME NEW y \in T PROVE x <= y
    <2>1. ~(y < x)
      BY <1>2, <1>3
    <2>2. QED
      BY <2>1
  <1>5. QED
    BY <1>4

\* Induction, for a set of naturals.
LEMMA SetOfNaturals ==
    ASSUME NEW P, P \subseteq Nat, 0 \in P, \A n \in P : n + 1 \in P
    PROVE  P = Nat
  <1>1. SUFFICES ASSUME Nat \ P # {} PROVE FALSE
    OBVIOUS
  <1>2. PICK m \in Nat \ P : \A n \in Nat \ P : m <= n
    BY <1>1, LeastOfNaturals
  <1>3. m # 0 /\ m - 1 \in Nat /\ ~(m <= m - 1)
    OBVIOUS
  <1>4. m - 1 \in P
    BY <1>2, <1>3
  <1>5. (m - 1) + 1 = m
    BY <1>3
  <1>6. QED
    BY <1>4, <1>5

\* The recursion of Only: what it has collected after each entry.
Collects(f, l, S, n) ==
    /\ f[0] = <<>>
    /\ \A i \in 1 .. n : f[i] = IF l[i] \in S THEN Append(f[i - 1], l[i]) ELSE f[i - 1]

LEMMA CollectorExists ==
    ASSUME NEW l \in Seq(Sids), NEW S
    PROVE  \E f \in [0 .. Len(l) -> Seq(Sids)] : Collects(f, l, S, Len(l))
  <1> DEFINE P == {n \in Nat : n <= Len(l) =>
                       \E f \in [0 .. n -> Seq(Sids)] : Collects(f, l, S, n)}
  <1>1. 0 \in P
    <2> DEFINE f == [i \in 0 .. 0 |-> <<>>]
    <2>1. f \in [0 .. 0 -> Seq(Sids)] /\ Collects(f, l, S, 0)
      BY DEF Collects
    <2>2. QED
      BY <2>1
  <1>2. ASSUME NEW n \in P PROVE n + 1 \in P
    <2>1. SUFFICES ASSUME n + 1 <= Len(l)
                   PROVE  \E f \in [0 .. n + 1 -> Seq(Sids)] : Collects(f, l, S, n + 1)
      OBVIOUS
    <2>2. PICK g \in [0 .. n -> Seq(Sids)] : Collects(g, l, S, n)
      BY <2>1
    <2> DEFINE next == IF l[n + 1] \in S THEN Append(g[n], l[n + 1]) ELSE g[n]
               f == [i \in 0 .. n + 1 |-> IF i <= n THEN g[i] ELSE next]
    <2>3. next \in Seq(Sids)
      BY <2>1
    <2>4. f[n + 1] = next /\ \A i \in 0 .. n : f[i] = g[i]
      OBVIOUS
    <2>5. f \in [0 .. n + 1 -> Seq(Sids)]
      BY <2>3
    <2>6. ASSUME NEW i \in 1 .. n + 1
          PROVE  f[i] = IF l[i] \in S THEN Append(f[i - 1], l[i]) ELSE f[i - 1]
      <3>1. CASE i = n + 1
        BY <2>4, <3>1
      <3>2. CASE i # n + 1
        <4>1. i \in 1 .. n /\ i \in 0 .. n /\ i - 1 \in 0 .. n
          BY <3>2
        <4>2. g[i] = IF l[i] \in S THEN Append(g[i - 1], l[i]) ELSE g[i - 1]
          BY <2>2, <4>1 DEF Collects
        <4> HIDE DEF f
        <4>3. QED
          BY <2>4, <4>1, <4>2
      <3>3. QED
        BY <3>1, <3>2
    <2>7. f[0] = <<>>
      BY <2>2, <2>4 DEF Collects
    <2> HIDE DEF f
    <2>8. Collects(f, l, S, n + 1)
      BY <2>6, <2>7 DEF Collects
    <2>9. QED
      BY <2>5, <2>8
  <1>3. Len(l) \in P
    <2>1. P \subseteq Nat /\ Len(l) \in Nat
      OBVIOUS
    <2> HIDE DEF P
    <2>2. P = Nat
      BY <1>1, <1>2, <2>1, SetOfNaturals
    <2>3. QED
      BY <2>1, <2>2
  <1>4. QED
    BY <1>3

LEMMA OnlyCollects ==
    ASSUME NEW l \in Seq(Sids), NEW S
    PROVE  \E f \in [0 .. Len(l) -> Seq(Sids)] :
              Collects(f, l, S, Len(l)) /\ Only(l, S) = f[Len(l)]
  <1> DEFINE Is(f) == f = [i \in 0 .. Len(l) |->
                             IF i = 0 THEN <<>>
                             ELSE IF l[i] \in S THEN Append(f[i - 1], l[i]) ELSE f[i - 1]]
             h == CHOOSE f : Is(f)
             P == {n \in Nat : n <= Len(l) => h[n] \in Seq(Sids)}
  <1>1. PICK g \in [0 .. Len(l) -> Seq(Sids)] : Collects(g, l, S, Len(l))
    BY CollectorExists
  <1>2. Is(g)
    <2>1. \A i \in 0 .. Len(l) :
              g[i] = IF i = 0 THEN <<>>
                     ELSE IF l[i] \in S THEN Append(g[i - 1], l[i]) ELSE g[i - 1]
      <3>1. TAKE i \in 0 .. Len(l)
      <3>2. CASE i = 0
        BY <1>1, <3>2 DEF Collects
      <3>3. CASE i # 0
        <4>1. i \in 1 .. Len(l)
          BY <3>3
        <4>2. QED
          BY <1>1, <3>3, <4>1 DEF Collects
      <3>4. QED
        BY <3>2, <3>3
    <2>2. QED
      BY <2>1
  <1>3. Is(h)
    <2> HIDE DEF Is
    <2>1. QED
      BY <1>2
  <1>4. Only(l, S) = h[Len(l)]
    BY DEF Only
  <1> HIDE DEF h
  <1>5. Collects(h, l, S, Len(l))
    <2>1. Len(l) \in Nat
      OBVIOUS
    <2>2. \A i \in 0 .. Len(l) :
              h[i] = IF i = 0 THEN <<>>
                     ELSE IF l[i] \in S THEN Append(h[i - 1], l[i]) ELSE h[i - 1]
      BY <1>3
    <2>3. 0 \in 0 .. Len(l) /\ \A i \in 1 .. Len(l) : i \in 0 .. Len(l) /\ i # 0
      BY <2>1
    <2>4. h[0] = <<>>
      BY <2>2, <2>3
    <2>5. QED
      BY <2>2, <2>3, <2>4 DEF Collects
  <1>6. 0 \in P
    <2>1. h[0] = <<>>
      BY <1>5 DEF Collects
    <2>2. h[0] \in Seq(Sids)
      BY <2>1
    <2>3. QED
      BY <2>2
  <1>7. ASSUME NEW n \in P PROVE n + 1 \in P
    <2>1. SUFFICES ASSUME n + 1 <= Len(l) PROVE h[n + 1] \in Seq(Sids)
      OBVIOUS
    <2>2. h[n + 1] = IF l[n + 1] \in S THEN Append(h[n], l[n + 1]) ELSE h[n]
      BY <1>5, <2>1 DEF Collects
    <2>3. h[n] \in Seq(Sids) /\ l[n + 1] \in Sids
      BY <2>1
    <2>4. QED
      BY <2>2, <2>3
  <1>8. P = Nat
    <2>1. P \subseteq Nat
      OBVIOUS
    <2> HIDE DEF P
    <2>2. QED
      BY <1>6, <1>7, <2>1, SetOfNaturals
  <1>9. h \in [0 .. Len(l) -> Seq(Sids)]
    <2>1. \A n \in 0 .. Len(l) : h[n] \in Seq(Sids)
      BY <1>8
    <2>2. h = [n \in 0 .. Len(l) |-> h[n]]
      BY <1>3
    <2>3. QED
      BY <2>1, <2>2
  <1>10. QED
    BY <1>4, <1>5, <1>9

\* m holds the entries of the first n of l that are in S, in their order.
Filtered(m, l, S, n) ==
    /\ m \in Seq(Sids) /\ Len(m) <= n
    /\ \A a \in 1 .. n : l[a] \in S => \E i \in 1 .. Len(m) : m[i] = l[a]
    /\ \A i \in 1 .. Len(m) : \E a \in 1 .. n : l[a] = m[i] /\ l[a] \in S
    /\ \A i, j \in 1 .. Len(m) : i < j =>
          \E a, b \in 1 .. n : a < b /\ l[a] = m[i] /\ l[b] = m[j]

LEMMA FilteredGrows ==
    ASSUME NEW l \in Seq(Sids), NEW S, NEW n \in Nat, n + 1 <= Len(l), NEW m, Filtered(m, l, S, n)
    PROVE  Filtered(IF l[n + 1] \in S THEN Append(m, l[n + 1]) ELSE m, l, S, n + 1)
  <1>1. /\ m \in Seq(Sids) /\ Len(m) \in Nat /\ Len(m) <= n
        /\ l[n + 1] \in Sids /\ n + 1 \in 1 .. n + 1
        /\ \A a \in 1 .. n + 1 : a = n + 1 \/ a \in 1 .. n
        /\ \A a \in 1 .. n : a \in 1 .. n + 1 /\ a < n + 1
    BY DEF Filtered
  <1>2. CASE l[n + 1] \notin S
    BY <1>1, <1>2 DEF Filtered
  <1>3. CASE l[n + 1] \in S
    <2> DEFINE p == Append(m, l[n + 1])
    <2>1. /\ p \in Seq(Sids) /\ Len(p) = Len(m) + 1 /\ p[Len(m) + 1] = l[n + 1]
          /\ \A i \in 1 .. Len(m) : p[i] = m[i]
      BY <1>1
    <2>2. /\ \A i \in 1 .. Len(p) : i = Len(m) + 1 \/ i \in 1 .. Len(m)
          /\ \A i \in 1 .. Len(m) : i \in 1 .. Len(p)
          /\ Len(m) + 1 \in 1 .. Len(p) /\ Len(p) <= n + 1
      BY <1>1, <2>1
    <2> HIDE DEF p
    <2>3. ASSUME NEW a \in 1 .. n + 1, l[a] \in S PROVE \E i \in 1 .. Len(p) : p[i] = l[a]
      <3>1. CASE a = n + 1
        BY <2>1, <2>2, <3>1
      <3>2. CASE a \in 1 .. n
        BY <2>1, <2>2, <2>3, <3>2 DEF Filtered
      <3>3. QED
        BY <1>1, <3>1, <3>2
    <2>4. ASSUME NEW i \in 1 .. Len(p) PROVE \E a \in 1 .. n + 1 : l[a] = p[i] /\ l[a] \in S
      <3>1. CASE i = Len(m) + 1
        <4>1. l[n + 1] = p[i]
          BY <2>1, <3>1
        <4>2. QED
          BY <1>1, <1>3, <4>1
      <3>2. CASE i \in 1 .. Len(m)
        <4>1. PICK a \in 1 .. n : l[a] = m[i] /\ l[a] \in S
          BY <3>2 DEF Filtered
        <4>2. QED
          BY <1>1, <2>1, <3>2, <4>1
      <3>3. QED
        BY <2>2, <3>1, <3>2
    <2>5. ASSUME NEW i \in 1 .. Len(p), NEW j \in 1 .. Len(p), i < j
          PROVE  \E a, b \in 1 .. n + 1 : a < b /\ l[a] = p[i] /\ l[b] = p[j]
      <3>1. i \in 1 .. Len(m)
        BY <1>1, <2>1, <2>5
      <3>2. CASE j = Len(m) + 1
        <4>1. PICK a \in 1 .. n : l[a] = m[i]
          BY <3>1 DEF Filtered
        <4>2. QED
          BY <1>1, <2>1, <3>1, <3>2, <4>1
      <3>3. CASE j \in 1 .. Len(m)
        <4>1. PICK a \in 1 .. n, b \in 1 .. n : a < b /\ l[a] = m[i] /\ l[b] = m[j]
          BY <2>5, <3>1, <3>3 DEF Filtered
        <4>2. QED
          BY <1>1, <2>1, <3>1, <3>3, <4>1
      <3>4. QED
        BY <2>2, <3>2, <3>3
    <2>6. Filtered(p, l, S, n + 1)
      BY <2>1, <2>2, <2>3, <2>4, <2>5 DEF Filtered
    <2>7. QED
      BY <1>3, <2>6 DEF p
  <1>4. QED
    BY <1>2, <1>3

LEMMA OnlyFilters ==
    ASSUME NEW l \in Seq(Sids), NEW S
    PROVE  Filtered(Only(l, S), l, S, Len(l))
  <1>1. PICK f \in [0 .. Len(l) -> Seq(Sids)] :
            Collects(f, l, S, Len(l)) /\ Only(l, S) = f[Len(l)]
    BY OnlyCollects
  <1> DEFINE P == {n \in Nat : n <= Len(l) => Filtered(f[n], l, S, n)}
  <1>2. 0 \in P
    <2>1. f[0] = <<>>
      BY <1>1 DEF Collects
    <2>2. Filtered(<<>>, l, S, 0)
      BY DEF Filtered
    <2>3. QED
      BY <2>1, <2>2
  <1>3. ASSUME NEW n \in P PROVE n + 1 \in P
    <2>1. SUFFICES ASSUME n + 1 <= Len(l) PROVE Filtered(f[n + 1], l, S, n + 1)
      OBVIOUS
    <2>2. n + 1 \in 1 .. Len(l) /\ (n + 1) - 1 = n /\ n \in Nat /\ n <= Len(l)
      BY <2>1
    <2>3. f[n + 1] = IF l[n + 1] \in S THEN Append(f[n], l[n + 1]) ELSE f[n]
      BY <1>1, <2>2 DEF Collects
    <2>4. Filtered(f[n], l, S, n)
      BY <2>2
    <2>5. QED
      BY <2>1, <2>2, <2>3, <2>4, FilteredGrows
  <1>4. P = Nat
    <2>1. P \subseteq Nat
      OBVIOUS
    <2> HIDE DEF P
    <2>2. QED
      BY <1>2, <1>3, <2>1, SetOfNaturals
  <1>5. Len(l) \in Nat
    OBVIOUS
  <1>6. QED
    BY <1>1, <1>4, <1>5

\* What Only keeps: the entries in S, each as often as before, in their order.
LEMMA OnlyKeeps ==
    ASSUME NEW l \in Seq(Sids), NEW S
    PROVE  /\ Only(l, S) \in Seq(Sids)
           /\ Len(Only(l, S)) <= Len(l)
           /\ ToSet(Only(l, S)) = ToSet(l) \intersect S
           /\ IsInjective(l) => IsInjective(Only(l, S))
  <1> DEFINE m == Only(l, S)
  <1>1. Filtered(m, l, S, Len(l))
    BY OnlyFilters
  <1> HIDE DEF m
  <1>2. m \in Seq(Sids) /\ Len(m) <= Len(l) /\ DOMAIN m = 1 .. Len(m) /\ DOMAIN l = 1 .. Len(l)
        /\ Len(m) \in Nat /\ Len(l) \in Nat
    BY <1>1 DEF Filtered
  <1>3. ToSet(m) = ToSet(l) \intersect S
    <2>1. ASSUME NEW x \in ToSet(m) PROVE x \in ToSet(l) /\ x \in S
      BY <1>1, <1>2 DEF Filtered, ToSet
    <2>2. ASSUME NEW x \in ToSet(l), x \in S PROVE x \in ToSet(m)
      <3>1. PICK a \in 1 .. Len(l) : l[a] = x
        BY <1>2, <2>2 DEF ToSet
      <3>2. PICK i \in 1 .. Len(m) : m[i] = l[a]
        BY <1>1, <2>2, <3>1 DEF Filtered
      <3>3. QED
        BY <1>2, <3>1, <3>2 DEF ToSet
    <2>3. QED
      BY <2>1, <2>2
  <1>4. ASSUME IsInjective(l) PROVE IsInjective(m)
    <2>1. SUFFICES ASSUME NEW i \in 1 .. Len(m), NEW j \in 1 .. Len(m), i < j PROVE m[i] # m[j]
      <3>1. \A i, j \in 1 .. Len(m) : i # j => i < j \/ j < i
        BY <1>2
      <3>2. QED
        BY <1>2, <3>1 DEF IsInjective
    <2>2. PICK a \in 1 .. Len(l), b \in 1 .. Len(l) : a < b /\ l[a] = m[i] /\ l[b] = m[j]
      BY <1>1, <2>1 DEF Filtered
    <2>3. QED
      BY <1>2, <1>4, <2>2 DEF IsInjective
  <1>5. QED
    BY <1>2, <1>3, <1>4 DEF m

\* Tracking a session: it is on the ledger, at its end, and the ledger has room.
LEMMA TrackAdds ==
    ASSUME NEW l \in Seq(Sids), IsInjective(l), NEW s \in Sids
    PROVE  /\ Track(l, s) \in Seq(Sids)
           /\ Len(Track(l, s)) <= MaxLedger
           /\ IsInjective(Track(l, s))
           /\ ToSet(Track(l, s)) \subseteq ToSet(l) \union {s}
           /\ s \in ToSet(Track(l, s))
  <1> DEFINE m == Only(l, Sids \ {s})
             all == Append(m, s)
             from == IF Len(all) > MaxLedger THEN Len(all) - MaxLedger + 1 ELSE 1
  <1>1. m \in Seq(Sids) /\ IsInjective(m) /\ ToSet(m) = ToSet(l) \intersect (Sids \ {s})
    BY OnlyKeeps
  <1> HIDE DEF m
  <1>2. /\ all \in Seq(Sids) /\ Len(all) = Len(m) + 1 /\ all[Len(m) + 1] = s
        /\ \A i \in 1 .. Len(m) : all[i] = m[i] /\ m[i] \in ToSet(m)
        /\ DOMAIN m = 1 .. Len(m) /\ Len(m) \in Nat
    BY <1>1 DEF ToSet
  <1> HIDE DEF all
  <1>3. \A i, j \in 1 .. Len(all) : all[i] = all[j] => i = j
    <2>1. \A i \in 1 .. Len(m) : all[i] # s
      BY <1>1, <1>2
    <2>2. \A i \in 1 .. Len(all) : i = Len(m) + 1 \/ i \in 1 .. Len(m)
      BY <1>2
    <2>3. QED
      BY <1>1, <1>2, <2>1, <2>2 DEF IsInjective
  <1>4. \A i \in 1 .. Len(all) : all[i] \in ToSet(l) \union {s}
    <2>1. \A i \in 1 .. Len(all) : i = Len(m) + 1 \/ i \in 1 .. Len(m)
      BY <1>2
    <2>2. QED
      BY <1>1, <1>2, <2>1
  <1>5. MaxLedger \in Nat /\ MaxLedger >= 1
    BY LedgerAssumption
  <1>6. from \in 1 .. Len(all) /\ Len(all) - from + 1 <= MaxLedger /\ Len(all) \in Nat
    BY <1>2, <1>5
  <1> HIDE DEF from
  <1> DEFINE r == SubSeq(all, from, Len(all))
  <1>7. /\ r \in Seq(Sids) /\ Len(r) = Len(all) - from + 1
        /\ \A i \in 1 .. Len(r) : r[i] = all[from + i - 1]
    BY <1>2, <1>6
  <1>8. Track(l, s) = r
    BY LedgerAssumption DEF Track, all, from, m
  <1> HIDE DEF r
  <1>9. DOMAIN r = 1 .. Len(r) /\ Len(r) \in 1 .. Len(all)
        /\ \A i \in 1 .. Len(r) : from + i - 1 \in 1 .. Len(all)
    BY <1>6, <1>7
  <1>10. IsInjective(r)
    <2>1. \A i, j \in 1 .. Len(r) : from + i - 1 = from + j - 1 => i = j
      BY <1>6, <1>9
    <2>2. \A i, j \in 1 .. Len(r) : r[i] = r[j] => i = j
      <3>1. TAKE i, j \in 1 .. Len(r)
      <3>2. HAVE r[i] = r[j]
      <3>3. all[from + i - 1] = all[from + j - 1]
        BY <1>7, <3>2
      <3>4. from + i - 1 = from + j - 1
        BY <1>3, <1>9, <3>3
      <3>5. QED
        BY <2>1, <3>4
    <2>3. QED
      BY <1>9, <2>2 DEF IsInjective
  <1>11. ToSet(r) \subseteq ToSet(l) \union {s}
    <2>1. ASSUME NEW x \in ToSet(r) PROVE x \in ToSet(l) \union {s}
      <3>1. PICK i \in 1 .. Len(r) : x = r[i]
        BY <1>9 DEF ToSet
      <3>2. x = all[from + i - 1] /\ from + i - 1 \in 1 .. Len(all)
        BY <1>7, <1>9, <3>1
      <3>3. QED
        BY <1>4, <3>2
    <2>2. QED
      BY <2>1
  <1>12. s \in ToSet(r)
    <2>1. Len(r) \in 1 .. Len(r) /\ from + Len(r) - 1 = Len(m) + 1
      BY <1>2, <1>6, <1>7, <1>9
    <2>2. r[Len(r)] = s
      BY <1>2, <1>7, <2>1
    <2>3. QED
      BY <1>9, <2>1, <2>2 DEF ToSet
  <1>13. QED
    BY <1>6, <1>7, <1>8, <1>10, <1>11, <1>12

\* Tracking what a token names, which may be nothing.
LEMMA TrackKeeps ==
    ASSUME NEW l \in Seq(Sids), IsInjective(l), Len(l) <= MaxLedger,
           NEW s \in Sids, NEW named \in {s, NoSid}
    PROVE  /\ Track(l, named) \in Seq(Sids)
           /\ Len(Track(l, named)) <= MaxLedger
           /\ IsInjective(Track(l, named))
           /\ ToSet(Track(l, named)) \subseteq ToSet(l) \union {s}
  <1>1. CASE named = s
    BY <1>1, TrackAdds
  <1>2. CASE named = NoSid
    <2>1. Track(l, named) = l
      BY <1>2 DEF Track
    <2>2. QED
      BY <2>1
  <1>3. QED
    BY <1>1, <1>2

\* Each cleanup candidate has Durable spare sessions after it.
LEMMA ExcessIsOld ==
    ASSUME NEW b \in Entries, IsInjective(b.ledger), NEW s \in ToSet(Excess(b))
    PROVE  /\ s \in ToSet(b.ledger) \ {b.token}
           /\ Cardinality(Newer(b, s)) >= Durable
  <1> DEFINE l == b.ledger
             m == Only(l, live \ {b.token})
  <1>1. l \in Seq(Sids) /\ Durable \in Nat /\ Durable >= 1
    BY LedgerAssumption DEF Entries
  <1>2. /\ Filtered(m, l, live \ {b.token}, Len(l)) /\ IsInjective(m) /\ m \in Seq(Sids)
        /\ ToSet(m) = ToSet(l) \intersect (live \ {b.token})
    BY <1>1, OnlyFilters, OnlyKeeps
  <1>3. Excess(b) = SubSeq(m, 1, Len(m) - Durable)
    BY DEF Excess, Spare
  <1> HIDE DEF m
  <1>4. /\ Len(m) \in Nat /\ DOMAIN m = 1 .. Len(m) /\ Len(l) \in Nat /\ DOMAIN l = 1 .. Len(l)
    BY <1>1, <1>2
  <1>5. PICK k \in 1 .. Len(m) - Durable : s = m[k]
    BY <1>1, <1>2, <1>3, <1>4 DEF ToSet
  <1>6. k \in 1 .. Len(m) /\ k \in Nat /\ Len(m) - Durable \in Nat
    BY <1>1, <1>4, <1>5
  <1>7. \A d \in 1 .. Durable :
            /\ Len(m) - Durable + d \in 1 .. Len(m) /\ k < Len(m) - Durable + d
            /\ m[Len(m) - Durable + d] \in Newer(b, s)
    <2>1. TAKE d \in 1 .. Durable
    <2> DEFINE j == Len(m) - Durable + d
    <2>2. j \in 1 .. Len(m) /\ k < j
      BY <1>1, <1>4, <1>5, <1>6
    <2> HIDE DEF j
    <2>3. PICK x \in 1 .. Len(l), y \in 1 .. Len(l) : x < y /\ l[x] = m[k] /\ l[y] = m[j]
      BY <1>2, <1>6, <2>2 DEF Filtered
    <2>4. m[j] \in ToSet(l) \ {b.token}
      BY <1>2, <1>4, <2>2 DEF ToSet
    <2>5. m[j] \in Newer(b, s)
      BY <1>4, <1>5, <2>3, <2>4 DEF Newer
    <2>6. QED
      BY <2>2, <2>5 DEF j
  <1>8. s \in ToSet(l) \ {b.token}
    BY <1>2, <1>4, <1>5, <1>6 DEF ToSet
  <1>9. IsFiniteSet(Newer(b, s))
    <2>1. IsFiniteSet(1 .. Len(l))
      <3>1. 1 \in Int /\ Len(l) \in Int
        BY <1>4
      <3> HIDE DEF l
      <3>2. QED
        BY <3>1, FS_Interval
    <2>2. l \in Surjection(1 .. Len(l), ToSet(l))
      BY <1>1, <1>4 DEF Surjection, ToSet
    <2>3. IsFiniteSet(ToSet(l))
      BY <2>1, <2>2, FS_Surjection
    <2>4. Newer(b, s) \subseteq ToSet(l)
      BY DEF Newer
    <2>5. QED
      BY <2>3, <2>4, FS_Subset
  <1>10. Cardinality(Newer(b, s)) >= Durable
    <2> DEFINE g == [d \in 1 .. Durable |-> m[Len(m) - Durable + d]]
    <2>1. g \in [1 .. Durable -> Newer(b, s)]
      BY <1>7
    <2>2. \A c, d \in 1 .. Durable : g[c] = g[d] => c = d
      <3>1. TAKE c, d \in 1 .. Durable
      <3>2. g[c] = g[d] => Len(m) - Durable + c = Len(m) - Durable + d
        BY <1>2, <1>4, <1>7 DEF IsInjective
      <3>3. QED
        BY <1>1, <1>4, <3>2
    <2> HIDE DEF g
    <2>3. g \in Injection(1 .. Durable, Newer(b, s))
      BY <2>1, <2>2 DEF Injection, IsInjective
    <2>4. Cardinality(1 .. Durable) = Durable
      BY <1>1, FS_Interval
    <2>5. Cardinality(1 .. Durable) <= Cardinality(Newer(b, s))
      BY <1>9, <2>3, FS_Injection
    <2>6. Cardinality(Newer(b, s)) \in Nat
      BY <1>9, FS_CardinalityType
    <2>7. QED
      BY <1>1, <2>4, <2>5, <2>6
  <1>11. QED
    BY <1>8, <1>10

------------------------------------------------------------------------------
(***************************************************************************)
(* The steps of the operations.                                            *)
(***************************************************************************)
LEMMA EmptyBundle ==
    /\ NoBundle \in Entries /\ ToSet(NoBundle.ledger) = {} /\ IsInjective(NoBundle.ledger)
    /\ Len(NoBundle.ledger) <= MaxLedger
  <1>1. NoBundle \in Entries /\ NoBundle.ledger = <<>>
    BY DEF NoBundle, Entries
  <1>2. ToSet(<<>>) = {} /\ IsInjective(<<>>) /\ Len(<<>>) <= MaxLedger
    BY LedgerAssumption DEF ToSet, IsInjective
  <1>3. QED
    BY <1>1, <1>2

\* An operation that ends, with what it has left in the vault.
LEMMA EndInv ==
    ASSUME SessionIInv, Release,
           vault' \in Entries, ToSet(vault'.ledger) \subseteq owned',
           IsInjective(vault'.ledger), Len(vault'.ledger) <= MaxLedger,
           editor' \in {editor, NoEdit}, hook' \in BOOLEAN,
           looked' = "no", arrived' \in Nat,
           live' \subseteq born', born' \subseteq Sids, IsFiniteSet(live'),
           owned \subseteq owned', owned' \subseteq born', lost' \subseteq owned', stale' \in BOOLEAN,
           ~stale' => owned' \intersect live' \subseteq ToSet(vault'.ledger) \union lost'
    PROVE  SessionIInv'
  <1>1. /\ pc' = "idle" /\ op' = "none" /\ bundle' = NoBundle /\ mine' = NoBundle
        /\ sid' = NoSid /\ todo' = <<>> /\ kept' = {} /\ changed' = FALSE
    BY DEF Release
  <1>2. TypeOK'
    <2>1. todo' \in Seq(Sids)
      BY <1>1
    <2>2. editor' \in Entries \union {NoEdit}
      BY DEF SessionIInv, LedgerInv, TypeOK
    <2>3. QED
      BY <1>1, <2>1, <2>2, EmptyBundle DEF TypeOK, PCs, Ops
  <1>3. LedgerIsOwned'
    BY DEF LedgerIsOwned, Owned
  <1>4. NoSessionForgotten'
    BY <1>1 DEF NoSessionForgotten, Unrecorded
  <1>5. LoginRespectsCapacity' /\ SidInStep' /\ CleanupInStep' /\ GuardInStep'
    BY <1>1 DEF LoginRespectsCapacity, SidInStep, CleanupInStep, GuardInStep
  <1>6. CopiesAreLedgers'
    <2>1. editor' # NoEdit => editor' = editor /\ Owned(editor.ledger)
      BY DEF SessionIInv, CopiesAreLedgers
    <2>2. QED
      BY <1>1, <2>1, EmptyBundle DEF CopiesAreLedgers, Owned
  <1>7. QED
    BY <1>2, <1>3, <1>4, <1>5, <1>6 DEF SessionIInv, LedgerInv

\* The facts that the steps of an operation begin with.
LEMMA InStep ==
    ASSUME SessionIInv
    PROVE  /\ vault \in Entries /\ bundle \in Entries /\ mine \in Entries
           /\ vault.ledger \in Seq(Sids) /\ bundle.ledger \in Seq(Sids) /\ mine.ledger \in Seq(Sids)
           /\ Owned(vault.ledger) /\ Owned(bundle.ledger) /\ Owned(mine.ledger)
           /\ live \subseteq born /\ born \subseteq Sids /\ owned \subseteq born /\ lost \subseteq owned
           /\ IsFiniteSet(live) /\ stale \in BOOLEAN /\ hook \in BOOLEAN /\ arrived \in Nat
           /\ ~stale /\ pc \notin {"idle", "look", "relook"} => bundle = vault
           /\ ~stale => owned \intersect live \subseteq ToSet(vault.ledger) \union lost \union Unrecorded
           /\ pc # "saveLogin" => Unrecorded = {}
           /\ Unrecorded \subseteq owned
  BY DEF SessionIInv, LedgerInv, TypeOK, LedgerIsOwned, CopiesAreLedgers, GuardInStep,
         NoSessionForgotten, SidInStep, Unrecorded, Entries

LEMMA BlockedInv ==
    ASSUME SessionIInv, Blocked
    PROVE  SessionIInv'
  <1>1. /\ Release /\ looked' = "no" /\ arrived' = 0 /\ pc # "saveLogin"
        /\ UNCHANGED <<vault, editor, hook, live, born, owned, lost, stale>>
    BY DEF Blocked, ForgetLook, platform, history
  <1>2. QED
    BY <1>1, InStep, EndInv DEF Owned

\* What a request that fails may have done on the platform.
LEMMA FailInv ==
    ASSUME SessionIInv, Fail
    PROVE  SessionIInv'
  <1>1. /\ Release /\ looked' = "no" /\ arrived' = 0 /\ UNCHANGED <<vault, editor, hook, stale>>
    BY DEF Fail, ForgetLook
  <1>2. SUFFICES /\ live' \subseteq born' /\ born' \subseteq Sids /\ IsFiniteSet(live')
                 /\ owned \subseteq owned' /\ owned' \subseteq born' /\ lost' \subseteq owned'
                 /\ ~stale => owned' \intersect live' \subseteq ToSet(vault.ledger) \union lost'
    BY <1>1, InStep, EndInv DEF Owned
  <1>3. ASSUME pc # "saveLogin", NEW s \in Sids, NEW gone,
               live' = (live \ gone) \union {s}, born' = born \union {s},
               owned' = owned \union {s}, lost' = lost \union {s}
        PROVE  /\ live' \subseteq born' /\ born' \subseteq Sids /\ IsFiniteSet(live')
               /\ owned \subseteq owned' /\ owned' \subseteq born' /\ lost' \subseteq owned'
               /\ ~stale => owned' \intersect live' \subseteq ToSet(vault.ledger) \union lost'
    <2>1. IsFiniteSet(live \ gone)
      BY InStep, FS_Subset
    <2>2. IsFiniteSet(live')
      BY <1>3, <2>1, FS_AddElement
    <2>3. QED
      BY <1>3, <2>2, InStep
  <1>4. ASSUME pc # "saveLogin", live' \subseteq live, UNCHANGED <<born, owned, lost>>
        PROVE  /\ live' \subseteq born' /\ born' \subseteq Sids /\ IsFiniteSet(live')
               /\ owned \subseteq owned' /\ owned' \subseteq born' /\ lost' \subseteq owned'
               /\ ~stale => owned' \intersect live' \subseteq ToSet(vault.ledger) \union lost'
    <2>1. IsFiniteSet(live')
      BY <1>4, InStep, FS_Subset
    <2>2. QED
      BY <1>4, <2>1, InStep
  <1>5. CASE pc = "login" /\ \E s \in Sids \ born :
                /\ live' = live \union {s} /\ born' = born \union {s}
                /\ owned' = owned \union {s} /\ lost' = lost \union {s}
    <2>1. PICK s \in Sids : /\ live' = (live \ {}) \union {s} /\ born' = born \union {s}
                            /\ owned' = owned \union {s} /\ lost' = lost \union {s}
      BY <1>5
    <2>2. QED
      BY <1>3, <1>5, <2>1
  <1>6. CASE pc = "refresh" /\ Readable(bundle) /\ \E s \in Sids \ born :
                /\ live' = (live \ {bundle.token}) \union {s} /\ born' = born \union {s}
                /\ owned' = owned \union {s} /\ lost' = lost \union {s}
    BY <1>3, <1>6
  <1>7. CASE pc = "revokeOne" /\ live' = live \ {sid} /\ UNCHANGED <<born, owned, lost>>
    BY <1>4, <1>7
  <1>8. CASE pc = "revokeOthers" /\ Readable(bundle)
             /\ live' = {bundle.token} /\ UNCHANGED <<born, owned, lost>>
    BY <1>4, <1>8 DEF Readable
  <1>9. CASE lost' = lost \union Unrecorded /\ UNCHANGED <<platform, owned>>
    BY <1>9, InStep DEF platform
  <1>10. QED
    BY <1>5, <1>6, <1>7, <1>8, <1>9 DEF Fail

LEMMA CrashInv ==
    ASSUME SessionIInv, Crash
    PROVE  SessionIInv'
  <1>1. /\ Release /\ looked' = "no" /\ arrived' = 0 /\ editor' = NoEdit /\ hook' = FALSE
        /\ lost' = lost \union Unrecorded /\ UNCHANGED <<vault, live, born, owned, stale>>
    BY DEF Crash, ForgetLook, platform
  <1>2. QED
    BY <1>1, InStep, EndInv DEF Owned

\* The steps that save a ledger and end.
LEMMA SaveLoginInv ==
    ASSUME SessionIInv, SaveLogin
    PROVE  SessionIInv'
  <1>1. /\ pc = "saveLogin" /\ Release /\ looked' = "no" /\ arrived' = 0
        /\ lost' = lost \union ((ToSet(bundle.ledger) \union {sid}) \ ToSet(vault'.ledger))
        /\ UNCHANGED <<editor, hook, live, born, owned, stale>>
    BY DEF SaveLogin, ForgetLook, platform
  <1>2. sid \in owned /\ sid \in Sids
    BY <1>1, InStep DEF SessionIInv, SidInStep
  <1>3. PICK named \in {sid, NoSid} :
            vault' = [token |-> sid, ledger |-> Track(bundle.ledger, named)]
    BY DEF SaveLogin, SessionIDFromAccessToken
  <1>4. /\ Track(bundle.ledger, named) \in Seq(Sids)
        /\ Len(Track(bundle.ledger, named)) <= MaxLedger
        /\ IsInjective(Track(bundle.ledger, named))
        /\ ToSet(Track(bundle.ledger, named)) \subseteq ToSet(bundle.ledger) \union {sid}
    <2>1. /\ bundle.ledger \in Seq(Sids) /\ IsInjective(bundle.ledger)
          /\ Len(bundle.ledger) <= MaxLedger
      BY InStep DEF Owned
    <2>2. QED
      BY <1>2, <1>3, <2>1, TrackKeeps
  <1>5. vault'.ledger = Track(bundle.ledger, named) /\ vault' \in Entries
    BY <1>2, <1>3, <1>4 DEF Entries
  <1>6. ToSet(vault'.ledger) \subseteq owned
    BY <1>2, <1>4, <1>5, InStep DEF Owned
  <1>7. ~stale => owned \intersect live \subseteq ToSet(vault'.ledger) \union lost'
    <2>1. ~stale => owned \intersect live \subseteq ToSet(bundle.ledger) \union lost \union {sid}
      BY <1>1, InStep DEF Unrecorded
    <2>2. QED
      BY <1>1, <2>1
  <1>8. lost' \subseteq owned
    BY <1>1, <1>2, InStep DEF Owned
  <1>9. QED
    BY <1>1, <1>4, <1>5, <1>6, <1>7, <1>8, InStep, EndInv DEF Owned

\* A ledger that is cut to a part of itself, with no listed entry in the rest.
LEMMA CutLedger ==
    ASSUME SessionIInv, pc \notin {"idle", "look", "relook", "saveLogin"}, NEW S,
           vault' = [bundle EXCEPT !.ledger = Only(@, S)],
           ToSet(bundle.ledger) \intersect live \subseteq S
    PROVE  /\ vault' \in Entries /\ ToSet(vault'.ledger) \subseteq owned
           /\ vault'.ledger \in Seq(Sids)
           /\ IsInjective(vault'.ledger) /\ Len(vault'.ledger) <= MaxLedger
           /\ ~stale => owned \intersect live \subseteq ToSet(vault'.ledger) \union lost
  <1>1. /\ Only(bundle.ledger, S) \in Seq(Sids)
        /\ Len(Only(bundle.ledger, S)) <= Len(bundle.ledger)
        /\ ToSet(Only(bundle.ledger, S)) = ToSet(bundle.ledger) \intersect S
        /\ IsInjective(Only(bundle.ledger, S))
    BY InStep, OnlyKeeps DEF Owned
  <1>2. vault' = [bundle EXCEPT !.ledger = Only(bundle.ledger, S)]
    OBVIOUS
  <1>3. vault'.ledger = Only(bundle.ledger, S) /\ vault' \in Entries
    <2>1. bundle \in [token : Sids \union {NoSid}, ledger : Seq(Sids)]
      BY InStep DEF Entries
    <2> DEFINE m == Only(bundle.ledger, S)
    <2>2. m \in Seq(Sids) /\ vault' = [bundle EXCEPT !.ledger = m]
      BY <1>1, <1>2
    <2> HIDE DEF m
    <2>3. vault'.ledger = m /\ vault' \in Entries
      BY <2>1, <2>2 DEF Entries
    <2>4. QED
      BY <2>3 DEF m
  <1>4. Len(Only(bundle.ledger, S)) <= MaxLedger
    <2>1. Len(bundle.ledger) <= MaxLedger /\ Len(bundle.ledger) \in Nat /\ MaxLedger \in Nat
          /\ Len(Only(bundle.ledger, S)) \in Nat
      BY <1>1, InStep, LedgerAssumption DEF Owned
    <2>2. QED
      BY <1>1, <2>1
  <1>5. QED
    BY <1>1, <1>3, <1>4, InStep DEF Owned

LEMMA SaveOneInv ==
    ASSUME SessionIInv, SaveOne
    PROVE  SessionIInv'
  <1>1. /\ pc = "saveOne" /\ Release /\ vault' = [bundle EXCEPT !.ledger = Only(@, Sids \ {sid})]
        /\ UNCHANGED <<editor, hook, looked, arrived, live, born, owned, lost, stale>>
    BY DEF SaveOne, guard, platform, history
  <1>2. sid \notin live /\ looked = "no"
    BY <1>1 DEF SessionIInv, SidInStep, GuardInStep, LedgerInv, TypeOK
  <1>3. ToSet(bundle.ledger) \intersect live \subseteq Sids \ {sid}
    BY <1>2, InStep
  <1>4. QED
    BY <1>1, <1>2, <1>3, CutLedger, InStep, EndInv

LEMMA SaveOthersInv ==
    ASSUME SessionIInv, SaveOthers
    PROVE  SessionIInv'
  <1>1. /\ pc = "listOthers" /\ Release /\ vault' = [bundle EXCEPT !.ledger = Only(@, live)]
        /\ UNCHANGED <<editor, hook, looked, arrived, live, born, owned, lost, stale>>
    BY DEF SaveOthers, guard, platform, history
  <1>2. looked = "no"
    BY <1>1 DEF SessionIInv, GuardInStep
  <1>3. ToSet(bundle.ledger) \intersect live \subseteq live
    OBVIOUS
  <1>4. QED
    BY <1>1, <1>2, <1>3, CutLedger, InStep, EndInv

\* A finished cleanup, with what it has left in the vault.
LEMMA EndCleanupInv ==
    ASSUME SessionIInv, pc = "revoke", EndCleanup,
           vault' \in Entries, ToSet(vault'.ledger) \subseteq owned,
           IsInjective(vault'.ledger), Len(vault'.ledger) <= MaxLedger,
           ~stale => owned \intersect live \subseteq ToSet(vault'.ledger) \union lost,
           UNCHANGED <<editor, guard, platform, history>>
    PROVE  SessionIInv'
  <1>1. /\ UNCHANGED <<editor, hook, looked, arrived, live, born, owned, lost, stale>>
        /\ looked = "no"
    BY DEF guard, platform, history, SessionIInv, GuardInStep
  <1>2. CASE op = "login"
    <2>1. /\ pc' = "relook" /\ todo' = <<>> /\ kept' = {} /\ changed' = FALSE
          /\ UNCHANGED <<op, bundle, mine, sid>>
      BY <1>2 DEF EndCleanup
    <2>2. TypeOK'
      <3>1. todo' \in Seq(Sids)
        BY <2>1
      <3>2. QED
        BY <1>1, <2>1, <3>1 DEF SessionIInv, LedgerInv, TypeOK, PCs
    <2>3. LedgerIsOwned' /\ CopiesAreLedgers'
      BY <1>1, <2>1 DEF LedgerIsOwned, Owned, SessionIInv, CopiesAreLedgers
    <2>4. NoSessionForgotten'
      BY <1>1, <2>1 DEF NoSessionForgotten, Unrecorded
    <2>5. LoginRespectsCapacity' /\ SidInStep' /\ CleanupInStep' /\ GuardInStep'
      BY <1>1, <1>2, <2>1 DEF LoginRespectsCapacity, SidInStep, CleanupInStep, GuardInStep, SessionIInv
    <2>6. QED
      BY <2>2, <2>3, <2>4, <2>5 DEF SessionIInv, LedgerInv
  <1>3. CASE op # "login"
    <2>1. Release
      BY <1>3 DEF EndCleanup
    <2>2. QED
      BY <1>1, <2>1, InStep, EndInv
  <1>4. QED
    BY <1>2, <1>3

LEMMA RevokedNoneInv ==
    ASSUME SessionIInv, RevokedNone
    PROVE  SessionIInv'
  <1>1. /\ pc = "revoke" /\ EndCleanup /\ UNCHANGED <<vault, editor, guard, platform, history>>
    BY DEF RevokedNone
  <1>2. QED
    BY <1>1, InStep, EndCleanupInv DEF Owned

LEMMA SaveCleanInv ==
    ASSUME SessionIInv, SaveClean
    PROVE  SessionIInv'
  <1>1. /\ pc = "revoke" /\ EndCleanup /\ UNCHANGED <<editor, guard, platform, history>>
        /\ vault' = [bundle EXCEPT !.ledger = Only(@, kept)]
    BY DEF SaveClean
  <1>2. ToSet(bundle.ledger) \intersect live \subseteq kept
    BY <1>1 DEF SessionIInv, CleanupInStep
  <1>3. QED
    BY <1>1, <1>2, CutLedger, EndCleanupInv

\* An operation that begins: its copies are the vault's.
LEMMA BeginInv ==
    ASSUME SessionIInv, NEW o \in Ops, NEW label \in PCs, Begin(o, label),
           label \in {"look", "relook", "login"} => o = "login",
           label \notin {"idle", "saveLogin", "saveOne", "revoke"},
           sid' \in Sids \union {NoSid}, hook' \in BOOLEAN, UNCHANGED <<looked, arrived>>
    PROVE  SessionIInv'
  <1>1. /\ pc = "idle" /\ op' = o /\ pc' = label /\ bundle' = vault /\ mine' = vault
        /\ UNCHANGED <<vault, editor, todo, kept, changed, live, born, owned, lost, stale>>
    BY DEF Begin, platform, history
  <1>2. looked = "no"
    BY <1>1 DEF SessionIInv, GuardInStep
  <1>3. TypeOK'
    BY <1>1 DEF SessionIInv, LedgerInv, TypeOK
  <1>4. LedgerIsOwned' /\ CopiesAreLedgers'
    BY <1>1, InStep DEF LedgerIsOwned, Owned, SessionIInv, CopiesAreLedgers
  <1>5. NoSessionForgotten'
    BY <1>1, InStep DEF NoSessionForgotten
  <1>6. LoginRespectsCapacity' /\ SidInStep' /\ CleanupInStep' /\ GuardInStep'
    BY <1>1, <1>2 DEF LoginRespectsCapacity, SidInStep, CleanupInStep, GuardInStep, SessionIInv
  <1>7. QED
    BY <1>3, <1>4, <1>5, <1>6 DEF SessionIInv, LedgerInv

LEMMA BeginsInv ==
    ASSUME SessionIInv,
           BeginCleanup \/ BeginRevokeOne \/ BeginRevokeOthers \/ BeginRefresh \/ BeginLogin
    PROVE  SessionIInv'
  <1>1. sid \in Sids \union {NoSid} /\ hook \in BOOLEAN /\ live \subseteq Sids
    BY DEF SessionIInv, LedgerInv, TypeOK
  <1>2. CASE BeginCleanup
    BY <1>1, <1>2, BeginInv DEF BeginCleanup, Ops, PCs
  <1>3. CASE BeginRevokeOne
    BY <1>1, <1>3, BeginInv DEF BeginRevokeOne, Ops, PCs
  <1>4. CASE BeginRevokeOthers
    BY <1>1, <1>4, BeginInv DEF BeginRevokeOthers, Ops, PCs
  <1>5. CASE BeginRefresh
    BY <1>1, <1>5, BeginInv DEF BeginRefresh, guard, Ops, PCs
  <1>6. CASE BeginLogin
    <2> DEFINE label == IF hook THEN "look" ELSE "login"
    <2>1. label \in {"look", "login"} /\ label \in PCs /\ "login" \in Ops
      BY DEF Ops, PCs
    <2>2. Begin("login", label) /\ UNCHANGED <<sid, hook, looked, arrived>>
      BY <1>6 DEF BeginLogin, guard
    <2> HIDE DEF label
    <2>3. QED
      BY <1>1, <2>1, <2>2, BeginInv
  <1>7. QED
    BY <1>2, <1>3, <1>4, <1>5, <1>6

\* The guard lets a login through.
LEMMA AdmitInv ==
    ASSUME SessionIInv, pc \in {"look", "relook"}, NEW found \in {"failed", "ok"}, Admit(found),
           found = "ok" => Cardinality(live) < Threshold
    PROVE  SessionIInv'
  <1>1. /\ looked' = found /\ arrived' = 0 /\ pc' = "login" /\ bundle' \in {vault, mine}
        /\ ~stale' => ~stale /\ bundle' = vault
        /\ stale' \in BOOLEAN /\ (stale => stale')
        /\ UNCHANGED <<vault, editor, op, mine, sid, todo, kept, changed, hook, live, born, owned, lost>>
    <2>1. /\ looked' = found /\ arrived' = 0 /\ pc' = "login"
          /\ UNCHANGED <<vault, editor, op, mine, sid, todo, kept, changed, hook, live, born, owned, lost>>
          /\ \/ bundle' = vault /\ stale' = stale
             \/ bundle' = mine /\ stale' = (stale \/ mine # vault)
      BY DEF Admit, platform
    <2>2. CASE bundle' = vault /\ stale' = stale
      BY <2>1, <2>2, InStep
    <2>3. CASE bundle' = mine /\ stale' = (stale \/ mine # vault)
      <3>1. CASE stale \/ mine # vault
        <4>1. stale' = TRUE
          BY <2>3, <3>1
        <4>2. QED
          BY <2>1, <2>3, <4>1
      <3>2. CASE ~stale /\ mine = vault
        <4>1. stale' = FALSE
          BY <2>3, <3>2
        <4>2. QED
          BY <2>1, <2>3, <3>2, <4>1
      <3>3. QED
        BY <3>1, <3>2
    <2>4. QED
      BY <2>1, <2>2, <2>3
  <1>2. op = "login" /\ IsFiniteSet(live)
    BY DEF SessionIInv, GuardInStep
  <1>3. TypeOK'
    BY <1>1, InStep DEF SessionIInv, LedgerInv, TypeOK, PCs
  <1>4. LedgerIsOwned' /\ CopiesAreLedgers'
    BY <1>1, InStep DEF LedgerIsOwned, Owned, SessionIInv, CopiesAreLedgers
  <1>5. NoSessionForgotten'
    BY <1>1, InStep DEF NoSessionForgotten
  <1>6. LoginRespectsCapacity'
    BY <1>1, LedgerAssumption DEF LoginRespectsCapacity
  <1>7. SidInStep' /\ CleanupInStep' /\ GuardInStep'
    BY <1>1, <1>2 DEF SidInStep, CleanupInStep, GuardInStep
  <1>8. QED
    BY <1>3, <1>4, <1>5, <1>6, <1>7 DEF SessionIInv, LedgerInv

LEMMA LookFullInv ==
    ASSUME SessionIInv, LookFull
    PROVE  SessionIInv'
  <1>1. /\ pc = "look" /\ pc' = "list" /\ bundle' = vault
        /\ UNCHANGED <<vault, editor, op, mine, sid, todo, kept, changed, hook, looked, arrived,
                       live, born, owned, lost, stale>>
    BY DEF LookFull, guard, platform, history
  <1>2. looked = "no"
    BY <1>1 DEF SessionIInv, GuardInStep
  <1>3. TypeOK'
    BY <1>1 DEF SessionIInv, LedgerInv, TypeOK, PCs
  <1>4. LedgerIsOwned' /\ CopiesAreLedgers'
    BY <1>1, InStep DEF LedgerIsOwned, Owned, SessionIInv, CopiesAreLedgers
  <1>5. NoSessionForgotten'
    BY <1>1, InStep DEF NoSessionForgotten
  <1>6. LoginRespectsCapacity' /\ SidInStep' /\ CleanupInStep' /\ GuardInStep'
    BY <1>1, <1>2 DEF LoginRespectsCapacity, SidInStep, CleanupInStep, GuardInStep, SessionIInv
  <1>7. QED
    BY <1>3, <1>4, <1>5, <1>6 DEF SessionIInv, LedgerInv

\* The list a cleanup works on.
LEMMA ExcessType ==
    ASSUME NEW b \in Entries
    PROVE  Excess(b) \in Seq(Sids)
  <1> DEFINE m == Only(b.ledger, live \ {b.token})
             k == Len(m) - Durable
  <1>1. m \in Seq(Sids) /\ Durable \in Nat /\ Durable >= 1
    BY OnlyKeeps, LedgerAssumption DEF Entries
  <1>2. Excess(b) = SubSeq(m, 1, k)
    BY DEF Excess, Spare
  <1> HIDE DEF m
  <1>3. Len(m) \in Nat /\ k \in Int /\ k < Len(m)
    BY <1>1
  <1>4. CASE k >= 1
    BY <1>1, <1>2, <1>3, <1>4
  <1>5. CASE k < 1
    BY <1>1, <1>2, <1>3, <1>5
  <1>6. QED
    BY <1>3, <1>4, <1>5

LEMMA ListInv ==
    ASSUME SessionIInv, List
    PROVE  SessionIInv'
  <1>1. /\ pc = "list" /\ pc' = "revoke" /\ todo' = Excess(bundle)
        /\ kept' = ToSet(bundle.ledger) \intersect live
        /\ UNCHANGED <<vault, editor, op, bundle, mine, sid, changed, hook, looked, arrived,
                       live, born, owned, lost, stale>>
    BY DEF List, guard, platform, history
  <1>2. looked = "no"
    BY <1>1 DEF SessionIInv, GuardInStep
  <1>3. TypeOK'
    <2>1. todo' \in Seq(Sids) /\ kept' \in SUBSET Sids
      BY <1>1, InStep, ExcessType
    <2>2. QED
      BY <1>1, <2>1 DEF SessionIInv, LedgerInv, TypeOK, PCs
  <1>4. LedgerIsOwned' /\ CopiesAreLedgers'
    BY <1>1, InStep DEF LedgerIsOwned, Owned, SessionIInv, CopiesAreLedgers
  <1>5. NoSessionForgotten'
    BY <1>1, InStep DEF NoSessionForgotten
  <1>6. CleanupInStep'
    <2>1. ASSUME NEW s \in ToSet(todo')
          PROVE  /\ s \in ToSet(bundle.ledger) \ {bundle.token}
                 /\ Cardinality(Newer(bundle, s)) >= Durable
      BY <1>1, <2>1, InStep, ExcessIsOld DEF Owned
    <2>2. \A s : Newer(bundle, s)' = Newer(bundle, s)
      BY <1>1 DEF Newer
    <2>3. QED
      BY <1>1, <2>1, <2>2 DEF CleanupInStep
  <1>7. LoginRespectsCapacity' /\ SidInStep' /\ GuardInStep'
    BY <1>1, <1>2 DEF LoginRespectsCapacity, SidInStep, GuardInStep, SessionIInv
  <1>8. QED
    BY <1>3, <1>4, <1>5, <1>6, <1>7 DEF SessionIInv, LedgerInv

\* The last of a sequence and the rest.
LEMMA FrontAndLast ==
    ASSUME NEW t \in Seq(Sids), t # <<>>
    PROVE  Front(t) \in Seq(Sids) /\ ToSet(Front(t)) \subseteq ToSet(t) /\ Last(t) \in ToSet(t)
  <1>1. Len(t) \in Nat /\ Len(t) >= 1 /\ DOMAIN t = 1 .. Len(t)
    BY EmptySeq
  <1>2. Last(t) \in ToSet(t)
    BY <1>1 DEF Last, ToSet
  <1>3. Front(t) = SubSeq(t, 1, Len(t) - 1)
    BY DEF Front
  <1> DEFINE r == SubSeq(t, 1, Len(t) - 1)
  <1>4. /\ r \in Seq(Sids) /\ DOMAIN r = 1 .. Len(t) - 1
        /\ \A i \in 1 .. Len(t) - 1 : r[i] = t[i] /\ i \in 1 .. Len(t)
    BY <1>1
  <1> HIDE DEF r
  <1>5. ToSet(r) \subseteq ToSet(t)
    BY <1>1, <1>4 DEF ToSet
  <1>6. QED
    BY <1>2, <1>3, <1>4, <1>5 DEF r

LEMMA RevokeNextInv ==
    ASSUME SessionIInv, RevokeNext
    PROVE  SessionIInv'
  <1>1. /\ pc = "revoke" /\ todo # <<>> /\ todo' = Front(todo)
        /\ live' \in {live, live \ {Last(todo)}}
        /\ \/ kept' = kept /\ changed' = changed
           \/ live' = live \ {Last(todo)} /\ kept' = kept \ {Last(todo)} /\ changed' = TRUE
        /\ UNCHANGED <<vault, editor, pc, op, bundle, mine, sid, hook, looked, arrived,
                       born, owned, lost, stale>>
    BY DEF RevokeNext, guard, history
  <1>2. looked = "no" /\ todo \in Seq(Sids)
    BY <1>1 DEF SessionIInv, GuardInStep, LedgerInv, TypeOK
  <1>3. todo' \in Seq(Sids) /\ ToSet(todo') \subseteq ToSet(todo)
    BY <1>1, <1>2, FrontAndLast
  <1>4. live' \subseteq live /\ IsFiniteSet(live')
    BY <1>1, InStep, FS_Subset
  <1>5. TypeOK'
    <2>1. kept' \in SUBSET Sids /\ changed' \in BOOLEAN
      BY <1>1 DEF SessionIInv, LedgerInv, TypeOK
    <2>2. QED
      BY <1>1, <1>3, <1>4, <2>1 DEF SessionIInv, LedgerInv, TypeOK
  <1>6. LedgerIsOwned' /\ CopiesAreLedgers'
    BY <1>1 DEF LedgerIsOwned, Owned, SessionIInv, LedgerInv, CopiesAreLedgers
  <1>7. NoSessionForgotten'
    BY <1>1, <1>4, InStep DEF NoSessionForgotten
  <1>8. CleanupInStep'
    <2>1. ToSet(bundle.ledger) \intersect live' \subseteq kept'
      <3>1. ToSet(bundle.ledger) \intersect live \subseteq kept
        BY <1>1 DEF SessionIInv, CleanupInStep
      <3>2. QED
        BY <1>1, <1>4, <3>1
    <2>2. ASSUME NEW s \in ToSet(todo')
          PROVE  /\ s \in ToSet(bundle.ledger) \ {bundle.token}
                 /\ Cardinality(Newer(bundle, s)) >= Durable
      BY <1>1, <1>3 DEF SessionIInv, CleanupInStep
    <2>3. \A s : Newer(bundle, s)' = Newer(bundle, s)
      BY <1>1 DEF Newer
    <2>4. QED
      BY <1>1, <2>1, <2>2, <2>3 DEF CleanupInStep
  <1>9. LoginRespectsCapacity' /\ SidInStep' /\ GuardInStep'
    BY <1>1, <1>2, <1>4 DEF LoginRespectsCapacity, SidInStep, GuardInStep, SessionIInv
  <1>10. QED
    BY <1>5, <1>6, <1>7, <1>8, <1>9 DEF SessionIInv, LedgerInv

\* The platform has handed out a session, and the broker knows it.
LEMMA GivenInv ==
    ASSUME SessionIInv, NEW s \in Sids, Given(s), pc \in {"login", "refresh"},
           live' \subseteq born', born \subseteq born', born' \subseteq Sids, s \in born',
           live' \subseteq live \union {s}
    PROVE  SessionIInv'
  <1>1. /\ sid' = s /\ owned' = owned \union {s} /\ pc' = "saveLogin"
        /\ UNCHANGED <<vault, editor, op, bundle, mine, todo, kept, changed, hook, looked, arrived,
                       lost, stale>>
    BY DEF Given, guard
  <1>2. IsFiniteSet(live')
    <2>1. IsFiniteSet(live \union {s})
      BY InStep, FS_AddElement
    <2>2. QED
      BY <2>1, FS_Subset
  <1>3. TypeOK'
    BY <1>1, InStep DEF SessionIInv, LedgerInv, TypeOK, PCs
  <1>4. LedgerIsOwned' /\ CopiesAreLedgers'
    <2>1. \A l : Owned(l) => Owned(l)'
      BY <1>1 DEF Owned
    <2>2. QED
      BY <1>1, <2>1, InStep DEF LedgerIsOwned, Owned, SessionIInv, CopiesAreLedgers
  <1>5. NoSessionForgotten'
    <2>1. stale \/ owned \intersect live \subseteq ToSet(vault.ledger) \union lost
      BY InStep
    <2>2. s \in (ToSet(vault.ledger) \union Unrecorded)'
      BY <1>1 DEF Unrecorded
    <2>3. QED
      BY <1>1, <2>1, <2>2 DEF NoSessionForgotten
  <1>6. LoginRespectsCapacity' /\ SidInStep' /\ CleanupInStep' /\ GuardInStep'
    BY <1>1, <1>2 DEF LoginRespectsCapacity, SidInStep, CleanupInStep, GuardInStep, SessionIInv
  <1>7. QED
    BY <1>3, <1>4, <1>5, <1>6 DEF SessionIInv, LedgerInv

LEMMA LoginInv ==
    ASSUME SessionIInv, Login
    PROVE  SessionIInv'
  <1>1. PICK s \in Sids \ born : Given(s) /\ live' = live \union {s} /\ born' = born \union {s}
    BY DEF Login
  <1>2. pc = "login" /\ live \subseteq born /\ born \subseteq Sids
    BY InStep DEF Login
  <1>3. QED
    BY <1>1, <1>2, GivenInv

LEMMA RefreshInv ==
    ASSUME SessionIInv, Refresh
    PROVE  SessionIInv'
  <1>1. pc = "refresh" /\ bundle.token \in live /\ live \subseteq born /\ born \subseteq Sids
    BY InStep DEF Refresh, Readable
  <1>2. CASE Given(bundle.token) /\ UNCHANGED platform
    <2>1. UNCHANGED <<live, born>> /\ bundle.token \in Sids
      BY <1>1, <1>2 DEF platform
    <2>2. QED
      BY <1>1, <1>2, <2>1, GivenInv
  <1>3. ASSUME NEW s \in Sids \ born, Given(s), live' = (live \ {bundle.token}) \union {s},
               born' = born \union {s}
        PROVE  SessionIInv'
    BY <1>1, <1>3, GivenInv
  <1>4. QED
    BY <1>2, <1>3 DEF Refresh

LEMMA RevokeOneInv ==
    ASSUME SessionIInv, RevokeOne
    PROVE  SessionIInv'
  <1>1. /\ pc = "revokeOne" /\ live' = live \ {sid}
        /\ UNCHANGED <<vault, editor, hook, looked, arrived, born, owned, lost, stale>>
    BY DEF RevokeOne, guard, history
  <1>2. looked = "no" /\ IsFiniteSet(live') /\ live' \subseteq live
    BY <1>1, InStep, FS_Subset DEF SessionIInv, GuardInStep
  <1>3. CASE /\ sid \in ToSet(bundle.ledger) /\ pc' = "saveOne"
             /\ UNCHANGED <<op, bundle, mine, sid, todo, kept, changed>>
    <2>1. sid \in born
      BY <1>3, InStep DEF Owned
    <2>2. TypeOK'
      BY <1>1, <1>2, <1>3 DEF SessionIInv, LedgerInv, TypeOK, PCs
    <2>3. LedgerIsOwned' /\ CopiesAreLedgers'
      BY <1>1, <1>3 DEF LedgerIsOwned, Owned, SessionIInv, LedgerInv, CopiesAreLedgers
    <2>4. NoSessionForgotten'
      BY <1>1, <1>2, <1>3, InStep DEF NoSessionForgotten
    <2>5. LoginRespectsCapacity' /\ SidInStep' /\ CleanupInStep' /\ GuardInStep'
      BY <1>1, <1>2, <1>3, <2>1
         DEF LoginRespectsCapacity, SidInStep, CleanupInStep, GuardInStep, SessionIInv
    <2>6. QED
      BY <2>2, <2>3, <2>4, <2>5 DEF SessionIInv, LedgerInv
  <1>4. CASE Release
    BY <1>1, <1>2, <1>4, InStep, EndInv DEF Owned
  <1>5. QED
    BY <1>3, <1>4 DEF RevokeOne

LEMMA RevokeOthersInv ==
    ASSUME SessionIInv, RevokeOthers
    PROVE  SessionIInv'
  <1>1. /\ pc = "revokeOthers" /\ bundle.token \in live /\ live' = {bundle.token}
        /\ pc' = "listOthers"
        /\ UNCHANGED <<vault, editor, op, bundle, mine, sid, todo, kept, changed,
                       hook, looked, arrived, born, owned, lost, stale>>
    BY DEF RevokeOthers, Readable, guard, history
  <1>2. looked = "no" /\ live' \subseteq live /\ IsFiniteSet(live')
    BY <1>1, InStep, FS_Subset DEF SessionIInv, GuardInStep
  <1>3. TypeOK'
    BY <1>1, <1>2 DEF SessionIInv, LedgerInv, TypeOK, PCs
  <1>4. LedgerIsOwned' /\ CopiesAreLedgers'
    BY <1>1 DEF LedgerIsOwned, Owned, SessionIInv, LedgerInv, CopiesAreLedgers
  <1>5. NoSessionForgotten'
    BY <1>1, <1>2, InStep DEF NoSessionForgotten
  <1>6. LoginRespectsCapacity' /\ SidInStep' /\ CleanupInStep' /\ GuardInStep'
    BY <1>1, <1>2 DEF LoginRespectsCapacity, SidInStep, CleanupInStep, GuardInStep, SessionIInv
  <1>7. QED
    BY <1>3, <1>4, <1>5, <1>6 DEF SessionIInv, LedgerInv

------------------------------------------------------------------------------
(***************************************************************************)
(* The steps of the platform and of the edit.                              *)
(***************************************************************************)
LEMMA LoginElsewhereInv ==
    ASSUME SessionIInv, NEW s \in Sids, LoginElsewhere(s)
    PROVE  SessionIInv'
  <1>1. /\ s \notin born /\ live' = live \union {s} /\ born' = born \union {s}
        /\ arrived' = IF op = "login" THEN arrived + 1 ELSE arrived
        /\ UNCHANGED <<vault, editor, pc, op, bundle, mine, sid, todo, kept, changed, hook, looked,
                       owned, lost, stale>>
    BY DEF LoginElsewhere, operation, history
  <1>2. s \notin live /\ IsFiniteSet(live) /\ arrived \in Nat
    BY <1>1, InStep
  <1>3. IsFiniteSet(live') /\ Cardinality(live') = Cardinality(live) + 1 /\ Cardinality(live) \in Nat
    BY <1>1, <1>2, FS_AddElement, FS_CardinalityType
  <1>4. TypeOK'
    <2>1. arrived' \in Nat
      BY <1>1, <1>2
    <2>2. QED
      BY <1>1, <2>1 DEF SessionIInv, LedgerInv, TypeOK
  <1>5. LedgerIsOwned' /\ CopiesAreLedgers'
    BY <1>1 DEF LedgerIsOwned, Owned, SessionIInv, LedgerInv, CopiesAreLedgers
  <1>6. owned \intersect live' = owned \intersect live /\ ToSet(bundle.ledger) \intersect live'
                               = ToSet(bundle.ledger) \intersect live
    BY <1>1, InStep DEF Owned
  <1>7. NoSessionForgotten'
    BY <1>1, <1>6 DEF NoSessionForgotten, Unrecorded, SessionIInv
  <1>8. LoginRespectsCapacity'
    <2>1. SUFFICES ASSUME pc = "login", looked = "ok"
                   PROVE  Cardinality(live') < Threshold + arrived'
      BY <1>1 DEF LoginRespectsCapacity
    <2>2. op = "login" /\ Cardinality(live) < Threshold + arrived
      BY <2>1 DEF SessionIInv, GuardInStep, LoginRespectsCapacity
    <2>3. Threshold \in Nat
      BY LedgerAssumption
    <2>4. QED
      BY <1>1, <1>2, <1>3, <2>2, <2>3
  <1>9. CleanupInStep'
    <2>1. \A t : Newer(bundle, t)' = Newer(bundle, t)
      BY <1>1 DEF Newer
    <2>2. QED
      BY <1>1, <1>6, <2>1 DEF CleanupInStep, SessionIInv
  <1>10. SidInStep' /\ GuardInStep'
    BY <1>1, <1>3 DEF SidInStep, GuardInStep, SessionIInv
  <1>11. QED
    BY <1>4, <1>5, <1>7, <1>8, <1>9, <1>10 DEF SessionIInv, LedgerInv

LEMMA SessionEndsInv ==
    ASSUME SessionIInv, NEW s \in Sids, SessionEnds(s)
    PROVE  SessionIInv'
  <1>1. /\ s \in live /\ live' = live \ {s}
        /\ UNCHANGED <<vault, editor, pc, op, bundle, mine, sid, todo, kept, changed, hook, looked,
                       arrived, born, owned, lost, stale>>
    BY DEF SessionEnds, operation, guard, history
  <1>2. /\ IsFiniteSet(live') /\ Cardinality(live') <= Cardinality(live) /\ live' \subseteq live
        /\ Cardinality(live) \in Nat /\ Cardinality(live') \in Nat
    BY <1>1, InStep, FS_Subset, FS_CardinalityType
  <1>3. TypeOK'
    BY <1>1 DEF SessionIInv, LedgerInv, TypeOK
  <1>4. LedgerIsOwned' /\ CopiesAreLedgers'
    BY <1>1 DEF LedgerIsOwned, Owned, SessionIInv, LedgerInv, CopiesAreLedgers
  <1>5. NoSessionForgotten'
    BY <1>1 DEF NoSessionForgotten, Unrecorded, SessionIInv
  <1>6. LoginRespectsCapacity'
    <2>1. arrived \in Nat /\ Threshold \in Nat
      BY InStep, LedgerAssumption
    <2>2. QED
      BY <1>1, <1>2, <2>1 DEF LoginRespectsCapacity, SessionIInv
  <1>7. CleanupInStep'
    <2>1. \A t : Newer(bundle, t)' = Newer(bundle, t)
      BY <1>1 DEF Newer
    <2>2. QED
      BY <1>1, <2>1 DEF CleanupInStep, SessionIInv
  <1>8. SidInStep' /\ GuardInStep'
    BY <1>1, <1>2 DEF SidInStep, GuardInStep, SessionIInv
  <1>9. QED
    BY <1>3, <1>4, <1>5, <1>6, <1>7, <1>8 DEF SessionIInv, LedgerInv

\* A step that leaves the operation, the platform and the history alone.
LEMMA EditInv ==
    ASSUME SessionIInv,
           vault' \in Entries, editor' \in Entries \union {NoEdit}, hook' \in BOOLEAN,
           Owned(vault'.ledger), editor' # NoEdit => Owned(editor'.ledger),
           stale' \in BOOLEAN, ~stale' => ~stale /\ vault' = vault,
           UNCHANGED <<operation, looked, arrived, platform, owned, lost>>
    PROVE  SessionIInv'
  <1>1. UNCHANGED <<pc, op, bundle, mine, sid, todo, kept, changed, looked, arrived,
                    live, born, owned, lost>>
    BY DEF operation, platform
  <1>2. TypeOK'
    BY <1>1 DEF SessionIInv, LedgerInv, TypeOK
  <1>3. LedgerIsOwned' /\ CopiesAreLedgers'
    BY <1>1 DEF LedgerIsOwned, Owned, SessionIInv, LedgerInv, CopiesAreLedgers
  <1>4. NoSessionForgotten'
    BY <1>1 DEF NoSessionForgotten, Unrecorded, SessionIInv
  <1>5. CleanupInStep'
    <2>1. \A t : Newer(bundle, t)' = Newer(bundle, t)
      BY <1>1 DEF Newer
    <2>2. QED
      BY <1>1, <2>1 DEF CleanupInStep, SessionIInv
  <1>6. LoginRespectsCapacity' /\ SidInStep' /\ GuardInStep'
    BY <1>1 DEF LoginRespectsCapacity, SidInStep, GuardInStep, SessionIInv
  <1>7. QED
    BY <1>2, <1>3, <1>4, <1>5, <1>6 DEF SessionIInv, LedgerInv

LEMMA EditsInv ==
    ASSUME SessionIInv, Preview \/ EditLoad \/ EditSave \/ UNCHANGED vars
    PROVE  SessionIInv'
  <1>1. /\ vault \in Entries /\ editor \in Entries \union {NoEdit} /\ hook \in BOOLEAN
        /\ Owned(vault.ledger) /\ (editor # NoEdit => Owned(editor.ledger)) /\ stale \in BOOLEAN
    BY InStep DEF SessionIInv, LedgerInv, TypeOK, CopiesAreLedgers
  <1>2. CASE Preview
    BY <1>1, <1>2, EditInv DEF Preview, history
  <1>3. CASE EditLoad
    BY <1>1, <1>3, EditInv DEF EditLoad, guard, history
  <1>4. CASE EditSave
    <2>1. /\ editor # NoEdit /\ vault' = editor /\ editor' = NoEdit
          /\ stale' = (stale \/ editor # vault)
          /\ UNCHANGED <<operation, hook, looked, arrived, platform, owned, lost>>
      BY <1>4 DEF EditSave, guard
    <2>2. /\ stale' \in BOOLEAN /\ (~stale' => ~stale /\ vault' = vault)
      BY <2>1, Zenon
    <2>3. QED
      BY <1>1, <2>1, <2>2, EditInv
  <1>5. CASE UNCHANGED vars
    BY <1>1, <1>5, EditInv DEF vars, guard, history
  <1>6. QED
    BY <1>2, <1>3, <1>4, <1>5

------------------------------------------------------------------------------
(***************************************************************************)
(* The invariant of the specification.                                     *)
(***************************************************************************)
LEMMA SessionInit == Init => SessionIInv
  <1>1. SUFFICES ASSUME Init PROVE SessionIInv
    OBVIOUS
  <1>2. /\ vault = NoBundle /\ bundle = NoBundle /\ mine = NoBundle /\ editor = NoEdit
        /\ hook = FALSE /\ pc = "idle" /\ op = "none" /\ sid = NoSid
        /\ todo = <<>> /\ kept = {} /\ changed = FALSE /\ looked = "no" /\ arrived = 0
        /\ live = {} /\ born = {} /\ owned = {} /\ lost = {} /\ stale = FALSE
    BY <1>1 DEF Init
  <1>3. TypeOK
    <2>1. todo \in Seq(Sids)
      BY <1>2
    <2>2. QED
      BY <1>2, <2>1, EmptyBundle DEF TypeOK, PCs, Ops
  <1>4. LedgerIsOwned /\ CopiesAreLedgers
    BY <1>2, EmptyBundle DEF LedgerIsOwned, CopiesAreLedgers, Owned
  <1>5. NoSessionForgotten /\ LoginRespectsCapacity /\ SidInStep /\ CleanupInStep
    BY <1>2 DEF NoSessionForgotten, LoginRespectsCapacity, SidInStep, CleanupInStep
  <1>6. GuardInStep
    BY <1>2, FS_EmptySet DEF GuardInStep
  <1>7. QED
    BY <1>3, <1>4, <1>5, <1>6 DEF SessionIInv, LedgerInv

LEMMA SessionNext == SessionIInv /\ [Next]_vars => SessionIInv'
  <1>1. SUFFICES ASSUME SessionIInv, [Next]_vars PROVE SessionIInv'
    OBVIOUS
  <1>2. CASE Handler
    <2>1. CASE Preview
      BY <1>1, <2>1, EditsInv
    <2>2. CASE BeginCleanup \/ BeginRevokeOne \/ BeginRevokeOthers \/ BeginRefresh \/ BeginLogin
      BY <1>1, <2>2, BeginsInv
    <2>3. CASE LookFails
      BY <1>1, <2>3, AdmitInv DEF LookFails
    <2>4. CASE LookEnough
      BY <1>1, <2>4, AdmitInv DEF LookEnough
    <2>5. CASE LookFull
      BY <1>1, <2>5, LookFullInv
    <2>6. CASE LookAgain
      BY <1>1, <2>6, AdmitInv DEF LookAgain
    <2>7. CASE Blocked
      BY <1>1, <2>7, BlockedInv
    <2>8. CASE List
      BY <1>1, <2>8, ListInv
    <2>9. CASE RevokeNext
      BY <1>1, <2>9, RevokeNextInv
    <2>10. CASE RevokedNone
      BY <1>1, <2>10, RevokedNoneInv
    <2>11. CASE SaveClean
      BY <1>1, <2>11, SaveCleanInv
    <2>12. CASE Login
      BY <1>1, <2>12, LoginInv
    <2>13. CASE Refresh
      BY <1>1, <2>13, RefreshInv
    <2>14. CASE SaveLogin
      BY <1>1, <2>14, SaveLoginInv
    <2>15. CASE RevokeOne
      BY <1>1, <2>15, RevokeOneInv
    <2>16. CASE SaveOne
      BY <1>1, <2>16, SaveOneInv
    <2>17. CASE RevokeOthers
      BY <1>1, <2>17, RevokeOthersInv
    <2>18. CASE SaveOthers
      BY <1>1, <2>18, SaveOthersInv
    <2>19. CASE Fail
      BY <1>1, <2>19, FailInv
    <2>20. QED
      BY <1>2, <2>1, <2>2, <2>3, <2>4, <2>5, <2>6, <2>7, <2>8, <2>9, <2>10, <2>11, <2>12,
         <2>13, <2>14, <2>15, <2>16, <2>17, <2>18, <2>19 DEF Handler
  <1>3. ASSUME NEW s \in Sids, LoginElsewhere(s) PROVE SessionIInv'
    BY <1>1, <1>3, LoginElsewhereInv
  <1>4. ASSUME NEW s \in Sids, SessionEnds(s) PROVE SessionIInv'
    BY <1>1, <1>4, SessionEndsInv
  <1>5. CASE EditLoad \/ EditSave \/ UNCHANGED vars
    BY <1>1, <1>5, EditsInv
  <1>6. CASE Crash
    BY <1>1, <1>6, CrashInv
  <1>7. QED
    BY <1>1, <1>2, <1>3, <1>4, <1>5, <1>6 DEF Next

\* The inductive invariant: every copy of the bundle an operation or an edit
\* holds is a ledger of the workbench's own sessions, and, unless an older one
\* was written back, the operation works on what the vault holds.
THEOREM SessionIInvariant == Spec => []SessionIInv
  <1>1. Init => SessionIInv
    BY SessionInit
  <1>2. SessionIInv /\ [Next]_vars => SessionIInv'
    BY SessionNext
  <1>3. QED
    BY <1>1, <1>2, PTL DEF Spec

\* Whatever is tracked, revoked, cleaned up and edited, the ledger of the saved
\* bundle (trackManagedSession) has only sessions the workbench created, none
\* twice, and never more than maxLedger of them.
THEOREM LedgerHolds == Spec => []LedgerInv
  <1>1. SessionIInv => LedgerInv
    BY DEF SessionIInv
  <1>2. QED
    BY <1>1, SessionIInvariant, PTL

\* Failed, lost and half done revocations and crashes of Cleanup, RevokeOne and
\* RevokeAllOthers never drop a session from the ledger that is still listed.
THEOREM NothingIsForgotten == Spec => []NoSessionForgotten
  <1>1. SessionIInv => NoSessionForgotten
    BY DEF SessionIInv
  <1>2. QED
    BY <1>1, SessionIInvariant, PTL

\* CapacityGuard.BeforeLogin: a login it has let through finds fewer sessions
\* than the threshold, but for those that came from elsewhere since it looked.
THEOREM GuardLeavesRoom == Spec => []LoginRespectsCapacity
  <1>1. SessionIInv => LoginRespectsCapacity
    BY DEF SessionIInv
  <1>2. QED
    BY <1>1, SessionIInvariant, PTL

\* The save of a session (persistParentSessionLocked), of a cleanup and of a
\* revocation never brings an entry back that another has removed.
THEOREM LedgerOnlyMovesForward == Spec => LedgerMovesForward
  <1>1. ASSUME SessionIInv, [Next]_vars, ~stale'
        PROVE  ToSet(vault'.ledger) \subseteq ToSet(vault.ledger) \union {sid}
    <2>1. CASE UNCHANGED vault
      BY <2>1
    <2>2. CASE SaveClean \/ SaveOne \/ SaveOthers
      <3>1. /\ bundle = vault
            /\ \E S : vault' = [bundle EXCEPT !.ledger = Only(@, S)]
        <4>1. pc \in {"revoke", "saveOne", "listOthers"} /\ stale' = stale
          BY <2>2 DEF SaveClean, SaveOne, SaveOthers, history
        <4>2. \E S : vault' = [bundle EXCEPT !.ledger = Only(@, S)]
          <5>1. CASE SaveClean
            BY <5>1 DEF SaveClean
          <5>2. CASE SaveOne
            BY <5>2 DEF SaveOne
          <5>3. CASE SaveOthers
            BY <5>3 DEF SaveOthers
          <5>4. QED
            BY <2>2, <5>1, <5>2, <5>3
        <4>3. QED
          BY <1>1, <4>1, <4>2, InStep
      <3>2. PICK S : vault' = [bundle EXCEPT !.ledger = Only(@, S)]
        BY <3>1
      <3>3. vault'.ledger = Only(vault.ledger, S)
        BY <1>1, <3>1, <3>2, InStep DEF Entries
      <3>4. ToSet(Only(vault.ledger, S)) = ToSet(vault.ledger) \intersect S
        BY <1>1, InStep, OnlyKeeps
      <3>5. QED
        BY <3>3, <3>4
    <2>3. CASE SaveLogin
      <3>1. pc = "saveLogin" /\ stale' = stale
        BY <2>3 DEF SaveLogin
      <3>2. bundle = vault /\ sid \in Sids
        BY <1>1, <3>1, InStep DEF SessionIInv, SidInStep
      <3>3. PICK named \in {sid, NoSid} : vault'.ledger = Track(bundle.ledger, named)
        BY <2>3 DEF SaveLogin, SessionIDFromAccessToken
      <3>4. ToSet(Track(bundle.ledger, named)) \subseteq ToSet(bundle.ledger) \union {sid}
        <4>1. /\ bundle.ledger \in Seq(Sids) /\ IsInjective(bundle.ledger)
              /\ Len(bundle.ledger) <= MaxLedger
          BY <1>1, InStep DEF Owned
        <4>2. QED
          BY <3>2, <3>3, <4>1, TrackKeeps
      <3>5. QED
        BY <3>2, <3>3, <3>4
    <2>4. CASE EditSave
      <3>1. vault' = vault
        BY <1>1, <2>4, Zenon DEF EditSave
      <3>2. QED
        BY <3>1
    <2>5. vault' = vault \/ SaveClean \/ SaveOne \/ SaveOthers \/ SaveLogin \/ EditSave
      BY <1>1 DEF Next, Handler, vars, Preview, BeginCleanup, BeginRevokeOne, BeginRevokeOthers,
                  BeginRefresh, BeginLogin, Begin, LookFails, LookEnough, LookAgain, Admit, LookFull,
                  Blocked, List, RevokeNext, RevokedNone, Login, Refresh, Given, RevokeOne,
                  RevokeOthers, Fail, LoginElsewhere, SessionEnds, EditLoad, Crash
    <2>6. QED
      BY <2>1, <2>2, <2>3, <2>4, <2>5
  <1>2. QED
    BY <1>1, SessionIInvariant, PTL DEF Spec, LedgerMovesForward

\* Cleanup revokes only sessions the workbench created, never the current one,
\* and never one of the DurableSessionLimit newest spare ones.
THEOREM CleanupSparesTheRest == Spec => CleanupIsConservative
  <1>1. ASSUME SessionIInv, [Next]_vars, pc = "revoke", NEW s \in live \ live', ~stale, todo' # todo
        PROVE  s \in owned \ {vault.token} /\ Cardinality(Newer(vault, s)) >= Durable
    <2>1. RevokeNext \/ live \subseteq live' \/ todo' = todo
      BY <1>1 DEF Next, Handler, vars, operation, platform, Preview, BeginCleanup, BeginRevokeOne,
                  BeginRevokeOthers, BeginRefresh, BeginLogin, Begin, LookFails, LookEnough,
                  LookAgain, LookFull, Blocked, List, RevokedNone, SaveClean, Login, Refresh,
                  SaveLogin, RevokeOne, SaveOne, RevokeOthers, SaveOthers, Fail, LoginElsewhere,
                  SessionEnds, EditLoad, EditSave, Crash
    <2>2. todo # <<>> /\ live' \in {live, live \ {Last(todo)}}
      BY <1>1, <2>1 DEF RevokeNext
    <2>3. s \in ToSet(todo)
      BY <1>1, <2>2, FrontAndLast DEF SessionIInv, LedgerInv, TypeOK
    <2>4. bundle = vault /\ ToSet(vault.ledger) \subseteq owned
      BY <1>1, InStep DEF Owned
    <2>5. s \in ToSet(bundle.ledger) \ {bundle.token} /\ Cardinality(Newer(bundle, s)) >= Durable
      BY <1>1, <2>3 DEF SessionIInv, CleanupInStep
    <2>6. QED
      BY <2>4, <2>5
  <1>2. SessionIInv /\ [Next]_vars =>
            (pc = "revoke" => \A s \in live \ live' :
                ~stale /\ todo' # todo =>
                    /\ s \in owned \ {vault.token}
                    /\ Cardinality(Newer(vault, s)) >= Durable)
    BY <1>1
  <1>3. QED
    BY <1>2, SessionIInvariant, PTL DEF Spec, CleanupIsConservative
===============================================================================
