---------------------------- MODULE Fetcher_proof ----------------------------
(* Proofs about Fetcher, with the probe log and its summary.                  *)
EXTENDS Fetcher, TLAPS, FiniteSetTheorems, SequenceTheorems

-----------------------------------------------------------------------------
(* Counting and recursion *)

\* A set that holds 0 and, with a number, the next one holds all numbers.
LEMMA Counting ==
    ASSUME NEW G, 0 \in G, \A n \in Nat : n \in G => n + 1 \in G
    PROVE  \A n \in Nat : n \in G
<1> SUFFICES ASSUME Nat \ G # {} PROVE FALSE
  OBVIOUS
<1> DEFINE R == OpToRel(<, Nat)
<1>1. IsWellFoundedOn(R, Nat)
  BY NatLessThanWellFounded
<1>2. \A k, n \in Nat : k < n => <<k, n>> \in R
  BY DEF OpToRel
<1> HIDE DEF R
<1>3. PICK n \in Nat \ G : \A k \in Nat \ G : ~(<<k, n>> \in R)
  BY <1>1, WFMin
<1>4. n - 1 \in Nat /\ n - 1 < n /\ (n - 1) + 1 = n
  BY <1>3
<1>5. <<n - 1, n>> \in R
  BY <1>2, <1>3, <1>4
<1>6. n - 1 \in G
  BY <1>3, <1>4, <1>5
<1>7. (n - 1) + 1 \in G
  BY <1>4, <1>6
<1> QED BY <1>3, <1>4, <1>7

\* A function can be built from its first value, step by step.
Steps(N, T) == [(1..N) \X T -> T]
Built(N, T, base, step) ==
    \E f \in [0..N -> T] :
        f[0] = base /\ \A k \in 1..N : f[k] = step[<<k, f[k - 1]>>]

LEMMA Recursion ==
    ASSUME NEW N \in Nat, NEW T, NEW base \in T, NEW step \in Steps(N, T)
    PROVE  Built(N, T, base, step)
<1> USE DEF Steps
<1> DEFINE P(n) == \E f \in [0..n -> T] :
                      f[0] = base /\ \A k \in 1..n : f[k] = step[<<k, f[k - 1]>>]
           G == {n \in Nat : n <= N => P(n)}
<1>1. 0 \in G
  <2> DEFINE f == [k \in 0..0 |-> base]
  <2>1. f \in [0..0 -> T] /\ f[0] = base /\ \A k \in 1..0 : FALSE
    OBVIOUS
  <2> HIDE DEF f
  <2>2. P(0)
    BY <2>1
  <2> QED BY <2>2
<1>2. ASSUME NEW n \in Nat, n \in G PROVE n + 1 \in G
  <2> SUFFICES ASSUME n + 1 <= N PROVE P(n + 1)
    OBVIOUS
  <2>1. PICK f \in [0..n -> T] :
           f[0] = base /\ \A k \in 1..n : f[k] = step[<<k, f[k - 1]>>]
    BY <1>2
  <2> DEFINE next == step[<<n + 1, f[n]>>]
             g == [k \in 0..(n + 1) |-> IF k = n + 1 THEN next ELSE f[k]]
  <2>2. next \in T
    <3>1. n \in 0..n /\ n + 1 \in 1..N
      OBVIOUS
    <3> QED BY <2>1, <3>1
  <2>3. g \in [0..(n + 1) -> T] /\ g[0] = base
    <3> HIDE DEF next
    <3>1. \A k \in 0..(n + 1) : k = n + 1 \/ k \in 0..n
      OBVIOUS
    <3> QED BY <2>1, <2>2, <3>1
  <2>4. ASSUME NEW k \in 1..(n + 1) PROVE g[k] = step[<<k, g[k - 1]>>]
    <3>1. k - 1 \in 0..n /\ g[k - 1] = f[k - 1]
      OBVIOUS
    <3>2. CASE k = n + 1
      BY <3>1, <3>2
    <3>3. CASE k # n + 1
      BY <2>1, <3>1, <3>3
    <3> QED BY <3>2, <3>3
  <2> HIDE DEF g
  <2> QED BY <2>3, <2>4
<1> HIDE DEF P
<1>3. N \in G
  <2> HIDE DEF G
  <2> QED BY <1>1, <1>2, Counting
<1> QED BY <1>3 DEF P, Built

-----------------------------------------------------------------------------
(* The size of a log *)

\* The sum behind Bytes.
SumOf(s, f) ==
    /\ f \in [0..Len(s) -> Nat]
    /\ f[0] = 0
    /\ \A n \in 1..Len(s) : f[n] = f[n - 1] + s[n].size

LEMMA BytesIsSum ==
    ASSUME NEW s \in Seq(Lines)
    PROVE  \E f : SumOf(s, f) /\ Bytes(s) = f[Len(s)]
<1> DEFINE N == Len(s)
           E(f) == [n \in 0..N |-> IF n = 0 THEN 0 ELSE f[n - 1] + s[n].size]
           h == CHOOSE f : f = E(f)
<1>1. N \in Nat /\ \A n \in 1..N : s[n].size \in Nat
  <2>1. N \in Nat /\ \A n \in 1..N : s[n] \in Lines
    OBVIOUS
  <2> QED BY <2>1 DEF Lines
<1>2. \E f : f = E(f)
  <2> DEFINE step == [p \in (1..N) \X Nat |-> p[2] + s[p[1]].size]
  <2>1. step \in [(1..N) \X Nat -> Nat]
    BY <1>1
  <2>2. \A n \in 1..N, x \in Nat : step[<<n, x>>] = x + s[n].size
    OBVIOUS
  <2> HIDE DEF step
  <2>3. PICK f \in [0..N -> Nat] :
           f[0] = 0 /\ \A k \in 1..N : f[k] = step[<<k, f[k - 1]>>]
    <3> HIDE DEF N
    <3>1. 0 \in Nat /\ step \in Steps(N, Nat)
      BY <2>1 DEF Steps
    <3>2. Built(N, Nat, 0, step)
      BY <1>1, <3>1, Recursion
    <3> QED BY <3>2 DEF Built
  <2>4. \A n \in 0..N : n = 0 \/ (n \in 1..N /\ n - 1 \in 0..N)
    BY <1>1
  <2>5. \A n \in 0..N : f[n] = IF n = 0 THEN 0 ELSE f[n - 1] + s[n].size
    BY <2>2, <2>3, <2>4
  <2> QED BY <2>3, <2>5
<1>3. h = E(h)
  BY <1>2
<1>4. Bytes(s) = h[N]
  BY DEF Bytes
<1> HIDE DEF h
<1>5. h[0] = 0 /\ \A n \in 1..N : h[n] = h[n - 1] + s[n].size
  BY <1>1, <1>3
<1>6. \A n \in 0..N : h[n] \in Nat
  <2> DEFINE G == {n \in Nat : n <= N => h[n] \in Nat}
  <2>1. 0 \in G
    BY <1>5
  <2>2. ASSUME NEW n \in Nat, n \in G PROVE n + 1 \in G
    <3> SUFFICES ASSUME n + 1 <= N PROVE h[n + 1] \in Nat
      OBVIOUS
    <3>1. n + 1 \in 1..N /\ (n + 1) - 1 = n /\ h[n] \in Nat
      BY <1>1, <2>2
    <3> QED BY <1>1, <1>5, <3>1
  <2> HIDE DEF G
  <2>3. \A n \in Nat : n \in G
    BY <2>1, <2>2, Counting
  <2> QED BY <1>1, <2>3 DEF G
<1>7. SumOf(s, h)
  BY <1>1, <1>3, <1>5, <1>6 DEF SumOf
<1> QED BY <1>4, <1>7

\* A piece of a log counts the same wherever it stands.
SamePiece(s, t, i, N) ==
    N <= Len(s) /\ N + i <= Len(t) /\ \A k \in 1..N : t[k + i] = s[k]

LEMMA SumOfPiece ==
    ASSUME NEW s \in Seq(Lines), NEW t \in Seq(Lines), NEW f, NEW g, SumOf(s, f), SumOf(t, g),
           NEW i \in Nat, NEW N \in Nat, SamePiece(s, t, i, N)
    PROVE  g[N + i] = g[i] + f[N]
<1> USE DEF SamePiece
<1> DEFINE G == {n \in Nat : n <= N => g[n + i] = g[i] + f[n]}
<1>1. \A k \in 0..Len(s) : f[k] \in Nat
  BY DEF SumOf
<1>2. \A k \in 0..Len(t) : g[k] \in Nat
  BY DEF SumOf
<1>3. \A k \in 1..Len(s) : s[k].size \in Nat
  <2>1. \A k \in 1..Len(s) : s[k] \in Lines
    OBVIOUS
  <2> QED BY <2>1 DEF Lines
<1>4. 0 \in G
  <2>1. i \in 0..Len(t)
    OBVIOUS
  <2> QED BY <1>2, <2>1 DEF SumOf
<1>5. ASSUME NEW n \in Nat, n \in G PROVE n + 1 \in G
  <2> SUFFICES ASSUME n + 1 <= N PROVE g[(n + 1) + i] = g[i] + f[n + 1]
    OBVIOUS
  <2>1. /\ n + 1 \in 1..Len(s) /\ (n + 1) - 1 = n /\ n \in 0..Len(s) /\ i \in 0..Len(t)
        /\ (n + 1) + i \in 1..Len(t) /\ ((n + 1) + i) - 1 = n + i /\ n + 1 \in 1..N
    OBVIOUS
  <2>2. f[n + 1] = f[n] + s[n + 1].size
    BY <2>1 DEF SumOf
  <2>3. g[(n + 1) + i] = g[n + i] + t[(n + 1) + i].size
    BY <2>1 DEF SumOf
  <2>4. g[n + i] = g[i] + f[n] /\ t[(n + 1) + i] = s[n + 1]
    BY <1>5, <2>1
  <2>5. g[i] \in Nat /\ f[n] \in Nat /\ s[n + 1].size \in Nat
    BY <1>1, <1>2, <1>3, <2>1
  <2>6. s[n + 1].size = t[(n + 1) + i].size
    BY <2>4
  <2> HIDE DEF SamePiece, G
  <2> QED BY <2>2, <2>3, <2>4, <2>5, <2>6
<1>6. N \in G
  <2> HIDE DEF G
  <2> QED BY <1>4, <1>5, Counting
<1> QED BY <1>6

LEMMA BytesIsNumber ==
    ASSUME NEW s \in Seq(Lines)
    PROVE  Bytes(s) \in Nat
<1>1. PICK f : SumOf(s, f) /\ Bytes(s) = f[Len(s)]
  BY BytesIsSum
<1>2. Len(s) \in 0..Len(s)
  OBVIOUS
<1> QED BY <1>1, <1>2 DEF SumOf

LEMMA BytesOfNone == Bytes(<<>>) = 0
<1>1. <<>> \in Seq(Lines) /\ Len(<<>>) = 0
  OBVIOUS
<1>2. PICK f : SumOf(<<>>, f) /\ Bytes(<<>>) = f[Len(<<>>)]
  BY <1>1, BytesIsSum
<1> QED BY <1>1, <1>2 DEF SumOf

LEMMA BytesAppended ==
    ASSUME NEW s \in Seq(Lines), NEW l \in Lines
    PROVE  Bytes(Append(s, l)) = Bytes(s) + l.size
<1> DEFINE t == Append(s, l)
           N == Len(s)
<1>1. t \in Seq(Lines) /\ N \in Nat /\ Len(t) = N + 1 /\ t[N + 1] = l
      /\ \A k \in 1..N : t[k] = s[k]
  OBVIOUS
<1>2. PICK f : SumOf(s, f) /\ Bytes(s) = f[N]
  BY BytesIsSum
<1> HIDE DEF t
<1>3. PICK g : SumOf(t, g) /\ Bytes(t) = g[Len(t)]
  BY <1>1, BytesIsSum
<1>4. g[N + 0] = g[0] + f[N]
  <2>1. SamePiece(s, t, 0, N)
    BY <1>1 DEF SamePiece
  <2> HIDE DEF N
  <2> QED BY <1>1, <1>2, <1>3, <2>1, SumOfPiece
<1>5. g[N + 1] = g[N] + l.size /\ g[0] = 0
  <2>1. N + 1 \in 1..Len(t) /\ (N + 1) - 1 = N
    BY <1>1
  <2> QED BY <1>1, <1>3, <2>1 DEF SumOf
<1>6. f[N] \in Nat
  BY <1>2, BytesIsNumber
<1> QED BY <1>1, <1>2, <1>3, <1>4, <1>5, <1>6 DEF t

LEMMA BytesPrepended ==
    ASSUME NEW s \in Seq(Lines), NEW l \in Lines
    PROVE  Bytes(<<l>> \o s) = l.size + Bytes(s)
<1> DEFINE t == <<l>> \o s
           N == Len(s)
<1>1. t \in Seq(Lines) /\ N \in Nat /\ Len(t) = N + 1 /\ t[1] = l
      /\ \A k \in 1..N : t[k + 1] = s[k]
  OBVIOUS
<1>2. PICK f : SumOf(s, f) /\ Bytes(s) = f[N]
  BY BytesIsSum
<1> HIDE DEF t
<1>3. PICK g : SumOf(t, g) /\ Bytes(t) = g[Len(t)]
  BY <1>1, BytesIsSum
<1>4. g[N + 1] = g[1] + f[N]
  <2>1. SamePiece(s, t, 1, N)
    BY <1>1 DEF SamePiece
  <2> HIDE DEF N
  <2> QED BY <1>1, <1>2, <1>3, <2>1, SumOfPiece
<1>5. g[1] = g[0] + l.size /\ g[0] = 0
  <2>1. 1 \in 1..Len(t) /\ 1 - 1 = 0
    BY <1>1
  <2> QED BY <1>1, <1>3, <2>1 DEF SumOf
<1>6. l.size \in Nat
  BY DEF Lines
<1> QED BY <1>1, <1>2, <1>3, <1>4, <1>5, <1>6 DEF t

LEMMA BytesOfLast ==
    ASSUME NEW s \in Seq(Lines), s # <<>>
    PROVE  /\ Front(s) \in Seq(Lines) /\ Last(s) \in Lines /\ s = Append(Front(s), Last(s))
           /\ Bytes(s) = Bytes(Front(s)) + Last(s).size
<1>1. Len(s) \in Nat \ {0}
  OBVIOUS
<1>2. Front(s) \in Seq(Lines) /\ Len(Front(s)) = Len(s) - 1
      /\ \A k \in 1..Len(s) - 1 : Front(s)[k] = s[k]
  <2> DEFINE n == Len(s) - 1
  <2>1. n \in Int /\ n >= 0 /\ \A k \in 1..n : s[k] \in Lines
    BY <1>1
  <2>2. Front(s) = SubSeq(s, 1, n)
    BY DEF Front
  <2> HIDE DEF n
  <2>3. /\ SubSeq(s, 1, n) \in Seq(Lines)
        /\ Len(SubSeq(s, 1, n)) = IF 1 <= n THEN n - 1 + 1 ELSE 0
        /\ \A k \in 1..(n - 1 + 1) : SubSeq(s, 1, n)[k] = s[1 + k - 1]
    BY <2>1, SubSeqProperties
  <2>4. n - 1 + 1 = n /\ \A k \in 1..n : 1 + k - 1 = k
    BY <2>1
  <2>5. /\ Front(s) \in Seq(Lines) /\ Len(Front(s)) = n
        /\ \A k \in 1..n : Front(s)[k] = s[k]
    BY <2>1, <2>2, <2>3, <2>4
  <2> QED BY <2>5 DEF n
<1>3. Last(s) \in Lines
  BY <1>1 DEF Last
<1>4. s = Append(Front(s), Last(s))
  BY <1>1, <1>2 DEF Last
<1> QED BY <1>2, <1>3, <1>4, BytesAppended

-----------------------------------------------------------------------------
(* What is kept of a log *)

Kept == [lines : Seq(Lines), full : BOOLEAN]
Nothing == [lines |-> <<>>, full |-> FALSE]

LEMMA EndedIsLine ==
    ASSUME NEW l \in Lines
    PROVE  /\ Ended(l) \in Lines /\ Ended(l).ended
           /\ Ended(l).whole = l.whole /\ Ended(l).id = l.id
           /\ l.ended => Ended(l) = l
<1>1. CASE l.ended
  BY <1>1 DEF Ended
<1>2. CASE ~l.ended
  <2> DEFINE e == [l EXCEPT !.ended = TRUE, !.size = l.size + 1]
  <2>1. Ended(l) = e
    BY <1>2 DEF Ended
  <2>2. l.size + 1 \in Nat \ {0}
    BY DEF Lines
  <2>3. e \in Lines
    BY <2>2 DEF Lines
  <2>4. e.ended /\ e.whole = l.whole /\ e.id = l.id
    BY DEF Lines
  <2> QED BY <1>2, <2>1, <2>3, <2>4
<1> QED BY <1>1, <1>2

LEMMA WithLineIsKept ==
    ASSUME NEW k \in Kept, NEW l \in Lines, NEW b \in Int
    PROVE  WithLine(k, l, b) \in Kept
<1>1. k.lines \in Seq(Lines) /\ k.full \in BOOLEAN
  BY DEF Kept
<1>2. <<l>> \o k.lines \in Seq(Lines)
  BY <1>1
<1>3. [k EXCEPT !.full = TRUE] \in Kept
  BY DEF Kept
<1>4. [k EXCEPT !.lines = <<l>> \o @] \in Kept
  BY <1>1, <1>2 DEF Kept
<1> QED BY <1>3, <1>4 DEF WithLine

\* The scan behind NewestTail: the n-th line from the end, looked at.
Seen(s, n) == Ended(s[Len(s) + 1 - n])

ScanOf(s, b, f) ==
    /\ f \in [0..Len(s) -> Kept]
    /\ f[0] = Nothing
    /\ \A n \in 1..Len(s) : f[n] = WithLine(f[n - 1], Seen(s, n), b)

LEMMA NewestTailIsScan ==
    ASSUME NEW s \in Seq(Lines), NEW b \in Int
    PROVE  \E f : ScanOf(s, b, f) /\ NewestTail(s, b) = f[Len(s)].lines
<1> DEFINE N == Len(s)
           E(f) == [n \in 0..N |->
                      IF n = 0 THEN [lines |-> <<>>, full |-> FALSE]
                      ELSE WithLine(f[n - 1], Ended(s[N + 1 - n]), b)]
           h == CHOOSE f : f = E(f)
<1>1. N \in Nat /\ \A n \in 1..N : Seen(s, n) \in Lines
  <2>1. N \in Nat /\ \A n \in 1..N : N + 1 - n \in 1..N
    OBVIOUS
  <2>2. \A n \in 1..N : s[n] \in Lines
    OBVIOUS
  <2> QED BY <2>1, <2>2, EndedIsLine DEF Seen
<1>2. Nothing \in Kept
  BY DEF Nothing, Kept
<1>3. \E f : f = E(f)
  <2> DEFINE step == [p \in (1..N) \X Kept |-> WithLine(p[2], Seen(s, p[1]), b)]
  <2>1. \A p \in (1..N) \X Kept : WithLine(p[2], Seen(s, p[1]), b) \in Kept
    BY <1>1, WithLineIsKept
  <2>2. step \in Steps(N, Kept)
    BY <2>1 DEF Steps
  <2>3. \A n \in 1..N, x \in Kept : step[<<n, x>>] = WithLine(x, Seen(s, n), b)
    OBVIOUS
  <2> HIDE DEF step
  <2>4. Built(N, Kept, Nothing, step)
    <3> HIDE DEF N
    <3> QED BY <1>1, <1>2, <2>2, Recursion
  <2>5. PICK f \in [0..N -> Kept] :
           f[0] = Nothing /\ \A k \in 1..N : f[k] = step[<<k, f[k - 1]>>]
    BY <2>4 DEF Built
  <2>6. \A n \in 0..N : n = 0 \/ (n \in 1..N /\ n - 1 \in 0..N)
    BY <1>1
  <2>7. \A n \in 0..N : f[n] = IF n = 0 THEN [lines |-> <<>>, full |-> FALSE]
                              ELSE WithLine(f[n - 1], Ended(s[N + 1 - n]), b)
    BY <2>3, <2>5, <2>6 DEF Nothing, Seen
  <2> QED BY <2>5, <2>7
<1>4. h = E(h)
  BY <1>3
<1>5. NewestTail(s, b) = h[N].lines
  BY DEF NewestTail
<1> HIDE DEF h
<1>6. h[0] = Nothing /\ \A n \in 1..N : h[n] = WithLine(h[n - 1], Seen(s, n), b)
  <2>1. \A n \in 0..N : h[n] = E(h)[n]
    BY <1>4
  <2>2. E(h)[0] = Nothing
    BY <1>1 DEF Nothing
  <2>3. \A n \in 1..N : E(h)[n] = WithLine(h[n - 1], Seen(s, n), b)
    BY <1>1 DEF Seen
  <2> HIDE DEF E
  <2> QED BY <1>1, <2>1, <2>2, <2>3
<1>7. \A n \in 0..N : h[n] \in Kept
  <2> DEFINE G == {n \in Nat : n <= N => h[n] \in Kept}
  <2>1. 0 \in G
    BY <1>2, <1>6
  <2>2. ASSUME NEW n \in Nat, n \in G PROVE n + 1 \in G
    <3> SUFFICES ASSUME n + 1 <= N PROVE h[n + 1] \in Kept
      OBVIOUS
    <3>1. n + 1 \in 1..N /\ (n + 1) - 1 = n /\ h[n] \in Kept
      BY <1>1, <2>2
    <3> QED BY <1>1, <1>6, <3>1, WithLineIsKept
  <2> HIDE DEF G
  <2>3. \A n \in Nat : n \in G
    BY <2>1, <2>2, Counting
  <2> QED BY <1>1, <2>3 DEF G
<1>8. ScanOf(s, b, h)
  BY <1>1, <1>4, <1>6, <1>7 DEF ScanOf
<1> QED BY <1>5, <1>8

LEMMA NoMoreThanBudget ==
    ASSUME NEW s \in Seq(Lines), NEW b \in Nat
    PROVE  NewestTail(s, b) \in Seq(Lines) /\ Bytes(NewestTail(s, b)) <= b
<1>1. PICK f : ScanOf(s, b, f) /\ NewestTail(s, b) = f[Len(s)].lines
  BY NewestTailIsScan
<1> DEFINE N == Len(s)
           G == {n \in Nat : n <= N => Bytes(f[n].lines) <= b}
<1>2. N \in Nat /\ \A n \in 0..N : f[n] \in Kept /\ f[n].lines \in Seq(Lines)
  <2>1. N \in Nat /\ \A n \in 0..N : f[n] \in Kept
    BY <1>1 DEF ScanOf
  <2> QED BY <2>1 DEF Kept
<1>3. 0 \in G
  BY <1>1, BytesOfNone DEF ScanOf, Nothing
<1>4. ASSUME NEW n \in Nat, n \in G PROVE n + 1 \in G
  <2> SUFFICES ASSUME n + 1 <= N PROVE Bytes(f[n + 1].lines) <= b
    OBVIOUS
  <2> DEFINE k == f[n]
             l == Seen(s, n + 1)
  <2>1. n + 1 \in 1..N /\ (n + 1) - 1 = n /\ n \in 0..N /\ N + 1 - (n + 1) \in 1..N
    BY <1>2
  <2>2. f[n + 1] = WithLine(k, l, b)
    BY <1>1, <2>1 DEF ScanOf
  <2>3. k \in Kept /\ k.lines \in Seq(Lines) /\ Bytes(k.lines) <= b
    BY <1>2, <1>4, <2>1
  <2>4. l \in Lines /\ l.size \in Nat
    <3>1. s[N + 1 - (n + 1)] \in Lines
      BY <2>1
    <3>2. l \in Lines
      BY <3>1, EndedIsLine DEF Seen
    <3> QED BY <3>2 DEF Lines
  <2>5. Bytes(<<l>> \o k.lines) = l.size + Bytes(k.lines) /\ Bytes(k.lines) \in Nat
    BY <2>3, <2>4, BytesPrepended, BytesIsNumber
  <2> HIDE DEF k, l, G
  <2>6. \/ WithLine(k, l, b).lines = k.lines
        \/ /\ WithLine(k, l, b).lines = <<l>> \o k.lines
           /\ ~(Bytes(k.lines) + l.size > b)
    BY <2>3 DEF WithLine, Kept
  <2>7. ~(Bytes(k.lines) + l.size > b) => l.size + Bytes(k.lines) <= b
    BY <2>4, <2>5
  <2>8. Bytes(WithLine(k, l, b).lines) <= b
    BY <2>3, <2>5, <2>6, <2>7
  <2> QED BY <2>2, <2>8
<1>5. N \in G
  <2> HIDE DEF G
  <2> QED BY <1>2, <1>3, <1>4, Counting
<1> QED BY <1>1, <1>2, <1>5

Ordered(s) == \A i, j \in Whole(s) : i < j => s[i].id < s[j].id

LEMMA Prepended ==
    ASSUME NEW S, NEW s \in Seq(S), NEW l \in S
    PROVE  /\ <<l>> \o s \in Seq(S) /\ Len(<<l>> \o s) = Len(s) + 1
           /\ (<<l>> \o s)[1] = l
           /\ \A i \in 2..(Len(s) + 1) : (<<l>> \o s)[i] = s[i - 1] /\ i - 1 \in 1..Len(s)
           /\ ToSet(<<l>> \o s) = {l} \cup ToSet(s)
<1> DEFINE t == <<l>> \o s
           N == Len(s)
<1>1. /\ t \in Seq(S) /\ Len(t) = N + 1 /\ t[1] = l /\ N \in Nat
      /\ \A i \in 2..(N + 1) : t[i] = s[i - 1] /\ i - 1 \in 1..N
  OBVIOUS
<1>2. DOMAIN t = 1..(N + 1) /\ DOMAIN s = 1..N
  BY <1>1
<1> HIDE DEF t
<1>3. \A i \in 1..N : i + 1 \in 2..(N + 1) /\ t[i + 1] = s[i]
  BY <1>1
<1>4. \A i \in 1..(N + 1) : i = 1 \/ i \in 2..(N + 1)
  BY <1>1
<1>5. ToSet(t) \subseteq {l} \cup ToSet(s)
  BY <1>1, <1>2, <1>4 DEF ToSet
<1>6. l \in ToSet(t)
  BY <1>1, <1>2 DEF ToSet
<1>7. ToSet(s) \subseteq ToSet(t)
  <2> SUFFICES ASSUME NEW i \in 1..N PROVE s[i] \in ToSet(t)
    BY <1>2 DEF ToSet
  <2>1. i + 1 \in DOMAIN t /\ t[i + 1] = s[i]
    BY <1>1, <1>2, <1>3
  <2> QED BY <2>1 DEF ToSet
<1>8. ToSet(t) = {l} \cup ToSet(s)
  BY <1>5, <1>6, <1>7
<1> QED BY <1>1, <1>8 DEF t

\* What holds of the lines kept of the last n: they are among them, in order,
\* and of those that fit none is left out that is newer than a kept one; as
\* long as the budget lasts, none at all.
OlderThanAll(l, lines) == \A i \in Whole(lines) : l.id < lines[i].id

ScanKeeps(s, b, k, n) ==
    /\ \A i \in DOMAIN k.lines : \E j \in 1..n : k.lines[i] = Seen(s, j)
    /\ Ordered(k.lines)
    /\ \A j \in 1..n :
          Seen(s, j).size <= b =>
            \/ Seen(s, j) \in ToSet(k.lines)
            \/ k.full /\ (Seen(s, j).whole => OlderThanAll(Seen(s, j), k.lines))

LEMMA SeenLine ==
    ASSUME NEW s \in Seq(Lines), NEW j \in 1..Len(s)
    PROVE  Seen(s, j) \in Lines
<1>1. Len(s) \in Nat /\ Len(s) + 1 - j \in 1..Len(s)
  OBVIOUS
<1>2. s[Len(s) + 1 - j] \in Lines
  BY <1>1
<1> QED BY <1>2, EndedIsLine DEF Seen

LEMMA SeenInOrder ==
    ASSUME NEW s \in Seq(Lines), Ordered(s), NEW j \in 1..Len(s), NEW n \in 1..Len(s), j < n,
           Seen(s, j).whole, Seen(s, n).whole
    PROVE  Seen(s, n).id < Seen(s, j).id
<1> DEFINE J == Len(s) + 1 - j
           M == Len(s) + 1 - n
<1>1. J \in DOMAIN s /\ M \in DOMAIN s /\ M < J
  OBVIOUS
<1>2. s[J] \in Lines /\ s[M] \in Lines
  BY <1>1
<1>3. Seen(s, j) = Ended(s[J]) /\ Seen(s, n) = Ended(s[M])
  BY DEF Seen
<1> HIDE DEF J, M
<1>4. J \in Whole(s) /\ M \in Whole(s)
  BY <1>1, <1>2, <1>3, EndedIsLine DEF Whole
<1>5. s[M].id < s[J].id
  BY <1>1, <1>4 DEF Ordered
<1> QED BY <1>2, <1>3, <1>5, EndedIsLine

LEMMA ScanStep ==
    ASSUME NEW s \in Seq(Lines), Ordered(s), NEW b \in Nat, NEW n \in Nat, n + 1 <= Len(s),
           NEW k \in Kept, ScanKeeps(s, b, k, n)
    PROVE  ScanKeeps(s, b, WithLine(k, Seen(s, n + 1), b), n + 1)
<1> DEFINE l == Seen(s, n + 1)
           w == WithLine(k, l, b)
           t == <<l>> \o k.lines
<1>1. /\ n + 1 \in 1..Len(s) /\ n + 1 \in 1..(n + 1)
      /\ \A j \in 1..n : j \in 1..Len(s) /\ j \in 1..(n + 1) /\ j < n + 1
      /\ \A j \in 1..(n + 1) : j \in 1..n \/ j = n + 1
  OBVIOUS
<1>2. l \in Lines /\ l.size \in Nat /\ k.lines \in Seq(Lines) /\ k.full \in BOOLEAN
  <2>1. l \in Lines
    BY <1>1, SeenLine
  <2> QED BY <2>1 DEF Kept, Lines
<1>3. l.whole => OlderThanAll(l, k.lines)
  <2> SUFFICES ASSUME l.whole, NEW i \in Whole(k.lines) PROVE l.id < k.lines[i].id
    BY DEF OlderThanAll
  <2>1. PICK j \in 1..n : k.lines[i] = Seen(s, j)
    BY DEF ScanKeeps, Whole
  <2>2. Seen(s, j).whole
    BY <2>1 DEF Whole
  <2> QED BY <1>1, <2>1, <2>2, SeenInOrder
<1>4. Bytes(k.lines) \in Nat
  BY <1>2, BytesIsNumber
<1> HIDE DEF l
<1>5. CASE k.full \/ l.size > b
  <2>1. w = k
    BY <1>5 DEF WithLine
  <2>2. \A i \in DOMAIN k.lines : \E j \in 1..(n + 1) : k.lines[i] = Seen(s, j)
    BY <1>1 DEF ScanKeeps
  <2>3. ASSUME NEW j \in 1..(n + 1), Seen(s, j).size <= b
        PROVE  \/ Seen(s, j) \in ToSet(k.lines)
               \/ k.full /\ (Seen(s, j).whole => OlderThanAll(Seen(s, j), k.lines))
    <3>1. CASE j \in 1..n
      BY <2>3, <3>1 DEF ScanKeeps
    <3>2. CASE j = n + 1
      <4>1. Seen(s, j) = l /\ k.full
        BY <1>2, <1>5, <2>3, <3>2 DEF l
      <4> QED BY <1>3, <4>1
    <3> QED BY <1>1, <3>1, <3>2
  <2> HIDE DEF w
  <2> QED BY <2>1, <2>2, <2>3 DEF ScanKeeps, l, w
<1>6. CASE ~(k.full \/ l.size > b) /\ Bytes(k.lines) + l.size > b
  <2>1. w = [k EXCEPT !.full = TRUE]
    BY <1>6 DEF WithLine
  <2>2. w.lines = k.lines /\ w.full
    BY <2>1 DEF Kept
  <2>3. \A i \in DOMAIN k.lines : \E j \in 1..(n + 1) : k.lines[i] = Seen(s, j)
    BY <1>1 DEF ScanKeeps
  <2>4. ASSUME NEW j \in 1..(n + 1), Seen(s, j).size <= b
        PROVE  \/ Seen(s, j) \in ToSet(k.lines)
               \/ Seen(s, j).whole => OlderThanAll(Seen(s, j), k.lines)
    <3>1. CASE j \in 1..n
      BY <2>4, <3>1 DEF ScanKeeps
    <3>2. CASE j = n + 1
      BY <1>3, <3>2 DEF l
    <3> QED BY <1>1, <3>1, <3>2
  <2> HIDE DEF w
  <2> QED BY <2>2, <2>3, <2>4 DEF ScanKeeps, l, w
<1>7. CASE ~(k.full \/ l.size > b) /\ ~(Bytes(k.lines) + l.size > b)
  <2>1. w = [k EXCEPT !.lines = t]
    BY <1>7 DEF WithLine
  <2>2. w.lines = t /\ w.full = k.full
    BY <2>1 DEF Kept
  <2> DEFINE N == Len(k.lines)
  <2>3. /\ t \in Seq(Lines) /\ Len(t) = N + 1 /\ t[1] = l /\ N \in Nat
        /\ \A i \in 2..(N + 1) : t[i] = k.lines[i - 1] /\ i - 1 \in 1..N
        /\ ToSet(t) = {l} \cup ToSet(k.lines)
    BY <1>2, Prepended
  <2> HIDE DEF t
  <2>4. DOMAIN t = 1..(N + 1) /\ DOMAIN k.lines = 1..N
    BY <1>2, <2>3
  <2>5. \A i \in 1..(N + 1) : i = 1 \/ i \in 2..(N + 1)
    BY <2>3
  <2>6. \A i \in DOMAIN t : \E j \in 1..(n + 1) : t[i] = Seen(s, j)
    <3> SUFFICES ASSUME NEW i \in 1..(N + 1) PROVE \E j \in 1..(n + 1) : t[i] = Seen(s, j)
      BY <2>4
    <3>1. CASE i = 1
      BY <1>1, <2>3, <3>1 DEF l
    <3>2. CASE i \in 2..(N + 1)
      <4>1. i - 1 \in DOMAIN k.lines /\ t[i] = k.lines[i - 1]
        BY <2>3, <2>4, <3>2
      <4>2. PICK j \in 1..n : k.lines[i - 1] = Seen(s, j)
        BY <4>1 DEF ScanKeeps
      <4> QED BY <1>1, <4>1, <4>2
    <3> QED BY <2>5, <3>1, <3>2
  <2>7. Ordered(t)
    <3> SUFFICES ASSUME NEW i \in Whole(t), NEW j \in Whole(t), i < j PROVE t[i].id < t[j].id
      BY DEF Ordered
    <3>1. i \in 1..(N + 1) /\ j \in 1..(N + 1) /\ t[i].whole /\ t[j].whole
      BY <2>4 DEF Whole
    <3>2. j \in 2..(N + 1)
      BY <2>3, <3>1
    <3>3. t[j] = k.lines[j - 1] /\ j - 1 \in Whole(k.lines)
      BY <2>3, <2>4, <3>1, <3>2 DEF Whole
    <3>4. CASE i = 1
      BY <1>3, <2>3, <3>1, <3>3, <3>4 DEF OlderThanAll
    <3>5. CASE i \in 2..(N + 1)
      <4>1. t[i] = k.lines[i - 1] /\ i - 1 \in Whole(k.lines)
        BY <2>3, <2>4, <3>1, <3>5 DEF Whole
      <4>2. i - 1 < j - 1
        BY <2>3, <3>1
      <4> QED BY <3>3, <4>1, <4>2 DEF ScanKeeps, Ordered
    <3> QED BY <2>5, <3>1, <3>4, <3>5
  <2>8. ASSUME NEW j \in 1..(n + 1), Seen(s, j).size <= b
        PROVE  Seen(s, j) \in ToSet(t)
    <3>1. CASE j \in 1..n
      BY <1>7, <2>3, <2>8, <3>1 DEF ScanKeeps
    <3>2. CASE j = n + 1
      BY <2>3, <3>2 DEF l
    <3> QED BY <1>1, <3>1, <3>2
  <2> HIDE DEF w
  <2> QED BY <2>2, <2>6, <2>7, <2>8 DEF ScanKeeps, l, w
<1> QED BY <1>2, <1>4, <1>5, <1>6, <1>7 DEF l

LEMMA TailKeepsNewest ==
    ASSUME NEW s \in Seq(Lines), Ordered(s), NEW b \in Nat
    PROVE  /\ \A i \in DOMAIN NewestTail(s, b) :
                 \E j \in DOMAIN s : NewestTail(s, b)[i] = Ended(s[j])
           /\ Ordered(NewestTail(s, b))
           /\ \A j \in DOMAIN s : s[j].whole /\ s[j].ended /\ s[j].size <= b =>
                 \/ s[j] \in ToSet(NewestTail(s, b))
                 \/ OlderThanAll(s[j], NewestTail(s, b))
<1>1. PICK f : ScanOf(s, b, f) /\ NewestTail(s, b) = f[Len(s)].lines
  BY NewestTailIsScan
<1> DEFINE N == Len(s)
           G == {n \in Nat : n <= N => ScanKeeps(s, b, f[n], n)}
<1>2. N \in Nat /\ DOMAIN s = 1..N /\ \A n \in 0..N : f[n] \in Kept
  BY <1>1 DEF ScanOf
<1>3. 0 \in G
  <2>1. f[0].lines = <<>> /\ DOMAIN <<>> = {}
    BY <1>1 DEF ScanOf, Nothing
  <2>2. ScanKeeps(s, b, f[0], 0)
    BY <2>1 DEF ScanKeeps, Ordered, Whole
  <2> QED BY <2>2
<1>4. ASSUME NEW n \in Nat, n \in G PROVE n + 1 \in G
  <2> SUFFICES ASSUME n + 1 <= N PROVE ScanKeeps(s, b, f[n + 1], n + 1)
    OBVIOUS
  <2>1. n + 1 \in 1..N /\ (n + 1) - 1 = n /\ n \in 0..N
    BY <1>2
  <2>2. f[n + 1] = WithLine(f[n], Seen(s, n + 1), b)
    BY <1>1, <2>1 DEF ScanOf
  <2>3. f[n] \in Kept /\ ScanKeeps(s, b, f[n], n)
    BY <1>2, <1>4, <2>1
  <2> HIDE DEF G
  <2>4. ScanKeeps(s, b, WithLine(f[n], Seen(s, n + 1), b), n + 1)
    BY <2>1, <2>3, ScanStep
  <2> QED BY <2>2, <2>4
<1>5. ScanKeeps(s, b, f[N], N)
  <2> HIDE DEF G
  <2>1. N \in G
    BY <1>2, <1>3, <1>4, Counting
  <2> QED BY <1>2, <2>1 DEF G
<1> DEFINE t == NewestTail(s, b)
<1>6. t = f[N].lines
  BY <1>1
<1> HIDE DEF t
<1>7. \A j \in 1..N : N + 1 - j \in 1..N /\ N + 1 - (N + 1 - j) = j
  BY <1>2
<1>8. \A i \in DOMAIN t : \E j \in DOMAIN s : t[i] = Ended(s[j])
  <2> SUFFICES ASSUME NEW i \in DOMAIN t PROVE \E j \in DOMAIN s : t[i] = Ended(s[j])
    OBVIOUS
  <2>1. PICK j \in 1..N : t[i] = Seen(s, j)
    BY <1>5, <1>6 DEF ScanKeeps
  <2> QED BY <1>2, <1>7, <2>1 DEF Seen
<1>9. Ordered(t)
  BY <1>5, <1>6 DEF ScanKeeps
<1>10. ASSUME NEW j \in DOMAIN s, s[j].whole, s[j].ended, s[j].size <= b
       PROVE  s[j] \in ToSet(t) \/ OlderThanAll(s[j], t)
  <2> DEFINE m == N + 1 - j
  <2>1. m \in 1..N /\ N + 1 - m = j /\ s[j] \in Lines
    BY <1>2, <1>7
  <2> HIDE DEF m
  <2>2. Seen(s, m) = s[j]
    BY <1>10, <2>1, EndedIsLine DEF Seen
  <2> QED BY <1>5, <1>6, <1>10, <2>1, <2>2 DEF ScanKeeps
<1> QED BY <1>8, <1>9, <1>10 DEF t

-----------------------------------------------------------------------------
(* What a run notes *)

Configured == [template : ToSet(setting.endpoints), hours : Nat]
OwnEntries == [endpoint : Configured, status : Statuses]
MostNoted == IF "garbled" \in setting.answers THEN 2 ELSE 1

LEMMA LeastIsThere ==
    ASSUME NEW S \in SUBSET Nat, S # {}
    PROVE  Min(S) \in S
<1> DEFINE R == OpToRel(<, Nat)
<1>1. IsWellFoundedOn(R, Nat)
  BY NatLessThanWellFounded
<1>2. \A k, n \in Nat : k < n => <<k, n>> \in R
  BY DEF OpToRel
<1> HIDE DEF R
<1>3. PICK n \in S : \A k \in S : ~(<<k, n>> \in R)
  BY <1>1, WFMin
<1>4. ASSUME NEW k \in S PROVE n <= k
  <2>1. n \in Nat /\ k \in Nat
    BY <1>3
  <2>2. ~(k < n)
    BY <1>2, <1>3, <2>1
  <2> QED BY <2>1, <2>2
<1> QED BY <1>3, <1>4 DEF Min

LEMMA SettingIsSetting ==
    ASSUME setting \in Settings
    PROVE  /\ setting.endpoints \in Seq(Templates) \ {<<>>}
           /\ Len(setting.endpoints) \in Nat \ {0}
           /\ DOMAIN setting.endpoints = 1..Len(setting.endpoints)
           /\ \A i \in DOMAIN setting.endpoints : setting.endpoints[i] \in ToSet(setting.endpoints)
           /\ ToSet(setting.endpoints) \subseteq Templates
           /\ setting.limit \in Nat
           /\ setting.answers \subseteq {"useful", "empty", "garbled", "refused", "down"}
           /\ setting.hours \subseteq Nat /\ setting.times \subseteq Nat
<1>1. /\ setting.endpoints \in Seq(Templates) \ {<<>>}
      /\ setting.limit \in Nat
      /\ setting.answers \subseteq {"useful", "empty", "garbled", "refused", "down"}
      /\ setting.hours \subseteq Nat /\ setting.times \subseteq Nat
  BY FetcherAssumption DEF FetcherAssumption
<1>2. /\ Len(setting.endpoints) \in Nat \ {0}
      /\ DOMAIN setting.endpoints = 1..Len(setting.endpoints)
      /\ \A i \in DOMAIN setting.endpoints : setting.endpoints[i] \in Templates
  BY <1>1
<1> QED BY <1>1, <1>2 DEF ToSet

LEMMA EndpointIsConfigured ==
    ASSUME setting \in Settings, NEW i \in DOMAIN setting.endpoints, NEW hours \in Nat
    PROVE  Endpoint(setting.endpoints[i], hours) \in Configured
BY SettingIsSetting DEF Endpoint, Configured

LEMMA NotedIsShort ==
    ASSUME setting \in Settings, NEW e \in Configured, NEW answer \in setting.answers
    PROVE  Noted(e, answer) \in Seq(OwnEntries) /\ Len(Noted(e, answer)) \in 0..MostNoted
<1>1. \A status \in Statuses : Entry(e, status) \in OwnEntries
  BY DEF Entry, OwnEntries
<1>2. answer \in {"useful", "empty", "garbled", "refused", "down"}
  BY SettingIsSetting
<1>3. CASE answer \in {"useful", "empty"}
  <2>1. Noted(e, answer) = <<Entry(e, "ok")>>
    BY <1>3 DEF Noted
  <2>2. Entry(e, "ok") \in OwnEntries
    BY <1>1 DEF Statuses
  <2> QED BY <2>1, <2>2 DEF MostNoted
<1>4. CASE answer = "garbled"
  <2>1. Noted(e, answer) = <<Entry(e, "ok"), Entry(e, "network_fail")>>
    BY <1>4 DEF Noted
  <2>2. Entry(e, "ok") \in OwnEntries /\ Entry(e, "network_fail") \in OwnEntries
    BY <1>1 DEF Statuses
  <2> DEFINE a == Entry(e, "ok")
             b == Entry(e, "network_fail")
  <2> HIDE DEF a, b
  <2>3. <<a, b>> \in Seq(OwnEntries) /\ Len(<<a, b>>) = 2
    BY <2>2 DEF a, b
  <2>4. MostNoted = 2
    BY <1>4 DEF MostNoted
  <2>5. Noted(e, answer) = <<a, b>>
    BY <2>1 DEF a, b
  <2> QED BY <2>3, <2>4, <2>5
<1>5. CASE answer = "refused"
  <2>1. Noted(e, answer) = <<Entry(e, "http_fail")>>
    BY <1>5 DEF Noted
  <2>2. Entry(e, "http_fail") \in OwnEntries
    BY <1>1 DEF Statuses
  <2> QED BY <2>1, <2>2 DEF MostNoted
<1>6. CASE answer = "down"
  <2>1. Noted(e, answer) = <<Entry(e, "network_fail")>>
    BY <1>6 DEF Noted
  <2>2. Entry(e, "network_fail") \in OwnEntries
    BY <1>1 DEF Statuses
  <2> QED BY <2>1, <2>2 DEF MostNoted
<1> QED BY <1>2, <1>3, <1>4, <1>5, <1>6

LEMMA AskedIsShort ==
    ASSUME setting \in Settings, NEW answers \in [DOMAIN setting.endpoints -> setting.answers],
           NEW hours \in Nat
    PROVE  /\ Asked(answers, hours) \in Seq(OwnEntries)
           /\ Len(Asked(answers, hours)) <= Len(setting.endpoints) * MostNoted
<1> DEFINE M == Len(setting.endpoints)
           r == Min(Useful(answers) \cup {Len(answers)})
           T == Seq(OwnEntries)
           Told(n) == Noted(Endpoint(setting.endpoints[n], hours), answers[n])
           E(f) == [n \in 0..r |-> IF n = 0 THEN <<>> ELSE f[n - 1] \o Told(n)]
           h == CHOOSE f : f = E(f)
           w == MostNoted
<1>1. M \in Nat \ {0} /\ DOMAIN setting.endpoints = 1..M /\ DOMAIN answers = 1..M
      /\ \A n \in 1..M : answers[n] \in setting.answers
  BY SettingIsSetting
<1>2. Len(answers) = M
  BY <1>1
<1>3. r \in 1..M
  <2> DEFINE U == Useful(answers) \cup {Len(answers)}
  <2>1. U \in SUBSET Nat /\ U # {} /\ U \subseteq 1..M
    BY <1>1, <1>2 DEF Useful
  <2> HIDE DEF U
  <2>2. Min(U) \in U
    BY <2>1, LeastIsThere
  <2> QED BY <2>1, <2>2 DEF U
<1>4. Asked(answers, hours) = h[r]
  BY DEF Asked
<1> HIDE DEF r
<1>5. r \in Nat /\ \A n \in 1..r : n \in 1..M
  BY <1>1, <1>3
<1>6. \A n \in 1..r : Told(n) \in T /\ Len(Told(n)) \in 0..w
  BY <1>1, <1>5, EndpointIsConfigured, NotedIsShort
<1>7. <<>> \in T /\ Len(<<>>) = 0
  OBVIOUS
<1>8. \E f : f = E(f)
  <2> DEFINE step == [p \in (1..r) \X T |-> p[2] \o Told(p[1])]
  <2>1. \A n \in 1..r, x \in T : x \o Told(n) \in T
    <3> HIDE DEF Told
    <3> QED BY <1>6
  <2>2. step \in Steps(r, T)
    <3> HIDE DEF Told, T
    <3> QED BY <2>1 DEF Steps
  <2>3. \A n \in 1..r, x \in T : step[<<n, x>>] = x \o Told(n)
    OBVIOUS
  <2> HIDE DEF step, T
  <2>4. Built(r, T, <<>>, step)
    BY <1>5, <1>7, <2>2, Recursion
  <2>5. PICK f \in [0..r -> T] :
           f[0] = <<>> /\ \A k \in 1..r : f[k] = step[<<k, f[k - 1]>>]
    BY <2>4 DEF Built
  <2>6. \A n \in 0..r : n = 0 \/ (n \in 1..r /\ n - 1 \in 0..r)
    BY <1>5
  <2> HIDE DEF Told
  <2>7. \A n \in 0..r : f[n] = IF n = 0 THEN <<>> ELSE f[n - 1] \o Told(n)
    BY <2>3, <2>5, <2>6
  <2> QED BY <2>5, <2>7
<1>9. h = E(h)
  BY <1>8
<1> HIDE DEF h, Told
<1>10. h[0] = <<>> /\ \A n \in 1..r : h[n] = h[n - 1] \o Told(n)
  <2>1. \A n \in 0..r : h[n] = E(h)[n]
    BY <1>9
  <2>2. E(h)[0] = <<>>
    BY <1>5
  <2>3. \A n \in 1..r : E(h)[n] = h[n - 1] \o Told(n)
    BY <1>5
  <2> HIDE DEF E
  <2>4. h[0] = <<>>
    <3>1. 0 \in 0..r
      BY <1>5
    <3> QED BY <2>1, <2>2, <3>1
  <2>5. ASSUME NEW n \in 1..r PROVE h[n] = h[n - 1] \o Told(n)
    <3>1. n \in 0..r
      BY <1>5
    <3>2. h[n] = E(h)[n]
      BY <2>1, <3>1
    <3> QED BY <2>3, <3>2
  <2> QED BY <2>4, <2>5
<1>11. w \in {1, 2}
  BY DEF MostNoted
<1> HIDE DEF w
<1>12. h[r] \in T /\ Len(h[r]) <= r * w
  <2> DEFINE G == {n \in Nat : n <= r => h[n] \in T /\ Len(h[n]) <= n * w}
  <2>1. 0 \in G
    <3>1. 0 * w = 0
      BY <1>11
    <3>2. h[0] \in T /\ Len(h[0]) = 0
      BY <1>7, <1>10
    <3> HIDE DEF T
    <3>3. Len(h[0]) <= 0 * w
      BY <3>1, <3>2
    <3> QED BY <3>2, <3>3
  <2>2. ASSUME NEW n \in Nat, n \in G PROVE n + 1 \in G
    <3> SUFFICES ASSUME n + 1 <= r
                 PROVE  h[n + 1] \in T /\ Len(h[n + 1]) <= (n + 1) * w
      OBVIOUS
    <3>1. n + 1 \in 1..r /\ (n + 1) - 1 = n /\ h[n] \in T /\ Len(h[n]) <= n * w
      BY <1>5, <2>2
    <3>2. h[n + 1] = h[n] \o Told(n + 1)
      BY <1>10, <3>1
    <3>3. Told(n + 1) \in T /\ Len(Told(n + 1)) \in 0..w
      BY <1>6, <3>1
    <3>4. h[n + 1] \in T /\ Len(h[n + 1]) = Len(h[n]) + Len(Told(n + 1))
      BY <3>1, <3>2, <3>3
    <3>5. (n + 1) * w = n * w + w /\ n * w \in Nat /\ Len(h[n]) \in Nat
      BY <1>11, <3>1
    <3> HIDE DEF G, E, T
    <3>6. Len(h[n + 1]) <= n * w + w
      <4> DEFINE p == n * w
                 c == Len(Told(n + 1))
                 a == Len(h[n])
      <4>1. p \in Nat /\ a \in Nat /\ c \in 0..w /\ a <= p /\ w \in Nat
        BY <1>11, <3>1, <3>3, <3>5
      <4>2. Len(h[n + 1]) = a + c
        BY <3>4
      <4> HIDE DEF p, c, a
      <4>3. Len(h[n + 1]) <= p + w
        BY <4>1, <4>2
      <4> QED BY <4>3 DEF p
    <3> QED BY <3>4, <3>5, <3>6
  <2> HIDE DEF G
  <2>3. r \in G
    BY <1>5, <2>1, <2>2, Counting
  <2> QED BY <1>5, <2>3 DEF G
<1>13. r * w <= M * w
  BY <1>1, <1>3, <1>11
<1>14. r * w \in Nat /\ M * w \in Nat /\ Len(h[r]) \in Nat
  BY <1>1, <1>5, <1>11, <1>12
<1> QED BY <1>4, <1>12, <1>13, <1>14 DEF w

LEMMA NotAskedIsShort ==
    ASSUME setting \in Settings, NEW why \in Statuses
    PROVE  /\ NotAsked(why) \in Seq(OwnEntries)
           /\ Len(NotAsked(why)) <= Len(setting.endpoints) * MostNoted
<1> DEFINE M == Len(setting.endpoints)
           E(i) == Entry(Endpoint(setting.endpoints[i], 1), why)
           s == [i \in 1..M |-> E(i)]
<1>1. M \in Nat \ {0} /\ DOMAIN setting.endpoints = 1..M
  BY SettingIsSetting
<1>2. \A i \in 1..M : E(i) \in OwnEntries
  BY <1>1, EndpointIsConfigured DEF Entry, OwnEntries
<1>3. NotAsked(why) = s
  BY <1>1 DEF NotAsked
<1> HIDE DEF E
<1>4. s \in Seq(OwnEntries) /\ Len(s) = M
  BY <1>1, <1>2
<1>5. M <= M * MostNoted
  <2>1. MostNoted = 1 \/ MostNoted = 2
    BY DEF MostNoted
  <2>2. M * 1 = M /\ M <= M * 2
    BY <1>1
  <2> QED BY <1>1, <2>1, <2>2
<1> QED BY <1>3, <1>4, <1>5

-----------------------------------------------------------------------------
(* The types *)

Phases == {"replay", "stat", "read", "clear", "fill", "append", "summary"}
Runs ==
    [pc : Phases, line : Lines, limit : {setting.limit}, tail : Seq(Lines),
     source : {"api", "replay"}]

TypeOK ==
    /\ setting \in Settings
    /\ file \in Seq(Lines) /\ added \in Seq(Lines)
    /\ run = Idle \/ run \in Runs

\* What a run begins as.
Starts(r) ==
    /\ r \in Runs
    /\ r.pc \in {"replay", "stat"} /\ r.tail = <<>>
    /\ r.line.id = Len(added) + 1 /\ r.line.whole /\ r.line.ended
    /\ r.line.size <= LargestLine
    /\ r.line.entries \in Seq(OwnEntries)

LEMMA RunStarts ==
    ASSUME TypeOK, NEW entries \in Seq(OwnEntries), NEW now \in Nat,
           Len(entries) <= Len(setting.endpoints) * MostNoted,
           NEW source \in {"api", "replay"}
    PROVE  Starts(Run(entries, now, source))
<1>1. Len(entries) \in Nat /\ Len(added) \in Nat /\ setting.limit \in Nat
      /\ Len(setting.endpoints) \in Nat
  BY SettingIsSetting DEF TypeOK
<1>2. OwnEntries \subseteq [endpoint : Endpoints, status : Statuses]
  BY SettingIsSetting DEF TypeOK, OwnEntries, Configured, Endpoints
<1>3. entries \in Seq([endpoint : Endpoints, status : Statuses])
  BY <1>2, SeqMonotonic
<1> DEFINE line == [id |-> Len(added) + 1, size |-> Len(entries) + 1, at |-> now,
                    entries |-> entries, whole |-> TRUE, ended |-> TRUE]
<1>4. line \in Lines
  BY <1>1, <1>3 DEF Lines
<1>5. Len(entries) + 1 <= LargestLine
  <2>1. LargestLine = 1 + Len(setting.endpoints) * MostNoted
    BY DEF LargestLine, MostNoted
  <2>2. Len(setting.endpoints) * MostNoted \in Nat
    <3>1. MostNoted \in Nat
      BY DEF MostNoted
    <3> QED BY <1>1, <3>1
  <2> QED BY <1>1, <2>1, <2>2
<1> DEFINE r == Run(entries, now, source)
<1>6. r.line = line
  BY DEF Run
<1> HIDE DEF line
<1>7. r \in Runs /\ r.pc \in {"replay", "stat"} /\ r.tail = <<>>
  <2>1. r = [pc |-> IF source = "replay" THEN "replay" ELSE "stat", line |-> line,
             limit |-> setting.limit, tail |-> <<>>, source |-> source]
    BY DEF Run, line
  <2> QED BY <1>4, <2>1 DEF Runs, Phases
<1> QED BY <1>4, <1>5, <1>6, <1>7 DEF Starts, line

LEMMA StartsWell ==
    ASSUME TypeOK, ProbeApi \/ ProbeNothing
    PROVE  Starts(run')
<1>1. CASE ProbeApi
  <2>1. PICK answers \in [DOMAIN setting.endpoints -> setting.answers],
             hours \in setting.hours, now \in setting.times :
           run' = Run(Asked(answers, hours), now,
                      IF Useful(answers) = {} THEN "replay" ELSE "api")
    BY <1>1 DEF ProbeApi, Begins
  <2>2. hours \in Nat /\ now \in Nat
    BY SettingIsSetting DEF TypeOK
  <2>3. /\ Asked(answers, hours) \in Seq(OwnEntries)
        /\ Len(Asked(answers, hours)) <= Len(setting.endpoints) * MostNoted
    BY <2>2, AskedIsShort DEF TypeOK
  <2> QED BY <2>1, <2>2, <2>3, RunStarts
<1>2. CASE ProbeNothing
  <2>1. PICK why \in {"skipped", "missing_api_key"} \cap setting.modes,
             now \in setting.times :
           run' = Run(NotAsked(why), now, "replay")
    BY <1>2 DEF ProbeNothing, Begins
  <2>2. why \in Statuses /\ now \in Nat
    BY SettingIsSetting DEF TypeOK, Statuses
  <2>3. /\ NotAsked(why) \in Seq(OwnEntries)
        /\ Len(NotAsked(why)) <= Len(setting.endpoints) * MostNoted
    BY <2>2, NotAskedIsShort DEF TypeOK
  <2> QED BY <2>1, <2>2, <2>3, RunStarts
<1> QED BY <1>1, <1>2

\* What a line makes of the file: it is added to it, or lost in half a line.
LEMMA AppendedIs ==
    ASSUME file \in Seq(Lines), NEW l \in Lines
    PROVE  /\ Appended(l) \in Seq(Lines)
           /\ Bytes(Appended(l)) = Bytes(file) + l.size
           /\ file = <<>> => Len(Appended(l)) = 1
           /\ \A i \in Whole(Appended(l)) :
                 \/ i \in Whole(file) /\ Appended(l)[i] = file[i]
                 \/ ~Joins /\ i = Len(file) + 1 /\ Appended(l)[i] = l
           /\ \A i \in DOMAIN file :
                 file[i].ended => i \in DOMAIN Appended(l) /\ Appended(l)[i] = file[i]
           /\ ~Joins => /\ Len(Appended(l)) = Len(file) + 1
                        /\ Appended(l)[Len(file) + 1] = l
<1> DEFINE a == Appended(l)
           N == Len(file)
<1>1. N \in Nat /\ DOMAIN file = 1..N
  OBVIOUS
<1>2. CASE ~Joins
  <2>1. a = Append(file, l)
    BY <1>2 DEF Appended
  <2>2. /\ a \in Seq(Lines) /\ Len(a) = N + 1 /\ DOMAIN a = 1..(N + 1) /\ a[N + 1] = l
        /\ \A i \in 1..N : a[i] = file[i]
    BY <2>1
  <2>3. Bytes(a) = Bytes(file) + l.size
    BY <2>1, BytesAppended
  <2>4. file = <<>> => N = 0
    OBVIOUS
  <2>5. \A i \in 1..(N + 1) : i \in 1..N \/ i = N + 1
    BY <1>1
  <2> HIDE DEF a
  <2>6. \A i \in Whole(a) :
           (i \in Whole(file) /\ a[i] = file[i]) \/ (i = N + 1 /\ a[i] = l)
    BY <1>1, <2>2, <2>5 DEF Whole
  <2> QED BY <1>1, <1>2, <2>2, <2>3, <2>4, <2>6 DEF a
<1>3. CASE Joins
  <2> DEFINE j == [l EXCEPT !.size = @ + Last(file).size, !.whole = FALSE]
             f == Front(file)
  <2>1. file # <<>> /\ a = Append(f, j)
    BY <1>3 DEF Appended, Joins
  <2>2. /\ f \in Seq(Lines) /\ Last(file) \in Lines /\ file = Append(f, Last(file))
        /\ Bytes(file) = Bytes(f) + Last(file).size
    BY <2>1, BytesOfLast
  <2>3. Last(file).size \in Nat /\ l.size \in Nat \ {0} /\ Bytes(f) \in Nat
    BY <2>2, BytesIsNumber DEF Lines
  <2>4. j \in Lines /\ ~j.whole /\ j.size = l.size + Last(file).size
    <3>1. l.size + Last(file).size \in Nat \ {0}
      BY <2>3
    <3> QED BY <3>1 DEF Lines
  <2> HIDE DEF j, f
  <2>5. Bytes(a) = Bytes(f) + j.size
    BY <2>1, <2>2, <2>4, BytesAppended
  <2>6. /\ a \in Seq(Lines) /\ Len(a) = Len(f) + 1 /\ a[Len(f) + 1] = j
        /\ \A i \in 1..Len(f) : a[i] = f[i]
    BY <2>1, <2>2, <2>4
  <2>7. /\ N = Len(f) + 1 /\ file[N] = Last(file) /\ Len(f) \in Nat
        /\ \A i \in 1..Len(f) : file[i] = f[i]
    BY <2>2
  <2>8. \A i \in 1..N : i \in 1..Len(f) \/ i = N
    BY <1>1, <2>7
  <2>9. DOMAIN a = 1..N
    BY <2>6, <2>7
  <2> HIDE DEF a, N
  <2>10. \A i \in Whole(a) : i \in Whole(file) /\ a[i] = file[i]
    BY <1>1, <2>4, <2>6, <2>7, <2>8, <2>9 DEF Whole
  <2>11. ~file[N].ended
    BY <1>3, <2>7 DEF Joins
  <2>12. \A i \in DOMAIN file : file[i].ended => i \in DOMAIN a /\ a[i] = file[i]
    BY <1>1, <2>6, <2>7, <2>8, <2>9, <2>11
  <2>13. Bytes(a) = Bytes(file) + l.size
    BY <2>2, <2>3, <2>4, <2>5
  <2> QED BY <1>3, <2>1, <2>6, <2>10, <2>12, <2>13 DEF a, N
<1> QED BY <1>2, <1>3

LEMMA FragmentIsLine == Fragment \in Lines /\ ~Fragment.whole /\ Fragment.size = 1
<1>1. <<>> \in Seq([endpoint : Endpoints, status : Statuses])
  OBVIOUS
<1> QED BY <1>1 DEF Fragment, Lines

\* The steps of a run that leave the file and the history alone but for the
\* ones that are named.
LEMMA Typed ==
    ASSUME TypeOK, [Next]_vars
    PROVE  TypeOK'
<1>1. CASE ProbeApi \/ ProbeNothing
  <2>1. run' \in Runs
    BY <1>1, StartsWell DEF Starts
  <2>2. UNCHANGED <<file, added, setting>>
    BY <1>1 DEF ProbeApi, ProbeNothing, Begins
  <2> QED BY <2>1, <2>2 DEF TypeOK, Runs
<1>2. CASE run # Idle /\ run' = [run EXCEPT !.pc = run'.pc] /\ run'.pc \in Phases
           /\ file' \in Seq(Lines) /\ added' \in Seq(Lines) /\ setting' = setting
  <2>1. run \in Runs
    BY <1>2 DEF TypeOK
  <2>2. run' \in Runs
    BY <1>2, <2>1 DEF Runs
  <2> QED BY <1>2, <2>2 DEF TypeOK, Runs
<1>3. CASE run' = Idle /\ file' \in Seq(Lines) /\ added' = added /\ setting' = setting
  BY <1>3 DEF TypeOK
<1>4. CASE ReadReplay
  <2>1. run # Idle /\ run' = [run EXCEPT !.pc = "stat"] /\ run \in Runs
    BY <1>4 DEF ReadReplay, TypeOK, Idle
  <2>2. run'.pc = "stat"
    BY <2>1 DEF Runs
  <2> QED BY <1>2, <1>4, <2>1, <2>2 DEF ReadReplay, TypeOK, Phases
<1>5. CASE WriteLog
  <2>1. run # Idle /\ run \in Runs /\ setting' = setting
    BY <1>5 DEF WriteLog, Stat, Read, Clear, Fill, AppendLine, TypeOK, Idle
  <2>2. CASE Stat
    <3>1. run'.pc \in {"append", "clear", "read"} /\ run' = [run EXCEPT !.pc = run'.pc]
      BY <2>1, <2>2 DEF Stat, Runs
    <3> QED BY <1>2, <2>1, <2>2, <3>1 DEF Stat, TypeOK, Phases
  <2>3. CASE Read
    <3>1. file \in Seq(Lines) /\ run.pc = "read"
      BY <2>3 DEF Read, TypeOK
    <3>2. NewestTail(file, Budget) \in Seq(Lines)
      <4>1. Budget \in Int
        <5>1. setting.limit \in Nat /\ run.limit = setting.limit
          BY <2>1, SettingIsSetting DEF TypeOK, Runs
        <5>2. run.line.size \in Nat
          BY <2>1 DEF Runs, Lines
        <5> QED BY <5>1, <5>2 DEF Budget
      <4>2. PICK f : ScanOf(file, Budget, f) /\ NewestTail(file, Budget) = f[Len(file)].lines
        BY <3>1, <4>1, NewestTailIsScan
      <4>3. Len(file) \in 0..Len(file)
        BY <3>1
      <4>4. f[Len(file)] \in Kept
        BY <4>2, <4>3 DEF ScanOf
      <4> QED BY <4>2, <4>4 DEF Kept
    <3>3. run' = [run EXCEPT !.pc = "clear", !.tail = NewestTail(file, Budget)]
      BY <2>3 DEF Read
    <3>4. run' \in Runs
      BY <2>1, <3>2, <3>3 DEF Runs, Phases
    <3> QED BY <2>1, <2>3, <3>4 DEF Read, TypeOK, Runs
  <2>4. CASE Clear
    <3>1. run'.pc = "fill" /\ run' = [run EXCEPT !.pc = run'.pc]
      BY <2>1, <2>4 DEF Clear, Runs
    <3>2. file' \in Seq(Lines)
      BY <2>4 DEF Clear
    <3> QED BY <1>2, <2>1, <2>4, <3>1, <3>2 DEF Clear, TypeOK, Phases
  <2>5. CASE Fill
    <3>1. run'.pc = "append" /\ run' = [run EXCEPT !.pc = run'.pc]
      BY <2>1, <2>5 DEF Fill, Runs
    <3>2. file' \in Seq(Lines)
      BY <2>1, <2>5 DEF Fill, Runs
    <3> QED BY <1>2, <2>1, <2>5, <3>1, <3>2 DEF Fill, TypeOK, Phases
  <2>6. CASE AppendLine
    <3>1. run'.pc = "summary" /\ run' = [run EXCEPT !.pc = run'.pc] /\ run.line \in Lines
      BY <2>1, <2>6 DEF AppendLine, Runs
    <3>2. file' \in Seq(Lines)
      BY <2>6, <3>1, AppendedIs DEF AppendLine, TypeOK
    <3>3. added' \in Seq(Lines)
      BY <2>6, <3>1 DEF AppendLine, TypeOK
    <3> QED BY <1>2, <2>1, <3>1, <3>2, <3>3 DEF Phases
  <2> QED BY <1>5, <2>2, <2>3, <2>4, <2>5, <2>6 DEF WriteLog
<1>6. CASE Summarise \/ Fail \/ Kill
  BY <1>3, <1>6 DEF Summarise, Fail, Kill, TypeOK
<1>7. CASE FailHalfWritten
  <2>1. file' = Appended(Fragment) /\ run' = Idle /\ added' = added /\ setting' = setting
    BY <1>7 DEF FailHalfWritten, AppendCut
  <2> QED BY <1>3, <2>1, FragmentIsLine, AppendedIs DEF TypeOK
<1>8. CASE UNCHANGED vars
  BY <1>8 DEF vars, TypeOK, Runs
<1> QED BY <1>1, <1>4, <1>5, <1>6, <1>7, <1>8 DEF Next

-----------------------------------------------------------------------------
(* The size of the file *)

\* With the line to come, what is kept is within the limit, or there is nothing.
RoomFor(lines) == Bytes(lines) + run.line.size <= run.limit \/ lines = <<>>

SizeInv ==
    /\ SizeBounded
    /\ run # Idle =>
          /\ run.pc \in {"replay", "stat", "read"} => run.tail = <<>>
          /\ run.pc = "read" => run.line.size < run.limit
          /\ run.pc \in {"clear", "fill"} => RoomFor(run.tail)
          /\ run.pc = "append" => RoomFor(file)

LEMMA RunFacts ==
    ASSUME TypeOK, run # Idle
    PROVE  /\ run \in Runs /\ run.line \in Lines /\ run.line.size \in Nat \ {0}
           /\ run.limit = setting.limit /\ run.limit \in Nat /\ run.tail \in Seq(Lines)
           /\ Bytes(file) \in Nat /\ Bytes(run.tail) \in Nat
           /\ \A pc \in Phases :
                 LET r == [run EXCEPT !.pc = pc]
                 IN  /\ r.pc = pc /\ r.line = run.line /\ r.limit = run.limit
                     /\ r.tail = run.tail /\ r.source = run.source /\ r # Idle
<1>1. run \in Runs
  BY DEF TypeOK
<1>2. /\ run.line \in Lines /\ run.limit = setting.limit /\ run.limit \in Nat
      /\ run.tail \in Seq(Lines)
  BY <1>1, SettingIsSetting DEF TypeOK, Runs
<1>3. run.line.size \in Nat \ {0}
  BY <1>2 DEF Lines
<1>4. ASSUME NEW pc \in Phases
      PROVE  LET r == [run EXCEPT !.pc = pc]
             IN  /\ r.pc = pc /\ r.line = run.line /\ r.limit = run.limit
                 /\ r.tail = run.tail /\ r.source = run.source /\ r # Idle
  <2> DEFINE r == [run EXCEPT !.pc = pc]
  <2>1. /\ r.pc = pc /\ r.line = run.line /\ r.limit = run.limit
        /\ r.tail = run.tail /\ r.source = run.source
    BY <1>1 DEF Runs
  <2>2. r # Idle
    <3>1. "line" \in DOMAIN r /\ ~("line" \in DOMAIN Idle)
      BY <1>1 DEF Runs, Idle
    <3> QED BY <3>1
  <2> QED BY <2>1, <2>2
<1>5. Bytes(file) \in Nat /\ Bytes(run.tail) \in Nat
  BY <1>2, BytesIsNumber DEF TypeOK
<1> QED BY <1>1, <1>2, <1>3, <1>4, <1>5

LEMMA RunsAreNotIdle ==
    ASSUME NEW r \in Runs
    PROVE  r # Idle
<1>1. "line" \in DOMAIN r /\ ~("line" \in DOMAIN Idle)
  BY DEF Runs, Idle
<1> QED BY <1>1

LEMMA SizeStarts == Init => TypeOK /\ SizeInv
<1> SUFFICES ASSUME Init PROVE TypeOK /\ SizeInv
  OBVIOUS
<1>1. setting \in Settings /\ file = setting.file /\ added = setting.file /\ run = Idle
  BY DEF Init
<1>2. setting.file \in Seq(Lines) /\ (Bytes(setting.file) <= setting.limit \/ Len(setting.file) = 1)
  BY <1>1, FetcherAssumption DEF FetcherAssumption
<1> QED BY <1>1, <1>2 DEF TypeOK, SizeInv, SizeBounded

LEMMA SizeKept ==
    ASSUME TypeOK, SizeInv, [Next]_vars
    PROVE  SizeInv'
<1>0. TypeOK'
  BY Typed
<1>1. setting' = setting
  BY DEF Next, vars, ProbeApi, ProbeNothing, Begins, ReadReplay, WriteLog, Summarise,
         Fail, FailHalfWritten, Kill
<1>2. CASE run' = Idle /\ file' = file
  BY <1>1, <1>2 DEF SizeInv, SizeBounded, Bytes
<1>3. CASE ProbeApi \/ ProbeNothing
  <2>1. Starts(run') /\ file' = file
    BY <1>3, StartsWell DEF ProbeApi, ProbeNothing, Begins
  <2> QED BY <1>1, <2>1 DEF Starts, SizeInv, SizeBounded, Bytes
<1>4. ASSUME run # Idle, NEW pc \in Phases, run' = [run EXCEPT !.pc = pc]
      PROVE  /\ run'.pc = pc /\ run'.line = run.line /\ run'.limit = run.limit
             /\ run'.tail = run.tail
  BY <1>4, RunFacts
<1>5. CASE ReadReplay
  <2>1. run # Idle /\ run.pc = "replay" /\ file' = file /\ run' = [run EXCEPT !.pc = "stat"]
    BY <1>5, RunsAreNotIdle DEF ReadReplay, TypeOK, Idle
  <2>2. run'.pc = "stat" /\ run'.tail = run.tail
    BY <2>1, <1>4 DEF Phases
  <2> QED BY <1>1, <2>1, <2>2 DEF SizeInv, SizeBounded
<1>6. CASE Stat
  <2>1. run # Idle /\ run.pc = "stat" /\ file' = file
    BY <1>6 DEF Stat, TypeOK, Idle
  <2> DEFINE pc == IF Bytes(file) + run.line.size <= run.limit THEN "append"
                   ELSE IF run.line.size >= run.limit THEN "clear" ELSE "read"
  <2>2. run' = [run EXCEPT !.pc = pc] /\ pc \in Phases
    BY <1>6 DEF Stat, Phases
  <2>3. /\ run'.pc = pc /\ run'.line = run.line /\ run'.limit = run.limit
        /\ run'.tail = run.tail
    BY <1>4, <2>1, <2>2
  <2>4. run.tail = <<>> /\ run.line.size \in Nat /\ run.limit \in Nat
    BY <2>1, RunFacts DEF SizeInv
  <2> QED BY <1>1, <2>1, <2>3, <2>4 DEF SizeInv, SizeBounded, RoomFor
<1>7. CASE Read
  <2>1. run # Idle /\ run.pc = "read" /\ file' = file /\ file \in Seq(Lines)
    BY <1>7 DEF Read, TypeOK, Idle
  <2>2. run.line.size < run.limit /\ run.line.size \in Nat /\ run.limit \in Nat
    BY <2>1, RunFacts DEF SizeInv
  <2>3. Budget \in Nat
    BY <2>2 DEF Budget
  <2> DEFINE t == NewestTail(file, Budget)
  <2>4. t \in Seq(Lines) /\ Bytes(t) <= Budget /\ Bytes(t) \in Nat
    BY <2>1, <2>3, NoMoreThanBudget, BytesIsNumber
  <2> HIDE DEF t
  <2>5. run' = [run EXCEPT !.pc = "clear", !.tail = t]
    BY <1>7 DEF Read, t
  <2>6. run'.pc = "clear" /\ run'.tail = t /\ run'.line = run.line /\ run'.limit = run.limit
    BY <2>1, <2>5, RunFacts DEF Runs
  <2>7. Bytes(t) + run.line.size <= run.limit
    BY <2>2, <2>4 DEF Budget
  <2> QED BY <1>1, <2>1, <2>6, <2>7 DEF SizeInv, SizeBounded, RoomFor
<1>8. CASE Clear
  <2>1. run # Idle /\ run.pc = "clear" /\ file' = <<>> /\ run' = [run EXCEPT !.pc = "fill"]
    BY <1>8 DEF Clear, TypeOK, Idle
  <2>2. /\ run'.pc = "fill" /\ run'.line = run.line /\ run'.limit = run.limit
        /\ run'.tail = run.tail
    BY <1>4, <2>1 DEF Phases
  <2>3. Bytes(<<>>) <= setting.limit
    BY <2>1, BytesOfNone, RunFacts
  <2>4. SizeBounded'
    BY <1>1, <2>1, <2>3 DEF SizeBounded
  <2> QED BY <2>1, <2>2, <2>4 DEF SizeInv, RoomFor
<1>9. CASE Fill
  <2>1. run # Idle /\ run.pc = "fill" /\ file' = run.tail /\ run' = [run EXCEPT !.pc = "append"]
    BY <1>9 DEF Fill, TypeOK, Idle
  <2>2. /\ run'.pc = "append" /\ run'.line = run.line /\ run'.limit = run.limit
        /\ run'.tail = run.tail
    BY <1>4, <2>1 DEF Phases
  <2>3. RoomFor(run.tail)
    BY <2>1 DEF SizeInv
  <2>4. Bytes(run.tail) <= setting.limit
    BY <2>1, <2>3, BytesOfNone, RunFacts DEF RoomFor
  <2>5. SizeBounded'
    BY <1>1, <2>1, <2>4 DEF SizeBounded
  <2>6. RoomFor(file)'
    BY <2>1, <2>2, <2>3 DEF RoomFor
  <2> QED BY <2>1, <2>2, <2>5, <2>6 DEF SizeInv
<1>10. ASSUME run # Idle, run.pc = "append", NEW l \in Lines, l.size <= run.line.size,
              file' = Appended(l)
       PROVE  SizeBounded'
  <2>1. /\ Bytes(Appended(l)) = Bytes(file) + l.size
        /\ file = <<>> => Len(Appended(l)) = 1
    BY <1>10, AppendedIs DEF TypeOK
  <2>2. Bytes(file) + run.line.size <= run.limit \/ file = <<>>
    BY <1>10 DEF SizeInv, RoomFor
  <2>3. l.size \in Nat
    BY DEF Lines
  <2>4. Bytes(Appended(l)) <= setting.limit \/ Len(Appended(l)) = 1
    BY <1>10, <2>1, <2>2, <2>3, RunFacts
  <2> QED BY <1>1, <1>10, <2>4 DEF SizeBounded
<1>11. CASE AppendLine
  <2>1. run # Idle /\ run.pc = "append" /\ file' = Appended(run.line)
        /\ run' = [run EXCEPT !.pc = "summary"]
    BY <1>11 DEF AppendLine, TypeOK, Idle
  <2>2. run'.pc = "summary"
    BY <1>4, <2>1 DEF Phases
  <2>3. SizeBounded'
    BY <1>10, <2>1, RunFacts
  <2> QED BY <2>2, <2>3 DEF SizeInv
<1>12. CASE FailHalfWritten
  <2>1. run # Idle /\ run.pc = "append" /\ file' = Appended(Fragment) /\ run' = Idle
    BY <1>12 DEF FailHalfWritten, AppendCut, TypeOK, Idle
  <2>2. Fragment \in Lines /\ Fragment.size <= run.line.size
    BY <2>1, FragmentIsLine, RunFacts
  <2>3. SizeBounded'
    BY <1>10, <2>1, <2>2
  <2> QED BY <2>1, <2>3 DEF SizeInv
<1>13. CASE UNCHANGED vars
  BY <1>1, <1>13 DEF vars, SizeInv, SizeBounded, RoomFor
<1>14. CASE Summarise \/ Fail \/ Kill
  BY <1>2, <1>14 DEF Summarise, Fail, Kill
<1> QED BY <1>3, <1>5, <1>6, <1>7, <1>8, <1>9, <1>11, <1>12, <1>13, <1>14
        DEF Next, WriteLog

\* The probe log stays within its limit, but for one line that is as large as
\* the limit itself: truncateProbeLogTailForAppend makes room for a line before
\* it is appended, wherever a run is killed or loses a file operation.
THEOREM LogIsBounded == Spec => []SizeBounded
<1>1. Init => TypeOK /\ SizeInv
  BY SizeStarts
<1>2. TypeOK /\ SizeInv /\ [Next]_vars => (TypeOK /\ SizeInv)'
  BY Typed, SizeKept
<1>3. SizeInv => SizeBounded
  BY DEF SizeInv
<1> QED BY <1>1, <1>2, <1>3, PTL DEF Spec

-----------------------------------------------------------------------------
(* The newest lines are kept *)

History == \A i \in DOMAIN added : added[i].id = i /\ added[i].whole /\ added[i].ended
Traced(lines) ==
    \A i \in Whole(lines) : lines[i].id \in DOMAIN added /\ lines[i] = added[lines[i].id]
Newest(lines) == \A l \in ToSet(added) \ ToSet(lines) : OlderThanAll(l, lines)

KeepInv ==
    /\ History /\ Traced(file) /\ Ordered(file)
    /\ run # Idle =>
          /\ run.line.whole /\ run.line.ended
          /\ run.pc # "summary" => run.line.id = Len(added) + 1
          /\ run.pc \in {"clear", "fill"} => Traced(run.tail) /\ Ordered(run.tail)

NewestInv ==
    Roomy =>
      /\ \A i \in DOMAIN added : 2 * added[i].size <= setting.limit
      /\ Newest(file)
      /\ run # Idle =>
            /\ 2 * run.line.size <= setting.limit
            /\ run.pc \in {"clear", "fill"} => Newest(run.tail)

LEMMA NothingKept == Whole(<<>>) = {} /\ Traced(<<>>) /\ Ordered(<<>>) /\ Newest(<<>>)
<1>1. Whole(<<>>) = {}
  BY DEF Whole
<1> QED BY <1>1 DEF Traced, Ordered, Newest, OlderThanAll

LEMMA KeepStarts == Init => KeepInv /\ NewestInv
<1> SUFFICES ASSUME Init PROVE KeepInv /\ NewestInv
  OBVIOUS
<1>1. setting \in Settings /\ file = setting.file /\ added = setting.file /\ run = Idle
  BY DEF Init
<1>2. \A i \in DOMAIN added : added[i].id = i /\ added[i].whole /\ added[i].ended
  BY <1>1, FetcherAssumption DEF FetcherAssumption
<1>3. added \in Seq(Lines)
  BY <1>1, FetcherAssumption DEF FetcherAssumption
<1>4. History /\ Traced(file) /\ Ordered(file) /\ Newest(file)
  BY <1>1, <1>2, <1>3 DEF History, Traced, Ordered, Newest, Whole
<1>5. Roomy => \A i \in DOMAIN added : 2 * added[i].size <= setting.limit
  BY <1>1 DEF Roomy
<1> QED BY <1>1, <1>4, <1>5 DEF KeepInv, NewestInv

LEMMA TailIsTraced ==
    ASSUME TypeOK, KeepInv, NEW b \in Nat
    PROVE  /\ Traced(NewestTail(file, b)) /\ Ordered(NewestTail(file, b))
           /\ Newest(file) /\ (\A i \in DOMAIN added : added[i].size <= b)
                 => Newest(NewestTail(file, b))
<1> DEFINE t == NewestTail(file, b)
<1>1. file \in Seq(Lines) /\ Ordered(file) /\ History /\ Traced(file)
  BY DEF TypeOK, KeepInv
<1>2. /\ \A i \in DOMAIN t : \E j \in DOMAIN file : t[i] = Ended(file[j])
      /\ Ordered(t)
      /\ \A j \in DOMAIN file : file[j].whole /\ file[j].ended /\ file[j].size <= b =>
            file[j] \in ToSet(t) \/ OlderThanAll(file[j], t)
  BY <1>1, TailKeepsNewest
<1> HIDE DEF t
<1>3. ASSUME NEW i \in Whole(t)
      PROVE  \E j \in Whole(file) : t[i] = file[j]
  <2>1. PICK j \in DOMAIN file : t[i] = Ended(file[j])
    BY <1>2 DEF Whole
  <2>2. file[j] \in Lines /\ t[i].whole
    BY <1>1 DEF Whole
  <2>3. j \in Whole(file)
    BY <2>1, <2>2, EndedIsLine DEF Whole
  <2>4. file[j].ended
    BY <1>1, <2>3 DEF Traced, History
  <2> QED BY <2>1, <2>2, <2>3, <2>4, EndedIsLine
<1>4. Traced(t)
  <2> SUFFICES ASSUME NEW i \in Whole(t)
               PROVE  t[i].id \in DOMAIN added /\ t[i] = added[t[i].id]
    BY DEF Traced
  <2>1. PICK j \in Whole(file) : t[i] = file[j]
    BY <1>3
  <2> QED BY <1>1, <2>1 DEF Traced
<1>5. ASSUME Newest(file), \A i \in DOMAIN added : added[i].size <= b
      PROVE  Newest(t)
  <2> SUFFICES ASSUME NEW l \in ToSet(added) \ ToSet(t) PROVE OlderThanAll(l, t)
    BY DEF Newest
  <2>1. CASE l \in ToSet(file)
    <3>1. PICK j \in DOMAIN file : file[j] = l
      BY <2>1 DEF ToSet
    <3>2. l.whole /\ l.ended /\ l.size <= b
      BY <1>1, <1>5 DEF ToSet, History
    <3> QED BY <1>2, <3>1, <3>2
  <2>2. CASE l \notin ToSet(file)
    <3>1. OlderThanAll(l, file)
      BY <1>5, <2>2 DEF Newest
    <3> QED BY <1>3, <3>1 DEF OlderThanAll
  <2> QED BY <2>1, <2>2
<1> QED BY <1>2, <1>4, <1>5 DEF t

\* Lines that are told from the history and older than what comes next.
LEMMA TracedAreOlder ==
    ASSUME TypeOK, History, NEW lines, Traced(lines), NEW i \in Whole(lines)
    PROVE  lines[i].id \in Nat /\ lines[i].id < Len(added) + 1
<1>1. added \in Seq(Lines) /\ Len(added) \in Nat /\ DOMAIN added = 1..Len(added)
  BY DEF TypeOK
<1> QED BY <1>1 DEF Traced

LEMMA AppendedKeeps ==
    ASSUME TypeOK, KeepInv, NEW l \in Lines,
           added' = IF Joins \/ ~l.whole THEN added ELSE Append(added, l),
           l.whole => l.id = Len(added) + 1 /\ l.ended,
           file' = Appended(l)
    PROVE  /\ History' /\ Traced(file)' /\ Ordered(file)'
           /\ Newest(file) => Newest(file)'
<1> DEFINE N == Len(added)
           a == Appended(l)
<1>1. /\ added \in Seq(Lines) /\ N \in Nat /\ DOMAIN added = 1..N
      /\ file \in Seq(Lines) /\ Len(file) \in Nat /\ DOMAIN file = 1..Len(file)
      /\ History /\ Traced(file) /\ Ordered(file)
  BY DEF TypeOK, KeepInv
<1>2. /\ \A i \in Whole(a) :
            \/ i \in Whole(file) /\ a[i] = file[i]
            \/ ~Joins /\ i = Len(file) + 1 /\ a[i] = l
      /\ \A i \in DOMAIN file : file[i].ended => i \in DOMAIN a /\ a[i] = file[i]
      /\ ~Joins => Len(a) = Len(file) + 1 /\ a[Len(file) + 1] = l
      /\ a \in Seq(Lines) /\ DOMAIN a = 1..Len(a)
  BY <1>1, AppendedIs
<1> HIDE DEF a
<1>3. file' = a
  BY DEF a
<1>4. CASE added' = added /\ (Joins \/ ~l.whole)
  <2>1. \A i \in Whole(a) : i \in Whole(file) /\ a[i] = file[i]
    BY <1>2, <1>4 DEF Whole
  <2>2. History'
    BY <1>1, <1>4 DEF History
  <2>3. Traced(a) /\ Ordered(a)
    BY <1>1, <2>1 DEF Traced, Ordered
  <2>4. ASSUME Newest(file), NEW k \in ToSet(added) \ ToSet(a) PROVE OlderThanAll(k, a)
    <3>1. k \notin ToSet(file)
      <4> SUFFICES ASSUME NEW i \in DOMAIN file, k = file[i] PROVE FALSE
        BY DEF ToSet
      <4>1. k.ended
        BY <1>1 DEF ToSet, History
      <4> QED BY <1>2, <2>4, <4>1 DEF ToSet
    <3>2. OlderThanAll(k, file)
      BY <2>4, <3>1 DEF Newest
    <3> QED BY <2>1, <3>2 DEF OlderThanAll
  <2> QED BY <1>3, <1>4, <2>2, <2>3, <2>4 DEF Traced, Ordered, Newest
<1>5. CASE added' = Append(added, l) /\ ~Joins /\ l.whole
  <2> DEFINE h == Append(added, l)
  <2>1. /\ DOMAIN h = 1..(N + 1) /\ h[N + 1] = l /\ \A i \in 1..N : h[i] = added[i]
        /\ ToSet(h) = ToSet(added) \cup {l}
    <3>1. DOMAIN h = 1..(N + 1) /\ h[N + 1] = l /\ \A i \in 1..N : h[i] = added[i]
      BY <1>1
    <3>2. \A i \in 1..(N + 1) : i \in 1..N \/ i = N + 1
      BY <1>1
    <3>3. \A i \in 1..N : i \in 1..(N + 1)
      BY <1>1
    <3>4. N + 1 \in 1..(N + 1)
      BY <1>1
    <3> HIDE DEF h, N
    <3> QED BY <1>1, <3>1, <3>2, <3>3, <3>4 DEF ToSet
  <2> HIDE DEF h
  <2>2. added' = h
    BY <1>5 DEF h
  <2>3. l.id = N + 1 /\ l.ended
    BY <1>5
  <2>4. \A i \in 1..(N + 1) : i \in 1..N \/ i = N + 1
    BY <1>1
  <2>5. \A i \in 1..N : i \in 1..(N + 1)
    BY <1>1
  <2>6. N + 1 \in 1..(N + 1)
    BY <1>1
  <2>7. History'
    BY <1>1, <1>5, <2>1, <2>2, <2>3, <2>4 DEF History
  <2>8. \A i \in Whole(a) : a[i].id \in DOMAIN h /\ a[i] = h[a[i].id]
    <3> SUFFICES ASSUME NEW i \in Whole(a)
                 PROVE  a[i].id \in DOMAIN h /\ a[i] = h[a[i].id]
      OBVIOUS
    <3>1. CASE i \in Whole(file) /\ a[i] = file[i]
      <4>1. file[i].id \in 1..N /\ file[i] = added[file[i].id]
        BY <1>1, <3>1 DEF Traced
      <4> QED BY <2>1, <2>5, <3>1, <4>1
    <3>2. CASE a[i] = l
      BY <2>1, <2>3, <2>6, <3>2
    <3> QED BY <1>2, <3>1, <3>2
  <2>9. \A i \in Whole(file) : file[i].id \in Nat /\ file[i].id < N + 1 /\ i < Len(file) + 1
    <3>1. \A i \in Whole(file) : i < Len(file) + 1
      BY <1>1 DEF Whole
    <3> QED BY <1>1, <3>1, TracedAreOlder
  <2>10. Ordered(a)
    <3> SUFFICES ASSUME NEW i \in Whole(a), NEW j \in Whole(a), i < j PROVE a[i].id < a[j].id
      BY DEF Ordered
    <3>1. CASE i \in Whole(file) /\ j \in Whole(file) /\ a[i] = file[i] /\ a[j] = file[j]
      BY <1>1, <3>1 DEF Ordered
    <3>2. CASE i \in Whole(file) /\ a[i] = file[i] /\ j = Len(file) + 1 /\ a[j] = l
      BY <2>3, <2>9, <3>2
    <3>3. CASE i = Len(file) + 1
      <4>1. j \in 1..Len(a) /\ Len(a) = Len(file) + 1
        BY <1>2, <1>5 DEF Whole
      <4> QED BY <1>1, <3>3, <4>1
    <3> QED BY <1>2, <3>1, <3>2, <3>3
  <2>11. ASSUME Newest(file), NEW k \in ToSet(h) \ ToSet(a) PROVE OlderThanAll(k, a)
    <3>1. k # l
      <4>1. Len(file) + 1 \in DOMAIN a /\ a[Len(file) + 1] = l
        BY <1>1, <1>2, <1>5
      <4> QED BY <2>11, <4>1 DEF ToSet
    <3>2. k \in ToSet(added)
      BY <2>1, <2>11, <3>1
    <3>3. k \notin ToSet(file)
      <4> SUFFICES ASSUME NEW i \in DOMAIN file, k = file[i] PROVE FALSE
        BY DEF ToSet
      <4>1. k.ended
        BY <1>1, <3>2 DEF ToSet, History
      <4> QED BY <1>2, <2>11, <4>1 DEF ToSet
    <3>4. OlderThanAll(k, file)
      BY <2>11, <3>2, <3>3 DEF Newest
    <3>5. k.id < l.id
      <4>1. k.id \in 1..N
        BY <1>1, <3>2 DEF ToSet, History
      <4> QED BY <1>1, <2>3, <4>1
    <3> QED BY <1>2, <3>4, <3>5 DEF OlderThanAll
  <2> QED BY <1>3, <2>2, <2>7, <2>8, <2>10, <2>11 DEF Traced, Ordered, Newest
<1> QED BY <1>4, <1>5

LEMMA KeepKept ==
    ASSUME TypeOK, SizeInv, KeepInv, NewestInv, [Next]_vars
    PROVE  KeepInv' /\ NewestInv'
<1>0. TypeOK'
  BY Typed
<1>1. setting' = setting /\ (Roomy' <=> Roomy)
  <2>1. setting' = setting
    BY DEF Next, vars, ProbeApi, ProbeNothing, Begins, ReadReplay, WriteLog, Summarise,
           Fail, FailHalfWritten, Kill
  <2> QED BY <2>1 DEF Roomy, LargestLine
<1>2. CASE file' = file /\ added' = added /\ run' = Idle
  BY <1>1, <1>2 DEF KeepInv, NewestInv, History, Traced, Ordered, Newest
<1>3. CASE ProbeApi \/ ProbeNothing
  <2>1. Starts(run') /\ file' = file /\ added' = added
    BY <1>3, StartsWell DEF ProbeApi, ProbeNothing, Begins
  <2>2. Roomy => 2 * run'.line.size <= setting.limit
    <3>1. run'.line \in Lines /\ run'.line.size \in Nat
      BY <2>1 DEF Starts, Runs, Lines
    <3>2. LargestLine \in Int
      <4>1. Len(setting.endpoints) \in Nat
        BY SettingIsSetting DEF TypeOK
      <4>2. MostNoted \in Nat /\ LargestLine = 1 + Len(setting.endpoints) * MostNoted
        BY DEF MostNoted, LargestLine
      <4> QED BY <4>1, <4>2
    <3>3. setting.limit \in Nat
      BY SettingIsSetting DEF TypeOK
    <3> QED BY <2>1, <3>1, <3>2, <3>3 DEF Starts, Roomy
  <2> QED BY <1>1, <2>1, <2>2
          DEF Starts, KeepInv, NewestInv, History, Traced, Ordered, Newest
<1>4. ASSUME run # Idle, NEW pc \in Phases, run' = [run EXCEPT !.pc = pc]
      PROVE  /\ run'.pc = pc /\ run'.line = run.line /\ run'.limit = run.limit
             /\ run'.tail = run.tail
  BY <1>4, RunFacts
<1>5. CASE ReadReplay
  <2>1. run # Idle /\ run.pc = "replay" /\ file' = file /\ added' = added
        /\ run' = [run EXCEPT !.pc = "stat"]
    BY <1>5 DEF ReadReplay, Idle
  <2>2. run'.pc = "stat" /\ run'.line = run.line
    BY <1>4, <2>1 DEF Phases
  <2> QED BY <1>1, <2>1, <2>2 DEF KeepInv, NewestInv, History, Traced, Ordered, Newest
<1>6. CASE Stat
  <2>1. run # Idle /\ run.pc = "stat" /\ file' = file /\ added' = added
    BY <1>6 DEF Stat, Idle
  <2> DEFINE pc == IF Bytes(file) + run.line.size <= run.limit THEN "append"
                   ELSE IF run.line.size >= run.limit THEN "clear" ELSE "read"
  <2>2. run' = [run EXCEPT !.pc = pc] /\ pc \in Phases /\ pc # "summary"
    BY <1>6 DEF Stat, Phases
  <2> HIDE DEF pc
  <2>3. /\ run'.pc = pc /\ run'.line = run.line /\ run'.tail = run.tail
    BY <1>4, <2>1, <2>2
  <2>4. run.tail = <<>>
    BY <2>1 DEF SizeInv
  <2>5. Traced(run.tail) /\ Ordered(run.tail) /\ Newest(run.tail)
    BY <2>4, NothingKept
  <2> QED BY <1>1, <2>1, <2>2, <2>3, <2>5
          DEF KeepInv, NewestInv, History, Traced, Ordered, Newest
<1>7. CASE Read
  <2>1. run # Idle /\ run.pc = "read" /\ file' = file /\ added' = added
    BY <1>7 DEF Read, Idle
  <2>2. run.line.size < run.limit /\ run.line.size \in Nat /\ run.limit \in Nat
        /\ run.limit = setting.limit
    BY <2>1, RunFacts DEF SizeInv
  <2>3. Budget \in Nat
    BY <2>2 DEF Budget
  <2> DEFINE t == NewestTail(file, Budget)
  <2>4. Traced(t) /\ Ordered(t)
    BY <2>3, TailIsTraced
  <2>5. Roomy => Newest(t)
    <3> SUFFICES ASSUME Roomy PROVE Newest(t)
      OBVIOUS
    <3>1. Newest(file) /\ 2 * run.line.size <= setting.limit
      BY <2>1 DEF NewestInv
    <3>2. ASSUME NEW i \in DOMAIN added PROVE added[i].size <= Budget
      <4>1. 2 * added[i].size <= setting.limit
        BY DEF NewestInv
      <4>2. added[i] \in Lines
        BY DEF TypeOK
      <4>3. added[i].size \in Nat
        BY <4>2 DEF Lines
      <4> QED BY <2>2, <3>1, <4>1, <4>3 DEF Budget
    <3> QED BY <2>3, <3>1, <3>2, TailIsTraced
  <2> HIDE DEF t
  <2>6. run' = [run EXCEPT !.pc = "clear", !.tail = t]
    BY <1>7 DEF Read, t
  <2>7. run'.pc = "clear" /\ run'.tail = t /\ run'.line = run.line
    BY <2>1, <2>6, RunFacts DEF Runs
  <2> QED BY <1>1, <2>1, <2>4, <2>5, <2>7
          DEF KeepInv, NewestInv, History, Traced, Ordered, Newest
<1>8. CASE Clear
  <2>1. run # Idle /\ run.pc = "clear" /\ file' = <<>> /\ added' = added
        /\ run' = [run EXCEPT !.pc = "fill"]
    BY <1>8 DEF Clear, Idle
  <2>2. run'.pc = "fill" /\ run'.line = run.line /\ run'.tail = run.tail
    BY <1>4, <2>1 DEF Phases
  <2>3. Whole(<<>>) = {} /\ Traced(<<>>) /\ Ordered(<<>>) /\ Newest(<<>>)
    BY NothingKept
  <2> QED BY <1>1, <2>1, <2>2, <2>3
          DEF KeepInv, NewestInv, History, Traced, Ordered, Newest
<1>9. CASE Fill
  <2>1. run # Idle /\ run.pc = "fill" /\ file' = run.tail /\ added' = added
        /\ run' = [run EXCEPT !.pc = "append"]
    BY <1>9 DEF Fill, Idle
  <2>2. run'.pc = "append" /\ run'.line = run.line
    BY <1>4, <2>1 DEF Phases
  <2> QED BY <1>1, <2>1, <2>2
          DEF KeepInv, NewestInv, History, Traced, Ordered, Newest
<1>10. CASE AppendLine
  <2>1. /\ run # Idle /\ run.pc = "append" /\ file' = Appended(run.line)
        /\ added' = IF Joins THEN added ELSE Append(added, run.line)
        /\ run' = [run EXCEPT !.pc = "summary"]
    BY <1>10 DEF AppendLine, Idle
  <2>2. run'.pc = "summary" /\ run'.line = run.line /\ run.line \in Lines
    BY <1>4, <2>1, RunFacts DEF Phases
  <2>3. run.line.whole /\ run.line.ended /\ run.line.id = Len(added) + 1
    BY <2>1 DEF KeepInv
  <2>4. /\ History' /\ Traced(file)' /\ Ordered(file)'
        /\ Newest(file) => Newest(file)'
    BY <2>1, <2>2, <2>3, AppendedKeeps
  <2>5. Roomy => \A i \in DOMAIN added' : 2 * added'[i].size <= setting.limit
    <3>1. Roomy => 2 * run.line.size <= setting.limit
      BY <2>1 DEF NewestInv
    <3>2. \A i \in DOMAIN added' : (i \in DOMAIN added /\ added'[i] = added[i])
                                   \/ added'[i] = run.line
      BY <2>1 DEF TypeOK
    <3> QED BY <3>1, <3>2 DEF NewestInv
  <2> QED BY <1>1, <2>1, <2>2, <2>3, <2>4, <2>5 DEF KeepInv, NewestInv
<1>11. CASE FailHalfWritten
  <2>1. file' = Appended(Fragment) /\ run' = Idle /\ added' = added
    BY <1>11 DEF FailHalfWritten, AppendCut
  <2>2. /\ History' /\ Traced(file)' /\ Ordered(file)'
        /\ Newest(file) => Newest(file)'
    BY <2>1, FragmentIsLine, AppendedKeeps
  <2> QED BY <1>1, <2>1, <2>2 DEF KeepInv, NewestInv
<1>12. CASE UNCHANGED vars
  BY <1>1, <1>12 DEF vars, KeepInv, NewestInv, History, Traced, Ordered, Newest
<1>13. CASE Summarise \/ Fail \/ Kill
  BY <1>2, <1>13 DEF Summarise, Fail, Kill
<1> QED BY <1>3, <1>5, <1>6, <1>7, <1>8, <1>9, <1>10, <1>11, <1>12, <1>13
        DEF Next, WriteLog

\* All that holds of the log.
LogInv == TypeOK /\ SizeInv /\ KeepInv /\ NewestInv

LEMMA LogAlways == Spec => []LogInv
<1>1. Init => LogInv
  BY SizeStarts, KeepStarts DEF LogInv
<1>2. LogInv /\ [Next]_vars => LogInv'
  BY Typed, SizeKept, KeepKept DEF LogInv
<1> QED BY <1>1, <1>2, PTL DEF Spec

\* What takeNewestJsonlTail keeps are the newest lines, in the order they were
\* added in, whatever was cut off, joined to half a line or lost on the way.
THEOREM NewestAreKept == Spec => []KeepsNewest
<1>1. LogInv => KeepsNewest
  BY DEF LogInv, KeepInv, NewestInv, KeepsNewest, Ordered, Newest, OlderThanAll
<1> QED BY <1>1, LogAlways, PTL

-----------------------------------------------------------------------------
(* The events of a summary *)

LEMMA ImageIsFinite ==
    ASSUME NEW S, IsFiniteSet(S), NEW f, NEW T, T = {f[x] : x \in S}, f \in [S -> T]
    PROVE  IsFiniteSet(T)
<1>1. f \in Surjection(S, T)
  BY DEF Surjection
<1> QED BY <1>1, FS_Surjection

\* The places of a log.
PlacesIn(lines) ==
    UNION {{<<i, j>> : j \in DOMAIN lines[i].entries} : i \in DOMAIN lines}

LEMMA PlacesAreFinite ==
    ASSUME NEW lines \in Seq(Lines)
    PROVE  /\ IsFiniteSet(PlacesIn(lines))
           /\ \A i \in DOMAIN lines : \A j \in DOMAIN lines[i].entries :
                 <<i, j>> \in PlacesIn(lines) /\ i \in Nat /\ j \in Nat
<1> DEFINE F == [i \in DOMAIN lines |-> {<<i, j>> : j \in DOMAIN lines[i].entries}]
           Rows == {F[i] : i \in DOMAIN lines}
<1>1. DOMAIN lines = 1..Len(lines) /\ Len(lines) \in Nat
  OBVIOUS
<1>2. ASSUME NEW i \in DOMAIN lines
      PROVE  /\ DOMAIN lines[i].entries = 1..Len(lines[i].entries)
             /\ Len(lines[i].entries) \in Nat
  <2>1. lines[i] \in Lines
    BY <1>1
  <2>2. lines[i].entries \in Seq([endpoint : Endpoints, status : Statuses])
    BY <2>1 DEF Lines
  <2> QED BY <2>2
<1>3. IsFiniteSet(DOMAIN lines)
  BY <1>1, FS_Interval
<1>4. ASSUME NEW i \in DOMAIN lines PROVE IsFiniteSet(F[i])
  <2> DEFINE J == DOMAIN lines[i].entries
             g == [j \in J |-> <<i, j>>]
             T == {g[j] : j \in J}
  <2>1. IsFiniteSet(J)
    BY <1>2, FS_Interval
  <2>2. g \in [J -> T]
    OBVIOUS
  <2>3. F[i] = T
    OBVIOUS
  <2> HIDE DEF g, J, F
  <2>4. IsFiniteSet(T)
    <3> DEFINE U == T
    <3>1. U = {g[j] : j \in J} /\ g \in [J -> U]
      BY <2>2
    <3> HIDE DEF U
    <3>2. IsFiniteSet(U)
      BY <2>1, <3>1, ImageIsFinite
    <3> QED BY <3>2 DEF U
  <2> QED BY <2>3, <2>4
<1>5. F \in [DOMAIN lines -> Rows]
  OBVIOUS
<1>6. PlacesIn(lines) = UNION Rows
  BY DEF PlacesIn
<1> HIDE DEF F
<1>7. IsFiniteSet(Rows)
  <2> DEFINE U == Rows
  <2>1. U = {F[i] : i \in DOMAIN lines} /\ F \in [DOMAIN lines -> U]
    BY <1>5
  <2> HIDE DEF U
  <2>2. IsFiniteSet(U)
    BY <1>3, <2>1, ImageIsFinite
  <2> QED BY <2>2 DEF U
<1>8. IsFiniteSet(UNION Rows)
  BY <1>4, <1>7, FS_UNION
<1>9. \A i \in DOMAIN lines : \A j \in DOMAIN lines[i].entries :
         <<i, j>> \in PlacesIn(lines) /\ i \in Nat /\ j \in Nat
  BY <1>1, <1>2 DEF PlacesIn
<1> QED BY <1>6, <1>8, <1>9

LEMMA EventsAre ==
    ASSUME NEW lines, NEW since, NEW now, NEW templates, NEW e
    PROVE  e \in Events(lines, since, now, templates) <=>
              \E i \in DOMAIN lines : \E j \in DOMAIN lines[i].entries :
                 /\ InWindow(lines[i], since, now)
                 /\ lines[i].entries[j].endpoint.template \in templates
                 /\ e = Event(lines, i, j)
BY DEF Events, EventsOf

LEMMA EventIs ==
    ASSUME NEW lines \in Seq(Lines), NEW i \in DOMAIN lines, NEW j \in DOMAIN lines[i].entries
    PROVE  LET e == Event(lines, i, j)
           IN  /\ e.at = lines[i].at /\ e.line = i /\ e.index = j
               /\ e.endpoint = lines[i].entries[j].endpoint
               /\ e.status = lines[i].entries[j].status
               /\ e.at \in Nat /\ i \in Nat /\ j \in Nat
<1>1. lines[i] \in Lines
  OBVIOUS
<1>2. lines[i].at \in Nat
  BY <1>1 DEF Lines
<1>3. i \in Nat /\ j \in Nat
  BY PlacesAreFinite
<1> QED BY <1>2, <1>3 DEF Event

LEMMA EventsAreFinite ==
    ASSUME NEW lines \in Seq(Lines), NEW since, NEW now, NEW templates
    PROVE  IsFiniteSet(Events(lines, since, now, templates))
<1> DEFINE P == PlacesIn(lines)
           f == [p \in P |-> Event(lines, p[1], p[2])]
           T == {f[p] : p \in P}
<1>1. IsFiniteSet(P)
  BY PlacesAreFinite
<1>2. f \in [P -> T]
  OBVIOUS
<1>3. Events(lines, since, now, templates) \subseteq T
  <2> SUFFICES ASSUME NEW e \in Events(lines, since, now, templates) PROVE e \in T
    OBVIOUS
  <2>1. PICK i \in DOMAIN lines : \E j \in DOMAIN lines[i].entries : e = Event(lines, i, j)
    BY EventsAre
  <2>2. PICK j \in DOMAIN lines[i].entries : e = Event(lines, i, j)
    BY <2>1
  <2>3. <<i, j>> \in P
    BY PlacesAreFinite
  <2>4. f[<<i, j>>] = e
    BY <2>2, <2>3
  <2> HIDE DEF f, P
  <2> QED BY <2>3, <2>4
<1> HIDE DEF f, P
<1>4. IsFiniteSet(T)
  <2> DEFINE U == T
  <2>1. U = {f[p] : p \in P} /\ f \in [P -> U]
    BY <1>2
  <2> HIDE DEF U
  <2>2. IsFiniteSet(U)
    BY <1>1, <2>1, ImageIsFinite
  <2> QED BY <2>2 DEF U
<1> QED BY <1>3, <1>4, FS_Subset

\* What is reported of an endpoint whose last event is known.
IsEvent(e) == e.at \in Nat /\ e.line \in Nat /\ e.index \in Nat

LEMMA LastIsShown ==
    ASSUME NEW events, IsFiniteSet(events), \A e \in events : IsEvent(e),
           NEW e \in events,
           \A o \in events : o.endpoint = e.endpoint => o = e \/ Before(o, e)
    PROVE  \E shown \in Streaks(events) :
              /\ shown.endpoint = e.endpoint
              /\ shown.last = e.status
              /\ shown.streak = 0 <=> e.status = "ok"
<1> DEFINE own == Own(e.endpoint, events)
           failed == {o \in own : \A p \in own : p.status = "ok" => Before(p, o)}
           shown == [endpoint |-> e.endpoint, streak |-> TrailingFailures(own),
                     last |-> LastOf(own).status]
<1>1. e \in own /\ (\A o \in own : o = e \/ Before(o, e)) /\ own \subseteq events
  BY DEF Own
<1>2. shown \in Streaks(events)
  BY DEF Streaks
<1> HIDE DEF own
<1>3. \A o, p \in own : ~(Before(o, p) /\ (Before(p, o) \/ o = p))
  BY <1>1 DEF Before, IsEvent
<1>4. LastOf(own) = e
  <2>1. LastOf(own) \in own /\ \A o \in own : o = LastOf(own) \/ Before(o, LastOf(own))
    BY <1>1 DEF LastOf
  <2> QED BY <1>1, <1>3, <2>1
<1>5. TrailingFailures(own) = Cardinality(failed) /\ IsFiniteSet(failed)
  <2>1. failed \subseteq events
    BY <1>1
  <2>2. TrailingFailures(own) = Cardinality(failed)
    BY DEF TrailingFailures
  <2> HIDE DEF failed
  <2> QED BY <2>1, <2>2, FS_Subset
<1>6. failed = {} <=> e.status = "ok"
  <2>1. ASSUME e.status = "ok" PROVE failed = {}
    <3> SUFFICES ASSUME NEW o \in failed PROVE FALSE
      OBVIOUS
    <3>1. o \in own /\ Before(e, o)
      BY <1>1, <2>1
    <3> QED BY <1>1, <1>3, <3>1
  <2>2. ASSUME e.status # "ok" PROVE e \in failed
    BY <1>1, <2>2
  <2> QED BY <2>1, <2>2
<1> HIDE DEF failed
<1>7. TrailingFailures(own) = 0 <=> e.status = "ok"
  BY <1>5, <1>6, FS_EmptySet
<1> QED BY <1>2, <1>4, <1>7

-----------------------------------------------------------------------------
(* What a run reports *)

\* A run reports at its end; then its line is the last of the file, or lost.
RunInv ==
    run # Idle =>
      /\ report = NoReport
      /\ run.line.entries \in Seq(OwnEntries)
      /\ run.pc = "summary" =>
            \/ run.line.id = Len(added) + 1
            \/ file # <<>> /\ file[Len(file)] = run.line

LEMMA RunKept ==
    ASSUME TypeOK, KeepInv, RunInv, [Next]_vars
    PROVE  RunInv'
<1>1. setting' = setting /\ OwnEntries' = OwnEntries
  <2>1. setting' = setting
    BY DEF Next, vars, ProbeApi, ProbeNothing, Begins, ReadReplay, WriteLog, Summarise,
           Fail, FailHalfWritten, Kill
  <2> QED BY <2>1 DEF OwnEntries, Configured
<1>2. CASE run' = Idle
  BY <1>2 DEF RunInv
<1>3. CASE ProbeApi \/ ProbeNothing
  <2>1. Starts(run') /\ report' = NoReport
    BY <1>3, StartsWell DEF ProbeApi, ProbeNothing, Begins
  <2> QED BY <1>1, <2>1 DEF Starts, RunInv
<1>4. ASSUME run # Idle, NEW pc \in Phases, run' = [run EXCEPT !.pc = pc]
      PROVE  run'.pc = pc /\ run'.line = run.line
  BY <1>4, RunFacts
<1>5. ASSUME run # Idle, NEW pc \in Phases \ {"summary"}, run' = [run EXCEPT !.pc = pc],
             report' = report
      PROVE  RunInv'
  <2>1. run'.pc = pc /\ run'.line = run.line
    BY <1>4, <1>5
  <2> QED BY <1>1, <1>5, <2>1 DEF RunInv
<1>6. CASE ReadReplay
  <2>1. run # Idle /\ run' = [run EXCEPT !.pc = "stat"] /\ report' = report
    BY <1>6 DEF ReadReplay, Idle
  <2> QED BY <1>5, <2>1 DEF Phases
<1>7. CASE WriteLog
  <2>1. run # Idle /\ report' = report
    BY <1>7 DEF WriteLog, Stat, Read, Clear, Fill, AppendLine, Idle
  <2>2. CASE Stat
    <3> DEFINE pc == IF Bytes(file) + run.line.size <= run.limit THEN "append"
                     ELSE IF run.line.size >= run.limit THEN "clear" ELSE "read"
    <3>1. run' = [run EXCEPT !.pc = pc] /\ pc \in Phases \ {"summary"}
      BY <2>2 DEF Stat, Phases
    <3> HIDE DEF pc
    <3> QED BY <1>5, <2>1, <3>1
  <2>3. CASE Read
    <3> DEFINE t == NewestTail(file, Budget)
    <3>1. run' = [run EXCEPT !.pc = "clear", !.tail = t] /\ run \in Runs
      BY <2>1, <2>3 DEF Read, TypeOK
    <3> HIDE DEF t
    <3>2. run'.pc = "clear" /\ run'.line = run.line
      BY <3>1 DEF Runs
    <3> QED BY <1>1, <2>1, <3>2 DEF RunInv
  <2>4. CASE Clear \/ Fill
    BY <1>5, <2>1, <2>4 DEF Clear, Fill, Phases
  <2>5. CASE AppendLine
    <3>1. /\ run' = [run EXCEPT !.pc = "summary"] /\ file' = Appended(run.line)
          /\ added' = IF Joins THEN added ELSE Append(added, run.line)
          /\ run.pc = "append"
      BY <2>5 DEF AppendLine
    <3>2. run'.line = run.line /\ run.line \in Lines
      BY <1>4, <2>1, <3>1, RunFacts DEF Phases
    <3>3. /\ ~Joins => /\ Len(Appended(run.line)) = Len(file) + 1
                       /\ Appended(run.line)[Len(file) + 1] = run.line
          /\ Appended(run.line) \in Seq(Lines) /\ Len(file) \in Nat
      BY <3>2, AppendedIs DEF TypeOK
    <3>4. CASE Joins
      BY <1>1, <2>1, <3>1, <3>2, <3>4 DEF RunInv, KeepInv
    <3>5. CASE ~Joins
      <4>1. file' # <<>> /\ file'[Len(file')] = run.line
        BY <3>1, <3>3, <3>5
      <4> QED BY <1>1, <2>1, <3>2, <4>1 DEF RunInv
    <3> QED BY <3>4, <3>5
  <2> QED BY <1>7, <2>2, <2>3, <2>4, <2>5 DEF WriteLog
<1>8. CASE Summarise \/ Fail \/ FailHalfWritten \/ Kill
  BY <1>2, <1>8 DEF Summarise, Fail, FailHalfWritten, Kill
<1>9. CASE UNCHANGED vars
  BY <1>1, <1>9 DEF vars, RunInv
<1> QED BY <1>3, <1>6, <1>7, <1>8, <1>9 DEF Next

\* Other steps leave what was reported, and what it was made of, or report
\* nothing.
LEMMA OnlySummariseReports ==
    ASSUME TypeOK, RunInv, [Next]_vars, ~Summarise
    PROVE  \/ ~Reports'
           \/ report' = report /\ added' = added /\ setting' = setting
<1>1. CASE ProbeApi \/ ProbeNothing
  BY <1>1 DEF ProbeApi, ProbeNothing, Begins, Reports, NoReport
<1>2. CASE ReadReplay \/ WriteLog
  <2>1. run # Idle /\ report' = report
    BY <1>2 DEF ReadReplay, WriteLog, Stat, Read, Clear, Fill, AppendLine, Idle
  <2> QED BY <2>1 DEF RunInv, Reports, NoReport
<1>3. CASE Fail \/ FailHalfWritten
  BY <1>3 DEF Fail, FailHalfWritten, Reports, Error
<1>4. CASE Kill \/ UNCHANGED vars
  BY <1>4 DEF Kill, vars
<1> QED BY <1>1, <1>2, <1>3, <1>4 DEF Next

LEMMA EventsAreEvents ==
    ASSUME NEW lines \in Seq(Lines), NEW since, NEW now, NEW templates,
           NEW e \in Events(lines, since, now, templates)
    PROVE  /\ IsEvent(e)
           /\ e.line \in DOMAIN lines /\ e.index \in DOMAIN lines[e.line].entries
           /\ InWindow(lines[e.line], since, now)
           /\ lines[e.line].entries[e.index].endpoint.template \in templates
           /\ e = Event(lines, e.line, e.index)
           /\ e.at = lines[e.line].at
           /\ e.endpoint = lines[e.line].entries[e.index].endpoint
           /\ e.status = lines[e.line].entries[e.index].status
<1>1. PICK i \in DOMAIN lines : \E j \in DOMAIN lines[i].entries :
         /\ InWindow(lines[i], since, now)
         /\ lines[i].entries[j].endpoint.template \in templates
         /\ e = Event(lines, i, j)
  BY EventsAre
<1>2. PICK j \in DOMAIN lines[i].entries :
         /\ InWindow(lines[i], since, now)
         /\ lines[i].entries[j].endpoint.template \in templates
         /\ e = Event(lines, i, j)
  BY <1>1
<1>3. /\ e.at = lines[i].at /\ e.line = i /\ e.index = j
      /\ e.endpoint = lines[i].entries[j].endpoint
      /\ e.status = lines[i].entries[j].status
      /\ e.at \in Nat /\ i \in Nat /\ j \in Nat
  BY <1>2, EventIs
<1> QED BY <1>2, <1>3 DEF IsEvent

LEMMA RunIsShown ==
    ASSUME TypeOK, KeepInv, RunInv, Summarise
    PROVE  ReportShowsRun'
<1> DEFINE now == run.line.at
           temps == ToSet(setting.endpoints)
           events == Events(file, now - Lookback, now, temps)
           N == Len(file)
           entries == run.line.entries
<1>1. PICK readable \in BOOLEAN :
         /\ run.pc = "summary" /\ added' = added
         /\ report' = [source |-> run.source, line |-> run.line, readable |-> readable,
                       endpoints |-> IF ~readable THEN {} ELSE Streaks(events)]
  BY DEF Summarise
<1> SUFFICES ASSUME readable, run.line \in ToSet(added), NEW i \in DOMAIN entries,
                    \A j \in DOMAIN entries : j > i => entries[j].endpoint # entries[i].endpoint
             PROVE  \E shown \in Streaks(events) :
                       /\ shown.endpoint = entries[i].endpoint
                       /\ shown.last = entries[i].status
                       /\ shown.streak = 0 <=> entries[i].status = "ok"
  <2>1. report'.readable = readable /\ report'.line = run.line
        /\ (readable => report'.endpoints = Streaks(events))
    BY <1>1
  <2> HIDE DEF events
  <2> QED BY <1>1, <2>1 DEF ReportShowsRun
<1>2. run # Idle /\ run.line \in Lines /\ file \in Seq(Lines) /\ added \in Seq(Lines)
  BY <1>1, RunFacts DEF TypeOK, Idle
<1>3. file # <<>> /\ file[N] = run.line
  <2>1. run.line.id # Len(added) + 1
    <3>1. PICK k \in DOMAIN added : added[k] = run.line
      BY DEF ToSet
    <3>2. added[k].id = k /\ k \in 1..Len(added)
      BY <1>2, <3>1 DEF KeepInv, History
    <3> QED BY <1>2, <3>1, <3>2
  <2> QED BY <1>1, <1>2, <2>1 DEF RunInv
<1>4. N \in DOMAIN file /\ DOMAIN file = 1..N /\ N \in Nat
  BY <1>2, <1>3
<1>5. now \in Nat /\ Lookback \in Nat /\ run.line.whole
  BY <1>2, FetcherAssumption DEF FetcherAssumption, Lines, KeepInv
<1>6. entries[i].endpoint.template \in temps
  <2>1. entries \in Seq(OwnEntries)
    BY <1>2 DEF RunInv
  <2>2. entries[i] \in OwnEntries
    BY <2>1
  <2> QED BY <2>2 DEF OwnEntries, Configured
<1> DEFINE e == Event(file, N, i)
<1>7. /\ e.at = now /\ e.line = N /\ e.index = i /\ e.endpoint = entries[i].endpoint
      /\ e.status = entries[i].status /\ i \in Nat
  BY <1>2, <1>3, <1>4, EventIs
<1>8. e \in events
  <2>1. InWindow(file[N], now - Lookback, now)
    BY <1>3, <1>5 DEF InWindow
  <2> QED BY <1>3, <1>4, <1>6, <2>1, EventsAre
<1> HIDE DEF e
<1>9. ASSUME NEW o \in events, o.endpoint = e.endpoint PROVE o = e \/ Before(o, e)
  <2>1. /\ IsEvent(o) /\ o.line \in DOMAIN file /\ o.index \in DOMAIN file[o.line].entries
        /\ InWindow(file[o.line], now - Lookback, now)
        /\ o = Event(file, o.line, o.index) /\ o.at = file[o.line].at
        /\ o.endpoint = file[o.line].entries[o.index].endpoint
    BY <1>2, EventsAreEvents
  <2>2. o.at <= now /\ o.line <= N /\ o.at \in Nat /\ o.line \in Nat /\ o.index \in Nat
    BY <1>4, <2>1 DEF InWindow, IsEvent
  <2>3. o.line = N => o.index <= i
    <3> SUFFICES ASSUME o.line = N, o.index > i PROVE FALSE
      BY <1>7, <2>2
    <3> QED BY <1>3, <1>7, <1>9, <2>1
  <2>4. o.line = N /\ o.index = i => o = e
    BY <2>1 DEF e
  <2> QED BY <1>4, <1>5, <1>7, <2>2, <2>3, <2>4 DEF Before
<1>10. IsFiniteSet(events) /\ \A o \in events : IsEvent(o)
  BY <1>2, EventsAreFinite, EventsAreEvents
<1> HIDE DEF events
<1>11. \E shown \in Streaks(events) :
          /\ shown.endpoint = e.endpoint
          /\ shown.last = e.status
          /\ shown.streak = 0 <=> e.status = "ok"
  BY <1>8, <1>9, <1>10, LastIsShown
<1> QED BY <1>7, <1>11

\* A report that a log could be read for shows, of each endpoint its run asked,
\* the status noted last, and a streak just if that is a failure: the line that
\* was just appended is within the window and the last of the order, whatever
\* the clock did before.
THEOREM ReportsShowTheirRun == Spec => []ReportShowsRun
<1>1. Init => RunInv /\ ReportShowsRun
  BY DEF Init, RunInv, ReportShowsRun, Reports, NoReport
<1>2. LogInv /\ RunInv /\ [Next]_vars => RunInv'
  BY RunKept DEF LogInv
<1>3. ASSUME LogInv, RunInv, ReportShowsRun, [Next]_vars PROVE ReportShowsRun'
  <2>1. CASE Summarise
    BY <1>3, <2>1, RunIsShown DEF LogInv
  <2>2. CASE ~Summarise
    <3>1. ~Reports' \/ (report' = report /\ added' = added)
      BY <1>3, <2>2, OnlySummariseReports DEF LogInv
    <3> QED BY <1>3, <3>1 DEF ReportShowsRun, Reports
  <2> QED BY <2>1, <2>2
<1> QED BY <1>1, <1>2, <1>3, LogAlways, PTL DEF Spec

-----------------------------------------------------------------------------
(* The streaks *)

\* A place of the log is a place of the history.
LEMMA PlaceInHistory ==
    ASSUME TypeOK, KeepInv, NEW i \in Whole(file)
    PROVE  /\ i \in DOMAIN file /\ file[i].id \in DOMAIN added
           /\ added[file[i].id] = file[i]
BY DEF KeepInv, Traced, Whole

LEMMA AnswersAreFinite ==
    ASSUME TypeOK, NEW endpoint
    PROVE  IsFiniteSet(FailedSinceOk(endpoint))
<1>1. FailedSinceOk(endpoint) \subseteq PlacesIn(added)
  BY DEF FailedSinceOk, AnswersOf, PlacesIn
<1>2. IsFiniteSet(PlacesIn(added))
  BY PlacesAreFinite DEF TypeOK
<1> HIDE DEF FailedSinceOk
<1> QED BY <1>1, <1>2, FS_Subset

\* What the log of a steady clock shows of an endpoint's last failures are
\* last failures in the history: an ok after them is newer than a line that is
\* kept, so it is kept as well, and in the window.
LEMMA StreakInHistory ==
    ASSUME TypeOK, KeepInv, Newest(file), NEW now \in Nat,
           \A i, j \in DOMAIN added : i < j => added[i].at <= added[j].at,
           \A i \in DOMAIN added : added[i].at <= now,
           NEW templates, NEW endpoint
    PROVE  TrailingFailures(Own(endpoint, Events(file, now - Lookback, now, templates)))
              <= Cardinality(FailedSinceOk(endpoint))
<1> DEFINE events == Events(file, now - Lookback, now, templates)
           own == Own(endpoint, events)
           A == {e \in own : \A o \in own : o.status = "ok" => Before(o, e)}
           B == FailedSinceOk(endpoint)
           Place(e) == <<file[e.line].id, e.index>>
           f == [e \in A |-> Place(e)]
<1>1. file \in Seq(Lines) /\ added \in Seq(Lines) /\ Lookback \in Nat
  BY FetcherAssumption DEF TypeOK, FetcherAssumption
<1>2. DOMAIN file = 1..Len(file) /\ DOMAIN added = 1..Len(added)
      /\ Len(file) \in Nat /\ Len(added) \in Nat
  BY <1>1
<1>3. ASSUME NEW e \in own
      PROVE  /\ IsEvent(e) /\ e.endpoint = endpoint
             /\ e.line \in Whole(file) /\ e.index \in DOMAIN file[e.line].entries
             /\ InWindow(file[e.line], now - Lookback, now)
             /\ e = Event(file, e.line, e.index) /\ e.at = file[e.line].at
             /\ file[e.line].entries[e.index].endpoint = endpoint
             /\ file[e.line].entries[e.index].endpoint.template \in templates
             /\ e.status = file[e.line].entries[e.index].status
  <2>1. e \in events /\ e.endpoint = endpoint
    BY DEF Own
  <2> HIDE DEF own
  <2>2. /\ IsEvent(e)
        /\ e.line \in DOMAIN file /\ e.index \in DOMAIN file[e.line].entries
        /\ InWindow(file[e.line], now - Lookback, now)
        /\ file[e.line].entries[e.index].endpoint.template \in templates
        /\ e = Event(file, e.line, e.index) /\ e.at = file[e.line].at
        /\ e.endpoint = file[e.line].entries[e.index].endpoint
        /\ e.status = file[e.line].entries[e.index].status
    BY <1>1, <2>1, EventsAreEvents
  <2> QED BY <2>1, <2>2 DEF InWindow, Whole
<1>4. ASSUME NEW i \in DOMAIN file, NEW j \in DOMAIN file[i].entries,
             InWindow(file[i], now - Lookback, now),
             file[i].entries[j].endpoint.template \in templates,
             file[i].entries[j].endpoint = endpoint
      PROVE  /\ Event(file, i, j) \in own
             /\ Event(file, i, j).status = file[i].entries[j].status
             /\ Event(file, i, j).at = file[i].at /\ file[i].at \in Nat
             /\ Event(file, i, j).line = i /\ Event(file, i, j).index = j
  <2>1. Event(file, i, j) \in events
    BY <1>4, EventsAre
  <2> HIDE DEF events
  <2> QED BY <1>1, <1>4, <2>1, EventIs DEF Own
<1> HIDE DEF own
<1>5. ASSUME NEW e \in A PROVE f[e] \in B
  <2> DEFINE k == file[e.line].id
  <2>1. e \in own /\ e.line \in Whole(file)
    BY <1>3
  <2>2. e.line \in DOMAIN file /\ k \in DOMAIN added /\ added[k] = file[e.line]
    BY <2>1, PlaceInHistory
  <2>3. e.index \in DOMAIN added[k].entries
        /\ added[k].entries[e.index].endpoint = endpoint /\ e.at = added[k].at
    BY <1>3, <2>1, <2>2
  <2>4. <<k, e.index>> \in AnswersOf(endpoint)
    BY <2>2, <2>3 DEF AnswersOf
  <2>5. k \in Nat /\ e.index \in Nat /\ e.line \in Nat /\ e.at \in Nat
    BY <1>2, <1>3, <2>1, <2>2 DEF IsEvent
  <2> HIDE DEF k
  <2>6. ASSUME NEW p \in DOMAIN added, NEW j \in DOMAIN added[p].entries,
               added[p].entries[j].endpoint = endpoint, added[p].entries[j].status = "ok",
               ~Later(<<k, e.index>>, <<p, j>>)
        PROVE  FALSE
    <3>1. p \in Nat /\ j \in Nat
      BY <1>1, PlacesAreFinite
    <3>2. k < p \/ (k = p /\ e.index <= j)
      BY <2>5, <2>6, <3>1 DEF Later
    <3>3. \E i \in Whole(file) : file[i] = added[p] /\ (k = p => i = e.line)
      <4>1. CASE k = p
        BY <2>1, <2>2, <4>1
      <4>2. CASE k < p
        <5>1. added[p].id = p
          BY DEF KeepInv, History
        <5>2. ~OlderThanAll(added[p], file)
          <6>1. added[k].id = k
            BY <2>2 DEF KeepInv, History
          <6>2. file[e.line].id = k
            BY <2>2, <6>1
          <6> QED BY <2>1, <2>5, <3>1, <4>2, <5>1, <6>2 DEF OlderThanAll
        <5>3. added[p] \in ToSet(file)
          BY <5>2 DEF Newest, ToSet
        <5>4. PICK i \in DOMAIN file : file[i] = added[p]
          BY <5>3 DEF ToSet
        <5>5. i \in Whole(file)
          BY <5>4 DEF Whole, KeepInv, History
        <5> QED BY <2>5, <3>1, <4>2, <5>4, <5>5
      <4> QED BY <3>2, <4>1, <4>2
    <3>4. PICK i \in Whole(file) : file[i] = added[p] /\ (k = p => i = e.line)
      BY <3>3
    <3>5. i \in DOMAIN file /\ i \in Nat /\ file[i].id = p
      BY <1>2, <3>4 DEF Whole, KeepInv, History
    <3>6. e.line <= i
      <4>1. CASE k = p
        BY <2>5, <3>4, <4>1
      <4>2. CASE k < p
        <5>1. ~(i < e.line)
          <6>1. file[e.line].id = k
            BY <2>2 DEF KeepInv, History
          <6> SUFFICES ASSUME i < e.line PROVE FALSE
            OBVIOUS
          <6>2. file[i].id < file[e.line].id
            BY <2>1, <3>4 DEF KeepInv, Ordered
          <6> QED BY <2>5, <3>1, <3>5, <4>2, <6>1, <6>2
        <5> QED BY <2>5, <3>5, <5>1
      <4> QED BY <3>2, <4>1, <4>2
    <3>7. added[p].at \in Nat /\ added[k].at <= added[p].at /\ added[p].at <= now
      <4>1. \A q \in DOMAIN added : added[q].at \in Nat
        <5>1. \A q \in DOMAIN added : added[q] \in Lines
          BY <1>1
        <5> QED BY <5>1 DEF Lines
      <4>2. added[k].at <= added[p].at
        <5>1. CASE k = p
          BY <2>2, <4>1, <5>1
        <5>2. CASE k < p
          BY <2>2, <5>2
        <5> QED BY <3>2, <5>1, <5>2
      <4> QED BY <4>1, <4>2
    <3>8. InWindow(file[i], now - Lookback, now)
      <4>1. now - Lookback <= added[k].at
        BY <1>3, <2>1, <2>2 DEF InWindow
      <4>2. now - Lookback \in Int /\ added[k].at \in Nat
        BY <1>1, <2>3, <2>5
      <4> QED BY <3>4, <3>7, <4>1, <4>2 DEF InWindow, Whole
    <3>9. file[i].entries[j].endpoint.template \in templates
      BY <1>3, <2>1, <2>6, <3>4
    <3> DEFINE o == Event(file, i, j)
    <3>10. /\ o \in own /\ o.status = "ok" /\ o.at = added[p].at /\ o.line = i /\ o.index = j
      BY <1>4, <2>6, <3>4, <3>5, <3>8, <3>9
    <3> HIDE DEF o
    <3>11. Before(o, e)
      BY <3>10
    <3>12. e.at <= o.at
      BY <2>3, <3>7, <3>10
    <3>13. o.line = e.line /\ o.index < e.index
      BY <2>5, <3>1, <3>5, <3>6, <3>7, <3>10, <3>11, <3>12 DEF Before
    <3>14. k = p
      BY <2>2, <3>4, <3>5, <3>10, <3>13 DEF k
    <3> QED BY <2>5, <3>1, <3>2, <3>10, <3>13, <3>14
  <2>7. ASSUME NEW q \in AnswersOf(endpoint), StatusAt(q) = "ok"
        PROVE  Later(<<k, e.index>>, q)
    <3>1. PICK p \in DOMAIN added :
             \E j \in DOMAIN added[p].entries :
                added[p].entries[j].endpoint = endpoint /\ q = <<p, j>>
      BY DEF AnswersOf
    <3>2. PICK j \in DOMAIN added[p].entries :
             added[p].entries[j].endpoint = endpoint /\ q = <<p, j>>
      BY <3>1
    <3>3. added[p].entries[j].status = "ok"
      BY <2>7, <3>2 DEF StatusAt
    <3> QED BY <2>6, <3>2, <3>3
  <2>8. <<k, e.index>> \in B
    BY <2>4, <2>7 DEF FailedSinceOk
  <2> QED BY <2>8 DEF k
<1>6. ASSUME NEW d \in A, NEW e \in A, f[d] = f[e] PROVE d = e
  <2>1. d \in own /\ e \in own /\ d.line \in Whole(file) /\ e.line \in Whole(file)
    BY <1>3
  <2>2. file[d.line].id = file[e.line].id /\ d.index = e.index
    BY <1>6
  <2>3. d.line \in Nat /\ e.line \in Nat
    BY <1>2, <2>1 DEF Whole
  <2>4. file[d.line].id \in Nat /\ file[e.line].id \in Nat
    BY <1>2, <2>1, PlaceInHistory
  <2>5. ~(d.line < e.line) /\ ~(e.line < d.line)
    BY <2>1, <2>2, <2>4 DEF KeepInv, Ordered
  <2>6. d.line = e.line
    BY <2>3, <2>5
  <2> QED BY <1>3, <2>1, <2>2, <2>6
<1>7. IsFiniteSet(B)
  BY AnswersAreFinite
<1>8. TrailingFailures(own) = Cardinality(A)
  BY DEF TrailingFailures
<1> HIDE DEF A, B
<1>9. f \in Injection(A, B)
  BY <1>5, <1>6 DEF Injection, IsInjective
<1> HIDE DEF f
<1>10. Cardinality(A) <= Cardinality(B)
  BY <1>7, <1>9, FS_Injection
<1> QED BY <1>8, <1>10 DEF own, B

\* No streak of a report is longer than the failures the endpoint really had
\* since its last ok, if the clock of the runs does not go back: cutting the
\* log, its window and lost lines take the older part of a streak, never the
\* ok that ends it.
THEOREM StreaksAreReal == Spec => []StreakIsReal
<1>1. Init => StreakIsReal
  BY DEF Init, StreakIsReal, Reports, NoReport
<1>2. Init => RunInv
  BY DEF Init, RunInv
<1>3. LogInv /\ RunInv /\ [Next]_vars => RunInv'
  BY RunKept DEF LogInv
<1>4. ASSUME LogInv, RunInv, StreakIsReal, [Next]_vars PROVE StreakIsReal'
  <2>1. CASE Summarise
    <3> DEFINE now == run.line.at
               events == Events(file, now - Lookback, now, ToSet(setting.endpoints))
    <3>1. PICK readable \in BOOLEAN :
             /\ run.pc = "summary" /\ added' = added /\ setting' = setting
             /\ report' = [source |-> run.source, line |-> run.line, readable |-> readable,
                           endpoints |-> IF ~readable THEN {} ELSE Streaks(events)]
      BY <2>1 DEF Summarise
    <3>2. report'.line = run.line
          /\ report'.endpoints = (IF ~readable THEN {} ELSE Streaks(events))
      BY <3>1
    <3>3. now \in Nat
      <4>1. run # Idle
        BY <3>1 DEF Idle
      <4>2. run.line \in Lines
        BY <1>4, <4>1, RunFacts DEF LogInv
      <4> QED BY <4>2 DEF Lines
    <3>4. \A endpoint : FailedSinceOk(endpoint)' = FailedSinceOk(endpoint)
      BY <3>1 DEF FailedSinceOk, AnswersOf, StatusAt
    <3> HIDE DEF events
    <3>5. ASSUME Roomy', Steady', NEW shown \in report'.endpoints
          PROVE  shown.streak <= Cardinality(FailedSinceOk(shown.endpoint))'
      <4>1. PICK endpoint : shown = [endpoint |-> endpoint,
                                     streak |-> TrailingFailures(Own(endpoint, events)),
                                     last |-> LastOf(Own(endpoint, events)).status]
        BY <3>2, <3>5 DEF Streaks
      <4>2. shown.endpoint = endpoint
            /\ shown.streak = TrailingFailures(Own(endpoint, events))
        BY <4>1
      <4>3. Newest(file)
        BY <1>4, <3>1, <3>5 DEF LogInv, NewestInv, Roomy, LargestLine
      <4>4. /\ \A i, j \in DOMAIN added : i < j => added[i].at <= added[j].at
            /\ \A i \in DOMAIN added : added[i].at <= now
        BY <3>1, <3>2, <3>5 DEF Steady
      <4>5. TrailingFailures(Own(endpoint, events)) <= Cardinality(FailedSinceOk(endpoint))
        BY <1>4, <3>3, <4>3, <4>4, StreakInHistory DEF LogInv, events
      <4> QED BY <3>4, <4>2, <4>5
    <3> QED BY <3>5 DEF StreakIsReal
  <2>2. CASE ~Summarise
    <3>1. ~Reports' \/ (report' = report /\ added' = added /\ setting' = setting)
      BY <1>4, <2>2, OnlySummariseReports DEF LogInv
    <3>2. CASE ~Reports'
      BY <3>2 DEF StreakIsReal
    <3>3. CASE report' = report /\ added' = added /\ setting' = setting
      <4>1. Reports' <=> Reports
        BY <3>3 DEF Reports
      <4>2. Roomy' <=> Roomy
        BY <3>3 DEF Roomy, LargestLine
      <4>3. Steady' <=> Steady
        BY <3>3 DEF Steady
      <4>4. \A endpoint : FailedSinceOk(endpoint)' = FailedSinceOk(endpoint)
        BY <3>3 DEF FailedSinceOk, AnswersOf, StatusAt
      <4>5. ASSUME Reports', Roomy', Steady', NEW shown \in report'.endpoints
            PROVE  shown.streak <= Cardinality(FailedSinceOk(shown.endpoint))'
        <5>1. shown \in report.endpoints
          BY <3>3, <4>5
        <5>2. shown.streak <= Cardinality(FailedSinceOk(shown.endpoint))
          BY <1>4, <4>1, <4>2, <4>3, <4>5, <5>1 DEF StreakIsReal
        <5> QED BY <4>4, <5>2
      <4> QED BY <4>5 DEF StreakIsReal
    <3> QED BY <3>1, <3>2, <3>3
  <2> QED BY <2>1, <2>2
<1> QED BY <1>1, <1>2, <1>3, <1>4, LogAlways, PTL DEF Spec
=============================================================================
