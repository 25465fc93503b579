----------------------------- MODULE FrameProofs -----------------------------
(***************************************************************************)
(* Proofs about the frames in a stream of bytes (FrameDecoder), for all    *)
(* sizes and limits.  The loop of push is a recursive function of the      *)
(* buffer: that its rounds come to an end, and that what was pushed may be *)
(* cut anywhere, is shown by induction over the bytes that are left; that  *)
(* the frames are those of the whole stream then follows for every         *)
(* behaviour.  And about the records of a file that the controller fetches *)
(* frame by frame (ControllerRecords).                                     *)
(***************************************************************************)
EXTENDS FrameDecoder, ControllerRecords, FiniteSetTheorems, SequenceTheorems,
        WellFoundedInduction, TLAPS

-----------------------------------------------------------------------------
(* The decoder.                                                            *)

(* Induction over the numbers, and the least one of a set.                  *)
LEMMA LeastOf ==
    ASSUME NEW T \in SUBSET Nat, T # {}
    PROVE  Min(T) \in T /\ \A m \in T : Min(T) <= m
<1>1. IsWellFoundedOn(OpToRel(<, Nat), Nat)
  BY NatLessThanWellFounded
<1>2. PICK n \in T : \A m \in T : ~(<<m, n>> \in OpToRel(<, Nat))
  BY <1>1, WFMin
<1>3. \A x, y \in Nat : <<y, x>> \in OpToRel(<, Nat) <=> y < x
  BY DEF OpToRel
<1>4. \A m \in T : n <= m
  <2> SUFFICES ASSUME NEW m \in T PROVE n <= m
    OBVIOUS
  <2>1. m \in Nat /\ n \in Nat
    OBVIOUS
  <2>2. ~(m < n)
    BY <1>2, <1>3, <2>1, Zenon
  <2> QED
    BY <2>1, <2>2
<1> QED
  BY <1>4 DEF Min

(* Induction over the numbers, by the least one that is missing.            *)
LEMMA Counting ==
    ASSUME NEW T \in SUBSET Nat, 0 \in T, \A n \in T : n + 1 \in T
    PROVE  Nat \subseteq T
<1> SUFFICES ASSUME Nat \ T # {} PROVE FALSE
  OBVIOUS
<1> DEFINE m == Min(Nat \ T)
<1>1. m \in Nat \ T /\ \A k \in Nat \ T : m <= k
  BY LeastOf
<1> HIDE DEF m
<1>2. m # 0 /\ m - 1 \in Nat
  BY <1>1
<1>3. m - 1 \in T
  BY <1>1, <1>2
<1> QED
  BY <1>1, <1>2, <1>3

(* A function on the numbers may be defined from one number to the next.    *)
Iterates(S, a, F, r) ==
    r \in [Nat -> S] /\ r[0] = a /\ \A n \in Nat : r[n + 1] = F[n][r[n]]

(* A function that is given step by step exists.                            *)
LEMMA Recursion ==
    ASSUME NEW S, NEW a \in S, NEW F \in [Nat -> [S -> S]]
    PROVE  \E r : Iterates(S, a, F, r)
<1> DEFINE Upto(h, n) == /\ h \in [0..n -> S] /\ h[0] = a
                         /\ \A k \in 0..n : k # n => h[k + 1] = F[k][h[k]]
           T == {n \in Nat : \E h : Upto(h, n)}
           H(n) == CHOOSE h : Upto(h, n)
           G == [n \in Nat |-> H(n)[n]]
<1>1. Nat \subseteq T
  <2>1. 0 \in T
    <3>1. Upto([k \in 0..0 |-> a], 0)
      BY \A k \in 0..0 : k = 0
    <3> QED
      BY <3>1
  <2>2. ASSUME NEW n \in T PROVE n + 1 \in T
    <3>1. PICK h : Upto(h, n)
      BY <2>2, Zenon
    <3>2. n \in Nat /\ n + 1 \in Nat
      <4>1. T \subseteq Nat
        OBVIOUS
      <4> QED
        BY <2>2, <4>1
    <3> DEFINE g == [k \in 0..n + 1 |-> IF k = n + 1 THEN F[n][h[n]] ELSE h[k]]
    <3>3. /\ n \in 0..n /\ 0 \in 0..n /\ 0 \in 0..n + 1 /\ 0 # n + 1
          /\ \A k \in 0..n + 1 : k # n + 1 => k \in 0..n
          /\ \A k \in 0..n : k \in Nat /\ k + 1 \in 0..n + 1 /\ k \in 0..n + 1 /\ k # n + 1
                             /\ (k + 1 = n + 1 <=> k = n)
      <4> HIDE DEF T
      <4> QED
        BY <3>2
    <3>4. g \in [0..n + 1 -> S]
      <4>1. F[n][h[n]] \in S
        BY <3>1, <3>2, <3>3
      <4> QED
        BY <3>1, <3>3, <4>1
    <3>5. g[0] = a
      BY <3>1, <3>3
    <3>6. \A k \in 0..n + 1 : k # n + 1 => g[k + 1] = F[k][g[k]]
      <4> SUFFICES ASSUME NEW k \in 0..n PROVE g[k + 1] = F[k][g[k]]
        BY <3>3
      <4>1. g[k] = h[k] /\ k + 1 \in 0..n + 1
        BY <3>3
      <4>2. CASE k = n
        BY <4>1, <4>2
      <4>3. CASE k # n
        <5>1. g[k + 1] = h[k + 1]
          BY <3>3, <4>1, <4>3
        <5> QED
          BY <3>1, <4>1, <4>3, <5>1
      <4> QED
        BY <4>2, <4>3
    <3> HIDE DEF g
    <3> QED
      BY <3>2, <3>4, <3>5, <3>6
  <2> HIDE DEF T
  <2>3. T \in SUBSET Nat
    BY DEF T
  <2> QED
    BY <2>1, <2>2, <2>3, Counting
<1>2. ASSUME NEW n \in Nat PROVE Upto(H(n), n)
  <2>1. \E h : Upto(h, n)
    BY <1>1
  <2> HIDE DEF Upto
  <2> QED
    BY <2>1
<1> HIDE DEF H
<1>3. \A k \in Nat : \A n, m \in Nat : k <= n /\ k <= m => H(n)[k] = H(m)[k]
  <2> DEFINE A == {k \in Nat : \A n, m \in Nat : k <= n /\ k <= m => H(n)[k] = H(m)[k]}
  <2>1. 0 \in A
    BY <1>2
  <2>2. ASSUME NEW k \in A PROVE k + 1 \in A
    <3> SUFFICES ASSUME NEW n \in Nat, NEW m \in Nat, k + 1 <= n, k + 1 <= m
                 PROVE  H(n)[k + 1] = H(m)[k + 1]
      BY <2>2
    <3>1. k \in Nat /\ k <= n /\ k <= m /\ k \in 0..n /\ k # n /\ k \in 0..m /\ k # m
      BY <2>2
    <3>2. H(n)[k] = H(m)[k]
      BY <2>2, <3>1
    <3>3. H(n)[k + 1] = F[k][H(n)[k]] /\ H(m)[k + 1] = F[k][H(m)[k]]
      BY <1>2, <3>1
    <3> QED
      BY <3>2, <3>3
  <2>3. A \in SUBSET Nat
    OBVIOUS
  <2> HIDE DEF A
  <2>4. Nat \subseteq A
    BY <2>1, <2>2, <2>3, Counting
  <2> QED
    BY <2>4 DEF A
<1>4. G \in [Nat -> S] /\ G[0] = a
  <2>1. \A n \in Nat : n \in 0..n
    OBVIOUS
  <2> QED
    BY <1>2, <2>1
<1>5. ASSUME NEW n \in Nat PROVE G[n + 1] = F[n][G[n]]
  <2>1. n + 1 \in Nat /\ n <= n /\ n <= n + 1 /\ n \in 0..n + 1 /\ n # n + 1
    OBVIOUS
  <2>2. H(n + 1)[n + 1] = F[n][H(n + 1)[n]]
    BY <1>2, <2>1
  <2>3. H(n + 1)[n] = H(n)[n]
    BY <1>3, <2>1
  <2> QED
    BY <2>1, <2>2, <2>3
<1> HIDE DEF G
<1> QED
  BY <1>4, <1>5 DEF Iterates

(* The first sync pair of a buffer.                                         *)
LEMMA FirstSync ==
    ASSUME NEW b \in Seq(Nat), SyncAt(b) # {}
    PROVE  /\ Min(SyncAt(b)) \in 1..Len(b) - 1
           /\ b[Min(SyncAt(b))] = 1 /\ b[Min(SyncAt(b)) + 1] = 2
           /\ \A i \in SyncAt(b) : Min(SyncAt(b)) <= i
<1>1. SyncAt(b) \in SUBSET Nat
  BY DEF SyncAt
<1>2. Min(SyncAt(b)) \in SyncAt(b) /\ \A i \in SyncAt(b) : Min(SyncAt(b)) <= i
  BY <1>1, LeastOf
<1> QED
  BY <1>2 DEF SyncAt

(* The least number of a set is the only one below all of it.               *)
LEMMA LeastIs ==
    ASSUME NEW T \in SUBSET Nat, NEW m \in T, \A i \in T : m <= i
    PROVE  Min(T) = m
<1>1. Min(T) \in T /\ Min(T) <= m
  BY LeastOf
<1>2. Min(T) \in Nat /\ m \in Nat /\ m <= Min(T)
  BY <1>1
<1> QED
  BY <1>1, <1>2

(* What is left of a buffer from a place on.                                *)
LEMMA FromFacts ==
    ASSUME NEW b \in Seq(Nat), NEW k \in 1..Len(b) + 1
    PROVE  /\ From(b, k) \in Seq(Nat) /\ Len(From(b, k)) = Len(b) - k + 1
           /\ \A i \in 1..Len(b) - k + 1 : From(b, k)[i] = b[i + k - 1]
  BY DEF From

(* From its first byte on, a sequence is itself.                            *)
LEMMA FromStart ==
    ASSUME NEW b \in Seq(Nat)
    PROVE  From(b, 1) = b
  BY DEF From

(* What a sequence consists of to which another was added.                  *)
LEMMA JoinedBytes ==
    ASSUME NEW s \in Seq(Nat), NEW t \in Seq(Nat)
    PROVE  /\ s \o t \in Seq(Nat) /\ Len(s \o t) = Len(s) + Len(t)
           /\ Len(s) \in Nat /\ Len(t) \in Nat
           /\ \A i \in 1..Len(s) + Len(t) : (s \o t)[i] = IF i <= Len(s) THEN s[i] ELSE t[i - Len(s)]
  OBVIOUS

(* Concatenation is associative.                                            *)
LEMMA Associative ==
    ASSUME NEW a \in Seq(Nat), NEW b \in Seq(Nat), NEW c \in Seq(Nat)
    PROVE  (a \o b) \o c = a \o (b \o c)
  BY ConcatAssociative, SMTT(30)

(* Sequences of the same bytes are the same.                                *)
LEMMA SameBytes ==
    ASSUME NEW s \in Seq(Nat), NEW t \in Seq(Nat), Len(s) = Len(t),
           \A i \in 1..Len(s) : s[i] = t[i]
    PROVE  s = t
  OBVIOUS

(* The end of a longer buffer is longer by as much ...                      *)
LEMMA FromLonger ==
    ASSUME NEW b \in Seq(Nat), NEW x \in Seq(Nat), NEW k \in 1..Len(b) + 1
    PROVE  From(b \o x, k) = From(b, k) \o x
<1>0. Len(b) \in Nat /\ Len(x) \in Nat
  OBVIOUS
<1>1. b \o x \in Seq(Nat) /\ Len(b \o x) = Len(b) + Len(x) /\ k \in 1..Len(b \o x) + 1
  BY <1>0
<1>2. /\ From(b \o x, k) \in Seq(Nat) /\ Len(From(b \o x, k)) = Len(b) + Len(x) - k + 1
      /\ \A i \in 1..Len(b) + Len(x) - k + 1 : From(b \o x, k)[i] = (b \o x)[i + k - 1]
  <2> DEFINE y == b \o x
  <2>1. y \in Seq(Nat) /\ Len(y) = Len(b) + Len(x) /\ k \in 1..Len(y) + 1
    BY <1>1
  <2> HIDE DEF y
  <2>2. /\ From(y, k) \in Seq(Nat) /\ Len(From(y, k)) = Len(y) - k + 1
        /\ \A i \in 1..Len(y) - k + 1 : From(y, k)[i] = y[i + k - 1]
    BY <2>1, FromFacts
  <2>3. /\ From(y, k) \in Seq(Nat) /\ Len(From(y, k)) = Len(b) + Len(x) - k + 1
        /\ \A i \in 1..Len(b) + Len(x) - k + 1 : From(y, k)[i] = y[i + k - 1]
    <3>1. Len(y) - k + 1 = Len(b) + Len(x) - k + 1
      BY <2>1
    <3> QED
      BY <2>2, <3>1
  <2> QED
    BY <2>3 DEF y
<1>3. /\ From(b, k) \in Seq(Nat) /\ Len(From(b, k)) = Len(b) - k + 1
      /\ \A i \in 1..Len(b) - k + 1 : From(b, k)[i] = b[i + k - 1]
  BY FromFacts
<1>4. /\ From(b, k) \o x \in Seq(Nat) /\ Len(From(b, k) \o x) = Len(b) - k + 1 + Len(x)
      /\ \A i \in 1..Len(b) + Len(x) - k + 1 :
            (From(b, k) \o x)[i] = IF i <= Len(b) - k + 1 THEN b[i + k - 1]
                                   ELSE x[i - (Len(b) - k + 1)]
  <2> DEFINE y == From(b, k)
  <2>1. y \in Seq(Nat) /\ Len(y) = Len(b) - k + 1 /\ \A i \in 1..Len(y) : y[i] = b[i + k - 1]
    BY <1>3
  <2> HIDE DEF y
  <2>2. /\ y \o x \in Seq(Nat) /\ Len(y \o x) = Len(y) + Len(x)
        /\ \A i \in 1..Len(y) + Len(x) : (y \o x)[i] = IF i <= Len(y) THEN y[i] ELSE x[i - Len(y)]
    BY <2>1, JoinedBytes
  <2>3. /\ Len(y) + Len(x) = Len(b) + Len(x) - k + 1
        /\ \A i \in 1..Len(y) + Len(x) : i <= Len(y) => i \in 1..Len(y)
    BY <1>0, <2>1
  <2> QED
    BY <2>1, <2>2, <2>3 DEF y
<1>5. \A i \in 1..Len(b) + Len(x) - k + 1 :
          (b \o x)[i + k - 1] = IF i <= Len(b) - k + 1 THEN b[i + k - 1]
                                ELSE x[i + k - 1 - Len(b)]
  <2> SUFFICES ASSUME NEW i \in 1..Len(b) + Len(x) - k + 1
               PROVE (b \o x)[i + k - 1] = IF i <= Len(b) - k + 1 THEN b[i + k - 1]
                                           ELSE x[i + k - 1 - Len(b)]
    OBVIOUS
  <2>1. i + k - 1 \in 1..Len(b) + Len(x) /\ (i <= Len(b) - k + 1 <=> i + k - 1 <= Len(b))
    OBVIOUS
  <2> QED
    BY <2>1
<1>6. \A i \in 1..Len(b) + Len(x) - k + 1 : i + k - 1 - Len(b) = i - (Len(b) - k + 1)
  OBVIOUS
<1>7. \A i \in 1..Len(b) + Len(x) - k + 1 : From(b \o x, k)[i] = (From(b, k) \o x)[i]
  BY <1>2, <1>4, <1>5, <1>6
<1>8. Len(From(b \o x, k)) = Len(From(b, k) \o x)
  BY <1>2, <1>4
<1> QED
  BY <1>2, <1>4, <1>7, <1>8, SameBytes

(* ... and the inside of it is the same.                                    *)
LEMMA SubSeqLonger ==
    ASSUME NEW b \in Seq(Nat), NEW x \in Seq(Nat), NEW k \in Nat \ {0}, NEW n \in Nat, n <= Len(b)
    PROVE  SubSeq(b \o x, k, n) = SubSeq(b, k, n)
<1>1. \A i \in k..n : (b \o x)[i] = b[i]
  OBVIOUS
<1> QED
  BY <1>1

(* A sync pair stays the first one when bytes are added.                    *)
LEMMA SyncStays ==
    ASSUME NEW b \in Seq(Nat), NEW x \in Seq(Nat), SyncAt(b) # {}
    PROVE  /\ SyncAt(b \o x) # {} /\ Min(SyncAt(b \o x)) = Min(SyncAt(b))
           /\ From(b \o x, Min(SyncAt(b))) = From(b, Min(SyncAt(b))) \o x
<1> DEFINE f == Min(SyncAt(b))
<1>1. f \in 1..Len(b) - 1 /\ b[f] = 1 /\ b[f + 1] = 2 /\ \A i \in SyncAt(b) : f <= i
  BY FirstSync
<1> HIDE DEF f
<1>2. b \o x \in Seq(Nat) /\ Len(b \o x) = Len(b) + Len(x)
      /\ \A i \in 1..Len(b) : (b \o x)[i] = b[i]
  OBVIOUS
<1>3. f \in SyncAt(b \o x)
  <2>1. f \in 1..Len(b \o x) - 1 /\ f \in 1..Len(b) /\ f + 1 \in 1..Len(b)
    BY <1>1, <1>2
  <2> QED
    BY <1>1, <1>2, <2>1 DEF SyncAt
<1>4. \A i \in SyncAt(b \o x) : f <= i
  <2> SUFFICES ASSUME NEW i \in SyncAt(b \o x) PROVE ~(i < f)
    <3>1. \A i \in SyncAt(b \o x) : i \in Nat
      BY DEF SyncAt
    <3> QED
      BY <1>1, <3>1
  <2> SUFFICES ASSUME i < f PROVE FALSE
    OBVIOUS
  <2>0. i \in 1..Len(b \o x) - 1 /\ (b \o x)[i] = 1 /\ (b \o x)[i + 1] = 2
    BY DEF SyncAt
  <2>1. i \in 1..Len(b) - 1 /\ (b \o x)[i] = 1 /\ (b \o x)[i + 1] = 2
    BY <1>1, <2>0
  <2>2. i \in 1..Len(b) /\ i + 1 \in 1..Len(b)
    BY <2>1
  <2>3. i \in SyncAt(b)
    BY <1>2, <2>1, <2>2 DEF SyncAt
  <2>4. f <= i /\ f \in Nat /\ i \in Nat
    BY <1>1, <2>1, <2>3
  <2> QED
    BY <2>4
<1>5. SyncAt(b \o x) \in SUBSET Nat
  BY <1>2 DEF SyncAt
<1>6. Min(SyncAt(b \o x)) = f
  BY <1>3, <1>4, <1>5, LeastIs
<1>7. From(b \o x, f) = From(b, f) \o x
  <2>1. f \in 1..Len(b) + 1
    BY <1>1
  <2> QED
    BY <2>1, FromLonger
<1> QED
  BY <1>3, <1>6, <1>7 DEF f

(* What comes from the first sync pair on begins with it.                   *)
LEMMA SyncFirst ==
    ASSUME NEW b \in Seq(Nat), SyncAt(b) # {}, NEW c, c = From(b, Min(SyncAt(b)))
    PROVE  /\ c \in Seq(Nat) /\ Len(c) \in 2..Len(b)
           /\ SyncAt(c) # {} /\ Min(SyncAt(c)) = 1 /\ From(c, 1) = c
           /\ c[1] = 1 /\ c[2] = 2
<1> DEFINE f == Min(SyncAt(b))
<1>1. f \in 1..Len(b) - 1 /\ b[f] = 1 /\ b[f + 1] = 2
  BY FirstSync
<1> HIDE DEF f
<1>2. /\ c \in Seq(Nat) /\ Len(c) = Len(b) - f + 1 /\ Len(b) \in Nat
      /\ \A i \in 1..Len(b) - f + 1 : c[i] = b[i + f - 1]
  <2>1. f \in 1..Len(b) + 1 /\ c = From(b, f) /\ Len(b) \in Nat
    BY <1>1 DEF f
  <2> QED
    BY <2>1, FromFacts
<1>3. Len(c) \in 2..Len(b)
  BY <1>1, <1>2
<1>4. c[1] = 1 /\ c[2] = 2
  <2> DEFINE n == Len(b) - f + 1
  <2>2. f \in Nat /\ n \in Nat /\ n >= 2
    <3> DEFINE m == Len(b)
    <3>1. m \in Nat /\ f \in 1..m - 1
      BY <1>1, <1>2
    <3> HIDE DEF m
    <3>2. f \in Nat /\ m - f + 1 \in Nat /\ m - f + 1 >= 2
      BY <3>1
    <3> QED
      BY <3>2 DEF m
  <2>3. \A i \in 1..n : c[i] = b[i + f - 1]
    BY <1>2
  <2> HIDE DEF n
  <2>4. 1 \in 1..n /\ 2 \in 1..n /\ 1 + f - 1 = f /\ 2 + f - 1 = f + 1
    BY <2>2
  <2>1. c[1] = b[1 + f - 1] /\ c[2] = b[2 + f - 1] /\ 1 + f - 1 = f /\ 2 + f - 1 = f + 1
    BY <2>3, <2>4
  <2> QED
    BY <1>1, <2>1
<1>5. 1 \in SyncAt(c) /\ SyncAt(c) \in SUBSET Nat /\ \A i \in SyncAt(c) : 1 <= i
  BY <1>2, <1>3, <1>4 DEF SyncAt
<1>6. Min(SyncAt(c)) = 1
  BY <1>5, LeastIs
<1>7. From(c, 1) = c
  BY <1>2, FromStart
<1> QED
  BY <1>2, <1>3, <1>4, <1>5, <1>6, <1>7

(* Where there is no sync pair only a last 1 matters.                       *)
LEMMA NoSync ==
    ASSUME NEW b \in Seq(Nat), NEW x \in Seq(Nat), SyncAt(b) = {},
           NEW w, w = without_sync(b)
    PROVE  /\ w \in Seq(Nat) /\ Len(w) <= Len(b) /\ SyncAt(w) = {} /\ without_sync(w) = w
           /\ SyncAt(b \o x) = {} <=> SyncAt(w \o x) = {}
           /\ SyncAt(b \o x) # {} =>
                  From(b \o x, Min(SyncAt(b \o x))) = From(w \o x, Min(SyncAt(w \o x)))
           /\ SyncAt(b \o x) = {} => without_sync(b \o x) = without_sync(w \o x)
<1> DEFINE p == Len(b) - Len(w)
<1>1. \/ w = <<>> /\ (b = <<>> \/ b[Len(b)] # 1)
      \/ w = <<1>> /\ b # <<>> /\ b[Len(b)] = 1
  BY DEF without_sync
<1>2. w \in Seq(Nat) /\ Len(w) \in 0..1 /\ Len(w) <= Len(b) /\ Len(b) \in Nat /\ Len(x) \in Nat
  <2>1. CASE w = <<>>
    BY <2>1
  <2>2. CASE w = <<1>> /\ b # <<>>
    <3>1. Len(w) = 1 /\ w \in Seq(Nat) /\ Len(b) \in Nat /\ Len(b) # 0
      BY <2>2
    <3> QED
      BY <3>1
  <2> QED
    BY <1>1, <2>1, <2>2
<1>3. SyncAt(w) = {}
  BY <1>2 DEF SyncAt
<1>4. without_sync(w) = w
  BY <1>1 DEF without_sync
<1>5. p \in Nat /\ Len(b) = p + Len(w)
  BY <1>2
<1> DEFINE bx == b \o x
           wx == w \o x
<1>6. /\ bx \in Seq(Nat) /\ Len(bx) = Len(b) + Len(x) /\ wx \in Seq(Nat) /\ Len(wx) = Len(w) + Len(x)
      /\ Len(bx) = Len(wx) + p /\ Len(x) \in Nat
  BY <1>2, <1>5
<1>7. /\ \A i \in 1..Len(b) : bx[i] = b[i]
      /\ \A i \in 1..Len(x) : bx[i + Len(b)] = x[i] /\ wx[i + Len(w)] = x[i]
      /\ \A i \in 1..Len(w) : wx[i] = w[i]
  BY <1>2
<1>8. Len(w) = 1 => wx[1] = 1 /\ bx[1 + p] = 1
  <2> SUFFICES ASSUME Len(w) = 1 PROVE wx[1] = 1 /\ bx[1 + p] = 1
    OBVIOUS
  <2>0. w # <<>>
    <3>1. w = <<>> => Len(w) = 0
      OBVIOUS
    <3> QED
      BY <3>1
  <2>1. w = <<1>> /\ b[Len(b)] = 1 /\ Len(b) \in 1..Len(b) /\ 1 + p = Len(b) /\ w[1] = 1
    BY <1>1, <1>2, <2>0
  <2> QED
    BY <1>7, <2>1
<1> HIDE DEF bx, wx, p
<1>9. \A j \in 1..Len(wx) : wx[j] = bx[j + p]
  <2> SUFFICES ASSUME NEW j \in 1..Len(wx) PROVE wx[j] = bx[j + p]
    OBVIOUS
  <2>1. CASE j <= Len(w)
    <3>1. j = 1 /\ Len(w) = 1
      <4>1. j \in Nat /\ j # 0
        OBVIOUS
      <4>2. Len(w) = 0 \/ Len(w) = 1
        BY <1>2
      <4>3. Len(w) = 0 => j <= 0
        BY <2>1, Zenon
      <4>4. Len(w) = 1 => j <= 1
        BY <2>1, Zenon
      <4> QED
        BY <4>1, <4>2, <4>3, <4>4
    <3> QED
      BY <1>8, <3>1
  <2>2. CASE ~(j <= Len(w))
    <3>1. j - Len(w) \in 1..Len(x) /\ j - Len(w) + Len(w) = j /\ j - Len(w) + Len(b) = j + p
      BY <1>2, <1>5, <1>6, <2>2
    <3>2. wx[j - Len(w) + Len(w)] = x[j - Len(w)] /\ bx[j - Len(w) + Len(b)] = x[j - Len(w)]
      BY <1>7, <3>1
    <3> QED
      BY <3>1, <3>2
  <2> QED
    BY <2>1, <2>2
<1>10. \A j \in SyncAt(wx) : j + p \in SyncAt(bx)
  <2> SUFFICES ASSUME NEW j \in SyncAt(wx) PROVE j + p \in SyncAt(bx)
    OBVIOUS
  <2>1. j \in 1..Len(wx) - 1 /\ wx[j] = 1 /\ wx[j + 1] = 2
    BY DEF SyncAt
  <2>2. j \in 1..Len(wx) /\ j + 1 \in 1..Len(wx) /\ j + p \in 1..Len(bx) - 1 /\ j + 1 + p = j + p + 1
    <3>1. Len(wx) \in Nat /\ Len(bx) = Len(wx) + p /\ p \in Nat /\ j \in Nat
      BY <1>2, <1>5, <1>6, <2>1
    <3> QED
      BY <2>1, <3>1
  <2>3. bx[j + p] = 1 /\ bx[j + p + 1] = 2
    BY <1>9, <2>1, <2>2
  <2> QED
    BY <2>2, <2>3 DEF SyncAt
<1>11. \A i \in SyncAt(bx) : i - p \in SyncAt(wx)
  <2> SUFFICES ASSUME NEW i \in SyncAt(bx) PROVE i - p \in SyncAt(wx)
    OBVIOUS
  <2>1. i \in 1..Len(bx) - 1 /\ bx[i] = 1 /\ bx[i + 1] = 2 /\ i \in Nat
    BY <1>6 DEF SyncAt
  <2>2. ~(i < Len(b))
    <3> SUFFICES ASSUME i < Len(b) PROVE FALSE
      OBVIOUS
    <3>1. i \in 1..Len(b) - 1 /\ i \in 1..Len(b) /\ i + 1 \in 1..Len(b)
      <4> DEFINE m == Len(b)
      <4>1. m \in Nat /\ i \in Nat /\ i >= 1 /\ i < m
        BY <1>2, <2>1
      <4> HIDE DEF m
      <4>2. i \in 1..m - 1 /\ i \in 1..m /\ i + 1 \in 1..m
        BY <4>1
      <4> QED
        BY <4>2 DEF m
    <3>2. b[i] = 1 /\ b[i + 1] = 2
      BY <1>7, <2>1, <3>1
    <3>3. i \in SyncAt(b)
      BY <3>1, <3>2 DEF SyncAt
    <3> QED
      BY <3>3
  <2>3. i = Len(b) => Len(w) = 1
    <3> SUFFICES ASSUME i = Len(b) PROVE Len(w) = 1
      OBVIOUS
    <3>1. Len(b) \in 1..Len(b)
      BY <1>2, <2>1
    <3>2. b[Len(b)] = 1
      BY <1>7, <2>1, <3>1
    <3>3. b # <<>>
      BY <3>1
    <3>4. w = <<1>>
      BY <1>1, <3>2, <3>3
    <3> QED
      BY <3>4
  <2>4. i - p \in 1..Len(wx) - 1
    <3>1. Len(wx) \in Nat /\ Len(bx) = Len(wx) + p /\ p \in Nat /\ i \in Nat /\ i \in 1..Len(bx) - 1
      BY <1>2, <1>5, <1>6, <2>1
    <3>2. i >= Len(b) /\ (i = Len(b) => Len(w) = 1) /\ Len(b) = p + Len(w) /\ Len(w) \in {0, 1}
      BY <1>2, <1>5, <2>1, <2>2, <2>3
    <3>3. i > p
      <4>1. CASE Len(w) = 1
        BY <3>1, <3>2, <4>1
      <4>2. CASE Len(w) = 0
        <5>1. i # Len(b) /\ Len(b) = p
          BY <3>1, <3>2, <4>2
        <5> QED
          BY <3>1, <3>2, <5>1
      <4> QED
        BY <3>2, <4>1, <4>2
    <3> QED
      BY <3>1, <3>3
  <2>5. i - p \in 1..Len(wx) /\ i - p + 1 \in 1..Len(wx) /\ i - p + p = i /\ i - p + 1 + p = i + 1
    BY <1>5, <1>6, <2>1, <2>4
  <2>6. wx[i - p] = 1 /\ wx[i - p + 1] = 2
    BY <1>9, <2>1, <2>5
  <2> QED
    BY <2>4, <2>6 DEF SyncAt
<1>12. SyncAt(bx) = {} <=> SyncAt(wx) = {}
  BY <1>10, <1>11
<1>13. ASSUME SyncAt(bx) # {}
       PROVE  From(bx, Min(SyncAt(bx))) = From(wx, Min(SyncAt(wx)))
  <2> DEFINE f == Min(SyncAt(wx))
  <2>1. f \in SyncAt(wx) /\ f \in 1..Len(wx) - 1 /\ \A i \in SyncAt(wx) : f <= i
    <3>1. SyncAt(wx) # {} /\ SyncAt(wx) \in SUBSET Nat
      <4>1. SyncAt(wx) \subseteq Nat
        BY DEF SyncAt
      <4> QED
        BY <1>12, <1>13, <4>1
    <3>2. f \in SyncAt(wx) /\ \A i \in SyncAt(wx) : f <= i
      BY <3>1, LeastOf
    <3> QED
      BY <3>2 DEF SyncAt
  <2> HIDE DEF f
  <2>2. f + p \in SyncAt(bx)
    BY <1>10, <2>1
  <2>3. \A i \in SyncAt(bx) : f + p <= i
    <3> SUFFICES ASSUME NEW i \in SyncAt(bx) PROVE f + p <= i
      OBVIOUS
    <3>1. i \in Nat /\ f <= i - p
      <4>1. i \in Nat
        BY DEF SyncAt
      <4> QED
        BY <1>11, <2>1, <4>1
    <3> QED
      BY <1>5, <2>1, <3>1
  <2>4. SyncAt(bx) \in SUBSET Nat
    BY <1>6 DEF SyncAt
  <2>5. Min(SyncAt(bx)) = f + p
    BY <2>2, <2>3, <2>4, LeastIs
  <2>0. Len(wx) \in Nat /\ Len(bx) = Len(wx) + p /\ p \in Nat /\ f \in Nat
    BY <1>2, <1>5, <1>6, <2>1
  <2>6. f + p \in 1..Len(bx) + 1 /\ f \in 1..Len(wx) + 1
    BY <2>0, <2>1
  <2>7. /\ From(bx, f + p) \in Seq(Nat) /\ Len(From(bx, f + p)) = Len(wx) - f + 1
        /\ \A i \in 1..Len(wx) - f + 1 : From(bx, f + p)[i] = bx[i + (f + p) - 1]
    <3>1. Len(bx) - (f + p) + 1 = Len(wx) - f + 1
      BY <1>5, <1>6, <2>1
    <3> QED
      BY <1>6, <2>6, <3>1, FromFacts
  <2>8. /\ From(wx, f) \in Seq(Nat) /\ Len(From(wx, f)) = Len(wx) - f + 1
        /\ \A i \in 1..Len(wx) - f + 1 : From(wx, f)[i] = wx[i + f - 1]
    BY <1>6, <2>6, FromFacts
  <2>9. \A i \in 1..Len(wx) - f + 1 : wx[i + f - 1] = bx[i + (f + p) - 1]
    <3> SUFFICES ASSUME NEW i \in 1..Len(wx) - f + 1 PROVE wx[i + f - 1] = bx[i + (f + p) - 1]
      OBVIOUS
    <3>1. i + f - 1 \in 1..Len(wx) /\ i + f - 1 + p = i + (f + p) - 1
      BY <1>5, <1>6, <2>1
    <3> QED
      BY <1>9, <3>1
  <2>10. \A i \in 1..Len(wx) - f + 1 : From(bx, f + p)[i] = From(wx, f)[i]
    BY <2>7, <2>8, <2>9
  <2>11. From(bx, f + p) = From(wx, f)
    BY <2>7, <2>8, <2>10, SameBytes
  <2> QED
    BY <2>5, <2>11 DEF f
<1>14. without_sync(bx) = without_sync(wx)
  <2>1. CASE Len(x) = 0
    <3>1. x = <<>>
      BY <2>1
    <3>2. bx = b /\ wx = w
      BY <1>2, <3>1 DEF bx, wx
    <3> QED
      BY <1>4, <3>2
  <2>2. CASE Len(x) # 0
    <3>1. Len(x) \in 1..Len(x)
      BY <1>6, <2>2
    <3>2. bx[Len(x) + Len(b)] = x[Len(x)] /\ wx[Len(x) + Len(w)] = x[Len(x)]
      BY <1>7, <3>1
    <3>0. Len(x) \in Nat \ {0} /\ Len(b) \in Nat /\ Len(w) \in Nat
      BY <1>2, <2>2
    <3>3. Len(bx) = Len(x) + Len(b) /\ Len(wx) = Len(x) + Len(w) /\ Len(bx) # 0 /\ Len(wx) # 0
      <4>1. Len(bx) = Len(b) + Len(x) /\ Len(wx) = Len(w) + Len(x)
        BY <1>6
      <4> DEFINE l == Len(x)
                 m == Len(b)
                 n == Len(w)
      <4>2. l \in Nat \ {0} /\ m \in Nat /\ n \in Nat
        BY <3>0
      <4> HIDE DEF l, m, n
      <4>3. m + l = l + m /\ n + l = l + n /\ l + m # 0 /\ l + n # 0
        BY <4>2
      <4> QED
        BY <4>1, <4>3 DEF l, m, n
    <3>4. bx # <<>> /\ wx # <<>> /\ bx[Len(bx)] = wx[Len(wx)]
      BY <3>2, <3>3
    <3> QED
      BY <3>4 DEF without_sync
  <2> QED
    BY <2>1, <2>2
<1> QED
  BY <1>2, <1>3, <1>4, <1>12, <1>13, <1>14 DEF bx, wx

(* A decoder, one that is fed, and the loop of push: what it looks at in a  *)
(* round, and whether the round leaves the loop.                            *)
Decoders == [buffer : Seq(Nat), frames : Seq(Seq(Nat)), checks : 0 .. CheckLimit - 1]
Fed(d, x) == [d EXCEPT !.buffer = @ \o x]
Candidate(d) == From(d.buffer, Min(SyncAt(d.buffer)))
Leaves(p, d) == SyncAt(d.buffer) = {} \/ incomplete(p, Candidate(d))

(* What the assumptions say about the sizes.                                *)
LEMMA SizesKnown ==
    ASSUME NEW p
    PROVE  /\ maximum_frame_size(p) \in Nat /\ maximum_frame_size(p) >= 7 /\ HeaderSize = 4
           /\ CheckLimit \in Nat \ {0} /\ 0 \in 0 .. CheckLimit - 1
<1>1. UartFrame \in Nat /\ HostFrame \in Nat /\ UartFrame \notin 0 .. 6 /\ HostFrame \notin 0 .. 6
  BY FrameSizesAssumption
<1>2. CheckLimit \in Nat \ {0}
  BY DecoderAssumption
<1> QED
  BY <1>1, <1>2 DEF maximum_frame_size, HeaderSize

(* What a decoder holds is a sequence of bytes.                             *)
LEMMA Buffers ==
    ASSUME NEW d \in Decoders
    PROVE  d.buffer \in Seq(Nat) /\ Len(d.buffer) \in Nat
  BY DEF Decoders

(* A decoder that was given more bytes, field by field.                     *)
LEMMA Feeding ==
    ASSUME NEW d \in Decoders, NEW x \in Seq(Nat)
    PROVE  /\ Fed(d, x) \in Decoders /\ Fed(d, x).buffer = d.buffer \o x
           /\ Fed(d, x).frames = d.frames /\ Fed(d, x).checks = d.checks
           /\ Fed(d, x) = [buffer |-> d.buffer \o x, frames |-> d.frames, checks |-> d.checks]
           /\ d.buffer \in Seq(Nat)
<1> DEFINE y == d.buffer \o x
<1>1. d.buffer \in Seq(Nat) /\ y \in Seq(Nat)
  BY DEF Decoders
<1>2. Fed(d, x) = [d EXCEPT !.buffer = y]
  BY DEF Fed
<1> HIDE DEF y
<1>3. /\ Fed(d, x) \in Decoders /\ Fed(d, x).buffer = y
      /\ Fed(d, x).frames = d.frames /\ Fed(d, x).checks = d.checks
      /\ Fed(d, x) = [buffer |-> y, frames |-> d.frames, checks |-> d.checks]
  BY <1>1, <1>2 DEF Decoders
<1> QED
  BY <1>1, <1>3 DEF y

(* What the first bytes of a candidate say does not change with more bytes. *)
LEMMA Announcing ==
    ASSUME NEW p, NEW c \in Seq(Nat), ~incomplete(p, c), NEW x \in Seq(Nat)
    PROVE  /\ Len(c) \in Nat /\ Len(c) >= 4 /\ announced_size(c) \in Nat
           /\ allowed(p, c) => announced_size(c) \in 6..Len(c)
           /\ announced_size(c \o x) = announced_size(c) /\ (allowed(p, c \o x) <=> allowed(p, c))
           /\ allowed(p, c) => (passes(c \o x) <=> passes(c))
           /\ ~incomplete(p, c \o x)
<1>1. Len(c) \in Nat /\ Len(c) >= 4 /\ (allowed(p, c) => ~(Len(c) < announced_size(c)))
  BY DEF incomplete, HeaderSize
<1>2. c[3] \in Nat /\ c[4] \in Nat
  <2>1. 3 \in 1..Len(c) /\ 4 \in 1..Len(c)
    BY <1>1
  <2> QED
    BY <2>1
<1>3. announced_size(c) \in Nat
  BY <1>2 DEF announced_size, HeaderSize
<1>4. allowed(p, c) => announced_size(c) \in 6..Len(c)
  BY <1>1, <1>3, SizesKnown DEF allowed
<1>5. /\ c \o x \in Seq(Nat) /\ Len(c \o x) = Len(c) + Len(x) /\ Len(x) \in Nat
      /\ \A i \in 1..Len(c) : (c \o x)[i] = c[i]
  <2>1. \A i \in 1..Len(c) : i \in 1..Len(c) + Len(x) /\ i <= Len(c)
    BY JoinedBytes
  <2> QED
    BY <2>1, JoinedBytes
<1>6. announced_size(c \o x) = announced_size(c)
  <2>1. 3 \in 1..Len(c) /\ 4 \in 1..Len(c)
    BY <1>1
  <2>2. (c \o x)[3] = c[3] /\ (c \o x)[4] = c[4]
    BY <1>5, <2>1
  <2> QED
    BY <2>2 DEF announced_size
<1>7. allowed(p, c \o x) <=> allowed(p, c)
  BY <1>6 DEF allowed
<1>8. ASSUME allowed(p, c)
      PROVE  passes(c \o x) <=> passes(c)
  <2>1. announced_size(c) \in 6..Len(c) /\ announced_size(c) \in 1..Len(c)
    BY <1>1, <1>3, <1>4, <1>8
  <2>2. (c \o x)[announced_size(c)] = c[announced_size(c)]
    BY <1>5, <2>1
  <2>3. announced_size(c) - 1 \in Nat /\ announced_size(c) - 1 <= Len(c)
    BY <1>1, <2>1
  <2>4. SubSeq(c \o x, 3, announced_size(c) - 1) = SubSeq(c, 3, announced_size(c) - 1)
    BY <2>3, SubSeqLonger
  <2> QED
    BY <1>6, <2>2, <2>4 DEF passes
<1>9. ~incomplete(p, c \o x)
  <2>1. ~(Len(c \o x) < HeaderSize)
    BY <1>1, <1>5 DEF HeaderSize
  <2>2. allowed(p, c) => ~(Len(c \o x) < announced_size(c))
    BY <1>1, <1>3, <1>5
  <2> QED
    BY <1>6, <1>7, <2>1, <2>2 DEF incomplete
<1> QED
  BY <1>1, <1>3, <1>4, <1>6, <1>7, <1>8, <1>9

(* How many bytes a bad candidate costs, and the checks that are counted.   *)
ChecksAfter(p, d) == IF p = "uart" THEN (d.checks + 1) % CheckLimit ELSE 0
Cost(p, d, size) ==
    (IF p = "usb" THEN size ELSE 1) + (IF p = "uart" /\ ChecksAfter(p, d) = 0 THEN 1 ELSE 0)

(* The count of unsuccessful checks begins anew at its limit.               *)
LEMMA Counts ==
    ASSUME NEW p, NEW d \in Decoders
    PROVE  ChecksAfter(p, d) \in 0 .. CheckLimit - 1
<1> DEFINE k == d.checks
           l == CheckLimit
<1>1. k \in 0 .. l - 1 /\ 0 \in 0 .. l - 1
  BY SizesKnown DEF Decoders
<1>2. l \in Nat \ {0}
  BY DecoderAssumption
<1> HIDE DEF k, l
<1>3. (k + 1) % l \in 0 .. l - 1
  BY <1>1, <1>2
<1> QED
  BY <1>1, <1>3 DEF ChecksAfter, k, l

(* What is left after a bad candidate, in closed form (rejected).           *)
LEMMA Rejecting ==
    ASSUME NEW p, NEW d \in Decoders, NEW bytes \in Seq(Nat), NEW size \in 4..Len(bytes)
    PROVE  /\ Cost(p, d, size) \in 1..Len(bytes) /\ ChecksAfter(p, d) \in 0 .. CheckLimit - 1
           /\ rejected(p, d, bytes, size) = [buffer |-> From(bytes, Cost(p, d, size) + 1),
                                          frames |-> d.frames, checks |-> ChecksAfter(p, d)]
<1>1. ChecksAfter(p, d) \in 0 .. CheckLimit - 1
  BY Counts
<1>2. Cost(p, d, size) \in 1..Len(bytes)
  <2>1. Len(bytes) \in Nat /\ size \in Nat /\ 4 <= size /\ size <= Len(bytes)
    OBVIOUS
  <2>2. Cost(p, d, size) \in {size, 1, 2}
    BY DEF Cost
  <2> QED
    BY <2>1, <2>2
<1>3. rejected(p, d, bytes, size) = [buffer |-> From(bytes, Cost(p, d, size) + 1),
                                  frames |-> d.frames, checks |-> ChecksAfter(p, d)]
  <2>1. rejected(p, d, bytes, size) = [d EXCEPT !.buffer = From(bytes, Cost(p, d, size) + 1),
                                             !.checks = ChecksAfter(p, d)]
    BY Zenon DEF rejected, Cost, ChecksAfter
  <2> QED
    BY <2>1 DEF Decoders
<1> QED
  BY <1>1, <1>2, <1>3

(* A round, case by case.                                                   *)
LEMMA RoundCases ==
    ASSUME NEW p, NEW d \in Decoders, NEW c, c = Candidate(d)
    PROVE  /\ SyncAt(d.buffer) = {} =>
                  round(p, d) = [buffer |-> without_sync(d.buffer), frames |-> d.frames,
                              checks |-> d.checks]
           /\ SyncAt(d.buffer) # {} /\ incomplete(p, c) =>
                  round(p, d) = [buffer |-> c, frames |-> d.frames, checks |-> d.checks]
           /\ SyncAt(d.buffer) # {} /\ ~incomplete(p, c) /\ allowed(p, c) /\ passes(c) =>
                  round(p, d) = [buffer |-> From(c, announced_size(c) + 1),
                              frames |-> Append(d.frames, SubSeq(c, 5, announced_size(c) - 1)),
                              checks |-> 0]
           /\ SyncAt(d.buffer) # {} /\ ~incomplete(p, c) /\ ~(allowed(p, c) /\ passes(c)) =>
                  round(p, d) = rejected(p, d, c, IF allowed(p, c) THEN announced_size(c) ELSE 4)
<1>1. d = [buffer |-> d.buffer, frames |-> d.frames, checks |-> d.checks]
  BY DEF Decoders
<1>2. SyncAt(d.buffer) = {} => round(p, d) = [d EXCEPT !.buffer = without_sync(@)]
  BY DEF round
<1>3. SyncAt(d.buffer) # {} /\ incomplete(p, c) => round(p, d) = [d EXCEPT !.buffer = c]
  BY DEF round, Candidate
<1>4. SyncAt(d.buffer) # {} /\ ~incomplete(p, c) /\ allowed(p, c) /\ passes(c) =>
          round(p, d) = [buffer |-> From(c, announced_size(c) + 1),
                      frames |-> Append(d.frames, SubSeq(c, 5, announced_size(c) - 1)), checks |-> 0]
  BY DEF round, Candidate, HeaderSize
<1>5. SyncAt(d.buffer) # {} /\ ~incomplete(p, c) /\ ~(allowed(p, c) /\ passes(c)) =>
          round(p, d) = rejected(p, d, c, IF allowed(p, c) THEN announced_size(c) ELSE 4)
  BY DEF round, Candidate, HeaderSize
<1>6. [d EXCEPT !.buffer = without_sync(@)] =
          [buffer |-> without_sync(d.buffer), frames |-> d.frames, checks |-> d.checks]
  BY <1>1
<1>7. [d EXCEPT !.buffer = c] = [buffer |-> c, frames |-> d.frames, checks |-> d.checks]
  BY <1>1
<1> QED
  BY <1>2, <1>3, <1>4, <1>5, <1>6, <1>7

(* A round that does not leave the loop takes the same bytes, whatever      *)
(* comes after them.                                                        *)
LEMMA RoundTakes ==
    ASSUME NEW p, NEW d \in Decoders, ~Leaves(p, d)
    PROVE  /\ round(p, d) \in Decoders /\ Len(round(p, d).buffer) + 1 <= Len(d.buffer)
           /\ \A x \in Seq(Nat) : round(p, Fed(d, x)) = Fed(round(p, d), x)
<1> DEFINE c == Candidate(d)
           total == announced_size(c)
           size == IF allowed(p, c) THEN total ELSE 4
           taken == allowed(p, c) /\ passes(c)
           k == IF taken THEN total ELSE Cost(p, d, size)
           fr == IF taken THEN Append(d.frames, SubSeq(c, 5, total - 1)) ELSE d.frames
           ch == IF taken THEN 0 ELSE ChecksAfter(p, d)
<1>1. /\ SyncAt(d.buffer) # {} /\ ~incomplete(p, c) /\ d.buffer \in Seq(Nat)
      /\ d.frames \in Seq(Seq(Nat)) /\ Len(d.buffer) \in Nat
  BY DEF Leaves, Decoders
<1>2. c \in Seq(Nat) /\ Len(c) \in 2..Len(d.buffer)
  BY <1>1, SyncFirst DEF Candidate
<1>3. /\ Len(c) \in Nat /\ Len(c) >= 4 /\ total \in Nat /\ (allowed(p, c) => total \in 6..Len(c))
      /\ \A x \in Seq(Nat) : /\ announced_size(c \o x) = total /\ (allowed(p, c \o x) <=> allowed(p, c))
                             /\ allowed(p, c) => (passes(c \o x) <=> passes(c))
                             /\ ~incomplete(p, c \o x)
  <2> HIDE DEF c
  <2>1. <<>> \in Seq(Nat)
    OBVIOUS
  <2> QED
    BY <1>1, <1>2, <2>1, Announcing
<1> HIDE DEF c, total
<1>4. size \in 4..Len(c)
  BY <1>3
<1> HIDE DEF size
<1>5. Cost(p, d, size) \in 1..Len(c) /\ ChecksAfter(p, d) \in 0 .. CheckLimit - 1
  BY <1>2, <1>4, Rejecting
<1>6. k \in 1..Len(c) /\ ch \in 0 .. CheckLimit - 1
  BY <1>3, <1>5, SizesKnown
<1>7. fr \in Seq(Seq(Nat))
  <2>1. SubSeq(c, 5, total - 1) \in Seq(Nat) \/ ~taken
    BY <1>2, <1>3
  <2> QED
    BY <1>1, <2>1
<1>8. round(p, d) = [buffer |-> From(c, k + 1), frames |-> fr, checks |-> ch]
  <2>1. CASE taken
    BY <1>1, <2>1, RoundCases DEF c, total
  <2>2. CASE ~taken
    <3>1. round(p, d) = rejected(p, d, c, size)
      BY <1>1, <2>2, RoundCases DEF c, total, size
    <3> QED
      BY <1>2, <1>4, <2>2, <3>1, Rejecting
  <2> QED
    BY <2>1, <2>2
<1>9. ASSUME NEW x \in Seq(Nat)
      PROVE  round(p, Fed(d, x)) = [buffer |-> From(c \o x, k + 1), frames |-> fr, checks |-> ch]
  <2> DEFINE e == Fed(d, x)
             cx == c \o x
  <2>1. e \in Decoders /\ e.buffer = d.buffer \o x /\ e.frames = d.frames /\ e.checks = d.checks
    BY Feeding
  <2>2. SyncAt(e.buffer) # {} /\ Candidate(e) = cx
    BY <1>1, <2>1, SyncStays DEF Candidate, c
  <2>3. /\ announced_size(cx) = total /\ (allowed(p, cx) <=> allowed(p, c))
        /\ allowed(p, c) => (passes(cx) <=> passes(c))
        /\ ~incomplete(p, cx)
    BY <1>3
  <2>4. cx \in Seq(Nat) /\ Len(cx) = Len(c) + Len(x) /\ Len(x) \in Nat
    BY <1>2
  <2>5. CASE taken
    <3>1. total \in Nat /\ total - 1 \in Nat /\ total - 1 <= Len(c)
      BY <1>3, <2>5
    <3>2. SubSeq(cx, 5, total - 1) = SubSeq(c, 5, total - 1)
      BY <1>2, <3>1, SubSeqLonger
    <3>3. round(p, e) = [buffer |-> From(cx, total + 1),
                      frames |-> Append(e.frames, SubSeq(cx, 5, total - 1)), checks |-> 0]
      <4> HIDE DEF e, cx
      <4>1. allowed(p, cx) /\ passes(cx)
        BY <2>3, <2>5
      <4> QED
        BY <2>1, <2>2, <2>3, <4>1, RoundCases
    <3> QED
      BY <2>1, <2>5, <3>2, <3>3
  <2>6. CASE ~taken
    <3> HIDE DEF e, cx
    <3>1. ~(allowed(p, cx) /\ passes(cx)) /\ size = IF allowed(p, cx) THEN announced_size(cx) ELSE 4
      BY <2>3, <2>6 DEF size
    <3>2. round(p, e) = rejected(p, e, cx, size)
      BY <2>1, <2>2, <2>3, <3>1, RoundCases
    <3>3. size \in 4..Len(cx)
      BY <1>3, <1>4, <2>4
    <3>4. rejected(p, e, cx, size) = [buffer |-> From(cx, Cost(p, e, size) + 1), frames |-> e.frames,
                                   checks |-> ChecksAfter(p, e)]
      BY <2>1, <2>4, <3>3, Rejecting
    <3>5. ChecksAfter(p, e) = ChecksAfter(p, d) /\ Cost(p, e, size) = Cost(p, d, size)
      BY <2>1 DEF ChecksAfter, Cost
    <3>6. k = Cost(p, d, size) /\ fr = d.frames /\ ch = ChecksAfter(p, d)
      BY <2>6
    <3> QED
      BY <2>1, <3>2, <3>4, <3>5, <3>6 DEF e, cx
  <2> QED
    BY <2>5, <2>6
<1> HIDE DEF k, fr, ch, taken
<1>10. /\ From(c, k + 1) \in Seq(Nat) /\ Len(From(c, k + 1)) = Len(c) - k
       /\ \A x \in Seq(Nat) : From(c \o x, k + 1) = From(c, k + 1) \o x
  <2>1. k + 1 \in 1..Len(c) + 1 /\ Len(c) - (k + 1) + 1 = Len(c) - k
    BY <1>3, <1>6
  <2> QED
    BY <1>2, <2>1, FromFacts, FromLonger
<1>11. round(p, d) \in Decoders
  BY <1>6, <1>7, <1>8, <1>10 DEF Decoders
<1>12. Len(round(p, d).buffer) + 1 <= Len(d.buffer)
  <2>1. round(p, d).buffer = From(c, k + 1)
    BY <1>8
  <2>2. Len(round(p, d).buffer) = Len(c) - k
    BY <1>10, <2>1
  <2>3. Len(d.buffer) \in Nat
    BY <1>1, Buffers
  <2> DEFINE m == Len(c)
             n == Len(d.buffer)
  <2>4. n \in Nat /\ m \in 2..n /\ k \in 1..m
    BY <1>2, <1>6, <2>3
  <2> HIDE DEF m, n
  <2>5. m - k + 1 <= n
    BY <2>4
  <2> QED
    BY <2>2, <2>5 DEF m, n
<1>13. ASSUME NEW x \in Seq(Nat) PROVE round(p, Fed(d, x)) = Fed(round(p, d), x)
  <2> DEFINE e == round(p, d)
  <2>1. e.buffer = From(c, k + 1) /\ e.frames = fr /\ e.checks = ch
    BY <1>8
  <2> HIDE DEF e
  <2>2. e \in Decoders
    BY <1>11 DEF e
  <2>3. Fed(e, x) = [buffer |-> e.buffer \o x, frames |-> e.frames, checks |-> e.checks]
    BY <2>2, Feeding
  <2>4. e.buffer \o x = From(c \o x, k + 1)
    BY <1>10, <2>1
  <2> QED
    BY <1>9, <2>1, <2>3, <2>4 DEF e
<1> QED
  BY <1>11, <1>12, <1>13

(* What a round does hangs on the candidate, not on what comes before it.   *)
LEMMA SameRound ==
    ASSUME NEW p, NEW d \in Decoders, NEW e \in Decoders, d.frames = e.frames, d.checks = e.checks,
           SyncAt(d.buffer) # {}, SyncAt(e.buffer) # {}, Candidate(d) = Candidate(e)
    PROVE  round(p, d) = round(p, e)
<1> DEFINE c == Candidate(d)
<1>1. c \in Seq(Nat) /\ c = Candidate(e)
  <2>1. d.buffer \in Seq(Nat)
    BY DEF Decoders
  <2> QED
    BY <2>1, SyncFirst DEF Candidate
<1> HIDE DEF c
<1>2. CASE incomplete(p, c)
  <2>1. round(p, d) = [buffer |-> c, frames |-> d.frames, checks |-> d.checks]
    BY <1>2, RoundCases DEF c
  <2>2. round(p, e) = [buffer |-> c, frames |-> e.frames, checks |-> e.checks]
    BY <1>1, <1>2, RoundCases
  <2> QED
    BY <2>1, <2>2
<1>3. CASE ~incomplete(p, c) /\ allowed(p, c) /\ passes(c)
  <2>1. round(p, d) = [buffer |-> From(c, announced_size(c) + 1),
                    frames |-> Append(d.frames, SubSeq(c, 5, announced_size(c) - 1)), checks |-> 0]
    BY <1>3, RoundCases DEF c
  <2>2. round(p, e) = [buffer |-> From(c, announced_size(c) + 1),
                    frames |-> Append(e.frames, SubSeq(c, 5, announced_size(c) - 1)), checks |-> 0]
    BY <1>1, <1>3, RoundCases
  <2> QED
    BY <2>1, <2>2
<1>4. CASE ~incomplete(p, c) /\ ~(allowed(p, c) /\ passes(c))
  <2> DEFINE size == IF allowed(p, c) THEN announced_size(c) ELSE 4
  <2>1. round(p, d) = rejected(p, d, c, size)
    BY <1>4, RoundCases DEF c
  <2>2. round(p, e) = rejected(p, e, c, size)
    BY <1>1, <1>4, RoundCases
  <2>3. size \in 4..Len(c)
    <3>1. <<>> \in Seq(Nat)
      OBVIOUS
    <3>2. Len(c) \in Nat /\ Len(c) >= 4 /\ (allowed(p, c) => announced_size(c) \in 6..Len(c))
      BY <1>1, <1>4, <3>1, Announcing
    <3> QED
      BY <3>2
  <2> HIDE DEF size
  <2>4. rejected(p, d, c, size) = [buffer |-> From(c, Cost(p, d, size) + 1), frames |-> d.frames,
                                checks |-> ChecksAfter(p, d)]
    BY <1>1, <2>3, Rejecting
  <2>5. rejected(p, e, c, size) = [buffer |-> From(c, Cost(p, e, size) + 1), frames |-> e.frames,
                                checks |-> ChecksAfter(p, e)]
    BY <1>1, <2>3, Rejecting
  <2>6. ChecksAfter(p, d) = ChecksAfter(p, e) /\ Cost(p, d, size) = Cost(p, e, size)
    BY DEF ChecksAfter, Cost
  <2> QED
    BY <2>1, <2>2, <2>4, <2>5, <2>6
<1> QED
  BY <1>2, <1>3, <1>4

(* Where the loop is left another round changes nothing, and with more      *)
(* bytes it makes no difference that it was left.                           *)
LEMMA RoundLeaves ==
    ASSUME NEW p, NEW d \in Decoders, Leaves(p, d)
    PROVE  /\ round(p, d) \in Decoders /\ Len(round(p, d).buffer) <= Len(d.buffer)
           /\ round(p, round(p, d)) = round(p, d) /\ Leaves(p, round(p, d))
           /\ round(p, d).frames = d.frames /\ round(p, d).checks = d.checks
           /\ \A x \in Seq(Nat) : round(p, Fed(d, x)) = round(p, Fed(round(p, d), x))
<1> DEFINE c == Candidate(d)
           e == round(p, d)
<1>1. d.buffer \in Seq(Nat) /\ d.frames \in Seq(Seq(Nat)) /\ d.checks \in 0 .. CheckLimit - 1
  BY DEF Decoders
<1>2. CASE SyncAt(d.buffer) = {}
  <2> DEFINE w == without_sync(d.buffer)
  <2>1. e = [buffer |-> w, frames |-> d.frames, checks |-> d.checks]
    BY <1>2, RoundCases
  <2>2. w \in Seq(Nat) /\ Len(w) <= Len(d.buffer) /\ SyncAt(w) = {} /\ without_sync(w) = w
    <3>1. <<>> \in Seq(Nat)
      OBVIOUS
    <3> QED
      BY <1>1, <1>2, <3>1, NoSync
  <2> HIDE DEF e, w
  <2>3. e \in Decoders /\ e.buffer = w /\ e.frames = d.frames /\ e.checks = d.checks
    BY <1>1, <2>1, <2>2 DEF Decoders
  <2>4. round(p, e) = e
    <3>1. round(p, e) = [buffer |-> without_sync(w), frames |-> d.frames, checks |-> d.checks]
      BY <2>2, <2>3, RoundCases
    <3> QED
      BY <2>1, <2>2, <3>1
  <2>5. Leaves(p, e)
    BY <2>2, <2>3 DEF Leaves
  <2>6. ASSUME NEW x \in Seq(Nat) PROVE round(p, Fed(d, x)) = round(p, Fed(e, x))
    <3> DEFINE bx == d.buffer \o x
               wx == w \o x
               dx == Fed(d, x)
               ex == Fed(e, x)
    <3>1. /\ SyncAt(bx) = {} <=> SyncAt(wx) = {}
          /\ SyncAt(bx) # {} => From(bx, Min(SyncAt(bx))) = From(wx, Min(SyncAt(wx)))
          /\ SyncAt(bx) = {} => without_sync(bx) = without_sync(wx)
      <4>1. w = without_sync(d.buffer)
        BY DEF w
      <4> DEFINE b == d.buffer
      <4>2. b \in Seq(Nat) /\ SyncAt(b) = {} /\ w = without_sync(b)
        BY <1>1, <1>2, <4>1
      <4> HIDE DEF w, b
      <4>3. /\ SyncAt(b \o x) = {} <=> SyncAt(w \o x) = {}
            /\ SyncAt(b \o x) # {} =>
                  From(b \o x, Min(SyncAt(b \o x))) = From(w \o x, Min(SyncAt(w \o x)))
            /\ SyncAt(b \o x) = {} => without_sync(b \o x) = without_sync(w \o x)
        BY <4>2, NoSync
      <4> QED
        BY <4>3 DEF b
    <3>2. /\ dx \in Decoders /\ dx.buffer = bx /\ dx.frames = d.frames /\ dx.checks = d.checks
          /\ ex \in Decoders /\ ex.buffer = wx /\ ex.frames = d.frames /\ ex.checks = d.checks
      BY <2>3, Feeding
    <3> HIDE DEF bx, wx, dx, ex
    <3>3. CASE SyncAt(bx) = {}
      <4>1. round(p, dx) = [buffer |-> without_sync(bx), frames |-> d.frames, checks |-> d.checks]
        BY <3>2, <3>3, RoundCases
      <4>2. round(p, ex) = [buffer |-> without_sync(wx), frames |-> d.frames, checks |-> d.checks]
        BY <3>1, <3>2, <3>3, RoundCases
      <4> QED
        BY <3>1, <3>3, <4>1, <4>2 DEF dx, ex
    <3>4. CASE SyncAt(bx) # {}
      <4> DEFINE cx == From(bx, Min(SyncAt(bx)))
      <4>1. Candidate(dx) = cx /\ Candidate(ex) = cx /\ SyncAt(wx) # {}
        BY <3>1, <3>2, <3>4 DEF Candidate
      <4> HIDE DEF cx
      <4>2. round(p, dx) = round(p, ex)
        BY <3>2, <3>4, <4>1, SameRound
      <4> QED
        BY <4>2 DEF dx, ex
    <3> QED
      BY <3>3, <3>4
  <2> QED
    BY <2>2, <2>3, <2>4, <2>5, <2>6 DEF e
<1>3. CASE SyncAt(d.buffer) # {}
  <2>1. incomplete(p, c)
    BY <1>3 DEF Leaves
  <2>2. /\ c \in Seq(Nat) /\ Len(c) \in 2..Len(d.buffer)
        /\ SyncAt(c) # {} /\ Min(SyncAt(c)) = 1 /\ From(c, 1) = c
    BY <1>1, <1>3, SyncFirst DEF Candidate
  <2>3. e = [buffer |-> c, frames |-> d.frames, checks |-> d.checks]
    BY <1>3, <2>1, RoundCases
  <2>4. /\ SyncAt(d.buffer \o <<>>) # {}
        /\ \A x \in Seq(Nat) : /\ SyncAt(d.buffer \o x) # {}
                               /\ From(d.buffer \o x, Min(SyncAt(d.buffer \o x))) = c \o x
    <3>1. d.buffer \o <<>> = d.buffer
      BY <1>1
    <3> QED
      BY <1>1, <1>3, <3>1, SyncStays DEF Candidate
  <2> HIDE DEF e, c
  <2>5. e \in Decoders /\ e.buffer = c /\ e.frames = d.frames /\ e.checks = d.checks
    BY <1>1, <2>2, <2>3 DEF Decoders
  <2>6. Candidate(e) = c
    BY <2>2, <2>5 DEF Candidate
  <2>7. round(p, e) = e
    BY <2>1, <2>2, <2>3, <2>5, <2>6, RoundCases
  <2>8. Leaves(p, e)
    BY <2>1, <2>6 DEF Leaves
  <2>9. ASSUME NEW x \in Seq(Nat) PROVE round(p, Fed(d, x)) = round(p, Fed(e, x))
    <3> DEFINE dx == Fed(d, x)
               ex == Fed(e, x)
               cx == c \o x
    <3>1. /\ dx \in Decoders /\ dx.buffer = d.buffer \o x /\ dx.frames = d.frames /\ dx.checks = d.checks
          /\ ex \in Decoders /\ ex.buffer = cx /\ ex.frames = d.frames /\ ex.checks = d.checks
      BY <2>5, Feeding
    <3>2. SyncAt(dx.buffer) # {} /\ Candidate(dx) = cx
      BY <2>4, <3>1 DEF Candidate
    <3>3. SyncAt(ex.buffer) # {} /\ Candidate(ex) = cx
      <4>1. SyncAt(cx) # {} /\ Min(SyncAt(cx)) = 1 /\ From(cx, 1) = From(c, 1) \o x
        BY <2>2, SyncStays
      <4> QED
        BY <2>2, <3>1, <4>1 DEF Candidate
    <3> HIDE DEF dx, ex, cx
    <3> QED
      BY <3>1, <3>2, <3>3, SameRound DEF dx, ex
  <2> QED
    BY <2>2, <2>5, <2>7, <2>8, <2>9 DEF e
<1> QED
  BY <1>2, <1>3

(* The states of the loop of push, round after round.                       *)
Rounds(p, d) ==
    LET rounds[n \in Nat] == IF n = 0 THEN d ELSE round(p, rounds[n - 1])
    IN  rounds

(* decoded goes round by round, as the loop does.                           *)
LEMMA RoundByRound ==
    ASSUME NEW p, NEW d \in Decoders
    PROVE  /\ decoded(p, d) = Rounds(p, d)[Len(d.buffer)]
           /\ Rounds(p, d)[0] = d /\ \A n \in Nat : Rounds(p, d)[n + 1] = round(p, Rounds(p, d)[n])
<1> DEFINE Step == [n \in Nat |-> [e \in Decoders |-> round(p, e)]]
           F == CHOOSE f : f = [n \in Nat |-> IF n = 0 THEN d ELSE round(p, f[n - 1])]
<1>1. \A e \in Decoders : round(p, e) \in Decoders
  BY RoundTakes, RoundLeaves
<1>2. Step \in [Nat -> [Decoders -> Decoders]] /\ \A n \in Nat, e \in Decoders : Step[n][e] = round(p, e)
  BY <1>1
<1> HIDE DEF Step
<1>3. PICK r \in [Nat -> Decoders] : r[0] = d /\ \A n \in Nat : r[n + 1] = Step[n][r[n]]
  <2>1. PICK r : Iterates(Decoders, d, Step, r)
    BY <1>2, Recursion
  <2> QED
    BY <2>1 DEF Iterates
<1>4. r = [n \in Nat |-> IF n = 0 THEN d ELSE round(p, r[n - 1])]
  <2> SUFFICES ASSUME NEW n \in Nat, n # 0 PROVE r[n] = round(p, r[n - 1])
    BY <1>3
  <2>1. n - 1 \in Nat /\ (n - 1) + 1 = n
    OBVIOUS
  <2>2. r[(n - 1) + 1] = Step[n - 1][r[n - 1]] /\ r[n - 1] \in Decoders
    BY <1>3, <2>1
  <2> QED
    BY <1>2, <2>1, <2>2
<1>5. F = [n \in Nat |-> IF n = 0 THEN d ELSE round(p, F[n - 1])]
  BY <1>4
<1>6. Rounds(p, d) = F /\ decoded(p, d) = F[Len(d.buffer)]
  BY DEF Rounds, decoded
<1> HIDE DEF F
<1>7. F[0] = d
  BY <1>5
<1>8. ASSUME NEW n \in Nat PROVE F[n + 1] = round(p, F[n])
  <2>1. n + 1 \in Nat /\ n + 1 # 0 /\ (n + 1) - 1 = n
    OBVIOUS
  <2>2. F[n + 1] = round(p, F[(n + 1) - 1])
    BY <1>5, <2>1
  <2> QED
    BY <2>1, <2>2
<1> QED
  BY <1>6, <1>7, <1>8

(* The loop comes to an end within as many rounds as there are bytes.       *)
LEMMA Settling ==
    ASSUME NEW p, NEW d \in Decoders
    PROVE  /\ \A n \in Nat : Rounds(p, d)[n] \in Decoders
           /\ \A n \in Nat : n >= Len(d.buffer) => Rounds(p, d)[n] = decoded(p, d)
           /\ decoded(p, d) \in Decoders /\ round(p, decoded(p, d)) = decoded(p, d)
           /\ Leaves(p, decoded(p, d))
<1> DEFINE R(n) == Rounds(p, d)[n]
           Settled(n) == Leaves(p, R(n)) /\ round(p, R(n)) = R(n)
           N == Len(d.buffer)
<1>0. N \in Nat
  BY DEF Decoders
<1>1. R(0) = d /\ decoded(p, d) = R(N) /\ \A n \in Nat : R(n + 1) = round(p, R(n))
  BY RoundByRound
<1> HIDE DEF R
<1>2. \A n \in Nat : R(n) \in Decoders /\ (Settled(n) \/ Len(R(n).buffer) + n <= N)
  <2> DEFINE T == {n \in Nat : R(n) \in Decoders /\ (Settled(n) \/ Len(R(n).buffer) + n <= N)}
  <2>1. 0 \in T
    BY <1>0, <1>1
  <2>2. ASSUME NEW n \in T PROVE n + 1 \in T
    <3>1. n \in Nat /\ R(n) \in Decoders /\ R(n + 1) = round(p, R(n))
          /\ (Settled(n) \/ Len(R(n).buffer) + n <= N)
      BY <1>1, <2>2
    <3>2. CASE Settled(n)
      <4>1. R(n + 1) = R(n) /\ Settled(n + 1)
        BY <3>1, <3>2
      <4> QED
        BY <3>1, <4>1
    <3>3. CASE Leaves(p, R(n))
      <4>1. R(n + 1) \in Decoders /\ Settled(n + 1)
        BY <3>1, <3>3, RoundLeaves
      <4> QED
        BY <3>1, <4>1
    <3>4. CASE ~Leaves(p, R(n))
      <4>1. R(n + 1) \in Decoders /\ Len(R(n + 1).buffer) + 1 <= Len(R(n).buffer)
        BY <3>1, <3>4, RoundTakes
      <4>2. Len(R(n + 1).buffer) \in Nat /\ Len(R(n).buffer) \in Nat
        BY <3>1, <4>1, Buffers, Zenon
      <4>3. Len(R(n).buffer) + n <= N
        BY <3>1, <3>4
      <4>4. Len(R(n + 1).buffer) + (n + 1) <= N
        <5> DEFINE now == Len(R(n).buffer)
                   next == Len(R(n + 1).buffer)
        <5>1. now \in Nat /\ next \in Nat /\ next + 1 <= now /\ now + n <= N /\ n \in Nat
          BY <3>1, <4>1, <4>2, <4>3, Zenon
        <5> HIDE DEF now, next
        <5>2. next + (n + 1) <= N
          BY <1>0, <5>1
        <5> QED
          BY <5>2 DEF next
      <4> QED
        BY <3>1, <4>1, <4>4
    <3> QED
      BY <3>2, <3>3, <3>4
  <2>3. T \in SUBSET Nat
    OBVIOUS
  <2> HIDE DEF T
  <2>4. Nat \subseteq T
    BY <2>1, <2>2, <2>3, Counting
  <2> QED
    BY <2>4 DEF T
<1>3. Settled(N)
  <2> SUFFICES ASSUME Len(R(N).buffer) + N <= N PROVE Settled(N)
    BY <1>0, <1>2
  <2>0. R(N) \in Decoders
    BY <1>0, <1>2
  <2>1. R(N) \in Decoders /\ R(N).buffer \in Seq(Nat) /\ Len(R(N).buffer) \in Nat
    BY <2>0, Buffers, Zenon
  <2>2. Len(R(N).buffer) = 0
    <3> DEFINE now == Len(R(N).buffer)
    <3>1. now \in Nat /\ now + N <= N
      BY <2>1, Zenon
    <3> HIDE DEF now
    <3>2. now = 0
      BY <1>0, <3>1
    <3> QED
      BY <3>2 DEF now
  <2>3. SyncAt(R(N).buffer) = {}
    BY <2>2 DEF SyncAt
  <2>4. R(N).buffer = <<>>
    BY <2>1, <2>2
  <2>5. round(p, R(N)) = [buffer |-> <<>>, frames |-> R(N).frames, checks |-> R(N).checks]
    BY <2>1, <2>3, <2>4, RoundCases DEF without_sync
  <2>6. round(p, R(N)) = R(N)
    BY <2>1, <2>4, <2>5 DEF Decoders
  <2> QED
    BY <2>3, <2>6 DEF Leaves
<1>4. \A n \in Nat : n >= N => R(n) = R(N)
  <2> DEFINE T == {n \in Nat : n >= N => R(n) = R(N)}
  <2>1. 0 \in T
    BY <1>0
  <2>2. ASSUME NEW n \in T PROVE n + 1 \in T
    <3>1. n \in Nat /\ (n >= N => R(n) = R(N)) /\ R(n + 1) = round(p, R(n))
      BY <1>1, <2>2
    <3>2. CASE n >= N
      BY <1>3, <3>1, <3>2
    <3>3. CASE ~(n >= N)
      <4>1. n + 1 >= N => n + 1 = N
        BY <1>0, <3>1, <3>3
      <4> QED
        BY <3>1, <4>1
    <3> QED
      BY <3>2, <3>3
  <2>3. T \in SUBSET Nat
    OBVIOUS
  <2> HIDE DEF T
  <2>4. Nat \subseteq T
    BY <2>1, <2>2, <2>3, Counting
  <2> QED
    BY <2>4 DEF T
<1> QED
  BY <1>0, <1>1, <1>2, <1>3, <1>4 DEF R

(* A round first makes no difference, and where it leaves it is the last.   *)
LEMMA RoundFirst ==
    ASSUME NEW p, NEW d \in Decoders
    PROVE  decoded(p, d) = decoded(p, round(p, d))
<1> DEFINE e == round(p, d)
           N == Len(d.buffer)
<1>0. /\ e \in Decoders /\ d.buffer \in Seq(Nat) /\ e.buffer \in Seq(Nat)
      /\ N \in Nat /\ Len(e.buffer) \in Nat /\ Len(e.buffer) <= N
  <2>1. e \in Decoders /\ (Len(e.buffer) <= N \/ Len(e.buffer) + 1 <= N)
    BY RoundTakes, RoundLeaves
  <2> HIDE DEF e
  <2>2. N \in Nat /\ Len(e.buffer) \in Nat /\ d.buffer \in Seq(Nat) /\ e.buffer \in Seq(Nat)
    BY <2>1 DEF Decoders
  <2> QED
    BY <2>1, <2>2
<1>1. \A n \in Nat : Rounds(p, e)[n] = Rounds(p, d)[n + 1]
  <2> DEFINE T == {n \in Nat : Rounds(p, e)[n] = Rounds(p, d)[n + 1]}
  <2>1. 0 \in T
    <3>1. Rounds(p, d)[0] = d /\ Rounds(p, d)[0 + 1] = round(p, Rounds(p, d)[0])
      BY RoundByRound
    <3>2. Rounds(p, e)[0] = e
      <4> HIDE DEF e
      <4> QED
        BY <1>0, RoundByRound
    <3> QED
      BY <3>1, <3>2
  <2>2. ASSUME NEW n \in T PROVE n + 1 \in T
    <3>1. n \in Nat /\ n + 1 \in Nat /\ Rounds(p, e)[n] = Rounds(p, d)[n + 1]
      BY <2>2
    <3>2. Rounds(p, d)[n + 1 + 1] = round(p, Rounds(p, d)[n + 1])
      BY <3>1, RoundByRound
    <3>3. Rounds(p, e)[n + 1] = round(p, Rounds(p, e)[n])
      <4> HIDE DEF e
      <4> QED
        BY <1>0, <3>1, RoundByRound
    <3> QED
      BY <3>1, <3>2, <3>3
  <2>3. T \in SUBSET Nat
    OBVIOUS
  <2> HIDE DEF T
  <2>4. Nat \subseteq T
    BY <2>1, <2>2, <2>3, Counting
  <2> QED
    BY <2>4 DEF T
<1> HIDE DEF e
<1>2. Rounds(p, e)[N] = decoded(p, e)
  BY <1>0, Settling
<1>3. Rounds(p, d)[N + 1] = decoded(p, d)
  <2>1. N + 1 \in Nat /\ N + 1 >= N
    BY <1>0
  <2> QED
    BY <2>1, Settling
<1>4. decoded(p, d) = decoded(p, e)
  BY <1>0, <1>1, <1>2, <1>3
<1> QED
  BY <1>4 DEF e

(* Rounds that change nothing may be left out.                              *)
LEMMA AtRest ==
    ASSUME NEW p, NEW d \in Decoders, round(p, d) = d
    PROVE  decoded(p, d) = d
<1>0. Len(d.buffer) \in Nat
  BY DEF Decoders
<1> DEFINE T == {n \in Nat : Rounds(p, d)[n] = d}
<1>1. 0 \in T
  BY RoundByRound
<1>2. ASSUME NEW n \in T PROVE n + 1 \in T
  <2>1. n \in Nat /\ Rounds(p, d)[n] = d /\ Rounds(p, d)[n + 1] = round(p, Rounds(p, d)[n])
    BY <1>2, RoundByRound
  <2> QED
    BY <2>1
<1>3. T \in SUBSET Nat
  OBVIOUS
<1>4. Nat \subseteq T
  <2> HIDE DEF T
  <2> QED
    BY <1>1, <1>2, <1>3, Counting
<1> QED
  BY <1>0, <1>4, RoundByRound

(* The round that leaves the loop is the last one.                          *)
LEMMA LastRound ==
    ASSUME NEW p, NEW d \in Decoders, Leaves(p, d)
    PROVE  decoded(p, d) = round(p, d)
<1>1. round(p, d) \in Decoders /\ round(p, round(p, d)) = round(p, d)
  BY RoundLeaves
<1> QED
  BY <1>1, AtRest, RoundFirst

(* What comes out of a decoder does not depend on how its input was cut     *)
(* (StreamDecoder::push): whatever it holds and whatever follows, decoding  *)
(* in between changes neither the frames nor what is left in the buffer.    *)
THEOREM Cutting ==
    ASSUME NEW p, NEW d \in Decoders, NEW x \in Seq(Nat)
    PROVE  decoded(p, Fed(d, x)) = decoded(p, Fed(decoded(p, d), x))
<1> DEFINE T == {n \in Nat : \A e \in Decoders :
                     Len(e.buffer) <= n => decoded(p, Fed(e, x)) = decoded(p, Fed(decoded(p, e), x))}
<1>1. ASSUME NEW e \in Decoders, Leaves(p, e)
      PROVE  decoded(p, Fed(e, x)) = decoded(p, Fed(decoded(p, e), x))
  <2>1. decoded(p, e) = round(p, e) /\ round(p, e) \in Decoders
    BY <1>1, LastRound, RoundLeaves
  <2>2. round(p, Fed(e, x)) = round(p, Fed(round(p, e), x))
    BY <1>1, RoundLeaves
  <2>3. Fed(e, x) \in Decoders /\ Fed(round(p, e), x) \in Decoders
    BY <2>1, Feeding
  <2>4. decoded(p, Fed(e, x)) = decoded(p, round(p, Fed(e, x)))
    BY <2>3, RoundFirst
  <2>5. decoded(p, Fed(round(p, e), x)) = decoded(p, round(p, Fed(round(p, e), x)))
    BY <2>3, RoundFirst
  <2> QED
    BY <2>1, <2>2, <2>4, <2>5
<1>2. 0 \in T
  <2> SUFFICES ASSUME NEW e \in Decoders, Len(e.buffer) <= 0
               PROVE  decoded(p, Fed(e, x)) = decoded(p, Fed(decoded(p, e), x))
    OBVIOUS
  <2>1. Len(e.buffer) \in Nat
    BY DEF Decoders
  <2>2. SyncAt(e.buffer) = {}
    BY <2>1 DEF SyncAt
  <2> QED
    BY <1>1, <2>2 DEF Leaves
<1>3. ASSUME NEW n \in T PROVE n + 1 \in T
  <2> SUFFICES ASSUME NEW e \in Decoders, Len(e.buffer) <= n + 1
               PROVE  decoded(p, Fed(e, x)) = decoded(p, Fed(decoded(p, e), x))
    BY <1>3
  <2>1. CASE Leaves(p, e)
    BY <1>1, <2>1
  <2>2. CASE ~Leaves(p, e)
    <3> DEFINE f == round(p, e)
    <3>1. /\ f \in Decoders /\ Len(f.buffer) + 1 <= Len(e.buffer)
          /\ round(p, Fed(e, x)) = Fed(f, x)
      BY <2>2, RoundTakes
    <3>2. decoded(p, e) = decoded(p, f)
      BY RoundFirst
    <3>3. Fed(e, x) \in Decoders
      BY Feeding
    <3>4. decoded(p, Fed(e, x)) = decoded(p, Fed(f, x))
      BY <3>1, <3>3, RoundFirst
    <3> HIDE DEF f
    <3>5. Len(f.buffer) <= n
      <4>1. Len(f.buffer) \in Nat /\ Len(e.buffer) \in Nat /\ n \in Nat
        BY <1>3, <3>1 DEF Decoders
      <4> QED
        BY <3>1, <4>1
    <3>6. decoded(p, Fed(f, x)) = decoded(p, Fed(decoded(p, f), x))
      BY <1>3, <3>1, <3>5
    <3> QED
      BY <3>2, <3>4, <3>6
  <2> QED
    BY <2>1, <2>2
<1>4. T \in SUBSET Nat
  OBVIOUS
<1>5. Nat \subseteq T
  <2> HIDE DEF T
  <2> QED
    BY <1>2, <1>3, <1>4, Counting
<1>6. Len(d.buffer) \in Nat /\ Len(d.buffer) <= Len(d.buffer)
  BY DEF Decoders
<1> QED
  BY <1>5, <1>6

(* The check value, byte after byte.                                        *)
LEMMA ValueSteps ==
    ASSUME NEW s \in Seq(Nat)
    PROVE  \E f : /\ check_value(s) = f[Len(s)] /\ f[0] = 1
                  /\ \A n \in 0 .. Len(s) : f[n] \in Nat
                  /\ \A n \in 0 .. Len(s) : n # 0 => f[n] = 10 * f[n - 1] + s[n]
<1> DEFINE N == Len(s)
           Byte(n) == IF n + 1 \in 1..N THEN s[n + 1] ELSE 0
           Step == [n \in Nat |-> [v \in Nat |-> 10 * v + Byte(n)]]
           F == CHOOSE f : f = [n \in 0..N |-> IF n = 0 THEN 1 ELSE 10 * f[n - 1] + s[n]]
<1>0. N \in Nat
  OBVIOUS
<1>1. \A n \in Nat : Byte(n) \in Nat
  OBVIOUS
<1>2. \A n \in 0..N : n # 0 => Byte(n - 1) = s[n] /\ n - 1 \in 0..N /\ n - 1 \in Nat /\ (n - 1) + 1 = n
  OBVIOUS
<1> HIDE DEF Byte
<1>3. Step \in [Nat -> [Nat -> Nat]] /\ \A n, v \in Nat : Step[n][v] = 10 * v + Byte(n)
  <2>1. ASSUME NEW n \in Nat, NEW v \in Nat PROVE 10 * v + Byte(n) \in Nat
    <3> DEFINE b == Byte(n)
    <3>1. b \in Nat
      BY <1>1
    <3> HIDE DEF b
    <3>2. 10 * v + b \in Nat
      BY <3>1
    <3> QED
      BY <3>2 DEF b
  <2> QED
    BY <2>1
<1> HIDE DEF Step, N
<1>4. PICK r : Iterates(Nat, 1, Step, r)
  BY <1>3, Recursion
<1>5. /\ r \in [Nat -> Nat] /\ r[0] = 1
      /\ \A n \in 0..N : n # 0 => r[n] = 10 * r[n - 1] + s[n]
  <2>1. r \in [Nat -> Nat] /\ r[0] = 1 /\ \A n \in Nat : r[n + 1] = Step[n][r[n]]
    BY <1>4 DEF Iterates
  <2> SUFFICES ASSUME NEW n \in 0..N, n # 0 PROVE r[n] = 10 * r[n - 1] + s[n]
    BY <2>1
  <2>2. n - 1 \in Nat /\ (n - 1) + 1 = n /\ Byte(n - 1) = s[n]
    BY <1>2
  <2>3. r[(n - 1) + 1] = Step[n - 1][r[n - 1]] /\ r[n - 1] \in Nat
    BY <2>1, <2>2
  <2>4. Step[n - 1][r[n - 1]] = 10 * r[n - 1] + Byte(n - 1)
    BY <1>3, <2>2, <2>3
  <2> QED
    BY <2>2, <2>3, <2>4
<1> DEFINE g == [n \in 0..N |-> r[n]]
<1>6. g = [n \in 0..N |-> IF n = 0 THEN 1 ELSE 10 * g[n - 1] + s[n]]
  <2> SUFFICES ASSUME NEW n \in 0..N
               PROVE  r[n] = IF n = 0 THEN 1 ELSE 10 * g[n - 1] + s[n]
    OBVIOUS
  <2>1. n # 0 => g[n - 1] = r[n - 1]
    BY <1>2
  <2> QED
    BY <1>5, <2>1
<1> HIDE DEF g
<1>7. F = [n \in 0..N |-> IF n = 0 THEN 1 ELSE 10 * F[n - 1] + s[n]]
  BY <1>6
<1>8. check_value(s) = F[N]
  BY DEF check_value, N
<1> HIDE DEF F
<1>9. F[0] = 1 /\ \A n \in 0..N : n # 0 => F[n] = 10 * F[n - 1] + s[n]
  BY <1>0, <1>7
<1>10. \A n \in 0..N : F[n] \in Nat
  <2> DEFINE T == {n \in Nat : n <= N => F[n] \in Nat}
  <2>1. 0 \in T
    BY <1>9
  <2>2. ASSUME NEW n \in T PROVE n + 1 \in T
    <3> SUFFICES ASSUME n + 1 <= N PROVE F[n + 1] \in Nat
      OBVIOUS
    <3>1. n \in Nat /\ n + 1 \in 0..N /\ n + 1 # 0 /\ (n + 1) - 1 = n /\ F[n] \in Nat
      BY <1>0
    <3>2. F[n + 1] = 10 * F[n] + s[n + 1]
      BY <1>9, <3>1
    <3>3. s[n + 1] \in Nat
      BY <3>1 DEF N
    <3> HIDE DEF T
    <3> QED
      BY <3>1, <3>2, <3>3
  <2>3. T \in SUBSET Nat
    OBVIOUS
  <2> HIDE DEF T
  <2>4. Nat \subseteq T
    BY <2>1, <2>2, <2>3, Counting
  <2> QED
    BY <1>0, <2>4 DEF T
<1> QED
  BY <1>8, <1>9, <1>10 DEF N

(* The check value of three and of four numbers, and of more.               *)
LEMMA CheckValues ==
    ASSUME NEW s \in Seq(Nat)
    PROVE  /\ check_value(s) \in Nat
           /\ Len(s) = 3 => check_value(s) = 1000 + 100 * s[1] + 10 * s[2] + s[3]
           /\ Len(s) = 4 => check_value(s) = 10000 + 1000 * s[1] + 100 * s[2] + 10 * s[3] + s[4]
           /\ Len(s) >= 5 => check_value(s) >= 100000
<1>1. PICK f : /\ check_value(s) = f[Len(s)] /\ f[0] = 1
               /\ \A n \in 0 .. Len(s) : f[n] \in Nat
               /\ \A n \in 0 .. Len(s) : n # 0 => f[n] = 10 * f[n - 1] + s[n]
  BY ValueSteps
<1>2. Len(s) \in Nat /\ \A n \in 1..Len(s) : s[n] \in Nat
  OBVIOUS
<1>3. Len(s) >= 3 => /\ f[1] = 10 + s[1] /\ f[2] = 100 + 10 * s[1] + s[2]
                     /\ f[3] = 1000 + 100 * s[1] + 10 * s[2] + s[3]
                     /\ s[1] \in Nat /\ s[2] \in Nat /\ s[3] \in Nat
  <2> SUFFICES ASSUME Len(s) >= 3
               PROVE  /\ f[1] = 10 + s[1] /\ f[2] = 100 + 10 * s[1] + s[2]
                      /\ f[3] = 1000 + 100 * s[1] + 10 * s[2] + s[3]
                      /\ s[1] \in Nat /\ s[2] \in Nat /\ s[3] \in Nat
    OBVIOUS
  <2>1. 1 \in 0..Len(s) /\ 2 \in 0..Len(s) /\ 3 \in 0..Len(s)
    BY <1>2
  <2>2. s[1] \in Nat /\ s[2] \in Nat /\ s[3] \in Nat
    BY <1>2
  <2>3. f[1] = 10 * f[0] + s[1] /\ f[2] = 10 * f[1] + s[2] /\ f[3] = 10 * f[2] + s[3] /\ f[0] = 1
    <3>1. f[1] = 10 * f[1 - 1] + s[1]
      BY <1>1, <2>1
    <3>2. f[2] = 10 * f[2 - 1] + s[2]
      BY <1>1, <2>1
    <3>3. f[3] = 10 * f[3 - 1] + s[3]
      BY <1>1, <2>1
    <3>4. 1 - 1 = 0 /\ 2 - 1 = 1 /\ 3 - 1 = 2
      OBVIOUS
    <3> QED
      BY <1>1, <3>1, <3>2, <3>3, <3>4
  <2> DEFINE a == s[1]
             b == s[2]
             c == s[3]
             one == f[1]
             two == f[2]
             three == f[3]
  <2>4. /\ one = 10 + a /\ two = 10 * one + b /\ three = 10 * two + c
        /\ a \in Nat /\ b \in Nat /\ c \in Nat
    BY <2>2, <2>3
  <2> HIDE DEF a, b, c, one, two, three
  <2>5. one = 10 + a /\ two = 100 + 10 * a + b /\ three = 1000 + 100 * a + 10 * b + c
    BY <2>4
  <2> QED
    BY <2>2, <2>5 DEF a, b, c, one, two, three
<1>4. Len(s) >= 4 => /\ f[4] = 10000 + 1000 * s[1] + 100 * s[2] + 10 * s[3] + s[4]
                     /\ s[4] \in Nat
  <2> SUFFICES ASSUME Len(s) >= 4
               PROVE  /\ f[4] = 10000 + 1000 * s[1] + 100 * s[2] + 10 * s[3] + s[4]
                      /\ s[4] \in Nat
    OBVIOUS
  <2>1. 4 \in 0..Len(s) /\ s[4] \in Nat /\ Len(s) >= 3
    BY <1>2
  <2>2. f[4] = 10 * f[3] + s[4]
    BY <1>1, <2>1
  <2> DEFINE a == s[1]
             b == s[2]
             c == s[3]
             d == s[4]
             three == f[3]
             four == f[4]
  <2>3. /\ three = 1000 + 100 * a + 10 * b + c /\ four = 10 * three + d
        /\ a \in Nat /\ b \in Nat /\ c \in Nat /\ d \in Nat
    BY <1>3, <2>1, <2>2
  <2> HIDE DEF a, b, c, d, three, four
  <2>4. four = 10000 + 1000 * a + 100 * b + 10 * c + d
    BY <2>3
  <2> QED
    BY <2>1, <2>4 DEF a, b, c, d, three, four
<1>5. Len(s) >= 5 => f[Len(s)] >= 100000
  <2> SUFFICES ASSUME Len(s) >= 5 PROVE f[Len(s)] >= 100000
    OBVIOUS
  <2>0. f[4] >= 10000 /\ f[4] \in Nat
    <3>1. Len(s) >= 3 /\ Len(s) >= 4 /\ 4 \in 0..Len(s)
      BY <1>2
    <3>2. /\ f[4] = 10000 + 1000 * s[1] + 100 * s[2] + 10 * s[3] + s[4]
          /\ s[1] \in Nat /\ s[2] \in Nat /\ s[3] \in Nat /\ s[4] \in Nat
      BY <1>3, <1>4, <3>1
    <3> DEFINE a == s[1]
               b == s[2]
               c == s[3]
               d == s[4]
               four == f[4]
    <3>3. /\ four = 10000 + 1000 * a + 100 * b + 10 * c + d
          /\ a \in Nat /\ b \in Nat /\ c \in Nat /\ d \in Nat
      BY <3>2
    <3> HIDE DEF a, b, c, d, four
    <3>4. four \in Nat /\ four >= 10000
      BY <3>3
    <3> QED
      BY <3>4 DEF four
  <2> DEFINE T == {n \in Nat : n + 5 <= Len(s) => f[n + 5] >= 100000}
  <2>1. 0 \in T
    <3>1. 5 \in 0..Len(s) /\ s[5] \in Nat
      BY <1>2
    <3>2. f[5] = 10 * f[4] + s[5]
      BY <1>1, <3>1
    <3>3. f[0 + 5] >= 100000
      BY <2>0, <3>1, <3>2
    <3> QED
      BY <3>3
  <2>2. ASSUME NEW n \in T PROVE n + 1 \in T
    <3> SUFFICES ASSUME n + 1 + 5 <= Len(s) PROVE f[n + 1 + 5] >= 100000
      OBVIOUS
    <3>0. n \in Nat /\ n + 5 <= Len(s)
      BY <1>2
    <3>1. n \in Nat /\ n + 5 <= Len(s) /\ f[n + 5] >= 100000
      BY <2>2, <3>0
    <3>2. /\ n + 6 \in 0..Len(s) /\ n + 6 # 0 /\ (n + 6) - 1 = n + 5 /\ n + 5 \in 0..Len(s)
          /\ s[n + 6] \in Nat /\ n + 1 + 5 = n + 6
      BY <1>2, <3>1
    <3>3. f[n + 6] = 10 * f[n + 5] + s[n + 6] /\ f[n + 5] \in Nat
      BY <1>1, <3>2
    <3> HIDE DEF T
    <3> DEFINE u == f[n + 5]
               v == f[n + 6]
               z == s[n + 6]
    <3>4. v = 10 * u + z /\ u \in Nat /\ u >= 100000 /\ z \in Nat
      BY <3>1, <3>2, <3>3
    <3> HIDE DEF u, v, z
    <3>5. v >= 100000
      BY <3>4
    <3> QED
      BY <3>2, <3>5 DEF v
  <2>3. T \in SUBSET Nat
    OBVIOUS
  <2> HIDE DEF T
  <2>4. Nat \subseteq T
    BY <2>1, <2>2, <2>3, Counting
  <2>5. Len(s) - 5 \in Nat /\ (Len(s) - 5) + 5 = Len(s)
    BY <1>2
  <2>6. Len(s) - 5 \in T
    BY <2>4, <2>5
  <2>7. (Len(s) - 5) + 5 <= Len(s) => f[(Len(s) - 5) + 5] >= 100000
    BY <2>6 DEF T
  <2> QED
    BY <1>2, <2>5, <2>7
<1>6. check_value(s) \in Nat
  <2>1. Len(s) \in 0..Len(s)
    BY <1>2
  <2> QED
    BY <1>1, <2>1
<1>7. Len(s) = 3 => check_value(s) = 1000 + 100 * s[1] + 10 * s[2] + s[3]
  BY <1>1, <1>3
<1>8. Len(s) = 4 => check_value(s) = 10000 + 1000 * s[1] + 100 * s[2] + 10 * s[3] + s[4]
  BY <1>1, <1>4
<1> QED
  BY <1>1, <1>5, <1>6, <1>7, <1>8

(* What is sent, and a body that is taken out of such bytes.                *)
WireBytes == 0..9 \cup {1027, 10312, 10371}
Plain(b) == \A i \in 1..Len(b) : b[i] \in WireBytes
Clean(p, d) ==
    /\ d \in Decoders /\ Plain(d.buffer) /\ d.frames \in Seq(Bodies)
    /\ p # "uart" => d.checks = 0

(* The end of what was sent was sent.                                       *)
LEMMA PlainFrom ==
    ASSUME NEW b \in Seq(Nat), Plain(b), NEW k \in 1..Len(b) + 1
    PROVE  Plain(From(b, k))
<1>1. /\ Len(From(b, k)) = Len(b) - k + 1 /\ Len(b) \in Nat
      /\ \A i \in 1..Len(b) - k + 1 : From(b, k)[i] = b[i + k - 1]
  BY FromFacts
<1>2. \A i \in 1..Len(b) - k + 1 : i + k - 1 \in 1..Len(b)
  BY <1>1
<1> QED
  BY <1>1, <1>2 DEF Plain

(* The numbers that are sent are below ten, or one of three check values.   *)
LEMMA WireByteIs ==
    ASSUME NEW v \in WireBytes
    PROVE  v \in Nat /\ (v <= 9 \/ v = 1027 \/ v = 10312 \/ v = 10371)
  BY DEF WireBytes

(* A sequence of one or two, element by element.                            *)
LEMMA ShortSequences ==
    ASSUME NEW s \in Seq(Nat)
    PROVE  /\ Len(s) = 1 => s = <<s[1]>>
           /\ Len(s) = 2 => s = <<s[1], s[2]>>
  OBVIOUS

(* A candidate that passes the check is one of the frames that are sent: what is*)
(* cut out of pieces never looks like one (passes).                         *)
LEMMA AcceptedBody ==
    ASSUME NEW p, NEW c \in Seq(Nat), Plain(c), ~incomplete(p, c), allowed(p, c), passes(c)
    PROVE  SubSeq(c, 5, announced_size(c) - 1) \in Bodies
<1> DEFINE total == announced_size(c)
           s == SubSeq(c, 3, total - 1)
<1>1. Len(c) \in Nat /\ total \in 6..Len(c)
  BY Announcing
<1>2. total = 10 * c[3] + c[4] + 4 /\ c[3] \in Nat /\ c[4] \in Nat
  <2>1. total = 10 * c[3] + c[4] + 4
    BY DEF announced_size, HeaderSize
  <2> HIDE DEF total
  <2>2. 3 \in 1..Len(c) /\ 4 \in 1..Len(c)
    BY <1>1
  <2>3. c[3] \in Nat /\ c[4] \in Nat
    BY <2>2
  <2> QED
    BY <2>1, <2>3
<1>3. c[total] = check_value(s) /\ c[total] \in WireBytes
  BY <1>1 DEF passes, Plain
<1> HIDE DEF total
<1>4. s \in Seq(Nat) /\ Len(s) = total - 3
  BY <1>1
<1>5. s[1] = c[3] /\ s[2] = c[4] /\ s[3] = c[5] /\ (total >= 7 => s[4] = c[6])
  BY <1>1
<1>6. c[5] \in WireBytes /\ (total >= 7 => c[6] \in WireBytes)
  BY <1>1 DEF Plain
<1> HIDE DEF s
<1> DEFINE check == check_value(s)
<1>7. total <= 7
  <2> SUFFICES ASSUME total > 7 PROVE FALSE
    BY <1>1
  <2>1. Len(s) >= 5
    BY <1>1, <1>4
  <2>2. check >= 100000 /\ check \in WireBytes
    BY <1>3, <1>4, <2>1, CheckValues
  <2> HIDE DEF check
  <2> QED
    BY <2>2, WireByteIs
<1> DEFINE b5 == c[5]
           b6 == c[6]
           body == SubSeq(c, 5, total - 1)
<1>8. CASE total = 6
  <2>1. c[3] = 0 /\ c[4] = 2
    <3> DEFINE h == c[3]
               l == c[4]
    <3>1. 6 = 10 * h + l + 4 /\ h \in Nat /\ l \in Nat
      BY <1>2, <1>8
    <3> HIDE DEF h, l
    <3>2. h = 0 /\ l = 2
      BY <3>1
    <3> QED
      BY <3>2 DEF h, l
  <2>2. check = 1000 + 100 * s[1] + 10 * s[2] + s[3]
    BY <1>4, <1>8, CheckValues
  <2>3. s[1] = 0 /\ s[2] = 2 /\ s[3] = b5 /\ b5 \in WireBytes /\ check \in WireBytes
    BY <1>3, <1>5, <1>6, <2>1
  <2>4. body = <<b5>>
    <3>1. body \in Seq(Nat) /\ Len(body) = 1 /\ body[1] = b5
      BY <1>1, <1>8
    <3> HIDE DEF body, b5
    <3> QED
      BY <3>1, ShortSequences
  <2> HIDE DEF b5, check
  <2>5. b5 \in Nat /\ check = 1020 + b5
    BY <2>2, <2>3, WireByteIs
  <2>6. b5 = 7
    BY <2>3, <2>5, WireByteIs
  <2> HIDE DEF body
  <2>7. body \in Bodies
    BY <2>4, <2>6 DEF Bodies
  <2> QED
    BY <2>7 DEF body, total
<1>9. CASE total = 7
  <2>1. c[3] = 0 /\ c[4] = 3
    <3> DEFINE h == c[3]
               l == c[4]
    <3>1. 7 = 10 * h + l + 4 /\ h \in Nat /\ l \in Nat
      BY <1>2, <1>9
    <3> HIDE DEF h, l
    <3>2. h = 0 /\ l = 3
      BY <3>1
    <3> QED
      BY <3>2 DEF h, l
  <2>2. check = 10000 + 1000 * s[1] + 100 * s[2] + 10 * s[3] + s[4]
    BY <1>4, <1>9, CheckValues
  <2>3. /\ s[1] = 0 /\ s[2] = 3 /\ s[3] = b5 /\ s[4] = b6
        /\ b5 \in WireBytes /\ b6 \in WireBytes /\ check \in WireBytes
    BY <1>3, <1>5, <1>6, <1>9, <2>1
  <2>4. body = <<b5, b6>>
    <3>1. body \in Seq(Nat) /\ Len(body) = 2 /\ body[1] = b5 /\ body[2] = b6
      BY <1>1, <1>9
    <3> HIDE DEF body, b5, b6
    <3> QED
      BY <3>1, ShortSequences
  <2> HIDE DEF b5, b6, check
  <2>5. b5 \in Nat /\ b6 \in Nat /\ check = 10300 + 10 * b5 + b6
    BY <2>2, <2>3, WireByteIs
  <2>6. (b5 = 1 /\ b6 = 2) \/ (b5 = 7 /\ b6 = 1)
    BY <2>3, <2>5, WireByteIs
  <2> HIDE DEF body
  <2>7. body \in Bodies
    BY <2>4, <2>6 DEF Bodies
  <2> QED
    BY <2>7 DEF body, total
<1> QED
  BY <1>1, <1>7, <1>8, <1>9

(* One round takes no frame out that was not sent.                          *)
LEMMA CleanRound ==
    ASSUME NEW p, NEW d, Clean(p, d)
    PROVE  Clean(p, round(p, d))
<1>0. /\ d \in Decoders /\ d.buffer \in Seq(Nat) /\ Plain(d.buffer) /\ d.frames \in Seq(Bodies)
      /\ Len(d.buffer) \in Nat /\ (p # "uart" => d.checks = 0)
  BY DEF Clean, Decoders
<1>1. round(p, d) \in Decoders
  BY <1>0, RoundTakes, RoundLeaves
<1> DEFINE c == Candidate(d)
<1>2. CASE SyncAt(d.buffer) = {}
  <2>1. /\ round(p, d).buffer = without_sync(d.buffer) /\ round(p, d).frames = d.frames
        /\ round(p, d).checks = d.checks
    BY <1>0, <1>2, RoundCases
  <2>2. Plain(without_sync(d.buffer))
    <3>1. without_sync(d.buffer) = <<>> \/ without_sync(d.buffer) = <<1>>
      BY DEF without_sync
    <3> QED
      BY <3>1 DEF Plain, WireBytes
  <2> QED
    BY <1>0, <1>1, <2>1, <2>2 DEF Clean
<1>3. CASE SyncAt(d.buffer) # {}
  <2>1. /\ c \in Seq(Nat) /\ Len(c) \in Nat /\ Plain(c)
    <3>1. Min(SyncAt(d.buffer)) \in 1..Len(d.buffer) + 1
      BY <1>0, <1>3, FirstSync
    <3> QED
      BY <1>0, <3>1, FromFacts, PlainFrom DEF Candidate
  <2>0. c = Candidate(d)
    OBVIOUS
  <2> HIDE DEF c
  <2>2. CASE incomplete(p, c)
    <3>0. round(p, d) = [buffer |-> c, frames |-> d.frames, checks |-> d.checks]
      BY <1>0, <1>3, <2>0, <2>2, RoundCases
    <3>1. round(p, d).buffer = c /\ round(p, d).frames = d.frames /\ round(p, d).checks = d.checks
      BY <3>0
    <3> QED
      BY <1>0, <1>1, <2>1, <3>1 DEF Clean
  <2>3. CASE ~incomplete(p, c) /\ allowed(p, c) /\ passes(c)
    <3> DEFINE rest == From(c, announced_size(c) + 1)
               more == Append(d.frames, SubSeq(c, 5, announced_size(c) - 1))
    <3>0. round(p, d) = [buffer |-> rest, frames |-> more, checks |-> 0]
      BY <1>0, <1>3, <2>0, <2>3, RoundCases
    <3>1. round(p, d).buffer = rest /\ round(p, d).frames = more /\ round(p, d).checks = 0
      <4> HIDE DEF rest, more
      <4> QED
        BY <3>0
    <3>2. announced_size(c) + 1 \in 1..Len(c) + 1
      BY <2>1, <2>3, Announcing
    <3>3. Plain(From(c, announced_size(c) + 1))
      BY <2>1, <3>2, PlainFrom
    <3>4. SubSeq(c, 5, announced_size(c) - 1) \in Bodies
      BY <2>1, <2>3, AcceptedBody
    <3> QED
      BY <1>0, <1>1, <3>1, <3>3, <3>4 DEF Clean
  <2>4. CASE ~incomplete(p, c) /\ ~(allowed(p, c) /\ passes(c))
    <3> DEFINE size == IF allowed(p, c) THEN announced_size(c) ELSE 4
    <3>1. round(p, d) = rejected(p, d, c, size)
      BY <1>0, <1>3, <2>0, <2>4, RoundCases
    <3>2. size \in 4..Len(c)
      BY <2>1, <2>4, Announcing
    <3> HIDE DEF size
    <3>3. /\ round(p, d).buffer = From(c, Cost(p, d, size) + 1) /\ round(p, d).frames = d.frames
          /\ round(p, d).checks = ChecksAfter(p, d) /\ Cost(p, d, size) \in 1..Len(c)
      <4>1. /\ Cost(p, d, size) \in 1..Len(c)
            /\ rejected(p, d, c, size) = [buffer |-> From(c, Cost(p, d, size) + 1),
                                         frames |-> d.frames, checks |-> ChecksAfter(p, d)]
        BY <1>0, <2>1, <3>2, Rejecting
      <4> QED
        BY <3>1, <4>1
    <3>4. Cost(p, d, size) + 1 \in 1..Len(c) + 1
      BY <2>1, <3>3
    <3>5. Plain(From(c, Cost(p, d, size) + 1))
      BY <2>1, <3>4, PlainFrom
    <3> QED
      BY <1>0, <1>1, <3>3, <3>5 DEF Clean, ChecksAfter
  <2> QED
    BY <2>2, <2>3, <2>4
<1> QED
  BY <1>2, <1>3

(* Only frames that were sent come out of decoded.                          *)
LEMMA CleanDecoded ==
    ASSUME NEW p, NEW d, Clean(p, d)
    PROVE  Clean(p, decoded(p, d))
<1>0. d \in Decoders /\ Len(d.buffer) \in Nat
  BY DEF Clean, Decoders
<1> DEFINE T == {n \in Nat : Clean(p, Rounds(p, d)[n])}
<1>1. 0 \in T
  BY <1>0, RoundByRound
<1>2. ASSUME NEW n \in T PROVE n + 1 \in T
  <2>1. n \in Nat /\ Clean(p, Rounds(p, d)[n]) /\ Rounds(p, d)[n + 1] = round(p, Rounds(p, d)[n])
    BY <1>0, <1>2, RoundByRound
  <2> QED
    BY <2>1, CleanRound
<1>3. T \in SUBSET Nat
  OBVIOUS
<1>4. Nat \subseteq T
  <2> HIDE DEF T
  <2> QED
    BY <1>1, <1>2, <1>3, Counting
<1> QED
  BY <1>0, <1>4, RoundByRound

(* A frame as it is sent, and what a decoder at rest makes of it.           *)
Longer(c, a, b, s) ==
    /\ c \in Seq(Nat) /\ c = <<a, b>> \o s /\ Len(c) = Len(s) + 2
    /\ c[1] = a /\ c[2] = b /\ \A i \in 1..Len(s) : c[i + 2] = s[i]

(* Two bytes can be put in front of others.                                 *)
LEMMA Prefixed ==
    ASSUME NEW a \in Nat, NEW b \in Nat, NEW s \in Seq(Nat)
    PROVE  \E c : Longer(c, a, b, s)
<1> DEFINE p == <<a, b>>
           c == p \o s
<1>1. p \in Seq(Nat) /\ Len(p) = 2 /\ p[1] = a /\ p[2] = b
  OBVIOUS
<1> HIDE DEF p
<1>2. /\ c \in Seq(Nat) /\ Len(c) = Len(p) + Len(s) /\ Len(s) \in Nat
      /\ \A i \in 1..Len(p) + Len(s) : c[i] = IF i <= Len(p) THEN p[i] ELSE s[i - Len(p)]
  BY <1>1, JoinedBytes
<1>3. c = <<a, b>> \o s
  BY DEF p
<1> HIDE DEF c
<1>4. Len(c) = Len(s) + 2 /\ c[1] = a /\ c[2] = b
  BY <1>1, <1>2
<1>5. \A i \in 1..Len(s) : c[i + 2] = s[i]
  <2> SUFFICES ASSUME NEW i \in 1..Len(s) PROVE c[i + 2] = s[i]
    OBVIOUS
  <2>1. i + 2 \in 1..Len(p) + Len(s) /\ ~(i + 2 <= Len(p)) /\ (i + 2) - Len(p) = i
    BY <1>1, <1>2
  <2> QED
    BY <1>2, <2>1
<1> QED
  BY <1>2, <1>3, <1>4, <1>5 DEF Longer

(* The same for one byte at the end.                                        *)
Ended(c, s, v) ==
    /\ c \in Seq(Nat) /\ c = s \o <<v>> /\ Len(c) = Len(s) + 1
    /\ c[Len(s) + 1] = v /\ \A i \in 1..Len(s) : c[i] = s[i]

(* A byte can be put after others.                                          *)
LEMMA Suffixed ==
    ASSUME NEW s \in Seq(Nat), NEW v \in Nat
    PROVE  \E c : Ended(c, s, v)
<1> DEFINE p == <<v>>
           c == s \o p
<1>1. p \in Seq(Nat) /\ Len(p) = 1 /\ p[1] = v
  OBVIOUS
<1> HIDE DEF p
<1>2. /\ c \in Seq(Nat) /\ Len(c) = Len(s) + Len(p) /\ Len(s) \in Nat
      /\ \A i \in 1..Len(s) + Len(p) : c[i] = IF i <= Len(s) THEN s[i] ELSE p[i - Len(s)]
  BY <1>1, JoinedBytes
<1>3. c = s \o <<v>>
  BY DEF p
<1> HIDE DEF c
<1>4. Len(c) = Len(s) + 1 /\ \A i \in 1..Len(s) : c[i] = s[i]
  BY <1>1, <1>2
<1>5. c[Len(s) + 1] = v
  <2>1. Len(s) + 1 \in 1..Len(s) + Len(p) /\ ~(Len(s) + 1 <= Len(s)) /\ (Len(s) + 1) - Len(s) = 1
    BY <1>1, <1>2
  <2> QED
    BY <1>1, <1>2, <2>1
<1> QED
  BY <1>2, <1>3, <1>4, <1>5 DEF Ended

(* encode_frame, byte by byte.                                              *)
FrameOf(e, v, body) ==
    /\ v \in Nat /\ e \in Seq(Nat) /\ e = encode_frame(body) /\ Len(e) = Len(body) + 5
    /\ e[1] = 1 /\ e[2] = 2 /\ e[3] = 0 /\ e[4] = Len(body) + 1
    /\ \A i \in 1..Len(body) : e[i + 4] = body[i]
    /\ e[Len(body) + 5] = v
    /\ Len(body) = 1 => v = 1020 + body[1]
    /\ Len(body) = 2 => v = 10300 + 10 * body[1] + body[2]

(* What encode_frame returns has that shape.                                *)
LEMMA FrameIs ==
    ASSUME NEW body \in Seq(Nat)
    PROVE  \E v, e : FrameOf(e, v, body)
<1>1. Len(body) \in Nat /\ Len(body) + 1 \in Nat
  OBVIOUS
<1> DEFINE n == Len(body)
<1> HIDE DEF n
<1>2. PICK c : Longer(c, 0, n + 1, body)
  <2>1. 0 \in Nat /\ n + 1 \in Nat
    BY <1>1 DEF n
  <2> QED
    BY <2>1, Prefixed
<1>3. /\ Len(c) = n + 2 /\ n \in Nat /\ c[1] = 0 /\ c[2] = n + 1
      /\ \A i \in 1..n : c[i + 2] = body[i]
      /\ c \in Seq(Nat)
  BY <1>1, <1>2 DEF n, Longer
<1> DEFINE v == check_value(c)
<1>4. /\ v \in Nat
      /\ Len(c) = 3 => v = 1000 + 100 * c[1] + 10 * c[2] + c[3]
      /\ Len(c) = 4 => v = 10000 + 1000 * c[1] + 100 * c[2] + 10 * c[3] + c[4]
  <2>1. c \in Seq(Nat)
    BY <1>3
  <2>2. v = check_value(c)
    OBVIOUS
  <2> HIDE DEF v
  <2> QED
    BY <2>1, <2>2, CheckValues
<1>7. encode_frame(body) = (<<1, 2>> \o c) \o <<v>>
  BY <1>2 DEF encode_frame, n, Longer
<1> HIDE DEF v
<1>5. Len(body) = 1 => v = 1020 + body[1]
  <2> SUFFICES ASSUME n = 1 PROVE v = 1020 + body[1]
    BY DEF n
  <2> DEFINE x == body[1]
  <2>1. Len(c) = 3 /\ c[1] = 0 /\ c[2] = 2 /\ c[3] = x
    <3>1. 1 \in 1..n
      OBVIOUS
    <3> QED
      BY <1>3, <3>1
  <2>2. x \in Nat
    <3>1. 1 \in 1..Len(body)
      BY DEF n
    <3> QED
      BY <3>1
  <2>3. v = 1000 + 100 * c[1] + 10 * c[2] + c[3]
    BY <1>4, <2>1
  <2> HIDE DEF x
  <2>4. v = 1020 + x
    BY <2>1, <2>2, <2>3
  <2> QED
    BY <2>4 DEF x
<1>6. Len(body) = 2 => v = 10300 + 10 * body[1] + body[2]
  <2> SUFFICES ASSUME n = 2 PROVE v = 10300 + 10 * body[1] + body[2]
    BY DEF n
  <2> DEFINE x == body[1]
             y == body[2]
  <2>1. Len(c) = 4 /\ c[1] = 0 /\ c[2] = 3 /\ c[3] = x /\ c[4] = y
    <3>1. 1 \in 1..n /\ 2 \in 1..n
      OBVIOUS
    <3> QED
      BY <1>3, <3>1
  <2>2. x \in Nat /\ y \in Nat
    <3>1. 1 \in 1..Len(body) /\ 2 \in 1..Len(body)
      BY DEF n
    <3> QED
      BY <3>1
  <2>3. v = 10000 + 1000 * c[1] + 100 * c[2] + 10 * c[3] + c[4]
    BY <1>4, <2>1
  <2> HIDE DEF x, y
  <2>4. v = 10300 + 10 * x + y
    BY <2>1, <2>2, <2>3
  <2> QED
    BY <2>4 DEF x, y
<1>8. PICK m : Longer(m, 1, 2, c)
  <2>1. 1 \in Nat /\ 2 \in Nat
    OBVIOUS
  <2> QED
    BY <1>3, <2>1, Prefixed
<1>9. PICK e : Ended(e, m, v)
  <2>1. m \in Seq(Nat)
    BY <1>8 DEF Longer
  <2> QED
    BY <1>4, <2>1, Suffixed
<1>10. e = encode_frame(body) /\ e \in Seq(Nat)
  BY <1>7, <1>8, <1>9, Zenon DEF Longer, Ended
<1>11. /\ Len(m) = n + 4 /\ m[1] = 1 /\ m[2] = 2 /\ \A i \in 1..n + 2 : m[i + 2] = c[i]
       /\ Len(e) = n + 5 /\ e[n + 5] = v /\ \A i \in 1..n + 4 : e[i] = m[i]
  <2>1. Len(m) = n + 4 /\ Len(e) = n + 5 /\ Len(m) + 1 = n + 5
    BY <1>3, <1>8, <1>9 DEF Longer, Ended
  <2> QED
    BY <1>3, <1>8, <1>9, <2>1 DEF Longer, Ended
<1>12. \A i \in 1..n + 2 : e[i + 2] = c[i]
  <2>1. \A i \in 1..n + 2 : i + 2 \in 1..n + 4
    BY <1>3
  <2> QED
    BY <1>11, <2>1
<1>13. e[1] = 1 /\ e[2] = 2 /\ e[3] = 0 /\ e[4] = n + 1
  <2>1. 1 \in 1..n + 4 /\ 2 \in 1..n + 4 /\ 1 \in 1..n + 2 /\ 2 \in 1..n + 2 /\ 1 + 2 = 3 /\ 2 + 2 = 4
    BY <1>3
  <2> QED
    BY <1>3, <1>11, <1>12, <2>1
<1>14. \A i \in 1..n : e[i + 4] = body[i]
  <2> SUFFICES ASSUME NEW i \in 1..n PROVE e[i + 4] = body[i]
    OBVIOUS
  <2>1. i + 2 \in 1..n + 2 /\ (i + 2) + 2 = i + 4
    BY <1>3
  <2>2. e[(i + 2) + 2] = c[i + 2]
    BY <1>12, <2>1
  <2> QED
    BY <1>3, <2>1, <2>2
<1> QED
  <2> HIDE DEF n
  <2>1. n = Len(body)
    BY DEF n
  <2>2. e[Len(body) + 5] = v /\ Len(e) = Len(body) + 5 /\ e[4] = Len(body) + 1
    BY <1>11, <1>13, <2>1
  <2>3. \A i \in 1..Len(body) : e[i + 4] = body[i]
    BY <1>14, <2>1
  <2>4. FrameOf(e, v, body)
    BY <1>4, <1>5, <1>6, <1>10, <1>13, <2>2, <2>3 DEF FrameOf
  <2> QED
    BY <2>4

(* The bodies that are sent, element by element.                            *)
LEMMA BodyShapes ==
    ASSUME NEW body \in Bodies
    PROVE  /\ body \in Seq(Nat) /\ Len(body) \in 1..2
           /\ Len(body) = 1 => body[1] = 7
           /\ Len(body) = 2 => (body[1] = 1 /\ body[2] = 2) \/ (body[1] = 7 /\ body[2] = 1)
<1>1. CASE body = <<7>>
  BY <1>1
<1>2. CASE body = <<1, 2>>
  BY <1>2
<1>3. CASE body = <<7, 1>>
  BY <1>3
<1> QED
  BY <1>1, <1>2, <1>3 DEF Bodies

(* A piece of a sequence, element by element.                               *)
LEMMA CutOut ==
    ASSUME NEW s \in Seq(Nat), NEW a \in Nat \ {0}, NEW b \in Nat, a <= b, b <= Len(s)
    PROVE  /\ SubSeq(s, a, b) \in Seq(Nat) /\ Len(SubSeq(s, a, b)) = b - a + 1
           /\ \A i \in 1..b - a + 1 : SubSeq(s, a, b)[i] = s[i + a - 1]
  OBVIOUS

(* A frame, as far as the decoder looks at it.                              *)
Framed(e, body) ==
    /\ e \in Seq(Nat) /\ Len(e) \in 6..7 /\ Plain(e) /\ e[1] = 1 /\ e[2] = 2
    /\ announced_size(e) = Len(e) /\ passes(e) /\ SubSeq(e, 5, Len(e) - 1) = body

(* Every frame that is sent passes the decoder's checks.                    *)
LEMMA FrameShape ==
    ASSUME NEW body \in Bodies
    PROVE  Framed(encode_frame(body), body)
<1>1. /\ body \in Seq(Nat) /\ Len(body) \in 1..2
      /\ Len(body) = 1 => body[1] = 7
      /\ Len(body) = 2 => (body[1] = 1 /\ body[2] = 2) \/ (body[1] = 7 /\ body[2] = 1)
  BY BodyShapes
<1>2. PICK v, e : FrameOf(e, v, body)
  BY <1>1, FrameIs
<1>2a. /\ v \in Nat /\ e \in Seq(Nat) /\ e = encode_frame(body) /\ Len(e) = Len(body) + 5
       /\ e[1] = 1 /\ e[2] = 2 /\ e[3] = 0 /\ e[4] = Len(body) + 1
       /\ \A i \in 1..Len(body) : e[i + 4] = body[i]
       /\ e[Len(body) + 5] = v
       /\ Len(body) = 1 => v = 1020 + body[1]
       /\ Len(body) = 2 => v = 10300 + 10 * body[1] + body[2]
  BY <1>2 DEF FrameOf
<1> DEFINE n == Len(body)
           x == body[1]
           y == body[2]
           s == SubSeq(e, 3, n + 4)
           t == SubSeq(e, 5, n + 4)
<1>3. /\ n \in 1..2 /\ e \in Seq(Nat) /\ Len(e) = n + 5 /\ v \in Nat
      /\ e[1] = 1 /\ e[2] = 2 /\ e[3] = 0 /\ e[4] = n + 1 /\ e[5] = x /\ e[n + 5] = v
      /\ n = 1 => x = 7 /\ v = 1020 + x
      /\ n = 2 => /\ (x = 1 /\ y = 2) \/ (x = 7 /\ y = 1)
                  /\ v = 10300 + 10 * x + y /\ e[6] = y
  <2>1. 1 \in 1..n /\ (n = 2 => 2 \in 1..n) /\ 1 + 4 = 5 /\ 2 + 4 = 6
    BY <1>1
  <2>2. \A i \in 1..n : e[i + 4] = body[i]
    BY <1>2a
  <2>3. e[5] = x /\ (n = 2 => e[6] = y)
    BY <2>1, <2>2
  <2>4. n = 1 => x = 7 /\ v = 1020 + x
    BY <1>1, <1>2a
  <2>5. n = 2 => ((x = 1 /\ y = 2) \/ (x = 7 /\ y = 1)) /\ v = 10300 + 10 * x + y
    BY <1>1, <1>2a
  <2>6. /\ n \in 1..2 /\ e \in Seq(Nat) /\ Len(e) = n + 5 /\ v \in Nat
        /\ e[1] = 1 /\ e[2] = 2 /\ e[3] = 0 /\ e[4] = n + 1 /\ e[n + 5] = v
    BY <1>1, <1>2a
  <2> HIDE DEF n, x, y
  <2> QED
    BY <2>3, <2>4, <2>5, <2>6
<1>4. /\ s \in Seq(Nat) /\ Len(s) = n + 2 /\ \A i \in 1..n + 2 : s[i] = e[i + 2]
      /\ t \in Seq(Nat) /\ Len(t) = n /\ \A i \in 1..n : t[i] = e[i + 4]
  <2> HIDE DEF n
  <2>1. n \in Nat /\ 3 <= n + 4 /\ 5 <= n + 4 /\ n + 4 <= Len(e) /\ n + 4 \in Nat
    BY <1>3
  <2>2. /\ s \in Seq(Nat) /\ Len(s) = (n + 4) - 3 + 1
        /\ \A i \in 1..(n + 4) - 3 + 1 : s[i] = e[i + 3 - 1]
    <3>1. 3 \in Nat \ {0}
      OBVIOUS
    <3>2. e \in Seq(Nat)
      BY <1>3
    <3> QED
      BY <2>1, <3>1, <3>2, CutOut
  <2>3. /\ t \in Seq(Nat) /\ Len(t) = (n + 4) - 5 + 1
        /\ \A i \in 1..(n + 4) - 5 + 1 : t[i] = e[i + 5 - 1]
    <3>1. 5 \in Nat \ {0}
      OBVIOUS
    <3>2. e \in Seq(Nat)
      BY <1>3
    <3> QED
      BY <2>1, <3>1, <3>2, CutOut
  <2> HIDE DEF s, t
  <2>4. (n + 4) - 3 + 1 = n + 2 /\ (n + 4) - 5 + 1 = n
    BY <2>1
  <2>5. \A i \in Nat : i + 3 - 1 = i + 2 /\ i + 5 - 1 = i + 4
    OBVIOUS
  <2>6. \A i \in 1..n + 2 : i \in Nat
    OBVIOUS
  <2>7. \A i \in 1..n : i \in Nat
    OBVIOUS
  <2> QED
    BY <2>2, <2>3, <2>4, <2>5, <2>6, <2>7
<1>5. t = body
  <2>1. \A i \in 1..n : t[i] = body[i]
    BY <1>2a, <1>4
  <2>2. Len(t) = Len(body) /\ t \in Seq(Nat)
    BY <1>4
  <2> HIDE DEF t
  <2> QED
    BY <1>1, <2>1, <2>2, SameBytes
<1> DEFINE check == check_value(s)
<1>6. check = v
  <2> HIDE DEF n, s, x, y
  <2>1. /\ Len(s) = 3 => check = 1000 + 100 * s[1] + 10 * s[2] + s[3]
        /\ Len(s) = 4 => check = 10000 + 1000 * s[1] + 100 * s[2] + 10 * s[3] + s[4]
    <3>1. s \in Seq(Nat)
      BY <1>4
    <3>2. check = check_value(s)
      OBVIOUS
    <3> HIDE DEF check
    <3> QED
      BY <3>1, <3>2, CheckValues
  <2> HIDE DEF check
  <2>2. \A i \in 1..n + 2 : s[i] = e[i + 2]
    BY <1>4
  <2>3. CASE n = 1
    <3>1. Len(s) = 3 /\ s[1] = 0 /\ s[2] = 2 /\ s[3] = x /\ x = 7 /\ v = 1020 + x
      <4>1. 1 \in 1..n + 2 /\ 2 \in 1..n + 2 /\ 3 \in 1..n + 2
        BY <2>3
      <4>2. s[1] = e[3] /\ s[2] = e[4] /\ s[3] = e[5]
        BY <2>2, <4>1
      <4>3. Len(s) = n + 2
        BY <1>4
      <4> QED
        BY <1>3, <2>3, <4>2, <4>3
    <3> QED
      BY <2>1, <3>1
  <2>4. CASE n = 2
    <3>1. /\ Len(s) = 4 /\ s[1] = 0 /\ s[2] = 3 /\ s[3] = x /\ s[4] = y
          /\ (x = 1 /\ y = 2) \/ (x = 7 /\ y = 1)
          /\ v = 10300 + 10 * x + y
      <4>1. 1 \in 1..n + 2 /\ 2 \in 1..n + 2 /\ 3 \in 1..n + 2 /\ 4 \in 1..n + 2
        BY <2>4
      <4>2. s[1] = e[3] /\ s[2] = e[4] /\ s[3] = e[5] /\ s[4] = e[6]
        BY <2>2, <4>1
      <4>3. Len(s) = n + 2
        BY <1>4
      <4> QED
        BY <1>3, <2>4, <4>2, <4>3
    <3> QED
      BY <2>1, <3>1
  <2> QED
    BY <1>3, <2>3, <2>4
<1> HIDE DEF x, y, s, t
<1>7. announced_size(e) = Len(e)
  <2> HIDE DEF n
  <2>1. e[3] = 0 /\ e[4] = n + 1 /\ n \in Nat /\ Len(e) = n + 5
    BY <1>3
  <2> QED
    BY <2>1 DEF announced_size, HeaderSize
<1>8. passes(e)
  <2> HIDE DEF n
  <2>1. announced_size(e) = n + 5 /\ (n + 5) - 1 = n + 4 /\ e[n + 5] = check
    BY <1>3, <1>6, <1>7
  <2> QED
    BY <2>1 DEF passes, s
<1>9. Plain(e)
  <2> HIDE DEF n
  <2>1. \A i \in 1..Len(e) : i = 1 \/ i = 2 \/ i = 3 \/ i = 4 \/ i = 5 \/ i = n + 5 \/ (n = 2 /\ i = 6)
    BY <1>3
  <2>2. /\ 0 \in WireBytes /\ 1 \in WireBytes /\ 2 \in WireBytes /\ n + 1 \in WireBytes
        /\ x \in WireBytes /\ (n = 2 => y \in WireBytes)
    BY <1>3 DEF WireBytes
  <2>3. v \in WireBytes
    <3>2. /\ n \in 1..2 /\ (n = 1 => x = 7 /\ v = 1020 + x)
          /\ n = 2 => ((x = 1 /\ y = 2) \/ (x = 7 /\ y = 1)) /\ v = 10300 + 10 * x + y
      BY <1>3
    <3>3. n = 1 \/ n = 2
      BY <3>2
    <3>4. n = 1 => v = 1027
      BY <3>2
    <3>5. n = 2 => v = 10312 \/ v = 10371
      BY <3>2
    <3>1. v = 1027 \/ v = 10312 \/ v = 10371
      BY <3>3, <3>4, <3>5
    <3> QED
      BY <3>1 DEF WireBytes
  <2>4. /\ e[1] = 1 /\ e[2] = 2 /\ e[3] = 0 /\ e[4] = n + 1 /\ e[5] = x /\ e[n + 5] = v
        /\ n = 2 => e[6] = y
    BY <1>3
  <2> HIDE DEF x, y
  <2> DEFINE W == WireBytes
  <2>5. /\ e[1] \in W /\ e[2] \in W /\ e[3] \in W /\ e[4] \in W /\ e[5] \in W
        /\ e[n + 5] \in W /\ (n = 2 => e[6] \in W)
    BY <2>2, <2>3, <2>4
  <2>6. ASSUME NEW i \in 1..Len(e) PROVE e[i] \in W
    <3>1. i = 1 \/ i = 2 \/ i = 3 \/ i = 4 \/ i = 5 \/ i = n + 5 \/ (n = 2 /\ i = 6)
      BY <2>1
    <3> HIDE DEF W
    <3> QED
      BY <2>5, <3>1, Zenon
  <2> QED
    BY <2>6 DEF Plain
<1>10. Len(e) - 1 = n + 4 /\ Len(e) \in 6..7
  <2> HIDE DEF n
  <2> QED
    BY <1>3
<1>11. SubSeq(e, 5, Len(e) - 1) = body
  BY <1>5, <1>10 DEF t
<1> QED
  BY <1>2a, <1>3, <1>7, <1>8, <1>9, <1>10, <1>11 DEF Framed

(* What may be left in a buffer without a candidate, and a frame behind it. *)
Remains(r) == r = <<>> \/ r = <<1>>
Behind(d, r, e) == d.buffer = r \o e

(* The first candidate is the frame, whatever remained before it.           *)
LEMMA FrameFirst ==
    ASSUME NEW d \in Decoders, NEW body, NEW e, Framed(e, body), NEW r, Remains(r), Behind(d, r, e)
    PROVE  SyncAt(d.buffer) # {} /\ Candidate(d) = e
<1>1. /\ e \in Seq(Nat) /\ Len(e) \in Nat /\ Len(e) >= 6 /\ e[1] = 1 /\ e[2] = 2
  <2>1. e \in Seq(Nat) /\ Len(e) \in 6..7 /\ e[1] = 1 /\ e[2] = 2
    BY DEF Framed
  <2>2. \A k \in 6..7 : k \in Nat /\ k >= 6
    OBVIOUS
  <2> QED
    BY <2>1, <2>2, Zenon
<1>2. d.buffer = r \o e
  BY DEF Behind
<1>3. CASE r = <<>>
  <2>1. d.buffer = e
    BY <1>1, <1>2, <1>3
  <2>2. 1 \in SyncAt(e) /\ SyncAt(e) \in SUBSET Nat /\ \A i \in SyncAt(e) : 1 <= i
    BY <1>1 DEF SyncAt
  <2>3. Min(SyncAt(e)) = 1
    BY <2>2, LeastIs
  <2>4. From(e, 1) = e
    BY <1>1, FromStart
  <2> QED
    BY <2>1, <2>2, <2>3, <2>4 DEF Candidate
<1>4. CASE r = <<1>>
  <2> DEFINE x == d.buffer
  <2>1. r \in Seq(Nat) /\ Len(r) = 1 /\ r[1] = 1
    BY <1>4
  <2>2. /\ r \o e \in Seq(Nat) /\ Len(r \o e) = Len(r) + Len(e)
        /\ \A i \in 1..Len(r) + Len(e) : (r \o e)[i] = IF i <= Len(r) THEN r[i] ELSE e[i - Len(r)]
    BY <1>1, <2>1, JoinedBytes
  <2>3. /\ x \in Seq(Nat) /\ Len(x) = 1 + Len(e)
        /\ \A i \in 1..1 + Len(e) : x[i] = IF i <= 1 THEN 1 ELSE e[i - 1]
    <3>1. x = r \o e
      BY <1>2
    <3> HIDE DEF x
    <3> QED
      BY <2>1, <2>2, <3>1
  <2> HIDE DEF x
  <2>4. x[1] = 1 /\ x[2] = 1 /\ x[3] = 2
    <3>1. 1 \in 1..1 + Len(e) /\ 2 \in 1..1 + Len(e) /\ 3 \in 1..1 + Len(e) /\ 2 - 1 = 1 /\ 3 - 1 = 2
      BY <1>1
    <3> DEFINE n == 1 + Len(e)
    <3>2. \A i \in 1..n : x[i] = IF i <= 1 THEN 1 ELSE e[i - 1]
      BY <2>3
    <3>3. 1 \in 1..n /\ 2 \in 1..n /\ 3 \in 1..n
      BY <3>1
    <3> HIDE DEF n
    <3>4. x[1] = 1 /\ x[2] = e[2 - 1] /\ x[3] = e[3 - 1]
      BY <3>2, <3>3
    <3> QED
      BY <1>1, <3>1, <3>4
  <2>5. 2 \in SyncAt(x) /\ SyncAt(x) \in SUBSET Nat /\ \A i \in SyncAt(x) : 2 <= i
    <3>1. SyncAt(x) \in SUBSET Nat
      BY <2>3 DEF SyncAt
    <3>2. 2 \in SyncAt(x)
      BY <1>1, <2>3, <2>4 DEF SyncAt
    <3>3. \A i \in SyncAt(x) : i \in Nat /\ i # 0 /\ i # 1
      BY <2>3, <2>4 DEF SyncAt
    <3> QED
      BY <3>1, <3>2, <3>3
  <2>6. Min(SyncAt(x)) = 2
    BY <2>5, LeastIs
  <2>7. From(x, 2) = e
    <3>1. 2 \in 1..Len(x) + 1
      BY <1>1, <2>3
    <3>2. /\ From(x, 2) \in Seq(Nat) /\ Len(From(x, 2)) = Len(x) - 2 + 1
          /\ \A i \in 1..Len(x) - 2 + 1 : From(x, 2)[i] = x[i + 2 - 1]
      BY <2>3, <3>1, FromFacts
    <3>3. Len(From(x, 2)) = Len(e) /\ Len(x) - 2 + 1 = Len(e)
      BY <1>1, <2>3, <3>2
    <3>4. ASSUME NEW i \in 1..Len(e) PROVE From(x, 2)[i] = e[i]
      <4>1. i + 2 - 1 \in 1..1 + Len(e) /\ ~(i + 2 - 1 <= 1) /\ (i + 2 - 1) - 1 = i
        BY <1>1
      <4>2. From(x, 2)[i] = x[i + 2 - 1]
        BY <3>2, <3>3
      <4> QED
        BY <2>3, <4>1, <4>2
    <3> QED
      BY <1>1, <3>2, <3>3, <3>4, SameBytes
  <2> QED
    BY <2>5, <2>6, <2>7 DEF Candidate, x
<1> QED
  BY <1>3, <1>4 DEF Remains

(* A decoder that holds no candidate leaves its loop at once.               *)
LEMMA EmptyRests ==
    ASSUME NEW p, NEW d \in Decoders, Remains(d.buffer)
    PROVE  decoded(p, d) = d
<1>1. SyncAt(d.buffer) = {} /\ without_sync(d.buffer) = d.buffer
  <2>1. CASE d.buffer = <<>>
    BY <2>1 DEF SyncAt, without_sync
  <2>2. CASE d.buffer = <<1>>
    BY <2>2 DEF SyncAt, without_sync
  <2> QED
    BY <2>1, <2>2 DEF Remains
<1>2. round(p, d) = [buffer |-> d.buffer, frames |-> d.frames, checks |-> d.checks]
  BY <1>1, RoundCases
<1>3. round(p, d) = d
  BY <1>2 DEF Decoders
<1> QED
  BY <1>3, AtRest

(* A frame that arrives at rest comes out, and nothing remains.             *)
LEMMA FrameAfter ==
    ASSUME NEW p, NEW d \in Decoders, NEW body \in Bodies, NEW r, Remains(r),
           Behind(d, r, encode_frame(body))
    PROVE  decoded(p, d) = [buffer |-> <<>>, frames |-> Append(d.frames, body), checks |-> 0]
<1> DEFINE e == encode_frame(body)
           more == Append(d.frames, body)
           left == round(p, d)
<1>1. Framed(e, body)
  BY FrameShape
<1>2. SyncAt(d.buffer) # {} /\ Candidate(d) = e
  <2> HIDE DEF e
  <2>1. Behind(d, r, e)
    BY DEF e
  <2> QED
    BY <1>1, <2>1, FrameFirst
<1> HIDE DEF e
<1>3. /\ e \in Seq(Nat) /\ Len(e) \in Nat /\ Len(e) >= 6 /\ Len(e) <= 7 /\ announced_size(e) = Len(e)
      /\ passes(e) /\ SubSeq(e, 5, Len(e) - 1) = body
  <2>1. Len(e) \in 6..7
    BY <1>1 DEF Framed
  <2>2. \A k \in 6..7 : k \in Nat /\ k >= 6 /\ k <= 7
    OBVIOUS
  <2> QED
    BY <1>1, <2>1, <2>2, Zenon DEF Framed
<1>4. ~incomplete(p, e) /\ allowed(p, e)
  BY <1>3, SizesKnown DEF incomplete, allowed
<1>5. From(e, Len(e) + 1) = <<>>
  BY <1>3 DEF From
<1>6. left = [buffer |-> <<>>, frames |-> more, checks |-> 0]
  <2>1. round(p, d) = [buffer |-> From(e, announced_size(e) + 1),
                    frames |-> Append(d.frames, SubSeq(e, 5, announced_size(e) - 1)), checks |-> 0]
    BY <1>2, <1>3, <1>4, RoundCases
  <2> QED
    BY <1>3, <1>5, <2>1
<1> HIDE DEF more
<1>7. left \in Decoders
  BY RoundTakes, RoundLeaves
<1>8. decoded(p, d) = decoded(p, left)
  BY RoundFirst
<1> HIDE DEF left
<1>9. decoded(p, left) = left
  BY <1>6, <1>7, EmptyRests DEF Remains
<1> QED
  BY <1>6, <1>8, <1>9 DEF more

(* The inductive invariant.  The decoder is where the whole stream would    *)
(* have taken it at once, or a host left it with a candidate that is out of *)
(* time, and that the next push throws away.                                *)
Buffered(s) == [buffer |-> s, frames |-> <<>>, checks |-> 0]

InStep == decoder = decoded(policy, Buffered(stream)) /\ ~Expired
GivenUp ==
    /\ Expired /\ stream = <<>> /\ decoder.frames = <<>> /\ opened = HeaderLimit

(* A deadline runs where there is something to wait for, and that of a      *)
(* header has run since the header began.                                   *)
Ages ==
    /\ headerAge # None <=> policy = "usb" /\ InHeader(decoder.buffer)
    /\ bodyAge # None <=> policy = "usb" /\ InBody(decoder.buffer)
    /\ ~Expired /\ headerAge # None => headerAge = opened

(* Only bytes of frames are on their way and in the buffer.                 *)
Bytes == /\ wire \in Seq(Nat) /\ Plain(wire) /\ stream \in Seq(Nat) /\ Plain(stream)
         /\ Clean(policy, decoder)

(* What is still on its way will bring the frames that were sent so far.    *)
Delivered(d) == Remains(d.buffer) /\ d.checks = 0 /\ d.frames = sentFrames
Sent == ~noisy => Delivered(decoded(policy, Buffered(stream \o wire)))

DecoderInv == DecoderTypeOK /\ Bytes /\ (InStep \/ GivenUp) /\ Ages /\ Sent

(* What Buffered returns, and how it is fed.                                *)
LEMMA BufferedFacts ==
    ASSUME NEW s \in Seq(Nat)
    PROVE  /\ Buffered(s) \in Decoders /\ Buffered(s).buffer = s /\ Buffered(s).frames = <<>>
           /\ Buffered(s).checks = 0 /\ [Fresh EXCEPT !.buffer = s] = Buffered(s)
           /\ \A x \in Seq(Nat) : Fed(Buffered(s), x) = Buffered(s \o x)
           /\ \A p : Plain(s) => Clean(p, Buffered(s))
<1>1. Buffered(s).buffer = s /\ Buffered(s).frames = <<>> /\ Buffered(s).checks = 0
  BY DEF Buffered
<1>2. Buffered(s) \in Decoders
  <2>1. 0 \in 0 .. CheckLimit - 1
    BY SizesKnown
  <2> QED
    BY <2>1 DEF Buffered, Decoders
<1>3. [Fresh EXCEPT !.buffer = s] = Buffered(s)
  BY DEF Fresh, Buffered
<1>4. ASSUME NEW x \in Seq(Nat) PROVE Fed(Buffered(s), x) = Buffered(s \o x)
  <2> DEFINE y == s \o x
  <2>1. Fed(Buffered(s), x) = [buffer |-> y, frames |-> <<>>, checks |-> 0]
    BY <1>1, <1>2, Feeding
  <2> QED
    BY <2>1 DEF Buffered
<1>5. ASSUME NEW p, Plain(s) PROVE Clean(p, Buffered(s))
  BY <1>1, <1>2, <1>5 DEF Clean
<1> QED
  BY <1>1, <1>2, <1>3, <1>4, <1>5

(* What remains at rest is at most one byte.                                *)
LEMMA RemainsShort ==
    ASSUME NEW r, Remains(r)
    PROVE  r \in Seq(Nat) /\ Len(r) \in Nat /\ Len(r) <= 1 /\ Plain(r)
<1>1. CASE r = <<>>
  BY <1>1 DEF Plain
<1>2. CASE r = <<1>>
  BY <1>2 DEF Plain, WireBytes
<1> QED
  BY <1>1, <1>2 DEF Remains

(* A round that waits for more keeps the candidate.                         *)
LEMMA Waiting ==
    ASSUME NEW p, NEW d \in Decoders, SyncAt(d.buffer) # {}, incomplete(p, Candidate(d))
    PROVE  round(p, d).buffer = Candidate(d)
<1>1. round(p, d) = [buffer |-> Candidate(d), frames |-> d.frames, checks |-> d.checks]
  BY RoundCases
<1> QED
  BY <1>1

(* What is left in a buffer is short, and a candidate or nothing.           *)
LEMMA LeftOver ==
    ASSUME NEW p, NEW d \in Decoders, NEW e, e = decoded(p, d)
    PROVE  /\ e \in Decoders /\ Len(e.buffer) \in Nat /\ Len(e.buffer) < maximum_frame_size(p)
           /\ Len(e.buffer) < 2 => Remains(e.buffer)
<1>1. e \in Decoders /\ round(p, e) = e /\ Leaves(p, e) /\ e.buffer \in Seq(Nat) /\ Len(e.buffer) \in Nat
  <2>1. e \in Decoders /\ round(p, e) = e /\ Leaves(p, e)
    BY Settling
  <2> QED
    BY <2>1, Buffers
<1>2. CASE SyncAt(e.buffer) = {}
  <2>1. e.buffer = without_sync(e.buffer)
    <3>1. round(p, e) = [buffer |-> without_sync(e.buffer), frames |-> e.frames, checks |-> e.checks]
      BY <1>1, <1>2, RoundCases
    <3>2. round(p, e).buffer = without_sync(e.buffer)
      BY <3>1
    <3> QED
      BY <1>1, <3>2
  <2>2. Remains(e.buffer)
    BY <2>1 DEF without_sync, Remains
  <2>3. Len(e.buffer) <= 1
    BY <2>2, RemainsShort
  <2> QED
    BY <1>1, <2>2, <2>3, SizesKnown
<1>3. CASE SyncAt(e.buffer) # {}
  <2> DEFINE c == Candidate(e)
  <2>1. incomplete(p, c)
    BY <1>1, <1>3 DEF Leaves
  <2>2. Len(c) >= 2
    BY <1>1, <1>3, SyncFirst DEF Candidate
  <2>0. c = Candidate(e)
    OBVIOUS
  <2> HIDE DEF c
  <2>4. round(p, e).buffer = c
    BY <1>1, <1>3, <2>0, <2>1, Waiting
  <2>5. e.buffer = c
    BY <1>1, <2>4
  <2>6. Len(c) < maximum_frame_size(p)
    <3> DEFINE n == Len(c)
               total == announced_size(c)
    <3>1. n \in Nat /\ (n < 4 \/ (total \in 6..maximum_frame_size(p) /\ n < total))
      BY <1>1, <2>1, <2>5 DEF incomplete, allowed, HeaderSize
    <3>2. maximum_frame_size(p) \in Nat /\ maximum_frame_size(p) >= 7
      BY SizesKnown
    <3> HIDE DEF n, total
    <3>3. n < maximum_frame_size(p)
      BY <3>1, <3>2
    <3> QED
      BY <3>3 DEF n
  <2> QED
    BY <1>1, <2>2, <2>5, <2>6
<1> QED
  BY <1>2, <1>3

(* A push in step, on a buffer that is not cut.                             *)
LEMMA Pushed ==
    ASSUME NEW p, NEW s \in Seq(Nat), Plain(s), NEW x \in Seq(Nat), Plain(x),
           NEW after, after = decoded(p, Buffered(s \o x))
    PROVE  /\ decoded(p, Fed(decoded(p, Buffered(s)), x)) = after
           /\ Clean(p, after) /\ Len(after.buffer) < maximum_frame_size(p)
           /\ Len(after.buffer) \in Nat
           /\ s \o x \in Seq(Nat) /\ Plain(s \o x)
<1>1. s \o x \in Seq(Nat) /\ Plain(s \o x)
  <2>1. /\ s \o x \in Seq(Nat) /\ Len(s \o x) = Len(s) + Len(x) /\ Len(s) \in Nat /\ Len(x) \in Nat
        /\ \A i \in 1..Len(s) + Len(x) : (s \o x)[i] = IF i <= Len(s) THEN s[i] ELSE x[i - Len(s)]
    BY JoinedBytes
  <2> DEFINE y == s \o x
  <2>2. y = s \o x
    OBVIOUS
  <2> HIDE DEF y
  <2>3. ASSUME NEW i \in 1..Len(y) PROVE y[i] \in WireBytes
    <3>1. i \in 1..Len(s) + Len(x)
      BY <2>1, <2>2
    <3>2. CASE i <= Len(s)
      <4>1. i \in 1..Len(s)
        BY <2>1, <3>1, <3>2
      <4> QED
        BY <2>1, <2>2, <3>1, <3>2, <4>1 DEF Plain
    <3>3. CASE ~(i <= Len(s))
      <4>1. i - Len(s) \in 1..Len(x)
        BY <2>1, <3>1, <3>3
      <4> QED
        BY <2>1, <2>2, <3>1, <3>3, <4>1 DEF Plain
    <3> QED
      BY <3>2, <3>3
  <2> QED
    BY <2>1, <2>2, <2>3 DEF Plain
<1>2. Buffered(s) \in Decoders /\ Fed(Buffered(s), x) = Buffered(s \o x)
  BY BufferedFacts
<1>3. decoded(p, Fed(decoded(p, Buffered(s)), x)) = after
  BY <1>2, Cutting
<1> DEFINE y == s \o x
<1>4. y \in Seq(Nat) /\ Plain(y) /\ after = decoded(p, Buffered(y))
  BY <1>1
<1> HIDE DEF y
<1>5. Buffered(y) \in Decoders /\ Clean(p, Buffered(y))
  BY <1>4, BufferedFacts
<1>6. Clean(p, after)
  BY <1>4, <1>5, CleanDecoded
<1>7. Len(after.buffer) < maximum_frame_size(p) /\ Len(after.buffer) \in Nat
  BY <1>4, <1>5, LeftOver
<1> QED
  BY <1>1, <1>3, <1>6, <1>7

(* A push takes the first bytes and leaves the others.                      *)
LEMMA Split ==
    ASSUME NEW w \in Seq(Nat), Plain(w), NEW n \in 1..Len(w)
    PROVE  /\ SubSeq(w, 1, n) \in Seq(Nat) /\ Plain(SubSeq(w, 1, n)) /\ Len(SubSeq(w, 1, n)) = n
           /\ From(w, n + 1) \in Seq(Nat) /\ Plain(From(w, n + 1))
           /\ SubSeq(w, 1, n) \o From(w, n + 1) = w
<1>0. Len(w) \in Nat /\ n \in Nat /\ n <= Len(w)
  OBVIOUS
<1>1. /\ SubSeq(w, 1, n) \in Seq(Nat) /\ Len(SubSeq(w, 1, n)) = n - 1 + 1
      /\ \A i \in 1..n - 1 + 1 : SubSeq(w, 1, n)[i] = w[i + 1 - 1]
  <2>1. 1 \in Nat \ {0} /\ n \in Nat /\ 1 <= n /\ n <= Len(w)
    BY <1>0
  <2> QED
    BY <2>1, CutOut
<1>2. Plain(SubSeq(w, 1, n)) /\ Len(SubSeq(w, 1, n)) = n
  <2> DEFINE y == SubSeq(w, 1, n)
  <2>1. Len(y) = n /\ \A i \in 1..n : y[i] = w[i]
    <3>1. n - 1 + 1 = n /\ \A i \in 1..n : i + 1 - 1 = i
      BY <1>0
    <3> HIDE DEF y
    <3> QED
      BY <1>1, <3>1 DEF y
  <2> HIDE DEF y
  <2>2. \A i \in 1..n : i \in 1..Len(w)
    BY <1>0
  <2> QED
    BY <2>1, <2>2 DEF Plain, y
<1>3. n + 1 \in 1..Len(w) + 1
  BY <1>0
<1>4. From(w, n + 1) \in Seq(Nat) /\ Plain(From(w, n + 1))
  BY <1>3, FromFacts, PlainFrom
<1>5. SubSeq(w, 1, n) \o SubSeq(w, n + 1, Len(w)) = SubSeq(w, 1, Len(w))
  <2>1. 1 \in 1..Len(w) + 1 /\ n \in 1 - 1..Len(w) /\ Len(w) \in n..Len(w)
    BY <1>0
  <2> QED
    BY <2>1, ConcatAdjacentSubSeq
<1>6. SubSeq(w, 1, Len(w)) = w
  BY SubSeqFull
<1> QED
  BY <1>1, <1>2, <1>4, <1>5, <1>6 DEF From

----------------------------------------------------------------------------
(* The invariant holds when the decoder is made.                            *)
LEMMA DecoderStart == DecoderInit => DecoderInv
<1> SUFFICES ASSUME DecoderInit PROVE DecoderInv
  OBVIOUS
<1>1. /\ policy \in {"uart", "tcp", "usb"} /\ wire = <<>> /\ sentFrames = <<>> /\ noisy = FALSE
      /\ stream = <<>> /\ decoder = Fresh /\ headerAge = None /\ bodyAge = None /\ opened = 0
  BY DEF DecoderInit
<1>2. <<>> \in Seq(Nat) /\ Len(<<>>) = 0 /\ Plain(<<>>) /\ <<>> \o <<>> = <<>> /\ Remains(<<>>)
  BY DEF Plain, Remains
<1>3. /\ Buffered(<<>>) \in Decoders /\ Buffered(<<>>).buffer = <<>> /\ Buffered(<<>>).frames = <<>>
      /\ Buffered(<<>>).checks = 0 /\ Clean(policy, Buffered(<<>>))
  BY <1>2, BufferedFacts
<1>4. decoder = Buffered(<<>>)
  BY <1>1 DEF Fresh, Buffered
<1>5. decoded(policy, Buffered(<<>>)) = Buffered(<<>>)
  BY <1>3, EmptyRests DEF Remains
<1>6. ~InHeader(decoder.buffer) /\ ~InBody(decoder.buffer)
  <2>1. Len(decoder.buffer) = 0
    BY <1>2, <1>3, <1>4
  <2> QED
    BY <2>1 DEF InHeader, InBody, HeaderSize
<1>7. InStep
  BY <1>1, <1>4, <1>5, <1>6 DEF InStep, Expired
<1>8. Ages
  BY <1>1, <1>6 DEF Ages
<1>9. Sent
  BY <1>1, <1>2, <1>3, <1>5 DEF Sent, Delivered
<1>10. Bytes
  BY <1>1, <1>2, <1>3, <1>4 DEF Bytes
<1>11. DecoderTypeOK
  <2>1. Len(decoder.buffer) < maximum_frame_size(policy)
    BY <1>2, <1>3, <1>4, SizesKnown
  <2>2. {wire, stream, decoder.buffer} \subseteq Seq(Nat)
    BY <1>1, <1>2, <1>3, <1>4
  <2>3. /\ headerAge \in None .. HeaderLimit + 1 /\ bodyAge \in None .. BodyLimit + 1
        /\ opened \in 0 .. HeaderLimit
    BY <1>1, DecoderAssumption DEF None
  <2>4. sentFrames \in Seq(Bodies) /\ decoder.checks \in 0 .. CheckLimit - 1
    BY <1>1, <1>3, <1>4, SizesKnown
  <2> QED
    BY <1>1, <2>1, <2>2, <2>3, <2>4 DEF DecoderTypeOK
<1> QED
  BY <1>7, <1>8, <1>9, <1>10, <1>11 DEF DecoderInv

(* Send: the frame comes out of the whole stream, after the frames before it.*)
LEMMA SendKeeps ==
    ASSUME DecoderInv, NEW body \in Bodies, Send(body)
    PROVE  DecoderInv'
<1> DEFINE f == encode_frame(body)
           before == decoded(policy, Buffered(stream \o wire))
           then == Fed(before, f)
<1>1. /\ wire' = wire \o f /\ sentFrames' = Append(sentFrames, body)
      /\ UNCHANGED <<policy, noisy, stream, decoder, headerAge, bodyAge, opened>>
  BY DEF Send
<1>2. /\ wire \in Seq(Nat) /\ Plain(wire) /\ stream \in Seq(Nat) /\ Plain(stream)
      /\ Clean(policy, decoder)
  BY DEF DecoderInv, Bytes
<1>3. f \in Seq(Nat) /\ Plain(f)
  BY FrameShape DEF Framed
<1> HIDE DEF f
<1>4. wire' \in Seq(Nat) /\ Plain(wire')
  BY <1>1, <1>2, <1>3, Pushed
<1>5. InStep' \/ GivenUp'
  BY <1>1 DEF DecoderInv, InStep, GivenUp, Expired
<1>6. Ages'
  BY <1>1 DEF DecoderInv, Ages, Expired
<1>7. Bytes'
  BY <1>1, <1>2, <1>4 DEF Bytes
<1>8. DecoderTypeOK'
  BY <1>1, <1>4 DEF DecoderInv, DecoderTypeOK
<1>9. Sent'
  <2> SUFFICES ASSUME ~noisy
               PROVE  Delivered(decoded(policy, Buffered(stream \o wire)))'
    BY <1>1 DEF Sent
  <2>1. Remains(before.buffer) /\ before.checks = 0 /\ before.frames = sentFrames
    BY DEF DecoderInv, Sent, Delivered
  <2>2. stream \o wire \in Seq(Nat) /\ Plain(stream \o wire)
    BY <1>2, Pushed
  <2>3. Buffered(stream \o wire) \in Decoders
    BY <2>2, BufferedFacts
  <2>4. before \in Decoders
    BY <2>3, Settling
  <2>5. (stream \o wire) \o f = stream \o (wire \o f)
    BY <1>2, <1>3, Associative
  <2>6. decoded(policy, Buffered((stream \o wire) \o f)) = decoded(policy, then)
    <3> DEFINE s == stream \o wire
    <3>1. s \in Seq(Nat) /\ Plain(s) /\ before = decoded(policy, Buffered(s))
      BY <2>2
    <3> HIDE DEF s
    <3>2. decoded(policy, Fed(decoded(policy, Buffered(s)), f)) = decoded(policy, Buffered(s \o f))
      BY <1>3, <3>1, Pushed
    <3> QED
      BY <3>1, <3>2 DEF s
  <2> HIDE DEF before
  <2>7. /\ then \in Decoders /\ then.buffer = before.buffer \o f
        /\ then.frames = sentFrames /\ then.checks = 0
    BY <1>3, <2>1, <2>4, Feeding
  <2> HIDE DEF then
  <2>8. decoded(policy, then) = [buffer |-> <<>>, frames |-> Append(sentFrames, body), checks |-> 0]
    <3>1. Behind(then, before.buffer, encode_frame(body))
      BY <2>7 DEF Behind, f
    <3>2. decoded(policy, then) = [buffer |-> <<>>, frames |-> Append(then.frames, body), checks |-> 0]
      BY <2>1, <2>7, <3>1, FrameAfter
    <3> QED
      BY <2>7, <3>2
  <2> DEFINE after == decoded(policy, Buffered(stream \o (wire \o f)))
             more == Append(sentFrames, body)
  <2>9. after = [buffer |-> <<>>, frames |-> more, checks |-> 0]
    BY <2>5, <2>6, <2>8
  <2> HIDE DEF after, more
  <2>10. Remains(after.buffer) /\ after.checks = 0 /\ after.frames = more
    BY <2>9 DEF Remains
  <2> QED
    BY <1>1, <2>10 DEF Delivered, after, more
<1> QED
  BY <1>5, <1>6, <1>7, <1>8, <1>9 DEF DecoderInv

(* Nothing was pushed, and nothing came out.                                *)
LEMMA EmptyStream ==
    /\ <<>> \in Seq(Nat) /\ Len(<<>>) = 0 /\ Plain(<<>>) /\ <<>> \o <<>> = <<>> /\ Remains(<<>>)
    /\ \A p : decoded(p, Buffered(<<>>)) = Buffered(<<>>) /\ Clean(p, Buffered(<<>>))
    /\ Buffered(<<>>).buffer = <<>> /\ Buffered(<<>>).frames = <<>> /\ Buffered(<<>>).checks = 0
<1>1. <<>> \in Seq(Nat) /\ Len(<<>>) = 0 /\ Plain(<<>>) /\ <<>> \o <<>> = <<>> /\ Remains(<<>>)
  BY DEF Plain, Remains
<1>2. /\ Buffered(<<>>) \in Decoders /\ Buffered(<<>>).buffer = <<>> /\ Buffered(<<>>).frames = <<>>
      /\ Buffered(<<>>).checks = 0 /\ \A p : Clean(p, Buffered(<<>>))
  BY <1>1, BufferedFacts
<1>3. \A p : decoded(p, Buffered(<<>>)) = Buffered(<<>>)
  BY <1>2, EmptyRests DEF Remains
<1> QED
  BY <1>1, <1>2, <1>3

(* A single byte is no candidate.                                           *)
LEMMA NoCandidate ==
    ASSUME NEW b, Len(b) \in Nat, Len(b) < 2
    PROVE  ~InHeader(b) /\ ~InBody(b)
  BY DEF InHeader, InBody, HeaderSize

(* A candidate ends in its header or in its body, unless right between them.*)
LEMMA Candidates ==
    ASSUME NEW b, Len(b) \in Nat
    PROVE  ~(InHeader(b) /\ InBody(b)) /\ (InHeader(b) \/ InBody(b) => Len(b) >= 2)
           /\ (Len(b) >= 2 /\ Len(b) # 4 => InHeader(b) \/ InBody(b))
<1> DEFINE n == Len(b)
<1>1. n \in Nat /\ (InHeader(b) <=> n \in 2..3) /\ (InBody(b) <=> n > 4)
  BY DEF InHeader, InBody, HeaderSize
<1> HIDE DEF n
<1>2. /\ ~(InHeader(b) /\ InBody(b)) /\ (InHeader(b) \/ InBody(b) => n >= 2)
      /\ (n >= 2 /\ n # 4 => InHeader(b) \/ InBody(b))
  BY <1>1
<1> QED
  BY <1>2 DEF n

(* The ages and their limits are numbers.                                   *)
LEMMA Ticks ==
    ASSUME DecoderTypeOK
    PROVE  /\ HeaderLimit \in Nat /\ BodyLimit \in Nat /\ None = -1
           /\ headerAge \in Int /\ headerAge >= -1 /\ headerAge <= HeaderLimit + 1
           /\ bodyAge \in Int /\ bodyAge >= -1 /\ bodyAge <= BodyLimit + 1
           /\ opened \in Nat /\ opened <= HeaderLimit
<1>1. HeaderLimit \in Nat /\ BodyLimit \in Nat
  BY DecoderAssumption
<1>2. /\ headerAge \in None .. HeaderLimit + 1 /\ bodyAge \in None .. BodyLimit + 1
      /\ opened \in 0 .. HeaderLimit
  BY DEF DecoderTypeOK
<1> QED
  BY <1>1, <1>2 DEF None

(* SendPiece: noise has been sent, so nothing is said of the frames.        *)
LEMMA PieceKeeps ==
    ASSUME DecoderInv, NEW body \in Bodies, NEW count \in 1 .. Len(encode_frame(body)) - 1,
           SendPiece(body, count)
    PROVE  DecoderInv'
<1> DEFINE f == encode_frame(body)
<1>1. /\ wire' = SubSeq(f, 1, count) /\ noisy' = TRUE
      /\ UNCHANGED <<policy, sentFrames, stream, decoder, headerAge, bodyAge, opened>>
  BY DEF SendPiece
<1>2. f \in Seq(Nat) /\ Plain(f) /\ Len(f) \in 6..7
  BY FrameShape DEF Framed
<1>3. count \in 1..Len(f) - 1
  OBVIOUS
<1> HIDE DEF f
<1>4. wire' \in Seq(Nat) /\ Plain(wire')
  <2>1. count \in 1..Len(f)
    BY <1>2, <1>3
  <2> QED
    BY <1>1, <1>2, <2>1, Split
<1>5. InStep' \/ GivenUp'
  BY <1>1 DEF DecoderInv, InStep, GivenUp, Expired
<1>6. Ages'
  BY <1>1 DEF DecoderInv, Ages, Expired
<1>7. Bytes'
  BY <1>1, <1>4 DEF DecoderInv, Bytes
<1>8. DecoderTypeOK'
  BY <1>1, <1>4 DEF DecoderInv, DecoderTypeOK
<1>9. Sent'
  BY <1>1 DEF Sent
<1> QED
  BY <1>5, <1>6, <1>7, <1>8, <1>9 DEF DecoderInv

(* HostPauses: a host takes no longer than the deadlines allow.             *)
LEMMA PauseKeeps ==
    ASSUME DecoderInv, HostPauses
    PROVE  DecoderInv'
<1>1. /\ policy = "usb"
      /\ headerAge' = IF headerAge = None THEN None ELSE headerAge + 1
      /\ bodyAge' = IF bodyAge = None THEN None ELSE bodyAge + 1
      /\ UNCHANGED <<policy, wire, sentFrames, noisy, stream, decoder>>
  BY DEF HostPauses
<1>2. \/ InHeader(decoder.buffer) /\ opened < HeaderLimit /\ opened' = opened + 1
      \/ InBody(decoder.buffer) /\ bodyAge < BodyLimit /\ opened' = opened
  BY DEF HostPauses
<1>3. DecoderTypeOK /\ Ages /\ Bytes /\ Sent /\ (InStep \/ GivenUp)
  BY DEF DecoderInv
<1>4. Len(decoder.buffer) \in Nat
  BY <1>3, Buffers DEF Bytes, Clean
<1>5. ~(InHeader(decoder.buffer) /\ InBody(decoder.buffer))
  BY <1>4, Candidates
<1>6. /\ HeaderLimit \in Nat /\ BodyLimit \in Nat /\ None = -1
      /\ headerAge \in Int /\ headerAge >= -1 /\ bodyAge \in Int /\ bodyAge >= -1
      /\ opened \in Nat /\ opened <= HeaderLimit
  BY <1>3, Ticks
<1>7. /\ headerAge # None <=> InHeader(decoder.buffer)
      /\ bodyAge # None <=> InBody(decoder.buffer)
      /\ ~Expired /\ headerAge # None => headerAge = opened
  BY <1>1, <1>3 DEF Ages
<1>8. ~Expired /\ InStep
  <2>1. SUFFICES ASSUME GivenUp PROVE FALSE
    BY <1>3 DEF InStep
  <2>2. opened = HeaderLimit /\ Expired
    BY <2>1 DEF GivenUp
  <2>3. InBody(decoder.buffer) /\ bodyAge < BodyLimit
    BY <1>2, <1>6, <2>2
  <2> QED
    BY <1>5, <1>6, <2>2, <2>3 DEF Expired
<1>9. CASE InHeader(decoder.buffer)
  <2>1. headerAge = opened /\ headerAge # None /\ opened < HeaderLimit /\ opened' = opened + 1
        /\ bodyAge = None
    BY <1>2, <1>5, <1>7, <1>8, <1>9
  <2>2. headerAge' = opened + 1 /\ bodyAge' = -1 /\ opened' = opened + 1
    BY <1>1, <1>6, <2>1
  <2>3. ~Expired'
    <3>1. ~(headerAge' > HeaderLimit)
      BY <1>6, <2>1, <2>2
    <3> QED
      BY <1>1, <1>5, <1>9, <3>1 DEF Expired
  <2>4. InStep'
    BY <1>1, <1>8, <2>3 DEF InStep
  <2>5. Ages'
    <3>1. headerAge' # None /\ bodyAge' = None /\ headerAge' = opened'
      BY <1>6, <2>2
    <3> QED
      BY <1>1, <1>5, <1>9, <3>1 DEF Ages
  <2>6. DecoderTypeOK'
    <3>1. /\ headerAge' \in None .. HeaderLimit + 1 /\ bodyAge' \in None .. BodyLimit + 1
          /\ opened' \in 0 .. HeaderLimit
      BY <1>6, <2>1, <2>2
    <3> QED
      BY <1>1, <1>3, <3>1 DEF DecoderTypeOK
  <2> QED
    BY <1>1, <1>3, <2>4, <2>5, <2>6 DEF DecoderInv, Bytes, Sent, Delivered
<1>10. CASE ~InHeader(decoder.buffer)
  <2>1. InBody(decoder.buffer) /\ bodyAge < BodyLimit /\ opened' = opened
        /\ headerAge = None /\ bodyAge # None
    BY <1>2, <1>7, <1>10
  <2>2. headerAge' = -1 /\ bodyAge' = bodyAge + 1
    BY <1>1, <1>6, <2>1
  <2>3. ~Expired'
    <3>1. ~(bodyAge' > BodyLimit)
      BY <1>6, <2>1, <2>2
    <3> QED
      BY <1>1, <1>10, <3>1 DEF Expired
  <2>4. InStep'
    BY <1>1, <1>8, <2>3 DEF InStep
  <2>5. Ages'
    <3>1. headerAge' = None /\ bodyAge' # None
      BY <1>6, <2>1, <2>2
    <3> QED
      BY <1>1, <1>10, <2>1, <3>1 DEF Ages
  <2>6. DecoderTypeOK'
    <3>1. /\ headerAge' \in None .. HeaderLimit + 1 /\ bodyAge' \in None .. BodyLimit + 1
          /\ opened' \in 0 .. HeaderLimit
      BY <1>6, <2>1, <2>2
    <3> QED
      BY <1>1, <1>3, <3>1 DEF DecoderTypeOK
  <2> QED
    BY <1>1, <1>3, <2>4, <2>5, <2>6 DEF DecoderInv, Bytes, Sent, Delivered
<1> QED
  BY <1>9, <1>10

(* A host's bytes in the buffer s, and nothing else of it.                  *)
LEMMA Starting ==
    ASSUME NEW s, Remains(s)
    PROVE  /\ decoded(policy, Buffered(s)) = Buffered(s) /\ Clean(policy, Buffered(s))
           /\ s \in Seq(Nat) /\ Plain(s) /\ s \o <<>> = s
           /\ Buffered(s).buffer = s /\ Buffered(s).frames = <<>> /\ Buffered(s).checks = 0
           /\ Len(s) \in Nat /\ Len(s) <= 1 /\ ~InHeader(s) /\ ~InBody(s)
           /\ Len(s) < maximum_frame_size(policy)
<1>1. s \in Seq(Nat) /\ Len(s) \in Nat /\ Len(s) <= 1 /\ Plain(s)
  BY RemainsShort
<1>2. /\ Buffered(s) \in Decoders /\ Buffered(s).buffer = s /\ Buffered(s).frames = <<>>
      /\ Buffered(s).checks = 0 /\ Clean(policy, Buffered(s))
  BY <1>1, BufferedFacts
<1>3. decoded(policy, Buffered(s)) = Buffered(s)
  BY <1>2, EmptyRests DEF Remains
<1>4. Len(s) < 2 /\ Len(s) < maximum_frame_size(policy)
  BY <1>1, SizesKnown
<1>5. ~InHeader(s) /\ ~InBody(s)
  BY <1>1, <1>4, NoCandidate
<1>6. s \o <<>> = s
  BY <1>1
<1> QED
  BY <1>1, <1>2, <1>3, <1>4, <1>5, <1>6

(* A new session, with what is left of the last one before it.              *)
LEMMA Anew ==
    ASSUME DecoderTypeOK, UNCHANGED policy, NEW s, Remains(s), decoder' = Buffered(s), stream' = s,
           wire' = <<>>, sentFrames' = <<>>, noisy' = FALSE, headerAge' = None, bodyAge' = None,
           opened' \in 0 .. HeaderLimit
    PROVE  DecoderInv'
<1>1. /\ decoded(policy, Buffered(s)) = Buffered(s) /\ Clean(policy, Buffered(s))
      /\ s \in Seq(Nat) /\ Plain(s) /\ s \o <<>> = s
      /\ Buffered(s).buffer = s /\ Buffered(s).frames = <<>> /\ Buffered(s).checks = 0
      /\ Len(s) \in Nat /\ Len(s) <= 1 /\ ~InHeader(s) /\ ~InBody(s)
      /\ Len(s) < maximum_frame_size(policy)
  BY Starting
<1>2. ~Expired'
  BY <1>1 DEF Expired
<1>3. InStep'
  BY <1>1, <1>2 DEF InStep
<1>4. Ages'
  BY <1>1 DEF Ages
<1>5. Bytes'
  BY <1>1, EmptyStream DEF Bytes
<1>6. Sent'
  BY <1>1 DEF Sent, Delivered
<1>7. DecoderTypeOK'
  <2>1. headerAge' \in None .. HeaderLimit + 1 /\ bodyAge' \in None .. BodyLimit + 1
    BY DecoderAssumption DEF None
  <2>2. {wire', stream', decoder'.buffer} \subseteq Seq(Nat)
    BY <1>1, EmptyStream
  <2>3. sentFrames' \in Seq(Bodies) /\ decoder'.checks \in 0 .. CheckLimit - 1
    BY <1>1, SizesKnown
  <2>4. Len(decoder'.buffer) < maximum_frame_size(policy')
    BY <1>1
  <2>5. policy' \in {"uart", "tcp", "usb"} /\ noisy' \in BOOLEAN
    BY DEF DecoderTypeOK
  <2> QED
    BY <2>1, <2>2, <2>3, <2>4, <2>5 DEF DecoderTypeOK
<1> QED
  BY <1>3, <1>4, <1>5, <1>6, <1>7 DEF DecoderInv

(* reset: the decoder is as it was made.                                    *)
LEMMA ResetKeeps ==
    ASSUME DecoderInv, reset
    PROVE  DecoderInv'
<1>1. /\ wire' = <<>> /\ sentFrames' = <<>> /\ noisy' = FALSE /\ stream' = <<>> /\ opened' = 0
      /\ decoder' = Fresh /\ headerAge' = None /\ bodyAge' = None /\ UNCHANGED policy
  BY DEF reset
<1>2. decoder' = Buffered(<<>>) /\ Remains(<<>>) /\ DecoderTypeOK /\ opened' \in 0 .. HeaderLimit
  BY <1>1, DecoderAssumption DEF Fresh, Buffered, Remains, DecoderInv
<1> QED
  BY <1>1, <1>2, Anew

(* What the invariant says of the buffer.                                   *)
LEMMA BufferHeld ==
    ASSUME DecoderInv
    PROVE  /\ decoder.buffer \in Seq(Nat) /\ Plain(decoder.buffer) /\ Len(decoder.buffer) \in Nat
           /\ decoder \in Decoders /\ Len(decoder.buffer) < maximum_frame_size(policy)
           /\ policy # "uart" => decoder.checks = 0
           /\ stream \in Seq(Nat) /\ Plain(stream) /\ wire \in Seq(Nat) /\ Plain(wire)
           /\ GivenUp => Len(decoder.buffer) >= 2
           /\ Len(decoder.buffer) < 2 => Remains(decoder.buffer)
<1>1. Clean(policy, decoder) /\ stream \in Seq(Nat) /\ Plain(stream) /\ wire \in Seq(Nat) /\ Plain(wire)
  BY DEF DecoderInv, Bytes
<1>2. /\ decoder \in Decoders /\ Plain(decoder.buffer)
      /\ policy # "uart" => decoder.checks = 0
  BY <1>1 DEF Clean
<1>3. decoder.buffer \in Seq(Nat) /\ Len(decoder.buffer) \in Nat
  BY <1>2, Buffers
<1>4. GivenUp => Len(decoder.buffer) >= 2
  BY <1>3, Candidates DEF GivenUp, Expired
<1>5. Len(decoder.buffer) < 2 => Remains(decoder.buffer)
  <2> SUFFICES ASSUME Len(decoder.buffer) < 2 PROVE Remains(decoder.buffer)
    OBVIOUS
  <2>1. ~GivenUp
    BY <1>3, <1>4
  <2>2. decoder = decoded(policy, Buffered(stream))
    BY <2>1 DEF DecoderInv, InStep
  <2>3. Buffered(stream) \in Decoders
    BY <1>1, BufferedFacts
  <2> QED
    BY <2>2, <2>3, LeftOver
<1>6. Len(decoder.buffer) < maximum_frame_size(policy)
  BY DEF DecoderInv, DecoderTypeOK
<1> QED
  BY <1>1, <1>2, <1>3, <1>4, <1>5, <1>6

(* FallsSilent: the candidate that was left is out of time, as HeaderSilence*)
(* leaves out the hosts that fall silent where no deadline runs.            *)
LEMMA SilentKeeps ==
    ASSUME ~HeaderSilence, DecoderInv, FallsSilent
    PROVE  DecoderInv'
<1> DEFINE b == decoder.buffer
<1>1. /\ policy = "usb" /\ Len(b) # HeaderSize
      /\ headerAge' = (IF headerAge = None THEN None ELSE HeaderLimit + 1)
      /\ bodyAge' = (IF bodyAge = None THEN None ELSE BodyLimit + 1)
      /\ stream' = (IF Len(b) < 2 THEN b ELSE <<>>)
      /\ wire' = <<>> /\ sentFrames' = <<>> /\ noisy' = FALSE /\ opened' = HeaderLimit
      /\ decoder' = [decoder EXCEPT !.frames = <<>>] /\ policy' = policy
  BY DEF FallsSilent
<1>2. /\ decoder \in Decoders /\ decoder.checks = 0 /\ Len(b) \in Nat /\ b \in Seq(Nat)
      /\ Plain(b)
      /\ Len(b) < 2 => Remains(b)
  BY <1>1, BufferHeld
<1>3. decoder' = Buffered(b)
  BY <1>1, <1>2 DEF Decoders, Buffered
<1>4. DecoderTypeOK /\ Ages
  BY DEF DecoderInv
<1>5. /\ headerAge # None <=> InHeader(b)
      /\ bodyAge # None <=> InBody(b)
  BY <1>1, <1>4 DEF Ages
<1>6. HeaderLimit \in Nat /\ BodyLimit \in Nat /\ None = -1
  BY <1>4, Ticks
<1>7. /\ Buffered(b).buffer = b /\ Buffered(b).frames = <<>> /\ Buffered(b).checks = 0
      /\ Clean(policy, Buffered(b))
  BY <1>2, BufferedFacts
<1>8. CASE Len(b) < 2
  <2>1. ~InHeader(b) /\ ~InBody(b)
    BY <1>2, <1>8, NoCandidate
  <2>2. Remains(b) /\ stream' = b /\ headerAge' = None /\ bodyAge' = None
    BY <1>1, <1>2, <1>5, <1>8, <2>1
  <2>3. opened' \in 0 .. HeaderLimit
    BY <1>1, <1>6
  <2> HIDE DEF b
  <2> QED
    BY <1>1, <1>3, <1>4, <2>2, <2>3, Anew
<1>9. CASE ~(Len(b) < 2)
  <2>1. InHeader(b) \/ InBody(b)
    <3>1. Len(b) >= 2 /\ Len(b) # 4
      BY <1>1, <1>2, <1>9 DEF HeaderSize
    <3> QED
      BY <1>2, <3>1, Candidates
  <2>2. /\ InHeader(b) => headerAge' = HeaderLimit + 1 /\ headerAge' > HeaderLimit
        /\ InBody(b) => bodyAge' = BodyLimit + 1 /\ bodyAge' > BodyLimit
        /\ ~InHeader(b) => headerAge' = None
        /\ ~InBody(b) => bodyAge' = None
    BY <1>1, <1>5, <1>6
  <2>3. decoder'.buffer = b /\ decoder'.frames = <<>> /\ decoder'.checks = 0
    BY <1>3, <1>7
  <2>4. stream' = <<>>
    BY <1>1, <1>9
  <2>5. Expired'
    <3>1. \/ InHeader(decoder'.buffer) /\ headerAge' > HeaderLimit
          \/ InBody(decoder'.buffer) /\ bodyAge' > BodyLimit
      BY <2>1, <2>2, <2>3
    <3> QED
      BY <1>1, <3>1 DEF Expired
  <2>6. GivenUp'
    BY <1>1, <2>3, <2>4, <2>5 DEF GivenUp
  <2>7. Ages'
    <3>1. HeaderLimit + 1 # None /\ BodyLimit + 1 # None
      BY <1>6
    <3>2. /\ headerAge' # None <=> policy' = "usb" /\ InHeader(decoder'.buffer)
          /\ bodyAge' # None <=> policy' = "usb" /\ InBody(decoder'.buffer)
      BY <1>1, <2>2, <2>3, <3>1
    <3> QED
      BY <2>5, <3>2 DEF Ages
  <2>8. Bytes'
    <3>1. Clean(policy', decoder')
      BY <1>1, <1>3, <1>7
    <3> QED
      BY <1>1, <2>4, <3>1, EmptyStream DEF Bytes
  <2>9. Sent'
    <3>1. decoded(policy', Buffered(stream' \o wire')) = Buffered(<<>>)
      BY <1>1, <2>4, EmptyStream
    <3>2. Delivered(Buffered(<<>>))'
      BY <1>1, EmptyStream DEF Delivered
    <3> QED
      BY <3>1, <3>2 DEF Sent, Delivered
  <2>10. DecoderTypeOK'
    <3>1. /\ headerAge' \in None .. HeaderLimit + 1 /\ bodyAge' \in None .. BodyLimit + 1
          /\ opened' \in 0 .. HeaderLimit
      <4>1. headerAge' = None \/ headerAge' = HeaderLimit + 1
        BY <1>1
      <4>2. bodyAge' = None \/ bodyAge' = BodyLimit + 1
        BY <1>1
      <4> QED
        BY <1>1, <1>6, <4>1, <4>2
    <3>2. {wire', stream', decoder'.buffer} \subseteq Seq(Nat)
      BY <1>1, <1>2, <2>3, <2>4, EmptyStream
    <3>3. sentFrames' \in Seq(Bodies) /\ decoder'.checks \in 0 .. CheckLimit - 1
      BY <1>1, <2>3, SizesKnown
    <3>4. Len(decoder'.buffer) < maximum_frame_size(policy') /\ policy' \in {"uart", "tcp", "usb"}
      BY <1>1, <1>4, <2>3 DEF DecoderTypeOK
    <3> QED
      BY <1>1, <3>1, <3>2, <3>3, <3>4 DEF DecoderTypeOK
  <2> QED
    BY <2>6, <2>7, <2>8, <2>9, <2>10 DEF DecoderInv
<1> QED
  BY <1>8, <1>9

(* EXCEPT, field by field.                                                  *)
LEMMA Filled ==
    ASSUME NEW d \in Decoders, NEW x
    PROVE  [d EXCEPT !.buffer = x] = [buffer |-> x, frames |-> d.frames, checks |-> d.checks]
  BY DEF Decoders

(* The parts of push: what it takes, what it adds that to, what comes of it.*)
Input(count) == SubSeq(wire, 1, count)
Kept == IF Expired THEN <<>> ELSE decoder.buffer
After(count) == decoded(policy, [decoder EXCEPT !.buffer = retained(Kept \o Input(count))])

(* What a push leaves: the decoder that the whole stream would have left.   *)
LEMMA PushedStream ==
    ASSUME DecoderInv, NEW count \in 1 .. read_size, count <= Len(wire),
           NEW input, input = Input(count), NEW after, after = After(count)
    PROVE  /\ after = decoded(policy, Buffered(stream \o input))
           /\ Clean(policy, after) /\ Len(after.buffer) < maximum_frame_size(policy)
           /\ Len(after.buffer) \in Nat
           /\ stream \o input \in Seq(Nat) /\ Plain(stream \o input)
<1>1. /\ decoder.buffer \in Seq(Nat) /\ Plain(decoder.buffer) /\ Len(decoder.buffer) \in Nat
      /\ decoder \in Decoders /\ Len(decoder.buffer) < maximum_frame_size(policy)
      /\ policy # "uart" => decoder.checks = 0
      /\ stream \in Seq(Nat) /\ Plain(stream) /\ wire \in Seq(Nat) /\ Plain(wire)
  BY BufferHeld
<1>2. Len(wire) \in Nat /\ read_size \in Nat /\ count \in Nat /\ count <= read_size /\ count \in 1..Len(wire)
  BY <1>1, DecoderAssumption DEF read_size
<1>3. input \in Seq(Nat) /\ Plain(input) /\ Len(input) = count
  BY <1>1, <1>2, Split DEF Input
<1>4. after = decoded(policy, Buffered(stream \o input))
  <2>1. CASE Expired
    <3>1. policy # "uart" /\ GivenUp /\ Kept = <<>>
      BY <2>1 DEF Kept, DecoderInv, InStep, Expired
    <3>2. stream = <<>> /\ decoder.frames = <<>> /\ decoder.checks = 0
      BY <1>1, <3>1 DEF GivenUp
    <3>3. Kept \o input = input /\ stream \o input = input
      BY <1>3, <3>1, <3>2
    <3>4. retained(Kept \o input) = input
      BY <3>1, <3>3 DEF retained
    <3>5. [decoder EXCEPT !.buffer = input] = Buffered(input)
      <4>1. [decoder EXCEPT !.buffer = input] =
              [buffer |-> input, frames |-> decoder.frames, checks |-> decoder.checks]
        BY <1>1, Filled
      <4> QED
        BY <3>2, <4>1 DEF Buffered
    <3> QED
      BY <3>3, <3>4, <3>5 DEF After
  <2>2. CASE ~Expired
    <3>1. InStep /\ Kept = decoder.buffer
      BY <2>2 DEF Kept, DecoderInv, GivenUp
    <3>2. decoder = decoded(policy, Buffered(stream))
      BY <3>1 DEF InStep
    <3> DEFINE joined == Kept \o input
    <3>3. Len(joined) = Len(decoder.buffer) + count
      <4>1. Len(decoder.buffer \o input) = Len(decoder.buffer) + Len(input)
        BY <1>1, <1>3, JoinedBytes
      <4> QED
        BY <1>3, <3>1, <4>1
    <3> HIDE DEF joined
    <3>4. policy = "uart" => Len(joined) < UartCapacity
      <4> SUFFICES ASSUME policy = "uart" PROVE Len(joined) < UartCapacity
        OBVIOUS
      <4>1. read_size = UartRead /\ maximum_frame_size(policy) = UartFrame
        BY DEF read_size, maximum_frame_size
      <4>2. UartFrame + UartRead <= UartCapacity /\ UartFrame \in Nat /\ UartRead \in Nat
            /\ UartCapacity \in Nat
        BY FrameSizesAssumption, DecoderAssumption
      <4> DEFINE n == Len(decoder.buffer)
      <4>3. n \in Nat /\ n < UartFrame /\ count <= UartRead /\ Len(joined) = n + count
        BY <1>1, <1>2, <3>3, <4>1
      <4> HIDE DEF n
      <4> QED
        BY <1>2, <4>2, <4>3
    <3>5. retained(joined) = joined
      <4>1. policy = "uart" => ~(Len(joined) >= UartCapacity)
        <5>1. Len(joined) \in Nat /\ UartCapacity \in Nat
          BY <1>1, <1>2, <3>3, DecoderAssumption
        <5> QED
          BY <3>4, <5>1
      <4> QED
        BY <4>1 DEF retained
    <3>6. [decoder EXCEPT !.buffer = joined] = Fed(decoder, input)
      BY <3>1 DEF joined, Fed
    <3>7. after = decoded(policy, Fed(decoded(policy, Buffered(stream)), input))
      BY <3>2, <3>5, <3>6 DEF joined, After
    <3>8. decoded(policy, Fed(decoded(policy, Buffered(stream)), input))
             = decoded(policy, Buffered(stream \o input))
      BY <1>1, <1>3, Pushed
    <3> QED
      BY <3>7, <3>8
  <2> QED
    BY <2>1, <2>2
<1>5. /\ Clean(policy, after) /\ Len(after.buffer) < maximum_frame_size(policy)
      /\ Len(after.buffer) \in Nat
  <2> DEFINE whole == decoded(policy, Buffered(stream \o input))
  <2>1. /\ Clean(policy, whole) /\ Len(whole.buffer) < maximum_frame_size(policy)
        /\ Len(whole.buffer) \in Nat
    BY <1>1, <1>3, Pushed
  <2> HIDE DEF whole
  <2>2. after = whole
    BY <1>4 DEF whole
  <2> QED
    BY <2>1, <2>2
<1>6. stream \o input \in Seq(Nat) /\ Plain(stream \o input)
  BY <1>1, <1>3, Pushed
<1> QED
  BY <1>4, <1>5, <1>6

(* Where a header is in the buffer before and after a push, it is the same. *)
SameHeader(count, after) ==
    ~BackToBack /\ policy = "usb" /\ InHeader(decoder.buffer) /\ InHeader(after.buffer)
        => Len(after.buffer) = Len(decoder.buffer) + count

(* push, in terms of its parts.                                             *)
LEMMA Pushing ==
    ASSUME NEW count, push(count), NEW after, after = After(count)
    PROVE  /\ decoder' = after /\ SameHeader(count, after)
           /\ StartDeadlines(after.buffer, IF Expired THEN None ELSE headerAge)
           /\ wire' = From(wire, count + 1) /\ stream' = stream \o Input(count)
           /\ opened' = IF InHeader(Kept) /\ Len(after.buffer) = Len(Kept) + count
                        THEN opened ELSE 0
           /\ policy' = policy /\ sentFrames' = sentFrames /\ noisy' = noisy
  BY DEF push, After, Input, Kept, SameHeader

FollowedBy(s, x) == s \o x

(* Bytes that follow others may be pushed with them, or after them.         *)
LEMMA Rejoined ==
    ASSUME NEW s \in Seq(Nat), NEW x \in Seq(Nat), NEW y \in Seq(Nat)
    PROVE  FollowedBy(FollowedBy(s, x), y) = FollowedBy(s, FollowedBy(x, y))
  BY Associative DEF FollowedBy

(* push: the frames are those of the whole stream, and the deadline that runs*)
(* began when the header in the buffer did, as BackToBack leaves out the pushes*)
(* after which it would not have.                                           *)
LEMMA PushKeeps ==
    ASSUME ~BackToBack, DecoderInv, NEW count \in 1 .. read_size, count <= Len(wire), push(count)
    PROVE  DecoderInv'
<1> DEFINE after == After(count)
           input == Input(count)
<1>1. /\ decoder' = after /\ SameHeader(count, after)
      /\ StartDeadlines(after.buffer, IF Expired THEN None ELSE headerAge)
      /\ wire' = From(wire, count + 1) /\ stream' = stream \o input
      /\ opened' = (IF InHeader(Kept) /\ Len(after.buffer) = Len(Kept) + count
                    THEN opened ELSE 0)
      /\ policy' = policy /\ sentFrames' = sentFrames /\ noisy' = noisy
  BY Pushing
<1>2. /\ after = decoded(policy, Buffered(stream \o input))
      /\ Clean(policy, after) /\ Len(after.buffer) < maximum_frame_size(policy)
      /\ Len(after.buffer) \in Nat
      /\ stream \o input \in Seq(Nat) /\ Plain(stream \o input)
  BY PushedStream
<1>3. DecoderTypeOK /\ Ages /\ Sent
  BY DEF DecoderInv
<1>4. /\ HeaderLimit \in Nat /\ BodyLimit \in Nat /\ None = -1
      /\ headerAge \in Int /\ headerAge >= -1 /\ headerAge <= HeaderLimit + 1
      /\ opened \in Nat /\ opened <= HeaderLimit
  BY <1>3, Ticks
<1>5. ~(InHeader(after.buffer) /\ InBody(after.buffer))
  BY <1>2, Candidates
<1>6. stream \in Seq(Nat) /\ wire \in Seq(Nat) /\ Plain(wire)
  BY BufferHeld
<1>7. /\ input \in Seq(Nat) /\ From(wire, count + 1) \in Seq(Nat) /\ Plain(From(wire, count + 1))
      /\ input \o From(wire, count + 1) = wire
  <2>1. count \in 1..Len(wire)
    <3>1. Len(wire) \in Nat /\ read_size \in Nat
      BY <1>6, DecoderAssumption DEF read_size
    <3> QED
      BY <3>1
  <2> QED
    BY <1>6, <2>1, Split DEF Input
<1> HIDE DEF after, input
<1>8. /\ headerAge' # None <=> policy = "usb" /\ InHeader(after.buffer)
      /\ bodyAge' # None <=> policy = "usb" /\ InBody(after.buffer)
      /\ bodyAge' \in {None, 0}
      /\ headerAge' \in {None, 0, headerAge}
      /\ headerAge' # None => headerAge' = opened'
  <2>1. /\ headerAge' = (IF policy = "usb" /\ InHeader(after.buffer)
                         THEN IF (IF Expired THEN None ELSE headerAge) = None
                              THEN 0 ELSE IF Expired THEN None ELSE headerAge
                         ELSE None)
        /\ bodyAge' = (IF policy = "usb" /\ InBody(after.buffer) THEN 0 ELSE None)
    BY <1>1 DEF StartDeadlines
  <2>2. bodyAge' \in {None, 0} /\ (bodyAge' # None <=> policy = "usb" /\ InBody(after.buffer))
    BY <1>4, <2>1
  <2>3. CASE ~(policy = "usb" /\ InHeader(after.buffer))
    BY <2>1, <2>2, <2>3
  <2>4. CASE policy = "usb" /\ InHeader(after.buffer)
    <3>1. CASE Expired
      <4>1. headerAge' = 0
        BY <2>1, <2>4, <3>1
      <4>2. ~InHeader(Kept)
        BY <3>1 DEF Kept, InHeader, HeaderSize
      <4>3. opened' = 0
        BY <1>1, <4>2
      <4> QED
        BY <1>4, <2>2, <2>4, <4>1, <4>3
    <3>2. CASE ~Expired
      <4>1. Kept = decoder.buffer
        BY <3>2 DEF Kept
      <4>2. CASE headerAge = None
        <5>1. ~InHeader(decoder.buffer)
          BY <1>3, <2>4, <4>2 DEF Ages
        <5>2. headerAge' = 0 /\ opened' = 0
          BY <1>1, <2>1, <2>4, <3>2, <4>1, <4>2, <5>1
        <5> QED
          BY <1>4, <2>2, <2>4, <5>2
      <4>3. CASE headerAge # None
        <5>1. InHeader(decoder.buffer) /\ headerAge = opened
          BY <1>3, <2>4, <3>2, <4>3 DEF Ages
        <5>2. Len(after.buffer) = Len(decoder.buffer) + count
          BY <1>1, <2>4, <5>1 DEF SameHeader
        <5>3. headerAge' = headerAge /\ opened' = opened
          BY <1>1, <2>1, <2>4, <3>2, <4>1, <4>3, <5>1, <5>2
        <5> QED
          BY <2>2, <2>4, <4>3, <5>1, <5>3
      <4> QED
        BY <4>2, <4>3
    <3> QED
      BY <3>1, <3>2
  <2> QED
    BY <2>3, <2>4
<1>9. opened' \in 0 .. HeaderLimit
  <2>1. opened' = opened \/ opened' = 0
    BY <1>1
  <2> QED
    BY <1>4, <2>1
<1>10. ~Expired'
  <2>1. headerAge' # None => ~(headerAge' > HeaderLimit)
    <3> SUFFICES ASSUME headerAge' # None PROVE ~(headerAge' > HeaderLimit)
      OBVIOUS
    <3>1. headerAge' = opened'
      BY <1>8
    <3> QED
      BY <1>4, <1>9, <3>1
  <2>2. ~(bodyAge' > BodyLimit)
    BY <1>4, <1>8
  <2>3. headerAge' = None => ~(headerAge' > HeaderLimit)
    BY <1>4
  <2> QED
    BY <2>1, <2>2, <2>3 DEF Expired
<1>11. InStep'
  BY <1>1, <1>2, <1>10 DEF InStep
<1>12. Ages'
  BY <1>1, <1>8 DEF Ages
<1>13. Bytes'
  BY <1>1, <1>2, <1>7 DEF Bytes
<1>14. Sent'
  <2>1. (stream \o input) \o From(wire, count + 1) = stream \o wire
    <3> DEFINE rest == From(wire, count + 1)
    <3>1. stream \in Seq(Nat) /\ input \in Seq(Nat) /\ rest \in Seq(Nat)
      BY <1>6, <1>7
    <3>2. wire = FollowedBy(input, rest)
      BY <1>7 DEF FollowedBy
    <3> HIDE DEF rest
    <3>3. FollowedBy(FollowedBy(stream, input), rest) = FollowedBy(stream, wire)
      BY <3>1, <3>2, Rejoined
    <3> QED
      BY <3>3 DEF FollowedBy, rest
  <2>2. stream' \o wire' = stream \o wire
    BY <1>1, <2>1
  <2>3. decoded(policy', Buffered(stream' \o wire')) = decoded(policy, Buffered(stream \o wire))
    BY <1>1, <2>2
  <2> QED
    BY <1>1, <1>3, <2>3 DEF Sent, Delivered
<1>15. DecoderTypeOK'
  <2>1. headerAge' \in None .. HeaderLimit + 1 /\ bodyAge' \in None .. BodyLimit + 1
    BY <1>4, <1>8
  <2>2. after \in Decoders
    BY <1>2 DEF Clean
  <2>3. {wire', stream', decoder'.buffer} \subseteq Seq(Nat) /\ decoder'.checks \in 0 .. CheckLimit - 1
    BY <1>1, <1>2, <1>7, <2>2 DEF Decoders
  <2>4. Len(decoder'.buffer) < maximum_frame_size(policy')
    BY <1>1, <1>2
  <2> QED
    BY <1>1, <1>3, <1>9, <2>1, <2>3, <2>4 DEF DecoderTypeOK
<1> QED
  BY <1>11, <1>12, <1>13, <1>14, <1>15 DEF DecoderInv

(* Every step keeps the invariant.                                          *)
LEMMA DecoderStep ==
    ASSUME ~BackToBack, ~HeaderSilence, DecoderInv, [DecoderNext]_decoderVars
    PROVE  DecoderInv'
<1>1. CASE UNCHANGED decoderVars
  <2>1. UNCHANGED <<policy, wire, sentFrames, noisy, stream, decoder, headerAge, bodyAge, opened>>
    BY <1>1 DEF decoderVars
  <2> QED
    BY <2>1 DEF DecoderInv, DecoderTypeOK, Bytes, InStep, GivenUp, Expired, Ages, Sent, Delivered
<1>2. ASSUME NEW count \in 1 .. read_size, count <= Len(wire), push(count)
      PROVE  DecoderInv'
  BY <1>2, PushKeeps
<1>3. ASSUME NEW body \in Bodies, Send(body) PROVE DecoderInv'
  BY <1>3, SendKeeps
<1>4. ASSUME NEW body \in Bodies, NEW count \in 1 .. Len(encode_frame(body)) - 1,
             SendPiece(body, count)
      PROVE  DecoderInv'
  BY <1>4, PieceKeeps
<1>5. CASE HostPauses
  BY <1>5, PauseKeeps
<1>6. CASE FallsSilent
  BY <1>6, SilentKeeps
<1>7. CASE reset
  BY <1>7, ResetKeeps
<1> QED
  BY <1>1, <1>2, <1>3, <1>4, <1>5, <1>6, <1>7 DEF DecoderNext

(* The invariant contains DecoderFaithful.                                  *)
LEMMA DecoderShown ==
    ASSUME DecoderInv
    PROVE  DecoderFaithful
<1>1. decoder.frames = decoded(policy, [Fresh EXCEPT !.buffer = stream]).frames
  <2>1. stream \in Seq(Nat)
    BY BufferHeld
  <2>2. [Fresh EXCEPT !.buffer = stream] = Buffered(stream)
    BY <2>1, BufferedFacts
  <2>3. CASE InStep
    BY <2>2, <2>3 DEF InStep
  <2>4. CASE GivenUp
    <3>1. stream = <<>> /\ decoder.frames = <<>>
      BY <2>4 DEF GivenUp
    <3>2. decoded(policy, Buffered(stream)).frames = <<>>
      BY <3>1, EmptyStream
    <3> QED
      BY <2>2, <3>1, <3>2
  <2> QED
    BY <2>3, <2>4 DEF DecoderInv
<1>2. \A i \in DOMAIN decoder.frames : decoder.frames[i] \in Bodies
  <2>1. decoder.frames \in Seq(Bodies)
    BY DEF DecoderInv, Bytes, Clean
  <2> QED
    BY <2>1
<1>3. ~noisy /\ wire = <<>> => decoder.frames = sentFrames
  <2> SUFFICES ASSUME ~noisy, wire = <<>> PROVE decoder.frames = sentFrames
    OBVIOUS
  <2>1. stream \in Seq(Nat)
    BY BufferHeld
  <2>2. stream \o wire = stream
    BY <2>1
  <2>3. decoded(policy, Buffered(stream)).frames = sentFrames
    BY <2>2 DEF DecoderInv, Sent, Delivered
  <2>4. [Fresh EXCEPT !.buffer = stream] = Buffered(stream)
    BY <2>1, BufferedFacts
  <2> QED
    BY <1>1, <2>3, <2>4
<1> QED
  BY <1>1, <1>2, <1>3 DEF DecoderFaithful

(* DecoderFaithful: for all sizes, limits and policies, the frames are those of*)
(* the whole stream, only frames that were sent come out, and without pieces all*)
(* of them do (StreamDecoder::push).  Two things about the deadlines of USB are*)
(* assumed away, each of which breaks it: a second header that goes on the  *)
(* deadline of the one before, and a silence right between header and body. *)
THEOREM FramesAreFaithful ==
    ASSUME ~BackToBack, ~HeaderSilence
    PROVE  DecoderSpec => []DecoderFaithful
<1>1. DecoderInit => DecoderInv
  BY DecoderStart
<1>2. DecoderInv /\ [DecoderNext]_decoderVars => DecoderInv'
  BY DecoderStep
<1>3. DecoderInv => DecoderFaithful
  BY DecoderShown
<1> QED
  BY <1>1, <1>2, <1>3, PTL DEF DecoderSpec

(* Every variable keeps its type.  The buffer is always shorter than the longest*)
(* frame (undecoded_, buffer_), so that the UART never throws bytes away that*)
(* could still be part of one (controller_uart's overflow).                 *)
THEOREM DecoderTypes ==
    ASSUME ~BackToBack, ~HeaderSilence
    PROVE  DecoderSpec => []DecoderTypeOK
<1>1. DecoderInit => DecoderInv
  BY DecoderStart
<1>2. DecoderInv /\ [DecoderNext]_decoderVars => DecoderInv'
  BY DecoderStep
<1>3. DecoderInv => DecoderTypeOK
  BY DEF DecoderInv
<1> QED
  BY <1>1, <1>2, <1>3, PTL DEF DecoderSpec

-----------------------------------------------------------------------------
(* The files that the controller fetches.                                   *)

(* The places of a file that are not passed over are finitely many, and a   *)
(* record has fewer records before it than there are.                       *)
LEMMA PlacesCounted ==
    ASSUME NEW n \in Nat, DOMAIN file \subseteq 1..n, NEW K
    PROVE  /\ Pieces(K) \subseteq 1..n /\ IsFiniteSet(Pieces(K))
           /\ Cardinality(Pieces(K)) \in 0..n
<1>1. Pieces(K) \subseteq 1..n
  BY DEF Pieces
<1>2. 1 \in Int /\ n \in Int /\ IsFiniteSet(1..n) /\ Cardinality(1..n) = n
  <2>1. Cardinality(1..n) = IF 1 > n THEN 0 ELSE n - 1 + 1
    BY FS_Interval
  <2> QED
    BY <2>1, FS_Interval
<1>3. IsFiniteSet(Pieces(K)) /\ Cardinality(Pieces(K)) <= n
  BY <1>1, <1>2, FS_Subset
<1>4. Cardinality(Pieces(K)) \in Nat
  BY <1>3, FS_CardinalityType
<1> QED
  BY <1>1, <1>3, <1>4

LEMMA RecordsBefore ==
    ASSUME NEW n \in Nat, DOMAIN file \subseteq 1..n, NEW p \in Pieces(eligible)
    PROVE  Before(p) \in Nat /\ Before(p) < Cardinality(Pieces(eligible))
<1>1. Pieces(eligible) \subseteq 1..n /\ IsFiniteSet(Pieces(eligible))
      /\ Cardinality(Pieces(eligible)) \in Nat
  BY PlacesCounted
<1>2. PICK B : B = {r \in Pieces(eligible) : r < p}
  OBVIOUS
<1>3. B \subseteq Pieces(eligible) /\ p \notin B
  BY <1>1, <1>2
<1>4. IsFiniteSet(B) /\ Cardinality(B) \in Nat /\ Cardinality(B) <= Cardinality(Pieces(eligible))
      /\ (Cardinality(Pieces(eligible)) = Cardinality(B) => Pieces(eligible) = B)
  BY <1>1, <1>3, FS_Subset, FS_CardinalityType
<1>5. Before(p) = Cardinality(B)
  BY <1>2 DEF Before
<1> QED
  BY <1>1, <1>3, <1>4, <1>5

(* While frames are exchanged the controller was told of as many as the     *)
(* file counts, and has the records up to the last it asked for.            *)
Exchanging == reply \in {"geometry", "data", "silence"}
FramesTold ==
    Exchanging => ready /\ told = Cardinality(Pieces(counted)) /\ got \subseteq Pieces(eligible)
RecordsReached ==
    Exchanging /\ exchange = "configuration" /\ asked # 0 =>
        \A p \in Pieces(eligible) : Before(p) <= asked => p \in got
NothingAsked ==
    /\ reply = "start" => asked = 0 /\ got = {}
    /\ reply \in {"data", "silence"} => asked # 0
RecInv ==
    /\ RecTypeOK /\ FramesTold /\ RecordsReached /\ NothingAsked
    /\ stale = FALSE /\ lostFile = FALSE

LEMMA FilesBounded ==
    ASSUME NEW x, NEW f \in RecordFiles(x) PROVE DOMAIN f \subseteq 1..MaxPieces
<1>1. ASSUME NEW S, f \in BoundedSeq(S, MaxPieces) PROVE DOMAIN f \subseteq 1..MaxPieces
  <2>1. PICK m \in 0..MaxPieces : f \in [1..m -> S]
    BY <1>1 DEF BoundedSeq, SeqOf
  <2> QED
    BY <2>1, RecordsAssumption
<1> QED
  BY <1>1 DEF RecordFiles, ConfigurationFiles, FactoryFiles

LEMMA RecStarts == RecInit => RecInv
<1> SUFFICES ASSUME RecInit PROVE RecInv
  OBVIOUS
<1>1. recActive \in BOOLEAN /\ ready \in BOOLEAN /\ stale \in BOOLEAN /\ lostFile \in BOOLEAN
      /\ stale = FALSE /\ lostFile = FALSE
  BY Zenon DEF RecInit
<1>2. reply = "none" /\ told = 0 /\ asked = 0 /\ got = {} /\ present \in BOOLEAN
      /\ exchange \in {"configuration", "factory"} /\ file \in RecordFiles(exchange)
  BY DEF RecInit
<1>3. RecTypeOK
  BY <1>1, <1>2, RecordsAssumption DEF RecTypeOK
<1>4. FramesTold /\ RecordsReached /\ NothingAsked
  BY <1>2 DEF FramesTold, RecordsReached, NothingAsked, Exchanging
<1> QED
  BY <1>1, <1>3, <1>4 DEF RecInv

(* A frame of the configuration holds the record it begins with, and the    *)
(* first frame the first two.                                               *)
LEMMA FrameHolds ==
    ASSUME DOMAIN file \subseteq 1..MaxPieces, NEW i \in Nat \ {0},
           NEW F \in ConfigurationRecords(i)
    PROVE  /\ F \subseteq Pieces(eligible)
           /\ \A p \in Pieces(eligible) :
                 (Before(p) = i \/ (i = 1 /\ Before(p) <= 1)) => p \in F
<1> DEFINE skip == IF i <= 1 THEN 0 ELSE i
           left == {r \in Pieces(eligible) : Before(r) >= skip}
<1>1. PICK n \in 0..Cardinality(left) :
        /\ n >= PerFrame \/ n = Cardinality(left)
        /\ F = {r \in left : Before(r) < skip + n}
  BY DEF ConfigurationRecords
<1>2. F \subseteq Pieces(eligible)
  BY <1>1
<1>3. IsFiniteSet(Pieces(eligible)) /\ MaxPieces \in Nat
      /\ PerFrame \in Nat /\ PerFrame >= 2
  BY PlacesCounted, RecordsAssumption
<1>4. IsFiniteSet(left) /\ Cardinality(left) \in Nat
  BY <1>3, FS_Subset, FS_CardinalityType
<1>5. ASSUME NEW p \in Pieces(eligible), Before(p) = i \/ (i = 1 /\ Before(p) <= 1)
      PROVE  p \in F
  <2>1. Before(p) \in Nat /\ Before(p) < Cardinality(Pieces(eligible))
    BY <1>3, RecordsBefore
  <2>2. CASE i = 1
    <3>1. skip = 0
      BY <2>2
    <3>2. \A r \in Pieces(eligible) : Before(r) >= 0
      BY <1>3, RecordsBefore
    <3>3. left = Pieces(eligible)
      BY <3>1, <3>2
    <3>4. Before(p) <= 1
      BY <1>5, <2>2
    <3>5. Before(p) < n
      BY <1>1, <1>3, <1>4, <2>1, <3>3, <3>4
    <3> QED
      BY <1>1, <1>4, <2>1, <3>1, <3>3, <3>5
  <2>3. CASE i # 1
    <3>1. skip = i /\ Before(p) = i
      BY <1>5, <2>3
    <3>2. p \in left
      BY <3>1
    <3>3. Cardinality(left) # 0
      BY <1>4, <3>2, FS_EmptySet
    <3>4. n > 0
      BY <1>1, <1>3, <1>4, <3>3
    <3> QED
      BY <1>1, <3>1, <3>2, <3>4
  <2> QED
    BY <2>2, <2>3
<1> QED
  BY <1>2, <1>5

(* The controller asks for a frame.                                         *)
LEMMA RecDataKeeps ==
    ASSUME RecInv, RecData PROVE RecInv'
<1>0. /\ RecTypeOK /\ FramesTold /\ RecordsReached /\ NothingAsked
      /\ stale = FALSE /\ lostFile = FALSE
  BY DEF RecInv
<1>1. /\ Exchanging /\ asked < told /\ asked' = asked + 1
      /\ UNCHANGED <<exchange, file, present, recActive, ready, told, stale, lostFile>>
      /\ \/ \E F \in Selections(asked + 1) :
               \/ reply' = "data" /\ got' = got \cup F
               \/ reply' = "silence" /\ got' = got /\ F = {}
         \/ reply' = "cancel" /\ got' = got
  BY <1>0 DEF RecData, Exchanging, FramesTold
<1>2. ready /\ told = Cardinality(Pieces(counted)) /\ got \subseteq Pieces(eligible)
  BY <1>0, <1>1 DEF FramesTold
<1>3. MaxPieces \in Nat /\ told \in 0..MaxPieces /\ asked \in Nat /\ asked + 1 \in Nat \ {0}
      /\ asked' \in 0..told
  BY <1>0, <1>1, RecordsAssumption DEF RecTypeOK
<1>4. DOMAIN file \subseteq 1..MaxPieces
  BY <1>0, FilesBounded DEF RecTypeOK
<1>5. Pieces(eligible) \subseteq 1..MaxPieces
  BY <1>3, <1>4, PlacesCounted
<1>6. \A F \in Selections(asked + 1) : F \subseteq Pieces(eligible)
  BY <1>3, <1>4, FrameHolds DEF Selections, FactoryRecord
<1>7. got' \subseteq Pieces(eligible) /\ got \subseteq got'
      /\ reply' \in {"data", "silence", "cancel"}
  BY <1>1, <1>2, <1>6
<1>8. RecTypeOK'
  <2>1. got' \subseteq 1..MaxPieces
    BY <1>5, <1>7
  <2> QED
    BY <1>0, <1>1, <1>3, <1>7, <2>1 DEF RecTypeOK
<1>9. Pieces(eligible)' = Pieces(eligible) /\ Pieces(counted)' = Pieces(counted)
      /\ \A p : Before(p)' = Before(p)
  BY <1>1 DEF Pieces, Before, eligible, counted
<1>10. FramesTold'
  BY <1>1, <1>2, <1>7, <1>9 DEF FramesTold
<1>11. NothingAsked'
  BY <1>1, <1>3, <1>7 DEF NothingAsked
<1>12. RecordsReached'
  <2> SUFFICES ASSUME reply' \in {"data", "silence"}, exchange = "configuration",
                      NEW p \in Pieces(eligible), Before(p) <= asked + 1
               PROVE  p \in got'
    BY <1>1, <1>7, <1>9 DEF RecordsReached, Exchanging
  <2>1. PICK F \in ConfigurationRecords(asked + 1) : got' = got \cup F
    BY <1>1 DEF Selections
  <2>2. Before(p) \in Nat
    BY <1>3, <1>4, RecordsBefore
  <2>3. CASE Before(p) = asked + 1 \/ (asked + 1 = 1 /\ Before(p) <= 1)
    BY <1>3, <1>4, <2>1, <2>3, FrameHolds
  <2>4. CASE Before(p) <= asked /\ asked # 0
    BY <1>0, <1>1, <1>7, <2>4 DEF RecordsReached
  <2> QED
    BY <1>3, <2>2, <2>3, <2>4
<1> QED
  BY <1>0, <1>1, <1>8, <1>10, <1>11, <1>12 DEF RecInv

(* The exchange starts, is laid out, completes or is given up, and a host   *)
(* changes the file.                                                        *)
LEMMA RecOtherKeeps ==
    ASSUME RecInv, ~FilesChange,
           \/ RecStart \/ RecComplete \/ RecCancel
           \/ \E acceptable \in BOOLEAN : RecGeometry(acceptable)
           \/ \E pieces \in RecordFiles(exchange) : HostChanges(pieces)
    PROVE  RecInv'
<1>0. /\ RecTypeOK /\ FramesTold /\ RecordsReached /\ NothingAsked
      /\ stale = FALSE /\ lostFile = FALSE
  BY DEF RecInv
<1>a. MaxPieces \in Nat /\ 0 \in 0..MaxPieces /\ 0 \in 0..0
  BY RecordsAssumption
<1>b. DOMAIN file \subseteq 1..MaxPieces
  BY <1>0, FilesBounded DEF RecTypeOK
<1>c. << >> \in RecordFiles(exchange)
  <2>1. \A S : << >> \in [1..0 -> S]
    OBVIOUS
  <2>2. \A S : << >> \in BoundedSeq(S, MaxPieces)
    BY <1>a, <2>1 DEF BoundedSeq, SeqOf
  <2> QED
    BY <2>2 DEF RecordFiles, ConfigurationFiles, FactoryFiles
<1>d. ASSUME reply' \in {"none", "start", "cancel"}, reply' = "start" => asked' = 0 /\ got' = {}
      PROVE  FramesTold' /\ RecordsReached' /\ NothingAsked'
  BY <1>d DEF FramesTold, RecordsReached, NothingAsked, Exchanging
<1>1. CASE RecStart
  <2>1. /\ reply' \in {"start", "cancel"} /\ told' = 0 /\ asked' = 0 /\ got' = {}
        /\ UNCHANGED <<exchange, file, present, ready, lostFile>>
    BY <1>1 DEF RecStart, Replies
  <2>2. recActive' \in BOOLEAN /\ stale' \in BOOLEAN /\ stale' = FALSE
    BY <1>1, Zenon DEF RecStart
  <2>3. RecTypeOK'
    BY <1>0, <1>a, <2>1, <2>2 DEF RecTypeOK
  <2> QED
    BY <1>0, <1>d, <2>1, <2>2, <2>3 DEF RecInv
<1>2. CASE RecComplete
  <2>1. /\ reply = "data" /\ (exchange = "factory" => Cardinality(got) = told)
        /\ reply' = "none" /\ UNCHANGED <<exchange, told, asked, got, stale>>
    BY <1>2 DEF RecComplete, finish
  <2>2. recActive' \in BOOLEAN /\ ready' \in BOOLEAN
    BY <1>2, Zenon DEF RecComplete, finish
  <2>3. exchange = "factory" => ~Undelivered
    <3> SUFFICES ASSUME exchange = "factory" PROVE ~Undelivered
      OBVIOUS
    <3>1. told = Cardinality(Pieces(counted)) /\ got \subseteq Pieces(eligible)
      BY <1>0, <2>1 DEF FramesTold, Exchanging
    <3>2. counted = eligible
      BY DEF counted
    <3>3. Cardinality(Pieces(eligible)) = Cardinality(got)
      BY <2>1, <3>1, <3>2
    <3>4. IsFiniteSet(Pieces(eligible))
      BY <1>a, <1>b, PlacesCounted
    <3>5. got = Pieces(eligible)
      BY <3>1, <3>3, <3>4, FS_Subset
    <3> QED
      BY <1>0, <3>5 DEF Undelivered
  <2>4. /\ present' \in BOOLEAN /\ lostFile' = FALSE
        /\ file' \in RecordFiles(exchange)
    <3>1. CASE UNCHANGED <<present, file, lostFile>>
      BY <1>0, <3>1 DEF RecTypeOK
    <3>2. CASE /\ exchange = "factory" /\ present' = FALSE /\ file' = <<>>
               /\ lostFile' = (lostFile \/ Undelivered)
      <4>1. lostFile' = FALSE /\ present' \in BOOLEAN
        BY <1>0, <2>3, <3>2, Zenon
      <4> QED
        BY <1>c, <3>2, <4>1
    <3> QED
      BY <1>2, <3>1, <3>2 DEF RecComplete
  <2>5. RecTypeOK'
    BY <1>0, <2>1, <2>2, <2>4 DEF RecTypeOK
  <2> QED
    BY <1>0, <1>d, <2>1, <2>4, <2>5 DEF RecInv
<1>3. CASE RecCancel
  <2>1. /\ reply' = "none"
        /\ UNCHANGED <<exchange, file, present, told, asked, got, stale, lostFile>>
    BY <1>3 DEF RecCancel, finish
  <2>2. recActive' \in BOOLEAN /\ ready' \in BOOLEAN
    BY <1>3, Zenon DEF RecCancel, finish
  <2>3. RecTypeOK'
    BY <1>0, <2>1, <2>2 DEF RecTypeOK
  <2> QED
    BY <1>0, <1>d, <2>1, <2>3 DEF RecInv
<1>4. ASSUME NEW acceptable \in BOOLEAN, RecGeometry(acceptable) PROVE RecInv'
  <2>1. /\ reply = "start"
        /\ UNCHANGED <<exchange, file, present, recActive, asked, got, stale, lostFile>>
        /\ \/ ready' = TRUE /\ reply' \in {"geometry", "cancel"} /\ told' = Cardinality(Pieces(counted))
           \/ reply' = "cancel" /\ UNCHANGED <<ready, told>>
    BY <1>4 DEF RecGeometry, Replies
  <2>2. asked = 0 /\ got = {}
    BY <1>0, <2>1 DEF NothingAsked
  <2>3. Cardinality(Pieces(counted)) \in 0..MaxPieces
    BY <1>a, <1>b, PlacesCounted
  <2>4. ready' \in BOOLEAN /\ reply' \in {"geometry", "cancel"} /\ told' \in 0..MaxPieces
    <3>1. ready \in BOOLEAN
      BY <1>0 DEF RecTypeOK
    <3> QED
      BY <1>0, <2>1, <2>3, <3>1 DEF RecTypeOK
  <2>5. asked' \in 0..told'
    BY <1>a, <2>1, <2>2, <2>4
  <2>6. RecTypeOK'
    BY <1>0, <2>1, <2>4, <2>5 DEF RecTypeOK
  <2>7. Pieces(eligible)' = Pieces(eligible) /\ Pieces(counted)' = Pieces(counted)
    BY <2>1 DEF Pieces, eligible, counted
  <2>8. FramesTold' /\ RecordsReached' /\ NothingAsked'
    BY <2>1, <2>2, <2>4, <2>7 DEF FramesTold, RecordsReached, NothingAsked, Exchanging
  <2> QED
    BY <1>0, <2>1, <2>6, <2>8 DEF RecInv
<1>5. ASSUME NEW f \in RecordFiles(exchange), HostChanges(f) PROVE RecInv'
  <2>1. /\ reply = "none" /\ file' = f
        /\ UNCHANGED <<exchange, recActive, ready, reply, told, asked, got, lostFile>>
    BY <1>5 DEF HostChanges
  <2>2. stale' = FALSE /\ stale' \in BOOLEAN /\ present' \in BOOLEAN
    <3>1. stale' = (stale \/ reply # "none") /\ present' = TRUE
      BY <1>5 DEF HostChanges
    <3> QED
      BY <1>0, <2>1, <3>1, Zenon
  <2>3. RecTypeOK'
    BY <1>0, <1>5, <2>1, <2>2 DEF RecTypeOK
  <2> QED
    BY <1>0, <1>d, <2>1, <2>2, <2>3 DEF RecInv
<1> QED
  BY <1>1, <1>2, <1>3, <1>4, <1>5

(* Every step of the controller and of the firmware.                       *)
LEMMA RecStep ==
    ASSUME ~FilesChange
    PROVE  RecInv /\ [RecNext]_recVars => RecInv'
<1> SUFFICES ASSUME RecInv, [RecNext]_recVars PROVE RecInv'
  OBVIOUS
<1>1. CASE UNCHANGED recVars
  BY <1>1 DEF recVars, RecInv, RecTypeOK, FramesTold, RecordsReached, NothingAsked, Exchanging,
     Pieces, Before, eligible, counted
<1> QED
  BY <1>1, RecDataKeeps, RecOtherKeeps DEF RecNext

(* The controller has every record of a file before the file is done with,  *)
(* for files of any size and any number of records to a frame from two up,  *)
(* when no host replaces the file during its transfer                       *)
(* (ControllerConfigTransfer::handle_data, ControllerFactoryTransfer).      *)
THEOREM ControllerGetsRecords ==
    ASSUME ~FilesChange
    PROVE  RecSpec => []RecordsDelivered
<1>1. RecInv => RecordsDelivered
  <2> SUFFICES ASSUME RecInv PROVE RecordsDelivered
    OBVIOUS
  <2>1. /\ RecTypeOK /\ FramesTold /\ RecordsReached /\ NothingAsked /\ lostFile = FALSE
    BY DEF RecInv
  <2>2. NoRecordSkipped
    <3> SUFFICES ASSUME exchange = "configuration", reply \in {"data", "silence"}, asked = told,
                        NEW p \in Pieces(eligible)
                 PROVE  p \in got
      BY DEF NoRecordSkipped
    <3>1. MaxPieces \in Nat /\ DOMAIN file \subseteq 1..MaxPieces
      BY <2>1, FilesBounded, RecordsAssumption DEF RecTypeOK
    <3>2. told = Cardinality(Pieces(counted)) /\ asked # 0
      BY <2>1 DEF FramesTold, NothingAsked, Exchanging
    <3>3. Pieces(eligible) \subseteq Pieces(counted)
      BY DEF Pieces, counted
    <3>4. IsFiniteSet(Pieces(counted)) /\ Cardinality(Pieces(counted)) \in Nat
      BY <3>1, PlacesCounted
    <3>5. Cardinality(Pieces(eligible)) <= told /\ Cardinality(Pieces(eligible)) \in Nat
      BY <3>1, <3>2, <3>3, <3>4, FS_Subset, PlacesCounted
    <3>6. Before(p) <= asked
      BY <3>1, <3>2, <3>4, <3>5, RecordsBefore
    <3> QED
      BY <2>1, <3>2, <3>6 DEF RecordsReached, Exchanging
  <2> QED
    BY <2>1, <2>2, Zenon DEF RecordsDelivered, FactoryDataDelivered
<1>2. RecInv /\ [RecNext]_recVars => RecInv'
  BY RecStep
<1> QED
  BY <1>1, <1>2, RecStarts, PTL DEF RecSpec
=============================================================================
