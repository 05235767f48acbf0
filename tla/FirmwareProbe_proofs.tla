------------------------ MODULE FirmwareProbe_proofs ------------------------
(***************************************************************************)
(* What holds of the serial line, its reader and the programs that use it, *)
(* for frames of all lengths and any number of them, and for any number of *)
(* retries and time-outs.                                                  *)
(***************************************************************************)
EXTENDS FirmwareProbe, RecordFile_proofs

-----------------------------------------------------------------------------
(* Bytes, frames and pieces of the stream. *)

ByteOfFrame == [frame : Nat, at : Nat, value : 0..(Byte - 1)]

\* The frames that have been sent look like frames: each byte knows its place.
WellFormed(fs) ==
    \A n \in DOMAIN fs :
      LET f == fs[n] IN
        /\ f \in Seq(ByteOfFrame) /\ Len(f) >= 5 /\ Len(f) < Byte
        /\ \A k \in DOMAIN f : f[k].frame = n /\ f[k].at = k
        /\ f[1].value = SOF
        /\ f[2].value = Len(f) - 5 /\ f[2].value \in Lengths

\* Bytes of s that come after byte x in its frame.
LeftOf(fs, x) == Len(fs[x.frame]) - x.at

\* A piece of the stream that reaches to its end: its bytes are bytes of the
\* frames; for as long as a frame lasts they are that frame's, in order; then
\* comes the next frame.
Piece(fs, s) ==
    /\ \A i \in DOMAIN s : /\ s[i].frame \in DOMAIN fs /\ s[i].at \in DOMAIN fs[s[i].frame]
                           /\ s[i] = fs[s[i].frame][s[i].at]
    /\ \A i, j \in DOMAIN s : i <= j =>
         /\ j - i <= LeftOf(fs, s[i]) => s[j].frame = s[i].frame /\ s[j].at = s[i].at + (j - i)
         /\ j - i = LeftOf(fs, s[i]) + 1 => s[j].frame = s[i].frame + 1 /\ s[j].at = 1
    /\ s # <<>> => s[Len(s)].frame = Len(fs) /\ s[Len(s)].at = Len(fs[Len(fs)])

\* Without its first m bytes.
From(s, m) == SubSeq(s, m + 1, Len(s))

LEMMA FromProperties ==
    ASSUME NEW R, NEW s \in Seq(R), NEW m \in 0..Len(s)
    PROVE  /\ From(s, m) \in Seq(R) /\ Len(From(s, m)) = Len(s) - m
           /\ \A i \in 1..(Len(s) - m) : From(s, m)[i] = s[m + i]
<1>1. Len(s) \in Nat /\ \A i \in 1..Len(s) : s[i] \in R
  BY LenProperties, ElementOfSeq
<1>2. \A i \in (m + 1)..Len(s) : s[i] \in R
  BY <1>1
<1>3. /\ From(s, m) \in Seq(R)
      /\ Len(From(s, m)) = IF m + 1 <= Len(s) THEN Len(s) - (m + 1) + 1 ELSE 0
      /\ \A i \in 1..(Len(s) - (m + 1) + 1) : From(s, m)[i] = s[(m + 1) + i - 1]
  BY <1>1, <1>2, SubSeqProperties DEF From
<1>4. Len(From(s, m)) = Len(s) - m
  BY <1>1, <1>3
<1>5. ASSUME NEW i \in 1..(Len(s) - m) PROVE From(s, m)[i] = s[m + i]
  <2>1. i \in 1..(Len(s) - (m + 1) + 1) /\ (m + 1) + i - 1 = m + i
    BY <1>1
  <2> QED
    BY <1>3, <2>1
<1> QED
  BY <1>3, <1>4, <1>5

\* What is left of a piece is one.
LEMMA FromIsPiece ==
    ASSUME NEW R, NEW fs, NEW s \in Seq(R), NEW m \in 0..Len(s), Piece(fs, s)
    PROVE  Piece(fs, From(s, m))
<1> DEFINE t == From(s, m)
<1>1. /\ Len(t) = Len(s) - m /\ DOMAIN t = 1..(Len(s) - m)
      /\ \A i \in DOMAIN t : t[i] = s[m + i]
  <2>1. t \in Seq(R) /\ Len(t) = Len(s) - m /\ \A i \in 1..(Len(s) - m) : t[i] = s[m + i]
    BY FromProperties
  <2>2. DOMAIN t = 1..Len(t)
    BY <2>1, LenProperties
  <2> QED
    BY <2>1, <2>2
<1>2. DOMAIN s = 1..Len(s) /\ Len(s) \in Nat
  BY LenProperties
<1>3. \A i \in DOMAIN t : m + i \in DOMAIN s
  BY <1>1, <1>2
<1> HIDE DEF t
<1>4. ASSUME NEW i \in DOMAIN t
      PROVE  /\ t[i].frame \in DOMAIN fs /\ t[i].at \in DOMAIN fs[t[i].frame]
             /\ t[i] = fs[t[i].frame][t[i].at]
  BY <1>1, <1>3, <1>4 DEF Piece
<1>5. ASSUME NEW i \in DOMAIN t, NEW j \in DOMAIN t, i <= j
      PROVE  /\ j - i <= LeftOf(fs, t[i]) => t[j].frame = t[i].frame /\ t[j].at = t[i].at + (j - i)
             /\ j - i = LeftOf(fs, t[i]) + 1 => t[j].frame = t[i].frame + 1 /\ t[j].at = 1
  <2>1. t[i] = s[m + i] /\ t[j] = s[m + j] /\ m + i \in DOMAIN s /\ m + j \in DOMAIN s
    BY <1>1, <1>3, <1>5
  <2>2. (m + j) - (m + i) = j - i /\ m + i <= m + j
    BY <1>1, <1>5
  <2>3. /\ (m + j) - (m + i) <= LeftOf(fs, s[m + i])
             => s[m + j].frame = s[m + i].frame /\ s[m + j].at = s[m + i].at + ((m + j) - (m + i))
        /\ (m + j) - (m + i) = LeftOf(fs, s[m + i]) + 1
             => s[m + j].frame = s[m + i].frame + 1 /\ s[m + j].at = 1
    BY <2>1, <2>2 DEF Piece
  <2> QED
    BY <2>1, <2>2, <2>3
<1>6. ASSUME t # <<>> PROVE t[Len(t)].frame = Len(fs) /\ t[Len(t)].at = Len(fs[Len(fs)])
  <2>1. t \in Seq(R)
    BY FromProperties DEF t
  <2>2. Len(t) \in DOMAIN t
    BY <1>6, <2>1, EmptySeq, LenProperties
  <2>3. t[Len(t)] = s[Len(s)] /\ s # <<>>
    BY <1>1, <1>2, <2>2
  <2> QED
    BY <2>3 DEF Piece
<1> QED
  BY <1>4, <1>5, <1>6 DEF Piece, t

\* What the processor sends is a frame.
LEMMA FrameIsWellFormed ==
    ASSUME NEW n \in Nat, NEW len \in Lengths, NEW b \in 0..(Byte - 1),
           NEW dirty \in Int, dirty \notin {1, 2}
    PROVE  LET f == Frame(n, len, b, dirty) IN
             /\ f \in Seq(ByteOfFrame) /\ Len(f) = len + 5 /\ Len(f) < Byte
             /\ DOMAIN f = 1..(len + 5)
             /\ \A k \in DOMAIN f : f[k].frame = n /\ f[k].at = k
             /\ f[1].value = SOF /\ f[2].value = len
<1> DEFINE f == Frame(n, len, b, dirty)
           V(k) == CASE k = 1 -> SOF [] k = 2 -> len [] k = dirty -> SOF [] OTHER -> b
<1>1. len \in Nat /\ len + 5 < Byte /\ Byte \in Nat /\ len \in 0..(Byte - 1) /\ SOF \in 0..(Byte - 1)
  BY LengthAssumption, ByteAssumption
<1>2. \A k \in 1..(len + 5) : V(k) \in 0..(Byte - 1)
  BY <1>1
<1>3. V(1) = SOF /\ V(2) = len
  BY <1>1
<1> HIDE DEF V
<1>4. f = [k \in 1..(len + 5) |-> [frame |-> n, at |-> k, value |-> V(k)]]
  <2>1. Header + len + 3 = len + 5
    BY <1>1 DEF Header
  <2> QED
    BY <2>1 DEF Frame, V
<1>5. f \in [1..(len + 5) -> ByteOfFrame]
  BY <1>1, <1>2, <1>4 DEF ByteOfFrame
<1>6. f \in Seq(ByteOfFrame) /\ DOMAIN f = 1..(len + 5) /\ Len(f) = len + 5
  BY <1>1, <1>5
<1>7. f[1].value = SOF /\ f[2].value = len
  BY <1>1, <1>3, <1>4
<1> QED
  BY <1>1, <1>4, <1>6, <1>7

\* The frames with one more.
LEMMA OneMoreFrame ==
    ASSUME NEW fs \in Seq(Seq(ByteOfFrame)), WellFormed(fs),
           NEW len \in Lengths, NEW b \in 0..(Byte - 1), NEW dirty \in Int, dirty \notin {1, 2}
    PROVE  LET f == Frame(Len(fs) + 1, len, b, dirty) IN
             /\ f \in Seq(ByteOfFrame) /\ f # <<>>
             /\ Append(fs, f) \in Seq(Seq(ByteOfFrame))
             /\ Len(Append(fs, f)) = Len(fs) + 1
             /\ WellFormed(Append(fs, f))
<1> DEFINE f == Frame(Len(fs) + 1, len, b, dirty)
           gs == Append(fs, f)
<1>1. Len(fs) \in Nat /\ DOMAIN fs = 1..Len(fs) /\ len \in Nat
  BY LenProperties, LengthAssumption, ByteAssumption
<1>2. /\ f \in Seq(ByteOfFrame) /\ Len(f) = len + 5 /\ Len(f) < Byte
      /\ \A k \in DOMAIN f : f[k].frame = Len(fs) + 1 /\ f[k].at = k
      /\ f[1].value = SOF /\ f[2].value = len
  <2>1. Len(fs) + 1 \in Nat
    BY <1>1
  <2> QED
    BY <2>1, FrameIsWellFormed
<1> HIDE DEF f
<1>3. /\ gs \in Seq(Seq(ByteOfFrame)) /\ Len(gs) = Len(fs) + 1
      /\ \A n \in 1..Len(fs) : gs[n] = fs[n]
      /\ gs[Len(fs) + 1] = f
  BY <1>2, AppendProperties
<1>4. DOMAIN gs = 1..(Len(fs) + 1)
  BY <1>3, LenProperties
<1> HIDE DEF gs
<1>5. ASSUME NEW n \in DOMAIN gs
      PROVE  LET g == gs[n] IN
               /\ g \in Seq(ByteOfFrame) /\ Len(g) >= 5 /\ Len(g) < Byte
               /\ \A k \in DOMAIN g : g[k].frame = n /\ g[k].at = k
               /\ g[1].value = SOF
               /\ g[2].value = Len(g) - 5 /\ g[2].value \in Lengths
  <2>1. CASE n \in DOMAIN fs
    <3>1. gs[n] = fs[n]
      BY <1>1, <1>3, <2>1
    <3> QED
      BY <2>1, <3>1 DEF WellFormed
  <2>2. CASE n = Len(fs) + 1
    <3>1. gs[n] = f
      BY <1>3, <2>2
    <3>2. Len(f) >= 5 /\ Len(f) - 5 = len
      BY <1>1, <1>2
    <3> QED
      BY <1>2, <2>2, <3>1, <3>2
  <2> QED
    BY <1>1, <1>4, <2>1, <2>2
<1>6. f # <<>>
  BY <1>1, <1>2
<1> QED
  BY <1>2, <1>3, <1>5, <1>6 DEF WellFormed, gs, f

LEMMA Squeeze ==
    ASSUME NEW i \in Int, NEW j \in Int, NEW l \in Int, NEW n \in Int,
           l <= n - i, j - i = l + 1, j >= n + 1
    PROVE  j = n + 1 /\ l = n - i
<1>1. j = l + 1 + i
  OBVIOUS
<1>2. l + i <= n
  OBVIOUS
<1>3. j <= n + 1
  BY <1>1, <1>2
<1>4. j = n + 1
  BY <1>3
<1> QED
  BY <1>4

\* A piece followed by a new frame is a piece.
LEMMA PieceGrows ==
    ASSUME NEW fs \in Seq(Seq(ByteOfFrame)), WellFormed(fs), NEW s \in Seq(ByteOfFrame),
           Piece(fs, s), NEW f \in Seq(ByteOfFrame), WellFormed(Append(fs, f))
    PROVE  Piece(Append(fs, f), s \o f)
<1> DEFINE gs == Append(fs, f)
           t == s \o f
           N == Len(fs)
<1>1. N \in Nat /\ DOMAIN fs = 1..N
  BY LenProperties
<1>2. /\ Len(gs) = N + 1 /\ DOMAIN gs = 1..(N + 1)
      /\ \A n \in 1..N : gs[n] = fs[n]
      /\ gs[N + 1] = f
  BY <1>1, AppendProperties
<1>3. /\ Len(s) \in Nat /\ Len(f) \in Nat
      /\ DOMAIN s = 1..Len(s) /\ DOMAIN f = 1..Len(f)
  BY LenProperties
<1>4. /\ DOMAIN t = 1..(Len(s) + Len(f)) /\ Len(t) = Len(s) + Len(f)
      /\ \A i \in 1..Len(s) : t[i] = s[i]
      /\ \A i \in (Len(s) + 1)..(Len(s) + Len(f)) : t[i] = f[i - Len(s)]
  <2>1. /\ t \in Seq(ByteOfFrame) /\ Len(t) = Len(s) + Len(f)
        /\ \A i \in 1..(Len(s) + Len(f)) : t[i] = IF i <= Len(s) THEN s[i] ELSE f[i - Len(s)]
    BY ConcatProperties
  <2>2. DOMAIN t = 1..Len(t)
    BY <2>1, LenProperties
  <2> QED
    BY <1>3, <2>1, <2>2
<1>5. /\ Len(f) >= 5
      /\ \A k \in DOMAIN f : f[k].frame = N + 1 /\ f[k].at = k
  <2>1. N + 1 \in DOMAIN gs
    BY <1>1, <1>2
  <2> QED
    BY <1>2, <2>1 DEF WellFormed
<1> HIDE DEF gs, t, N
<1>6. ASSUME NEW i \in 1..Len(s)
      PROVE  /\ t[i] = s[i] /\ s[i].frame \in 1..N /\ gs[s[i].frame] = fs[s[i].frame]
             /\ s[i].at \in DOMAIN fs[s[i].frame] /\ s[i] = fs[s[i].frame][s[i].at]
             /\ LeftOf(gs, t[i]) = LeftOf(fs, s[i]) /\ LeftOf(fs, s[i]) \in Nat
  <2>1. /\ s[i].frame \in DOMAIN fs /\ s[i].at \in DOMAIN fs[s[i].frame]
        /\ s[i] = fs[s[i].frame][s[i].at]
    BY <1>3, <1>6 DEF Piece
  <2>2. gs[s[i].frame] = fs[s[i].frame] /\ t[i] = s[i]
    BY <1>1, <1>2, <1>4, <1>6, <2>1
  <2>3. fs[s[i].frame] \in Seq(ByteOfFrame)
    BY <2>1 DEF WellFormed
  <2>4. s[i].at \in 1..Len(fs[s[i].frame]) /\ Len(fs[s[i].frame]) \in Nat
    BY <2>1, <2>3, LenProperties
  <2>5. LeftOf(gs, t[i]) = LeftOf(fs, s[i])
    BY <2>2 DEF LeftOf
  <2>6. LeftOf(fs, s[i]) \in Nat
    BY <2>4 DEF LeftOf
  <2> QED
    BY <1>1, <2>1, <2>2, <2>5, <2>6
<1>7. ASSUME NEW i \in (Len(s) + 1)..(Len(s) + Len(f))
      PROVE  /\ t[i] = f[i - Len(s)] /\ i - Len(s) \in DOMAIN f
             /\ t[i].frame = N + 1 /\ t[i].at = i - Len(s)
             /\ LeftOf(gs, t[i]) = Len(f) - (i - Len(s))
  <2>1. t[i] = f[i - Len(s)] /\ i - Len(s) \in DOMAIN f
    BY <1>3, <1>4, <1>7
  <2>2. t[i].frame = N + 1 /\ t[i].at = i - Len(s)
    BY <1>5, <2>1
  <2> QED
    BY <1>2, <2>1, <2>2 DEF LeftOf
<1>8. \* Nothing of a frame is missing before the new frame.
      ASSUME NEW i \in 1..Len(s) PROVE LeftOf(fs, s[i]) <= Len(s) - i
  <2>1. /\ Len(s) \in DOMAIN s /\ i \in DOMAIN s /\ i <= Len(s) /\ s # <<>>
    BY <1>3, <1>8
  <2>2. s[Len(s)].frame = N /\ s[Len(s)].at = Len(fs[N])
    BY <2>1 DEF Piece, N
  <2>3. Len(s) - i <= LeftOf(fs, s[i])
          => s[Len(s)].frame = s[i].frame /\ s[Len(s)].at = s[i].at + (Len(s) - i)
    BY <2>1 DEF Piece
  <2>4. s[i].frame = N => LeftOf(fs, s[i]) = Len(fs[N]) - s[i].at
    BY DEF LeftOf
  <2>5. s[i].frame \in 1..N /\ s[i].at \in 1..Len(fs[s[i].frame]) /\ Len(fs[s[i].frame]) \in Nat
    <3>1. fs[s[i].frame] \in Seq(ByteOfFrame)
      BY <1>1, <1>6, <1>8 DEF WellFormed
    <3> QED
      BY <1>6, <1>8, <3>1, LenProperties
  <2>6. LeftOf(fs, s[i]) \in Nat
    BY <1>6, <1>8
  <2> QED
    BY <1>3, <1>8, <2>2, <2>3, <2>4, <2>5, <2>6
<1>9. ASSUME NEW i \in DOMAIN t
      PROVE  /\ t[i].frame \in DOMAIN gs /\ t[i].at \in DOMAIN gs[t[i].frame]
             /\ t[i] = gs[t[i].frame][t[i].at]
  <2>1. CASE i \in 1..Len(s)
    <3>1. /\ t[i] = s[i] /\ s[i].frame \in 1..N /\ gs[s[i].frame] = fs[s[i].frame]
          /\ s[i].at \in DOMAIN fs[s[i].frame] /\ s[i] = fs[s[i].frame][s[i].at]
      BY <1>6, <2>1
    <3>2. s[i].frame \in 1..(N + 1)
      BY <1>1, <3>1
    <3> QED
      BY <1>2, <3>1, <3>2
  <2>2. CASE i \in (Len(s) + 1)..(Len(s) + Len(f))
    BY <1>1, <1>2, <1>3, <1>7, <2>2
  <2> QED
    BY <1>3, <1>4, <1>9, <2>1, <2>2
<1>10. ASSUME NEW i \in DOMAIN t, NEW j \in DOMAIN t, i <= j
       PROVE  /\ j - i <= LeftOf(gs, t[i]) => t[j].frame = t[i].frame /\ t[j].at = t[i].at + (j - i)
              /\ j - i = LeftOf(gs, t[i]) + 1 => t[j].frame = t[i].frame + 1 /\ t[j].at = 1
  <2>1. CASE i \in 1..Len(s) /\ j \in 1..Len(s)
    <3>1. i \in DOMAIN s /\ j \in DOMAIN s /\ t[i] = s[i] /\ t[j] = s[j]
          /\ LeftOf(gs, t[i]) = LeftOf(fs, s[i])
      BY <1>3, <1>6, <2>1
    <3>2. /\ j - i <= LeftOf(fs, s[i]) => s[j].frame = s[i].frame /\ s[j].at = s[i].at + (j - i)
          /\ j - i = LeftOf(fs, s[i]) + 1 => s[j].frame = s[i].frame + 1 /\ s[j].at = 1
      BY <1>10, <3>1 DEF Piece
    <3> QED
      BY <3>1, <3>2
  <2>2. CASE i \in 1..Len(s) /\ j \in (Len(s) + 1)..(Len(s) + Len(f))
    <3>1. LeftOf(gs, t[i]) <= Len(s) - i /\ LeftOf(gs, t[i]) \in Nat
      BY <1>6, <1>8, <2>2
    <3>2. ~(j - i <= LeftOf(gs, t[i]))
      BY <1>3, <2>2, <3>1
    <3>3. ASSUME j - i = LeftOf(gs, t[i]) + 1
          PROVE  j = Len(s) + 1 /\ LeftOf(fs, s[i]) = Len(s) - i
      <4> DEFINE l == LeftOf(gs, t[i])
      <4>1. l \in Nat /\ l <= Len(s) - i /\ j - i = l + 1
        BY <3>1, <3>3
      <4>2. l = LeftOf(fs, s[i])
        BY <1>6, <2>2
      <4> HIDE DEF l
      <4>3. i \in Int /\ j \in Int /\ Len(s) \in Int /\ j >= Len(s) + 1
        BY <1>3, <2>2
      <4> DEFINE n == Len(s)
      <4>4. l \in Int /\ l <= n - i /\ j - i = l + 1 /\ i \in Int /\ j \in Int /\ n \in Int /\ j >= n + 1
        BY <4>1, <4>3
      <4> HIDE DEF n
      <4>5. j = n + 1 /\ l = n - i
        BY <4>4, Squeeze
      <4> QED
        BY <4>2, <4>5 DEF n
    <3>4. ASSUME j - i = LeftOf(gs, t[i]) + 1 PROVE t[j].frame = t[i].frame + 1 /\ t[j].at = 1
      <4>1. j = Len(s) + 1 /\ Len(s) - i = LeftOf(fs, s[i])
        BY <3>3, <3>4
      <4>2. i \in DOMAIN s /\ Len(s) \in DOMAIN s /\ i <= Len(s) /\ s # <<>>
        BY <1>3, <2>2
      <4>3. s[Len(s)].frame = s[i].frame
        BY <4>1, <4>2 DEF Piece
      <4>4. s[Len(s)].frame = N
        BY <4>2 DEF Piece, N
      <4>5. t[j].frame = N + 1 /\ t[j].at = j - Len(s)
        BY <1>7, <2>2
      <4> QED
        <5>1. t[i] = s[i]
          BY <1>6, <2>2
        <5>2. j - Len(s) = 1
          BY <1>3, <4>1
        <5> QED
          BY <4>3, <4>4, <4>5, <5>1, <5>2
    <3> QED
      BY <3>2, <3>4
  <2>3. CASE i \in (Len(s) + 1)..(Len(s) + Len(f)) /\ j \in (Len(s) + 1)..(Len(s) + Len(f))
    <3>1. /\ t[i].frame = N + 1 /\ t[i].at = i - Len(s)
          /\ t[j].frame = N + 1 /\ t[j].at = j - Len(s)
          /\ LeftOf(gs, t[i]) = Len(f) - (i - Len(s))
      BY <1>7, <2>3
    <3> QED
      BY <1>3, <2>3, <3>1
  <2> QED
    BY <1>3, <1>4, <1>10, <2>1, <2>2, <2>3
<1>11. t[Len(t)].frame = Len(gs) /\ t[Len(t)].at = Len(gs[Len(gs)])
  <2>1. Len(t) \in (Len(s) + 1)..(Len(s) + Len(f)) /\ Len(t) - Len(s) = Len(f)
    BY <1>3, <1>4, <1>5
  <2>2. t[Len(t)].frame = N + 1 /\ t[Len(t)].at = Len(t) - Len(s)
    BY <1>7, <2>1
  <2> QED
    BY <1>2, <2>1, <2>2
<1> QED
  BY <1>9, <1>10, <1>11 DEF Piece, gs, t


-----------------------------------------------------------------------------
(* Sequences that are cut and joined. *)

LEMMA FromOfConcat ==
    ASSUME NEW R, NEW s \in Seq(R), NEW t \in Seq(R), NEW m \in 0..Len(s)
    PROVE  From(s \o t, m) = From(s, m) \o t
<1> DEFINE u == s \o t
           a == From(u, m)
           b == From(s, m) \o t
<1>1. Len(s) \in Nat /\ Len(t) \in Nat
  BY LenProperties
<1>2. /\ u \in Seq(R) /\ Len(u) = Len(s) + Len(t)
      /\ \A i \in 1..(Len(s) + Len(t)) : u[i] = IF i <= Len(s) THEN s[i] ELSE t[i - Len(s)]
  BY ConcatProperties
<1> HIDE DEF u
<1>3. m \in 0..Len(u)
  BY <1>1, <1>2
<1>4. /\ a \in Seq(R) /\ Len(a) = Len(u) - m
      /\ \A i \in 1..(Len(u) - m) : a[i] = u[m + i]
  BY <1>2, <1>3, FromProperties
<1>5. /\ From(s, m) \in Seq(R) /\ Len(From(s, m)) = Len(s) - m
      /\ \A i \in 1..(Len(s) - m) : From(s, m)[i] = s[m + i]
  BY FromProperties
<1>6. /\ b \in Seq(R) /\ Len(b) = (Len(s) - m) + Len(t)
      /\ \A i \in 1..((Len(s) - m) + Len(t)) :
           b[i] = IF i <= Len(s) - m THEN From(s, m)[i] ELSE t[i - (Len(s) - m)]
  <2> DEFINE c == From(s, m)
  <2>1. c \in Seq(R) /\ Len(c) = Len(s) - m
    BY <1>5
  <2> HIDE DEF c
  <2>2. /\ c \o t \in Seq(R) /\ Len(c \o t) = Len(c) + Len(t)
        /\ \A i \in 1..(Len(c) + Len(t)) : (c \o t)[i] = IF i <= Len(c) THEN c[i] ELSE t[i - Len(c)]
    BY <2>1, ConcatProperties
  <2> QED
    BY <2>1, <2>2 DEF c
<1> HIDE DEF a, b
<1>7. ASSUME NEW i \in 1..Len(a) PROVE a[i] = b[i]
  <2>1. /\ i \in 1..(Len(u) - m) /\ i \in 1..((Len(s) - m) + Len(t))
        /\ m + i \in 1..(Len(s) + Len(t))
    BY <1>1, <1>2, <1>4
  <2>2. a[i] = u[m + i]
    BY <1>4, <2>1
  <2>3. CASE i <= Len(s) - m
    <3>1. m + i <= Len(s) /\ i \in 1..(Len(s) - m)
      BY <1>1, <2>1, <2>3
    <3>2. b[i] = s[m + i]
      BY <1>5, <1>6, <2>1, <2>3, <3>1
    <3> QED
      BY <1>2, <2>1, <2>2, <3>1, <3>2
  <2>4. CASE ~(i <= Len(s) - m)
    <3>1. ~(m + i <= Len(s)) /\ (m + i) - Len(s) = i - (Len(s) - m)
      BY <1>1, <2>1, <2>4
    <3>2. b[i] = t[i - (Len(s) - m)]
      BY <1>6, <2>1, <2>4
    <3> QED
      BY <1>2, <2>1, <2>2, <3>1, <3>2
  <2> QED
    BY <2>3, <2>4
<1>8. Len(a) = Len(b)
  BY <1>1, <1>2, <1>4, <1>6
<1>9. a = b
  BY <1>4, <1>6, <1>7, <1>8, SeqEqual
<1> QED
  BY <1>9 DEF a, b, u

LEMMA FromEdges ==
    ASSUME NEW R, NEW s \in Seq(R)
    PROVE  /\ From(s, 0) = s
           /\ From(s, Len(s)) = <<>>
           /\ s # <<>> => From(s, 1) = Tail(s) /\ Len(s) >= 1 /\ Head(s) = s[1]
<1>1. Len(s) \in Nat
  BY LenProperties
<1>2. From(s, 0) = s
  BY SubSeqFull DEF From
<1>3. From(s, Len(s)) = <<>>
  BY <1>1, SubSeqEmpty DEF From
<1>4. s # <<>> => From(s, 1) = Tail(s)
  BY TailIsSubSeq DEF From
<1>5. s # <<>> => Len(s) >= 1
  BY <1>1, EmptySeq
<1> QED
  BY <1>2, <1>3, <1>4, <1>5

\* The first n bytes and the others.
LEMMA CutInTwo ==
    ASSUME NEW R, NEW s \in Seq(R), NEW n \in 0..Len(s)
    PROVE  /\ SubSeq(s, 1, n) \in Seq(R) /\ Len(SubSeq(s, 1, n)) = n
           /\ SubSeq(s, 1, n) \o From(s, n) = s
<1>1. Len(s) \in Nat /\ \A i \in 1..Len(s) : s[i] \in R
  BY LenProperties, ElementOfSeq
<1>2. \A i \in 1..n : s[i] \in R
  BY <1>1
<1>3. /\ SubSeq(s, 1, n) \in Seq(R)
      /\ Len(SubSeq(s, 1, n)) = IF 1 <= n THEN n - 1 + 1 ELSE 0
  BY <1>1, <1>2, SubSeqProperties
<1>4. SubSeq(s, 1, n) \o SubSeq(s, n + 1, Len(s)) = SubSeq(s, 1, Len(s))
  <2>1. 1 \in 1..(Len(s) + 1) /\ n \in (1 - 1)..Len(s) /\ Len(s) \in n..Len(s)
    BY <1>1
  <2> QED
    BY <2>1, ConcatAdjacentSubSeq
<1>5. Len(SubSeq(s, 1, n)) = n
  BY <1>1, <1>3
<1> QED
  BY <1>3, <1>4, <1>5, SubSeqFull DEF From

\* Three pieces of a stream can be joined in either order.
LEMMA ConcatRegroup ==
    ASSUME NEW R, NEW s \in Seq(R), NEW t \in Seq(R), NEW u \in Seq(R)
    PROVE  s \o (t \o u) = (s \o t) \o u
BY ConcatAssociative, SMTT(60)

\* A byte that passes from the line to the port.
LEMMA PassHead ==
    ASSUME NEW R, NEW s \in Seq(R), NEW t \in Seq(R), t # <<>>
    PROVE  /\ Append(s, Head(t)) \in Seq(R) /\ Tail(t) \in Seq(R)
           /\ Append(s, Head(t)) \o Tail(t) = s \o t
<1>1. Head(t) \in R /\ Tail(t) \in Seq(R)
  BY HeadTailProperties
<1>2. Append(s, Head(t)) \in Seq(R) /\ Append(s, Head(t)) = s \o <<Head(t)>>
  BY <1>1, AppendProperties, AppendIsConcat
<1>3. <<Head(t)>> \in Seq(R)
  BY <1>1
<1>4. (s \o <<Head(t)>>) \o Tail(t) = s \o (<<Head(t)>> \o Tail(t))
  BY <1>1, <1>3, ConcatRegroup
<1>5. <<Head(t)>> \o Tail(t) = t
  <2>1. Len(t) \in Nat /\ Len(t) >= 1
    BY FromEdges, LenProperties
  <2>2. SubSeq(t, 1, Len(t)) = <<t[1]>> \o SubSeq(t, 1 + 1, Len(t))
    BY <2>1, SubSeqRecursiveFirst
  <2> QED
    BY <2>1, <2>2, SubSeqFull, TailIsSubSeq, FromEdges
<1> QED
  BY <1>1, <1>2, <1>4, <1>5


-----------------------------------------------------------------------------
(* Steps, by what they do to the stream. *)

\* What the reader has not processed: the body it has begun, what has arrived and
\* what is under way.
Begun == IF pc = "body" THEN rpcBuff ELSE <<>>
Stream == Begun \o (tty \o line)

LineTypeOK ==
    /\ TypeOK
    /\ frames \in Seq(Seq(ByteOfFrame)) /\ WellFormed(frames)
    /\ line \in Seq(ByteOfFrame) /\ tty \in Seq(ByteOfFrame) /\ rpcBuff \in Seq(ByteOfFrame)

LEMMA MinOfFill ==
    ASSUME NEW S, S \subseteq Nat, S # {} PROVE Min(S) \in S /\ \A j \in S : Min(S) <= j
<1>1. Min(S) = FirstOf(S)
  BY DEF Min, FirstOf
<1> QED
  BY <1>1, FirstOfProperties

\* What ReadBody takes: at least one byte, no more than there is or is expected.
LEMMA Taken ==
    ASSUME LineTypeOK, rpcLen > 0, tty # <<>>
    PROVE  LET n == Min({rpcLen, Len(tty)}) IN n \in 1..Len(tty) /\ n <= rpcLen
<1>1. rpcLen \in Nat /\ Len(tty) \in Nat /\ Len(tty) >= 1
  BY FromEdges, LenProperties, ByteAssumption DEF LineTypeOK, TypeOK
<1>2. {rpcLen, Len(tty)} \subseteq Nat /\ {rpcLen, Len(tty)} # {}
  BY <1>1
<1>3. /\ Min({rpcLen, Len(tty)}) \in {rpcLen, Len(tty)}
      /\ \A j \in {rpcLen, Len(tty)} : Min({rpcLen, Len(tty)}) <= j
  BY <1>2, MinOfFill
<1> HIDE DEF LineTypeOK
<1> DEFINE n == Min({rpcLen, Len(tty)})
<1>4. (n = rpcLen \/ n = Len(tty)) /\ n <= rpcLen /\ n <= Len(tty)
  BY <1>3
<1> HIDE DEF n
<1>5. n \in 1..Len(tty) /\ n <= rpcLen
  BY <1>1, <1>4
<1> QED
  BY <1>5 DEF n

LEMMA StreamType ==
    ASSUME LineTypeOK
    PROVE  /\ Begun \in Seq(ByteOfFrame) /\ tty \o line \in Seq(ByteOfFrame)
           /\ Stream \in Seq(ByteOfFrame) /\ Len(Stream) \in Nat
           /\ Len(Stream) = Len(Begun) + (Len(tty) + Len(line))
           /\ Len(Begun) \in Nat /\ Len(tty) \in Nat /\ Len(line) \in Nat
           /\ pc # "body" => Stream = tty \o line
           /\ Stream = <<>> <=> Len(Stream) = 0
<1>1. Begun \in Seq(ByteOfFrame) /\ line \in Seq(ByteOfFrame) /\ tty \in Seq(ByteOfFrame)
  BY DEF LineTypeOK, Begun
<1>2. /\ tty \o line \in Seq(ByteOfFrame) /\ Len(tty \o line) = Len(tty) + Len(line)
  BY <1>1, ConcatProperties
<1> DEFINE r == tty \o line
<1> HIDE DEF r
<1>3. r \in Seq(ByteOfFrame)
  BY <1>2 DEF r
<1>4. Begun \o r \in Seq(ByteOfFrame) /\ Len(Begun \o r) = Len(Begun) + Len(r)
  BY <1>1, <1>3, ConcatProperties
<1>5. pc # "body" => Begun \o r = r
  BY <1>3, ConcatEmptySeq DEF Begun
<1>6. Len(Begun) \in Nat /\ Len(tty) \in Nat /\ Len(line) \in Nat /\ Len(Begun \o r) \in Nat
  BY <1>1, <1>4, LenProperties
<1>7. Begun \o r = <<>> <=> Len(Begun \o r) = 0
  BY <1>4, <1>6, EmptySeq
<1> QED
  BY <1>1, <1>2, <1>4, <1>5, <1>6, <1>7 DEF Stream, r

\* A frame that the processor sends comes to the end of the stream.
LEMMA SendsGrow ==
    ASSUME LineTypeOK, SocSendsAny
    PROVE  /\ \E f \in Seq(ByteOfFrame) :
                /\ frames' = Append(frames, f) /\ line' = line \o f
                /\ f # <<>> /\ WellFormed(frames') /\ frames' \in Seq(Seq(ByteOfFrame))
                /\ Len(frames') = Len(frames) + 1
                /\ Stream' = Stream \o f
           /\ Len(frames') <= MaxFrames
           /\ UNCHANGED <<tty, reader>>
<1>1. PICK len \in Lengths, b \in Fill, dirty \in 0..(Header + Byte) :
        (dirty = 0 \/ dirty \in (Header + 1)..(Header + len + 3)) /\ SocSends(len, b, dirty)
  BY DEF SocSendsAny
<1>2. b \in 0..(Byte - 1) /\ dirty \in Int /\ dirty \notin {1, 2}
  BY <1>1, ByteAssumption DEF Header
<1> DEFINE f == Frame(Len(frames) + 1, len, b, dirty)
<1>3. /\ f \in Seq(ByteOfFrame) /\ f # <<>>
      /\ Append(frames, f) \in Seq(Seq(ByteOfFrame))
      /\ Len(Append(frames, f)) = Len(frames) + 1
      /\ WellFormed(Append(frames, f))
  BY <1>2, OneMoreFrame DEF LineTypeOK
<1>4. /\ frames' = Append(frames, f) /\ line' = line \o f /\ Len(frames) < MaxFrames
      /\ UNCHANGED <<tty, reader>>
  BY <1>1 DEF SocSends
<1> HIDE DEF f
<1>5. Stream' = Stream \o f
  <2>1. Begun' = Begun /\ tty' = tty
    BY <1>4 DEF Begun, reader
  <2>2. Begun \in Seq(ByteOfFrame) /\ tty \o line \in Seq(ByteOfFrame)
    BY StreamType
  <2>3. tty \o (line \o f) = (tty \o line) \o f
    <3>1. tty \in Seq(ByteOfFrame) /\ line \in Seq(ByteOfFrame) /\ f \in Seq(ByteOfFrame)
      BY <1>3 DEF LineTypeOK
    <3> QED
      BY <3>1, ConcatRegroup
  <2> DEFINE r == tty \o line
  <2>4. r \in Seq(ByteOfFrame)
    BY <2>2
  <2> HIDE DEF r
  <2>5. Begun \o (r \o f) = (Begun \o r) \o f
    <3>1. Begun \in Seq(ByteOfFrame) /\ r \in Seq(ByteOfFrame) /\ f \in Seq(ByteOfFrame)
      BY <1>3, <2>2, <2>4
    <3> QED
      BY <3>1, ConcatRegroup
  <2> QED
    BY <1>4, <2>1, <2>3, <2>5 DEF Stream, r
<1>6. Len(frames') <= MaxFrames
  <2>1. Len(frames) \in Nat
    BY LenProperties DEF LineTypeOK
  <2> QED
    BY <1>3, <1>4, <2>1, BoundAssumption
<1> QED
  BY <1>3, <1>4, <1>5, <1>6

\* The other steps read from the beginning of the stream or leave it alone.
LEMMA ReadsShorten ==
    ASSUME LineTypeOK
    PROVE  /\ ByteArrives => Stream' = Stream
           /\ Open => Len(tty) <= Len(Stream) /\ Stream' = From(Stream, Len(tty))
           /\ ReadSof \/ ReadLen =>
                /\ Stream # <<>> /\ Head(tty) = Stream[1] /\ Len(Stream) >= 1
                /\ Stream' = From(Stream, 1)
           /\ ReadBody =>
                /\ Stream' = Stream
                /\ rpcLen' + Len(rpcBuff') = rpcLen + Len(rpcBuff)
           /\ GiveUp \/ Process =>
                /\ Len(rpcBuff) <= Len(Stream)
                /\ Stream' = From(Stream, Len(rpcBuff))
           /\ ReadNoLen \/ Retry \/ FailureUnnoticed => Stream' = Stream
<1>1. /\ line \in Seq(ByteOfFrame) /\ tty \in Seq(ByteOfFrame) /\ rpcBuff \in Seq(ByteOfFrame)
      /\ Len(line) \in Nat /\ Len(tty) \in Nat /\ Len(rpcBuff) \in Nat
  BY LenProperties DEF LineTypeOK
<1> DEFINE r == tty \o line
<1>2. /\ r \in Seq(ByteOfFrame) /\ Begun \in Seq(ByteOfFrame) /\ Stream = Begun \o r
      /\ Len(r) = Len(tty) + Len(line)
      /\ pc # "body" => Stream = r
  BY StreamType, ConcatProperties, <1>1 DEF Stream
<1>3. ASSUME ByteArrives PROVE Stream' = Stream
  <2>1. Begun' = Begun
    BY <1>3 DEF ByteArrives, Begun, reader
  <2>2. tty' \o line' = r
    BY <1>1, <1>3, PassHead DEF ByteArrives
  <2> QED
    BY <2>1, <2>2 DEF Stream
<1>4. ASSUME Open PROVE Len(tty) <= Len(Stream) /\ Stream' = From(Stream, Len(tty))
  <2>1. pc = "closed" /\ pc' = "sof" /\ tty' = <<>> /\ line' = line
    BY <1>4 DEF Open
  <2>2. Stream' = <<>> \o (<<>> \o line) /\ Stream = r
    BY <1>2, <2>1 DEF Stream, Begun
  <2>3. Len(tty) \in 0..Len(tty)
    BY <1>1
  <2>4. From(r, Len(tty)) = <<>> \o line
    <3>1. From(r, Len(tty)) = From(tty, Len(tty)) \o line
      BY <1>1, <2>3, FromOfConcat
    <3>2. From(tty, Len(tty)) = <<>>
      BY <1>1, FromEdges
    <3> QED
      BY <3>1, <3>2
  <2>5. <<>> \o line = line
    BY <1>1, ConcatEmptySeq
  <2> QED
    BY <1>1, <1>2, <2>2, <2>4, <2>5
<1>5. ASSUME pc # "body", tty # <<>>
      PROVE  /\ Stream # <<>> /\ Head(tty) = Stream[1] /\ Len(Stream) >= 1
             /\ From(Stream, 1) = Tail(tty) \o line /\ Tail(tty) \o line \in Seq(ByteOfFrame)
  <2>1. Len(tty) >= 1 /\ From(tty, 1) = Tail(tty) /\ Head(tty) = tty[1]
    BY <1>1, <1>5, FromEdges
  <2>2. 1 \in 0..Len(tty) /\ 1 \in 1..(Len(tty) + Len(line))
    BY <1>1, <2>1
  <2>3. From(r, 1) = Tail(tty) \o line
    BY <1>1, <2>1, <2>2, FromOfConcat
  <2>4. r[1] = tty[1]
    BY <1>1, <2>1, <2>2, ConcatProperties
  <2>5. Len(r) >= 1 /\ r # <<>>
    <3>1. Len(r) >= 1
      BY <1>1, <1>2, <2>1
    <3> QED
      BY <3>1, <1>2, EmptySeq
  <2>6. Tail(tty) \o line \in Seq(ByteOfFrame)
    BY <1>1, <1>5, HeadTailProperties, ConcatProperties
  <2> QED
    BY <1>2, <1>5, <2>1, <2>3, <2>4, <2>5, <2>6
<1>6. ASSUME ReadSof \/ ReadLen
      PROVE  /\ Stream # <<>> /\ Head(tty) = Stream[1] /\ Len(Stream) >= 1
             /\ Stream' = From(Stream, 1)
  <2>1. pc # "body" /\ tty # <<>> /\ tty' = Tail(tty) /\ line' = line /\ Begun' = <<>>
    BY <1>6 DEF ReadSof, ReadLen, Begun
  <2>2. Stream' = <<>> \o (Tail(tty) \o line)
    BY <2>1 DEF Stream
  <2>3. <<>> \o (Tail(tty) \o line) = Tail(tty) \o line
    BY <1>5, <2>1, ConcatEmptySeq
  <2> QED
    BY <1>5, <2>1, <2>2, <2>3
<1>7. ASSUME ReadBody
      PROVE  /\ Stream' = Stream
             /\ rpcLen' + Len(rpcBuff') = rpcLen + Len(rpcBuff)
  <2> DEFINE n == Min({rpcLen, Len(tty)})
             a == SubSeq(tty, 1, n)
             b == From(tty, n)
  <2>1. /\ pc = "body" /\ pc' = pc /\ rpcLen > 0 /\ tty # <<>> /\ line' = line
        /\ rpcBuff' = rpcBuff \o a /\ tty' = b /\ rpcLen' = rpcLen - n
    BY <1>7 DEF ReadBody, From
  <2>2. n \in 1..Len(tty) /\ n <= rpcLen
    BY <2>1, Taken
  <2>3. n \in 0..Len(tty)
    BY <1>1, <2>2
  <2> HIDE DEF n
  <2>4. a \in Seq(ByteOfFrame) /\ Len(a) = n /\ a \o b = tty
    BY <1>1, <2>3, CutInTwo
  <2>5. b \in Seq(ByteOfFrame)
    BY <1>1, <2>3, FromProperties
  <2> HIDE DEF a, b
  <2>6. /\ Len(rpcBuff \o a) = Len(rpcBuff) + n
    BY <1>1, <2>4, ConcatProperties
  <2>7. rpcLen \in Nat
    BY ByteAssumption DEF LineTypeOK, TypeOK
  <2>8. (rpcBuff \o a) \o (b \o line) = rpcBuff \o (a \o (b \o line))
    <3>1. b \o line \in Seq(ByteOfFrame)
      BY <1>1, <2>5, ConcatProperties
    <3> DEFINE c == b \o line
    <3>2. c \in Seq(ByteOfFrame)
      BY <3>1
    <3> HIDE DEF c
    <3>3. (rpcBuff \o a) \o c = rpcBuff \o (a \o c)
      <4>1. rpcBuff \in Seq(ByteOfFrame) /\ a \in Seq(ByteOfFrame) /\ c \in Seq(ByteOfFrame)
        BY <1>1, <2>4, <3>2
      <4> QED
        BY <4>1, ConcatRegroup
    <3> QED
      BY <3>3 DEF c
  <2>9. a \o (b \o line) = (a \o b) \o line
    <3>1. a \in Seq(ByteOfFrame) /\ line \in Seq(ByteOfFrame)
      BY <1>1, <2>4
    <3> QED
      BY <2>5, <3>1, ConcatRegroup
  <2>10. Stream' = Stream
    BY <2>1, <2>4, <2>8, <2>9 DEF Stream, Begun
  <2>11. rpcLen' + Len(rpcBuff') = rpcLen + Len(rpcBuff)
    BY <1>1, <2>1, <2>3, <2>6, <2>7
  <2> QED
    BY <2>10, <2>11
<1>8. ASSUME GiveUp \/ Process
      PROVE  Len(rpcBuff) <= Len(Stream) /\ Stream' = From(Stream, Len(rpcBuff))
  <2>1. pc = "body" /\ pc' = "sof" /\ UNCHANGED <<tty, line, rpcBuff>>
    BY <1>8 DEF GiveUp, Process, ReadFails
  <2>2. Stream = rpcBuff \o r /\ Stream' = <<>> \o r
    BY <2>1 DEF Stream, Begun
  <2>3. Len(rpcBuff) \in 0..Len(rpcBuff)
    BY <1>1
  <2> HIDE DEF r
  <2>4. From(rpcBuff \o r, Len(rpcBuff)) = <<>> \o r
    <3>1. From(rpcBuff \o r, Len(rpcBuff)) = From(rpcBuff, Len(rpcBuff)) \o r
      BY <1>1, <1>2, <2>3, FromOfConcat
    <3>2. From(rpcBuff, Len(rpcBuff)) = <<>>
      BY <1>1, FromEdges
    <3> QED
      BY <3>1, <3>2
  <2>5. Len(rpcBuff \o r) = Len(rpcBuff) + Len(r) /\ Len(r) \in Nat
    BY <1>1, <1>2, ConcatProperties, LenProperties
  <2> QED
    BY <1>1, <2>2, <2>4, <2>5
<1>9. ASSUME ReadNoLen \/ Retry \/ FailureUnnoticed PROVE Stream' = Stream
  <2>1. UNCHANGED <<tty, line, rpcBuff>> /\ (pc = "body" <=> pc' = "body")
    BY <1>9 DEF ReadNoLen, Retry, FailureUnnoticed, ReadFails
  <2> QED
    BY <2>1 DEF Stream, Begun
<1> QED
  BY <1>3, <1>4, <1>6, <1>7, <1>8, <1>9


-----------------------------------------------------------------------------
(* Types. *)

\* The body of a frame is all but its start byte and its length.
LEMMA BodyProperties ==
    ASSUME NEW fs, WellFormed(fs), NEW n \in DOMAIN fs
    PROVE  /\ Body(fs[n]) \in Seq(ByteOfFrame)
           /\ Len(Body(fs[n])) = Len(fs[n]) - 2 /\ Len(fs[n]) - 2 >= 3 /\ Len(fs[n]) \in Nat
           /\ DOMAIN fs[n] = 1..Len(fs[n])
           /\ \A i \in 1..(Len(fs[n]) - 2) : Body(fs[n])[i] = fs[n][i + 2]
           /\ Body(fs[n])[1].frame = n
<1> DEFINE f == fs[n]
<1>1. /\ f \in Seq(ByteOfFrame) /\ Len(f) >= 5
      /\ \A k \in DOMAIN f : f[k].frame = n
  BY DEF WellFormed
<1>2. Len(f) \in Nat /\ DOMAIN f = 1..Len(f)
  BY <1>1, LenProperties
<1> HIDE DEF f
<1>3. 2 \in 0..Len(f)
  BY <1>1, <1>2
<1>4. Body(f) = From(f, 2)
  BY DEF Body, From, Header
<1>5. /\ From(f, 2) \in Seq(ByteOfFrame) /\ Len(From(f, 2)) = Len(f) - 2
      /\ \A i \in 1..(Len(f) - 2) : From(f, 2)[i] = f[2 + i]
  BY <1>1, <1>3, FromProperties
<1>6. /\ Len(f) - 2 >= 3
      /\ \A i \in 1..(Len(f) - 2) : Body(f)[i] = f[i + 2]
  BY <1>1, <1>2, <1>4, <1>5
<1>7. Body(f)[1].frame = n
  <2>1. 1 \in 1..(Len(f) - 2) /\ 3 \in DOMAIN f
    BY <1>1, <1>2
  <2> QED
    BY <1>1, <1>6, <2>1
<1> QED
  BY <1>2, <1>4, <1>5, <1>6, <1>7 DEF f

\* What Process adds to the history.
LEMMA HeardNumber ==
    ASSUME LineTypeOK
    PROVE  (IF \E f \in ToSet(frames) : rpcBuff = Body(f) THEN rpcBuff[1].frame ELSE Garbled)
             \in 0..MaxFrames
<1>1. Len(frames) \in Nat /\ DOMAIN frames = 1..Len(frames) /\ Len(frames) <= MaxFrames
  BY LenProperties DEF LineTypeOK, TypeOK
<1>2. ASSUME NEW f \in ToSet(frames), rpcBuff = Body(f) PROVE rpcBuff[1].frame \in 0..MaxFrames
  <2>1. PICK n \in DOMAIN frames : f = frames[n]
    BY DEF ToSet
  <2>2. rpcBuff[1].frame = n
    BY <1>2, <2>1, BodyProperties DEF LineTypeOK
  <2> QED
    BY <1>1, <2>2, BoundAssumption
<1>3. Garbled \in 0..MaxFrames
  BY BoundAssumption DEF Garbled
<1> QED
  BY <1>2, <1>3

LEMMA LineTypeStep ==
    ASSUME LineTypeOK, [Next]_vars
    PROVE  LineTypeOK'
<1>0. /\ frames \in Seq(Seq(ByteOfFrame)) /\ WellFormed(frames)
      /\ line \in Seq(ByteOfFrame) /\ tty \in Seq(ByteOfFrame) /\ rpcBuff \in Seq(ByteOfFrame)
      /\ Len(tty) \in Nat /\ rpcLen \in 0..(Byte - 1) /\ Byte \in Nat
      /\ heard \in Seq(0..MaxFrames) /\ retryAttempts \in 0..MaxRetries /\ MaxRetries \in Nat
  BY LenProperties, ByteAssumption, BoundAssumption DEF LineTypeOK, TypeOK
<1>1. CASE SocSendsAny
  <2>1. PICK f \in Seq(ByteOfFrame) : /\ line' = line \o f
                                      /\ WellFormed(frames') /\ frames' \in Seq(Seq(ByteOfFrame))
    BY <1>1, SendsGrow
  <2>2. Len(frames') <= MaxFrames /\ UNCHANGED <<tty, reader>>
    BY <1>1, SendsGrow
  <2>3. line' \in Seq(ByteOfFrame)
    BY <1>0, <2>1, ConcatProperties
  <2> QED
    BY <2>1, <2>2, <2>3 DEF LineTypeOK, TypeOK, reader
<1>2. CASE ByteArrives
  <2>1. tty' \in Seq(ByteOfFrame) /\ line' \in Seq(ByteOfFrame)
    BY <1>0, <1>2, PassHead DEF ByteArrives
  <2> QED
    BY <1>2, <2>1 DEF ByteArrives, LineTypeOK, TypeOK, reader
<1>3. CASE Open
  <2>1. tty' \in Seq(ByteOfFrame) /\ lost' \in BOOLEAN
    BY <1>3, EmptySeq DEF Open
  <2> QED
    BY <1>3, <2>1 DEF Open, LineTypeOK, TypeOK
<1>4. CASE ReadSof
  <2>1. tty' \in Seq(ByteOfFrame)
    BY <1>0, <1>4, HeadTailProperties DEF ReadSof
  <2>2. pc' \in {"sof", "len"} /\ retryAttempts' \in 0..MaxRetries
    BY <1>0, <1>4 DEF ReadSof
  <2> QED
    BY <1>4, <2>1, <2>2 DEF ReadSof, LineTypeOK, TypeOK
<1>5. CASE ReadLen
  <2>1. tty' \in Seq(ByteOfFrame) /\ Head(tty) \in ByteOfFrame /\ rpcBuff' \in Seq(ByteOfFrame)
    BY <1>0, <1>5, HeadTailProperties, EmptySeq DEF ReadLen
  <2>2. rpcLen' \in 0..(Byte - 1)
    <3>1. Head(tty).value + 3 \in Nat /\ Byte > 0
      <4>1. Head(tty).value \in 0..(Byte - 1)
        BY <2>1 DEF ByteOfFrame
      <4> QED
        BY <1>0, <4>1
    <3>2. (Head(tty).value + 3) % Byte \in 0..(Byte - 1)
      BY <1>0, <3>1
    <3> QED
      BY <1>5, <3>2 DEF ReadLen, BodyLength
  <2> QED
    BY <1>5, <2>1, <2>2 DEF ReadLen, LineTypeOK, TypeOK
<1>6. CASE ReadNoLen
  BY <1>6 DEF ReadNoLen, LineTypeOK, TypeOK
<1>7. CASE ReadBody
  <2> DEFINE n == Min({rpcLen, Len(tty)})
  <2>1. /\ pc' = pc /\ rpcLen > 0 /\ tty # <<>>
        /\ rpcBuff' = rpcBuff \o SubSeq(tty, 1, n) /\ tty' = From(tty, n) /\ rpcLen' = rpcLen - n
        /\ UNCHANGED <<frames, line, retryAttempts, heard, lost>>
    BY <1>7 DEF ReadBody, From
  <2>2. n \in 1..Len(tty) /\ n <= rpcLen
    BY <2>1, Taken
  <2> HIDE DEF n
  <2>3. n \in 0..Len(tty) /\ rpcLen - n \in 0..(Byte - 1)
    BY <1>0, <2>2
  <2>4. SubSeq(tty, 1, n) \in Seq(ByteOfFrame) /\ From(tty, n) \in Seq(ByteOfFrame)
    BY <1>0, <2>3, CutInTwo, FromProperties
  <2>5. rpcBuff' \in Seq(ByteOfFrame)
    BY <1>0, <2>1, <2>4, ConcatProperties
  <2> QED
    BY <2>1, <2>3, <2>4, <2>5 DEF LineTypeOK, TypeOK
<1>8. CASE Retry
  <2>1. retryAttempts' \in 0..MaxRetries
    BY <1>0, <1>8 DEF Retry
  <2> QED
    BY <1>8, <2>1 DEF Retry, LineTypeOK, TypeOK
<1>9. CASE GiveUp
  BY <1>9 DEF GiveUp, LineTypeOK, TypeOK
<1>10. CASE FailureUnnoticed
  <2>1. rpcLen' \in 0..(Byte - 1)
    BY <1>0, <1>10 DEF FailureUnnoticed
  <2> QED
    BY <1>10, <2>1 DEF FailureUnnoticed, LineTypeOK, TypeOK
<1>11. CASE Process
  <2>1. heard' \in Seq(0..MaxFrames)
    BY <1>0, <1>11, HeardNumber, AppendProperties DEF Process
  <2> QED
    BY <1>11, <2>1 DEF Process, LineTypeOK, TypeOK
<1>12. CASE UNCHANGED vars
  BY <1>12 DEF vars, LineTypeOK, TypeOK
<1> QED
  BY <1>1, <1>2, <1>3, <1>4, <1>5, <1>6, <1>7, <1>8, <1>9, <1>10, <1>11, <1>12
  DEF Next, ZbSocProcessRpc

LEMMA LineTypeInit ==
    ASSUME Init PROVE LineTypeOK
<1>1. <<>> \in Seq(Seq(ByteOfFrame)) /\ <<>> \in Seq(ByteOfFrame) /\ <<>> \in Seq(0..MaxFrames)
      /\ Len(<<>>) = 0
  BY EmptySeq
<1>2. WellFormed(<<>>)
  BY DEF WellFormed
<1>3. 0 \in 0..(Byte - 1) /\ 0 \in 0..MaxRetries /\ 0 <= MaxFrames
  BY ByteAssumption, BoundAssumption
<1> QED
  BY <1>1, <1>2, <1>3 DEF Init, LineTypeOK, TypeOK

\* Every step of a program and its processor is one of the line or leaves it alone:
\* an answer is one of the frames that can be sent.
LEMMA ProgramStep ==
    ASSUME [PrNext]_prVars PROVE [Next]_vars
<1>1. CASE WriteArrives
  <2>1. CASE Answer(command) = "none"
    BY <1>1, <2>1 DEF WriteArrives, vars, reader
  <2>2. CASE Answer(command) # "none"
    <3> DEFINE a == Answer(command)
               len == IF a = "model" THEN ModelLen ELSE InfoLen
    <3>1. len \in Lengths /\ Min(Fill) \in Fill
      <4>1. Fill \subseteq Nat /\ Fill # {}
        BY ByteAssumption, AnswerAssumption
      <4> QED
        BY <4>1, MinOfFill, AnswerAssumption
    <3>2. SocSends(len, Min(Fill), 0)
      BY <1>1, <2>2 DEF WriteArrives, AnswerFrame, SocSends
    <3>3. 0 \in 0..(Header + Byte)
      BY ByteAssumption DEF Header
    <3> HIDE DEF len
    <3>4. SocSendsAny
      BY <3>1, <3>2, <3>3 DEF SocSendsAny
    <3> QED
      BY <3>4 DEF Next
  <2> QED
    BY <2>1, <2>2
<1>2. CASE WriteDiscarded \/ TimeOut
  BY <1>2 DEF WriteDiscarded, TimeOut
<1>3. CASE PrRead \/ PrProcess
  BY <1>3 DEF PrRead, PrProcess, Next, ZbSocProcessRpc
<1>4. CASE Unasked
  BY <1>4 DEF Unasked, Next
<1>5. CASE PrOpen \/ Arrives
  BY <1>5 DEF PrOpen, Arrives, Next
<1>6. CASE UNCHANGED prVars
  BY <1>6 DEF prVars
<1> QED
  BY <1>1, <1>2, <1>3, <1>4, <1>5, <1>6 DEF PrNext, Program


-----------------------------------------------------------------------------
(* Where the reader is in the stream. *)

AllClean == \A n \in DOMAIN frames : Clean(frames[n])

\* Unless a frame was lost and a body holds a start byte, the reader knows where a
\* frame begins.
InSync ==
    ~lost \/ AllClean =>
      /\ pc = "len" => Stream # <<>> /\ Stream[1].at = 2
      /\ pc = "body" => /\ Stream # <<>> /\ Stream[1].at = 3
                        /\ rpcLen + Len(rpcBuff) = Len(frames[Stream[1].frame]) - 2

\* As long as nothing was lost, the next frame in the stream is the next to be
\* processed.
AtNext ==
    /\ pc = "closed" => heard = <<>> /\ ~lost
    /\ ~lost =>
         /\ \A i \in DOMAIN heard : heard[i] = i
         /\ pc # "closed" =>
              /\ Stream = <<>> => pc = "sof" /\ Len(heard) = Len(frames)
              /\ Stream # <<>> => /\ Stream[1].frame = Len(heard) + 1
                                  /\ pc = "sof" => Stream[1].at = 1

NoGarbled == AllClean => \A i \in DOMAIN heard : heard[i] # Garbled

Position == InSync /\ AtNext /\ NoGarbled

LineInv == LineTypeOK /\ Piece(frames, Stream) /\ Position

\* The first byte of the stream is one of a frame.
LEMMA FirstByte ==
    ASSUME LineTypeOK, Piece(frames, Stream), Stream # <<>>
    PROVE  LET n == Stream[1].frame
               k == Stream[1].at
               f == frames[n]
           IN /\ n \in DOMAIN frames /\ n \in 1..Len(frames) /\ Len(frames) \in Nat
              /\ k \in 1..Len(f) /\ Len(f) \in 5..(Byte - 1) /\ Byte \in Nat
              /\ Stream[1] = f[k]
              /\ k = 1 => Stream[1].value = SOF
              /\ k = 2 => Stream[1].value = Len(f) - 5 /\ Stream[1].value # SOF
              /\ k > 2 /\ AllClean => Stream[1].value # SOF
<1> DEFINE n == Stream[1].frame
           k == Stream[1].at
           f == frames[n]
<1>1. 1 \in DOMAIN Stream
  BY StreamType, LenProperties
<1>2. n \in DOMAIN frames /\ k \in DOMAIN f /\ Stream[1] = f[k]
  BY <1>1 DEF Piece
<1>3. n \in 1..Len(frames) /\ Len(frames) \in Nat
  BY <1>2, LenProperties DEF LineTypeOK
<1>4. /\ f \in Seq(ByteOfFrame) /\ Len(f) >= 5 /\ Len(f) < Byte
      /\ f[1].value = SOF /\ f[2].value = Len(f) - 5 /\ f[2].value \in Lengths
  BY <1>2 DEF LineTypeOK, WellFormed
<1>5. Len(f) \in Nat /\ DOMAIN f = 1..Len(f) /\ Byte \in Nat /\ SOF \notin Lengths
  BY <1>4, LenProperties, ByteAssumption, LengthAssumption
<1>6. k > 2 /\ AllClean => f[k].value # SOF
  BY <1>2 DEF AllClean, Clean, Header
<1> QED
  BY <1>2, <1>3, <1>4, <1>5, <1>6, SMTT(20)

\* A frame does not end with the stream before its last byte.
LEMMA NextByte ==
    ASSUME LineTypeOK, Piece(frames, Stream), Stream # <<>>,
           Stream[1].at < Len(frames[Stream[1].frame])
    PROVE  LET t == From(Stream, 1) IN
             t # <<>> /\ t[1].frame = Stream[1].frame /\ t[1].at = Stream[1].at + 1
<1> DEFINE s == Stream
           t == From(s, 1)
<1>1. /\ s \in Seq(ByteOfFrame) /\ Len(s) \in Nat /\ Len(s) >= 1 /\ DOMAIN s = 1..Len(s)
  BY StreamType, LenProperties, EmptySeq
<1>2. Len(s) # 1
  BY DEF Piece
<1>3. 1 \in 0..Len(s) /\ 1 \in 1..(Len(s) - 1) /\ 1 \in DOMAIN s /\ 2 \in DOMAIN s
  BY <1>1, <1>2
<1>4. t \in Seq(ByteOfFrame) /\ Len(t) = Len(s) - 1 /\ t[1] = s[1 + 1]
  BY <1>1, <1>3, FromProperties
<1>5. t # <<>>
  BY <1>1, <1>2, <1>4, EmptySeq
<1>6. 2 - 1 <= LeftOf(frames, s[1])
  <2>1. Len(frames[s[1].frame]) \in Nat /\ s[1].at \in Nat
    BY FirstByte
  <2> QED
    BY <2>1 DEF LeftOf
<1>7. s[2].frame = s[1].frame /\ s[2].at = s[1].at + (2 - 1)
  BY <1>3, <1>6 DEF Piece
<1> QED
  BY <1>4, <1>5, <1>7

\* The body of a frame, and what comes after it.
LEMMA WholeBody ==
    ASSUME LineTypeOK, Piece(frames, Stream), pc = "body", Stream # <<>>, Stream[1].at = 3,
           Len(rpcBuff) = Len(frames[Stream[1].frame]) - 2
    PROVE  LET n == Stream[1].frame
               t == From(Stream, Len(rpcBuff))
           IN /\ rpcBuff = Body(frames[n])
              /\ t = <<>> => n = Len(frames)
              /\ t # <<>> => t[1].frame = n + 1 /\ t[1].at = 1
<1> DEFINE s == Stream
           n == s[1].frame
           f == frames[n]
           m == Len(rpcBuff)
           t == From(s, m)
           r == tty \o line
<1>1. s \in Seq(ByteOfFrame) /\ Len(s) \in Nat /\ DOMAIN s = 1..Len(s)
  BY StreamType, LenProperties
<1>2. /\ n \in DOMAIN frames /\ n \in 1..Len(frames) /\ Len(f) \in 5..(Byte - 1)
      /\ Byte \in Nat /\ s[1] = f[3] /\ Len(frames) \in Nat
  BY FirstByte
<1>3. /\ Body(f) \in Seq(ByteOfFrame) /\ Len(Body(f)) = m
      /\ \A i \in 1..m : Body(f)[i] = f[i + 2]
      /\ DOMAIN f = 1..Len(f)
  <2>1. /\ Body(f) \in Seq(ByteOfFrame) /\ Len(Body(f)) = Len(f) - 2
        /\ \A i \in 1..(Len(f) - 2) : Body(f)[i] = f[i + 2]
        /\ DOMAIN f = 1..Len(f)
    <3>1. WellFormed(frames) /\ n \in DOMAIN frames
      BY <1>2 DEF LineTypeOK
    <3> QED
      BY <3>1, BodyProperties
  <2>2. m = Len(f) - 2
    OBVIOUS
  <2> HIDE DEF m, f
  <2> QED
    BY <2>1, <2>2
<1>4. /\ s = rpcBuff \o r /\ rpcBuff \in Seq(ByteOfFrame) /\ r \in Seq(ByteOfFrame)
  BY StreamType DEF Stream, Begun, LineTypeOK
<1> HIDE DEF s, r
<1>5. /\ Len(s) = m + Len(r) /\ Len(r) \in Nat /\ m \in Nat /\ m \in 0..Len(s)
      /\ \A i \in 1..m : s[i] = rpcBuff[i]
  <2>1. /\ Len(s) = m + Len(r)
        /\ \A i \in 1..(m + Len(r)) : s[i] = IF i <= m THEN rpcBuff[i] ELSE r[i - m]
    BY <1>4, ConcatProperties
  <2>2. Len(r) \in Nat /\ m \in Nat
    BY <1>4, LenProperties
  <2> HIDE DEF m
  <2>3. Len(s) = m + Len(r) /\ m \in 0..Len(s)
    BY <2>1, <2>2
  <2>4. ASSUME NEW i \in 1..m PROVE s[i] = rpcBuff[i]
    <3>1. i \in 1..(m + Len(r)) /\ i <= m
      BY <2>2
    <3> QED
      BY <2>1, <3>1
  <2> QED
    BY <2>2, <2>3, <2>4
<1>6. m = Len(f) - 2 /\ LeftOf(frames, s[1]) = m - 1 /\ m >= 3
  BY <1>2 DEF LeftOf, s
<1> HIDE DEF m, n, f, t
<1>7. \* The bytes of the body are that frame's.
      ASSUME NEW i \in 1..m PROVE s[i].frame = n /\ rpcBuff[i] = Body(f)[i]
  <2>1. i \in DOMAIN s /\ 1 \in DOMAIN s /\ 1 <= i /\ i - 1 <= m - 1 /\ 3 + (i - 1) = i + 2
    BY <1>1, <1>5
  <2>2. s[i].frame = s[1].frame /\ s[i].at = s[1].at + (i - 1)
    BY <1>6, <2>1 DEF Piece, s
  <2>3. s[i].frame = n /\ s[i].at = i + 2
    BY <2>1, <2>2 DEF n, s
  <2>4. s[i] = frames[s[i].frame][s[i].at]
    BY <2>1 DEF Piece, s
  <2> QED
    BY <1>3, <1>5, <2>3, <2>4 DEF f
<1>8. rpcBuff = Body(f)
  <2>1. Len(rpcBuff) = Len(Body(f)) /\ \A i \in 1..Len(rpcBuff) : rpcBuff[i] = Body(f)[i]
    BY <1>3, <1>7 DEF m
  <2> QED
    BY <1>3, <1>4, <2>1, SeqEqual
<1>9. /\ t \in Seq(ByteOfFrame) /\ Len(t) = Len(s) - m
      /\ \A i \in 1..(Len(s) - m) : t[i] = s[m + i]
  BY <1>1, <1>5, FromProperties DEF t
<1>10. ASSUME t = <<>> PROVE n = Len(frames)
  <2>1. Len(s) = m
    BY <1>1, <1>5, <1>9, <1>10, EmptySeq
  <2>2. m \in 1..m /\ s # <<>>
    BY <1>5, <1>6 DEF s
  <2>3. s[Len(s)].frame = Len(frames)
    BY <2>2 DEF Piece, s
  <2> QED
    BY <1>7, <2>1, <2>2, <2>3
<1>11. ASSUME t # <<>> PROVE t[1].frame = n + 1 /\ t[1].at = 1
  <2>1. Len(t) \in Nat /\ Len(t) # 0
    BY <1>9, <1>11, EmptySeq
  <2>2. 1 \in 1..(Len(s) - m)
    BY <1>1, <1>5, <1>9, <2>1
  <2>3. t[1] = s[m + 1]
    BY <1>9, <2>2
  <2>4. m + 1 \in DOMAIN s /\ 1 \in DOMAIN s /\ 1 <= m + 1 /\ (m + 1) - 1 = (m - 1) + 1
    BY <1>1, <1>5, <2>2
  <2>5. s[m + 1].frame = s[1].frame + 1 /\ s[m + 1].at = 1
    BY <1>6, <2>4 DEF Piece, s
  <2> QED
    BY <2>3, <2>5 DEF n
<1> QED
  BY <1>8, <1>10, <1>11 DEF s, n, f, m, t


LEMMA PieceStep ==
    ASSUME LineTypeOK, Piece(frames, Stream), [Next]_vars
    PROVE  Piece(frames, Stream)'
<1>1. Stream \in Seq(ByteOfFrame) /\ Len(Stream) \in Nat
  BY StreamType
<1>2. CASE SocSendsAny
  <2>1. PICK f \in Seq(ByteOfFrame) :
          frames' = Append(frames, f) /\ Stream' = Stream \o f /\ WellFormed(frames')
    BY <1>2, SendsGrow
  <2> QED
    BY <1>1, <2>1, PieceGrows DEF LineTypeOK
<1>3. ASSUME NEW m \in 0..Len(Stream), Stream' = From(Stream, m), frames' = frames
      PROVE  Piece(frames, Stream)'
  BY <1>1, <1>3, FromIsPiece
<1>4. ASSUME Stream' = Stream, frames' = frames PROVE Piece(frames, Stream)'
  BY <1>4
<1>5. CASE Open
  <2>1. Len(tty) \in 0..Len(Stream) /\ Stream' = From(Stream, Len(tty)) /\ frames' = frames
    BY <1>1, <1>5, ReadsShorten, StreamType DEF Open
  <2> QED
    BY <1>3, <2>1
<1>6. CASE ReadSof \/ ReadLen
  <2>1. 1 \in 0..Len(Stream) /\ Stream' = From(Stream, 1) /\ frames' = frames
    BY <1>1, <1>6, ReadsShorten DEF ReadSof, ReadLen
  <2> QED
    BY <1>3, <2>1
<1>7. CASE GiveUp \/ Process
  <2>1. Len(rpcBuff) \in Nat
    BY LenProperties DEF LineTypeOK
  <2>2. Len(rpcBuff) <= Len(Stream) /\ Stream' = From(Stream, Len(rpcBuff))
    BY <1>7, ReadsShorten
  <2>3. frames' = frames
    BY <1>7 DEF GiveUp, Process
  <2>4. Len(rpcBuff) \in 0..Len(Stream)
    BY <1>1, <2>1, <2>2
  <2> QED
    BY <1>3, <2>2, <2>3, <2>4
<1>8. CASE ByteArrives \/ ReadBody \/ ReadNoLen \/ Retry \/ FailureUnnoticed
  <2>1. Stream' = Stream
    BY <1>8, ReadsShorten
  <2>2. frames' = frames
    BY <1>8 DEF ByteArrives, ReadBody, ReadNoLen, Retry, FailureUnnoticed
  <2> QED
    BY <1>4, <2>1, <2>2
<1>9. CASE UNCHANGED vars
  <2>1. Stream' = Stream /\ frames' = frames
    BY <1>9 DEF vars, Stream, Begun
  <2> QED
    BY <1>4, <2>1
<1> QED
  BY <1>2, <1>5, <1>6, <1>7, <1>8, <1>9 DEF Next, ZbSocProcessRpc

\* A frame more.
LEMMA PositionSends ==
    ASSUME LineInv, SocSendsAny PROVE Position'
<1>1. PICK f \in Seq(ByteOfFrame) :
        /\ frames' = Append(frames, f) /\ f # <<>> /\ Stream' = Stream \o f
        /\ WellFormed(frames') /\ Len(frames') = Len(frames) + 1
        /\ frames' \in Seq(Seq(ByteOfFrame))
  BY SendsGrow DEF LineInv
<1>2. pc' = pc /\ rpcLen' = rpcLen /\ rpcBuff' = rpcBuff /\ heard' = heard /\ lost' = lost
  BY SendsGrow DEF LineInv, reader
<1>3. /\ Stream \in Seq(ByteOfFrame) /\ Len(Stream) \in Nat /\ Len(f) \in Nat /\ Len(f) >= 1
      /\ Len(frames) \in Nat /\ DOMAIN frames = 1..Len(frames)
      /\ DOMAIN frames' = 1..(Len(frames) + 1)
  BY <1>1, StreamType, LenProperties, EmptySeq DEF LineInv, LineTypeOK
<1>4. (\A n \in 1..Len(frames) : frames'[n] = frames[n]) /\ frames'[Len(frames) + 1] = f
  BY <1>1, AppendProperties DEF LineInv, LineTypeOK
<1>5. /\ Len(Stream \o f) = Len(Stream) + Len(f) /\ Stream \o f \in Seq(ByteOfFrame)
      /\ \A i \in 1..(Len(Stream) + Len(f)) :
           (Stream \o f)[i] = IF i <= Len(Stream) THEN Stream[i] ELSE f[i - Len(Stream)]
  BY <1>3, ConcatProperties
<1>6. Stream' # <<>>
  <2>1. Len(Stream') # 0
    BY <1>1, <1>3, <1>5
  <2> QED
    BY <2>1, EmptySeq
<1>7. Stream # <<>> => /\ Stream'[1] = Stream[1]
                       /\ frames'[Stream[1].frame] = frames[Stream[1].frame]
  <2>1. SUFFICES ASSUME Stream # <<>>
                 PROVE  /\ Stream'[1] = Stream[1]
                        /\ frames'[Stream[1].frame] = frames[Stream[1].frame]
    OBVIOUS
  <2>2. Len(Stream) >= 1
    BY <1>3, <2>1, EmptySeq
  <2>3. 1 \in 1..(Len(Stream) + Len(f))
    BY <1>3, <2>2
  <2>4. Stream[1].frame \in 1..Len(frames)
    BY <2>1, FirstByte DEF LineInv
  <2> QED
    BY <1>1, <1>4, <1>5, <2>2, <2>3, <2>4
<1>8. Stream = <<>> => Stream'[1].frame = Len(frames) + 1 /\ Stream'[1].at = 1
  <2>1. SUFFICES ASSUME Stream = <<>>
                 PROVE  Stream'[1].frame = Len(frames) + 1 /\ Stream'[1].at = 1
    OBVIOUS
  <2>2. Stream' = f
    BY <1>1, <2>1, ConcatEmptySeq
  <2>3. Len(frames) + 1 \in DOMAIN frames' /\ 1 \in DOMAIN f
    BY <1>3, LenProperties
  <2> QED
    BY <1>1, <1>4, <2>2, <2>3 DEF WellFormed
<1>9. AllClean' => AllClean
  BY <1>3, <1>4 DEF AllClean
<1>10. InSync'
  BY <1>2, <1>6, <1>7, <1>9 DEF LineInv, Position, InSync
<1>11. AtNext'
  BY <1>2, <1>6, <1>7, <1>8 DEF LineInv, Position, AtNext
<1>12. NoGarbled'
  BY <1>2, <1>9 DEF LineInv, Position, NoGarbled
<1> QED
  BY <1>10, <1>11, <1>12 DEF Position

LEMMA PositionOpen ==
    ASSUME LineInv, Open PROVE Position'
<1>1. pc = "closed" /\ pc' = "sof" /\ lost' = (frames # <<>>) /\ UNCHANGED <<frames, heard>>
  BY DEF Open
<1>2. heard = <<>> /\ Len(heard) = 0
  BY <1>1, EmptySeq DEF LineInv, Position, AtNext
<1>3. ~lost' => Len(frames) = 0 /\ Stream' = <<>>
  <2>1. SUFFICES ASSUME frames = <<>> PROVE Len(frames) = 0 /\ Stream' = <<>>
    BY <1>1
  <2>2. Len(frames) = 0 /\ DOMAIN frames = {}
    BY <2>1, EmptySeq
  <2>3. Piece(frames, Stream)' /\ LineTypeOK'
    BY PieceStep, LineTypeStep DEF LineInv, Next
  <2>4. Stream' \in Seq(ByteOfFrame)
    <3>1. /\ Len(tty) <= Len(Stream) /\ Stream' = From(Stream, Len(tty))
          /\ Stream \in Seq(ByteOfFrame) /\ Len(Stream) \in Nat /\ Len(tty) \in Nat
      BY ReadsShorten, StreamType DEF LineInv
    <3>2. Len(tty) \in 0..Len(Stream)
      BY <3>1
    <3> QED
      BY <3>1, <3>2, FromProperties
  <2>5. DOMAIN Stream' = {}
    BY <1>1, <2>2, <2>3 DEF Piece
  <2> QED
    BY <2>2, <2>4, <2>5, LenProperties, EmptySeq
<1>4. InSync'
  BY <1>1 DEF InSync
<1>5. AtNext'
  BY <1>1, <1>2, <1>3, EmptySeq DEF AtNext
<1>6. NoGarbled'
  BY <1>1, <1>2, EmptySeq DEF NoGarbled
<1> QED
  BY <1>4, <1>5, <1>6 DEF Position

LEMMA PositionSof ==
    ASSUME LineInv, ReadSof PROVE Position'
<1>1. /\ pc = "sof" /\ UNCHANGED <<frames, rpcLen, rpcBuff, heard, lost>>
      /\ pc' \in {"sof", "len"}
      /\ pc' = "len" <=> Head(tty).value = SOF
  BY DEF ReadSof
<1>2. /\ Stream # <<>> /\ Head(tty) = Stream[1] /\ Stream' = From(Stream, 1)
  BY ReadsShorten DEF LineInv
<1> DEFINE n == Stream[1].frame
           k == Stream[1].at
           f == frames[n]
<1>3. /\ k \in 1..Len(f) /\ Len(f) \in 5..(Byte - 1) /\ Byte \in Nat
      /\ k = 1 => Stream[1].value = SOF
      /\ k = 2 => Stream[1].value # SOF
      /\ k > 2 /\ AllClean => Stream[1].value # SOF
  BY <1>2, FirstByte DEF LineInv
<1>4. k = 1 => Stream' # <<>> /\ Stream'[1].frame = n /\ Stream'[1].at = 2
  BY <1>2, <1>3, NextByte DEF LineInv
<1>5. ~lost => k = 1 /\ n = Len(heard) + 1
  BY <1>1, <1>2 DEF LineInv, Position, AtNext
<1>6. AllClean /\ pc' = "len" => k = 1
  BY <1>1, <1>2, <1>3
<1> HIDE DEF n, k, f
<1>7. InSync'
  <2>1. AllClean' = AllClean
    BY <1>1 DEF AllClean
  <2> QED
    BY <1>1, <1>4, <1>5, <1>6, <2>1 DEF InSync
<1>8. AtNext'
  <2>1. ~lost => pc' = "len"
    BY <1>1, <1>2, <1>3, <1>5 DEF k
  <2> QED
    BY <1>1, <1>4, <1>5, <2>1 DEF AtNext, LineInv, Position
<1>9. NoGarbled'
  BY <1>1 DEF NoGarbled, AllClean, LineInv, Position
<1> QED
  BY <1>7, <1>8, <1>9 DEF Position

\* A frame of at most 255 bytes has a body whose length fits in the counter.
LEMMA LengthFits ==
    ASSUME NEW len \in Nat, NEW l \in 5..(Byte - 1), len = l - 5
    PROVE  BodyLength(len) = l - 2
<1>1. Byte \in Nat /\ len + 3 \in 0..(Byte - 1) /\ len + 3 = l - 2
  BY ByteAssumption
<1>2. (len + 3) % Byte = len + 3
  BY <1>1
<1> QED
  BY <1>1, <1>2 DEF BodyLength

LEMMA PositionLen ==
    ASSUME LineInv, ReadLen PROVE Position'
<1>1. /\ pc = "len" /\ UNCHANGED <<frames, heard, lost>> /\ pc' = "body" /\ rpcBuff' = <<>>
      /\ rpcLen' = BodyLength(Head(tty).value)
  BY DEF ReadLen
<1>2. /\ Stream # <<>> /\ Head(tty) = Stream[1] /\ Stream' = From(Stream, 1)
  BY ReadsShorten DEF LineInv
<1> DEFINE n == Stream[1].frame
           k == Stream[1].at
           f == frames[n]
<1>3. /\ k \in 1..Len(f) /\ Len(f) \in 5..(Byte - 1) /\ Byte \in Nat
      /\ k = 2 => Stream[1].value = Len(f) - 5
  BY <1>2, FirstByte DEF LineInv
<1>4. k = 2 => Stream' # <<>> /\ Stream'[1].frame = n /\ Stream'[1].at = 3
  BY <1>2, <1>3, NextByte DEF LineInv
<1>5. ~lost \/ AllClean => k = 2
  BY <1>1 DEF LineInv, Position, InSync
<1>6. k = 2 => rpcLen' = Len(f) - 2
  <2>1. Len(f) - 5 \in Nat
    BY <1>3
  <2> QED
    BY <1>1, <1>2, <1>3, <2>1, LengthFits
<1>7. ~lost => n = Len(heard) + 1
  BY <1>1, <1>2 DEF LineInv, Position, AtNext
<1>8. Len(rpcBuff') = 0 /\ Len(f) - 2 + 0 = Len(f) - 2
  BY <1>1, <1>3, EmptySeq
<1> HIDE DEF k
<1>9. InSync'
  <2>1. AllClean' = AllClean
    BY <1>1 DEF AllClean
  <2>2. ~lost \/ AllClean =>
          /\ Stream' # <<>> /\ Stream'[1].at = 3
          /\ rpcLen' + Len(rpcBuff') = Len(frames[Stream'[1].frame]) - 2
    BY <1>4, <1>5, <1>6, <1>8
  <2> QED
    BY <1>1, <2>1, <2>2 DEF InSync
<1> HIDE DEF n, f
<1>10. AtNext'
  BY <1>1, <1>4, <1>5, <1>7 DEF AtNext, LineInv, Position
<1>11. NoGarbled'
  BY <1>1 DEF NoGarbled, AllClean, LineInv, Position
<1> QED
  BY <1>9, <1>10, <1>11 DEF Position

\* The other reads.
LEMMA PositionReads ==
    ASSUME LineInv, \/ ByteArrives \/ ReadNoLen \/ ReadBody \/ Retry \/ GiveUp
                    \/ FailureUnnoticed \/ UNCHANGED vars
    PROVE  Position'
<1>1. CASE ByteArrives \/ ReadBody \/ Retry \/ UNCHANGED vars
  <2>1. Stream' = Stream /\ rpcLen' + Len(rpcBuff') = rpcLen + Len(rpcBuff)
    <3>1. ByteArrives \/ ReadBody \/ Retry => Stream' = Stream
      BY ReadsShorten DEF LineInv
    <3>2. ReadBody => rpcLen' + Len(rpcBuff') = rpcLen + Len(rpcBuff)
      BY ReadsShorten DEF LineInv
    <3>3. UNCHANGED vars => Stream' = Stream
      BY DEF vars, Stream, Begun
    <3>4. ByteArrives \/ Retry \/ UNCHANGED vars => UNCHANGED <<rpcLen, rpcBuff>>
      BY DEF ByteArrives, Retry, vars, reader
    <3> QED
      BY <1>1, <3>1, <3>2, <3>3, <3>4
  <2>2. UNCHANGED <<pc, frames, heard, lost>>
    BY <1>1 DEF ByteArrives, ReadBody, Retry, vars, reader
  <2>3. AllClean' = AllClean
    BY <2>2 DEF AllClean
  <2>4. InSync'
    BY <2>1, <2>2, <2>3 DEF LineInv, Position, InSync
  <2>5. AtNext'
    BY <2>1, <2>2 DEF LineInv, Position, AtNext
  <2>6. NoGarbled'
    BY <2>2, <2>3 DEF LineInv, Position, NoGarbled
  <2> QED
    BY <2>4, <2>5, <2>6 DEF Position
<1>2. CASE ReadNoLen \/ GiveUp
  <2>1. pc' = "sof" /\ lost' /\ UNCHANGED <<frames, heard>>
    BY <1>2 DEF ReadNoLen, GiveUp
  <2> QED
    BY <2>1 DEF LineInv, Position, InSync, AtNext, NoGarbled, AllClean
<1>3. CASE FailureUnnoticed
  <2>1. pc = "body" /\ rpcLen = Byte - 1 /\ UNCHANGED <<frames, pc, rpcBuff, heard, lost>>
    BY <1>3 DEF FailureUnnoticed, ReadFails
  <2>2. ~(~lost \/ AllClean)
    <3>1. SUFFICES ASSUME ~lost \/ AllClean PROVE FALSE
      OBVIOUS
    <3>2. Stream # <<>> /\ rpcLen + Len(rpcBuff) = Len(frames[Stream[1].frame]) - 2
      BY <2>1, <3>1 DEF LineInv, Position, InSync
    <3>3. Len(frames[Stream[1].frame]) \in 5..(Byte - 1) /\ Byte \in Nat
      BY <3>2, FirstByte DEF LineInv
    <3>4. Len(rpcBuff) \in Nat
      BY LenProperties DEF LineInv, LineTypeOK
    <3> QED
      BY <2>1, <3>2, <3>3, <3>4
  <2>3. AllClean' = AllClean
    BY <2>1 DEF AllClean
  <2> QED
    BY <2>1, <2>2, <2>3 DEF LineInv, Position, InSync, AtNext, NoGarbled
<1> QED
  BY <1>1, <1>2, <1>3

LEMMA PositionProcess ==
    ASSUME LineInv, Process PROVE Position'
<1>1. /\ pc = "body" /\ rpcLen = 0 /\ pc' = "sof" /\ UNCHANGED <<frames, lost>>
      /\ heard' = Append(heard, IF \E f \in ToSet(frames) : rpcBuff = Body(f)
                                THEN rpcBuff[1].frame ELSE Garbled)
  BY DEF Process
<1>2. Stream' = From(Stream, Len(rpcBuff))
  BY ReadsShorten DEF LineInv
<1>3. heard \in Seq(0..MaxFrames) /\ Len(heard) \in Nat
  BY LenProperties DEF LineInv, LineTypeOK, TypeOK
<1>4. AllClean' = AllClean
  BY <1>1 DEF AllClean
<1>5. InSync'
  BY <1>1 DEF InSync
<1>6. CASE ~lost \/ AllClean
  <2> DEFINE n == Stream[1].frame
  <2>1. /\ Stream # <<>> /\ Stream[1].at = 3
        /\ Len(rpcBuff) = Len(frames[n]) - 2
    <3>1. Stream # <<>> /\ Stream[1].at = 3 /\ rpcLen + Len(rpcBuff) = Len(frames[n]) - 2
      BY <1>1, <1>6 DEF LineInv, Position, InSync
    <3>2. Len(rpcBuff) \in Nat
      BY LenProperties DEF LineInv, LineTypeOK
    <3> QED
      BY <1>1, <3>1, <3>2
  <2>2. /\ rpcBuff = Body(frames[n])
        /\ Stream' = <<>> => n = Len(frames)
        /\ Stream' # <<>> => Stream'[1].frame = n + 1 /\ Stream'[1].at = 1
    BY <1>1, <1>2, <2>1, WholeBody DEF LineInv
  <2>3. n \in DOMAIN frames /\ n \in 1..Len(frames) /\ Len(frames) \in Nat
    BY <2>1, FirstByte DEF LineInv
  <2>4. rpcBuff[1].frame = n
    BY <2>2, <2>3, BodyProperties DEF LineInv, LineTypeOK
  <2>5. \E f \in ToSet(frames) : rpcBuff = Body(f)
    BY <2>2, <2>3 DEF ToSet
  <2>6. heard' = Append(heard, n)
    BY <1>1, <2>4, <2>5
  <2>7. ~lost => n = Len(heard) + 1 /\ \A i \in DOMAIN heard : heard[i] = i
    BY <1>1, <2>1 DEF LineInv, Position, AtNext
  <2> HIDE DEF n
  <2>8. n \in 0..MaxFrames /\ n # Garbled
    BY <2>3, BoundAssumption DEF LineInv, LineTypeOK, TypeOK, Garbled
  <2>9. /\ DOMAIN heard' = 1..(Len(heard) + 1) /\ Len(heard') = Len(heard) + 1
        /\ DOMAIN heard = 1..Len(heard)
        /\ \A i \in 1..Len(heard) : heard'[i] = heard[i]
        /\ heard'[Len(heard) + 1] = n
    <3>1. /\ Append(heard, n) \in Seq(0..MaxFrames) /\ Len(Append(heard, n)) = Len(heard) + 1
          /\ \A i \in 1..Len(heard) : Append(heard, n)[i] = heard[i]
          /\ Append(heard, n)[Len(heard) + 1] = n
      BY <1>3, <2>8, AppendProperties
    <3>2. DOMAIN Append(heard, n) = 1..(Len(heard) + 1) /\ DOMAIN heard = 1..Len(heard)
      BY <1>3, <3>1, LenProperties
    <3> QED
      BY <2>6, <3>1, <3>2
  <2>10. AtNext'
    <3>1. SUFFICES ASSUME ~lost
                   PROVE /\ \A i \in DOMAIN heard' : heard'[i] = i
                         /\ Stream' = <<>> => Len(heard') = Len(frames)
                         /\ Stream' # <<>> => Stream'[1].frame = Len(heard') + 1 /\ Stream'[1].at = 1
      BY <1>1 DEF AtNext
    <3>2. \A i \in DOMAIN heard' : heard'[i] = i
      BY <1>3, <2>7, <2>9, <3>1
    <3> QED
      BY <2>2, <2>7, <2>9, <3>1, <3>2
  <2>11. NoGarbled'
    <3>1. AllClean => \A i \in 1..(Len(heard) + 1) : heard'[i] # Garbled
      BY <1>3, <2>8, <2>9 DEF LineInv, Position, NoGarbled
    <3> QED
      BY <1>4, <2>9, <3>1 DEF NoGarbled
  <2> QED
    BY <1>5, <2>10, <2>11 DEF Position
<1>7. CASE ~(~lost \/ AllClean)
  BY <1>1, <1>4, <1>5, <1>7 DEF Position, AtNext, NoGarbled
<1> QED
  BY <1>6, <1>7

LEMMA LineInvStep ==
    ASSUME LineInv, [Next]_vars PROVE LineInv'
<1>1. LineTypeOK' /\ Piece(frames, Stream)'
  BY LineTypeStep, PieceStep DEF LineInv
<1>2. Position'
  BY PositionSends, PositionOpen, PositionSof, PositionLen, PositionReads, PositionProcess
  DEF Next, ZbSocProcessRpc
<1> QED
  BY <1>1, <1>2 DEF LineInv

LEMMA LineInvInit ==
    ASSUME Init PROVE LineInv
<1>1. LineTypeOK
  BY LineTypeInit
<1>2. Stream = <<>>
  <2>1. Begun = <<>> /\ tty = <<>> /\ line = <<>> /\ <<>> \in Seq(ByteOfFrame)
    BY EmptySeq DEF Init, Begun
  <2> QED
    BY <2>1, ConcatEmptySeq DEF Stream
<1>3. DOMAIN <<>> = {}
  BY EmptySeq, LenProperties
<1>4. Piece(frames, Stream)
  BY <1>2, <1>3 DEF Piece
<1>5. Position
  BY <1>2, <1>3 DEF Init, Position, InSync, AtNext, NoGarbled, AllClean
<1> QED
  BY <1>1, <1>4, <1>5 DEF LineInv

LEMMA LineInvariant == PrSpec => []LineInv
<1>1. PrInit => LineInv
  BY LineInvInit DEF PrInit
<1>2. LineInv /\ [PrNext]_prVars => LineInv'
  BY ProgramStep, LineInvStep
<1> QED
  BY <1>1, <1>2, PTL DEF PrSpec

-----------------------------------------------------------------------------
(* Theorems. *)

\* As long as no read came too early, every frame is processed once and in order,
\* and none is left behind, for any number of frames of any length.
THEOREM FramesAreProcessed == PrSpec => []FramesProcessed
<1>1. LineInv => FramesProcessed
  <2>1. SUFFICES ASSUME LineInv, ~lost
                 PROVE /\ \A i \in DOMAIN heard : heard[i] = i
                       /\ pc = "sof" /\ tty = <<>> /\ line = <<>> => Len(heard) = Len(frames)
    BY DEF FramesProcessed
  <2>2. pc = "sof" /\ tty = <<>> /\ line = <<>> => Stream = <<>>
    BY EmptySeq, ConcatEmptySeq DEF Stream, Begun
  <2> QED
    BY <2>1, <2>2 DEF LineInv, Position, AtNext
<1> QED
  BY <1>1, LineInvariant, PTL

\* A handler is only given a body made of pieces if a frame was lost and a body
\* holds a start byte.
THEOREM GarbledNeedsBoth == PrSpec => []GarbledNeedsStartByte
<1>1. LineInv => GarbledNeedsStartByte
  <2>1. SUFFICES ASSUME LineInv, Contains(heard, Garbled)
                 PROVE  lost /\ \E f \in ToSet(frames) : ~Clean(f)
    BY DEF GarbledNeedsStartByte
  <2>2. PICK i \in 1..Len(heard) : heard[i] = Garbled
    BY <2>1 DEF Contains
  <2>3. i \in DOMAIN heard /\ i # 0
    <3>1. heard \in Seq(0..MaxFrames)
      BY <2>1 DEF LineInv, LineTypeOK, TypeOK
    <3>2. DOMAIN heard = 1..Len(heard) /\ Len(heard) \in Nat
      BY <3>1, LenProperties
    <3> QED
      BY <3>2
  <2>4. lost
    BY <2>1, <2>2, <2>3 DEF LineInv, LineTypeOK, TypeOK, Position, AtNext, Garbled
  <2>5. ~AllClean
    BY <2>1, <2>2, <2>3 DEF LineInv, Position, NoGarbled
  <2> QED
    BY <2>4, <2>5 DEF AllClean, ToSet
<1> QED
  BY <1>1, LineInvariant, PTL


-----------------------------------------------------------------------------
(* The programs. *)

\* Who has counted more time-outs than it may has ended.
CountIsFair ==
    /\ verdict = "none" => timeoutCnt <= MaxTimeouts
    /\ verdict = "unknown" => timeoutCnt = MaxTimeouts + 1

PrTypeInv == LineTypeOK /\ PrTypeOK /\ CountIsFair

LEMMA SlipCounts ==
    ASSUME slips \in 0..2, Slip
    PROVE  /\ slips' \in 1..2 /\ slips' >= slips
           /\ slips >= 1 => slips' = 2
<1>1. {2, slips + 1} \subseteq Nat /\ {2, slips + 1} # {}
  OBVIOUS
<1>2. Min({2, slips + 1}) \in {2, slips + 1} /\ \A j \in {2, slips + 1} : Min({2, slips + 1}) <= j
  BY <1>1, MinOfFill
<1>3. (slips' = 2 \/ slips' = slips + 1) /\ slips' <= 2 /\ slips' <= slips + 1
  BY <1>2 DEF Slip
<1> QED
  BY <1>3

\* What an answer is made of.
LEMMA WriteSays ==
    ASSUME PrTypeInv, WriteArrives
    PROVE  LET a == Answer(command) IN
             /\ a = "none" => UNCHANGED <<frames, says>>
             /\ a # "none" =>
                  /\ says' = Append(says, a) /\ says' \in Seq(Answers)
                  /\ Len(says') = Len(says) + 1 /\ Len(frames') = Len(frames) + 1
                  /\ \A n \in 1..Len(says) : says'[n] = says[n]
                  /\ says'[Len(says) + 1] = a
<1> DEFINE a == Answer(command)
<1>1. CASE a = "none"
  BY <1>1 DEF WriteArrives
<1>2. CASE a # "none"
  <2>1. a \in Answers
    BY <1>2 DEF Answer, Answers, PrTypeInv, PrTypeOK, Soc
  <2>2. says' = Append(says, a) /\ frames' = Append(frames, AnswerFrame(a))
    BY <1>2 DEF WriteArrives
  <2>3. Len(Append(frames, AnswerFrame(a))) = Len(frames) + 1
    BY DEF PrTypeInv, LineTypeOK
  <2> HIDE DEF a
  <2>4. /\ Append(says, a) \in Seq(Answers) /\ Len(Append(says, a)) = Len(says) + 1
        /\ \A n \in 1..Len(says) : Append(says, a)[n] = says[n]
        /\ Append(says, a)[Len(says) + 1] = a
    BY <2>1, AppendProperties DEF PrTypeInv, PrTypeOK
  <2> QED
    BY <1>2, <2>2, <2>3, <2>4 DEF a
<1> QED
  BY <1>1, <1>2

LEMMA PrTypeStep ==
    ASSUME PrTypeInv, [PrNext]_prVars PROVE PrTypeInv'
<1>1. LineTypeOK' /\ TypeOK'
  BY ProgramStep, LineTypeStep DEF PrTypeInv, LineTypeOK
<1>2. /\ says \in Seq(Answers) /\ Len(says) = Len(frames) /\ slips \in 0..2
      /\ timeoutCnt \in 0..(MaxTimeouts + 1) /\ MaxTimeouts \in Nat
  BY TimeoutAssumption DEF PrTypeInv, PrTypeOK
<1>3. CASE WriteArrives
  <2>1. says' \in Seq(Answers) /\ Len(says') = Len(frames')
    BY <1>2, <1>3, WriteSays
  <2>2. up' \in BOOLEAN /\ command' \in Commands
    BY <1>3 DEF WriteArrives, After, Commands, PrTypeInv, PrTypeOK
  <2> QED
    BY <1>1, <1>3, <2>1, <2>2 DEF WriteArrives, PrTypeInv, PrTypeOK, CountIsFair
<1>4. CASE WriteDiscarded
  <2>1. slips' \in 0..2
    BY <1>2, <1>4, SlipCounts DEF WriteDiscarded
  <2>2. command' \in Commands
    BY <1>4 DEF WriteDiscarded, After, Commands
  <2> QED
    BY <1>1, <1>4, <2>1, <2>2 DEF WriteDiscarded, PrTypeInv, PrTypeOK, CountIsFair, vars
<1>5. CASE TimeOut
  <2>1. slips' \in 0..2
    BY <1>2, <1>5, SlipCounts DEF TimeOut
  <2>2. /\ verdict = "none" /\ timeoutCnt' = timeoutCnt + 1
        /\ UNCHANGED <<vars, program, soc, up, says>>
    BY <1>5 DEF TimeOut, Loops
  <2>3. timeoutCnt' \in 0..(MaxTimeouts + 1)
    BY <1>2, <2>2 DEF PrTypeInv, CountIsFair
  <2>4. /\ verdict' \in {"none", "unknown"} /\ command' \in Commands
        /\ verdict' = "none" => timeoutCnt' <= MaxTimeouts
        /\ verdict' = "unknown" => timeoutCnt' = MaxTimeouts + 1
    <3>1. CASE timeoutCnt' > MaxTimeouts
      <4>1. verdict' = "unknown" /\ command' = command
        BY <1>5, <3>1 DEF TimeOut
      <4> QED
        BY <1>2, <2>3, <3>1, <4>1 DEF PrTypeInv, PrTypeOK
    <3>2. CASE ~(timeoutCnt' > MaxTimeouts)
      <4>1. verdict' = "none" /\ command' = Fallback(timeoutCnt')
        BY <1>5, <2>2, <3>2 DEF TimeOut
      <4> QED
        <5>1. command' \in Commands
          BY <4>1 DEF Fallback, Commands
        <5>2. timeoutCnt' <= MaxTimeouts
          BY <1>2, <2>3, <3>2
        <5> QED
          BY <4>1, <5>1, <5>2
    <3> QED
      BY <3>1, <3>2
  <2> QED
    BY <1>1, <2>1, <2>2, <2>3, <2>4 DEF PrTypeInv, PrTypeOK, CountIsFair, vars
<1>6. CASE PrProcess
  <2>1. /\ verdict = "none" /\ frames' = frames
        /\ UNCHANGED <<program, soc, up, timeoutCnt, says, slips>>
    BY <1>6 DEF PrProcess, Loops, Process
  <2>2. verdict' \in {"none", "model"} /\ command' \in Commands
    BY <1>6, <2>1 DEF PrProcess, Callback, Commands, PrTypeInv, PrTypeOK
  <2> QED
    BY <1>1, <2>1, <2>2 DEF PrTypeInv, PrTypeOK, CountIsFair
<1>7. CASE Unasked
  <2>1. /\ says' = Append(says, "other") /\ Len(frames') = Len(frames) + 1
        /\ UNCHANGED <<program, soc, up, command, timeoutCnt, verdict, slips>>
    BY <1>7, SendsGrow DEF Unasked, PrTypeInv
  <2>2. says' \in Seq(Answers) /\ Len(says') = Len(says) + 1
    BY <1>2, <2>1, AppendProperties DEF Answers
  <2> QED
    BY <1>1, <1>2, <2>1, <2>2 DEF PrTypeInv, PrTypeOK, CountIsFair
<1>8. CASE PrRead \/ PrOpen \/ Arrives \/ UNCHANGED prVars
  <2>1. UNCHANGED probe
    BY <1>8 DEF PrRead, PrOpen, Arrives, prVars
  <2>2. frames' = frames
    BY <1>8 DEF PrRead, PrOpen, Arrives, prVars, vars, Open, ByteArrives, ReadSof, ReadLen, ReadNoLen,
                ReadBody, Retry, GiveUp, FailureUnnoticed
  <2> QED
    BY <1>1, <2>1, <2>2 DEF probe, PrTypeInv, PrTypeOK, CountIsFair
<1> QED
  BY <1>3, <1>4, <1>5, <1>6, <1>7, <1>8 DEF PrNext, Program

LEMMA PrTypeInit ==
    ASSUME PrInit PROVE PrTypeInv
<1>1. LineTypeOK
  BY LineTypeInit DEF PrInit
<1>2. <<>> \in Seq(Answers) /\ Len(<<>>) = 0
  BY EmptySeq
<1>3. command \in Commands /\ up \in BOOLEAN
  <2>1. program \in {"gateway", "zbFwStart", "getFwModel"}
    BY ProgramAssumption DEF PrInit
  <2> QED
    BY <2>1 DEF PrInit, Commands, Soc
<1>4. timeoutCnt = 0 /\ 0 \in 0..(MaxTimeouts + 1) /\ 0 <= MaxTimeouts
  BY TimeoutAssumption DEF PrInit
<1>5. CountIsFair
  BY <1>4 DEF PrInit, CountIsFair
<1>6. says \in Seq(Answers) /\ Len(says) = Len(frames)
  BY <1>2 DEF PrInit, Init
<1>7. TypeOK /\ program \in Programs /\ soc \in Soc /\ slips \in 0..2
      /\ verdict \in {"none", "model", "unknown"}
  BY <1>1 DEF LineTypeOK, PrInit
<1> QED
  BY <1>1, <1>3, <1>4, <1>5, <1>6, <1>7 DEF PrTypeInv, PrTypeOK

LEMMA PrTypeInvariant == PrSpec => []PrTypeInv
<1>1. PrInit => PrTypeInv
  BY PrTypeInit
<1>2. PrTypeInv /\ [PrNext]_prVars => PrTypeInv'
  BY PrTypeStep
<1> QED
  BY <1>1, <1>2, PTL DEF PrSpec

\* Every state of the line, the reader and the programs is well typed.
THEOREM PrTypeCorrect == PrSpec => []PrTypeOK
<1>1. PrTypeInv => PrTypeOK
  BY DEF PrTypeInv
<1> QED
  BY <1>1, PrTypeInvariant, PTL


-----------------------------------------------------------------------------
(* "Unknown model". *)

\* The polls between two time-outs would find the model if nothing went astray:
\* the first ones ask for the address, the later ones the coordinator.
Answerable(s, t) == IF t <= InfoTimeouts THEN s.util = "info" ELSE s.coordinator

\* One, or two, such polls lie back.
Before(s, t) == \E i \in 0..(t - 1) : Answerable(s, i)
TwiceBefore(s, t) == \E i, j \in 0..(t - 1) : i < j /\ Answerable(s, i) /\ Answerable(s, j)

\* A command that leads to the model, and an answer that does so and has not been
\* processed.
Leads(s, c) ==
    \/ c \in {"start", "getInfo"} /\ s.util = "info"
    \/ c = "getModel own"
    \/ c = "getModel 0" /\ s.coordinator

Pending(a, n) == \E k \in DOMAIN a : k > n /\ a[k] \in {"info", "model"}

Alive == Leads(soc, command) \/ Pending(says, Len(heard))

\* Each poll that could have found the model has cost a loss, the present one too
\* if it leads nowhere any more.
LossesCounted ==
    /\ Before(soc, timeoutCnt) => slips >= 1
    /\ ~soc.waits /\ TwiceBefore(soc, timeoutCnt) => slips >= 2
    /\ verdict = "none" /\ Answerable(soc, timeoutCnt) /\ ~Alive =>
         /\ slips >= 1
         /\ ~soc.waits /\ Before(soc, timeoutCnt) => slips >= 2

\* The network of the processor runs, is about to, or a loss is the reason.
Powered == IF soc.waits THEN slips = 0 => up \/ command = "start" ELSE up

ProbeInv ==
    /\ program = "gateway" => verdict = "none"
    /\ program # "gateway" /\ ~lost /\ (soc.waits => program = "zbFwStart") =>
         Powered /\ LossesCounted

LEMMA OneMorePoll ==
    ASSUME NEW s, NEW t \in Nat
    PROVE  /\ Before(s, t + 1) => Before(s, t) \/ Answerable(s, t)
           /\ TwiceBefore(s, t + 1) => TwiceBefore(s, t) \/ (Before(s, t) /\ Answerable(s, t))
<1>1. \A i \in 0..((t + 1) - 1) : i \in 0..(t - 1) \/ i = t
  OBVIOUS
<1>2. Before(s, t + 1) => Before(s, t) \/ Answerable(s, t)
  BY <1>1 DEF Before
<1>3. ASSUME TwiceBefore(s, t + 1), ~TwiceBefore(s, t) PROVE Before(s, t) /\ Answerable(s, t)
  <2>1. PICK i, j \in 0..((t + 1) - 1) : i < j /\ Answerable(s, i) /\ Answerable(s, j)
    BY <1>3 DEF TwiceBefore
  <2>2. i \in 0..(t - 1)
    BY <2>1
  <2>3. j = t
    BY <1>1, <1>3, <2>1, <2>2 DEF TwiceBefore
  <2> QED
    BY <2>1, <2>2, <2>3 DEF Before
<1> QED
  BY <1>2, <1>3

\* No more frames are processed than were sent, and all if nothing is left.
LEMMA HeardOfSent ==
    ASSUME LineInv, ~lost, pc # "closed"
    PROVE  /\ Len(heard) \in Nat /\ Len(frames) \in Nat /\ Len(heard) <= Len(frames)
           /\ pc = "sof" /\ tty = <<>> /\ line = <<>> => Len(heard) = Len(frames)
<1>1. Len(heard) \in Nat /\ Len(frames) \in Nat
  BY LenProperties DEF LineInv, LineTypeOK, TypeOK
<1>2. Stream = <<>> => Len(heard) = Len(frames)
  BY DEF LineInv, Position, AtNext
<1>3. Stream # <<>> => Len(heard) + 1 \in 1..Len(frames)
  BY FirstByte DEF LineInv, Position, AtNext
<1>4. pc = "sof" /\ tty = <<>> /\ line = <<>> => Stream = <<>>
  BY EmptySeq, ConcatEmptySeq DEF Stream, Begun
<1> QED
  BY <1>1, <1>2, <1>3, <1>4

\* A command that arrives keeps the poll alive.
LEMMA WriteStep ==
    ASSUME PrTypeInv, LineInv, ProbeInv, WriteArrives PROVE ProbeInv'
<1>1. /\ pc = "sof" /\ command' = After(command) /\ up' = (up \/ command = "start")
      /\ UNCHANGED <<program, soc, timeoutCnt, verdict, slips, heard, lost>>
  BY DEF WriteArrives, reader
<1>2. SUFFICES ASSUME program # "gateway", ~lost, soc.waits => program = "zbFwStart"
               PROVE  Powered' /\ LossesCounted'
  BY <1>1 DEF ProbeInv
<1>3. Powered /\ LossesCounted
  BY <1>2 DEF ProbeInv
<1>4. soc \in Soc /\ up \in BOOLEAN /\ command \in Commands /\ slips \in 0..2
      /\ says \in Seq(Answers) /\ Len(says) = Len(frames)
  BY DEF PrTypeInv, PrTypeOK
<1>5. Powered'
  BY <1>1, <1>3, <1>4 DEF Powered, Soc
<1>6. ASSUME ~soc.waits \/ slips = 0, Alive PROVE Alive'
  <2> DEFINE a == Answer(command)
  <2>1. Len(heard) \in Nat /\ Len(heard) <= Len(says) /\ DOMAIN says = 1..Len(says) /\ Len(says) \in Nat
    BY <1>1, <1>2, <1>4, HeardOfSent, LenProperties
  <2>2. /\ a = "none" => says' = says
        /\ a # "none" =>
             /\ says' \in Seq(Answers) /\ Len(says') = Len(says) + 1
             /\ \A n \in 1..Len(says) : says'[n] = says[n]
             /\ says'[Len(says) + 1] = a
    BY WriteSays
  <2>3. a # "none" => DOMAIN says' = 1..(Len(says) + 1)
    BY <2>2, LenProperties
  <2>4. CASE Pending(says, Len(heard))
    <3>1. Pending(says', Len(heard))
      BY <2>1, <2>2, <2>3, <2>4 DEF Pending
    <3> QED
      BY <1>1, <3>1 DEF Alive
  <2>5. CASE a \in {"info", "model"}
    <3>1. Len(says) + 1 \in DOMAIN says' /\ says'[Len(says) + 1] = a /\ Len(says) + 1 > Len(heard)
      BY <2>1, <2>2, <2>3, <2>5
    <3>2. Pending(says', Len(heard))
      BY <2>5, <3>1 DEF Pending
    <3> QED
      BY <1>1, <3>2 DEF Alive
  <2>6. CASE Leads(soc, command) /\ a \notin {"info", "model"}
    <3>1. up \/ command = "start"
      BY <1>3, <1>6 DEF Powered
    <3>2. command = "start" /\ soc.util = "info"
      BY <1>4, <2>6, <3>1 DEF Leads, Answer, Commands
    <3> QED
      BY <1>1, <3>2 DEF After, Leads, Alive
  <2> QED
    BY <1>6, <2>4, <2>5, <2>6 DEF Alive
<1>7. verdict = "none" /\ Answerable(soc, timeoutCnt) /\ ~Alive' =>
        /\ slips >= 1
        /\ ~soc.waits /\ Before(soc, timeoutCnt) => slips >= 2
  <2>1. CASE ~soc.waits \/ slips = 0
    BY <1>3, <1>6, <2>1 DEF LossesCounted
  <2>2. CASE soc.waits /\ slips # 0
    BY <1>4, <2>2
  <2> QED
    BY <1>4, <2>1, <2>2
<1>8. LossesCounted'
  BY <1>1, <1>3, <1>7 DEF LossesCounted
<1> QED
  BY <1>5, <1>8

\* A command that is discarded is a loss.
LEMMA DiscardStep ==
    ASSUME PrTypeInv, ProbeInv, WriteDiscarded PROVE ProbeInv'
<1>1. /\ Slip /\ UNCHANGED <<program, soc, up, timeoutCnt, verdict, lost>>
  BY DEF WriteDiscarded, vars
<1>2. SUFFICES ASSUME program # "gateway", ~lost, soc.waits => program = "zbFwStart"
               PROVE  Powered' /\ LossesCounted'
  BY <1>1 DEF ProbeInv
<1>3. Powered /\ LossesCounted
  BY <1>2 DEF ProbeInv
<1>4. slips \in 0..2 /\ slips' \in 1..2 /\ slips' >= slips /\ (slips >= 1 => slips' = 2)
  BY <1>1, SlipCounts DEF PrTypeInv, PrTypeOK
<1>5. Powered'
  BY <1>1, <1>3, <1>4 DEF Powered
<1>6. /\ slips' >= 1
      /\ Before(soc, timeoutCnt) => slips' >= 2
      /\ ~soc.waits /\ TwiceBefore(soc, timeoutCnt) => slips' >= 2
  BY <1>3, <1>4 DEF LossesCounted
<1>7. LossesCounted'
  BY <1>1, <1>6 DEF LossesCounted
<1> QED
  BY <1>5, <1>7

\* A time-out ends a poll: it has led nowhere, or its answer is late.
LEMMA TimeOutStep ==
    ASSUME PrTypeInv, LineInv, ProbeInv, TimeOut PROVE ProbeInv'
<1>1. /\ program # "gateway" /\ command = "none" /\ verdict = "none"
      /\ pc = "sof" /\ tty = <<>> /\ timeoutCnt' = timeoutCnt + 1
      /\ UNCHANGED <<program, soc, up, says, heard, lost>>
  BY DEF TimeOut, Loops, vars
<1>2. SUFFICES ASSUME ~lost, soc.waits => program = "zbFwStart"
               PROVE  Powered' /\ LossesCounted'
  BY <1>1 DEF ProbeInv
<1>3. Powered /\ LossesCounted
  BY <1>1, <1>2 DEF ProbeInv
<1>4. slips \in 0..2 /\ timeoutCnt \in Nat /\ soc \in Soc
      /\ says \in Seq(Answers) /\ Len(says) = Len(frames)
  BY TimeoutAssumption DEF PrTypeInv, PrTypeOK
<1>5. /\ slips' \in 0..2 /\ slips' >= slips
      /\ Answerable(soc, timeoutCnt) =>
           /\ slips' >= 1
           /\ ~soc.waits /\ Before(soc, timeoutCnt) => slips' >= 2
  <2>1. CASE line # <<>>
    <3>1. Slip
      BY <2>1 DEF TimeOut
    <3>2. slips' \in 1..2 /\ slips' >= slips /\ (slips >= 1 => slips' = 2)
      BY <1>4, <3>1, SlipCounts
    <3> QED
      BY <1>3, <1>4, <3>2 DEF LossesCounted
  <2>2. CASE line = <<>>
    <3>1. slips' = slips
      BY <2>2 DEF TimeOut
    <3>2. ~Pending(says, Len(heard))
      <4>1. Len(heard) = Len(says) /\ DOMAIN says = 1..Len(says) /\ Len(says) \in Nat
        BY <1>1, <1>2, <1>4, <2>2, HeardOfSent, LenProperties
      <4> QED
        BY <4>1 DEF Pending
    <3>3. ~Leads(soc, command)
      BY <1>1 DEF Leads
    <3>4. ~Alive
      BY <3>2, <3>3 DEF Alive
    <3> QED
      BY <1>1, <1>3, <1>4, <3>1, <3>4 DEF LossesCounted
  <2> QED
    BY <2>1, <2>2
<1>6. Powered'
  BY <1>1, <1>3, <1>4, <1>5 DEF Powered
<1>7. Before(soc, timeoutCnt + 1) => slips' >= 1
  BY <1>3, <1>4, <1>5, OneMorePoll DEF LossesCounted
<1>8. ~soc.waits /\ TwiceBefore(soc, timeoutCnt + 1) => slips' >= 2
  BY <1>3, <1>4, <1>5, OneMorePoll DEF LossesCounted
<1>9. verdict' = "none" /\ Answerable(soc, timeoutCnt + 1) => Alive'
  <2>1. SUFFICES ASSUME verdict' = "none", Answerable(soc, timeoutCnt + 1) PROVE Leads(soc, command')
    BY <1>1 DEF Alive
  <2>2. command' = Fallback(timeoutCnt + 1)
    BY <1>1, <2>1 DEF TimeOut
  <2>3. CASE timeoutCnt + 1 <= InfoTimeouts
    <3>0. ~(timeoutCnt + 1 > InfoTimeouts)
      BY <1>4, <2>3, TimeoutAssumption
    <3>1. command' = "getInfo" /\ soc.util = "info"
      BY <2>1, <2>2, <2>3, <3>0 DEF Fallback, Answerable
    <3> QED
      BY <3>1 DEF Leads
  <2>4. CASE ~(timeoutCnt + 1 <= InfoTimeouts)
    <3>0. timeoutCnt + 1 > InfoTimeouts
      BY <1>4, <2>4, TimeoutAssumption
    <3>1. command' = "getModel 0" /\ soc.coordinator
      BY <2>1, <2>2, <2>4, <3>0 DEF Fallback, Answerable
    <3> QED
      BY <3>1 DEF Leads
  <2> QED
    BY <2>3, <2>4
<1>10. LossesCounted'
  BY <1>1, <1>7, <1>8, <1>9 DEF LossesCounted
<1> QED
  BY <1>6, <1>10

\* A callback keeps a poll alive if its answer was one that leads on.
LEMMA ProcessStep ==
    ASSUME PrTypeInv, LineInv, LineInv', ProbeInv, PrProcess PROVE ProbeInv'
<1>1. /\ command = "none" /\ verdict = "none" /\ Process
      /\ UNCHANGED <<program, soc, up, timeoutCnt, says, slips>> /\ lost' = lost
  BY DEF PrProcess, Loops, Process
<1>2. CASE program = "gateway"
  BY <1>1, <1>2 DEF PrProcess, ProbeInv
<1>3. CASE program # "gateway"
  <2>1. SUFFICES ASSUME ~lost, soc.waits => program = "zbFwStart"
                 PROVE  Powered' /\ LossesCounted'
    BY <1>1, <1>3 DEF ProbeInv
  <2>2. Powered /\ LossesCounted
    BY <1>3, <2>1 DEF ProbeInv
  <2>3. Powered'
    BY <1>1, <2>2 DEF Powered
  <2>4. PICK a \in Answers : (Last(heard') # Garbled => a = says[Last(heard')]) /\ Callback(a)
    BY <1>3 DEF PrProcess
  <2>5. Len(heard) \in Nat /\ Len(heard') = Len(heard) + 1 /\ Last(heard') = Len(heard) + 1
    <3>1. /\ heard \in Seq(0..MaxFrames) /\ heard' \in Seq(0..MaxFrames)
          /\ \A i \in DOMAIN heard' : heard'[i] = i
      BY <1>1, <2>1 DEF LineInv, LineTypeOK, TypeOK, Position, AtNext
    <3>2. Len(heard) \in Nat /\ DOMAIN heard' = 1..Len(heard')
      BY <3>1, LenProperties
    <3>3. Len(heard') = Len(heard) + 1
      BY <1>1, <3>1 DEF Process
    <3>4. heard'[Len(heard) + 1] = Len(heard) + 1
      BY <3>1, <3>2, <3>3
    <3> QED
      BY <3>2, <3>3, <3>4 DEF Last
  <2>6. a = says[Len(heard) + 1]
    BY <2>4, <2>5 DEF Garbled
  <2>7. verdict' = "none" /\ ~Alive' => ~Alive
    <3>1. SUFFICES ASSUME verdict' = "none", ~Alive' PROVE ~Alive
      OBVIOUS
    <3>2. a \notin {"info", "model"}
      <4>1. a # "model"
        BY <2>4, <3>1 DEF Callback
      <4>2. a = "info" => Alive'
        BY <2>4 DEF Callback, Alive, Leads
      <4> QED
        BY <3>1, <4>1, <4>2
    <3>3. ~Pending(says, Len(heard) + 1)
      BY <1>1, <2>5, <3>1 DEF Alive
    <3>4. ~Pending(says, Len(heard))
      <4>1. SUFFICES ASSUME NEW k \in DOMAIN says, k > Len(heard), says[k] \in {"info", "model"}
                     PROVE  FALSE
        BY DEF Pending
      <4>2. k \in Nat
        <5>1. says \in Seq(Answers)
          BY DEF PrTypeInv, PrTypeOK
        <5> QED
          BY <4>1, <5>1, LenProperties
      <4>3. k = Len(heard) + 1 \/ k > Len(heard) + 1
        BY <2>5, <4>1, <4>2
      <4> QED
        BY <2>6, <3>2, <3>3, <4>1, <4>3 DEF Pending
    <3> QED
      BY <1>1, <3>4 DEF Alive, Leads
  <2>8. LossesCounted'
    BY <1>1, <2>2, <2>7 DEF LossesCounted
  <2> QED
    BY <2>3, <2>8
<1> QED
  BY <1>2, <1>3

LEMMA ProbeInvStep ==
    ASSUME PrTypeInv, LineInv, ProbeInv, [PrNext]_prVars PROVE ProbeInv'
<1>1. LineInv'
  BY ProgramStep, LineInvStep
<1>2. CASE Unasked
  BY <1>2 DEF Unasked, ProbeInv
<1>3. CASE PrRead \/ PrOpen \/ Arrives \/ UNCHANGED prVars
  <2>1. UNCHANGED probe /\ heard' = heard
    BY <1>3 DEF PrRead, PrOpen, Arrives, prVars, vars, reader, Open, ByteArrives, ReadSof, ReadLen,
                ReadNoLen, ReadBody, Retry, GiveUp, FailureUnnoticed
  <2>2. ~lost' => ~lost
    <3>1. CASE PrOpen
      BY <3>1 DEF PrOpen, Open, LineInv, Position, AtNext
    <3>2. CASE PrRead \/ Arrives \/ UNCHANGED prVars
      BY <3>2 DEF PrRead, Arrives, prVars, vars, reader, ByteArrives, ReadSof, ReadLen,
                  ReadNoLen, ReadBody, Retry, GiveUp, FailureUnnoticed
    <3> QED
      BY <1>3, <3>1, <3>2
  <2>3. /\ UNCHANGED <<program, soc, up, command, timeoutCnt, verdict, says, slips>>
    BY <2>1 DEF probe
  <2>4. Alive' = Alive
    BY <2>1, <2>3 DEF Alive
  <2>5. Powered' = Powered /\ LossesCounted' = LossesCounted
    BY <2>3, <2>4 DEF Powered, LossesCounted
  <2> QED
    BY <2>2, <2>3, <2>5 DEF ProbeInv
<1> QED
  BY <1>1, <1>2, <1>3, WriteStep, DiscardStep, TimeOutStep, ProcessStep DEF PrNext, Program

LEMMA ProbeInvInit ==
    ASSUME PrInit PROVE ProbeInv
<1>1. timeoutCnt = 0 /\ verdict = "none" /\ slips = 0 /\ up = ~soc.waits /\ soc \in Soc
  BY DEF PrInit
<1>2. program # "gateway" => command \in {"start", "getInfo"}
  BY ProgramAssumption DEF PrInit
<1>3. program = "zbFwStart" => command = "start"
  BY DEF PrInit
<1>4. Answerable(soc, 0) => soc.util = "info"
  BY TimeoutAssumption DEF Answerable
<1>5. ~Before(soc, 0) /\ ~TwiceBefore(soc, 0)
  BY DEF Before, TwiceBefore
<1>6. program # "gateway" => LossesCounted
  BY <1>1, <1>2, <1>4, <1>5 DEF LossesCounted, Alive, Leads
<1>7. program # "gateway" /\ (soc.waits => program = "zbFwStart") => Powered
  BY <1>1, <1>3 DEF Powered, Soc
<1> QED
  BY <1>1, <1>6, <1>7 DEF ProbeInv

\* A probe says "unknown" of a processor that could be asked only after two commands
\* or answers went astray, if there are polls of both kinds to make one good, as
\* there are with three and five.
THEOREM UnknownOnlyAfterLosses ==
    ASSUME InfoTimeouts >= 1, MaxTimeouts >= InfoTimeouts + 2
    PROVE  PrSpec => []UnknownNeedsLosses
<1>1. PrInit => ProbeInv
  BY ProbeInvInit
<1>2. PrTypeInv /\ LineInv /\ ProbeInv /\ [PrNext]_prVars => ProbeInv'
  BY ProbeInvStep
<1>3. PrTypeInv /\ ProbeInv => UnknownNeedsLosses
  <2>1. SUFFICES ASSUME PrTypeInv, ProbeInv, verdict = "unknown", ~lost,
                        soc.coordinator \/ soc.util = "info", soc.waits => program = "zbFwStart"
                 PROVE  slips >= (IF soc.waits THEN 1 ELSE 2)
    BY DEF UnknownNeedsLosses
  <2>2. timeoutCnt = MaxTimeouts + 1
    BY <2>1 DEF PrTypeInv, CountIsFair
  <2>3. LossesCounted
    BY <2>1 DEF ProbeInv
  <2>4. MaxTimeouts \in Nat /\ InfoTimeouts \in Nat /\ MaxTimeouts >= 3
    BY TimeoutAssumption
  <2>5. Before(soc, timeoutCnt) /\ TwiceBefore(soc, timeoutCnt)
    <3>1. CASE soc.util = "info"
      <4>1. Answerable(soc, 0) /\ Answerable(soc, 1)
        BY <2>4, <3>1 DEF Answerable
      <4>2. 0 \in 0..(timeoutCnt - 1) /\ 1 \in 0..(timeoutCnt - 1) /\ 0 < 1
        BY <2>2, <2>4
      <4> QED
        BY <4>1, <4>2 DEF Before, TwiceBefore
    <3>2. CASE soc.coordinator
      <4>1. Answerable(soc, MaxTimeouts - 1) /\ Answerable(soc, MaxTimeouts)
        BY <2>4, <3>2 DEF Answerable
      <4>2. /\ MaxTimeouts - 1 \in 0..(timeoutCnt - 1) /\ MaxTimeouts \in 0..(timeoutCnt - 1)
            /\ MaxTimeouts - 1 < MaxTimeouts
        BY <2>2, <2>4
      <4> QED
        BY <4>1, <4>2 DEF Before, TwiceBefore
    <3> QED
      BY <2>1, <3>1, <3>2
  <2> QED
    BY <2>3, <2>5 DEF LossesCounted
<1> QED
  BY <1>1, <1>2, <1>3, PrTypeInvariant, LineInvariant, PTL DEF PrSpec
=============================================================================
