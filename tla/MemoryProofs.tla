---------------------------- MODULE MemoryProofs ----------------------------
(***************************************************************************)
(* The layered memory is a flat one, for any number of chunks, any stores, *)
(* loads and resets.  Lemmas on trees come once per size: a tree of 16, 32  *)
(* or 64 bits is made from trees of half its size.                         *)
(***************************************************************************)
EXTENDS Memory, TLAPS

-----------------------------------------------------------------------------
(* Trees. *)

Value(w) == [0..(w - 1) -> Nat]

Gran8 == {Absent} \cup [kind : {"leaf"}, v : Value(1)]
Gran16 ==
    {Absent} \cup [kind : {"leaf"}, v : Value(2)] \cup [kind : {"pair"}, g1 : Gran8, g2 : Gran8]
Gran32 ==
    {Absent} \cup [kind : {"leaf"}, v : Value(4)] \cup [kind : {"pair"}, g1 : Gran16, g2 : Gran16]
Gran64 ==
    {Absent} \cup [kind : {"leaf"}, v : Value(8)] \cup [kind : {"pair"}, g1 : Gran32, g2 : Gran32]

\* An aligned value of w bytes at byte "which" of n bytes.
Fits(n, which, w) ==
    /\ w \in {1, 2, 4, 8}
    /\ which \in 0..(n - w)
    /\ w = 2 => which % 2 = 0
    /\ w = 4 => which % 4 = 0
    /\ w = 8 => which % 8 = 0

\* What the three kinds of trees are made of.
LEMMA Fields ==
    /\ Absent.kind = "absent"
    /\ \A v : Leaf(v).kind = "leaf" /\ Leaf(v).v = v
    /\ \A x, y : Pair(x, y).kind = "pair" /\ Pair(x, y).g1 = x /\ Pair(x, y).g2 = y
  BY DEF Absent, Leaf, Pair

\* A byte is absent or a leaf.
LEMMA Gran8Cases ==
    /\ Absent \in Gran8
    /\ \A v \in Value(1) : Leaf(v) \in Gran8
    /\ \A g \in Gran8 : g = Absent \/ \E v \in Value(1) : g = Leaf(v)
  BY DEF Gran8, Leaf

\* A tree of 16 bits is absent, a leaf, or a pair of trees of half the size.
LEMMA Gran16Cases ==
    /\ Absent \in Gran16
    /\ \A v \in Value(2) : Leaf(v) \in Gran16
    /\ \A x, y \in Gran8 : Pair(x, y) \in Gran16
    /\ \A g \in Gran16 :
          \/ g = Absent
          \/ \E v \in Value(2) : g = Leaf(v)
          \/ \E x, y \in Gran8 : g = Pair(x, y)
  BY DEF Gran16, Leaf, Pair

\* A tree of 32 bits is absent, a leaf, or a pair of trees of half the size.
LEMMA Gran32Cases ==
    /\ Absent \in Gran32
    /\ \A v \in Value(4) : Leaf(v) \in Gran32
    /\ \A x, y \in Gran16 : Pair(x, y) \in Gran32
    /\ \A g \in Gran32 :
          \/ g = Absent
          \/ \E v \in Value(4) : g = Leaf(v)
          \/ \E x, y \in Gran16 : g = Pair(x, y)
  BY DEF Gran32, Leaf, Pair

\* A tree of 64 bits is absent, a leaf, or a pair of trees of half the size.
LEMMA Gran64Cases ==
    /\ Absent \in Gran64
    /\ \A v \in Value(8) : Leaf(v) \in Gran64
    /\ \A x, y \in Gran32 : Pair(x, y) \in Gran64
    /\ \A g \in Gran64 :
          \/ g = Absent
          \/ \E v \in Value(8) : g = Leaf(v)
          \/ \E x, y \in Gran32 : g = Pair(x, y)
  BY DEF Gran64, Leaf, Pair

\* The byte of a tree of 8 bits.
LEMMA Byte8 ==
    /\ \A i : byte8(Absent, i) = NoByte
    /\ \A v, i : byte8(Leaf(v), i) = v[i]
    /\ \A g \in Gran8 : byte8(g, 0) \in Nat \cup {NoByte}
<1>1. \A i : byte8(Absent, i) = NoByte
  BY Fields DEF byte8
<1>2. \A v, i : byte8(Leaf(v), i) = v[i]
  BY Fields DEF byte8
<1>3. ASSUME NEW g \in Gran8 PROVE byte8(g, 0) \in Nat \cup {NoByte}
  BY <1>1, <1>2, Gran8Cases DEF Value
<1> QED BY <1>1, <1>2, <1>3

\* The bytes of a tree of 16 bits.
LEMMA Byte16 ==
    /\ \A i : byte16(Absent, i) = NoByte
    /\ \A v, i : byte16(Leaf(v), i) = v[i]
    /\ \A x, y, i : byte16(Pair(x, y), i) =
          IF i < 1 THEN byte8(x, i) ELSE byte8(y, i - 1)
    /\ \A g \in Gran16, i \in 0..1 : byte16(g, i) \in Nat \cup {NoByte}
<1>1. \A i : byte16(Absent, i) = NoByte
  BY Fields DEF byte16, byte_in
<1>2. \A v, i : byte16(Leaf(v), i) = v[i]
  BY Fields DEF byte16, byte_in
<1>3. \A x, y, i : byte16(Pair(x, y), i) =
          IF i < 1 THEN byte8(x, i) ELSE byte8(y, i - 1)
  BY Fields DEF byte16, byte_in
<1>4. ASSUME NEW g \in Gran16, NEW i \in 0..1
      PROVE  byte16(g, i) \in Nat \cup {NoByte}
  <2>1. CASE g = Absent
    BY <1>1, <2>1
  <2>2. CASE \E v \in Value(2) : g = Leaf(v)
    BY <1>2, <2>2 DEF Value
  <2>3. CASE \E x, y \in Gran8 : g = Pair(x, y)
    BY <1>3, <2>3, Byte8
  <2> QED BY <2>1, <2>2, <2>3, Gran16Cases
<1> QED BY <1>1, <1>2, <1>3, <1>4

\* The bytes of a tree of 32 bits.
LEMMA Byte32 ==
    /\ \A i : byte32(Absent, i) = NoByte
    /\ \A v, i : byte32(Leaf(v), i) = v[i]
    /\ \A x, y, i : byte32(Pair(x, y), i) =
          IF i < 2 THEN byte16(x, i) ELSE byte16(y, i - 2)
    /\ \A g \in Gran32, i \in 0..3 : byte32(g, i) \in Nat \cup {NoByte}
<1>1. \A i : byte32(Absent, i) = NoByte
  BY Fields DEF byte32, byte_in
<1>2. \A v, i : byte32(Leaf(v), i) = v[i]
  BY Fields DEF byte32, byte_in
<1>3. \A x, y, i : byte32(Pair(x, y), i) =
          IF i < 2 THEN byte16(x, i) ELSE byte16(y, i - 2)
  BY Fields DEF byte32, byte_in
<1>4. ASSUME NEW g \in Gran32, NEW i \in 0..3
      PROVE  byte32(g, i) \in Nat \cup {NoByte}
  <2>1. CASE g = Absent
    BY <1>1, <2>1
  <2>2. CASE \E v \in Value(4) : g = Leaf(v)
    BY <1>2, <2>2 DEF Value
  <2>3. CASE \E x, y \in Gran16 : g = Pair(x, y)
    BY <1>3, <2>3, Byte16
  <2> QED BY <2>1, <2>2, <2>3, Gran32Cases
<1> QED BY <1>1, <1>2, <1>3, <1>4

\* The bytes of a tree of 64 bits.
LEMMA Byte64 ==
    /\ \A i : byte64(Absent, i) = NoByte
    /\ \A v, i : byte64(Leaf(v), i) = v[i]
    /\ \A x, y, i : byte64(Pair(x, y), i) =
          IF i < 4 THEN byte32(x, i) ELSE byte32(y, i - 4)
    /\ \A g \in Gran64, i \in 0..7 : byte64(g, i) \in Nat \cup {NoByte}
<1>1. \A i : byte64(Absent, i) = NoByte
  BY Fields DEF byte64, byte_in
<1>2. \A v, i : byte64(Leaf(v), i) = v[i]
  BY Fields DEF byte64, byte_in
<1>3. \A x, y, i : byte64(Pair(x, y), i) =
          IF i < 4 THEN byte32(x, i) ELSE byte32(y, i - 4)
  BY Fields DEF byte64, byte_in
<1>4. ASSUME NEW g \in Gran64, NEW i \in 0..7
      PROVE  byte64(g, i) \in Nat \cup {NoByte}
  <2>1. CASE g = Absent
    BY <1>1, <2>1
  <2>2. CASE \E v \in Value(8) : g = Leaf(v)
    BY <1>2, <2>2 DEF Value
  <2>3. CASE \E x, y \in Gran32 : g = Pair(x, y)
    BY <1>3, <2>3, Byte32
  <2> QED BY <2>1, <2>2, <2>3, Gran64Cases
<1> QED BY <1>1, <1>2, <1>3, <1>4

\* Parts of values.
LEMMA Extracts ==
    ASSUME NEW n \in Nat, NEW v \in Value(n), NEW which \in Nat, NEW w \in Nat, which + w <= n
    PROVE  /\ extract(v, which, w) \in Value(w)
           /\ \A j \in 0..(w - 1) : extract(v, which, w)[j] = v[which + j]
  BY DEF extract, Value

\* The bytes of a value put together from two halves.
LEMMA Reassembles ==
    ASSUME NEW h \in Nat, NEW v0 \in Value(h), NEW v1 \in Value(h)
    PROVE  /\ reassemble(v0, v1, h) \in Value(2 * h)
           /\ \A j \in 0..(2 * h - 1) :
                 reassemble(v0, v1, h)[j] = IF j < h THEN v0[j] ELSE v1[j - h]
  BY DEF reassemble, Value

\* Splitting a tree of 16 bits changes no byte.
LEMMA Split16 ==
    ASSUME NEW g \in Gran16
    PROVE  /\ split(g, 1)[1] \in Gran8 /\ split(g, 1)[2] \in Gran8
           /\ \A i \in 0..0 : byte8(split(g, 1)[1], i) = byte16(g, i)
           /\ \A i \in 0..0 : byte8(split(g, 1)[2], i) = byte16(g, i + 1)
<1>1. CASE g = Absent
  <2>1. split(g, 1) = <<Absent, Absent>>
    BY <1>1, Fields DEF split
  <2> QED BY <1>1, <2>1, Gran8Cases, Byte8, Byte16
<1>2. CASE \E v \in Value(2) : g = Leaf(v)
  <2> PICK v \in Value(2) : g = Leaf(v)
    BY <1>2
  <2>1. /\ extract(v, 0, 1) \in Value(1)
        /\ \A j \in 0..0 : extract(v, 0, 1)[j] = v[j]
    BY Extracts
  <2>2. /\ extract(v, 1, 1) \in Value(1)
        /\ \A j \in 0..0 : extract(v, 1, 1)[j] = v[1 + j]
    BY Extracts
  <2>3. split(g, 1) = <<Leaf(extract(v, 0, 1)), Leaf(extract(v, 1, 1))>>
    BY Fields DEF split
  <2>4. \A i \in 0..0 :
            byte8(split(g, 1)[1], i) = v[i] /\ byte8(split(g, 1)[2], i) = v[i + 1]
    BY <2>1, <2>2, <2>3, Byte8
  <2> QED BY <2>1, <2>2, <2>3, <2>4, Gran8Cases, Byte16
<1>3. CASE \E x, y \in Gran8 : g = Pair(x, y)
  <2> PICK x \in Gran8, y \in Gran8 : g = Pair(x, y)
    BY <1>3
  <2>1. split(g, 1) = <<x, y>>
    BY Fields DEF split
  <2> QED BY <2>1, Byte16
<1> QED BY <1>1, <1>2, <1>3, Gran16Cases

\* Splitting a tree of 32 bits changes no byte.
LEMMA Split32 ==
    ASSUME NEW g \in Gran32
    PROVE  /\ split(g, 2)[1] \in Gran16 /\ split(g, 2)[2] \in Gran16
           /\ \A i \in 0..1 : byte16(split(g, 2)[1], i) = byte32(g, i)
           /\ \A i \in 0..1 : byte16(split(g, 2)[2], i) = byte32(g, i + 2)
<1>1. CASE g = Absent
  <2>1. split(g, 2) = <<Absent, Absent>>
    BY <1>1, Fields DEF split
  <2> QED BY <1>1, <2>1, Gran16Cases, Byte16, Byte32
<1>2. CASE \E v \in Value(4) : g = Leaf(v)
  <2> PICK v \in Value(4) : g = Leaf(v)
    BY <1>2
  <2>1. /\ extract(v, 0, 2) \in Value(2)
        /\ \A j \in 0..1 : extract(v, 0, 2)[j] = v[j]
    BY Extracts
  <2>2. /\ extract(v, 2, 2) \in Value(2)
        /\ \A j \in 0..1 : extract(v, 2, 2)[j] = v[2 + j]
    BY Extracts
  <2>3. split(g, 2) = <<Leaf(extract(v, 0, 2)), Leaf(extract(v, 2, 2))>>
    BY Fields DEF split
  <2>4. \A i \in 0..1 :
            byte16(split(g, 2)[1], i) = v[i] /\ byte16(split(g, 2)[2], i) = v[i + 2]
    BY <2>1, <2>2, <2>3, Byte16
  <2> QED BY <2>1, <2>2, <2>3, <2>4, Gran16Cases, Byte32
<1>3. CASE \E x, y \in Gran16 : g = Pair(x, y)
  <2> PICK x \in Gran16, y \in Gran16 : g = Pair(x, y)
    BY <1>3
  <2>1. split(g, 2) = <<x, y>>
    BY Fields DEF split
  <2> QED BY <2>1, Byte32
<1> QED BY <1>1, <1>2, <1>3, Gran32Cases

\* Splitting a tree of 64 bits changes no byte.
LEMMA Split64 ==
    ASSUME NEW g \in Gran64
    PROVE  /\ split(g, 4)[1] \in Gran32 /\ split(g, 4)[2] \in Gran32
           /\ \A i \in 0..3 : byte32(split(g, 4)[1], i) = byte64(g, i)
           /\ \A i \in 0..3 : byte32(split(g, 4)[2], i) = byte64(g, i + 4)
<1>1. CASE g = Absent
  <2>1. split(g, 4) = <<Absent, Absent>>
    BY <1>1, Fields DEF split
  <2> QED BY <1>1, <2>1, Gran32Cases, Byte32, Byte64
<1>2. CASE \E v \in Value(8) : g = Leaf(v)
  <2> PICK v \in Value(8) : g = Leaf(v)
    BY <1>2
  <2>1. /\ extract(v, 0, 4) \in Value(4)
        /\ \A j \in 0..3 : extract(v, 0, 4)[j] = v[j]
    BY Extracts
  <2>2. /\ extract(v, 4, 4) \in Value(4)
        /\ \A j \in 0..3 : extract(v, 4, 4)[j] = v[4 + j]
    BY Extracts
  <2>3. split(g, 4) = <<Leaf(extract(v, 0, 4)), Leaf(extract(v, 4, 4))>>
    BY Fields DEF split
  <2>4. \A i \in 0..3 :
            byte32(split(g, 4)[1], i) = v[i] /\ byte32(split(g, 4)[2], i) = v[i + 4]
    BY <2>1, <2>2, <2>3, Byte32
  <2> QED BY <2>1, <2>2, <2>3, <2>4, Gran32Cases, Byte64
<1>3. CASE \E x, y \in Gran32 : g = Pair(x, y)
  <2> PICK x \in Gran32, y \in Gran32 : g = Pair(x, y)
    BY <1>3
  <2>1. split(g, 4) = <<x, y>>
    BY Fields DEF split
  <2> QED BY <2>1, Byte64
<1> QED BY <1>1, <1>2, <1>3, Gran64Cases

\* Putting a value into a tree changes its bytes and no other.
LEMMA Put8 ==
    ASSUME NEW g \in Gran8, NEW which, NEW w, Fits(1, which, w), NEW v \in Value(w)
    PROVE  /\ gran8_put(g, which, v, w) \in Gran8
           /\ \A i \in 0..0 : byte8(gran8_put(g, which, v, w), i) =
                 IF i \in which..(which + w - 1) THEN v[i - which] ELSE byte8(g, i)
<1>1. w = 1 /\ which = 0
  BY DEF Fits
<1> QED BY <1>1, Gran8Cases, Byte8 DEF gran8_put

\* gran16_put: the bytes of the value where it was put, the former ones elsewhere.
LEMMA Put16 ==
    ASSUME NEW g \in Gran16, NEW which, NEW w, Fits(2, which, w), NEW v \in Value(w)
    PROVE  /\ gran16_put(g, which, v, w) \in Gran16
           /\ \A i \in 0..1 : byte16(gran16_put(g, which, v, w), i) =
                 IF i \in which..(which + w - 1) THEN v[i - which] ELSE byte16(g, i)
<1> DEFINE s == split(g, 1)
<1>1. /\ s[1] \in Gran8 /\ s[2] \in Gran8
      /\ \A i \in 0..0 : byte8(s[1], i) = byte16(g, i)
      /\ \A i \in 0..0 : byte8(s[2], i) = byte16(g, i + 1)
  BY Split16
<1>2. which \in Nat /\ w \in {1, 2, 4, 8} /\ which + w <= 2
  BY DEF Fits
<1>3. CASE w = 2
  <2>1. which = 0 /\ gran16_put(g, which, v, w) = Leaf(v)
    BY <1>2, <1>3 DEF gran16_put, put_half
  <2> QED BY <1>3, <2>1, Gran16Cases, Byte16
<1>4. CASE w # 2 /\ which < 1
  <2> DEFINE p == gran8_put(s[1], which, v, w)
  <2>1. Fits(1, which, w)
    BY <1>2, <1>4 DEF Fits
  <2>2. gran16_put(g, which, v, w) = Pair(p, s[2])
    BY <1>4 DEF gran16_put, put_half
  <2>3. /\ p \in Gran8
        /\ \A i \in 0..0 : byte8(p, i) =
              IF i \in which..(which + w - 1) THEN v[i - which] ELSE byte8(s[1], i)
    BY <1>1, <2>1, Put8
  <2>4. which + w <= 1
    BY <2>1 DEF Fits
  <2> HIDE DEF s, p
  <2>5. ASSUME NEW i \in 0..1
        PROVE  byte16(Pair(p, s[2]), i) =
                  IF i \in which..(which + w - 1) THEN v[i - which] ELSE byte16(g, i)
    <3>1. CASE i < 1
      BY <1>1, <2>3, <3>1, Byte16
    <3>2. CASE i >= 1
      <4>1. byte16(Pair(p, s[2]), i) = byte8(s[2], i - 1)
        BY <3>2, Byte16
      <4>2. byte8(s[2], i - 1) = byte16(g, i)
        BY <1>1, <3>2
      <4> QED BY <1>2, <2>4, <3>2, <4>1, <4>2
    <3> QED BY <3>1, <3>2
  <2> QED BY <1>1, <2>2, <2>3, <2>5, Gran16Cases
<1>5. CASE w # 2 /\ which >= 1
  <2> DEFINE p == gran8_put(s[2], which - 1, v, w)
  <2>1. Fits(1, which - 1, w)
    BY <1>2, <1>5 DEF Fits
  <2>2. gran16_put(g, which, v, w) = Pair(s[1], p)
    BY <1>2, <1>5 DEF gran16_put, put_half
  <2>3. /\ p \in Gran8
        /\ \A i \in 0..0 : byte8(p, i) =
              IF i \in (which - 1)..(which - 1 + w - 1)
              THEN v[i - (which - 1)] ELSE byte8(s[2], i)
    BY <1>1, <2>1, Put8
  <2> HIDE DEF s, p
  <2>4. ASSUME NEW i \in 0..1
        PROVE  byte16(Pair(s[1], p), i) =
                  IF i \in which..(which + w - 1) THEN v[i - which] ELSE byte16(g, i)
    <3>1. CASE i < 1
      BY <1>1, <1>2, <1>5, <3>1, Byte16
    <3>2. CASE i >= 1
      <4>1. byte16(Pair(s[1], p), i) = byte8(p, i - 1)
        BY <3>2, Byte16
      <4>2. byte8(s[2], i - 1) = byte16(g, i)
        BY <1>1, <3>2
      <4>3. i - 1 \in 0..0 /\ (i - 1) - (which - 1) = i - which
        BY <1>2, <3>2
      <4>4. i - 1 \in (which - 1)..(which - 1 + w - 1) <=> i \in which..(which + w - 1)
        BY <1>2, <3>2
      <4> QED BY <2>3, <4>1, <4>2, <4>3, <4>4
    <3> QED BY <3>1, <3>2
  <2> QED BY <1>1, <2>2, <2>3, <2>4, Gran16Cases
<1> QED BY <1>2, <1>3, <1>4, <1>5

\* gran32_put, from gran16_put.
LEMMA Put32 ==
    ASSUME NEW g \in Gran32, NEW which, NEW w, Fits(4, which, w), NEW v \in Value(w)
    PROVE  /\ gran32_put(g, which, v, w) \in Gran32
           /\ \A i \in 0..3 : byte32(gran32_put(g, which, v, w), i) =
                 IF i \in which..(which + w - 1) THEN v[i - which] ELSE byte32(g, i)
<1> DEFINE s == split(g, 2)
<1>1. /\ s[1] \in Gran16 /\ s[2] \in Gran16
      /\ \A i \in 0..1 : byte16(s[1], i) = byte32(g, i)
      /\ \A i \in 0..1 : byte16(s[2], i) = byte32(g, i + 2)
  BY Split32
<1>2. which \in Nat /\ w \in {1, 2, 4, 8} /\ which + w <= 4
  BY DEF Fits
<1>3. CASE w = 4
  <2>1. which = 0 /\ gran32_put(g, which, v, w) = Leaf(v)
    BY <1>2, <1>3 DEF gran32_put, put_half
  <2> QED BY <1>3, <2>1, Gran32Cases, Byte32
<1>4. CASE w # 4 /\ which < 2
  <2> DEFINE p == gran16_put(s[1], which, v, w)
  <2>1. Fits(2, which, w)
    BY <1>2, <1>4 DEF Fits
  <2>2. gran32_put(g, which, v, w) = Pair(p, s[2])
    BY <1>4 DEF gran32_put, put_half
  <2>3. /\ p \in Gran16
        /\ \A i \in 0..1 : byte16(p, i) =
              IF i \in which..(which + w - 1) THEN v[i - which] ELSE byte16(s[1], i)
    BY <1>1, <2>1, Put16
  <2>4. which + w <= 2
    BY <2>1 DEF Fits
  <2> HIDE DEF s, p
  <2>5. ASSUME NEW i \in 0..3
        PROVE  byte32(Pair(p, s[2]), i) =
                  IF i \in which..(which + w - 1) THEN v[i - which] ELSE byte32(g, i)
    <3>1. CASE i < 2
      BY <1>1, <2>3, <3>1, Byte32
    <3>2. CASE i >= 2
      <4>1. byte32(Pair(p, s[2]), i) = byte16(s[2], i - 2)
        BY <3>2, Byte32
      <4>2. byte16(s[2], i - 2) = byte32(g, i)
        BY <1>1, <3>2
      <4> QED BY <1>2, <2>4, <3>2, <4>1, <4>2
    <3> QED BY <3>1, <3>2
  <2> QED BY <1>1, <2>2, <2>3, <2>5, Gran32Cases
<1>5. CASE w # 4 /\ which >= 2
  <2> DEFINE p == gran16_put(s[2], which - 2, v, w)
  <2>1. Fits(2, which - 2, w)
    BY <1>2, <1>5 DEF Fits
  <2>2. gran32_put(g, which, v, w) = Pair(s[1], p)
    BY <1>2, <1>5 DEF gran32_put, put_half
  <2>3. /\ p \in Gran16
        /\ \A i \in 0..1 : byte16(p, i) =
              IF i \in (which - 2)..(which - 2 + w - 1)
              THEN v[i - (which - 2)] ELSE byte16(s[2], i)
    BY <1>1, <2>1, Put16
  <2> HIDE DEF s, p
  <2>4. ASSUME NEW i \in 0..3
        PROVE  byte32(Pair(s[1], p), i) =
                  IF i \in which..(which + w - 1) THEN v[i - which] ELSE byte32(g, i)
    <3>1. CASE i < 2
      BY <1>1, <1>2, <1>5, <3>1, Byte32
    <3>2. CASE i >= 2
      <4>1. byte32(Pair(s[1], p), i) = byte16(p, i - 2)
        BY <3>2, Byte32
      <4>2. byte16(s[2], i - 2) = byte32(g, i)
        BY <1>1, <3>2
      <4>3. i - 2 \in 0..1 /\ (i - 2) - (which - 2) = i - which
        BY <1>2, <3>2
      <4>4. i - 2 \in (which - 2)..(which - 2 + w - 1) <=> i \in which..(which + w - 1)
        BY <1>2, <3>2
      <4> QED BY <2>3, <4>1, <4>2, <4>3, <4>4
    <3> QED BY <3>1, <3>2
  <2> QED BY <1>1, <2>2, <2>3, <2>4, Gran32Cases
<1> QED BY <1>2, <1>3, <1>4, <1>5

\* gran64_put, from gran32_put.
LEMMA Put64 ==
    ASSUME NEW g \in Gran64, NEW which, NEW w, Fits(8, which, w), NEW v \in Value(w)
    PROVE  /\ gran64_put(g, which, v, w) \in Gran64
           /\ \A i \in 0..7 : byte64(gran64_put(g, which, v, w), i) =
                 IF i \in which..(which + w - 1) THEN v[i - which] ELSE byte64(g, i)
<1> DEFINE s == split(g, 4)
<1>1. /\ s[1] \in Gran32 /\ s[2] \in Gran32
      /\ \A i \in 0..3 : byte32(s[1], i) = byte64(g, i)
      /\ \A i \in 0..3 : byte32(s[2], i) = byte64(g, i + 4)
  BY Split64
<1>2. which \in Nat /\ w \in {1, 2, 4, 8} /\ which + w <= 8
  BY DEF Fits
<1>3. CASE w = 8
  <2>1. which = 0 /\ gran64_put(g, which, v, w) = Leaf(v)
    BY <1>2, <1>3 DEF gran64_put, put_half
  <2> QED BY <1>3, <2>1, Gran64Cases, Byte64
<1>4. CASE w # 8 /\ which < 4
  <2> DEFINE p == gran32_put(s[1], which, v, w)
  <2>1. Fits(4, which, w)
    BY <1>2, <1>4 DEF Fits
  <2>2. gran64_put(g, which, v, w) = Pair(p, s[2])
    BY <1>4 DEF gran64_put, put_half
  <2>3. /\ p \in Gran32
        /\ \A i \in 0..3 : byte32(p, i) =
              IF i \in which..(which + w - 1) THEN v[i - which] ELSE byte32(s[1], i)
    BY <1>1, <2>1, Put32
  <2>4. which + w <= 4
    BY <2>1 DEF Fits
  <2> HIDE DEF s, p
  <2>5. ASSUME NEW i \in 0..7
        PROVE  byte64(Pair(p, s[2]), i) =
                  IF i \in which..(which + w - 1) THEN v[i - which] ELSE byte64(g, i)
    <3>1. CASE i < 4
      BY <1>1, <2>3, <3>1, Byte64
    <3>2. CASE i >= 4
      <4>1. byte64(Pair(p, s[2]), i) = byte32(s[2], i - 4)
        BY <3>2, Byte64
      <4>2. byte32(s[2], i - 4) = byte64(g, i)
        BY <1>1, <3>2
      <4> QED BY <1>2, <2>4, <3>2, <4>1, <4>2
    <3> QED BY <3>1, <3>2
  <2> QED BY <1>1, <2>2, <2>3, <2>5, Gran64Cases
<1>5. CASE w # 8 /\ which >= 4
  <2> DEFINE p == gran32_put(s[2], which - 4, v, w)
  <2>1. Fits(4, which - 4, w)
    BY <1>2, <1>5 DEF Fits
  <2>2. gran64_put(g, which, v, w) = Pair(s[1], p)
    BY <1>2, <1>5 DEF gran64_put, put_half
  <2>3. /\ p \in Gran32
        /\ \A i \in 0..3 : byte32(p, i) =
              IF i \in (which - 4)..(which - 4 + w - 1)
              THEN v[i - (which - 4)] ELSE byte32(s[2], i)
    BY <1>1, <2>1, Put32
  <2> HIDE DEF s, p
  <2>4. ASSUME NEW i \in 0..7
        PROVE  byte64(Pair(s[1], p), i) =
                  IF i \in which..(which + w - 1) THEN v[i - which] ELSE byte64(g, i)
    <3>1. CASE i < 4
      BY <1>1, <1>2, <1>5, <3>1, Byte64
    <3>2. CASE i >= 4
      <4>1. byte64(Pair(s[1], p), i) = byte32(p, i - 4)
        BY <3>2, Byte64
      <4>2. byte32(s[2], i - 4) = byte64(g, i)
        BY <1>1, <3>2
      <4>3. i - 4 \in 0..3 /\ (i - 4) - (which - 4) = i - which
        BY <1>2, <3>2
      <4>4. i - 4 \in (which - 4)..(which - 4 + w - 1) <=> i \in which..(which + w - 1)
        BY <1>2, <3>2
      <4> QED BY <2>3, <4>1, <4>2, <4>3, <4>4
    <3> QED BY <3>1, <3>2
  <2> QED BY <1>1, <2>2, <2>3, <2>4, Gran64Cases
<1> QED BY <1>2, <1>3, <1>4, <1>5

-----------------------------------------------------------------------------
(* Loads from a tree.  B are the states of the layer below, F its bytes,    *)
(* which do not change when it is asked for some of them.                   *)

Good(r, w, F, a, B) ==
    /\ r.v \in Value(w)
    /\ \A j \in 0..(w - 1) : r.v[j] = F[a + j]
    /\ r.m \in B

BaseAnswers(B, F) ==
    \A m \in B, a \in Nat, w \in {1, 2, 4, 8} :
        a + w <= 8 * Chunks => Good(base_missing(m, a, w), w, F, a, B)
InnerAnswers(B, F) ==
    \A m \in B, a \in Nat, w \in {1, 2, 4, 8} :
        a + w <= 8 * Chunks => Good(inner_load(m, a, w), w, F, a, B)

\* A load from a tree returns what is in it, and where that is absent what is
\* below; the tree looks the same afterwards.
LEMMA BaseGet8 ==
    ASSUME NEW B, NEW F, BaseAnswers(B, F), NEW m \in B, NEW g \in Gran8, NEW a \in Nat,
           a + 1 <= 8 * Chunks, NEW which, NEW w, Fits(1, which, w), NEW r,
           r = gran8_get(base_missing, m, g, a, which, w)
    PROVE  /\ r.v \in Value(w) /\ r.g \in Gran8 /\ r.m \in B
           /\ \A j \in 0..(w - 1) : r.v[j] = Seen(byte8(g, which + j), F[a + which + j])
           /\ \A i \in 0..0 : Seen(byte8(r.g, i), F[a + i]) = Seen(byte8(g, i), F[a + i])
<1> DEFINE below == base_missing(m, a, 1)
<1>1. w = 1 /\ which = 0
  BY DEF Fits
<1>2. CASE g = Absent
  <2>1. /\ below.v \in Value(1) /\ below.v[0] = F[a] /\ below.m \in B
    BY DEF BaseAnswers, Good
  <2>2. r.v = below.v /\ r.g = Leaf(below.v) /\ r.m = below.m
    BY <1>2, Fields DEF gran8_get, Kept
  <2>3. below.v[0] \in Nat
    BY <2>1 DEF Value
  <2> HIDE DEF below
  <2>4. byte8(r.g, 0) = F[a] /\ byte8(g, 0) = NoByte
    BY <1>2, <2>1, <2>2, Byte8
  <2> QED BY <1>1, <2>1, <2>2, <2>3, <2>4, Gran8Cases DEF Seen
<1>3. CASE \E v \in Value(1) : g = Leaf(v)
  <2> PICK v \in Value(1) : g = Leaf(v)
    BY <1>3
  <2>1. r.v = v /\ r.g = g /\ r.m = m
    BY Fields DEF gran8_get, Kept
  <2>2. byte8(g, 0) = v[0] /\ v[0] # NoByte
    BY Byte8 DEF Value, NoByte
  <2> QED BY <1>1, <2>1, <2>2 DEF Seen
<1> QED BY <1>2, <1>3, Gran8Cases

\* gran16_get over the concrete bytes, from gran8_get.
LEMMA BaseGet16 ==
    ASSUME NEW B, NEW F, BaseAnswers(B, F), NEW m \in B, NEW g \in Gran16, NEW a \in Nat,
           a + 2 <= 8 * Chunks, NEW which, NEW w, Fits(2, which, w), NEW r,
           r = gran16_get(base_missing, m, g, a, which, w)
    PROVE  /\ r.v \in Value(w) /\ r.g \in Gran16 /\ r.m \in B
           /\ \A j \in 0..(w - 1) : r.v[j] = Seen(byte16(g, which + j), F[a + which + j])
           /\ \A i \in 0..1 : Seen(byte16(r.g, i), F[a + i]) = Seen(byte16(g, i), F[a + i])
<1>1. which \in Nat /\ w \in {1, 2, 4, 8} /\ which + w <= 2
  BY DEF Fits
<1>2. ASSUME NEW v \in Value(2), g = Leaf(v)
      PROVE  /\ r.v \in Value(w) /\ r.g = g /\ r.m = m
             /\ \A j \in 0..(w - 1) : r.v[j] = Seen(byte16(g, which + j), F[a + which + j])
  <2>1. r.v = extract(v, which, w) /\ r.g = g /\ r.m = m
    BY Zenon, <1>2, Fields DEF gran16_get, get_half
  <2>2. /\ extract(v, which, w) \in Value(w)
        /\ \A j \in 0..(w - 1) : extract(v, which, w)[j] = v[which + j]
    BY <1>1, Extracts
  <2>3. ASSUME NEW j \in 0..(w - 1)
        PROVE  r.v[j] = Seen(byte16(g, which + j), F[a + which + j])
    <3>1. byte16(g, which + j) = v[which + j]
      BY <1>2, Byte16
    <3>2. v[which + j] # NoByte
      BY <1>1 DEF Value, NoByte
    <3> QED BY <2>1, <2>2, <3>1, <3>2 DEF Seen
  <2> QED BY <2>1, <2>2, <2>3
<1>3. ASSUME g = Absent, w = 2
      PROVE  /\ r.v \in Value(w) /\ r.g \in Gran16 /\ r.m \in B
             /\ \A j \in 0..(w - 1) : r.v[j] = Seen(byte16(g, which + j), F[a + which + j])
             /\ \A i \in 0..1 : Seen(byte16(r.g, i), F[a + i]) = Seen(byte16(g, i), F[a + i])
  <2> DEFINE below == base_missing(m, a, w)
  <2>1. /\ below.v \in Value(2) /\ below.m \in B
        /\ \A j \in 0..1 : below.v[j] = F[a + j]
    BY <1>3 DEF BaseAnswers, Good
  <2>2. r.v = below.v /\ r.g = Leaf(below.v) /\ r.m = below.m
    BY <1>3, Fields DEF gran16_get, get_half, Kept
  <2> HIDE DEF below
  <2>3. which = 0
    BY <1>1, <1>3
  <2>4. \A i \in 0..1 : byte16(r.g, i) = F[a + i] /\ byte16(g, i) = NoByte
    BY <1>3, <2>1, <2>2, Byte16
  <2> QED BY <1>3, <2>1, <2>2, <2>3, <2>4, Gran16Cases DEF Seen
<1>4. ASSUME NEW x \in Gran8, NEW y \in Gran8,
             (g = Absent /\ x = Absent /\ y = Absent) \/ g = Pair(x, y)
      PROVE  \A i \in 0..1 : byte16(g, i) = IF i < 1 THEN byte8(x, i) ELSE byte8(y, i - 1)
  BY <1>4, Byte16, Byte8
<1>5. ASSUME NEW x \in Gran8, NEW y \in Gran8, w = 2, g = Pair(x, y)
      PROVE  /\ r.v \in Value(w) /\ r.g \in Gran16 /\ r.m \in B
             /\ \A j \in 0..(w - 1) : r.v[j] = Seen(byte16(g, which + j), F[a + which + j])
             /\ \A i \in 0..1 : Seen(byte16(r.g, i), F[a + i]) = Seen(byte16(g, i), F[a + i])
  <2> DEFINE first == gran8_get(base_missing, m, x, a, 0, 1)
             second == gran8_get(base_missing, first.m, y, a + 1, 0, 1)
  <2>1. /\ r.v = reassemble(first.v, second.v, 1) /\ r.g = Pair(first.g, second.g)
        /\ r.m = second.m
    <3>1. g.kind = "pair" /\ g.g1 = x /\ g.g2 = y /\ w = 2 * 1
      BY SMTT(60), <1>5, Fields
    <3>2. r = [v |-> reassemble(first.v, second.v, 1), g |-> Pair(first.g, second.g), m |-> second.m]
      BY <3>1 DEF gran16_get, get_half, get_rest, InBoth
    <3> HIDE DEF first, second
    <3> QED BY <3>2
  <2>2. /\ Fits(1, 0, 1) /\ a + 1 \in Nat
        /\ a + 1 <= 8 * Chunks /\ a + 1 + 1 <= 8 * Chunks
    BY SMTT(60), ChunksAssumption DEF Fits
  <2>3. /\ first.v \in Value(1) /\ first.g \in Gran8 /\ first.m \in B
        /\ \A j \in 0..0 : first.v[j] = Seen(byte8(x, j), F[a + j])
        /\ \A i \in 0..0 : Seen(byte8(first.g, i), F[a + i]) = Seen(byte8(x, i), F[a + i])
    BY <2>2, BaseGet8
  <2>4. /\ second.v \in Value(1) /\ second.g \in Gran8 /\ second.m \in B
        /\ \A j \in 0..0 : second.v[j] = Seen(byte8(y, j), F[a + 1 + j])
        /\ \A i \in 0..0 : Seen(byte8(second.g, i), F[a + 1 + i]) = Seen(byte8(y, i), F[a + 1 + i])
    <3> DEFINE c == a + 1
    <3>1. second = gran8_get(base_missing, first.m, y, c, 0, 1) /\ c = a + 1
      OBVIOUS
    <3>2. Fits(1, 0, 1) /\ c \in Nat /\ c + 1 <= 8 * Chunks
      BY <2>2
    <3> HIDE DEF first, second, c
    <3>3. /\ second.v \in Value(1) /\ second.g \in Gran8 /\ second.m \in B
          /\ \A j \in 0..0 : second.v[j] = Seen(byte8(y, j), F[c + j])
          /\ \A i \in 0..0 : Seen(byte8(second.g, i), F[c + i]) = Seen(byte8(y, i), F[c + i])
      BY SMTT(60), <2>3, <3>1, <3>2, BaseGet8
    <3> QED BY <3>1, <3>3
  <2> HIDE DEF first, second
  <2>5. /\ r.v \in Value(2)
        /\ \A j \in 0..1 : r.v[j] = IF j < 1 THEN first.v[j] ELSE second.v[j - 1]
    <3>1. /\ reassemble(first.v, second.v, 1) \in Value(2 * 1)
          /\ \A j \in 0..(2 * 1 - 1) :
                reassemble(first.v, second.v, 1)[j] = IF j < 1 THEN first.v[j] ELSE second.v[j - 1]
      BY ZenonT(60), <2>3, <2>4, Reassembles
    <3>2. 2 * 1 = 2
      OBVIOUS
    <3> QED BY <2>1, <3>1, <3>2
  <2>6. which = 0
    BY <1>1, <1>5
  <2>7. \A i \in 0..1 : byte16(r.g, i) = IF i < 1 THEN byte8(first.g, i) ELSE byte8(second.g, i - 1)
    BY <2>1, Byte16
  <2>8. ASSUME NEW i \in 0..1
        PROVE  /\ r.v[i] = Seen(byte16(g, i), F[a + i])
               /\ Seen(byte16(r.g, i), F[a + i]) = Seen(byte16(g, i), F[a + i])
    <3>1. CASE i < 1
      BY <1>4, <1>5, <2>3, <2>5, <2>7, <3>1
    <3>2. CASE i >= 1
      <4>1. i - 1 \in 0..0 /\ a + 1 + (i - 1) = a + i
        BY <3>2
      <4>2. byte16(g, i) = byte8(y, i - 1) /\ byte16(r.g, i) = byte8(second.g, i - 1)
        BY <1>4, <1>5, <2>7, <3>2
      <4>3. r.v[i] = second.v[i - 1]
        BY SMTT(60), <2>5, <3>2
      <4> QED BY <2>4, <4>1, <4>2, <4>3
    <3> QED BY <3>1, <3>2
  <2> QED BY <1>5, <2>1, <2>3, <2>4, <2>5, <2>6, <2>8, Gran16Cases
<1>6. ASSUME NEW x \in Gran8, NEW y \in Gran8, w # 2, which < 1,
             (g = Absent /\ x = Absent /\ y = Absent) \/ g = Pair(x, y)
      PROVE  /\ r.v \in Value(w) /\ r.g \in Gran16 /\ r.m \in B
             /\ \A j \in 0..(w - 1) : r.v[j] = Seen(byte16(g, which + j), F[a + which + j])
             /\ \A i \in 0..1 : Seen(byte16(r.g, i), F[a + i]) = Seen(byte16(g, i), F[a + i])
  <2> DEFINE low == gran8_get(base_missing, m, x, a, which, w)
  <2>1. r.v = low.v /\ r.g = Pair(low.g, y) /\ r.m = low.m
    BY <1>6, Fields DEF gran16_get, get_half, InFirst
  <2>2. Fits(1, which, w) /\ a + 1 <= 8 * Chunks
    BY SMTT(60), <1>1, <1>6, ChunksAssumption DEF Fits
  <2>3. /\ low.v \in Value(w) /\ low.g \in Gran8 /\ low.m \in B
        /\ \A j \in 0..(w - 1) : low.v[j] = Seen(byte8(x, which + j), F[a + which + j])
        /\ \A i \in 0..0 : Seen(byte8(low.g, i), F[a + i]) = Seen(byte8(x, i), F[a + i])
    <3>1. low = gran8_get(base_missing, m, x, a, which, w)
      OBVIOUS
    <3> HIDE DEF low
    <3> QED BY <2>2, <3>1, BaseGet8
  <2> HIDE DEF low
  <2>4. \A i \in 0..1 : byte16(r.g, i) = IF i < 1 THEN byte8(low.g, i) ELSE byte8(y, i - 1)
    BY <2>1, Byte16
  <2>5. which + w <= 1
    BY <2>2 DEF Fits
  <2>6. \A i \in 0..1 : Seen(byte16(r.g, i), F[a + i]) = Seen(byte16(g, i), F[a + i])
    BY <1>4, <1>6, <2>3, <2>4
  <2>7. \A j \in 0..(w - 1) : r.v[j] = Seen(byte16(g, which + j), F[a + which + j])
    BY SMTT(60), <1>1, <1>4, <1>6, <2>1, <2>3, <2>5
  <2> QED BY SMTT(60), <1>6, <2>1, <2>3, <2>6, <2>7, Gran16Cases
<1>7. ASSUME NEW x \in Gran8, NEW y \in Gran8, w # 2, which >= 1,
             (g = Absent /\ x = Absent /\ y = Absent) \/ g = Pair(x, y)
      PROVE  /\ r.v \in Value(w) /\ r.g \in Gran16 /\ r.m \in B
             /\ \A j \in 0..(w - 1) : r.v[j] = Seen(byte16(g, which + j), F[a + which + j])
             /\ \A i \in 0..1 : Seen(byte16(r.g, i), F[a + i]) = Seen(byte16(g, i), F[a + i])
  <2> DEFINE high == gran8_get(base_missing, m, y, a + 1, which - 1, w)
  <2>1. r.v = high.v /\ r.g = Pair(x, high.g) /\ r.m = high.m
    BY <1>1, <1>7, Fields DEF gran16_get, get_half, InSecond
  <2>2. Fits(1, which - 1, w) /\ a + 1 \in Nat /\ a + 1 + 1 <= 8 * Chunks
    BY SMTT(60), <1>1, <1>7, ChunksAssumption DEF Fits
  <2>3. /\ high.v \in Value(w) /\ high.g \in Gran8 /\ high.m \in B
        /\ \A j \in 0..(w - 1) :
              high.v[j] = Seen(byte8(y, which - 1 + j), F[a + 1 + (which - 1) + j])
        /\ \A i \in 0..0 : Seen(byte8(high.g, i), F[a + 1 + i]) = Seen(byte8(y, i), F[a + 1 + i])
    <3> DEFINE c == a + 1
               k == which - 1
    <3>1. high = gran8_get(base_missing, m, y, c, k, w) /\ c = a + 1 /\ k = which - 1
      OBVIOUS
    <3>2. Fits(1, k, w) /\ c \in Nat /\ c + 1 <= 8 * Chunks
      BY SMTT(60), <2>2
    <3> HIDE DEF high, c, k
    <3>3. /\ high.v \in Value(w) /\ high.g \in Gran8 /\ high.m \in B
          /\ \A j \in 0..(w - 1) :
                high.v[j] = Seen(byte8(y, k + j), F[c + k + j])
          /\ \A i \in 0..0 : Seen(byte8(high.g, i), F[c + i]) = Seen(byte8(y, i), F[c + i])
      BY SMTT(60), <3>1, <3>2, BaseGet8
    <3> QED BY <3>1, <3>3
  <2> HIDE DEF high
  <2>4. \A i \in 0..1 : byte16(r.g, i) = IF i < 1 THEN byte8(x, i) ELSE byte8(high.g, i - 1)
    BY <2>1, Byte16
  <2>5. \A i \in 0..1 : byte16(g, i) = IF i < 1 THEN byte8(x, i) ELSE byte8(y, i - 1)
    BY <1>4, <1>7
  <2>6. ASSUME NEW i \in 0..1
        PROVE  Seen(byte16(r.g, i), F[a + i]) = Seen(byte16(g, i), F[a + i])
    <3>1. CASE i < 1
      BY <1>4, <1>7, <2>4, <3>1
    <3>2. CASE i >= 1
      <4>1. i - 1 \in 0..0 /\ a + 1 + (i - 1) = a + i
        BY <3>2
      <4>2. byte16(g, i) = byte8(y, i - 1) /\ byte16(r.g, i) = byte8(high.g, i - 1)
        BY SMTT(60), <1>4, <1>7, <2>4, <3>2
      <4> QED BY <2>3, <4>1, <4>2
    <3> QED BY <3>1, <3>2
  <2>7. ASSUME NEW j \in 0..(w - 1)
        PROVE  r.v[j] = Seen(byte16(g, which + j), F[a + which + j])
    <3>1. which + j \in 0..1 /\ which + j >= 1
      BY <1>1, <1>7
    <3>2. byte16(g, which + j) = byte8(y, which + j - 1)
      BY <1>1, <2>5, <3>1
    <3>3. which - 1 + j = which + j - 1 /\ a + 1 + (which - 1) + j = a + which + j
      BY SMTT(60), <1>1
    <3> QED BY <2>1, <2>3, <3>2, <3>3
  <2> QED BY SMTT(60), <1>7, <2>1, <2>3, <2>6, <2>7, Gran16Cases
<1>8. CASE g = Absent
  <2>1. Absent \in Gran8
    BY Gran8Cases
  <2> QED BY <1>1, <1>3, <1>6, <1>7, <1>8, <2>1
<1>9. CASE \E v \in Value(2) : g = Leaf(v)
  BY Zenon, <1>2, <1>9
<1>10. CASE \E x, y \in Gran8 : g = Pair(x, y)
  BY SMTT(60), <1>1, <1>5, <1>6, <1>7, <1>10
<1> QED BY <1>8, <1>9, <1>10, Gran16Cases

\* gran32_get over the concrete bytes, from gran16_get.
LEMMA BaseGet32 ==
    ASSUME NEW B, NEW F, BaseAnswers(B, F), NEW m \in B, NEW g \in Gran32, NEW a \in Nat,
           a + 4 <= 8 * Chunks, NEW which, NEW w, Fits(4, which, w), NEW r,
           r = gran32_get(base_missing, m, g, a, which, w)
    PROVE  /\ r.v \in Value(w) /\ r.g \in Gran32 /\ r.m \in B
           /\ \A j \in 0..(w - 1) : r.v[j] = Seen(byte32(g, which + j), F[a + which + j])
           /\ \A i \in 0..3 : Seen(byte32(r.g, i), F[a + i]) = Seen(byte32(g, i), F[a + i])
<1>1. which \in Nat /\ w \in {1, 2, 4, 8} /\ which + w <= 4
  BY DEF Fits
<1>2. ASSUME NEW v \in Value(4), g = Leaf(v)
      PROVE  /\ r.v \in Value(w) /\ r.g = g /\ r.m = m
             /\ \A j \in 0..(w - 1) : r.v[j] = Seen(byte32(g, which + j), F[a + which + j])
  <2>1. r.v = extract(v, which, w) /\ r.g = g /\ r.m = m
    BY Zenon, <1>2, Fields DEF gran32_get, get_half
  <2>2. /\ extract(v, which, w) \in Value(w)
        /\ \A j \in 0..(w - 1) : extract(v, which, w)[j] = v[which + j]
    BY <1>1, Extracts
  <2>3. ASSUME NEW j \in 0..(w - 1)
        PROVE  r.v[j] = Seen(byte32(g, which + j), F[a + which + j])
    <3>1. byte32(g, which + j) = v[which + j]
      BY <1>2, Byte32
    <3>2. v[which + j] # NoByte
      BY <1>1 DEF Value, NoByte
    <3> QED BY <2>1, <2>2, <3>1, <3>2 DEF Seen
  <2> QED BY SMTT(60), <2>1, <2>2, <2>3
<1>3. ASSUME g = Absent, w = 4
      PROVE  /\ r.v \in Value(w) /\ r.g \in Gran32 /\ r.m \in B
             /\ \A j \in 0..(w - 1) : r.v[j] = Seen(byte32(g, which + j), F[a + which + j])
             /\ \A i \in 0..3 : Seen(byte32(r.g, i), F[a + i]) = Seen(byte32(g, i), F[a + i])
  <2> DEFINE below == base_missing(m, a, w)
  <2>1. /\ below.v \in Value(4) /\ below.m \in B
        /\ \A j \in 0..3 : below.v[j] = F[a + j]
    BY <1>3 DEF BaseAnswers, Good
  <2>2. r.v = below.v /\ r.g = Leaf(below.v) /\ r.m = below.m
    BY <1>3, Fields DEF gran32_get, get_half, Kept
  <2> HIDE DEF below
  <2>3. which = 0
    BY <1>1, <1>3
  <2>4. \A i \in 0..3 : byte32(r.g, i) = F[a + i] /\ byte32(g, i) = NoByte
    BY <1>3, <2>1, <2>2, Byte32
  <2> QED BY SMTT(60), <1>3, <2>1, <2>2, <2>3, <2>4, Gran32Cases DEF Seen
<1>4. ASSUME NEW x \in Gran16, NEW y \in Gran16,
             (g = Absent /\ x = Absent /\ y = Absent) \/ g = Pair(x, y)
      PROVE  \A i \in 0..3 : byte32(g, i) = IF i < 2 THEN byte16(x, i) ELSE byte16(y, i - 2)
  <2>1. CASE g = Pair(x, y)
    BY Zenon, <2>1, Byte32
  <2>2. CASE g = Absent /\ x = Absent /\ y = Absent
    BY Zenon, <2>2, Byte32, Byte16
  <2> QED BY Zenon, <1>4, <2>1, <2>2
<1>5. ASSUME NEW x \in Gran16, NEW y \in Gran16, w = 4, g = Pair(x, y)
      PROVE  /\ r.v \in Value(w) /\ r.g \in Gran32 /\ r.m \in B
             /\ \A j \in 0..(w - 1) : r.v[j] = Seen(byte32(g, which + j), F[a + which + j])
             /\ \A i \in 0..3 : Seen(byte32(r.g, i), F[a + i]) = Seen(byte32(g, i), F[a + i])
  <2> DEFINE first == gran16_get(base_missing, m, x, a, 0, 2)
             second == gran16_get(base_missing, first.m, y, a + 2, 0, 2)
  <2>1. /\ r.v = reassemble(first.v, second.v, 2) /\ r.g = Pair(first.g, second.g)
        /\ r.m = second.m
    <3>1. g.kind = "pair" /\ g.g1 = x /\ g.g2 = y /\ w = 2 * 2
      BY SMTT(60), <1>5, Fields
    <3>2. r = [v |-> reassemble(first.v, second.v, 2), g |-> Pair(first.g, second.g), m |-> second.m]
      BY Zenon, <3>1 DEF gran32_get, get_half, get_rest, InBoth
    <3> HIDE DEF first, second
    <3> QED BY SMTT(60), <3>2
  <2>2. /\ Fits(2, 0, 2) /\ a + 2 \in Nat
        /\ a + 2 <= 8 * Chunks /\ a + 2 + 2 <= 8 * Chunks
    BY ChunksAssumption DEF Fits
  <2>3. /\ first.v \in Value(2) /\ first.g \in Gran16 /\ first.m \in B
        /\ \A j \in 0..1 : first.v[j] = Seen(byte16(x, j), F[a + j])
        /\ \A i \in 0..1 : Seen(byte16(first.g, i), F[a + i]) = Seen(byte16(x, i), F[a + i])
    BY SMTT(60), <2>2, BaseGet16
  <2>4. /\ second.v \in Value(2) /\ second.g \in Gran16 /\ second.m \in B
        /\ \A j \in 0..1 : second.v[j] = Seen(byte16(y, j), F[a + 2 + j])
        /\ \A i \in 0..1 : Seen(byte16(second.g, i), F[a + 2 + i]) = Seen(byte16(y, i), F[a + 2 + i])
    <3> DEFINE c == a + 2
    <3>1. second = gran16_get(base_missing, first.m, y, c, 0, 2) /\ c = a + 2
      OBVIOUS
    <3>2. Fits(2, 0, 2) /\ c \in Nat /\ c + 2 <= 8 * Chunks
      BY <2>2
    <3> HIDE DEF first, second, c
    <3>3. /\ second.v \in Value(2) /\ second.g \in Gran16 /\ second.m \in B
          /\ \A j \in 0..1 : second.v[j] = Seen(byte16(y, j), F[c + j])
          /\ \A i \in 0..1 : Seen(byte16(second.g, i), F[c + i]) = Seen(byte16(y, i), F[c + i])
      BY SMTT(60), <2>3, <3>1, <3>2, BaseGet16
    <3> QED BY <3>1, <3>3
  <2> HIDE DEF first, second
  <2>5. /\ r.v \in Value(4)
        /\ \A j \in 0..3 : r.v[j] = IF j < 2 THEN first.v[j] ELSE second.v[j - 2]
    <3>1. /\ reassemble(first.v, second.v, 2) \in Value(2 * 2)
          /\ \A j \in 0..(2 * 2 - 1) :
                reassemble(first.v, second.v, 2)[j] = IF j < 2 THEN first.v[j] ELSE second.v[j - 2]
      BY Zenon, <2>3, <2>4, Reassembles
    <3>2. 2 * 2 = 4
      OBVIOUS
    <3> QED BY <2>1, <3>1, <3>2
  <2>6. which = 0
    BY SMTT(60), <1>1, <1>5
  <2>7. \A i \in 0..3 : byte32(r.g, i) = IF i < 2 THEN byte16(first.g, i) ELSE byte16(second.g, i - 2)
    BY <2>1, Byte32
  <2>8. ASSUME NEW i \in 0..3
        PROVE  /\ r.v[i] = Seen(byte32(g, i), F[a + i])
               /\ Seen(byte32(r.g, i), F[a + i]) = Seen(byte32(g, i), F[a + i])
    <3>1. CASE i < 2
      BY SMTT(60), <1>4, <1>5, <2>3, <2>5, <2>7, <3>1
    <3>2. CASE i >= 2
      <4>1. i - 2 \in 0..1 /\ a + 2 + (i - 2) = a + i
        BY <3>2
      <4>2. byte32(g, i) = byte16(y, i - 2) /\ byte32(r.g, i) = byte16(second.g, i - 2)
        BY <1>4, <1>5, <2>7, <3>2
      <4>3. r.v[i] = second.v[i - 2]
        BY SMTT(60), <2>5, <3>2
      <4> QED BY <2>4, <4>1, <4>2, <4>3
    <3> QED BY SMTT(60), <3>1, <3>2
  <2> QED BY <1>5, <2>1, <2>3, <2>4, <2>5, <2>6, <2>8, Gran32Cases
<1>6. ASSUME NEW x \in Gran16, NEW y \in Gran16, w # 4, which < 2,
             (g = Absent /\ x = Absent /\ y = Absent) \/ g = Pair(x, y)
      PROVE  /\ r.v \in Value(w) /\ r.g \in Gran32 /\ r.m \in B
             /\ \A j \in 0..(w - 1) : r.v[j] = Seen(byte32(g, which + j), F[a + which + j])
             /\ \A i \in 0..3 : Seen(byte32(r.g, i), F[a + i]) = Seen(byte32(g, i), F[a + i])
  <2> DEFINE low == gran16_get(base_missing, m, x, a, which, w)
  <2>1. r.v = low.v /\ r.g = Pair(low.g, y) /\ r.m = low.m
    BY <1>6, Fields DEF gran32_get, get_half, InFirst
  <2>2. Fits(2, which, w) /\ a + 2 <= 8 * Chunks
    BY SMTT(60), <1>1, <1>6, ChunksAssumption DEF Fits
  <2>3. /\ low.v \in Value(w) /\ low.g \in Gran16 /\ low.m \in B
        /\ \A j \in 0..(w - 1) : low.v[j] = Seen(byte16(x, which + j), F[a + which + j])
        /\ \A i \in 0..1 : Seen(byte16(low.g, i), F[a + i]) = Seen(byte16(x, i), F[a + i])
    <3>1. low = gran16_get(base_missing, m, x, a, which, w)
      OBVIOUS
    <3> HIDE DEF low
    <3> QED BY <2>2, <3>1, BaseGet16
  <2> HIDE DEF low
  <2>4. \A i \in 0..3 : byte32(r.g, i) = IF i < 2 THEN byte16(low.g, i) ELSE byte16(y, i - 2)
    BY <2>1, Byte32
  <2>5. which + w <= 2
    BY <2>2 DEF Fits
  <2>6. \A i \in 0..3 : Seen(byte32(r.g, i), F[a + i]) = Seen(byte32(g, i), F[a + i])
    BY <1>4, <1>6, <2>3, <2>4
  <2>7. \A j \in 0..(w - 1) : r.v[j] = Seen(byte32(g, which + j), F[a + which + j])
    BY SMTT(60), <1>1, <1>4, <1>6, <2>1, <2>3, <2>5
  <2> QED BY SMTT(60), <1>6, <2>1, <2>3, <2>6, <2>7, Gran32Cases
<1>7. ASSUME NEW x \in Gran16, NEW y \in Gran16, w # 4, which >= 2,
             (g = Absent /\ x = Absent /\ y = Absent) \/ g = Pair(x, y)
      PROVE  /\ r.v \in Value(w) /\ r.g \in Gran32 /\ r.m \in B
             /\ \A j \in 0..(w - 1) : r.v[j] = Seen(byte32(g, which + j), F[a + which + j])
             /\ \A i \in 0..3 : Seen(byte32(r.g, i), F[a + i]) = Seen(byte32(g, i), F[a + i])
  <2> DEFINE high == gran16_get(base_missing, m, y, a + 2, which - 2, w)
  <2>1. r.v = high.v /\ r.g = Pair(x, high.g) /\ r.m = high.m
    BY <1>1, <1>7, Fields DEF gran32_get, get_half, InSecond
  <2>2. Fits(2, which - 2, w) /\ a + 2 \in Nat /\ a + 2 + 2 <= 8 * Chunks
    BY SMTT(60), <1>1, <1>7, ChunksAssumption DEF Fits
  <2>3. /\ high.v \in Value(w) /\ high.g \in Gran16 /\ high.m \in B
        /\ \A j \in 0..(w - 1) :
              high.v[j] = Seen(byte16(y, which - 2 + j), F[a + 2 + (which - 2) + j])
        /\ \A i \in 0..1 : Seen(byte16(high.g, i), F[a + 2 + i]) = Seen(byte16(y, i), F[a + 2 + i])
    <3> DEFINE c == a + 2
               k == which - 2
    <3>1. high = gran16_get(base_missing, m, y, c, k, w) /\ c = a + 2 /\ k = which - 2
      OBVIOUS
    <3>2. Fits(2, k, w) /\ c \in Nat /\ c + 2 <= 8 * Chunks
      BY SMTT(60), <2>2
    <3> HIDE DEF high, c, k
    <3>3. /\ high.v \in Value(w) /\ high.g \in Gran16 /\ high.m \in B
          /\ \A j \in 0..(w - 1) :
                high.v[j] = Seen(byte16(y, k + j), F[c + k + j])
          /\ \A i \in 0..1 : Seen(byte16(high.g, i), F[c + i]) = Seen(byte16(y, i), F[c + i])
      BY SMTT(60), <3>1, <3>2, BaseGet16
    <3> QED BY <3>1, <3>3
  <2> HIDE DEF high
  <2>4. \A i \in 0..3 : byte32(r.g, i) = IF i < 2 THEN byte16(x, i) ELSE byte16(high.g, i - 2)
    BY <2>1, Byte32
  <2>5. \A i \in 0..3 : byte32(g, i) = IF i < 2 THEN byte16(x, i) ELSE byte16(y, i - 2)
    BY <1>4, <1>7
  <2>6. ASSUME NEW i \in 0..3
        PROVE  Seen(byte32(r.g, i), F[a + i]) = Seen(byte32(g, i), F[a + i])
    <3>1. CASE i < 2
      BY <1>4, <1>7, <2>4, <3>1
    <3>2. CASE i >= 2
      <4>1. i - 2 \in 0..1 /\ a + 2 + (i - 2) = a + i
        BY <3>2
      <4>2. byte32(g, i) = byte16(y, i - 2) /\ byte32(r.g, i) = byte16(high.g, i - 2)
        BY SMTT(60), <1>4, <1>7, <2>4, <3>2
      <4> QED BY <2>3, <4>1, <4>2
    <3> QED BY <3>1, <3>2
  <2>7. ASSUME NEW j \in 0..(w - 1)
        PROVE  r.v[j] = Seen(byte32(g, which + j), F[a + which + j])
    <3>1. which + j \in 0..3 /\ which + j >= 2
      BY <1>1, <1>7
    <3>2. byte32(g, which + j) = byte16(y, which + j - 2)
      BY <1>1, <2>5, <3>1
    <3>3. which - 2 + j = which + j - 2 /\ a + 2 + (which - 2) + j = a + which + j
      BY SMTT(60), <1>1
    <3> QED BY <2>1, <2>3, <3>2, <3>3
  <2> QED BY SMTT(60), <1>7, <2>1, <2>3, <2>6, <2>7, Gran32Cases
<1>8. CASE g = Absent
  <2>1. Absent \in Gran16
    BY Gran16Cases
  <2> QED BY <1>1, <1>3, <1>6, <1>7, <1>8, <2>1
<1>9. CASE \E v \in Value(4) : g = Leaf(v)
  BY Zenon, <1>2, <1>9
<1>10. CASE \E x, y \in Gran16 : g = Pair(x, y)
  <2>1. PICK x \in Gran16, y \in Gran16 : g = Pair(x, y)
    BY Zenon, <1>10
  <2>2. CASE w = 4
    BY Zenon, <1>5, <2>1, <2>2
  <2>3. CASE w # 4 /\ which < 2
    BY Zenon, <1>6, <2>1, <2>3
  <2>4. CASE w # 4 /\ ~(which < 2)
    <3>1. which >= 2
      BY <1>1, <2>4
    <3> QED BY Zenon, <1>7, <2>1, <2>4, <3>1
  <2> QED BY Zenon, <2>2, <2>3, <2>4
<1> QED BY <1>8, <1>9, <1>10, Gran32Cases

\* gran64_get over the concrete bytes, from gran32_get.
LEMMA BaseGet64 ==
    ASSUME NEW B, NEW F, BaseAnswers(B, F), NEW m \in B, NEW g \in Gran64, NEW a \in Nat,
           a + 8 <= 8 * Chunks, NEW which, NEW w, Fits(8, which, w), NEW r,
           r = gran64_get(base_missing, m, g, a, which, w)
    PROVE  /\ r.v \in Value(w) /\ r.g \in Gran64 /\ r.m \in B
           /\ \A j \in 0..(w - 1) : r.v[j] = Seen(byte64(g, which + j), F[a + which + j])
           /\ \A i \in 0..7 : Seen(byte64(r.g, i), F[a + i]) = Seen(byte64(g, i), F[a + i])
<1>1. which \in Nat /\ w \in {1, 2, 4, 8} /\ which + w <= 8
  BY DEF Fits
<1>2. ASSUME NEW v \in Value(8), g = Leaf(v)
      PROVE  /\ r.v \in Value(w) /\ r.g = g /\ r.m = m
             /\ \A j \in 0..(w - 1) : r.v[j] = Seen(byte64(g, which + j), F[a + which + j])
  <2>1. r.v = extract(v, which, w) /\ r.g = g /\ r.m = m
    BY Zenon, <1>2, Fields DEF gran64_get, get_half
  <2>2. /\ extract(v, which, w) \in Value(w)
        /\ \A j \in 0..(w - 1) : extract(v, which, w)[j] = v[which + j]
    BY <1>1, Extracts
  <2>3. ASSUME NEW j \in 0..(w - 1)
        PROVE  r.v[j] = Seen(byte64(g, which + j), F[a + which + j])
    <3>1. byte64(g, which + j) = v[which + j]
      BY <1>2, Byte64
    <3>2. v[which + j] # NoByte
      BY <1>1 DEF Value, NoByte
    <3> QED BY <2>1, <2>2, <3>1, <3>2 DEF Seen
  <2> QED BY SMTT(60), <2>1, <2>2, <2>3
<1>3. ASSUME g = Absent, w = 8
      PROVE  /\ r.v \in Value(w) /\ r.g \in Gran64 /\ r.m \in B
             /\ \A j \in 0..(w - 1) : r.v[j] = Seen(byte64(g, which + j), F[a + which + j])
             /\ \A i \in 0..7 : Seen(byte64(r.g, i), F[a + i]) = Seen(byte64(g, i), F[a + i])
  <2> DEFINE below == base_missing(m, a, w)
  <2>1. /\ below.v \in Value(8) /\ below.m \in B
        /\ \A j \in 0..7 : below.v[j] = F[a + j]
    BY <1>3 DEF BaseAnswers, Good
  <2>2. r.v = below.v /\ r.g = Leaf(below.v) /\ r.m = below.m
    BY <1>3, Fields DEF gran64_get, get_half, Kept
  <2> HIDE DEF below
  <2>3. which = 0
    BY <1>1, <1>3
  <2>4. \A i \in 0..7 : byte64(r.g, i) = F[a + i] /\ byte64(g, i) = NoByte
    BY <1>3, <2>1, <2>2, Byte64
  <2> QED BY SMTT(60), <1>3, <2>1, <2>2, <2>3, <2>4, Gran64Cases DEF Seen
<1>4. ASSUME NEW x \in Gran32, NEW y \in Gran32,
             (g = Absent /\ x = Absent /\ y = Absent) \/ g = Pair(x, y)
      PROVE  \A i \in 0..7 : byte64(g, i) = IF i < 4 THEN byte32(x, i) ELSE byte32(y, i - 4)
  <2>1. CASE g = Pair(x, y)
    BY Zenon, <2>1, Byte64
  <2>2. CASE g = Absent /\ x = Absent /\ y = Absent
    BY Zenon, <2>2, Byte64, Byte32
  <2> QED BY Zenon, <1>4, <2>1, <2>2
<1>5. ASSUME NEW x \in Gran32, NEW y \in Gran32, w = 8, g = Pair(x, y)
      PROVE  /\ r.v \in Value(w) /\ r.g \in Gran64 /\ r.m \in B
             /\ \A j \in 0..(w - 1) : r.v[j] = Seen(byte64(g, which + j), F[a + which + j])
             /\ \A i \in 0..7 : Seen(byte64(r.g, i), F[a + i]) = Seen(byte64(g, i), F[a + i])
  <2> DEFINE first == gran32_get(base_missing, m, x, a, 0, 4)
             second == gran32_get(base_missing, first.m, y, a + 4, 0, 4)
  <2>1. /\ r.v = reassemble(first.v, second.v, 4) /\ r.g = Pair(first.g, second.g)
        /\ r.m = second.m
    <3>1. g.kind = "pair" /\ g.g1 = x /\ g.g2 = y /\ w = 2 * 4
      <4>1. g.kind = "pair" /\ g.g1 = x /\ g.g2 = y
        BY Zenon, <1>5, Fields
      <4>2. 8 = 2 * 4
        OBVIOUS
      <4> QED BY Zenon, <1>5, <4>1, <4>2
    <3>2. r = [v |-> reassemble(first.v, second.v, 4), g |-> Pair(first.g, second.g), m |-> second.m]
      BY Zenon, <3>1 DEF gran64_get, get_half, get_rest, InBoth
    <3> HIDE DEF first, second
    <3> QED BY SMTT(60), <3>2
  <2>2. /\ Fits(4, 0, 4) /\ a + 4 \in Nat
        /\ a + 4 <= 8 * Chunks /\ a + 4 + 4 <= 8 * Chunks
    BY SMTT(60), ChunksAssumption DEF Fits
  <2>3. /\ first.v \in Value(4) /\ first.g \in Gran32 /\ first.m \in B
        /\ \A j \in 0..3 : first.v[j] = Seen(byte32(x, j), F[a + j])
        /\ \A i \in 0..3 : Seen(byte32(first.g, i), F[a + i]) = Seen(byte32(x, i), F[a + i])
    BY SMTT(60), <2>2, BaseGet32
  <2>4. /\ second.v \in Value(4) /\ second.g \in Gran32 /\ second.m \in B
        /\ \A j \in 0..3 : second.v[j] = Seen(byte32(y, j), F[a + 4 + j])
        /\ \A i \in 0..3 : Seen(byte32(second.g, i), F[a + 4 + i]) = Seen(byte32(y, i), F[a + 4 + i])
    <3> DEFINE c == a + 4
    <3>1. second = gran32_get(base_missing, first.m, y, c, 0, 4) /\ c = a + 4
      OBVIOUS
    <3>2. Fits(4, 0, 4) /\ c \in Nat /\ c + 4 <= 8 * Chunks
      BY Zenon, <2>2
    <3>a. first.m \in B
      BY Zenon, <2>3
    <3> HIDE DEF first, second, c
    <3>3. /\ second.v \in Value(4) /\ second.g \in Gran32 /\ second.m \in B
          /\ \A j \in 0..3 : second.v[j] = Seen(byte32(y, j), F[c + j])
          /\ \A i \in 0..3 : Seen(byte32(second.g, i), F[c + i]) = Seen(byte32(y, i), F[c + i])
      BY SMTT(60), <3>a, <3>1, <3>2, BaseGet32
    <3> QED BY Zenon, <3>1, <3>3
  <2> HIDE DEF first, second
  <2>5. /\ r.v \in Value(8)
        /\ \A j \in 0..7 : r.v[j] = IF j < 4 THEN first.v[j] ELSE second.v[j - 4]
    <3>1. /\ reassemble(first.v, second.v, 4) \in Value(2 * 4)
          /\ \A j \in 0..(2 * 4 - 1) :
                reassemble(first.v, second.v, 4)[j] = IF j < 4 THEN first.v[j] ELSE second.v[j - 4]
      BY ZenonT(60), <2>3, <2>4, Reassembles
    <3>2. 2 * 4 = 8
      OBVIOUS
    <3> QED BY <2>1, <3>1, <3>2
  <2>6. which = 0
    BY SMTT(60), <1>1, <1>5
  <2>7. \A i \in 0..7 : byte64(r.g, i) = IF i < 4 THEN byte32(first.g, i) ELSE byte32(second.g, i - 4)
    BY SMTT(60), <2>1, Byte64
  <2>8. ASSUME NEW i \in 0..7
        PROVE  /\ r.v[i] = Seen(byte64(g, i), F[a + i])
               /\ Seen(byte64(r.g, i), F[a + i]) = Seen(byte64(g, i), F[a + i])
    <3>1. CASE i < 4
      BY SMTT(60), <1>4, <1>5, <2>3, <2>5, <2>7, <3>1
    <3>2. CASE ~(i < 4)
      <4>1. i - 4 \in 0..3 /\ a + 4 + (i - 4) = a + i
        BY <3>2
      <4>2. byte64(g, i) = byte32(y, i - 4) /\ byte64(r.g, i) = byte32(second.g, i - 4)
        BY <1>4, <1>5, <2>7, <3>2
      <4>3. r.v[i] = second.v[i - 4]
        BY SMTT(60), <2>5, <3>2
      <4> QED BY <2>4, <4>1, <4>2, <4>3
    <3> QED BY Zenon, <3>1, <3>2
  <2> QED BY <1>5, <2>1, <2>3, <2>4, <2>5, <2>6, <2>8, Gran64Cases
<1>6. ASSUME NEW x \in Gran32, NEW y \in Gran32, w # 8, which < 4,
             (g = Absent /\ x = Absent /\ y = Absent) \/ g = Pair(x, y)
      PROVE  /\ r.v \in Value(w) /\ r.g \in Gran64 /\ r.m \in B
             /\ \A j \in 0..(w - 1) : r.v[j] = Seen(byte64(g, which + j), F[a + which + j])
             /\ \A i \in 0..7 : Seen(byte64(r.g, i), F[a + i]) = Seen(byte64(g, i), F[a + i])
  <2> DEFINE low == gran32_get(base_missing, m, x, a, which, w)
  <2>1. r.v = low.v /\ r.g = Pair(low.g, y) /\ r.m = low.m
    BY <1>6, Fields DEF gran64_get, get_half, InFirst
  <2>2. Fits(4, which, w) /\ a + 4 <= 8 * Chunks
    BY SMTT(60), <1>1, <1>6, ChunksAssumption DEF Fits
  <2>3. /\ low.v \in Value(w) /\ low.g \in Gran32 /\ low.m \in B
        /\ \A j \in 0..(w - 1) : low.v[j] = Seen(byte32(x, which + j), F[a + which + j])
        /\ \A i \in 0..3 : Seen(byte32(low.g, i), F[a + i]) = Seen(byte32(x, i), F[a + i])
    <3>1. low = gran32_get(base_missing, m, x, a, which, w)
      OBVIOUS
    <3> HIDE DEF low
    <3> QED BY SMTT(60), <2>2, <3>1, BaseGet32
  <2> HIDE DEF low
  <2>4. \A i \in 0..7 : byte64(r.g, i) = IF i < 4 THEN byte32(low.g, i) ELSE byte32(y, i - 4)
    BY <2>1, Byte64
  <2>5. which + w <= 4
    BY SMTT(60), <2>2 DEF Fits
  <2>6. \A i \in 0..7 : Seen(byte64(r.g, i), F[a + i]) = Seen(byte64(g, i), F[a + i])
    BY SMTT(60), <1>4, <1>6, <2>3, <2>4
  <2>7. \A j \in 0..(w - 1) : r.v[j] = Seen(byte64(g, which + j), F[a + which + j])
    BY SMTT(60), <1>1, <1>4, <1>6, <2>1, <2>3, <2>5
  <2> QED BY SMTT(60), <1>6, <2>1, <2>3, <2>6, <2>7, Gran64Cases
<1>7. ASSUME NEW x \in Gran32, NEW y \in Gran32, w # 8, which >= 4,
             (g = Absent /\ x = Absent /\ y = Absent) \/ g = Pair(x, y)
      PROVE  /\ r.v \in Value(w) /\ r.g \in Gran64 /\ r.m \in B
             /\ \A j \in 0..(w - 1) : r.v[j] = Seen(byte64(g, which + j), F[a + which + j])
             /\ \A i \in 0..7 : Seen(byte64(r.g, i), F[a + i]) = Seen(byte64(g, i), F[a + i])
  <2> DEFINE high == gran32_get(base_missing, m, y, a + 4, which - 4, w)
  <2>1. r.v = high.v /\ r.g = Pair(x, high.g) /\ r.m = high.m
    BY <1>1, <1>7, Fields DEF gran64_get, get_half, InSecond
  <2>2. Fits(4, which - 4, w) /\ a + 4 \in Nat /\ a + 4 + 4 <= 8 * Chunks
    BY SMTT(60), <1>1, <1>7, ChunksAssumption DEF Fits
  <2>3. /\ high.v \in Value(w) /\ high.g \in Gran32 /\ high.m \in B
        /\ \A j \in 0..(w - 1) :
              high.v[j] = Seen(byte32(y, which - 4 + j), F[a + 4 + (which - 4) + j])
        /\ \A i \in 0..3 : Seen(byte32(high.g, i), F[a + 4 + i]) = Seen(byte32(y, i), F[a + 4 + i])
    <3> DEFINE c == a + 4
               k == which - 4
    <3>1. high = gran32_get(base_missing, m, y, c, k, w) /\ c = a + 4 /\ k = which - 4
      OBVIOUS
    <3>2. Fits(4, k, w) /\ c \in Nat /\ c + 4 <= 8 * Chunks
      BY Zenon, <2>2
    <3> HIDE DEF high, c, k
    <3>3. /\ high.v \in Value(w) /\ high.g \in Gran32 /\ high.m \in B
          /\ \A j \in 0..(w - 1) :
                high.v[j] = Seen(byte32(y, k + j), F[c + k + j])
          /\ \A i \in 0..3 : Seen(byte32(high.g, i), F[c + i]) = Seen(byte32(y, i), F[c + i])
      BY SMTT(60), <3>1, <3>2, BaseGet32
    <3> QED BY <3>1, <3>3
  <2> HIDE DEF high
  <2>4. \A i \in 0..7 : byte64(r.g, i) = IF i < 4 THEN byte32(x, i) ELSE byte32(high.g, i - 4)
    BY <2>1, Byte64
  <2>5. \A i \in 0..7 : byte64(g, i) = IF i < 4 THEN byte32(x, i) ELSE byte32(y, i - 4)
    BY <1>4, <1>7
  <2>6. ASSUME NEW i \in 0..7
        PROVE  Seen(byte64(r.g, i), F[a + i]) = Seen(byte64(g, i), F[a + i])
    <3>1. CASE i < 4
      BY SMTT(60), <1>4, <1>7, <2>4, <3>1
    <3>2. CASE ~(i < 4)
      <4>1. i - 4 \in 0..3 /\ a + 4 + (i - 4) = a + i
        BY <3>2
      <4>2. byte64(g, i) = byte32(y, i - 4) /\ byte64(r.g, i) = byte32(high.g, i - 4)
        BY SMTT(60), <1>4, <1>7, <2>4, <3>2
      <4> QED BY SMTT(60), <2>3, <4>1, <4>2
    <3> QED BY Zenon, <3>1, <3>2
  <2>7. ASSUME NEW j \in 0..(w - 1)
        PROVE  r.v[j] = Seen(byte64(g, which + j), F[a + which + j])
    <3>1. which + j \in 0..7 /\ which + j >= 4
      BY <1>1, <1>7
    <3>2. byte64(g, which + j) = byte32(y, which + j - 4)
      BY <1>1, <2>5, <3>1
    <3>3. which - 4 + j = which + j - 4 /\ a + 4 + (which - 4) + j = a + which + j
      BY SMTT(60), <1>1
    <3> QED BY <2>1, <2>3, <3>2, <3>3
  <2> QED BY SMTT(60), <1>7, <2>1, <2>3, <2>6, <2>7, Gran64Cases
<1>8. CASE g = Absent
  <2>1. Absent \in Gran32
    BY SMTT(60), Gran32Cases
  <2> QED BY <1>1, <1>3, <1>6, <1>7, <1>8, <2>1
<1>9. CASE \E v \in Value(8) : g = Leaf(v)
  BY Zenon, <1>2, <1>9
<1>10. CASE \E x, y \in Gran32 : g = Pair(x, y)
  <2>1. PICK x \in Gran32, y \in Gran32 : g = Pair(x, y)
    BY Zenon, <1>10
  <2>2. CASE w = 8
    BY Zenon, <1>5, <2>1, <2>2
  <2>3. CASE w # 8 /\ which < 4
    BY Zenon, <1>6, <2>1, <2>3
  <2>4. CASE w # 8 /\ ~(which < 4)
    <3>1. which >= 4
      BY <1>1, <2>4
    <3> QED BY Zenon, <1>7, <2>1, <2>4, <3>1
  <2> QED BY Zenon, <2>2, <2>3, <2>4
<1> QED BY <1>8, <1>9, <1>10, Gran64Cases

\* A load from a tree returns what is in it, and where that is absent what is
\* below; the tree looks the same afterwards.
LEMMA InnerGet8 ==
    ASSUME NEW B, NEW F, InnerAnswers(B, F), NEW m \in B, NEW g \in Gran8, NEW a \in Nat,
           a + 1 <= 8 * Chunks, NEW which, NEW w, Fits(1, which, w), NEW r,
           r = gran8_get(inner_load, m, g, a, which, w)
    PROVE  /\ r.v \in Value(w) /\ r.g \in Gran8 /\ r.m \in B
           /\ \A j \in 0..(w - 1) : r.v[j] = Seen(byte8(g, which + j), F[a + which + j])
           /\ \A i \in 0..0 : Seen(byte8(r.g, i), F[a + i]) = Seen(byte8(g, i), F[a + i])
<1> DEFINE below == inner_load(m, a, 1)
<1>1. w = 1 /\ which = 0
  BY DEF Fits
<1>2. CASE g = Absent
  <2>1. /\ below.v \in Value(1) /\ below.v[0] = F[a] /\ below.m \in B
    BY DEF InnerAnswers, Good
  <2>2. r.v = below.v /\ r.g = Leaf(below.v) /\ r.m = below.m
    BY <1>2, Fields DEF gran8_get, Kept
  <2>3. below.v[0] \in Nat
    BY <2>1 DEF Value
  <2> HIDE DEF below
  <2>4. byte8(r.g, 0) = F[a] /\ byte8(g, 0) = NoByte
    BY <1>2, <2>1, <2>2, Byte8
  <2> QED BY <1>1, <2>1, <2>2, <2>3, <2>4, Gran8Cases DEF Seen
<1>3. CASE \E v \in Value(1) : g = Leaf(v)
  <2> PICK v \in Value(1) : g = Leaf(v)
    BY <1>3
  <2>1. r.v = v /\ r.g = g /\ r.m = m
    BY Fields DEF gran8_get, Kept
  <2>2. byte8(g, 0) = v[0] /\ v[0] # NoByte
    BY Byte8 DEF Value, NoByte
  <2> QED BY <1>1, <2>1, <2>2 DEF Seen
<1> QED BY <1>2, <1>3, Gran8Cases

\* gran16_get over the inner layer, from gran8_get.
LEMMA InnerGet16 ==
    ASSUME NEW B, NEW F, InnerAnswers(B, F), NEW m \in B, NEW g \in Gran16, NEW a \in Nat,
           a + 2 <= 8 * Chunks, NEW which, NEW w, Fits(2, which, w), NEW r,
           r = gran16_get(inner_load, m, g, a, which, w)
    PROVE  /\ r.v \in Value(w) /\ r.g \in Gran16 /\ r.m \in B
           /\ \A j \in 0..(w - 1) : r.v[j] = Seen(byte16(g, which + j), F[a + which + j])
           /\ \A i \in 0..1 : Seen(byte16(r.g, i), F[a + i]) = Seen(byte16(g, i), F[a + i])
<1>1. which \in Nat /\ w \in {1, 2, 4, 8} /\ which + w <= 2
  BY DEF Fits
<1>2. ASSUME NEW v \in Value(2), g = Leaf(v)
      PROVE  /\ r.v \in Value(w) /\ r.g = g /\ r.m = m
             /\ \A j \in 0..(w - 1) : r.v[j] = Seen(byte16(g, which + j), F[a + which + j])
  <2>1. r.v = extract(v, which, w) /\ r.g = g /\ r.m = m
    BY Zenon, <1>2, Fields DEF gran16_get, get_half
  <2>2. /\ extract(v, which, w) \in Value(w)
        /\ \A j \in 0..(w - 1) : extract(v, which, w)[j] = v[which + j]
    BY <1>1, Extracts
  <2>3. ASSUME NEW j \in 0..(w - 1)
        PROVE  r.v[j] = Seen(byte16(g, which + j), F[a + which + j])
    <3>1. byte16(g, which + j) = v[which + j]
      BY <1>2, Byte16
    <3>2. v[which + j] # NoByte
      BY <1>1 DEF Value, NoByte
    <3> QED BY <2>1, <2>2, <3>1, <3>2 DEF Seen
  <2> QED BY <2>1, <2>2, <2>3
<1>3. ASSUME g = Absent, w = 2
      PROVE  /\ r.v \in Value(w) /\ r.g \in Gran16 /\ r.m \in B
             /\ \A j \in 0..(w - 1) : r.v[j] = Seen(byte16(g, which + j), F[a + which + j])
             /\ \A i \in 0..1 : Seen(byte16(r.g, i), F[a + i]) = Seen(byte16(g, i), F[a + i])
  <2> DEFINE below == inner_load(m, a, w)
  <2>1. /\ below.v \in Value(2) /\ below.m \in B
        /\ \A j \in 0..1 : below.v[j] = F[a + j]
    BY <1>3 DEF InnerAnswers, Good
  <2>2. r.v = below.v /\ r.g = Leaf(below.v) /\ r.m = below.m
    BY <1>3, Fields DEF gran16_get, get_half, Kept
  <2> HIDE DEF below
  <2>3. which = 0
    BY <1>1, <1>3
  <2>4. \A i \in 0..1 : byte16(r.g, i) = F[a + i] /\ byte16(g, i) = NoByte
    BY <1>3, <2>1, <2>2, Byte16
  <2> QED BY <1>3, <2>1, <2>2, <2>3, <2>4, Gran16Cases DEF Seen
<1>4. ASSUME NEW x \in Gran8, NEW y \in Gran8,
             (g = Absent /\ x = Absent /\ y = Absent) \/ g = Pair(x, y)
      PROVE  \A i \in 0..1 : byte16(g, i) = IF i < 1 THEN byte8(x, i) ELSE byte8(y, i - 1)
  BY <1>4, Byte16, Byte8
<1>5. ASSUME NEW x \in Gran8, NEW y \in Gran8, w = 2, g = Pair(x, y)
      PROVE  /\ r.v \in Value(w) /\ r.g \in Gran16 /\ r.m \in B
             /\ \A j \in 0..(w - 1) : r.v[j] = Seen(byte16(g, which + j), F[a + which + j])
             /\ \A i \in 0..1 : Seen(byte16(r.g, i), F[a + i]) = Seen(byte16(g, i), F[a + i])
  <2> DEFINE first == gran8_get(inner_load, m, x, a, 0, 1)
             second == gran8_get(inner_load, first.m, y, a + 1, 0, 1)
  <2>1. /\ r.v = reassemble(first.v, second.v, 1) /\ r.g = Pair(first.g, second.g)
        /\ r.m = second.m
    <3>1. g.kind = "pair" /\ g.g1 = x /\ g.g2 = y /\ w = 2 * 1
      BY <1>5, Fields
    <3>2. r = [v |-> reassemble(first.v, second.v, 1), g |-> Pair(first.g, second.g), m |-> second.m]
      BY <3>1 DEF gran16_get, get_half, get_rest, InBoth
    <3> HIDE DEF first, second
    <3> QED BY <3>2
  <2>2. /\ Fits(1, 0, 1) /\ a + 1 \in Nat
        /\ a + 1 <= 8 * Chunks /\ a + 1 + 1 <= 8 * Chunks
    BY ChunksAssumption DEF Fits
  <2>3. /\ first.v \in Value(1) /\ first.g \in Gran8 /\ first.m \in B
        /\ \A j \in 0..0 : first.v[j] = Seen(byte8(x, j), F[a + j])
        /\ \A i \in 0..0 : Seen(byte8(first.g, i), F[a + i]) = Seen(byte8(x, i), F[a + i])
    BY <2>2, InnerGet8
  <2>4. /\ second.v \in Value(1) /\ second.g \in Gran8 /\ second.m \in B
        /\ \A j \in 0..0 : second.v[j] = Seen(byte8(y, j), F[a + 1 + j])
        /\ \A i \in 0..0 : Seen(byte8(second.g, i), F[a + 1 + i]) = Seen(byte8(y, i), F[a + 1 + i])
    <3> DEFINE c == a + 1
    <3>1. second = gran8_get(inner_load, first.m, y, c, 0, 1) /\ c = a + 1
      OBVIOUS
    <3>2. Fits(1, 0, 1) /\ c \in Nat /\ c + 1 <= 8 * Chunks
      BY <2>2
    <3> HIDE DEF first, second, c
    <3>3. /\ second.v \in Value(1) /\ second.g \in Gran8 /\ second.m \in B
          /\ \A j \in 0..0 : second.v[j] = Seen(byte8(y, j), F[c + j])
          /\ \A i \in 0..0 : Seen(byte8(second.g, i), F[c + i]) = Seen(byte8(y, i), F[c + i])
      BY SMTT(60), <2>3, <3>1, <3>2, InnerGet8
    <3> QED BY <3>1, <3>3
  <2> HIDE DEF first, second
  <2>5. /\ r.v \in Value(2)
        /\ \A j \in 0..1 : r.v[j] = IF j < 1 THEN first.v[j] ELSE second.v[j - 1]
    <3>1. /\ reassemble(first.v, second.v, 1) \in Value(2 * 1)
          /\ \A j \in 0..(2 * 1 - 1) :
                reassemble(first.v, second.v, 1)[j] = IF j < 1 THEN first.v[j] ELSE second.v[j - 1]
      BY Zenon, <2>3, <2>4, Reassembles
    <3>2. 2 * 1 = 2
      OBVIOUS
    <3> QED BY <2>1, <3>1, <3>2
  <2>6. which = 0
    BY <1>1, <1>5
  <2>7. \A i \in 0..1 : byte16(r.g, i) = IF i < 1 THEN byte8(first.g, i) ELSE byte8(second.g, i - 1)
    BY <2>1, Byte16
  <2>8. ASSUME NEW i \in 0..1
        PROVE  /\ r.v[i] = Seen(byte16(g, i), F[a + i])
               /\ Seen(byte16(r.g, i), F[a + i]) = Seen(byte16(g, i), F[a + i])
    <3>1. CASE i < 1
      BY <1>4, <1>5, <2>3, <2>5, <2>7, <3>1
    <3>2. CASE i >= 1
      <4>1. i - 1 \in 0..0 /\ a + 1 + (i - 1) = a + i
        BY <3>2
      <4>2. byte16(g, i) = byte8(y, i - 1) /\ byte16(r.g, i) = byte8(second.g, i - 1)
        BY <1>4, <1>5, <2>7, <3>2
      <4>3. r.v[i] = second.v[i - 1]
        BY <2>5, <3>2
      <4> QED BY <2>4, <4>1, <4>2, <4>3
    <3> QED BY <3>1, <3>2
  <2> QED BY <1>5, <2>1, <2>3, <2>4, <2>5, <2>6, <2>8, Gran16Cases
<1>6. ASSUME NEW x \in Gran8, NEW y \in Gran8, w # 2, which < 1,
             (g = Absent /\ x = Absent /\ y = Absent) \/ g = Pair(x, y)
      PROVE  /\ r.v \in Value(w) /\ r.g \in Gran16 /\ r.m \in B
             /\ \A j \in 0..(w - 1) : r.v[j] = Seen(byte16(g, which + j), F[a + which + j])
             /\ \A i \in 0..1 : Seen(byte16(r.g, i), F[a + i]) = Seen(byte16(g, i), F[a + i])
  <2> DEFINE low == gran8_get(inner_load, m, x, a, which, w)
  <2>1. r.v = low.v /\ r.g = Pair(low.g, y) /\ r.m = low.m
    BY <1>6, Fields DEF gran16_get, get_half, InFirst
  <2>2. Fits(1, which, w) /\ a + 1 <= 8 * Chunks
    BY <1>1, <1>6, ChunksAssumption DEF Fits
  <2>3. /\ low.v \in Value(w) /\ low.g \in Gran8 /\ low.m \in B
        /\ \A j \in 0..(w - 1) : low.v[j] = Seen(byte8(x, which + j), F[a + which + j])
        /\ \A i \in 0..0 : Seen(byte8(low.g, i), F[a + i]) = Seen(byte8(x, i), F[a + i])
    <3>1. low = gran8_get(inner_load, m, x, a, which, w)
      OBVIOUS
    <3> HIDE DEF low
    <3> QED BY <2>2, <3>1, InnerGet8
  <2> HIDE DEF low
  <2>4. \A i \in 0..1 : byte16(r.g, i) = IF i < 1 THEN byte8(low.g, i) ELSE byte8(y, i - 1)
    BY <2>1, Byte16
  <2>5. which + w <= 1
    BY <2>2 DEF Fits
  <2>6. \A i \in 0..1 : Seen(byte16(r.g, i), F[a + i]) = Seen(byte16(g, i), F[a + i])
    BY <1>4, <1>6, <2>3, <2>4
  <2>7. \A j \in 0..(w - 1) : r.v[j] = Seen(byte16(g, which + j), F[a + which + j])
    BY <1>1, <1>4, <1>6, <2>1, <2>3, <2>5
  <2> QED BY <1>6, <2>1, <2>3, <2>6, <2>7, Gran16Cases
<1>7. ASSUME NEW x \in Gran8, NEW y \in Gran8, w # 2, which >= 1,
             (g = Absent /\ x = Absent /\ y = Absent) \/ g = Pair(x, y)
      PROVE  /\ r.v \in Value(w) /\ r.g \in Gran16 /\ r.m \in B
             /\ \A j \in 0..(w - 1) : r.v[j] = Seen(byte16(g, which + j), F[a + which + j])
             /\ \A i \in 0..1 : Seen(byte16(r.g, i), F[a + i]) = Seen(byte16(g, i), F[a + i])
  <2> DEFINE high == gran8_get(inner_load, m, y, a + 1, which - 1, w)
  <2>1. r.v = high.v /\ r.g = Pair(x, high.g) /\ r.m = high.m
    BY <1>1, <1>7, Fields DEF gran16_get, get_half, InSecond
  <2>2. Fits(1, which - 1, w) /\ a + 1 \in Nat /\ a + 1 + 1 <= 8 * Chunks
    BY <1>1, <1>7, ChunksAssumption DEF Fits
  <2>3. /\ high.v \in Value(w) /\ high.g \in Gran8 /\ high.m \in B
        /\ \A j \in 0..(w - 1) :
              high.v[j] = Seen(byte8(y, which - 1 + j), F[a + 1 + (which - 1) + j])
        /\ \A i \in 0..0 : Seen(byte8(high.g, i), F[a + 1 + i]) = Seen(byte8(y, i), F[a + 1 + i])
    <3> DEFINE c == a + 1
               k == which - 1
    <3>1. high = gran8_get(inner_load, m, y, c, k, w) /\ c = a + 1 /\ k = which - 1
      OBVIOUS
    <3>2. Fits(1, k, w) /\ c \in Nat /\ c + 1 <= 8 * Chunks
      BY <2>2
    <3> HIDE DEF high, c, k
    <3>3. /\ high.v \in Value(w) /\ high.g \in Gran8 /\ high.m \in B
          /\ \A j \in 0..(w - 1) :
                high.v[j] = Seen(byte8(y, k + j), F[c + k + j])
          /\ \A i \in 0..0 : Seen(byte8(high.g, i), F[c + i]) = Seen(byte8(y, i), F[c + i])
      BY <3>1, <3>2, InnerGet8
    <3> QED BY <3>1, <3>3
  <2> HIDE DEF high
  <2>4. \A i \in 0..1 : byte16(r.g, i) = IF i < 1 THEN byte8(x, i) ELSE byte8(high.g, i - 1)
    BY <2>1, Byte16
  <2>5. \A i \in 0..1 : byte16(g, i) = IF i < 1 THEN byte8(x, i) ELSE byte8(y, i - 1)
    BY <1>4, <1>7
  <2>6. ASSUME NEW i \in 0..1
        PROVE  Seen(byte16(r.g, i), F[a + i]) = Seen(byte16(g, i), F[a + i])
    <3>1. CASE i < 1
      BY <1>4, <1>7, <2>4, <3>1
    <3>2. CASE i >= 1
      <4>1. i - 1 \in 0..0 /\ a + 1 + (i - 1) = a + i
        BY <3>2
      <4>2. byte16(g, i) = byte8(y, i - 1) /\ byte16(r.g, i) = byte8(high.g, i - 1)
        BY <1>4, <1>7, <2>4, <3>2
      <4> QED BY <2>3, <4>1, <4>2
    <3> QED BY <3>1, <3>2
  <2>7. ASSUME NEW j \in 0..(w - 1)
        PROVE  r.v[j] = Seen(byte16(g, which + j), F[a + which + j])
    <3>1. which + j \in 0..1 /\ which + j >= 1
      BY <1>1, <1>7
    <3>2. byte16(g, which + j) = byte8(y, which + j - 1)
      BY <1>1, <2>5, <3>1
    <3>3. which - 1 + j = which + j - 1 /\ a + 1 + (which - 1) + j = a + which + j
      BY <1>1
    <3> QED BY <2>1, <2>3, <3>2, <3>3
  <2> QED BY <1>7, <2>1, <2>3, <2>6, <2>7, Gran16Cases
<1>8. CASE g = Absent
  <2>1. Absent \in Gran8
    BY Gran8Cases
  <2> QED BY <1>1, <1>3, <1>6, <1>7, <1>8, <2>1
<1>9. CASE \E v \in Value(2) : g = Leaf(v)
  BY <1>2, <1>9
<1>10. CASE \E x, y \in Gran8 : g = Pair(x, y)
  BY <1>1, <1>5, <1>6, <1>7, <1>10
<1> QED BY <1>8, <1>9, <1>10, Gran16Cases

\* gran32_get over the inner layer, from gran16_get.
LEMMA InnerGet32 ==
    ASSUME NEW B, NEW F, InnerAnswers(B, F), NEW m \in B, NEW g \in Gran32, NEW a \in Nat,
           a + 4 <= 8 * Chunks, NEW which, NEW w, Fits(4, which, w), NEW r,
           r = gran32_get(inner_load, m, g, a, which, w)
    PROVE  /\ r.v \in Value(w) /\ r.g \in Gran32 /\ r.m \in B
           /\ \A j \in 0..(w - 1) : r.v[j] = Seen(byte32(g, which + j), F[a + which + j])
           /\ \A i \in 0..3 : Seen(byte32(r.g, i), F[a + i]) = Seen(byte32(g, i), F[a + i])
<1>1. which \in Nat /\ w \in {1, 2, 4, 8} /\ which + w <= 4
  BY DEF Fits
<1>2. ASSUME NEW v \in Value(4), g = Leaf(v)
      PROVE  /\ r.v \in Value(w) /\ r.g = g /\ r.m = m
             /\ \A j \in 0..(w - 1) : r.v[j] = Seen(byte32(g, which + j), F[a + which + j])
  <2>1. r.v = extract(v, which, w) /\ r.g = g /\ r.m = m
    BY Zenon, <1>2, Fields DEF gran32_get, get_half
  <2>2. /\ extract(v, which, w) \in Value(w)
        /\ \A j \in 0..(w - 1) : extract(v, which, w)[j] = v[which + j]
    BY <1>1, Extracts
  <2>3. ASSUME NEW j \in 0..(w - 1)
        PROVE  r.v[j] = Seen(byte32(g, which + j), F[a + which + j])
    <3>1. byte32(g, which + j) = v[which + j]
      BY <1>2, Byte32
    <3>2. v[which + j] # NoByte
      BY <1>1 DEF Value, NoByte
    <3> QED BY <2>1, <2>2, <3>1, <3>2 DEF Seen
  <2> QED BY <2>1, <2>2, <2>3
<1>3. ASSUME g = Absent, w = 4
      PROVE  /\ r.v \in Value(w) /\ r.g \in Gran32 /\ r.m \in B
             /\ \A j \in 0..(w - 1) : r.v[j] = Seen(byte32(g, which + j), F[a + which + j])
             /\ \A i \in 0..3 : Seen(byte32(r.g, i), F[a + i]) = Seen(byte32(g, i), F[a + i])
  <2> DEFINE below == inner_load(m, a, w)
  <2>1. /\ below.v \in Value(4) /\ below.m \in B
        /\ \A j \in 0..3 : below.v[j] = F[a + j]
    BY <1>3 DEF InnerAnswers, Good
  <2>2. r.v = below.v /\ r.g = Leaf(below.v) /\ r.m = below.m
    BY <1>3, Fields DEF gran32_get, get_half, Kept
  <2> HIDE DEF below
  <2>3. which = 0
    BY <1>1, <1>3
  <2>4. \A i \in 0..3 : byte32(r.g, i) = F[a + i] /\ byte32(g, i) = NoByte
    BY <1>3, <2>1, <2>2, Byte32
  <2> QED BY <1>3, <2>1, <2>2, <2>3, <2>4, Gran32Cases DEF Seen
<1>4. ASSUME NEW x \in Gran16, NEW y \in Gran16,
             (g = Absent /\ x = Absent /\ y = Absent) \/ g = Pair(x, y)
      PROVE  \A i \in 0..3 : byte32(g, i) = IF i < 2 THEN byte16(x, i) ELSE byte16(y, i - 2)
  BY <1>4, Byte32, Byte16
<1>5. ASSUME NEW x \in Gran16, NEW y \in Gran16, w = 4, g = Pair(x, y)
      PROVE  /\ r.v \in Value(w) /\ r.g \in Gran32 /\ r.m \in B
             /\ \A j \in 0..(w - 1) : r.v[j] = Seen(byte32(g, which + j), F[a + which + j])
             /\ \A i \in 0..3 : Seen(byte32(r.g, i), F[a + i]) = Seen(byte32(g, i), F[a + i])
  <2> DEFINE first == gran16_get(inner_load, m, x, a, 0, 2)
             second == gran16_get(inner_load, first.m, y, a + 2, 0, 2)
  <2>1. /\ r.v = reassemble(first.v, second.v, 2) /\ r.g = Pair(first.g, second.g)
        /\ r.m = second.m
    <3>1. g.kind = "pair" /\ g.g1 = x /\ g.g2 = y /\ w = 2 * 2
      BY <1>5, Fields
    <3>2. r = [v |-> reassemble(first.v, second.v, 2), g |-> Pair(first.g, second.g), m |-> second.m]
      BY Zenon, <3>1 DEF gran32_get, get_half, get_rest, InBoth
    <3> HIDE DEF first, second
    <3> QED BY <3>2
  <2>2. /\ Fits(2, 0, 2) /\ a + 2 \in Nat
        /\ a + 2 <= 8 * Chunks /\ a + 2 + 2 <= 8 * Chunks
    BY ChunksAssumption DEF Fits
  <2>3. /\ first.v \in Value(2) /\ first.g \in Gran16 /\ first.m \in B
        /\ \A j \in 0..1 : first.v[j] = Seen(byte16(x, j), F[a + j])
        /\ \A i \in 0..1 : Seen(byte16(first.g, i), F[a + i]) = Seen(byte16(x, i), F[a + i])
    BY <2>2, InnerGet16
  <2>4. /\ second.v \in Value(2) /\ second.g \in Gran16 /\ second.m \in B
        /\ \A j \in 0..1 : second.v[j] = Seen(byte16(y, j), F[a + 2 + j])
        /\ \A i \in 0..1 : Seen(byte16(second.g, i), F[a + 2 + i]) = Seen(byte16(y, i), F[a + 2 + i])
    <3> DEFINE c == a + 2
    <3>1. second = gran16_get(inner_load, first.m, y, c, 0, 2) /\ c = a + 2
      OBVIOUS
    <3>2. Fits(2, 0, 2) /\ c \in Nat /\ c + 2 <= 8 * Chunks
      BY <2>2
    <3> HIDE DEF first, second, c
    <3>3. /\ second.v \in Value(2) /\ second.g \in Gran16 /\ second.m \in B
          /\ \A j \in 0..1 : second.v[j] = Seen(byte16(y, j), F[c + j])
          /\ \A i \in 0..1 : Seen(byte16(second.g, i), F[c + i]) = Seen(byte16(y, i), F[c + i])
      BY SMTT(60), <2>3, <3>1, <3>2, InnerGet16
    <3> QED BY <3>1, <3>3
  <2> HIDE DEF first, second
  <2>5. /\ r.v \in Value(4)
        /\ \A j \in 0..3 : r.v[j] = IF j < 2 THEN first.v[j] ELSE second.v[j - 2]
    <3>1. /\ reassemble(first.v, second.v, 2) \in Value(2 * 2)
          /\ \A j \in 0..(2 * 2 - 1) :
                reassemble(first.v, second.v, 2)[j] = IF j < 2 THEN first.v[j] ELSE second.v[j - 2]
      BY Zenon, <2>3, <2>4, Reassembles
    <3>2. 2 * 2 = 4
      OBVIOUS
    <3> QED BY <2>1, <3>1, <3>2
  <2>6. which = 0
    BY <1>1, <1>5
  <2>7. \A i \in 0..3 : byte32(r.g, i) = IF i < 2 THEN byte16(first.g, i) ELSE byte16(second.g, i - 2)
    BY <2>1, Byte32
  <2>8. ASSUME NEW i \in 0..3
        PROVE  /\ r.v[i] = Seen(byte32(g, i), F[a + i])
               /\ Seen(byte32(r.g, i), F[a + i]) = Seen(byte32(g, i), F[a + i])
    <3>1. CASE i < 2
      BY <1>4, <1>5, <2>3, <2>5, <2>7, <3>1
    <3>2. CASE i >= 2
      <4>1. i - 2 \in 0..1 /\ a + 2 + (i - 2) = a + i
        BY <3>2
      <4>2. byte32(g, i) = byte16(y, i - 2) /\ byte32(r.g, i) = byte16(second.g, i - 2)
        BY <1>4, <1>5, <2>7, <3>2
      <4>3. r.v[i] = second.v[i - 2]
        BY <2>5, <3>2
      <4> QED BY <2>4, <4>1, <4>2, <4>3
    <3> QED BY <3>1, <3>2
  <2> QED BY <1>5, <2>1, <2>3, <2>4, <2>5, <2>6, <2>8, Gran32Cases
<1>6. ASSUME NEW x \in Gran16, NEW y \in Gran16, w # 4, which < 2,
             (g = Absent /\ x = Absent /\ y = Absent) \/ g = Pair(x, y)
      PROVE  /\ r.v \in Value(w) /\ r.g \in Gran32 /\ r.m \in B
             /\ \A j \in 0..(w - 1) : r.v[j] = Seen(byte32(g, which + j), F[a + which + j])
             /\ \A i \in 0..3 : Seen(byte32(r.g, i), F[a + i]) = Seen(byte32(g, i), F[a + i])
  <2> DEFINE low == gran16_get(inner_load, m, x, a, which, w)
  <2>1. r.v = low.v /\ r.g = Pair(low.g, y) /\ r.m = low.m
    BY <1>6, Fields DEF gran32_get, get_half, InFirst
  <2>2. Fits(2, which, w) /\ a + 2 <= 8 * Chunks
    BY <1>1, <1>6, ChunksAssumption DEF Fits
  <2>3. /\ low.v \in Value(w) /\ low.g \in Gran16 /\ low.m \in B
        /\ \A j \in 0..(w - 1) : low.v[j] = Seen(byte16(x, which + j), F[a + which + j])
        /\ \A i \in 0..1 : Seen(byte16(low.g, i), F[a + i]) = Seen(byte16(x, i), F[a + i])
    <3>1. low = gran16_get(inner_load, m, x, a, which, w)
      OBVIOUS
    <3> HIDE DEF low
    <3> QED BY <2>2, <3>1, InnerGet16
  <2> HIDE DEF low
  <2>4. \A i \in 0..3 : byte32(r.g, i) = IF i < 2 THEN byte16(low.g, i) ELSE byte16(y, i - 2)
    BY <2>1, Byte32
  <2>5. which + w <= 2
    BY <2>2 DEF Fits
  <2>6. \A i \in 0..3 : Seen(byte32(r.g, i), F[a + i]) = Seen(byte32(g, i), F[a + i])
    BY <1>4, <1>6, <2>3, <2>4
  <2>7. \A j \in 0..(w - 1) : r.v[j] = Seen(byte32(g, which + j), F[a + which + j])
    BY <1>1, <1>4, <1>6, <2>1, <2>3, <2>5
  <2> QED BY <1>6, <2>1, <2>3, <2>6, <2>7, Gran32Cases
<1>7. ASSUME NEW x \in Gran16, NEW y \in Gran16, w # 4, which >= 2,
             (g = Absent /\ x = Absent /\ y = Absent) \/ g = Pair(x, y)
      PROVE  /\ r.v \in Value(w) /\ r.g \in Gran32 /\ r.m \in B
             /\ \A j \in 0..(w - 1) : r.v[j] = Seen(byte32(g, which + j), F[a + which + j])
             /\ \A i \in 0..3 : Seen(byte32(r.g, i), F[a + i]) = Seen(byte32(g, i), F[a + i])
  <2> DEFINE high == gran16_get(inner_load, m, y, a + 2, which - 2, w)
  <2>1. r.v = high.v /\ r.g = Pair(x, high.g) /\ r.m = high.m
    BY <1>1, <1>7, Fields DEF gran32_get, get_half, InSecond
  <2>2. Fits(2, which - 2, w) /\ a + 2 \in Nat /\ a + 2 + 2 <= 8 * Chunks
    BY <1>1, <1>7, ChunksAssumption DEF Fits
  <2>3. /\ high.v \in Value(w) /\ high.g \in Gran16 /\ high.m \in B
        /\ \A j \in 0..(w - 1) :
              high.v[j] = Seen(byte16(y, which - 2 + j), F[a + 2 + (which - 2) + j])
        /\ \A i \in 0..1 : Seen(byte16(high.g, i), F[a + 2 + i]) = Seen(byte16(y, i), F[a + 2 + i])
    <3> DEFINE c == a + 2
               k == which - 2
    <3>1. high = gran16_get(inner_load, m, y, c, k, w) /\ c = a + 2 /\ k = which - 2
      OBVIOUS
    <3>2. Fits(2, k, w) /\ c \in Nat /\ c + 2 <= 8 * Chunks
      BY <2>2
    <3> HIDE DEF high, c, k
    <3>3. /\ high.v \in Value(w) /\ high.g \in Gran16 /\ high.m \in B
          /\ \A j \in 0..(w - 1) :
                high.v[j] = Seen(byte16(y, k + j), F[c + k + j])
          /\ \A i \in 0..1 : Seen(byte16(high.g, i), F[c + i]) = Seen(byte16(y, i), F[c + i])
      BY <3>1, <3>2, InnerGet16
    <3> QED BY <3>1, <3>3
  <2> HIDE DEF high
  <2>4. \A i \in 0..3 : byte32(r.g, i) = IF i < 2 THEN byte16(x, i) ELSE byte16(high.g, i - 2)
    BY <2>1, Byte32
  <2>5. \A i \in 0..3 : byte32(g, i) = IF i < 2 THEN byte16(x, i) ELSE byte16(y, i - 2)
    BY <1>4, <1>7
  <2>6. ASSUME NEW i \in 0..3
        PROVE  Seen(byte32(r.g, i), F[a + i]) = Seen(byte32(g, i), F[a + i])
    <3>1. CASE i < 2
      BY <1>4, <1>7, <2>4, <3>1
    <3>2. CASE i >= 2
      <4>1. i - 2 \in 0..1 /\ a + 2 + (i - 2) = a + i
        BY <3>2
      <4>2. byte32(g, i) = byte16(y, i - 2) /\ byte32(r.g, i) = byte16(high.g, i - 2)
        BY <1>4, <1>7, <2>4, <3>2
      <4> QED BY <2>3, <4>1, <4>2
    <3> QED BY <3>1, <3>2
  <2>7. ASSUME NEW j \in 0..(w - 1)
        PROVE  r.v[j] = Seen(byte32(g, which + j), F[a + which + j])
    <3>1. which + j \in 0..3 /\ which + j >= 2
      BY <1>1, <1>7
    <3>2. byte32(g, which + j) = byte16(y, which + j - 2)
      BY <1>1, <2>5, <3>1
    <3>3. which - 2 + j = which + j - 2 /\ a + 2 + (which - 2) + j = a + which + j
      BY <1>1
    <3> QED BY <2>1, <2>3, <3>2, <3>3
  <2> QED BY <1>7, <2>1, <2>3, <2>6, <2>7, Gran32Cases
<1>8. CASE g = Absent
  <2>1. Absent \in Gran16
    BY Gran16Cases
  <2> QED BY <1>1, <1>3, <1>6, <1>7, <1>8, <2>1
<1>9. CASE \E v \in Value(4) : g = Leaf(v)
  BY <1>2, <1>9
<1>10. CASE \E x, y \in Gran16 : g = Pair(x, y)
  BY <1>1, <1>5, <1>6, <1>7, <1>10
<1> QED BY <1>8, <1>9, <1>10, Gran32Cases

\* gran64_get over the inner layer, from gran32_get.
LEMMA InnerGet64 ==
    ASSUME NEW B, NEW F, InnerAnswers(B, F), NEW m \in B, NEW g \in Gran64, NEW a \in Nat,
           a + 8 <= 8 * Chunks, NEW which, NEW w, Fits(8, which, w), NEW r,
           r = gran64_get(inner_load, m, g, a, which, w)
    PROVE  /\ r.v \in Value(w) /\ r.g \in Gran64 /\ r.m \in B
           /\ \A j \in 0..(w - 1) : r.v[j] = Seen(byte64(g, which + j), F[a + which + j])
           /\ \A i \in 0..7 : Seen(byte64(r.g, i), F[a + i]) = Seen(byte64(g, i), F[a + i])
<1>1. which \in Nat /\ w \in {1, 2, 4, 8} /\ which + w <= 8
  BY DEF Fits
<1>2. ASSUME NEW v \in Value(8), g = Leaf(v)
      PROVE  /\ r.v \in Value(w) /\ r.g = g /\ r.m = m
             /\ \A j \in 0..(w - 1) : r.v[j] = Seen(byte64(g, which + j), F[a + which + j])
  <2>1. r.v = extract(v, which, w) /\ r.g = g /\ r.m = m
    BY Zenon, <1>2, Fields DEF gran64_get, get_half
  <2>2. /\ extract(v, which, w) \in Value(w)
        /\ \A j \in 0..(w - 1) : extract(v, which, w)[j] = v[which + j]
    BY <1>1, Extracts
  <2>3. ASSUME NEW j \in 0..(w - 1)
        PROVE  r.v[j] = Seen(byte64(g, which + j), F[a + which + j])
    <3>1. byte64(g, which + j) = v[which + j]
      BY <1>2, Byte64
    <3>2. v[which + j] # NoByte
      BY <1>1 DEF Value, NoByte
    <3> QED BY <2>1, <2>2, <3>1, <3>2 DEF Seen
  <2> QED BY <2>1, <2>2, <2>3
<1>3. ASSUME g = Absent, w = 8
      PROVE  /\ r.v \in Value(w) /\ r.g \in Gran64 /\ r.m \in B
             /\ \A j \in 0..(w - 1) : r.v[j] = Seen(byte64(g, which + j), F[a + which + j])
             /\ \A i \in 0..7 : Seen(byte64(r.g, i), F[a + i]) = Seen(byte64(g, i), F[a + i])
  <2> DEFINE below == inner_load(m, a, w)
  <2>1. /\ below.v \in Value(8) /\ below.m \in B
        /\ \A j \in 0..7 : below.v[j] = F[a + j]
    BY <1>3 DEF InnerAnswers, Good
  <2>2. r.v = below.v /\ r.g = Leaf(below.v) /\ r.m = below.m
    BY <1>3, Fields DEF gran64_get, get_half, Kept
  <2> HIDE DEF below
  <2>3. which = 0
    BY <1>1, <1>3
  <2>4. \A i \in 0..7 : byte64(r.g, i) = F[a + i] /\ byte64(g, i) = NoByte
    BY <1>3, <2>1, <2>2, Byte64
  <2> QED BY <1>3, <2>1, <2>2, <2>3, <2>4, Gran64Cases DEF Seen
<1>4. ASSUME NEW x \in Gran32, NEW y \in Gran32,
             (g = Absent /\ x = Absent /\ y = Absent) \/ g = Pair(x, y)
      PROVE  \A i \in 0..7 : byte64(g, i) = IF i < 4 THEN byte32(x, i) ELSE byte32(y, i - 4)
  BY <1>4, Byte64, Byte32
<1>5. ASSUME NEW x \in Gran32, NEW y \in Gran32, w = 8, g = Pair(x, y)
      PROVE  /\ r.v \in Value(w) /\ r.g \in Gran64 /\ r.m \in B
             /\ \A j \in 0..(w - 1) : r.v[j] = Seen(byte64(g, which + j), F[a + which + j])
             /\ \A i \in 0..7 : Seen(byte64(r.g, i), F[a + i]) = Seen(byte64(g, i), F[a + i])
  <2> DEFINE first == gran32_get(inner_load, m, x, a, 0, 4)
             second == gran32_get(inner_load, first.m, y, a + 4, 0, 4)
  <2>1. /\ r.v = reassemble(first.v, second.v, 4) /\ r.g = Pair(first.g, second.g)
        /\ r.m = second.m
    <3>1. g.kind = "pair" /\ g.g1 = x /\ g.g2 = y /\ w = 2 * 4
      BY <1>5, Fields
    <3>2. r = [v |-> reassemble(first.v, second.v, 4), g |-> Pair(first.g, second.g), m |-> second.m]
      BY Zenon, <3>1 DEF gran64_get, get_half, get_rest, InBoth
    <3> HIDE DEF first, second
    <3> QED BY <3>2
  <2>2. /\ Fits(4, 0, 4) /\ a + 4 \in Nat
        /\ a + 4 <= 8 * Chunks /\ a + 4 + 4 <= 8 * Chunks
    BY ChunksAssumption DEF Fits
  <2>3. /\ first.v \in Value(4) /\ first.g \in Gran32 /\ first.m \in B
        /\ \A j \in 0..3 : first.v[j] = Seen(byte32(x, j), F[a + j])
        /\ \A i \in 0..3 : Seen(byte32(first.g, i), F[a + i]) = Seen(byte32(x, i), F[a + i])
    BY <2>2, InnerGet32
  <2>4. /\ second.v \in Value(4) /\ second.g \in Gran32 /\ second.m \in B
        /\ \A j \in 0..3 : second.v[j] = Seen(byte32(y, j), F[a + 4 + j])
        /\ \A i \in 0..3 : Seen(byte32(second.g, i), F[a + 4 + i]) = Seen(byte32(y, i), F[a + 4 + i])
    <3> DEFINE c == a + 4
    <3>1. second = gran32_get(inner_load, first.m, y, c, 0, 4) /\ c = a + 4
      OBVIOUS
    <3>2. Fits(4, 0, 4) /\ c \in Nat /\ c + 4 <= 8 * Chunks
      BY Zenon, <2>2
    <3> HIDE DEF first, second, c
    <3>3. /\ second.v \in Value(4) /\ second.g \in Gran32 /\ second.m \in B
          /\ \A j \in 0..3 : second.v[j] = Seen(byte32(y, j), F[c + j])
          /\ \A i \in 0..3 : Seen(byte32(second.g, i), F[c + i]) = Seen(byte32(y, i), F[c + i])
      BY SMTT(60), <2>3, <3>1, <3>2, InnerGet32
    <3> QED BY <3>1, <3>3
  <2> HIDE DEF first, second
  <2>5. /\ r.v \in Value(8)
        /\ \A j \in 0..7 : r.v[j] = IF j < 4 THEN first.v[j] ELSE second.v[j - 4]
    <3>1. /\ reassemble(first.v, second.v, 4) \in Value(2 * 4)
          /\ \A j \in 0..(2 * 4 - 1) :
                reassemble(first.v, second.v, 4)[j] = IF j < 4 THEN first.v[j] ELSE second.v[j - 4]
      BY Zenon, <2>3, <2>4, Reassembles
    <3>2. 2 * 4 = 8
      OBVIOUS
    <3> QED BY <2>1, <3>1, <3>2
  <2>6. which = 0
    BY <1>1, <1>5
  <2>7. \A i \in 0..7 : byte64(r.g, i) = IF i < 4 THEN byte32(first.g, i) ELSE byte32(second.g, i - 4)
    BY <2>1, Byte64
  <2>8. ASSUME NEW i \in 0..7
        PROVE  /\ r.v[i] = Seen(byte64(g, i), F[a + i])
               /\ Seen(byte64(r.g, i), F[a + i]) = Seen(byte64(g, i), F[a + i])
    <3>1. CASE i < 4
      BY <1>4, <1>5, <2>3, <2>5, <2>7, <3>1
    <3>2. CASE i >= 4
      <4>1. i - 4 \in 0..3 /\ a + 4 + (i - 4) = a + i
        BY <3>2
      <4>2. byte64(g, i) = byte32(y, i - 4) /\ byte64(r.g, i) = byte32(second.g, i - 4)
        BY <1>4, <1>5, <2>7, <3>2
      <4>3. r.v[i] = second.v[i - 4]
        BY <2>5, <3>2
      <4> QED BY <2>4, <4>1, <4>2, <4>3
    <3> QED BY <3>1, <3>2
  <2> QED BY <1>5, <2>1, <2>3, <2>4, <2>5, <2>6, <2>8, Gran64Cases
<1>6. ASSUME NEW x \in Gran32, NEW y \in Gran32, w # 8, which < 4,
             (g = Absent /\ x = Absent /\ y = Absent) \/ g = Pair(x, y)
      PROVE  /\ r.v \in Value(w) /\ r.g \in Gran64 /\ r.m \in B
             /\ \A j \in 0..(w - 1) : r.v[j] = Seen(byte64(g, which + j), F[a + which + j])
             /\ \A i \in 0..7 : Seen(byte64(r.g, i), F[a + i]) = Seen(byte64(g, i), F[a + i])
  <2> DEFINE low == gran32_get(inner_load, m, x, a, which, w)
  <2>1. r.v = low.v /\ r.g = Pair(low.g, y) /\ r.m = low.m
    BY <1>6, Fields DEF gran64_get, get_half, InFirst
  <2>2. Fits(4, which, w) /\ a + 4 <= 8 * Chunks
    BY <1>1, <1>6, ChunksAssumption DEF Fits
  <2>3. /\ low.v \in Value(w) /\ low.g \in Gran32 /\ low.m \in B
        /\ \A j \in 0..(w - 1) : low.v[j] = Seen(byte32(x, which + j), F[a + which + j])
        /\ \A i \in 0..3 : Seen(byte32(low.g, i), F[a + i]) = Seen(byte32(x, i), F[a + i])
    <3>1. low = gran32_get(inner_load, m, x, a, which, w)
      OBVIOUS
    <3> HIDE DEF low
    <3> QED BY <2>2, <3>1, InnerGet32
  <2> HIDE DEF low
  <2>4. \A i \in 0..7 : byte64(r.g, i) = IF i < 4 THEN byte32(low.g, i) ELSE byte32(y, i - 4)
    BY <2>1, Byte64
  <2>5. which + w <= 4
    BY <2>2 DEF Fits
  <2>6. \A i \in 0..7 : Seen(byte64(r.g, i), F[a + i]) = Seen(byte64(g, i), F[a + i])
    BY <1>4, <1>6, <2>3, <2>4
  <2>7. \A j \in 0..(w - 1) : r.v[j] = Seen(byte64(g, which + j), F[a + which + j])
    BY <1>1, <1>4, <1>6, <2>1, <2>3, <2>5
  <2> QED BY <1>6, <2>1, <2>3, <2>6, <2>7, Gran64Cases
<1>7. ASSUME NEW x \in Gran32, NEW y \in Gran32, w # 8, which >= 4,
             (g = Absent /\ x = Absent /\ y = Absent) \/ g = Pair(x, y)
      PROVE  /\ r.v \in Value(w) /\ r.g \in Gran64 /\ r.m \in B
             /\ \A j \in 0..(w - 1) : r.v[j] = Seen(byte64(g, which + j), F[a + which + j])
             /\ \A i \in 0..7 : Seen(byte64(r.g, i), F[a + i]) = Seen(byte64(g, i), F[a + i])
  <2> DEFINE high == gran32_get(inner_load, m, y, a + 4, which - 4, w)
  <2>1. r.v = high.v /\ r.g = Pair(x, high.g) /\ r.m = high.m
    BY <1>1, <1>7, Fields DEF gran64_get, get_half, InSecond
  <2>2. Fits(4, which - 4, w) /\ a + 4 \in Nat /\ a + 4 + 4 <= 8 * Chunks
    BY <1>1, <1>7, ChunksAssumption DEF Fits
  <2>3. /\ high.v \in Value(w) /\ high.g \in Gran32 /\ high.m \in B
        /\ \A j \in 0..(w - 1) :
              high.v[j] = Seen(byte32(y, which - 4 + j), F[a + 4 + (which - 4) + j])
        /\ \A i \in 0..3 : Seen(byte32(high.g, i), F[a + 4 + i]) = Seen(byte32(y, i), F[a + 4 + i])
    <3> DEFINE c == a + 4
               k == which - 4
    <3>1. high = gran32_get(inner_load, m, y, c, k, w) /\ c = a + 4 /\ k = which - 4
      OBVIOUS
    <3>2. Fits(4, k, w) /\ c \in Nat /\ c + 4 <= 8 * Chunks
      BY <2>2
    <3> HIDE DEF high, c, k
    <3>3. /\ high.v \in Value(w) /\ high.g \in Gran32 /\ high.m \in B
          /\ \A j \in 0..(w - 1) :
                high.v[j] = Seen(byte32(y, k + j), F[c + k + j])
          /\ \A i \in 0..3 : Seen(byte32(high.g, i), F[c + i]) = Seen(byte32(y, i), F[c + i])
      BY <3>1, <3>2, InnerGet32
    <3> QED BY <3>1, <3>3
  <2> HIDE DEF high
  <2>4. \A i \in 0..7 : byte64(r.g, i) = IF i < 4 THEN byte32(x, i) ELSE byte32(high.g, i - 4)
    BY <2>1, Byte64
  <2>5. \A i \in 0..7 : byte64(g, i) = IF i < 4 THEN byte32(x, i) ELSE byte32(y, i - 4)
    BY <1>4, <1>7
  <2>6. ASSUME NEW i \in 0..7
        PROVE  Seen(byte64(r.g, i), F[a + i]) = Seen(byte64(g, i), F[a + i])
    <3>1. CASE i < 4
      BY <1>4, <1>7, <2>4, <3>1
    <3>2. CASE i >= 4
      <4>1. i - 4 \in 0..3 /\ a + 4 + (i - 4) = a + i
        BY <3>2
      <4>2. byte64(g, i) = byte32(y, i - 4) /\ byte64(r.g, i) = byte32(high.g, i - 4)
        BY <1>4, <1>7, <2>4, <3>2
      <4> QED BY <2>3, <4>1, <4>2
    <3> QED BY <3>1, <3>2
  <2>7. ASSUME NEW j \in 0..(w - 1)
        PROVE  r.v[j] = Seen(byte64(g, which + j), F[a + which + j])
    <3>1. which + j \in 0..7 /\ which + j >= 4
      BY <1>1, <1>7
    <3>2. byte64(g, which + j) = byte32(y, which + j - 4)
      BY <1>1, <2>5, <3>1
    <3>3. which - 4 + j = which + j - 4 /\ a + 4 + (which - 4) + j = a + which + j
      BY <1>1
    <3> QED BY <2>1, <2>3, <3>2, <3>3
  <2> QED BY <1>7, <2>1, <2>3, <2>6, <2>7, Gran64Cases
<1>8. CASE g = Absent
  <2>1. Absent \in Gran32
    BY Gran32Cases
  <2> QED BY <1>1, <1>3, <1>6, <1>7, <1>8, <2>1
<1>9. CASE \E v \in Value(8) : g = Leaf(v)
  BY <1>2, <1>9
<1>10. CASE \E x, y \in Gran32 : g = Pair(x, y)
  BY <1>1, <1>5, <1>6, <1>7, <1>10
<1> QED BY <1>8, <1>9, <1>10, Gran64Cases

-----------------------------------------------------------------------------
(* Loads from a layer. *)

Table == [0..(Chunks - 1) -> Gran64]

\* r is what loading w bytes at a from the table t, over the bytes F, returns.
Loaded(r, t, w, F, a, B) ==
    /\ r.some \in BOOLEAN
    /\ r.t \in Table
    /\ r.m \in B
    /\ Over(r.t, F) = Over(t, F)
    /\ r.some => /\ r.v \in Value(w)
                 /\ \A j \in 0..(w - 1) : r.v[j] = Over(t, F)[a + j]
    /\ ~r.some => \A j \in 0..(w - 1) : Over(t, F)[a + j] = F[a + j]

\* An aligned value lies in one chunk.
LEMMA Place ==
    ASSUME NEW a \in Nat, NEW w \in {1, 2, 4, 8}, a % w = 0, a + w <= 8 * Chunks
    PROVE  /\ a \div 8 \in 0..(Chunks - 1)
           /\ Fits(8, a % 8, w)
           /\ a - (a % 8) \in Nat
           /\ a - (a % 8) + 8 <= 8 * Chunks
           /\ \A j \in 0..(w - 1) : (a + j) \div 8 = a \div 8 /\ (a + j) % 8 = (a % 8) + j
<1> DEFINE q == a \div 8
           p == a % 8
<1>1. q \in Nat /\ p \in 0..7 /\ a = 8 * q + p
  OBVIOUS
<1>2. p + w <= 8 /\ (w = 2 => p % 2 = 0) /\ (w = 4 => p % 4 = 0) /\ (w = 8 => p % 8 = 0)
  <2>1. CASE w = 1
    BY <1>1, <2>1
  <2>2. CASE w = 2
    BY <1>1, <2>2
  <2>3. CASE w = 4
    BY <1>1, <2>3
  <2>4. CASE w = 8
    BY <1>1, <2>4
  <2> QED BY <2>1, <2>2, <2>3, <2>4
<1>3. \A j \in 0..(w - 1) : (a + j) \div 8 = q /\ (a + j) % 8 = p + j
  <2> TAKE j \in 0..(w - 1)
  <2>1. j \in Nat /\ p + j \in 0..7 /\ a + j = 8 * q + (p + j)
    BY <1>1, <1>2
  <2> HIDE DEF q, p
  <2> QED BY <1>1, <2>1
<1>4. q \in 0..(Chunks - 1) /\ a - p \in Nat /\ a - p + 8 <= 8 * Chunks
  <2> HIDE DEF q, p
  <2> QED BY <1>1, <1>2, ChunksAssumption
<1> QED BY <1>1, <1>2, <1>3, <1>4 DEF Fits

\* with_chunk: an access inside one chunk of the inner layer.
LEMMA BaseChunk ==
    ASSUME NEW B, NEW F, BaseAnswers(B, F), NEW t \in Table, NEW m \in B, NEW a \in Nat,
           NEW w \in {1, 2, 4, 8}, a % w = 0, a + w <= 8 * Chunks
    PROVE  Loaded(with_chunk(base_missing, t, m, a, w), t, w, F, a, B)
<1> DEFINE c == a \div 8
           which == a % 8
           g == gran64_get(base_missing, m, t[c], a - which, which, w)
           r == with_chunk(base_missing, t, m, a, w)
<1> SUFFICES Loaded(r, t, w, F, a, B)
  OBVIOUS
<1>1. /\ c \in 0..(Chunks - 1) /\ Fits(8, which, w)
      /\ a - which \in Nat /\ a - which + 8 <= 8 * Chunks
      /\ \A j \in 0..(w - 1) : (a + j) \div 8 = c /\ (a + j) % 8 = which + j
  BY ZenonT(60), Place
<1>2. t[c] \in Gran64
  BY <1>1 DEF Table
<1>3. \A j \in 0..(w - 1) : a + j \in Addresses
  BY ChunksAssumption DEF Addresses
<1>4. \A j \in 0..(w - 1) : Over(t, F)[a + j] = Seen(byte64(t[c], which + j), F[a + j])
  BY <1>1, <1>3 DEF Over
<1>5. CASE t[c] = Absent
  <2>1. r.some = FALSE /\ r.t = t /\ r.m = m
    BY <1>5 DEF with_chunk, InChunk
  <2>2. \A j \in 0..(w - 1) : which + j \in 0..7
    BY <1>1 DEF Fits
  <2>3. \A j \in 0..(w - 1) : byte64(t[c], which + j) = NoByte
    BY <1>5, <2>2, Byte64
  <2> HIDE DEF r, c, which
  <2> QED BY ZenonT(60), <1>4, <2>1, <2>3 DEF Loaded, Seen
<1>6. CASE t[c] # Absent
  <2>1. /\ r.some = TRUE /\ r.v = g.v /\ r.t = [t EXCEPT ![c] = g.g] /\ r.m = g.m
    BY <1>6 DEF with_chunk, InChunk
  <2> HIDE DEF c, which
  <2> DEFINE b == a - which
  <2>2. b \in Nat /\ b + 8 <= 8 * Chunks /\ g = gran64_get(base_missing, m, t[c], b, which, w)
    BY SMTT(60), <1>1
  <2> HIDE DEF g, b
  <2>3. /\ g.v \in Value(w) /\ g.g \in Gran64 /\ g.m \in B
        /\ \A j \in 0..(w - 1) : g.v[j] = Seen(byte64(t[c], which + j), F[b + which + j])
        /\ \A i \in 0..7 : Seen(byte64(g.g, i), F[b + i]) = Seen(byte64(t[c], i), F[b + i])
    BY <1>1, <1>2, <2>2, BaseGet64
  <2> HIDE DEF r
  <2>4. which \in Nat /\ b + which = a
    BY <1>1 DEF Fits, b
  <2>5. \A j \in 0..(w - 1) : r.v[j] = Over(t, F)[a + j]
    BY <1>4, <2>1, <2>3, <2>4
  <2>6. r.t \in Table
    BY ZenonT(60), <2>1, <2>3 DEF Table
  <2>7. ASSUME NEW x \in Addresses
        PROVE  Over(r.t, F)[x] = Over(t, F)[x]
    <3>1. /\ x \div 8 \in 0..(Chunks - 1) /\ x % 8 \in 0..7
          /\ (x \div 8 = c => b + (x % 8) = x)
      BY ChunksAssumption DEF Addresses, b, c, which
    <3>2. CASE x \div 8 = c
      <4>1. r.t[x \div 8] = g.g
        BY <1>1, <2>1, <3>2 DEF Table
      <4>2. Seen(byte64(g.g, x % 8), F[x]) = Seen(byte64(t[c], x % 8), F[x])
        BY <2>3, <3>1, <3>2
      <4> QED BY <3>2, <4>1, <4>2 DEF Over
    <3>3. CASE x \div 8 # c
      <4>1. r.t[x \div 8] = t[x \div 8]
        BY <2>1, <3>1, <3>3 DEF Table
      <4> QED BY <4>1 DEF Over
    <3> QED BY <3>2, <3>3
  <2>8. Over(r.t, F) = Over(t, F)
    BY <2>7 DEF Over
  <2> QED BY Zenon, <2>1, <2>3, <2>5, <2>6, <2>8 DEF Loaded
<1> QED BY <1>5, <1>6

\* maybe_load_divided: two loads of half the size, one after the other.
LEMMA BaseParts ==
    ASSUME NEW B, NEW F, BaseAnswers(B, F), NEW t, NEW a \in Nat, NEW h \in {1, 2, 4},
           a + 2 * h <= 8 * Chunks, NEW r0, Loaded(r0, t, h, F, a, B),
           NEW r1, Loaded(r1, r0.t, h, F, a + h, B)
    PROVE  Loaded(assemble_parts(base_missing, r0, r1, a, h), t, 2 * h, F, a, B)
<1> DEFINE b0 == IF r0.some THEN [v |-> r0.v, m |-> r1.m] ELSE base_missing(r1.m, a, h)
           b1 == IF r1.some THEN [v |-> r1.v, m |-> b0.m] ELSE base_missing(b0.m, a + h, h)
           r == assemble_parts(base_missing, r0, r1, a, h)
           O == Over(t, F)
<1> SUFFICES Loaded(r, t, 2 * h, F, a, B)
  OBVIOUS
<1>1. /\ r0.some \in BOOLEAN /\ r1.some \in BOOLEAN /\ r1.t \in Table /\ r1.m \in B
      /\ Over(r0.t, F) = O /\ Over(r1.t, F) = O
  BY DEF Loaded
<1>2. a + h \in Nat /\ a + h <= 8 * Chunks /\ a + h + h <= 8 * Chunks /\ h \in {1, 2, 4, 8}
  BY SMTT(60), ChunksAssumption
<1>3. CASE ~r0.some /\ ~r1.some
  <2>1. r = r1
    BY SMTT(60), <1>3 DEF assemble_parts, second_part, both_parts, part
  <2>2. \A j \in 0..(h - 1) : O[a + j] = F[a + j] /\ O[a + h + j] = F[a + h + j]
    BY <1>1, <1>3 DEF Loaded
  <2>3. ASSUME NEW j \in 0..(2 * h - 1)
        PROVE  O[a + j] = F[a + j]
    <3>1. CASE j < h
      BY <2>2, <3>1
    <3>2. CASE j >= h
      <4>1. j - h \in 0..(h - 1) /\ a + h + (j - h) = a + j
        BY <3>2
      <4> QED BY <2>2, <4>1
    <3> QED BY <3>1, <3>2
  <2> HIDE DEF r, O
  <2> QED BY <1>1, <1>3, <2>1, <2>3 DEF Loaded, O
<1>4. CASE r0.some \/ r1.some
  <2>1. r = [some |-> TRUE, v |-> reassemble(b0.v, b1.v, h), t |-> r1.t, m |-> b1.m]
    BY Zenon, <1>4 DEF assemble_parts, second_part, both_parts, part
  <2>2. /\ b0.v \in Value(h) /\ b0.m \in B
        /\ \A j \in 0..(h - 1) : b0.v[j] = O[a + j]
    <3>1. CASE r0.some
      BY SMTT(60), <1>1, <3>1 DEF Loaded
    <3>2. CASE ~r0.some
      <4>1. Good(base_missing(r1.m, a, h), h, F, a, B)
        BY <1>1, <1>2 DEF BaseAnswers
      <4>2. \A j \in 0..(h - 1) : O[a + j] = F[a + j]
        BY Zenon, <3>2 DEF Loaded
      <4> QED BY <3>2, <4>1, <4>2 DEF Good
    <3> QED BY SMTT(60), <3>1, <3>2
  <2>3. /\ b1.v \in Value(h) /\ b1.m \in B
        /\ \A j \in 0..(h - 1) : b1.v[j] = O[a + h + j]
    <3> HIDE DEF b0
    <3>1. CASE r1.some
      BY ZenonT(60), <1>1, <2>2, <3>1 DEF Loaded
    <3>2. CASE ~r1.some
      <4>1. Good(base_missing(b0.m, a + h, h), h, F, a + h, B)
        BY <1>2, <2>2 DEF BaseAnswers
      <4>2. \A j \in 0..(h - 1) : O[a + h + j] = F[a + h + j]
        BY Zenon, <1>1, <3>2 DEF Loaded
      <4> QED BY ZenonT(60), <3>2, <4>1, <4>2 DEF Good
    <3> QED BY SMTT(60), <1>1, <3>1, <3>2
  <2> HIDE DEF b0, b1
  <2>4. /\ r.v \in Value(2 * h)
        /\ \A j \in 0..(2 * h - 1) : r.v[j] = IF j < h THEN b0.v[j] ELSE b1.v[j - h]
    <3> HIDE DEF r, O
    <3>1. h \in Nat
      OBVIOUS
    <3> QED BY Zenon, <2>1, <2>2, <2>3, <3>1, Reassembles
  <2>5. r.some = TRUE /\ r.t = r1.t /\ r.m = b1.m
    BY <2>1
  <2> HIDE DEF r, O
  <2>6. ASSUME NEW j \in 0..(2 * h - 1)
        PROVE  r.v[j] = O[a + j]
    <3>1. CASE j < h
      BY <2>2, <2>4, <3>1
    <3>2. CASE j >= h
      <4>1. j - h \in 0..(h - 1) /\ a + h + (j - h) = a + j
        BY <3>2
      <4> QED BY <2>3, <2>4, <3>2, <4>1
    <3> QED BY <3>1, <3>2
  <2> QED BY ZenonT(60), <1>1, <2>3, <2>4, <2>5, <2>6 DEF Loaded, O
<1> QED BY <1>3, <1>4

\* maybe_load_byte in the inner layer.
LEMMA BaseLoad1 ==
    ASSUME NEW B, NEW F, BaseAnswers(B, F), NEW t \in Table, NEW m \in B, NEW a \in Nat,
           a + 1 <= 8 * Chunks
    PROVE  Loaded(maybe_load_byte(base_missing, t, m, a), t, 1, F, a, B)
<1>1. a % 1 = 0
  OBVIOUS
<1> QED BY <1>1, BaseChunk DEF maybe_load_byte

\* maybe_load_short in the inner layer.
LEMMA BaseLoad2 ==
    ASSUME NEW B, NEW F, BaseAnswers(B, F), NEW t \in Table, NEW m \in B, NEW a \in Nat,
           a + 2 <= 8 * Chunks
    PROVE  Loaded(maybe_load_short(base_missing, t, m, a), t, 2, F, a, B)
<1> DEFINE r0 == maybe_load_byte(base_missing, t, m, a)
           r1 == maybe_load_byte(base_missing, r0.t, r0.m, a + 1)
<1>1. CASE a % 2 = 0
  BY <1>1, BaseChunk DEF maybe_load_short
<1>2. CASE a % 2 # 0
  <2>1. maybe_load_short(base_missing, t, m, a) = assemble_parts(base_missing, r0, r1, a, 1)
    BY <1>2 DEF maybe_load_short, maybe_load_divided, load_second
  <2>2. a + 1 \in Nat /\ a + 1 <= 8 * Chunks /\ a + 1 + 1 <= 8 * Chunks /\ a + 2 * 1 <= 8 * Chunks
    BY ChunksAssumption
  <2>3. Loaded(r0, t, 1, F, a, B)
    BY <2>2, BaseLoad1
  <2>4. Loaded(r1, r0.t, 1, F, a + 1, B)
    <3>1. r0.t \in Table /\ r0.m \in B
      BY <2>3 DEF Loaded
    <3> HIDE DEF r0
    <3> QED BY <2>2, <3>1, BaseLoad1
  <2> HIDE DEF r0, r1
  <2>5. Loaded(assemble_parts(base_missing, r0, r1, a, 1), t, 2 * 1, F, a, B)
    BY <2>2, <2>3, <2>4, BaseParts
  <2>6. 2 * 1 = 2
    OBVIOUS
  <2> QED BY <2>1, <2>5, <2>6
<1> QED BY <1>1, <1>2

\* maybe_load_word in the inner layer.
LEMMA BaseLoad4 ==
    ASSUME NEW B, NEW F, BaseAnswers(B, F), NEW t \in Table, NEW m \in B, NEW a \in Nat,
           a + 4 <= 8 * Chunks
    PROVE  Loaded(maybe_load_word(base_missing, t, m, a), t, 4, F, a, B)
<1> DEFINE r0 == maybe_load_short(base_missing, t, m, a)
           r1 == maybe_load_short(base_missing, r0.t, r0.m, a + 2)
<1>1. CASE a % 4 = 0
  BY <1>1, BaseChunk DEF maybe_load_word
<1>2. CASE a % 4 # 0
  <2>1. maybe_load_word(base_missing, t, m, a) = assemble_parts(base_missing, r0, r1, a, 2)
    BY <1>2 DEF maybe_load_word, maybe_load_divided, load_second
  <2>2. a + 2 \in Nat /\ a + 2 <= 8 * Chunks /\ a + 2 + 2 <= 8 * Chunks /\ a + 2 * 2 <= 8 * Chunks
    BY ChunksAssumption
  <2>3. Loaded(r0, t, 2, F, a, B)
    BY <2>2, BaseLoad2
  <2>4. Loaded(r1, r0.t, 2, F, a + 2, B)
    <3>1. r0.t \in Table /\ r0.m \in B
      BY <2>3 DEF Loaded
    <3> HIDE DEF r0
    <3> QED BY <2>2, <3>1, BaseLoad2
  <2> HIDE DEF r0, r1
  <2>5. Loaded(assemble_parts(base_missing, r0, r1, a, 2), t, 2 * 2, F, a, B)
    BY <2>2, <2>3, <2>4, BaseParts
  <2>6. 2 * 2 = 4
    OBVIOUS
  <2> QED BY <2>1, <2>5, <2>6
<1> QED BY <1>1, <1>2

\* maybe_load_long in the inner layer.
LEMMA BaseLoad8 ==
    ASSUME NEW B, NEW F, BaseAnswers(B, F), NEW t \in Table, NEW m \in B, NEW a \in Nat,
           a + 8 <= 8 * Chunks
    PROVE  Loaded(maybe_load_long(base_missing, t, m, a), t, 8, F, a, B)
<1> DEFINE r0 == maybe_load_word(base_missing, t, m, a)
           r1 == maybe_load_word(base_missing, r0.t, r0.m, a + 4)
<1>1. CASE a % 8 = 0
  BY <1>1, BaseChunk DEF maybe_load_long
<1>2. CASE a % 8 # 0
  <2>1. maybe_load_long(base_missing, t, m, a) = assemble_parts(base_missing, r0, r1, a, 4)
    BY <1>2 DEF maybe_load_long, maybe_load_divided, load_second
  <2>2. a + 4 \in Nat /\ a + 4 <= 8 * Chunks /\ a + 4 + 4 <= 8 * Chunks /\ a + 2 * 4 <= 8 * Chunks
    BY ChunksAssumption
  <2>3. Loaded(r0, t, 4, F, a, B)
    BY <2>2, BaseLoad4
  <2>4. Loaded(r1, r0.t, 4, F, a + 4, B)
    <3>1. r0.t \in Table /\ r0.m \in B
      BY <2>3 DEF Loaded
    <3> HIDE DEF r0
    <3> QED BY <2>2, <3>1, BaseLoad4
  <2> HIDE DEF r0, r1
  <2>5. Loaded(assemble_parts(base_missing, r0, r1, a, 4), t, 2 * 4, F, a, B)
    BY <2>2, <2>3, <2>4, BaseParts
  <2>6. 2 * 4 = 8
    OBVIOUS
  <2> QED BY <2>1, <2>5, <2>6
<1> QED BY <1>1, <1>2

\* Loads of every size in the inner layer.
LEMMA BaseLoads ==
    ASSUME NEW B, NEW F, BaseAnswers(B, F), NEW t \in Table, NEW m \in B, NEW a \in Nat,
           NEW w \in {1, 2, 4, 8}, a + w <= 8 * Chunks
    PROVE  Loaded(maybe_load(base_missing, t, m, a, w), t, w, F, a, B)
  BY Zenon, BaseLoad1, BaseLoad2, BaseLoad4, BaseLoad8 DEF maybe_load

\* with_chunk: an access inside one chunk of the outer layer.
LEMMA InnerChunk ==
    ASSUME NEW B, NEW F, InnerAnswers(B, F), NEW t \in Table, NEW m \in B, NEW a \in Nat,
           NEW w \in {1, 2, 4, 8}, a % w = 0, a + w <= 8 * Chunks
    PROVE  Loaded(with_chunk(inner_load, t, m, a, w), t, w, F, a, B)
<1> DEFINE c == a \div 8
           which == a % 8
           g == gran64_get(inner_load, m, t[c], a - which, which, w)
           r == with_chunk(inner_load, t, m, a, w)
<1> SUFFICES Loaded(r, t, w, F, a, B)
  OBVIOUS
<1>1. /\ c \in 0..(Chunks - 1) /\ Fits(8, which, w)
      /\ a - which \in Nat /\ a - which + 8 <= 8 * Chunks
      /\ \A j \in 0..(w - 1) : (a + j) \div 8 = c /\ (a + j) % 8 = which + j
  BY Zenon, Place
<1>2. t[c] \in Gran64
  BY <1>1 DEF Table
<1>3. \A j \in 0..(w - 1) : a + j \in Addresses
  BY ChunksAssumption DEF Addresses
<1>4. \A j \in 0..(w - 1) : Over(t, F)[a + j] = Seen(byte64(t[c], which + j), F[a + j])
  BY <1>1, <1>3 DEF Over
<1>5. CASE t[c] = Absent
  <2>1. r.some = FALSE /\ r.t = t /\ r.m = m
    BY <1>5 DEF with_chunk, InChunk
  <2>2. \A j \in 0..(w - 1) : which + j \in 0..7
    BY <1>1 DEF Fits
  <2>3. \A j \in 0..(w - 1) : byte64(t[c], which + j) = NoByte
    BY <1>5, <2>2, Byte64
  <2> HIDE DEF r, c, which
  <2> QED BY Zenon, <1>4, <2>1, <2>3 DEF Loaded, Seen
<1>6. CASE t[c] # Absent
  <2>1. /\ r.some = TRUE /\ r.v = g.v /\ r.t = [t EXCEPT ![c] = g.g] /\ r.m = g.m
    BY <1>6 DEF with_chunk, InChunk
  <2> HIDE DEF c, which
  <2> DEFINE b == a - which
  <2>2. b \in Nat /\ b + 8 <= 8 * Chunks /\ g = gran64_get(inner_load, m, t[c], b, which, w)
    BY <1>1
  <2> HIDE DEF g, b
  <2>3. /\ g.v \in Value(w) /\ g.g \in Gran64 /\ g.m \in B
        /\ \A j \in 0..(w - 1) : g.v[j] = Seen(byte64(t[c], which + j), F[b + which + j])
        /\ \A i \in 0..7 : Seen(byte64(g.g, i), F[b + i]) = Seen(byte64(t[c], i), F[b + i])
    BY <1>1, <1>2, <2>2, InnerGet64
  <2> HIDE DEF r
  <2>4. which \in Nat /\ b + which = a
    BY <1>1 DEF Fits, b
  <2>5. \A j \in 0..(w - 1) : r.v[j] = Over(t, F)[a + j]
    BY <1>4, <2>1, <2>3, <2>4
  <2>6. r.t \in Table
    BY Zenon, <2>1, <2>3 DEF Table
  <2>7. ASSUME NEW x \in Addresses
        PROVE  Over(r.t, F)[x] = Over(t, F)[x]
    <3>1. /\ x \div 8 \in 0..(Chunks - 1) /\ x % 8 \in 0..7
          /\ (x \div 8 = c => b + (x % 8) = x)
      BY ChunksAssumption DEF Addresses, b, c, which
    <3>2. CASE x \div 8 = c
      <4>1. r.t[x \div 8] = g.g
        BY <1>1, <2>1, <3>2 DEF Table
      <4>2. Seen(byte64(g.g, x % 8), F[x]) = Seen(byte64(t[c], x % 8), F[x])
        BY <2>3, <3>1, <3>2
      <4> QED BY <3>2, <4>1, <4>2 DEF Over
    <3>3. CASE x \div 8 # c
      <4>1. r.t[x \div 8] = t[x \div 8]
        BY <2>1, <3>1, <3>3 DEF Table
      <4> QED BY <4>1 DEF Over
    <3> QED BY <3>2, <3>3
  <2>8. Over(r.t, F) = Over(t, F)
    BY <2>7 DEF Over
  <2> QED BY Zenon, <2>1, <2>3, <2>5, <2>6, <2>8 DEF Loaded
<1> QED BY <1>5, <1>6

\* maybe_load_divided in the outer layer: the first load may change the inner
\* one before the second asks it.
LEMMA InnerParts ==
    ASSUME NEW B, NEW F, InnerAnswers(B, F), NEW t, NEW a \in Nat, NEW h \in {1, 2, 4},
           a + 2 * h <= 8 * Chunks, NEW r0, Loaded(r0, t, h, F, a, B),
           NEW r1, Loaded(r1, r0.t, h, F, a + h, B)
    PROVE  Loaded(assemble_parts(inner_load, r0, r1, a, h), t, 2 * h, F, a, B)
<1> DEFINE b0 == IF r0.some THEN [v |-> r0.v, m |-> r1.m] ELSE inner_load(r1.m, a, h)
           b1 == IF r1.some THEN [v |-> r1.v, m |-> b0.m] ELSE inner_load(b0.m, a + h, h)
           r == assemble_parts(inner_load, r0, r1, a, h)
           O == Over(t, F)
<1> SUFFICES Loaded(r, t, 2 * h, F, a, B)
  OBVIOUS
<1>1. /\ r0.some \in BOOLEAN /\ r1.some \in BOOLEAN /\ r1.t \in Table /\ r1.m \in B
      /\ Over(r0.t, F) = O /\ Over(r1.t, F) = O
  BY DEF Loaded
<1>2. a + h \in Nat /\ a + h <= 8 * Chunks /\ a + h + h <= 8 * Chunks /\ h \in {1, 2, 4, 8}
  BY ChunksAssumption
<1>3. CASE ~r0.some /\ ~r1.some
  <2>1. r = r1
    BY <1>3 DEF assemble_parts, second_part, both_parts, part
  <2>2. \A j \in 0..(h - 1) : O[a + j] = F[a + j] /\ O[a + h + j] = F[a + h + j]
    BY <1>1, <1>3 DEF Loaded
  <2>3. ASSUME NEW j \in 0..(2 * h - 1)
        PROVE  O[a + j] = F[a + j]
    <3>1. CASE j < h
      BY <2>2, <3>1
    <3>2. CASE j >= h
      <4>1. j - h \in 0..(h - 1) /\ a + h + (j - h) = a + j
        BY <3>2
      <4> QED BY <2>2, <4>1
    <3> QED BY <3>1, <3>2
  <2> HIDE DEF r, O
  <2> QED BY <1>1, <1>3, <2>1, <2>3 DEF Loaded, O
<1>4. CASE r0.some \/ r1.some
  <2>1. r = [some |-> TRUE, v |-> reassemble(b0.v, b1.v, h), t |-> r1.t, m |-> b1.m]
    BY <1>4 DEF assemble_parts, second_part, both_parts, part
  <2>2. /\ b0.v \in Value(h) /\ b0.m \in B
        /\ \A j \in 0..(h - 1) : b0.v[j] = O[a + j]
    <3>1. CASE r0.some
      BY <1>1, <3>1 DEF Loaded
    <3>2. CASE ~r0.some
      <4>1. Good(inner_load(r1.m, a, h), h, F, a, B)
        BY <1>1, <1>2 DEF InnerAnswers
      <4>2. \A j \in 0..(h - 1) : O[a + j] = F[a + j]
        BY Zenon, <3>2 DEF Loaded
      <4> QED BY <3>2, <4>1, <4>2 DEF Good
    <3> QED BY <3>1, <3>2
  <2>3. /\ b1.v \in Value(h) /\ b1.m \in B
        /\ \A j \in 0..(h - 1) : b1.v[j] = O[a + h + j]
    <3> HIDE DEF b0
    <3>1. CASE r1.some
      BY Zenon, <1>1, <2>2, <3>1 DEF Loaded
    <3>2. CASE ~r1.some
      <4>1. Good(inner_load(b0.m, a + h, h), h, F, a + h, B)
        BY <1>2, <2>2 DEF InnerAnswers
      <4>2. \A j \in 0..(h - 1) : O[a + h + j] = F[a + h + j]
        BY Zenon, <1>1, <3>2 DEF Loaded
      <4> QED BY Zenon, <3>2, <4>1, <4>2 DEF Good
    <3> QED BY <1>1, <3>1, <3>2
  <2> HIDE DEF b0, b1
  <2>4. /\ r.v \in Value(2 * h)
        /\ \A j \in 0..(2 * h - 1) : r.v[j] = IF j < h THEN b0.v[j] ELSE b1.v[j - h]
    <3> HIDE DEF r, O
    <3>1. h \in Nat
      OBVIOUS
    <3> QED BY Zenon, <2>1, <2>2, <2>3, <3>1, Reassembles
  <2>5. r.some = TRUE /\ r.t = r1.t /\ r.m = b1.m
    BY <2>1
  <2> HIDE DEF r, O
  <2>6. ASSUME NEW j \in 0..(2 * h - 1)
        PROVE  r.v[j] = O[a + j]
    <3>1. CASE j < h
      BY <2>2, <2>4, <3>1
    <3>2. CASE j >= h
      <4>1. j - h \in 0..(h - 1) /\ a + h + (j - h) = a + j
        BY <3>2
      <4> QED BY <2>3, <2>4, <3>2, <4>1
    <3> QED BY <3>1, <3>2
  <2> QED BY Zenon, <1>1, <2>3, <2>4, <2>5, <2>6 DEF Loaded, O
<1> QED BY <1>3, <1>4

\* maybe_load_byte in the outer layer.
LEMMA InnerLoad1 ==
    ASSUME NEW B, NEW F, InnerAnswers(B, F), NEW t \in Table, NEW m \in B, NEW a \in Nat,
           a + 1 <= 8 * Chunks
    PROVE  Loaded(maybe_load_byte(inner_load, t, m, a), t, 1, F, a, B)
<1>1. a % 1 = 0
  OBVIOUS
<1> QED BY <1>1, InnerChunk DEF maybe_load_byte

\* maybe_load_short in the outer layer.
LEMMA InnerLoad2 ==
    ASSUME NEW B, NEW F, InnerAnswers(B, F), NEW t \in Table, NEW m \in B, NEW a \in Nat,
           a + 2 <= 8 * Chunks
    PROVE  Loaded(maybe_load_short(inner_load, t, m, a), t, 2, F, a, B)
<1> DEFINE r0 == maybe_load_byte(inner_load, t, m, a)
           r1 == maybe_load_byte(inner_load, r0.t, r0.m, a + 1)
<1>1. CASE a % 2 = 0
  BY <1>1, InnerChunk DEF maybe_load_short
<1>2. CASE a % 2 # 0
  <2>1. maybe_load_short(inner_load, t, m, a) = assemble_parts(inner_load, r0, r1, a, 1)
    BY <1>2 DEF maybe_load_short, maybe_load_divided, load_second
  <2>2. a + 1 \in Nat /\ a + 1 <= 8 * Chunks /\ a + 1 + 1 <= 8 * Chunks /\ a + 2 * 1 <= 8 * Chunks
    BY ChunksAssumption
  <2>3. Loaded(r0, t, 1, F, a, B)
    BY <2>2, InnerLoad1
  <2>4. Loaded(r1, r0.t, 1, F, a + 1, B)
    <3>1. r0.t \in Table /\ r0.m \in B
      BY <2>3 DEF Loaded
    <3> HIDE DEF r0
    <3> QED BY <2>2, <3>1, InnerLoad1
  <2> HIDE DEF r0, r1
  <2>5. Loaded(assemble_parts(inner_load, r0, r1, a, 1), t, 2 * 1, F, a, B)
    BY <2>2, <2>3, <2>4, InnerParts
  <2>6. 2 * 1 = 2
    OBVIOUS
  <2> QED BY <2>1, <2>5, <2>6
<1> QED BY <1>1, <1>2

\* maybe_load_word in the outer layer.
LEMMA InnerLoad4 ==
    ASSUME NEW B, NEW F, InnerAnswers(B, F), NEW t \in Table, NEW m \in B, NEW a \in Nat,
           a + 4 <= 8 * Chunks
    PROVE  Loaded(maybe_load_word(inner_load, t, m, a), t, 4, F, a, B)
<1> DEFINE r0 == maybe_load_short(inner_load, t, m, a)
           r1 == maybe_load_short(inner_load, r0.t, r0.m, a + 2)
<1>1. CASE a % 4 = 0
  BY <1>1, InnerChunk DEF maybe_load_word
<1>2. CASE a % 4 # 0
  <2>1. maybe_load_word(inner_load, t, m, a) = assemble_parts(inner_load, r0, r1, a, 2)
    BY <1>2 DEF maybe_load_word, maybe_load_divided, load_second
  <2>2. a + 2 \in Nat /\ a + 2 <= 8 * Chunks /\ a + 2 + 2 <= 8 * Chunks /\ a + 2 * 2 <= 8 * Chunks
    BY ChunksAssumption
  <2>3. Loaded(r0, t, 2, F, a, B)
    BY <2>2, InnerLoad2
  <2>4. Loaded(r1, r0.t, 2, F, a + 2, B)
    <3>1. r0.t \in Table /\ r0.m \in B
      BY <2>3 DEF Loaded
    <3> HIDE DEF r0
    <3> QED BY <2>2, <3>1, InnerLoad2
  <2> HIDE DEF r0, r1
  <2>5. Loaded(assemble_parts(inner_load, r0, r1, a, 2), t, 2 * 2, F, a, B)
    BY <2>2, <2>3, <2>4, InnerParts
  <2>6. 2 * 2 = 4
    OBVIOUS
  <2> QED BY <2>1, <2>5, <2>6
<1> QED BY <1>1, <1>2

\* maybe_load_long in the outer layer.
LEMMA InnerLoad8 ==
    ASSUME NEW B, NEW F, InnerAnswers(B, F), NEW t \in Table, NEW m \in B, NEW a \in Nat,
           a + 8 <= 8 * Chunks
    PROVE  Loaded(maybe_load_long(inner_load, t, m, a), t, 8, F, a, B)
<1> DEFINE r0 == maybe_load_word(inner_load, t, m, a)
           r1 == maybe_load_word(inner_load, r0.t, r0.m, a + 4)
<1>1. CASE a % 8 = 0
  BY <1>1, InnerChunk DEF maybe_load_long
<1>2. CASE a % 8 # 0
  <2>1. maybe_load_long(inner_load, t, m, a) = assemble_parts(inner_load, r0, r1, a, 4)
    BY <1>2 DEF maybe_load_long, maybe_load_divided, load_second
  <2>2. a + 4 \in Nat /\ a + 4 <= 8 * Chunks /\ a + 4 + 4 <= 8 * Chunks /\ a + 2 * 4 <= 8 * Chunks
    BY ChunksAssumption
  <2>3. Loaded(r0, t, 4, F, a, B)
    BY <2>2, InnerLoad4
  <2>4. Loaded(r1, r0.t, 4, F, a + 4, B)
    <3>1. r0.t \in Table /\ r0.m \in B
      BY <2>3 DEF Loaded
    <3> HIDE DEF r0
    <3> QED BY <2>2, <3>1, InnerLoad4
  <2> HIDE DEF r0, r1
  <2>5. Loaded(assemble_parts(inner_load, r0, r1, a, 4), t, 2 * 4, F, a, B)
    BY <2>2, <2>3, <2>4, InnerParts
  <2>6. 2 * 4 = 8
    OBVIOUS
  <2> QED BY <2>1, <2>5, <2>6
<1> QED BY <1>1, <1>2

\* Loads of every size in the outer layer.
LEMMA InnerLoads ==
    ASSUME NEW B, NEW F, InnerAnswers(B, F), NEW t \in Table, NEW m \in B, NEW a \in Nat,
           NEW w \in {1, 2, 4, 8}, a + w <= 8 * Chunks
    PROVE  Loaded(maybe_load(inner_load, t, m, a, w), t, w, F, a, B)
  BY InnerLoad1, InnerLoad2, InnerLoad4, InnerLoad8 DEF maybe_load

-----------------------------------------------------------------------------
(* The three layers. *)

\* The states of mid in which the inner memory holds the bytes F.
Holding(F) == {m \in Table : Over(m, Concrete) = F}

\* The concrete memory answers with its bytes.
LEMMA ConcreteAnswers ==
    ASSUME base \in [Addresses -> Nat \cup {NoByte}]
    PROVE  BaseAnswers({Zero}, Concrete)
<1> SUFFICES ASSUME NEW a \in Nat, NEW w \in {1, 2, 4, 8}, a + w <= 8 * Chunks
             PROVE  Good(base_missing(Zero, a, w), w, Concrete, a, {Zero})
  BY Zenon DEF BaseAnswers
<1>1. /\ base_missing(Zero, a, w).v = base_load(a, w)
      /\ base_missing(Zero, a, w).m = Zero
  BY DEF base_missing
<1>2. ASSUME NEW j \in 0..(w - 1)
      PROVE  /\ a + j \in Addresses
             /\ base_load(a, w)[j] = Seen(base[a + j], Zero)
             /\ base_load(a, w)[j] \in Nat
  <2>1. a + j \in Addresses
    BY ChunksAssumption DEF Addresses
  <2>2. base[a + j] \in Nat \cup {NoByte}
    BY <2>1
  <2> QED BY <2>1, <2>2 DEF base_load, Seen, Zero
<1>3. base_load(a, w) \in Value(w)
  BY <1>2 DEF base_load, Value
<1> QED BY <1>1, <1>2, <1>3 DEF Good, Concrete

\* The bytes that a load puts into the trees of mid are the ones it found below.
LEMMA HoldingAnswers ==
    ASSUME base \in [Addresses -> Nat \cup {NoByte}], NEW F, ~snap1 => F = Concrete
    PROVE  InnerAnswers(Holding(F), F)
<1> SUFFICES ASSUME NEW m \in Holding(F), NEW a \in Nat, NEW w \in {1, 2, 4, 8},
                    a + w <= 8 * Chunks
             PROVE  Good(inner_load(m, a, w), w, F, a, Holding(F))
  BY DEF InnerAnswers
<1> DEFINE r == maybe_load(base_missing, m, Zero, a, w)
           below == base_load(a, w)
<1>1. BaseAnswers({Zero}, Concrete)
  BY ConcreteAnswers
<1>2. Good(base_missing(Zero, a, w), w, Concrete, a, {Zero})
  BY ZenonT(60), <1>1 DEF BaseAnswers
<1>3. below \in Value(w) /\ \A j \in 0..(w - 1) : below[j] = Concrete[a + j]
  BY <1>2 DEF Good, base_missing
<1>4. m \in Table /\ Over(m, Concrete) = F
  BY DEF Holding
<1>5. Loaded(r, m, w, Concrete, a, {Zero})
  BY <1>1, <1>4, BaseLoads
<1>6. CASE ~snap1
  <2>1. inner_load(m, a, w).v = below /\ inner_load(m, a, w).m = m
    BY ZenonT(60), <1>6 DEF inner_load, inner_answer, base_missing
  <2> HIDE DEF below
  <2> QED BY <1>3, <1>6, <2>1 DEF Good
<1>7. CASE snap1
  <2>1. /\ inner_load(m, a, w).v = (IF r.some THEN r.v ELSE below)
        /\ inner_load(m, a, w).m = r.t
    BY ZenonT(60), <1>7 DEF inner_load, inner_answer, base_missing
  <2> HIDE DEF below, r
  <2>2. r.t \in Holding(F)
    BY SMTT(60), <1>4, <1>5 DEF Loaded, Holding
  <2>3. CASE r.some
    BY Zenon, <1>4, <1>5, <2>1, <2>2, <2>3 DEF Loaded, Good
  <2>4. CASE ~r.some
    BY <1>3, <1>4, <1>5, <2>1, <2>2, <2>4 DEF Loaded, Good
  <2> QED BY <2>3, <2>4
<1> QED BY <1>6, <1>7

-----------------------------------------------------------------------------
(* Stores. *)

\* A store to the table t changes the bytes it names, whatever is below.
Stores(u, t, a, v, w) ==
    u \in Table /\ \A F : Over(u, F) = Written(Over(t, F), a, v, w)

\* store_common_fast: a store inside one chunk.
LEMMA StoreFast ==
    ASSUME NEW t \in Table, NEW a \in Nat, NEW w \in {1, 2, 4, 8}, a % w = 0,
           a + w <= 8 * Chunks, NEW v \in Value(w)
    PROVE  Stores(store_common_fast(t, a, v, w), t, a, v, w)
<1> DEFINE c == a \div 8
           which == a % 8
           g == gran64_put(t[c], which, v, w)
           u == store_common_fast(t, a, v, w)
<1> SUFFICES Stores(u, t, a, v, w)
  OBVIOUS
<1>1. c \in 0..(Chunks - 1) /\ Fits(8, which, w)
  BY Place
<1>2. t[c] \in Gran64
  BY <1>1 DEF Table
<1>3. /\ g \in Gran64
      /\ \A i \in 0..7 : byte64(g, i) =
            IF i \in which..(which + w - 1) THEN v[i - which] ELSE byte64(t[c], i)
  BY <1>1, <1>2, Put64
<1>4. u = [t EXCEPT ![c] = g]
  BY DEF store_common_fast
<1> HIDE DEF g, u
<1>5. u \in Table
  BY ZenonT(60), <1>3, <1>4 DEF Table
<1>6. ASSUME NEW F, NEW x \in Addresses
      PROVE  Over(u, F)[x] = Written(Over(t, F), a, v, w)[x]
  <2>1. /\ x \div 8 \in 0..(Chunks - 1) /\ x % 8 \in 0..7 /\ x \in Nat
        /\ x = 8 * (x \div 8) + (x % 8) /\ a = 8 * c + which /\ c \in Nat /\ which \in 0..7
    BY ChunksAssumption DEF Addresses
  <2>2. which + w <= 8
    BY <1>1 DEF Fits
  <2> HIDE DEF c, which
  <2>3. CASE x \div 8 = c
    <3>1. u[x \div 8] = g
      BY <1>1, <1>4, <2>3 DEF Table
    <3>2. (x \in a..(a + w - 1) <=> x % 8 \in which..(which + w - 1)) /\ x - a = (x % 8) - which
      BY <2>1, <2>3
    <3>3. CASE x \in a..(a + w - 1)
      <4>1. byte64(g, x % 8) = v[x - a]
        BY <1>3, <2>1, <3>2, <3>3
      <4>2. x - a \in 0..(w - 1)
        BY <3>3
      <4>3. v[x - a] # NoByte
        BY SMTT(60), <4>2 DEF Value, NoByte
      <4> QED BY <3>1, <3>3, <4>1, <4>3 DEF Over, Written, Seen
    <3>4. CASE x \notin a..(a + w - 1)
      <4>1. byte64(g, x % 8) = byte64(t[c], x % 8)
        BY SMTT(60), <1>3, <2>1, <3>2, <3>4
      <4> QED BY <2>3, <3>1, <3>4, <4>1 DEF Over, Written
    <3> QED BY <3>3, <3>4
  <2>4. CASE x \div 8 # c
    <3>1. u[x \div 8] = t[x \div 8]
      BY <1>4, <2>1, <2>4 DEF Table
    <3>2. x \notin a..(a + w - 1)
      <4> DEFINE q == x \div 8
                 p == x % 8
      <4>1. q \in Nat /\ p \in 0..7 /\ x = 8 * q + p /\ q # c
        BY <2>1, <2>4
      <4> HIDE DEF q, p
      <4> QED BY <2>1, <2>2, <4>1
    <3> QED BY <3>1, <3>2 DEF Over, Written
  <2> QED BY <2>3, <2>4
<1>7. \A F : Over(u, F) = Written(Over(t, F), a, v, w)
  BY <1>6 DEF Over, Written
<1> QED BY <1>5, <1>7 DEF Stores

\* Two stores of half the size are one store.
LEMMA StoreParts ==
    ASSUME NEW t, NEW a \in Nat, NEW h \in {1, 2, 4}, NEW v \in Value(2 * h),
           NEW t0, Stores(t0, t, a, extract(v, 0, h), h),
           NEW t1, Stores(t1, t0, a + h, extract(v, h, h), h)
    PROVE  Stores(t1, t, a, v, 2 * h)
<1>1. ASSUME NEW f
      PROVE  Written(Written(f, a, extract(v, 0, h), h), a + h, extract(v, h, h), h)
             = Written(f, a, v, 2 * h)
  BY SMTT(60) DEF Written, extract, Addresses
<1> QED BY <1>1 DEF Stores

\* store_byte.
LEMMA Store1 ==
    ASSUME NEW t \in Table, NEW a \in Nat, a + 1 <= 8 * Chunks, NEW v \in Value(1)
    PROVE  Stores(store_byte(t, a, v), t, a, v, 1)
<1>1. a % 1 = 0
  OBVIOUS
<1> QED BY <1>1, StoreFast DEF store_byte

\* store_short.
LEMMA Store2 ==
    ASSUME NEW t \in Table, NEW a \in Nat, a + 2 <= 8 * Chunks, NEW v \in Value(2)
    PROVE  Stores(store_short(t, a, v), t, a, v, 2)
<1>1. CASE a % 2 = 0
  BY <1>1, StoreFast DEF store_short
<1>2. CASE a % 2 # 0
  <2> DEFINE t0 == store_byte(t, a, extract(v, 0, 1))
             t1 == store_byte(t0, a + 1, extract(v, 1, 1))
  <2>1. store_short(t, a, v) = t1
    BY <1>2 DEF store_short
  <2>2. /\ a + 1 \in Nat /\ a + 1 <= 8 * Chunks /\ a + 1 + 1 <= 8 * Chunks
        /\ v \in Value(2 * 1)
    BY ChunksAssumption
  <2>3. extract(v, 0, 1) \in Value(1) /\ extract(v, 1, 1) \in Value(1)
    BY DEF extract, Value
  <2>4. Stores(t0, t, a, extract(v, 0, 1), 1)
    BY <2>2, <2>3, Store1
  <2>5. t0 \in Table
    BY <2>4 DEF Stores
  <2> HIDE DEF t0
  <2>6. Stores(t1, t0, a + 1, extract(v, 1, 1), 1)
    BY <2>2, <2>3, <2>5, Store1
  <2> HIDE DEF t1
  <2>7. Stores(t1, t, a, v, 2 * 1)
    BY <2>2, <2>4, <2>6, StoreParts
  <2>8. 2 * 1 = 2
    OBVIOUS
  <2> QED BY <2>1, <2>7, <2>8
<1> QED BY <1>1, <1>2

\* store_word.
LEMMA Store4 ==
    ASSUME NEW t \in Table, NEW a \in Nat, a + 4 <= 8 * Chunks, NEW v \in Value(4)
    PROVE  Stores(store_word(t, a, v), t, a, v, 4)
<1>1. CASE a % 4 = 0
  BY <1>1, StoreFast DEF store_word
<1>2. CASE a % 4 # 0
  <2> DEFINE t0 == store_short(t, a, extract(v, 0, 2))
             t1 == store_short(t0, a + 2, extract(v, 2, 2))
  <2>1. store_word(t, a, v) = t1
    BY <1>2 DEF store_word
  <2>2. /\ a + 2 \in Nat /\ a + 2 <= 8 * Chunks /\ a + 2 + 2 <= 8 * Chunks
        /\ v \in Value(2 * 2)
    BY ChunksAssumption
  <2>3. extract(v, 0, 2) \in Value(2) /\ extract(v, 2, 2) \in Value(2)
    BY DEF extract, Value
  <2>4. Stores(t0, t, a, extract(v, 0, 2), 2)
    BY <2>2, <2>3, Store2
  <2>5. t0 \in Table
    BY <2>4 DEF Stores
  <2> HIDE DEF t0
  <2>6. Stores(t1, t0, a + 2, extract(v, 2, 2), 2)
    BY <2>2, <2>3, <2>5, Store2
  <2> HIDE DEF t1
  <2>7. Stores(t1, t, a, v, 2 * 2)
    BY <2>2, <2>4, <2>6, StoreParts
  <2>8. 2 * 2 = 4
    OBVIOUS
  <2> QED BY <2>1, <2>7, <2>8
<1> QED BY <1>1, <1>2

\* store_long.
LEMMA Store8 ==
    ASSUME NEW t \in Table, NEW a \in Nat, a + 8 <= 8 * Chunks, NEW v \in Value(8)
    PROVE  Stores(store_long(t, a, v), t, a, v, 8)
<1>1. CASE a % 8 = 0
  BY <1>1, StoreFast DEF store_long
<1>2. CASE a % 8 # 0
  <2> DEFINE t0 == store_word(t, a, extract(v, 0, 4))
             t1 == store_word(t0, a + 4, extract(v, 4, 4))
  <2>1. store_long(t, a, v) = t1
    BY <1>2 DEF store_long
  <2>2. /\ a + 4 \in Nat /\ a + 4 <= 8 * Chunks /\ a + 4 + 4 <= 8 * Chunks
        /\ v \in Value(2 * 4)
    BY ChunksAssumption
  <2>3. extract(v, 0, 4) \in Value(4) /\ extract(v, 4, 4) \in Value(4)
    BY DEF extract, Value
  <2>4. Stores(t0, t, a, extract(v, 0, 4), 4)
    BY <2>2, <2>3, Store4
  <2>5. t0 \in Table
    BY <2>4 DEF Stores
  <2> HIDE DEF t0
  <2>6. Stores(t1, t0, a + 4, extract(v, 4, 4), 4)
    BY <2>2, <2>3, <2>5, Store4
  <2> HIDE DEF t1
  <2>7. Stores(t1, t, a, v, 2 * 4)
    BY <2>2, <2>4, <2>6, StoreParts
  <2>8. 2 * 4 = 8
    OBVIOUS
  <2> QED BY <2>1, <2>7, <2>8
<1> QED BY <1>1, <1>2

\* Stores of every size.
LEMMA MemoryStores ==
    ASSUME NEW t \in Table, NEW a \in Nat, NEW w \in {1, 2, 4, 8}, a + w <= 8 * Chunks,
           NEW v \in Value(w)
    PROVE  Stores(store_value(t, a, v, w), t, a, v, w)
  BY Store1, Store2, Store4, Store8 DEF store_value

-----------------------------------------------------------------------------
(* The inductive invariant: a layer that is not in use is empty, and what   *)
(* was saved is what lies below top.                                        *)

MInv ==
    /\ base \in [Addresses -> Nat \cup {NoByte}]
    /\ mid \in Table
    /\ top \in Table
    /\ snap1 \in BOOLEAN
    /\ snap2 \in BOOLEAN
    /\ stores \in Nat
    /\ snap2 => snap1
    /\ ~snap1 => \A c \in 0..(Chunks - 1) : mid[c] = Absent
    /\ ~snap2 => \A c \in 0..(Chunks - 1) : top[c] = Absent
    /\ saved = Over(mid, Concrete)

\* An empty table shows what is below.
LEMMA EmptyTable ==
    ASSUME NEW t \in Table, \A c \in 0..(Chunks - 1) : t[c] = Absent,
           NEW F, F = [x \in Addresses |-> F[x]]
    PROVE  Over(t, F) = F
<1>1. ASSUME NEW x \in Addresses
      PROVE  Over(t, F)[x] = F[x]
  <2>1. x \div 8 \in 0..(Chunks - 1) /\ x % 8 \in 0..7
    BY ChunksAssumption DEF Addresses
  <2>2. byte64(t[x \div 8], x % 8) = NoByte
    BY <2>1, Byte64
  <2> QED BY <2>2 DEF Over, Seen
<1> QED BY <1>1 DEF Over

\* Concrete and the tables over bytes are functions on the addresses.
LEMMA Shapes ==
    /\ Concrete = [x \in Addresses |-> Concrete[x]]
    /\ \A t, F : Over(t, F) = [x \in Addresses |-> Over(t, F)[x]]
  BY DEF Concrete, Over

\* The inner layer over the concrete bytes, and the outer one over both.
LEMMA Layers ==
    ASSUME MInv
    PROVE  /\ ~snap1 => Over(mid, Concrete) = Concrete
           /\ ~snap2 => Over(top, saved) = saved
           /\ mid \in Holding(saved)
           /\ contents = Over(top, saved)
<1>1. ~snap1 => Over(mid, Concrete) = Concrete
  BY EmptyTable, Shapes DEF MInv
<1>2. saved = [x \in Addresses |-> saved[x]]
  BY Shapes DEF MInv
<1>3. ~snap2 => Over(top, saved) = saved
  BY <1>2, EmptyTable DEF MInv
<1> QED BY <1>1, <1>3 DEF MInv, Holding, contents

\* The accesses of the machine lie inside the memory.
LEMMA Accesses ==
    ASSUME NEW a \in Starts, NEW w \in Widths
    PROVE  a \in Nat /\ w \in {1, 2, 4, 8} /\ a + w <= 8 * Chunks /\ a \in Addresses
  BY AccessAssumption, ChunksAssumption DEF Addresses

\* A load returns the bytes of the whole memory and changes none of them.
LEMMA LoadKeeps ==
    ASSUME MInv, NEW a \in Starts, NEW w \in Widths, NEW r, r = load_value(top, mid, a, w)
    PROVE  /\ r.v = [i \in 0..(w - 1) |-> contents[a + i]]
           /\ r.t \in Table /\ Over(r.t, saved) = contents
           /\ r.m \in Holding(saved)
           /\ ~snap2 => r.t = top
           /\ ~snap1 /\ ~snap2 => r.m = mid
<1> DEFINE B == Holding(saved)
           u == maybe_load(inner_load, top, mid, a, w)
           n == IF snap2 THEN u.m ELSE mid
           below == inner_load(n, a, w)
<1>1. a \in Nat /\ w \in {1, 2, 4, 8} /\ a + w <= 8 * Chunks
  BY Accesses
<1>2. /\ base \in [Addresses -> Nat \cup {NoByte}] /\ top \in Table
      /\ ~snap1 => saved = Concrete
      /\ mid \in B
      /\ ~snap2 => Over(top, saved) = saved
      /\ contents = Over(top, saved)
      /\ snap1 \in BOOLEAN /\ snap2 \in BOOLEAN
  BY Layers DEF MInv
<1>3. InnerAnswers(B, saved)
  BY <1>2, HoldingAnswers
<1>4. Loaded(u, top, w, saved, a, B)
  <2> HIDE DEF B
  <2> QED BY SMTT(60), <1>1, <1>2, <1>3, InnerLoads
<1>5. r = IF snap2 /\ u.some THEN [v |-> u.v, t |-> u.t, m |-> u.m]
          ELSE [v |-> below.v, t |-> IF snap2 THEN u.t ELSE top, m |-> below.m]
  BY ZenonT(60) DEF load_value, outer_answer, outer_below
<1>6. ~snap1 => below.m = n
  BY ZenonT(60) DEF inner_load, inner_answer, base_missing
<1> HIDE DEF u, B
<1>7. n \in B
  BY <1>2, <1>4 DEF Loaded
<1>8. Good(below, w, saved, a, B)
  <2> HIDE DEF n
  <2> QED BY Zenon, <1>1, <1>3, <1>7 DEF InnerAnswers
<1> HIDE DEF below
<1>9. /\ r.v \in Value(w)
      /\ \A j \in 0..(w - 1) : r.v[j] = contents[a + j]
      /\ r.t \in Table /\ Over(r.t, saved) = contents
      /\ r.m \in B
      /\ ~snap2 => r.t = top
      /\ ~snap1 /\ ~snap2 => r.m = mid
  <2>1. CASE snap2 /\ u.some
    <3>1. r.v = u.v /\ r.t = u.t /\ r.m = u.m
      BY <1>5, <2>1
    <3> QED BY Zenon, <1>2, <1>4, <2>1, <3>1 DEF Loaded
  <2>2. CASE snap2 /\ ~u.some
    <3>1. r.v = below.v /\ r.t = u.t /\ r.m = below.m
      BY SMTT(60), <1>5, <2>2
    <3> QED BY Zenon, <1>2, <1>4, <1>8, <2>2, <3>1 DEF Loaded, Good
  <2>3. CASE ~snap2
    <3>1. r.v = below.v /\ r.t = top /\ r.m = below.m /\ n = mid
      BY <1>5, <2>3
    <3> QED BY SMTT(60), <1>2, <1>6, <1>8, <2>3, <3>1 DEF Good
  <2> QED BY Zenon, <1>2, <1>4, <2>1, <2>2, <2>3 DEF Loaded
<1>10. r.v = [i \in 0..(w - 1) |-> contents[a + i]]
  BY ZenonT(60), <1>9 DEF Value
<1> QED BY <1>9, <1>10 DEF B

\* What a store does to them: the bytes it names change in the layer in use.
LEMMA StoreKeeps ==
    ASSUME MInv, NEW a \in Starts, NEW w \in Widths, store(a, w)
    PROVE  /\ MInv'
           /\ contents' = Written(contents, a, Bytes(stores + 1, w), w)
           /\ ~snap2 => saved' = contents'
<1> DEFINE v == Bytes(stores + 1, w)
<1>1. a \in Nat /\ w \in {1, 2, 4, 8} /\ a + w <= 8 * Chunks
  BY Accesses
<1>2. v \in Value(w)
  BY <1>1 DEF Bytes, Value, MInv
<1>3. /\ ~snap1 => Over(mid, Concrete) = Concrete
      /\ ~snap2 => Over(top, saved) = saved
      /\ contents = Over(top, saved)
  BY Layers
<1>4. UNCHANGED <<snap1, snap2>> /\ stores' \in Nat
  BY DEF store, MInv
<1> HIDE DEF v
<1>5. ASSUME NEW f
      PROVE  Written(f, a, v, w) = [x \in Addresses |-> Written(f, a, v, w)[x]]
  BY DEF Written
<1>6. CASE snap2
  <2>1. UNCHANGED <<base, mid, saved>> /\ top' = store_value(top, a, v, w)
    BY <1>6 DEF store, v
  <2>2. Stores(top', top, a, v, w)
    BY <1>1, <1>2, <2>1, MemoryStores DEF MInv
  <2>3. MInv'
    BY <1>4, <1>6, <2>1, <2>2 DEF MInv, Stores, Concrete
  <2>4. contents' = Over(top', saved')
    BY <2>3 DEF MInv, contents
  <2> QED BY SMTT(60), <1>3, <1>6, <2>1, <2>2, <2>3, <2>4 DEF Stores, v
<1>7. CASE ~snap2 /\ snap1
  <2>1. /\ UNCHANGED <<base, top>> /\ mid' = store_value(mid, a, v, w)
        /\ saved' = Written(saved, a, v, w)
    BY <1>7 DEF store, v
  <2>2. Stores(mid', mid, a, v, w)
    BY SMTT(60), <1>1, <1>2, <2>1, MemoryStores DEF MInv
  <2>3. MInv'
    BY SMTT(60), <1>4, <1>7, <2>1, <2>2 DEF MInv, Stores, Concrete
  <2>4. contents' = Over(top, saved')
    BY <2>1, <2>3 DEF MInv, contents
  <2>5. Over(top, saved') = saved'
    BY <1>5, <1>7, <2>1, EmptyTable DEF MInv
  <2> QED BY <1>3, <1>7, <2>1, <2>3, <2>4, <2>5 DEF v
<1>8. CASE ~snap2 /\ ~snap1
  <2>1. /\ UNCHANGED <<mid, top>> /\ base' = Written(base, a, v, w)
        /\ saved' = Written(saved, a, v, w)
    BY <1>8 DEF store, v
  <2>2. \A x \in Addresses : x \in a..(a + w - 1) => v[x - a] \in Nat
    BY <1>1, <1>2 DEF Value, Addresses
  <2>3. base' \in [Addresses -> Nat \cup {NoByte}]
    BY <2>1, <2>2 DEF MInv, Written
  <2>4. Concrete' = Written(Concrete, a, v, w)
    BY <2>1, <2>2 DEF Concrete, Written, Seen, NoByte
  <2>5. Over(mid', Concrete') = Concrete'
    BY <1>5, <1>8, <2>1, <2>4, EmptyTable DEF MInv
  <2>6. saved = Concrete
    BY <1>3, <1>8 DEF MInv
  <2>7. MInv'
    BY SMTT(60), <1>4, <1>8, <2>1, <2>3, <2>4, <2>5, <2>6 DEF MInv
  <2>8. contents' = Over(top, saved')
    BY <2>1, <2>7 DEF MInv, contents
  <2>9. Over(top, saved') = saved'
    BY <1>5, <1>8, <2>1, EmptyTable DEF MInv
  <2> QED BY <1>3, <1>8, <2>1, <2>7, <2>8, <2>9 DEF v
<1> QED BY <1>6, <1>7, <1>8 DEF MInv

\* Initially nothing is in any layer.
LEMMA InitLayers == MInit => MInv /\ contents = saved
<1> SUFFICES ASSUME MInit
             PROVE  MInv /\ contents = saved
  OBVIOUS
<1>1. mid \in Table /\ top \in Table
  BY Gran64Cases DEF MInit, Table
<1>2. base \in [Addresses -> Nat \cup {NoByte}]
  BY DEF MInit
<1>3. saved = Concrete
  BY DEF MInit, Concrete, Seen
<1>4. Over(mid, Concrete) = Concrete
  BY Zenon, <1>1, EmptyTable, Shapes DEF MInit
<1>5. Over(top, Concrete) = Concrete
  BY ZenonT(60), <1>1, EmptyTable, Shapes DEF MInit
<1> QED BY Zenon, <1>1, <1>2, <1>3, <1>4, <1>5 DEF MInit, MInv, contents

\* Every step keeps the invariant and is a step of the flat memory.
LEMMA NextLayers ==
    ASSUME MInv, [MNext]_mvars
    PROVE  MInv' /\ [Flat!Step]_(Flat!vars)
<1>1. ASSUME NEW a \in Starts, NEW w \in Widths, store(a, w)
      PROVE  MInv' /\ Flat!Step
  <2>1. /\ MInv'
        /\ contents' = Written(contents, a, Bytes(stores + 1, w), w)
        /\ ~snap2 => saved' = contents'
    BY <1>1, StoreKeeps
  <2>2. stores' = stores + 1 /\ snap2' = snap2 /\ (snap2 => saved' = saved)
    BY <1>1 DEF store
  <2>3. DOMAIN contents = Addresses /\ a \in Addresses
    BY SMTT(60), Accesses DEF contents, Over
  <2>4. Flat!Write(a, w)
    BY <2>1, <2>2, <2>3 DEF Flat!Write, Written, MInv
  <2> QED BY <2>1, <2>3, <2>4 DEF Flat!Step
<1>2. ASSUME NEW a \in Starts, NEW w \in Widths, load(a, w)
      PROVE  MInv' /\ UNCHANGED Flat!vars
  <2> DEFINE r == load_value(top, mid, a, w)
  <2>1. /\ r.t \in Table /\ Over(r.t, saved) = contents
        /\ r.m \in Holding(saved)
        /\ ~snap2 => r.t = top
        /\ ~snap1 /\ ~snap2 => r.m = mid
    BY ZenonT(60), LoadKeeps
  <2>2. /\ mid' = r.m /\ top' = r.t
        /\ UNCHANGED <<base, snap1, snap2, stores, resets, saved>>
    BY <1>2 DEF load
  <2> HIDE DEF r
  <2>3. mid' \in Table /\ Over(mid', Concrete) = saved
    BY Zenon, <2>1, <2>2 DEF Holding
  <2>4. Concrete' = Concrete
    BY <2>2 DEF Concrete
  <2>5. MInv'
    BY Zenon, <2>1, <2>2, <2>3, <2>4 DEF MInv
  <2>6. contents' = contents
    BY SMTT(60), <2>1, <2>2, <2>5 DEF MInv, contents
  <2> QED BY <2>2, <2>5, <2>6 DEF Flat!vars
<1>3. ASSUME start_symbolic
      PROVE  MInv' /\ UNCHANGED Flat!vars
  BY <1>3 DEF start_symbolic, MInv, Flat!vars, contents, Concrete
<1>4. ASSUME make_snap
      PROVE  MInv' /\ Flat!Step
  <2>1. MInv'
    BY <1>4 DEF make_snap, MInv, Concrete
  <2>2. Flat!Save
    BY <1>4 DEF make_snap, Flat!Save, contents, Concrete
  <2> QED BY <2>1, <2>2 DEF Flat!Step
<1>5. ASSUME reset_memory
      PROVE  MInv' /\ Flat!Step
  <2>1. /\ snap2 /\ UNCHANGED <<base, mid, snap1, snap2, stores, saved>>
        /\ top' = [c \in 0..(Chunks - 1) |-> Absent]
    BY <1>5 DEF reset_memory, MInv, Table
  <2>2. top' \in Table
    BY <2>1, Gran64Cases DEF Table
  <2>3. MInv'
    BY <2>1, <2>2 DEF MInv, Concrete
  <2>4. Over(top', saved') = saved'
    BY ZenonT(60), <2>1, <2>2, EmptyTable, Shapes DEF MInv
  <2>5. contents' = saved
    BY <2>1, <2>3, <2>4 DEF MInv, contents
  <2>6. Flat!Restore
    BY SMTT(60), <2>1, <2>5 DEF Flat!Restore
  <2> QED BY <2>3, <2>6 DEF Flat!Step
<1>6. ASSUME UNCHANGED mvars
      PROVE  MInv' /\ UNCHANGED Flat!vars
  BY <1>6 DEF mvars, MInv, Flat!vars, contents, Concrete
<1> QED BY <1>1, <1>2, <1>3, <1>4, <1>5, <1>6 DEF MNext

-----------------------------------------------------------------------------

\* A layer not in use is empty and what was saved lies below top, always.
THEOREM LayersHold == MSpec => []MInv
<1>1. MInit => MInv
  BY InitLayers
<1>2. MInv /\ [MNext]_mvars => MInv'
  BY NextLayers
<1> QED BY <1>1, <1>2, PTL DEF MSpec

\* Every load returns the bytes of the flat memory, whatever its size and
\* alignment and however stores and loads of other sizes have split the chunks
\* (maybe_load, gran64_get and the methods of the snapshot memories).
THEOREM LoadsReturnBytes == MSpec => []LoadsRight
<1>1. MInv => LoadsRight
  BY LoadKeeps DEF LoadsRight
<1> QED BY <1>1, LayersHold, PTL

\* The layers implement the flat memory: a store changes the bytes it names, a
\* load changes none, and reset brings back the bytes make_snap saw.
THEOREM LayersAreFlat == MSpec => BehavesAsFlat
<1>1. MInit => Flat!Init
  BY InitLayers DEF MInit, Flat!Init
<1>2. MInv /\ [MNext]_mvars => [Flat!Step]_(Flat!vars)
  BY NextLayers
<1> QED BY <1>1, <1>2, LayersHold, PTL DEF MSpec, BehavesAsFlat, Flat!Spec
=============================================================================
