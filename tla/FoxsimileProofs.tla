-------------------------- MODULE FoxsimileProofs --------------------------
(***************************************************************************)
(* Proofs about SpaceWirePacket and Foxsimile.                             *)
(***************************************************************************)
EXTENDS Foxsimile, SequenceTheorems, WellFoundedInduction, TLAPS

-----------------------------------------------------------------------------
(* Numbers and bytes.                                                      *)

\* The four bytes of a number, the highest one first.
Byte1(n) == (n \div 16777216) % 256
Byte2(n) == (n \div 65536) % 256
Byte3(n) == (n \div 256) % 256
Byte4(n) == n % 256

LEMMA BytesOf ==
  ASSUME NEW n \in Nat
  PROVE  Byte1(n) \in Byte /\ Byte2(n) \in Byte /\ Byte3(n) \in Byte /\ Byte4(n) \in Byte
BY SMT DEF Byte, Byte1, Byte2, Byte3, Byte4

LEMMA SomeBytes ==
  0 \in Byte /\ 1 \in Byte /\ 77 \in Byte /\ \A i \in Byte : (i % 4) + 8 \in Byte
BY DEF Byte

LEMMA ThreeElements ==
  ASSUME NEW f \in [1 .. 3 -> Byte]
  PROVE  f = <<f[1], f[2], f[3]>>
OBVIOUS

LEMMA FourElements ==
  ASSUME NEW f \in [1 .. 4 -> Byte]
  PROVE  f = <<f[1], f[2], f[3], f[4]>>
OBVIOUS

LEMMA Splat3 ==
  ASSUME NEW n \in Nat
  PROVE  splat_to_nbytes(3, n) = <<Byte2(n), Byte3(n), Byte4(n)>>
<1> DEFINE s == [i \in 1 .. 3 |-> (n \div 256 ^ (3 - i)) % 256]
<1>1. /\ 256 ^ (3 - 1) = 65536 /\ 256 ^ (3 - 2) = 256 /\ 256 ^ (3 - 3) = 1
  BY SMT
<1>2. s[1] = Byte2(n) /\ s[2] = Byte3(n) /\ s[3] = Byte4(n)
  BY <1>1, SMT DEF Byte2, Byte3, Byte4
<1>3. s \in [1 .. 3 -> Byte]
  <2>1. ASSUME NEW i \in 1 .. 3 PROVE s[i] \in Byte
    <3>1. i = 1 \/ i = 2 \/ i = 3
      OBVIOUS
    <3> HIDE DEF s
    <3> QED
      BY <1>2, <3>1, BytesOf
  <2> QED
    BY <2>1
<1>4. splat_to_nbytes(3, n) = s
  BY DEF splat_to_nbytes
<1> HIDE DEF s
<1>5. s = <<s[1], s[2], s[3]>>
  BY <1>3, ThreeElements, Zenon
<1> QED
  BY <1>2, <1>4, <1>5, Zenon

LEMMA Splat4 ==
  ASSUME NEW n \in Nat
  PROVE  splat_to_nbytes(4, n) = <<Byte1(n), Byte2(n), Byte3(n), Byte4(n)>>
<1> DEFINE s == [i \in 1 .. 4 |-> (n \div 256 ^ (4 - i)) % 256]
<1>1. /\ 256 ^ (4 - 1) = 16777216 /\ 256 ^ (4 - 2) = 65536
      /\ 256 ^ (4 - 3) = 256 /\ 256 ^ (4 - 4) = 1
  BY SMT
<1>2. s[1] = Byte1(n) /\ s[2] = Byte2(n) /\ s[3] = Byte3(n) /\ s[4] = Byte4(n)
  BY <1>1, SMT DEF Byte1, Byte2, Byte3, Byte4
<1>3. s \in [1 .. 4 -> Byte]
  <2>1. ASSUME NEW i \in 1 .. 4 PROVE s[i] \in Byte
    <3>1. i = 1 \/ i = 2 \/ i = 3 \/ i = 4
      OBVIOUS
    <3> HIDE DEF s
    <3> QED
      BY <1>2, <3>1, BytesOf
  <2> QED
    BY <2>1
<1>4. splat_to_nbytes(4, n) = s
  BY DEF splat_to_nbytes
<1> HIDE DEF s
<1>5. s = <<s[1], s[2], s[3], s[4]>>
  BY <1>3, FourElements, Zenon
<1> QED
  BY <1>2, <1>4, <1>5, Zenon

LEMMA UnsplatType ==
  ASSUME NEW a \in Byte, NEW b \in Byte, NEW c \in Byte, NEW d \in Byte
  PROVE  unsplat_from_4bytes(<<a, b, c, d>>) \in Nat
BY SMT DEF unsplat_from_4bytes, Byte, Huge

LEMMA Unsplat ==
  ASSUME NEW a \in Byte, NEW b \in Byte, NEW c \in Byte, NEW d \in Byte
  PROVE  /\ a <= 127 => unsplat_from_4bytes(<<a, b, c, d>>)
                          = a * 16777216 + b * 65536 + c * 256 + d
         /\ a > 127 => unsplat_from_4bytes(<<a, b, c, d>>) = Huge
BY SMT DEF unsplat_from_4bytes, Byte, Huge

LEMMA Digits ==
  ASSUME NEW a \in Byte, NEW b \in Byte, NEW c \in Byte, NEW d \in Byte,
         NEW n \in Nat, n = a * 16777216 + b * 65536 + c * 256 + d
  PROVE  Byte1(n) = a /\ Byte2(n) = b /\ Byte3(n) = c /\ Byte4(n) = d
<1>0. /\ a \in 0 .. 255 /\ b \in 0 .. 255
      /\ c \in 0 .. 255 /\ d \in 0 .. 255
  BY SMT DEF Byte
<1>1. PICK p \in Nat : p = a * 65536 + b * 256 + c
  BY <1>0, SMT
<1>2. PICK q \in Nat : q = a * 256 + b
  BY <1>0, SMT
<1>3. n \div 256 = p /\ n % 256 = d
  <2>1. n = p * 256 + d
    BY <1>0, <1>1, SMT
  <2> QED
    BY <1>0, <2>1, SMT
<1>4. n \div 65536 = q /\ p % 256 = c
  <2>1. n = q * 65536 + (c * 256 + d)
    BY <1>0, <1>2, SMT
  <2>2. p = q * 256 + c
    BY <1>0, <1>1, <1>2, SMT
  <2> QED
    BY <1>0, <2>1, <2>2, SMT
<1>5. n \div 16777216 = a /\ a % 256 = a /\ q % 256 = b
  <2>1. n = a * 16777216 + (b * 65536 + c * 256 + d)
    BY <1>0, SMT
  <2> QED
    BY <1>0, <1>2, <2>1, SMT
<1> QED
  BY <1>1, <1>2, <1>3, <1>4, <1>5, SMT DEF Byte1, Byte2, Byte3, Byte4

LEMMA SplatOfUnsplat ==
  ASSUME NEW a \in Byte, NEW b \in Byte, NEW c \in Byte, NEW d \in Byte,
         unsplat_from_4bytes(<<a, b, c, d>>) # Huge
  PROVE  splat_to_nbytes(4, unsplat_from_4bytes(<<a, b, c, d>>)) = <<a, b, c, d>>
<1>1. PICK n \in Nat : unsplat_from_4bytes(<<a, b, c, d>>) = n
  BY UnsplatType, Zenon
<1>2. Byte1(n) = a /\ Byte2(n) = b /\ Byte3(n) = c /\ Byte4(n) = d
  <2>1. ~ a > 127
    BY Unsplat, SMT
  <2>2. a <= 127
    BY <2>1, SMT DEF Byte
  <2>3. n = a * 16777216 + b * 65536 + c * 256 + d
    BY <1>1, <2>2, Unsplat, SMT
  <2> QED
    BY <2>3, Digits, SMT
<1>3. splat_to_nbytes(4, n) = <<a, b, c, d>>
  BY <1>2, Splat4, Zenon
<1> QED
  BY <1>1, <1>3, Zenon

LEMMA Value ==
  ASSUME NEW n \in Nat, n < Huge
  PROVE  /\ Byte1(n) <= 127
         /\ n = Byte1(n) * 16777216 + Byte2(n) * 65536 + Byte3(n) * 256 + Byte4(n)
BY SMT DEF Huge, Byte1, Byte2, Byte3, Byte4

LEMMA UnsplatOfSplat ==
  ASSUME NEW n \in Nat, n < Huge
  PROVE  unsplat_from_4bytes(splat_to_nbytes(4, n)) = n
<1>1. PICK a \in Byte, b \in Byte, c \in Byte, d \in Byte :
        a = Byte1(n) /\ b = Byte2(n) /\ c = Byte3(n) /\ d = Byte4(n)
  BY BytesOf, Zenon
<1>2. unsplat_from_4bytes(<<a, b, c, d>>) = n
  BY <1>1, Value, Unsplat, SMT
<1>3. splat_to_nbytes(4, n) = <<a, b, c, d>>
  BY <1>1, Splat4, Zenon
<1> QED
  BY <1>2, <1>3, Zenon

LEMMA ZeroInFront ==
  ASSUME NEW b \in Byte, NEW c \in Byte, NEW d \in Byte
  PROVE  <<0>> \o <<b, c, d>> = <<0, b, c, d>>
<1>1. /\ <<0>> \in Seq(Byte) /\ <<b, c, d>> \in Seq(Byte) /\ <<0, b, c, d>> \in Seq(Byte)
      /\ Len(<<0>>) = 1 /\ Len(<<b, c, d>>) = 3 /\ Len(<<0, b, c, d>>) = 4
  BY SMT DEF Byte
<1>2. <<0>> \o <<b, c, d>> \in Seq(Byte) /\ Len(<<0>> \o <<b, c, d>>) = 4
  BY <1>1, ConcatProperties, SMT
<1>3. \A i \in 1 .. 4 : (<<0>> \o <<b, c, d>>)[i] = <<0, b, c, d>>[i]
  BY <1>1, ConcatProperties, SMT
<1> QED
  BY <1>1, <1>2, <1>3, SeqEqual, Zenon

LEMMA UnsplatOfSplat3 ==
  ASSUME NEW n \in 0 .. 2 ^ 24 - 1
  PROVE  unsplat_from_4bytes(<<0>> \o splat_to_nbytes(3, n)) = n
<1>0. n \in Nat
  BY SMT
<1>1. PICK b \in Byte, c \in Byte, d \in Byte :
        b = Byte2(n) /\ c = Byte3(n) /\ d = Byte4(n)
  BY <1>0, BytesOf, Zenon
<1>2. <<0>> \o splat_to_nbytes(3, n) = <<0, b, c, d>>
  <2>1. splat_to_nbytes(3, n) = <<b, c, d>>
    BY <1>0, <1>1, Splat3, Zenon
  <2>2. <<0>> \o <<b, c, d>> = <<0, b, c, d>>
    BY ZeroInFront
  <2> QED
    BY <2>1, <2>2, Zenon
<1>3. unsplat_from_4bytes(<<0, b, c, d>>) = n
  <2>1. 0 \in Byte /\ 0 <= 127 /\ 0 * 16777216 = 0
    BY SMT DEF Byte
  <2>2. n = b * 65536 + c * 256 + d
    BY <1>0, <1>1, SMT DEF Byte2, Byte3, Byte4
  <2>3. unsplat_from_4bytes(<<0, b, c, d>>) = 0 * 16777216 + b * 65536 + c * 256 + d
    BY <2>1, Unsplat, SMT
  <2> QED
    BY <2>2, <2>3, SMT DEF Byte
<1> QED
  BY <1>2, <1>3, Zenon

-----------------------------------------------------------------------------
(* Packets: where each field is.                                           *)

Joins(u, s, t, m, n) ==
  /\ u \in Seq(Byte) /\ Len(u) = m + n
  /\ \A k \in 1 .. m : u[k] = s[k]
  /\ \A k \in 1 .. n : u[m + k] = t[k]

LEMMA Joined ==
  ASSUME NEW s \in Seq(Byte), NEW t \in Seq(Byte), NEW m, NEW n, Len(s) = m, Len(t) = n
  PROVE  Joins(s \o t, s, t, m, n)
<1>1. m \in Nat /\ n \in Nat
  BY LenProperties
<1>2. /\ s \o t \in Seq(Byte) /\ Len(s \o t) = m + n
      /\ \A k \in 1 .. m + n : (s \o t)[k] = IF k <= m THEN s[k] ELSE t[k - m]
  BY ConcatProperties
<1>3. ASSUME NEW k \in 1 .. m PROVE (s \o t)[k] = s[k]
  BY <1>1, <1>2
<1>4. ASSUME NEW k \in 1 .. n PROVE (s \o t)[m + k] = t[k]
  <2>1. PICK j \in 1 .. m + n : j = m + k /\ ~ j <= m /\ j - m = k
    BY <1>1
  <2> QED
    BY <1>2, <2>1
<1> QED
  BY <1>2, <1>3, <1>4 DEF Joins

OneByte(s, a) == s \in Seq(Byte) /\ Len(s) = 1 /\ s[1] = a

ThreeBytes(s, a, b, c) ==
  s \in Seq(Byte) /\ Len(s) = 3 /\ s[1] = a /\ s[2] = b /\ s[3] = c

FourBytes(s, a, b, c, d) ==
  s \in Seq(Byte) /\ Len(s) = 4 /\ s[1] = a /\ s[2] = b /\ s[3] = c /\ s[4] = d

LEMMA Tuples ==
  /\ \A a \in Byte : OneByte(<<a>>, a)
  /\ \A a, b, c \in Byte : ThreeBytes(<<a, b, c>>, a, b, c)
  /\ \A a, b, c, d \in Byte : FourBytes(<<a, b, c, d>>, a, b, c, d)
BY DEF OneByte, ThreeBytes, FourBytes

LEMMA SplatIsBytes ==
  ASSUME NEW n \in Nat
  PROVE  /\ splat_to_nbytes(3, n) \in Seq(Byte) /\ Len(splat_to_nbytes(3, n)) = 3
         /\ splat_to_nbytes(4, n) \in Seq(Byte) /\ Len(splat_to_nbytes(4, n)) = 4
<1>1. /\ ThreeBytes(splat_to_nbytes(3, n), Byte2(n), Byte3(n), Byte4(n))
      /\ FourBytes(splat_to_nbytes(4, n), Byte1(n), Byte2(n), Byte3(n), Byte4(n))
  BY BytesOf, Splat3, Splat4, Tuples, Zenon
<1> QED
  BY <1>1, Zenon DEF ThreeBytes, FourBytes

SpaceWire ==
  [target_path_address : Seq(Byte), target_logical_address : Byte, key : Byte,
   reply_path_address : Seq(Byte), source_logical_address : Byte]

\* The fields of a header.
HeaderOf(h, w, i, addr, n) ==
  LET p == Len(w.target_path_address)
      e == p + Len(w.reply_path_address)
  IN  /\ h \in Seq(Byte) /\ Len(h) = e + 16
      /\ \A k \in 1 .. p : h[k] = w.target_path_address[k]
      /\ h[p + 1] = w.target_logical_address
      /\ h[p + 2] = 1 /\ h[p + 3] = i /\ h[p + 4] = w.key
      /\ \A k \in 1 .. 4 : h[e + 8 + k] = addr[k]
      /\ \A k \in 1 .. 3 : h[e + 12 + k] = splat_to_nbytes(3, n)[k]

LEMMA HeaderFields ==
  ASSUME CrcIsAByte, NEW w \in SpaceWire, NEW i \in Byte, NEW addr \in Seq(Byte),
         Len(addr) = 4, NEW n \in Nat
  PROVE  HeaderOf(RmapHeader(w, i, addr, n), w, i, addr, n)
<1>1. PICK P \in Seq(Byte) : P = w.target_path_address
  BY DEF SpaceWire
<1>2. PICK R \in Seq(Byte) : R = w.reply_path_address
  BY DEF SpaceWire
<1>3. PICK p \in Nat, r \in Nat : p = Len(P) /\ r = Len(R)
  BY <1>1, <1>2, LenProperties
<1>0. /\ w.target_logical_address \in Byte /\ w.key \in Byte
      /\ w.source_logical_address \in Byte /\ 0 \in Byte /\ 1 \in Byte
  BY DEF SpaceWire, Byte
<1>4. PICK A : /\ A = <<w.target_logical_address, 1, i, w.key>>
               /\ FourBytes(A, w.target_logical_address, 1, i, w.key)
  BY <1>0, Tuples, Zenon
<1>5. PICK B : /\ B = <<w.source_logical_address, 0, 0, 0>>
               /\ FourBytes(B, w.source_logical_address, 0, 0, 0)
  BY <1>0, Tuples, Zenon
<1>6. PICK C \in Seq(Byte) : C = splat_to_nbytes(3, n) /\ Len(C) = 3
  BY SplatIsBytes
<1>7. PICK t1 : t1 = A \o R /\ Joins(t1, A, R, 4, r)
  BY <1>3, <1>4, Joined, Zenon DEF FourBytes
<1>8. PICK t2 : t2 = t1 \o B /\ Joins(t2, t1, B, 4 + r, 4)
  <2>1. t1 \in Seq(Byte) /\ Len(t1) = 4 + r /\ B \in Seq(Byte) /\ Len(B) = 4
    BY <1>5, <1>7 DEF Joins, FourBytes
  <2> QED
    BY <2>1, Joined, Zenon
<1>9. PICK t3 : t3 = t2 \o addr /\ Joins(t3, t2, addr, (4 + r) + 4, 4)
  <2>1. t2 \in Seq(Byte) /\ Len(t2) = (4 + r) + 4
    BY <1>8 DEF Joins
  <2> QED
    BY <2>1, Joined, Zenon
<1>10. PICK t4 : t4 = t3 \o C /\ Joins(t4, t3, C, ((4 + r) + 4) + 4, 3)
  <2>1. t3 \in Seq(Byte) /\ Len(t3) = ((4 + r) + 4) + 4
    BY <1>9 DEF Joins
  <2> QED
    BY <1>6, <2>1, Joined, Zenon
<1>11. PICK c : c = <<Crc(t4)>> /\ OneByte(c, Crc(t4))
  <2>1. Crc(t4) \in Byte
    BY <1>10, Zenon DEF CrcIsAByte, Joins
  <2> QED
    BY <2>1, Tuples, Zenon
<1>12. PICK u : u = P \o t4 /\ Joins(u, P, t4, p, (((4 + r) + 4) + 4) + 3)
  <2>1. t4 \in Seq(Byte) /\ Len(t4) = (((4 + r) + 4) + 4) + 3
    BY <1>10 DEF Joins
  <2> QED
    BY <1>3, <2>1, Joined, Zenon
<1>13. PICK h : h = u \o c /\ Joins(h, u, c, p + ((((4 + r) + 4) + 4) + 3), 1)
  <2>1. /\ u \in Seq(Byte) /\ Len(u) = p + ((((4 + r) + 4) + 4) + 3)
        /\ c \in Seq(Byte) /\ Len(c) = 1
    BY <1>11, <1>12 DEF Joins, OneByte
  <2> QED
    BY <2>1, Joined, Zenon
<1>14. h = RmapHeader(w, i, addr, n)
  BY <1>1, <1>2, <1>4, <1>5, <1>6, <1>7, <1>8, <1>9, <1>10, <1>11, <1>12, <1>13, Zenon
     DEF RmapHeader
<1>15. Len(h) = p + r + 16 /\ \A k \in 1 .. p : h[k] = P[k]
  BY <1>3, <1>12, <1>13 DEF Joins
<1>16. \A k \in 1 .. 15 + r : h[p + k] = t4[k]
  <2>1. TAKE k \in 1 .. 15 + r
  <2>2. /\ p + k \in 1 .. p + ((((4 + r) + 4) + 4) + 3)
        /\ k \in 1 .. (((4 + r) + 4) + 4) + 3
    BY <1>3
  <2> QED
    BY <1>12, <1>13, <2>2, Zenon DEF Joins
<1>17. \A k \in 1 .. 12 + r : t4[k] = t3[k]
  <2>1. ((4 + r) + 4) + 4 = 12 + r
    BY <1>3
  <2> QED
    BY <1>10, <2>1 DEF Joins
<1>18. \A k \in 1 .. 8 + r : t4[k] = t2[k]
  <2>1. (4 + r) + 4 = 8 + r /\ 1 .. 8 + r \subseteq 1 .. 12 + r
    BY <1>3
  <2> QED
    BY <1>9, <1>17, <2>1 DEF Joins
<1>19. \A k \in 1 .. 4 : t4[k] = A[k]
  <2>1. TAKE k \in 1 .. 4
  <2>2. k \in 1 .. 4 + r /\ k \in 1 .. 8 + r
    BY <1>3
  <2> QED
    BY <1>7, <1>8, <1>18, <2>2, Zenon DEF Joins
<1>20. /\ h[p + 1] = w.target_logical_address
       /\ h[p + 2] = 1 /\ h[p + 3] = i /\ h[p + 4] = w.key
  <2>1. 1 .. 4 \subseteq 1 .. 15 + r
    BY <1>3
  <2>2. 1 \in 1 .. 4 /\ 2 \in 1 .. 4 /\ 3 \in 1 .. 4 /\ 4 \in 1 .. 4
    OBVIOUS
  <2> QED
    BY <1>4, <1>16, <1>19, <2>1, <2>2, Zenon DEF FourBytes
<1>21. \A k \in 1 .. 4 : h[p + r + 8 + k] = addr[k]
  <2>1. TAKE k \in 1 .. 4
  <2>0. /\ ((4 + r) + 4) + k \in 1 .. 15 + r /\ ((4 + r) + 4) + k \in 1 .. 12 + r
        /\ p + (((4 + r) + 4) + k) = p + r + 8 + k
    BY <1>3
  <2>2. PICK j \in 1 .. 15 + r :
          j = ((4 + r) + 4) + k /\ j \in 1 .. 12 + r /\ p + j = p + r + 8 + k
    BY <2>0, Zenon
  <2>3. h[p + j] = t4[j] /\ t4[j] = t3[j]
    BY <1>16, <1>17, <2>2
  <2>4. t3[j] = addr[k]
    BY <1>9, <2>2 DEF Joins
  <2> QED
    BY <2>2, <2>3, <2>4
<1>22. \A k \in 1 .. 3 : h[p + r + 12 + k] = C[k]
  <2>1. TAKE k \in 1 .. 3
  <2>2. /\ (((4 + r) + 4) + 4) + k \in 1 .. 15 + r
        /\ p + ((((4 + r) + 4) + 4) + k) = p + r + 12 + k
    BY <1>3
  <2> QED
    BY <1>10, <1>16, <2>2 DEF Joins
<1> QED
  <2>1. /\ h \in Seq(Byte) /\ Len(h) = (p + r) + 16
        /\ \A k \in 1 .. p : h[k] = w.target_path_address[k]
        /\ \A k \in 1 .. 4 : h[(p + r) + 8 + k] = addr[k]
        /\ \A k \in 1 .. 3 : h[(p + r) + 12 + k] = splat_to_nbytes(3, n)[k]
    BY <1>1, <1>6, <1>13, <1>15, <1>21, <1>22, Zenon DEF Joins
  <2>2. p = Len(w.target_path_address) /\ r = Len(w.reply_path_address)
    BY <1>1, <1>2, <1>3
  <2> QED
    BY <1>14, <1>20, <2>1, <2>2, Zenon DEF HeaderOf

EightZeros == <<0, 0, 0, 0, 0, 0, 0, 0>>

LEMMA EightBytes ==
  /\ EightZeros \in Seq(Byte) /\ Len(EightZeros) = 8
  /\ \A k \in 1 .. 8 : EightZeros[k] = 0
BY DEF EightZeros, Byte

LEMMA EtherFields ==
  ASSUME NEW rmap \in Seq(Byte)
  PROVE  LET b == get_spw_ether_header(rmap) \o rmap
         IN  /\ b \in Seq(Byte) /\ Len(b) = 12 + Len(rmap)
             /\ \A k \in 1 .. 8 : b[k] = 0
             /\ \A k \in 1 .. 4 : b[8 + k] = splat_to_nbytes(4, Len(rmap))[k]
             /\ \A k \in 1 .. Len(rmap) : b[12 + k] = rmap[k]
<1>1. PICK n \in Nat : n = Len(rmap)
  BY LenProperties
<1>2. PICK size \in Seq(Byte) : size = splat_to_nbytes(4, n) /\ Len(size) = 4
  BY SplatIsBytes, Zenon
<1>3. PICK e : e = EightZeros \o size /\ Joins(e, EightZeros, size, 8, 4)
  BY <1>2, EightBytes, Joined, Zenon
<1>4. e \in Seq(Byte) /\ Len(e) = 12
  BY <1>3 DEF Joins
<1>5. PICK b : b = e \o rmap /\ Joins(b, e, rmap, 12, n)
  BY <1>1, <1>4, Joined, Zenon
<1>6. b = get_spw_ether_header(rmap) \o rmap
  BY <1>1, <1>2, <1>3, <1>5, Zenon DEF get_spw_ether_header, EightZeros
<1>7. \A k \in 1 .. 8 : b[k] = 0
  <2>1. TAKE k \in 1 .. 8
  <2>2. k \in 1 .. 12
    OBVIOUS
  <2>3. b[k] = e[k] /\ e[k] = EightZeros[k] /\ EightZeros[k] = 0
    BY <1>3, <1>5, <2>2, EightBytes, Zenon DEF Joins
  <2> QED
    BY <2>3
<1>8. \A k \in 1 .. 4 : b[8 + k] = size[k]
  <2>1. TAKE k \in 1 .. 4
  <2>2. 8 + k \in 1 .. 12
    OBVIOUS
  <2> QED
    BY <1>3, <1>5, <2>2, Zenon DEF Joins
<1> QED
  BY <1>1, <1>2, <1>5, <1>6, <1>7, <1>8, Zenon DEF Joins

\* A message to a system: its header and the fields behind the path.
Addressed(b, s, i, addr, n) ==
  LET w    == Spacewire[s]
      path == 12 + Len(w.target_path_address)
      base == path + Len(w.reply_path_address)
  IN  /\ b \in Seq(Byte) /\ Len(b) >= base + 16
      /\ \A k \in 1 .. 8 : b[k] = 0
      /\ \A k \in 1 .. 4 : b[8 + k] = splat_to_nbytes(4, Len(b) - 12)[k]
      /\ \A k \in 1 .. Len(w.target_path_address) : b[12 + k] = w.target_path_address[k]
      /\ b[path + 1] = w.target_logical_address
      /\ b[path + 2] = 1 /\ b[path + 3] = i /\ b[path + 4] = w.key
      /\ \A k \in 1 .. 4 : b[base + 8 + k] = addr[k]
      /\ \A k \in 1 .. 3 : b[base + 12 + k] = splat_to_nbytes(3, n)[k]

LEMMA SpacewireType ==
  ASSUME NEW s \in Systems
  PROVE  Spacewire[s] \in SpaceWire
BY SpacewireAssumption DEF SpaceWire, Systems

LEMMA PacketIsAddressed ==
  ASSUME CrcIsAByte, NEW s \in Systems, NEW i \in Byte, NEW addr \in Seq(Byte),
         Len(addr) = 4, NEW n \in Nat, NEW rmap \in Seq(Byte),
         Len(rmap) >= Len(RmapHeader(Spacewire[s], i, addr, n)),
         \A k \in 1 .. Len(RmapHeader(Spacewire[s], i, addr, n)) :
           rmap[k] = RmapHeader(Spacewire[s], i, addr, n)[k]
  PROVE  Addressed(get_spw_ether_header(rmap) \o rmap, s, i, addr, n)
<1>1. PICK h \in Seq(Byte) : h = RmapHeader(Spacewire[s], i, addr, n)
  <2>1. HeaderOf(RmapHeader(Spacewire[s], i, addr, n), Spacewire[s], i, addr, n)
    BY HeaderFields, SpacewireType, Zenon
  <2> QED
    BY <2>1, Zenon DEF HeaderOf
<1>2. PICK w \in SpaceWire : w = Spacewire[s]
  BY SpacewireType, Zenon
<1>3. PICK p \in Nat, r \in Nat :
        p = Len(w.target_path_address) /\ r = Len(w.reply_path_address)
  BY LenProperties DEF SpaceWire
<1>0. p \in Nat /\ r \in Nat
  BY <1>3
<1>4. /\ Len(h) = (p + r) + 16
      /\ \A k \in 1 .. p : h[k] = w.target_path_address[k]
      /\ h[p + 1] = w.target_logical_address
      /\ h[p + 2] = 1 /\ h[p + 3] = i /\ h[p + 4] = w.key
      /\ \A k \in 1 .. 4 : h[(p + r) + 8 + k] = addr[k]
      /\ \A k \in 1 .. 3 : h[(p + r) + 12 + k] = splat_to_nbytes(3, n)[k]
  <2>1. HeaderOf(h, w, i, addr, n)
    BY <1>1, <1>2, HeaderFields, Zenon
  <2> QED
    BY <1>3, <2>1, Zenon DEF HeaderOf
<1>5. PICK b : b = get_spw_ether_header(rmap) \o rmap
  OBVIOUS
<1>6. /\ b \in Seq(Byte) /\ Len(b) = 12 + Len(rmap)
      /\ \A k \in 1 .. 8 : b[k] = 0
      /\ \A k \in 1 .. 4 : b[8 + k] = splat_to_nbytes(4, Len(rmap))[k]
      /\ \A k \in 1 .. Len(rmap) : b[12 + k] = rmap[k]
  BY <1>5, EtherFields, Zenon
<1>7. Len(rmap) \in Nat /\ Len(rmap) >= (p + r) + 16
  BY <1>1, <1>4, LenProperties
<1>8. \A k \in 1 .. (p + r) + 16 : b[12 + k] = h[k]
  <2>1. TAKE k \in 1 .. (p + r) + 16
  <2>2. rmap[k] = h[k]
    BY <1>1, <1>4, Zenon
  <2>3. k \in 1 .. Len(rmap)
    BY <1>0, <1>7
  <2> QED
    BY <1>6, <2>2, <2>3
<1>9. Len(b) >= 12 + p + r + 16 /\ Len(b) - 12 = Len(rmap)
  BY <1>0, <1>6, <1>7
<1>10. \A k \in 1 .. p : b[12 + k] = w.target_path_address[k]
  <2>1. 1 .. p \subseteq 1 .. (p + r) + 16
    BY <1>0
  <2> QED
    BY <1>4, <1>8, <2>1
<1>11. /\ b[12 + p + 1] = w.target_logical_address
       /\ b[12 + p + 2] = 1 /\ b[12 + p + 3] = i /\ b[12 + p + 4] = w.key
  <2>1. \A j \in 1 .. 4 : p + j \in 1 .. (p + r) + 16 /\ 12 + (p + j) = 12 + p + j
    BY <1>0
  <2>2. \A j \in 1 .. 4 : b[12 + (p + j)] = h[p + j]
    BY <1>8, <2>1, Zenon
  <2>3. \A j \in 1 .. 4 : b[12 + p + j] = h[p + j]
    BY <2>1, <2>2, Zenon
  <2>4. 1 \in 1 .. 4 /\ 2 \in 1 .. 4 /\ 3 \in 1 .. 4 /\ 4 \in 1 .. 4
    OBVIOUS
  <2> QED
    BY <1>4, <2>3, <2>4, Zenon
<1>12. \A k \in 1 .. 4 : b[12 + p + r + 8 + k] = addr[k]
  <2>1. TAKE k \in 1 .. 4
  <2>2. /\ (p + r) + 8 + k \in 1 .. (p + r) + 16
        /\ 12 + ((p + r) + 8 + k) = 12 + p + r + 8 + k
    BY <1>0
  <2>3. h[(p + r) + 8 + k] = addr[k]
    BY <1>4, Zenon
  <2>4. b[12 + ((p + r) + 8 + k)] = h[(p + r) + 8 + k]
    BY <1>8, <2>2, Zenon
  <2> QED
    BY <2>2, <2>3, <2>4, Zenon
<1>13. \A k \in 1 .. 3 : b[12 + p + r + 12 + k] = splat_to_nbytes(3, n)[k]
  <2>1. TAKE k \in 1 .. 3
  <2>2. /\ (p + r) + 12 + k \in 1 .. (p + r) + 16
        /\ 12 + ((p + r) + 12 + k) = 12 + p + r + 12 + k
    BY <1>0
  <2>3. h[(p + r) + 12 + k] = splat_to_nbytes(3, n)[k]
    BY <1>4, Zenon
  <2>4. b[12 + ((p + r) + 12 + k)] = h[(p + r) + 12 + k]
    BY <1>8, <2>2, Zenon
  <2> QED
    BY <2>2, <2>3, <2>4, Zenon
<1>14. Addressed(b, s, i, addr, n)
  BY <1>2, <1>3, <1>6, <1>9, <1>10, <1>11, <1>12, <1>13, ZenonT(40) DEF Addressed
<1> QED
  BY <1>5, <1>14, Zenon

\* Where the header of a system's messages ends, but for its CRC.
HeaderEnd(s) ==
  12 + Len(Spacewire[s].target_path_address) + Len(Spacewire[s].reply_path_address) + 16

Command ==
  [read : BOOLEAN, spw_instruction : Byte, spw_address : Seq(Byte),
   spw_write_data : Seq(Byte), spw_reply_length : Nat]

LEMMA CommandType ==
  ASSUME NEW c \in DOMAIN Commands
  PROVE  Commands[c] \in Command
BY SpacewireAssumption DEF Command

LEMMA PathLengths ==
  ASSUME NEW s \in Systems
  PROVE  /\ Len(Spacewire[s].target_path_address) \in Nat
         /\ Len(Spacewire[s].reply_path_address) \in Nat
<1>1. PICK w \in SpaceWire : w = Spacewire[s]
  BY SpacewireType, Zenon
<1>2. w.target_path_address \in Seq(Byte) /\ w.reply_path_address \in Seq(Byte)
  BY DEF SpaceWire
<1>3. Len(w.target_path_address) \in Nat /\ Len(w.reply_path_address) \in Nat
  BY <1>2, LenProperties, Zenon
<1> QED
  BY <1>1, <1>3, Zenon

LEMMA ReadPacket ==
  ASSUME CrcIsAByte, NEW s \in Systems, NEW i \in Byte, NEW addr \in Seq(Byte),
         Len(addr) = 4, NEW n \in Nat
  PROVE  LET rmap == RmapHeader(Spacewire[s], i, addr, n)
             b    == get_spw_ether_header(rmap) \o rmap
         IN  Addressed(b, s, i, addr, n) /\ Len(b) = HeaderEnd(s)
<1>1. PICK h : /\ h = RmapHeader(Spacewire[s], i, addr, n)
               /\ HeaderOf(h, Spacewire[s], i, addr, n)
  BY HeaderFields, SpacewireType, Zenon
<1>2. h \in Seq(Byte) /\ Len(h) \in Nat /\ Len(h) >= Len(h)
  <2>1. h \in Seq(Byte)
    BY <1>1, Zenon DEF HeaderOf
  <2> QED
    BY <2>1, LenProperties
<1>3. Addressed(get_spw_ether_header(h) \o h, s, i, addr, n)
  BY <1>1, <1>2, PacketIsAddressed, Zenon
<1>4. Len(get_spw_ether_header(h) \o h) = 12 + Len(h)
  BY <1>2, EtherFields, Zenon
<1>5. PICK p \in Nat, r \in Nat : /\ p = Len(Spacewire[s].target_path_address)
                                 /\ r = Len(Spacewire[s].reply_path_address)
  BY PathLengths, Zenon
<1>6. Len(h) = (p + r) + 16
  BY <1>1, <1>5, Zenon DEF HeaderOf
<1>7. HeaderEnd(s) = 12 + p + r + 16
  BY <1>5, Zenon DEF HeaderEnd
<1>8. 12 + ((p + r) + 16) = 12 + p + r + 16
  OBVIOUS
<1> QED
  BY <1>1, <1>3, <1>4, <1>6, <1>7, <1>8, Zenon

LEMMA WritePacket ==
  ASSUME CrcIsAByte, NEW s \in Systems, NEW i \in Byte, NEW addr \in Seq(Byte),
         Len(addr) = 4, NEW data \in Seq(Byte)
  PROVE  LET rmap == RmapHeader(Spacewire[s], i, addr, Len(data)) \o (data \o <<Crc(data)>>)
             b    == get_spw_ether_header(rmap) \o rmap
         IN  /\ Addressed(b, s, i, addr, Len(data))
             /\ Len(b) = HeaderEnd(s) + Len(data) + 1
             /\ \A k \in 1 .. Len(data) : b[HeaderEnd(s) + k] = data[k]
<1>0. PICK n \in Nat : n = Len(data)
  BY LenProperties
<1>1. PICK h : /\ h = RmapHeader(Spacewire[s], i, addr, n)
               /\ HeaderOf(h, Spacewire[s], i, addr, n)
  BY HeaderFields, SpacewireType, Zenon
<1>2. PICK m \in Nat : m = Len(h) /\ h \in Seq(Byte)
  <2>1. h \in Seq(Byte)
    BY <1>1, Zenon DEF HeaderOf
  <2> QED
    BY <2>1, LenProperties
<1>3. PICK c : c = <<Crc(data)>> /\ OneByte(c, Crc(data))
  BY Tuples, Zenon DEF CrcIsAByte
<1>4. PICK d : d = data \o c /\ Joins(d, data, c, n, 1)
  <2>1. c \in Seq(Byte) /\ Len(c) = 1
    BY <1>3 DEF OneByte
  <2> QED
    BY <1>0, <2>1, Joined, Zenon
<1>5. PICK rmap : rmap = h \o d /\ Joins(rmap, h, d, m, n + 1)
  <2>1. d \in Seq(Byte) /\ Len(d) = n + 1
    BY <1>4 DEF Joins
  <2> QED
    BY <1>2, <2>1, Joined, Zenon
<1>6. /\ rmap \in Seq(Byte) /\ Len(rmap) = m + (n + 1)
      /\ \A k \in 1 .. Len(h) : rmap[k] = h[k]
  BY <1>2, <1>5, Zenon DEF Joins
<1>7. Len(rmap) >= Len(h)
  <2>1. m + (n + 1) >= m
    OBVIOUS
  <2> QED
    BY <1>2, <1>6, <2>1, Zenon
<1>8. PICK b : b = get_spw_ether_header(rmap) \o rmap
  OBVIOUS
<1>9. Addressed(b, s, i, addr, n)
  BY <1>1, <1>6, <1>7, <1>8, PacketIsAddressed, Zenon
<1>10. /\ Len(b) = 12 + (m + (n + 1))
       /\ \A k \in 1 .. m + (n + 1) : b[12 + k] = rmap[k]
  <2>1. Len(b) = 12 + Len(rmap) /\ \A k \in 1 .. Len(rmap) : b[12 + k] = rmap[k]
    BY <1>6, <1>8, EtherFields, Zenon
  <2> QED
    BY <1>6, <2>1, Zenon
<1>11. PICK p \in Nat, r \in Nat : /\ p = Len(Spacewire[s].target_path_address)
                                  /\ r = Len(Spacewire[s].reply_path_address)
  BY PathLengths, Zenon
<1>12. m = (p + r) + 16
  BY <1>1, <1>2, <1>11, Zenon DEF HeaderOf
<1>13. HeaderEnd(s) = 12 + p + r + 16
  BY <1>11, Zenon DEF HeaderEnd
<1>14. HeaderEnd(s) = 12 + m
  <2>1. 12 + ((p + r) + 16) = 12 + p + r + 16
    OBVIOUS
  <2> QED
    BY <1>12, <1>13, <2>1, Zenon
<1>15. \A k \in 1 .. n : b[12 + m + k] = data[k]
  <2>1. TAKE k \in 1 .. n
  <2>2. /\ m + k \in 1 .. m + (n + 1) /\ 12 + (m + k) = 12 + m + k
        /\ k \in 1 .. n + 1
    OBVIOUS
  <2>3. b[12 + m + k] = rmap[m + k]
    BY <1>10, <2>2
  <2>4. rmap[m + k] = d[k] /\ d[k] = data[k]
    BY <1>4, <1>5, <2>2, Zenon DEF Joins
  <2> QED
    BY <2>3, <2>4, Zenon
<1>16. 12 + (m + (n + 1)) = (12 + m) + n + 1
  OBVIOUS
<1> QED
  BY <1>0, <1>1, <1>3, <1>4, <1>5, <1>8, <1>9, <1>10, <1>14, <1>15, <1>16, Zenon

LEMMA FunctionIsSeq ==
  ASSUME NEW e \in Nat, NEW f \in [1 .. e -> Byte]
  PROVE  f \in Seq(Byte) /\ Len(f) = e
OBVIOUS

\* A packet t of n bytes with another address and other lengths l, before its
\* CRC is made anew.
Patched(t, n, l, addr) ==
  [p \in 1 .. n |-> CASE p = n - 8            -> 0
                     [] p \in n - 7 .. n - 4 -> addr[p - (n - 8)]
                     [] p \in n - 3 .. n - 1 -> l[p - (n - 4)]
                     [] OTHER                -> t[p]]

LEMMA TemplatePacket ==
  ASSUME CrcIsAByte, NEW s \in Systems, NEW i \in Byte, NEW addr0 \in Seq(Byte),
         NEW addr \in [1 .. 4 -> Byte], NEW n0 \in Nat, NEW n \in Nat, NEW code,
         Addressed(get_command_bytes_for_sys_for_code(s, code), s, i, addr0, n0),
         Len(get_command_bytes_for_sys_for_code(s, code)) = HeaderEnd(s)
  PROVE  /\ Addressed(get_read_command_from_template(s, code, addr, n), s, i, addr, n)
         /\ Len(get_read_command_from_template(s, code, addr, n)) = HeaderEnd(s)
<1>1. PICK t : t = get_command_bytes_for_sys_for_code(s, code)
  OBVIOUS
<1>2. PICK p \in Nat, r \in Nat : /\ p = Len(Spacewire[s].target_path_address)
                                 /\ r = Len(Spacewire[s].reply_path_address)
  BY PathLengths, Zenon
<1>3. PICK e \in Nat : e = HeaderEnd(s) /\ e = 12 + p + r + 16 /\ e >= 28
  <2>1. 12 + p + r + 16 \in Nat /\ 12 + p + r + 16 >= 28
    OBVIOUS
  <2> QED
    BY <1>2, <2>1, Zenon DEF HeaderEnd
<1>4. Addressed(t, s, i, addr0, n0) /\ t \in Seq(Byte) /\ Len(t) = e
  BY <1>1, <1>3, Zenon DEF Addressed
<1>5. PICK l : /\ l = splat_to_nbytes(3, n) /\ l \in Seq(Byte) /\ Len(l) = 3
               /\ \A k \in 1 .. 3 : l[k] \in Byte
  BY SplatIsBytes, ElementOfSeq
<1> DEFINE new == Patched(t, e, l, addr)
<1>6. /\ new[e - 8] = 0
      /\ \A j \in e - 7 .. e - 4 : new[j] = addr[j - (e - 8)]
      /\ \A j \in e - 3 .. e - 1 : new[j] = l[j - (e - 4)]
      /\ \A j \in 1 .. e : j < e - 8 \/ j = e => new[j] = t[j]
  <2>1. new[e - 8] = 0
    <3>1. e - 8 \in 1 .. e
      BY <1>3
    <3> QED
      BY <3>1, SMTT(20) DEF Patched
  <2>2. ASSUME NEW j \in e - 7 .. e - 4 PROVE new[j] = addr[j - (e - 8)]
    <3>1. j \in 1 .. e /\ j # e - 8
      BY <1>3
    <3> QED
      BY <3>1 DEF Patched
  <2>3. ASSUME NEW j \in e - 3 .. e - 1 PROVE new[j] = l[j - (e - 4)]
    <3>1. j \in 1 .. e /\ j # e - 8 /\ j \notin e - 7 .. e - 4
      BY <1>3
    <3> QED
      BY <3>1 DEF Patched
  <2>4. ASSUME NEW j \in 1 .. e, j < e - 8 \/ j = e PROVE new[j] = t[j]
    <3>1. j # e - 8 /\ j \notin e - 7 .. e - 4 /\ j \notin e - 3 .. e - 1
      BY <1>3, <2>4
    <3> QED
      BY <3>1 DEF Patched
  <2> QED
    BY <2>1, <2>2, <2>3, <2>4
<1> HIDE DEF new
<1>7. new \in Seq(Byte) /\ Len(new) = e
  <2>1. ASSUME NEW j \in 1 .. e PROVE new[j] \in Byte
    <3>1. CASE j = e - 8
      BY <1>6, <3>1 DEF Byte
    <3>2. CASE j \in e - 7 .. e - 4
      <4>1. j - (e - 8) \in 1 .. 4
        BY <1>3, <3>2
      <4> QED
        BY <1>6, <3>2, <4>1
    <3>3. CASE j \in e - 3 .. e - 1
      <4>1. j - (e - 4) \in 1 .. 3
        BY <1>3, <3>3
      <4> QED
        BY <1>5, <1>6, <3>3, <4>1
    <3>4. CASE j < e - 8 \/ j = e
      <4>1. t[j] \in Byte
        BY <1>4, ElementOfSeq
      <4> QED
        BY <1>6, <3>4, <4>1
    <3>5. j = e - 8 \/ j \in e - 7 .. e - 4 \/ j \in e - 3 .. e - 1 \/ j < e - 8 \/ j = e
      BY <1>3
    <3> QED
      BY <3>1, <3>2, <3>3, <3>4, <3>5, Zenon
  <2>2. new \in [1 .. e -> Byte]
    BY <2>1 DEF new, Patched
  <2> QED
    BY <1>3, <2>2, FunctionIsSeq, Zenon
<1>8. /\ \A j \in 1 .. e - 9 : new[j] = t[j]
      /\ \A k \in 1 .. 4 : new[(e - 8) + k] = addr[k]
      /\ \A k \in 1 .. 3 : new[(e - 4) + k] = l[k]
  <2>1. ASSUME NEW j \in 1 .. e - 9 PROVE new[j] = t[j]
    BY <1>3, <1>6
  <2>2. ASSUME NEW k \in 1 .. 4 PROVE new[(e - 8) + k] = addr[k]
    <3>1. (e - 8) + k \in e - 7 .. e - 4 /\ ((e - 8) + k) - (e - 8) = k
      BY <1>3
    <3>2. new[(e - 8) + k] = addr[((e - 8) + k) - (e - 8)]
      BY <1>6, <3>1, Zenon
    <3> QED
      BY <3>1, <3>2, Zenon
  <2>3. ASSUME NEW k \in 1 .. 3 PROVE new[(e - 4) + k] = l[k]
    <3>1. (e - 4) + k \in e - 3 .. e - 1 /\ ((e - 4) + k) - (e - 4) = k
      BY <1>3
    <3>2. new[(e - 4) + k] = l[((e - 4) + k) - (e - 4)]
      BY <1>6, <3>1, Zenon
    <3> QED
      BY <3>1, <3>2, Zenon
  <2> QED
    BY <2>1, <2>2, <2>3
<1>9. PICK c \in Byte : c = Crc(SubSeq(new, 12 + p + 1, e - 1))
  <2>1. \A j \in 12 + p + 1 .. e - 1 : new[j] \in Byte
    BY <1>3, <1>7, ElementOfSeq
  <2>2. SubSeq(new, 12 + p + 1, e - 1) \in Seq(Byte)
    BY <2>1, SubSeqProperties
  <2> QED
    BY <2>2, Zenon DEF CrcIsAByte
<1>10. PICK b : /\ b = [new EXCEPT ![e] = c]
                /\ b \in Seq(Byte) /\ Len(b) = e
                /\ \A j \in 1 .. e - 1 : b[j] = new[j]
  <2>1. e \in 1 .. Len(new)
    BY <1>3, <1>7
  <2>2. [new EXCEPT ![e] = c] \in Seq(Byte) /\ Len([new EXCEPT ![e] = c]) = Len(new)
    BY <1>7, <2>1, ExceptSeq
  <2>3. \A j \in 1 .. e - 1 : [new EXCEPT ![e] = c][j] = new[j]
    <3>1. TAKE j \in 1 .. e - 1
    <3>2. j # e
      OBVIOUS
    <3>3. DOMAIN new = 1 .. e /\ j \in 1 .. e
      BY <1>7, LenProperties
    <3> QED
      BY <3>2, <3>3, Zenon
  <2> QED
    BY <1>7, <2>2, <2>3, Zenon
<1>11. b = get_read_command_from_template(s, code, addr, n)
  <2> DEFINE u == get_command_bytes_for_sys_for_code(s, code)
             m == Patched(u, Len(u), splat_to_nbytes(3, n), addr)
             f == EtherSize + Len(Spacewire[s].target_path_address)
  <2>1. get_read_command_from_template(s, code, addr, n)
           = [m EXCEPT ![Len(u)] = Crc(SubSeq(m, f + 1, Len(u) - 1))]
    BY Zenon DEF get_read_command_from_template, Patched
  <2>2. u = t /\ Len(u) = e /\ splat_to_nbytes(3, n) = l
    BY <1>1, <1>4, <1>5, Zenon
  <2>3. m = new /\ f = 12 + p
    BY <1>2, <2>2, Zenon DEF EtherSize, new
  <2> HIDE DEF u, m, f
  <2>4. get_read_command_from_template(s, code, addr, n) = [new EXCEPT ![e] = c]
    BY <1>9, <2>1, <2>2, <2>3, Zenon
  <2> QED
    BY <1>10, <2>4, Zenon
<1>12. \A j \in 1 .. e - 9 : b[j] = t[j]
  <2>1. 1 .. e - 9 \subseteq 1 .. e - 1
    OBVIOUS
  <2> QED
    BY <1>8, <1>10, <2>1, Zenon
<1>13. Addressed(b, s, i, addr, n)
  <2>1. Len(b) >= 12 + p + r + 16 /\ Len(b) = Len(t)
    BY <1>3, <1>4, <1>10
  <2>2. /\ \A k \in 1 .. 8 : b[k] = t[k]
        /\ \A k \in 1 .. 4 : b[8 + k] = t[8 + k]
        /\ \A k \in 1 .. p : b[12 + k] = t[12 + k]
        /\ b[12 + p + 1] = t[12 + p + 1] /\ b[12 + p + 2] = t[12 + p + 2]
        /\ b[12 + p + 3] = t[12 + p + 3] /\ b[12 + p + 4] = t[12 + p + 4]
    BY <1>3, <1>12
  <2>3. ASSUME NEW k \in 1 .. 4 PROVE b[12 + p + r + 8 + k] = addr[k]
    <3>1. (e - 8) + k \in 1 .. e - 1 /\ (e - 8) + k = 12 + p + r + 8 + k
      BY <1>3
    <3>2. b[(e - 8) + k] = addr[k]
      BY <1>8, <1>10, <3>1, Zenon
    <3> QED
      BY <3>1, <3>2, Zenon
  <2>4. ASSUME NEW k \in 1 .. 3 PROVE b[12 + p + r + 12 + k] = l[k]
    <3>1. (e - 4) + k \in 1 .. e - 1 /\ (e - 4) + k = 12 + p + r + 12 + k
      BY <1>3
    <3>2. b[(e - 4) + k] = l[k]
      BY <1>8, <1>10, <3>1, Zenon
    <3> QED
      BY <3>1, <3>2, Zenon
  <2>5. /\ \A k \in 1 .. 8 : t[k] = 0
        /\ \A k \in 1 .. 4 : t[8 + k] = splat_to_nbytes(4, Len(t) - 12)[k]
        /\ \A k \in 1 .. p : t[12 + k] = Spacewire[s].target_path_address[k]
        /\ t[12 + p + 1] = Spacewire[s].target_logical_address
        /\ t[12 + p + 2] = 1 /\ t[12 + p + 3] = i /\ t[12 + p + 4] = Spacewire[s].key
    BY <1>2, <1>4, Zenon DEF Addressed
  <2>6. /\ \A k \in 1 .. 8 : b[k] = 0
        /\ \A k \in 1 .. 4 : b[8 + k] = splat_to_nbytes(4, Len(b) - 12)[k]
        /\ \A k \in 1 .. p : b[12 + k] = Spacewire[s].target_path_address[k]
        /\ b[12 + p + 1] = Spacewire[s].target_logical_address
        /\ b[12 + p + 2] = 1 /\ b[12 + p + 3] = i /\ b[12 + p + 4] = Spacewire[s].key
    BY <2>1, <2>2, <2>5, Zenon
  <2>7. /\ b \in Seq(Byte) /\ Len(b) >= 12 + p + r + 16
        /\ \A k \in 1 .. 4 : b[12 + p + r + 8 + k] = addr[k]
        /\ \A k \in 1 .. 3 : b[12 + p + r + 12 + k] = splat_to_nbytes(3, n)[k]
    BY <1>5, <1>10, <2>1, <2>3, <2>4, Zenon
  <2> QED
    BY <1>2, <2>6, <2>7, Zenon DEF Addressed
<1> QED
  BY <1>3, <1>10, <1>11, <1>13, Zenon

-----------------------------------------------------------------------------
(* Requests: the bytes of a request are a message with its meaning.         *)

LEMMA RequestFields ==
  ASSUME NEW q \in Request
  PROVE  /\ q.by \in {"code", "address", "template", "bytes"}
         /\ q.by # "bytes" => q.sys \in Systems
         /\ q.by \in {"code", "template"} => q.code \in Byte
         /\ q.by \in {"address", "template"} =>
              q.addr \in [1 .. 4 -> Byte] /\ q.len \in Length
         /\ q.by = "bytes" => q.code \in Seq(Byte)
<1>1. \/ q \in [by : {"code"}, sys : Systems, code : Byte]
      \/ q \in [by : {"address"}, sys : Systems, addr : [1 .. 4 -> Byte], len : Length]
      \/ q \in [by : {"template"}, sys : Systems, code : Byte, addr : [1 .. 4 -> Byte], len : Length]
      \/ q \in [by : {"bytes"}, code : Seq(Byte)]
  BY Zenon DEF Request
<1>2. CASE q \in [by : {"code"}, sys : Systems, code : Byte]
  BY <1>2, SMT
<1>3. CASE q \in [by : {"address"}, sys : Systems, addr : [1 .. 4 -> Byte], len : Length]
  BY <1>3, SMT
<1>4. CASE q \in [by : {"template"}, sys : Systems, code : Byte, addr : [1 .. 4 -> Byte], len : Length]
  BY <1>4, SMT
<1>5. CASE q \in [by : {"bytes"}, code : Seq(Byte)]
  BY <1>5, SMT
<1> QED
  BY <1>1, <1>2, <1>3, <1>4, <1>5, Zenon

\* What the bytes b of a request say: an instruction i to a system to read or to
\* write len bytes at an address, with the data behind the header.
Says(b, s, i, m) ==
  /\ \E addr \in [1 .. 4 -> Byte] :
       Addressed(b, s, i, addr, m.len) /\ m.at = unsplat_from_4bytes(addr)
  /\ m.len \in Nat
  /\ m.read => Len(b) = HeaderEnd(s)
  /\ ~ m.read => /\ Len(b) = HeaderEnd(s) + m.len + 1
                 /\ m.data \in Seq(Byte) /\ Len(m.data) = m.len
                 /\ \A k \in 1 .. m.len : b[HeaderEnd(s) + k] = m.data[k]

LEMMA SeqIsFunction ==
  ASSUME NEW a \in Seq(Byte), Len(a) = 4
  PROVE  a \in [1 .. 4 -> Byte]
BY ElementOfSeq

LEMMA HeaderIsBytes ==
  ASSUME CrcIsAByte, NEW s \in Systems, NEW i \in Byte, NEW addr \in Seq(Byte),
         Len(addr) = 4, NEW n \in Nat
  PROVE  RmapHeader(Spacewire[s], i, addr, n) \in Seq(Byte)
<1>1. HeaderOf(RmapHeader(Spacewire[s], i, addr, n), Spacewire[s], i, addr, n)
  BY HeaderFields, SpacewireType, Zenon
<1> QED
  BY <1>1, Zenon DEF HeaderOf

\* A read command of the deck.
LEMMA CodeReads ==
  ASSUME CrcIsAByte, NEW s \in Systems, NEW code, <<s, code>> \in DOMAIN Commands,
         NEW c, c = Commands[<<s, code>>], c.read, Len(c.spw_address) = 4
  PROVE  /\ Addressed(get_command_bytes_for_sys_for_code(s, code), s, c.spw_instruction,
                      c.spw_address, c.spw_reply_length)
         /\ Len(get_command_bytes_for_sys_for_code(s, code)) = HeaderEnd(s)
<1>1. c \in Command
  BY CommandType, Zenon
<1>2. c.spw_instruction \in Byte /\ c.spw_address \in Seq(Byte) /\ c.spw_reply_length \in Nat
  BY <1>1 DEF Command
<1>3. PICK h : h = RmapHeader(Spacewire[s], c.spw_instruction, c.spw_address, c.spw_reply_length)
  OBVIOUS
<1>4. /\ Addressed(get_spw_ether_header(h) \o h, s, c.spw_instruction, c.spw_address,
                   c.spw_reply_length)
      /\ Len(get_spw_ether_header(h) \o h) = HeaderEnd(s)
  BY <1>2, <1>3, ReadPacket, Zenon
<1>5. h \o <<>> = h
  <2>1. h \in Seq(Byte)
    BY <1>2, <1>3, HeaderIsBytes, Zenon
  <2> QED
    BY <2>1, ConcatEmptySeq, Zenon
<1>6. make_spw_packet_for_sys_for_command(s, c) = get_spw_ether_header(h) \o h
  <2>1. make_spw_header_(s, c) = h
    BY <1>3, Zenon DEF make_spw_header_
  <2>2. make_spw_packet_for_sys_for_command(s, c)
          = get_spw_ether_header(make_spw_header_(s, c) \o <<>>) \o (make_spw_header_(s, c) \o <<>>)
    BY Zenon DEF make_spw_packet_for_sys_for_command
  <2> QED
    BY <1>5, <2>1, <2>2, Zenon
<1>7. get_command_bytes_for_sys_for_code(s, code) = make_spw_packet_for_sys_for_command(s, c)
  BY Zenon DEF get_command_bytes_for_sys_for_code
<1> QED
  BY <1>4, <1>6, <1>7, Zenon

LEMMA LengthIsNat ==
  ASSUME NEW n \in Length
  PROVE  n \in Nat
BY SMT DEF Length

\* A write of data, behind its header.
WriteOf(b, s, i, addr, data) ==
  /\ Addressed(b, s, i, addr, Len(data))
  /\ Len(b) = HeaderEnd(s) + Len(data) + 1
  /\ \A k \in 1 .. Len(data) : b[HeaderEnd(s) + k] = data[k]

LEMMA WriteIsWritten ==
  ASSUME CrcIsAByte, NEW s \in Systems, NEW i \in Byte, NEW addr \in Seq(Byte),
         Len(addr) = 4, NEW data \in Seq(Byte), NEW rmap,
         rmap = RmapHeader(Spacewire[s], i, addr, Len(data)) \o (data \o <<Crc(data)>>)
  PROVE  WriteOf(get_spw_ether_header(rmap) \o rmap, s, i, addr, data)
BY WritePacket, Zenon DEF WriteOf

\* A write command of the deck.
LEMMA CodeWrites ==
  ASSUME CrcIsAByte, NEW s \in Systems, NEW code, <<s, code>> \in DOMAIN Commands,
         NEW c, c = Commands[<<s, code>>], ~ c.read, Len(c.spw_address) = 4
  PROVE  WriteOf(get_command_bytes_for_sys_for_code(s, code), s, c.spw_instruction,
                 c.spw_address, c.spw_write_data)
<1>1. c \in Command
  BY CommandType, Zenon
<1>2. /\ c.spw_instruction \in Byte /\ c.spw_address \in Seq(Byte)
      /\ c.spw_write_data \in Seq(Byte)
  BY <1>1 DEF Command
<1> DEFINE d == c.spw_write_data
           u == RmapHeader(Spacewire[s], c.spw_instruction, c.spw_address, Len(d))
                  \o (d \o <<Crc(d)>>)
<1>3. WriteOf(get_spw_ether_header(u) \o u, s, c.spw_instruction, c.spw_address, d)
  BY <1>2, WriteIsWritten, Zenon
<1>4. make_spw_packet_for_sys_for_command(s, c) = get_spw_ether_header(u) \o u
  <2>1. make_spw_header_(s, c)
          = RmapHeader(Spacewire[s], c.spw_instruction, c.spw_address, Len(d))
    BY Zenon DEF make_spw_header_
  <2>2. make_spw_packet_for_sys_for_command(s, c)
          = get_spw_ether_header(make_spw_header_(s, c) \o (d \o <<Crc(d)>>))
              \o (make_spw_header_(s, c) \o (d \o <<Crc(d)>>))
    BY Zenon DEF make_spw_packet_for_sys_for_command
  <2> QED
    BY <2>1, <2>2, Zenon
<1>5. get_command_bytes_for_sys_for_code(s, code) = make_spw_packet_for_sys_for_command(s, c)
  BY Zenon DEF get_command_bytes_for_sys_for_code
<1> HIDE DEF u
<1> QED
  BY <1>3, <1>4, <1>5, Zenon

LEMMA RequestSays ==
  ASSUME CrcIsAByte, NEW q \in Request, q.by # "bytes", Proper(q)
  PROVE  /\ q.sys \in Systems /\ Instruction(q) \in Byte
         /\ Says(Bytes(q), q.sys, Instruction(q), Meaning(q))
<1>1. PICK s \in Systems : s = q.sys
  BY RequestFields, Zenon
<1>2. CASE q.by = "code"
  <2>1. PICK c \in Command : c = Commands[<<s, q.code>>] /\ <<s, q.code>> \in DOMAIN Commands
    BY <1>1, <1>2, CommandType, Zenon DEF Proper
  <2>2. /\ c.spw_instruction \in Byte /\ c.spw_address \in Seq(Byte)
        /\ c.spw_write_data \in Seq(Byte) /\ c.spw_reply_length \in Nat
        /\ Len(c.spw_write_data) \in Nat
    BY <2>1, LenProperties DEF Command
  <2>3. Len(c.spw_address) = 4
    BY <1>1, <1>2, <2>1, Zenon DEF Proper
  <2>4. c.spw_address \in [1 .. 4 -> Byte]
    BY <2>2, <2>3, SeqIsFunction, Zenon
  <2>5. /\ Bytes(q) = get_command_bytes_for_sys_for_code(s, q.code)
        /\ Instruction(q) = c.spw_instruction
    BY <1>1, <1>2, <2>1 DEF Bytes, Instruction
  <2>6. PICK m : m = Meaning(q)
    OBVIOUS
  <2>7. /\ m.read = c.read /\ m.at = unsplat_from_4bytes(c.spw_address)
        /\ m.len = IF c.read THEN c.spw_reply_length ELSE Len(c.spw_write_data)
        /\ m.data = c.spw_write_data
    BY <1>1, <1>2, <2>1, <2>6 DEF Meaning
  <2>8. CASE c.read
    <3>1. m.len = c.spw_reply_length
      BY <2>7, <2>8, Zenon
    <3>2. /\ Addressed(get_command_bytes_for_sys_for_code(s, q.code), s, c.spw_instruction,
                       c.spw_address, c.spw_reply_length)
          /\ Len(get_command_bytes_for_sys_for_code(s, q.code)) = HeaderEnd(s)
      BY <2>1, <2>3, <2>8, CodeReads, Zenon
    <3> QED
      BY <1>1, <2>2, <2>4, <2>5, <2>6, <2>7, <2>8, <3>1, <3>2, Zenon DEF Says
  <2>9. CASE ~ c.read
    <3>1. m.len = Len(c.spw_write_data)
      BY <2>7, <2>9, Zenon
    <3>2. WriteOf(get_command_bytes_for_sys_for_code(s, q.code), s, c.spw_instruction,
                  c.spw_address, c.spw_write_data)
      BY <2>1, <2>3, <2>9, CodeWrites, Zenon
    <3>3. PICK b : b = Bytes(q) /\ WriteOf(b, s, c.spw_instruction, c.spw_address, m.data)
      BY <2>5, <2>7, <3>2, Zenon
    <3>4. m.len = Len(m.data) /\ m.len \in Nat /\ m.data \in Seq(Byte)
      BY <2>2, <2>7, <3>1, Zenon
    <3>5. /\ Addressed(b, s, c.spw_instruction, c.spw_address, m.len)
          /\ Len(b) = HeaderEnd(s) + m.len + 1
          /\ \A k \in 1 .. m.len : b[HeaderEnd(s) + k] = m.data[k]
      BY <3>3, <3>4, Zenon DEF WriteOf
    <3> QED
      BY <1>1, <2>2, <2>4, <2>5, <2>6, <2>7, <2>9, <3>3, <3>4, <3>5, Zenon DEF Says
  <2> QED
    BY <2>8, <2>9, Zenon
<1>3. CASE q.by \in {"address", "template"}
  <2>1. PICK a \in [1 .. 4 -> Byte], n \in Nat : a = q.addr /\ n = q.len
    BY <1>3, RequestFields, LengthIsNat, Zenon
  <2>2. a \in Seq(Byte) /\ Len(a) = 4
    BY FunctionIsSeq
  <2>3. PICK m : /\ m = Meaning(q) /\ m.read /\ m.len = n /\ m.at = unsplat_from_4bytes(a)
    <3>1. PICK m : m = Meaning(q)
      OBVIOUS
    <3>2. m = [read |-> TRUE, reply |-> TRUE, at |-> unsplat_from_4bytes(a), len |-> n,
               data |-> <<>>]
      BY <1>3, <2>1, <3>1, Zenon DEF Meaning
    <3>3. m.read = TRUE /\ m.len = n /\ m.at = unsplat_from_4bytes(a)
      BY <3>2, Zenon
    <3> QED
      BY <3>1, <3>3, Zenon
  <2>4. /\ Addressed(Bytes(q), s, Instruction(q), a, n) /\ Len(Bytes(q)) = HeaderEnd(s)
        /\ Instruction(q) \in Byte
    <3>1. CASE q.by = "address"
      <4>1. 77 \in Byte
        BY DEF Byte
      <4>2. LET rmap == RmapHeader(Spacewire[s], 77, a, n)
                b    == get_spw_ether_header(rmap) \o rmap
            IN  Addressed(b, s, 77, a, n) /\ Len(b) = HeaderEnd(s)
        BY <2>2, <4>1, ReadPacket, Zenon
      <4>3. /\ Addressed(get_read_command_for_sys_at_address(s, a, n), s, 77, a, n)
            /\ Len(get_read_command_for_sys_at_address(s, a, n)) = HeaderEnd(s)
        BY <4>2, Zenon DEF get_read_command_for_sys_at_address
      <4>4. Bytes(q) = get_read_command_for_sys_at_address(s, a, n)
        <5>1. Bytes(q) = get_read_command_for_sys_at_address(q.sys, q.addr, q.len)
          BY <3>1 DEF Bytes
        <5> QED
          BY <1>1, <2>1, <5>1, Zenon
      <4>5. Instruction(q) = 77
        BY <3>1, Zenon DEF Instruction
      <4>6. PICK i \in Byte : i = 77 /\ i = Instruction(q)
        BY <4>1, <4>5
      <4>7. PICK b : b = get_read_command_for_sys_at_address(s, a, n) /\ b = Bytes(q)
        BY <4>4, Zenon
      <4>8. Addressed(b, s, i, a, n) /\ Len(b) = HeaderEnd(s)
        BY <4>3, <4>6, <4>7
      <4> QED
        BY <4>6, <4>7, <4>8
    <3>2. CASE q.by = "template"
      <4>1. PICK c \in Command : c = Commands[<<s, q.code>>] /\ <<s, q.code>> \in DOMAIN Commands
        BY <1>1, <3>2, CommandType, Zenon DEF Proper
      <4>2. c.read /\ Len(c.spw_address) = 4
        BY <1>1, <3>2, <4>1, Zenon DEF Proper
      <4>3. PICK i \in Byte : i = c.spw_instruction
        BY DEF Command
      <4>4. /\ Addressed(get_command_bytes_for_sys_for_code(s, q.code), s, i,
                         c.spw_address, c.spw_reply_length)
            /\ Len(get_command_bytes_for_sys_for_code(s, q.code)) = HeaderEnd(s)
        BY <4>1, <4>2, <4>3, CodeReads, Zenon
      <4>5. PICK a0 \in Seq(Byte), n0 \in Nat : a0 = c.spw_address /\ n0 = c.spw_reply_length
        BY DEF Command
      <4>6. /\ Addressed(get_read_command_from_template(s, q.code, a, n), s, i, a, n)
            /\ Len(get_read_command_from_template(s, q.code, a, n)) = HeaderEnd(s)
        <5>1. PICK code : code = q.code
          OBVIOUS
        <5>2. /\ Addressed(get_command_bytes_for_sys_for_code(s, code), s, i, a0, n0)
              /\ Len(get_command_bytes_for_sys_for_code(s, code)) = HeaderEnd(s)
          BY <4>4, <4>5, <5>1, Zenon
        <5>3. /\ Addressed(get_read_command_from_template(s, code, a, n), s, i, a, n)
              /\ Len(get_read_command_from_template(s, code, a, n)) = HeaderEnd(s)
          BY <5>2, TemplatePacket
        <5> QED
          BY <5>1, <5>3, Zenon
      <4>7. /\ Bytes(q) = get_read_command_from_template(s, q.code, a, n)
            /\ Instruction(q) = i
        BY <1>1, <2>1, <3>2, <4>1, <4>3 DEF Bytes, Instruction
      <4> QED
        BY <4>6, <4>7, Zenon
    <3> QED
      BY <1>3, <3>1, <3>2, Zenon
  <2> QED
    BY <1>1, <2>1, <2>3, <2>4, Zenon DEF Says
<1> QED
  BY <1>2, <1>3, RequestFields, Zenon

-----------------------------------------------------------------------------
(* The bytes of a request as the Responder reads them.                     *)

LEMMA SmallBytes ==
  ASSUME NEW n \in 0 .. 255
  PROVE  Byte1(n) = 0 /\ Byte2(n) = 0 /\ Byte3(n) = 0 /\ Byte4(n) = n
BY SMT DEF Byte1, Byte2, Byte3, Byte4

LEMMA SmallSplat ==
  ASSUME NEW n \in 0 .. 255
  PROVE  FourBytes(splat_to_nbytes(4, n), 0, 0, 0, n)
<1>1. n \in Nat
  OBVIOUS
<1>2. FourBytes(splat_to_nbytes(4, n), Byte1(n), Byte2(n), Byte3(n), Byte4(n))
  BY <1>1, BytesOf, Splat4, Tuples, Zenon
<1> QED
  BY <1>2, SmallBytes, Zenon

LEMMA SmallUnsplat ==
  ASSUME NEW u, NEW n \in Nat, u[1] = 0, u[2] = 0, u[3] = 0, u[4] = n
  PROVE  unsplat_from_4bytes(u) = n
BY SMT DEF unsplat_from_4bytes, Huge

LEMMA SameUnsplat ==
  ASSUME NEW u, NEW v, u[1] = v[1], u[2] = v[2], u[3] = v[3], u[4] = v[4]
  PROVE  unsplat_from_4bytes(u) = unsplat_from_4bytes(v)
BY Zenon DEF unsplat_from_4bytes

LEMMA AtElements ==
  ASSUME NEW b \in Seq(Byte), NEW i \in Nat, NEW n \in Nat, i + n <= Len(b)
  PROVE  /\ At(b, i, n) \in Seq(Byte) /\ Len(At(b, i, n)) = n
         /\ \A k \in 1 .. n : At(b, i, n)[k] = b[i + k]
<1>1. \A k \in i + 1 .. i + n : b[k] \in Byte
  BY ElementOfSeq, LenProperties
<1>2. /\ SubSeq(b, i + 1, i + n) \in Seq(Byte)
      /\ Len(SubSeq(b, i + 1, i + n)) = IF i + 1 <= i + n THEN (i + n) - (i + 1) + 1 ELSE 0
      /\ \A k \in 1 .. (i + n) - (i + 1) + 1 : SubSeq(b, i + 1, i + n)[k] = b[(i + 1) + k - 1]
  BY <1>1, SubSeqProperties
<1>3. At(b, i, n) = SubSeq(b, i + 1, i + n)
  BY DEF At
<1>4. Len(At(b, i, n)) = n
  BY <1>2, <1>3
<1>5. ASSUME NEW k \in 1 .. n PROVE At(b, i, n)[k] = b[i + k]
  BY <1>2, <1>3
<1> QED
  BY <1>2, <1>3, <1>4, <1>5, Zenon

LEMMA AtAll ==
  ASSUME NEW b \in Seq(Byte)
  PROVE  At(b, 0, Len(b)) = b
<1>1. PICK n \in Nat : n = Len(b)
  BY LenProperties
<1>2. /\ At(b, 0, n) \in Seq(Byte) /\ Len(At(b, 0, n)) = n
      /\ \A k \in 1 .. n : At(b, 0, n)[k] = b[0 + k]
  <2>1. 0 \in Nat /\ 0 + n <= Len(b)
    BY <1>1
  <2> QED
    BY <2>1, AtElements, Zenon
<1>3. \A k \in 1 .. n : At(b, 0, n)[k] = b[k]
  BY <1>2
<1> QED
  BY <1>1, <1>2, <1>3, SeqEqual, Zenon

\* A message of at least 33 bytes, and of less than 256 behind the header, which
\* says so in its last byte.
Enveloped(b) ==
  /\ b \in Seq(Byte) /\ Len(b) \in 33 .. 267
  /\ \A k \in 1 .. 11 : b[k] = 0
  /\ b[12] = Len(b) - 12

LEMMA AddressedIsEnveloped ==
  ASSUME NEW b, NEW s \in Systems, NEW i, NEW addr, NEW n,
         Addressed(b, s, i, addr, n), Len(b) - EtherSize < 256
  PROVE  Enveloped(b)
<1>1. PICK l : l = Len(b)
  OBVIOUS
<1>2. PICK p \in Nat, r \in Nat : /\ p = Len(Spacewire[s].target_path_address)
                                 /\ r = Len(Spacewire[s].reply_path_address)
  BY PathLengths, Zenon
<1>3. b \in Seq(Byte) /\ l \in Nat /\ l >= 12 + p + r + 16
  <2>1. b \in Seq(Byte)
    BY Zenon DEF Addressed
  <2>2. Len(b) >= 12 + p + r + 16
    BY <1>2, Zenon DEF Addressed
  <2> QED
    BY <1>1, <2>1, <2>2, LenProperties
<1>4. p + r >= 5
  BY <1>2, AddressAssumption, Zenon
<1>5. l \in 33 .. 267 /\ l - 12 \in 0 .. 255
  <2>1. l - 12 < 256
    BY <1>1 DEF EtherSize
  <2> QED
    BY <1>3, <1>4, <2>1
<1>6. FourBytes(splat_to_nbytes(4, l - 12), 0, 0, 0, l - 12)
  BY <1>5, SmallSplat, Zenon
<1>7. /\ \A k \in 1 .. 8 : b[k] = 0
      /\ \A k \in 1 .. 4 : b[8 + k] = splat_to_nbytes(4, l - 12)[k]
  BY <1>1, Zenon DEF Addressed
<1>8. b[8 + 1] = 0 /\ b[8 + 2] = 0 /\ b[8 + 3] = 0 /\ b[8 + 4] = l - 12
  <2>1. 1 \in 1 .. 4 /\ 2 \in 1 .. 4 /\ 3 \in 1 .. 4 /\ 4 \in 1 .. 4
    OBVIOUS
  <2> QED
    BY <1>6, <1>7, <2>1, Zenon DEF FourBytes
<1>9. ASSUME NEW k \in 1 .. 11 PROVE b[k] = 0
  <2>1. k \in 1 .. 8 \/ k = 8 + 1 \/ k = 8 + 2 \/ k = 8 + 3
    OBVIOUS
  <2> QED
    BY <1>7, <1>8, <2>1, Zenon
<1>10. b[12] = l - 12
  BY <1>8
<1> QED
  BY <1>1, <1>3, <1>5, <1>9, <1>10, Zenon DEF Enveloped

LEMMA EnvelopeBytes ==
  ASSUME NEW b, Enveloped(b)
  PROVE  /\ b[1] = 0 /\ b[8] = 0 /\ b[9] = 0 /\ b[10] = 0 /\ b[11] = 0
         /\ b[12] = Len(b) - 12
<1>1. 1 \in 1 .. 11 /\ 8 \in 1 .. 11 /\ 9 \in 1 .. 11 /\ 10 \in 1 .. 11 /\ 11 \in 1 .. 11
  OBVIOUS
<1> QED
  BY <1>1, Zenon DEF Enveloped

\* What has arrived of a message is complete when all of it has.
LEMMA CompleteOfPrefix ==
  ASSUME NEW b, Enveloped(b), NEW a \in Seq(Byte), Len(a) <= Len(b),
         \A k \in 1 .. Len(a) : a[k] = b[k]
  PROVE  /\ Len(a) = Len(b) => Complete(a) = a
         /\ Len(a) # Len(b) => Complete(a) = <<>>
<1>1. PICK l \in 33 .. 267 : l = Len(b)
  BY Zenon DEF Enveloped
<1>2. PICK m \in Nat : m = Len(a) /\ m <= l
  BY <1>1, LenProperties
<1>3. CASE m < 12
  <2>1. ~ (Len(a) = 2 /\ a[1] # 0)
    <3>1. SUFFICES ASSUME Len(a) = 2 PROVE a[1] = 0
      BY Zenon
    <3>2. 1 \in 1 .. Len(a) /\ 1 \in 1 .. 11
      BY <3>1
    <3> QED
      BY <3>2, Zenon DEF Enveloped
  <2>2. ~ Len(a) >= EtherSize
    BY <1>2, <1>3 DEF EtherSize
  <2>3. Complete(a) = <<>>
    BY <2>1, <2>2, Zenon DEF Complete
  <2>4. m # l
    BY <1>3
  <2> QED
    BY <1>1, <1>2, <2>3, <2>4, Zenon
<1>4. CASE m >= 12
  <2>1. unsplat_from_4bytes(At(a, 8, 4)) = l - 12
    <3>1. 8 \in Nat /\ 4 \in Nat /\ 8 + 4 <= Len(a)
      BY <1>2, <1>4
    <3>2. \A k \in 1 .. 4 : At(a, 8, 4)[k] = a[8 + k]
      BY <3>1, AtElements, Zenon
    <3>3. \A k \in 1 .. 12 : a[k] = b[k]
      BY <1>2, <1>4
    <3>4. /\ At(a, 8, 4)[1] = b[9] /\ At(a, 8, 4)[2] = b[10]
          /\ At(a, 8, 4)[3] = b[11] /\ At(a, 8, 4)[4] = b[12]
      BY <3>2, <3>3
    <3>5. b[9] = 0 /\ b[10] = 0 /\ b[11] = 0 /\ b[12] = l - 12
      BY <1>1, EnvelopeBytes, Zenon
    <3>6. l - 12 \in Nat
      OBVIOUS
    <3> QED
      BY <3>4, <3>5, <3>6, SmallUnsplat, Zenon
  <2>2. Len(a) >= EtherSize
    BY <1>2, <1>4 DEF EtherSize
  <2>3. Complete(a) = IF Len(a) - EtherSize >= l - 12
                      THEN At(a, 0, EtherSize + (l - 12)) ELSE <<>>
    BY <2>1, <2>2, Zenon DEF Complete
  <2>4. Len(a) - EtherSize >= l - 12 <=> m = l
    BY <1>2 DEF EtherSize
  <2>5. EtherSize + (l - 12) = l
    BY DEF EtherSize
  <2>6. At(a, 0, Len(a)) = a
    BY AtAll, Zenon
  <2> QED
    BY <1>1, <1>2, <2>3, <2>4, <2>5, <2>6, Zenon
<1> QED
  BY <1>2, <1>3, <1>4

\* The checks at the start of make_reply find nothing wrong with it.
LEMMA NothingWrong ==
  ASSUME NEW b, Enveloped(b)
  PROVE  /\ b[1] = 0 /\ ~ Len(b) < 33
         /\ ~ Len(b) - EtherSize < unsplat_from_4bytes(At(b, 7, 4))
<1>1. PICK l \in 33 .. 267 : l = Len(b)
  BY Zenon DEF Enveloped
<1>2. b[8] = 0 /\ b[9] = 0 /\ b[10] = 0 /\ b[11] = 0 /\ b[1] = 0
  BY EnvelopeBytes, Zenon
<1>3. unsplat_from_4bytes(At(b, 7, 4)) = 0
  <2>0. b \in Seq(Byte)
    BY Zenon DEF Enveloped
  <2>1. 7 \in Nat /\ 4 \in Nat /\ 0 \in Nat /\ 7 + 4 <= Len(b)
    <3>1. 7 \in Nat /\ 4 \in Nat /\ 0 \in Nat /\ 7 + 4 <= l
      OBVIOUS
    <3> QED
      BY <1>1, <3>1, Zenon
  <2>2. \A k \in 1 .. 4 : At(b, 7, 4)[k] = b[7 + k]
    BY <2>0, <2>1, AtElements, Zenon
  <2>3. /\ At(b, 7, 4)[1] = 0 /\ At(b, 7, 4)[2] = 0 /\ At(b, 7, 4)[3] = 0
        /\ At(b, 7, 4)[4] = 0
    BY <1>2, <2>2
  <2> QED
    BY <2>1, <2>3, SmallUnsplat, Zenon
<1> QED
  <2>1. ~ l < 33 /\ ~ l - 12 < 0
    OBVIOUS
  <2> QED
    BY <1>1, <1>2, <1>3, <2>1, Zenon DEF EtherSize

LEMMA MinIs ==
  ASSUME NEW S, S \subseteq Nat, NEW m \in S, \A y \in S : m <= y
  PROVE  Min(S) = m
<1>1. \A x \in S : (\A y \in S : x <= y) => x = m
  <2>1. SUFFICES ASSUME NEW x \in S, \A y \in S : x <= y PROVE x = m
    OBVIOUS
  <2>2. x <= m /\ m <= x /\ x \in Nat /\ m \in Nat
    BY <2>1
  <2> QED
    BY <2>2
<1> QED
  BY <1>1, Zenon DEF Min

\* A logical address of some system at offset k.
Named(b, k) == \E t \in Systems : b[k + 1] = Spacewire[t].target_logical_address

LEMMA FirstIs ==
  ASSUME NEW b \in Seq(Byte), NEW m \in 0 .. Len(b) - 1, Named(b, m),
         \A k \in 0 .. m - 1 : ~ Named(b, k)
  PROVE  FirstAddress(b) = m
<1>1. PICK n \in Nat : n = Len(b)
  BY LenProperties
<1>2. PICK S : S = {n} \cup {k \in 0 .. n - 1 : Named(b, k)}
  OBVIOUS
<1>3. S \subseteq Nat
  BY <1>2
<1>4. m \in S /\ m \in Nat
  BY <1>1, <1>2
<1>5. ASSUME NEW y \in S PROVE m <= y
  <2>1. CASE y = n
    BY <1>1, <2>1
  <2>2. CASE y # n
    <3>1. y \in 0 .. n - 1 /\ Named(b, y)
      BY <1>2, <2>2, Zenon
    <3>2. y \notin 0 .. m - 1
      BY <3>1, Zenon
    <3> QED
      BY <1>4, <3>1, <3>2
  <2> QED
    BY <2>1, <2>2, Zenon
<1>6. Min(S) = m
  BY <1>3, <1>4, <1>5, MinIs, Zenon
<1>7. FirstAddress(b)
        = Min({Len(b)} \cup {k \in 0 .. Len(b) - 1 : Named(b, k)})
  BY Zenon DEF FirstAddress, Named
<1> QED
  BY <1>1, <1>2, <1>6, <1>7, Zenon

\* What AddressAssumption says of a system.
LEMMA Addresses ==
  ASSUME NEW s \in Systems
  PROVE  /\ Spacewire[s].target_logical_address \in Byte
         /\ Spacewire[s].target_logical_address >= 10 /\ Spacewire[s].key = 2
         /\ Len(Spacewire[s].target_path_address) >= 1
         /\ Spacewire[s].target_path_address[1] # 1
         /\ \A k \in 1 .. Len(Spacewire[s].target_path_address) : \A t \in Systems :
              Spacewire[s].target_path_address[k] # Spacewire[t].target_logical_address
         /\ \A t \in Systems : Spacewire[t].target_logical_address
                                 = Spacewire[s].target_logical_address => t = s
<1>1. PICK w \in SpaceWire : w = Spacewire[s]
  BY SpacewireType, Zenon
<1>2. w.target_path_address \in Seq(Byte) /\ w.target_logical_address \in Byte
  BY DEF SpaceWire
<1>3. w.target_path_address # <<>>
  BY <1>1, AddressAssumption, Zenon
<1>4. /\ Len(w.target_path_address) >= 1
      /\ DOMAIN w.target_path_address = 1 .. Len(w.target_path_address)
  BY <1>2, <1>3, LenProperties, EmptySeq
<1>5. \A k \in DOMAIN Spacewire[s].target_path_address : \A t \in Systems :
              Spacewire[s].target_path_address[k] # Spacewire[t].target_logical_address
  BY AddressAssumption, Zenon
<1>6. \A t \in Systems : Spacewire[t].target_logical_address
                                 = Spacewire[s].target_logical_address => t = s
  BY AddressAssumption, Zenon
<1>7. /\ Spacewire[s].target_logical_address >= 10 /\ Spacewire[s].key = 2
      /\ Spacewire[s].target_path_address[1] # 1
  BY AddressAssumption, Zenon
<1> QED
  BY <1>1, <1>2, <1>4, <1>5, <1>6, <1>7, Zenon

\* A message whose length is taken for an address has no sender; any other is
\* taken for one to the system that it is addressed to.
LEMMA Sender ==
  ASSUME NEW b, NEW s \in Systems, NEW i, NEW addr, NEW n,
         Addressed(b, s, i, addr, n), Enveloped(b)
  PROVE  /\ Named(b, 11) => identify_sender(b) = Null
         /\ ~ Named(b, 11) => identify_sender(b) = s
<1>1. PICK l \in Nat, p \in Nat, r \in Nat :
        /\ l = Len(b)
        /\ p = Len(Spacewire[s].target_path_address)
        /\ r = Len(Spacewire[s].reply_path_address)
  BY PathLengths, LenProperties DEF Addressed
<1>2. l >= 12 + p + r + 16 /\ p >= 1 /\ b \in Seq(Byte)
  BY <1>1, Addresses, Zenon DEF Addressed
<1>3. /\ \A k \in 1 .. p : b[12 + k] = Spacewire[s].target_path_address[k]
      /\ b[12 + p + 1] = Spacewire[s].target_logical_address
      /\ b[12 + p + 2] = 1 /\ b[12 + p + 4] = Spacewire[s].key
  BY <1>1, Zenon DEF Addressed
<1>4. ASSUME NEW k \in 0 .. 10 PROVE ~ Named(b, k)
  <2>1. k + 1 \in 1 .. 11
    OBVIOUS
  <2>2. b[k + 1] = 0
    BY <2>1, Zenon DEF Enveloped
  <2>3. \A t \in Systems : Spacewire[t].target_logical_address # 0
    <3>1. TAKE t \in Systems
    <3>2. Spacewire[t].target_logical_address >= 10
      BY Addresses, Zenon
    <3> QED
      BY <3>2
  <2> QED
    BY <2>2, <2>3, Zenon DEF Named
<1>5. CASE Named(b, 11)
  <2>1. FirstAddress(b) = 11
    <3>0. l \in Nat /\ p \in Nat /\ r \in Nat
      BY <1>1
    <3>3. 11 \in 0 .. l - 1 /\ 11 - 1 = 10
      BY <1>2, <3>0
    <3>1. 11 \in 0 .. Len(b) - 1 /\ 11 - 1 = 10
      BY <1>1, <3>3, Zenon
    <3>2. \A k \in 0 .. 11 - 1 : ~ Named(b, k)
      BY <1>4, <3>1, Zenon
    <3> QED
      BY <1>2, <1>5, <3>1, <3>2, FirstIs, Zenon
  <2>2. b[11 + 2] # 1
    <3>1. 1 \in 1 .. p /\ 12 + 1 = 11 + 2
      BY <1>2
    <3>2. b[12 + 1] = Spacewire[s].target_path_address[1]
      BY <1>3, <3>1, Zenon
    <3>3. Spacewire[s].target_path_address[1] # 1
      BY Addresses, Zenon
    <3> QED
      BY <3>1, <3>2, <3>3, Zenon
  <2>3. {t \in Systems : /\ 11 < Len(b) - 4
                         /\ b[11 + 2] = 1 /\ b[11 + 4] = 2
                         /\ b[11 + 1] = Spacewire[t].target_logical_address} = {}
    BY <2>2, Zenon
  <2>4. identify_sender(b) = Null
    BY <2>1, <2>3, Zenon DEF identify_sender
  <2> QED
    BY <1>5, <2>4, Zenon
<1>6. CASE ~ Named(b, 11)
  <2>1. PICK m \in Nat : m = 12 + p
    OBVIOUS
  <2>2. FirstAddress(b) = m
    <3>0. m \in 0 .. l - 1
      BY <1>2, <2>1
    <3>1. m \in 0 .. Len(b) - 1
      BY <1>1, <3>0, Zenon
    <3>2. Named(b, m)
      BY <1>3, <2>1, Zenon DEF Named
    <3>3. ASSUME NEW k \in 0 .. m - 1 PROVE ~ Named(b, k)
      <4>1. k \in 0 .. 10 \/ k = 11 \/ k - 11 \in 1 .. p
        BY <2>1
      <4>2. CASE k - 11 \in 1 .. p
        <5>1. 12 + (k - 11) = k + 1
          OBVIOUS
        <5>2. b[k + 1] = Spacewire[s].target_path_address[k - 11]
          BY <1>3, <4>2, <5>1
        <5>3. \A t \in Systems : Spacewire[s].target_path_address[k - 11]
                                   # Spacewire[t].target_logical_address
          BY <1>1, <4>2, Addresses, Zenon
        <5> QED
          BY <5>2, <5>3, Zenon DEF Named
      <4> QED
        BY <1>4, <1>6, <4>1, <4>2, Zenon
    <3> QED
      BY <1>2, <3>1, <3>2, <3>3, FirstIs, Zenon
  <2>3. /\ m < Len(b) - 4
        /\ b[m + 2] = 1 /\ b[m + 4] = 2
        /\ b[m + 1] = Spacewire[s].target_logical_address
    <3>1. m < l - 4
      BY <1>2, <2>1
    <3> QED
      BY <1>1, <1>3, <2>1, <3>1, Addresses, Zenon
  <2>4. {t \in Systems : /\ m < Len(b) - 4
                         /\ b[m + 2] = 1 /\ b[m + 4] = 2
                         /\ b[m + 1] = Spacewire[t].target_logical_address} = {s}
    <3>1. \A t \in Systems :
            b[m + 1] = Spacewire[t].target_logical_address <=> t = s
      BY <2>3, Addresses, Zenon
    <3>2. \A t : t \in {u \in Systems :
                         /\ m < Len(b) - 4
                         /\ b[m + 2] = 1 /\ b[m + 4] = 2
                         /\ b[m + 1] = Spacewire[u].target_logical_address} <=> t \in {s}
      BY <2>3, <3>1, Zenon
    <3> QED
      BY <3>2, Zenon
  <2>5. identify_sender(b) = CHOOSE t \in {s} : TRUE
    <3>1. {s} # {}
      OBVIOUS
    <3> QED
      BY <2>2, <2>4, <3>1, Zenon DEF identify_sender
  <2>6. identify_sender(b) = s
    BY <2>5
  <2> QED
    BY <1>6, <2>6, Zenon
<1> QED
  BY <1>5, <1>6, Zenon

\* The fields of a message b are those that it was made from.
Parsed(s, b, i, addr, n) ==
  /\ Parse(s, b).instruction = i
  /\ Parse(s, b).do_write = ((i \div 32) % 2 = 1)
  /\ Parse(s, b).do_reply = ((i \div 8) % 2 = 1)
  /\ Parse(s, b).address = unsplat_from_4bytes(addr)
  /\ Parse(s, b).length = n
  /\ Parse(s, b).data_from = HeaderEnd(s)
  /\ Holds(s, b) <=> (Parse(s, b).do_write => Len(b) - HeaderEnd(s) >= n)

LEMMA FieldsFit ==
  ASSUME NEW e \in Nat, NEW l \in Nat, e + 12 <= l
  PROVE  /\ e + 4 \in Nat /\ 4 \in Nat /\ (e + 4) + 4 <= l
         /\ e + 8 \in Nat /\ 3 \in Nat /\ (e + 8) + 3 <= l
OBVIOUS

LEMMA FieldElements ==
  ASSUME NEW b \in Seq(Byte), NEW e \in Nat, e + 12 <= Len(b)
  PROVE  /\ \A k \in 1 .. 4 : At(b, e + 4, 4)[k] = b[(e + 4) + k]
         /\ At(b, e + 8, 3) \in Seq(Byte) /\ Len(At(b, e + 8, 3)) = 3
         /\ \A k \in 1 .. 3 : At(b, e + 8, 3)[k] = b[(e + 8) + k]
<1>1. PICK l \in Nat : l = Len(b)
  BY LenProperties
<1>2. PICK x \in Nat, y \in Nat : x = e + 4 /\ y = e + 8
  OBVIOUS
<1>3. x + 4 <= Len(b) /\ y + 3 <= Len(b) /\ 3 \in Nat /\ 4 \in Nat
  BY <1>1, <1>2, FieldsFit
<1>4. \A k \in 1 .. 4 : At(b, x, 4)[k] = b[x + k]
  BY <1>3, AtElements, Zenon
<1>5. /\ At(b, y, 3) \in Seq(Byte) /\ Len(At(b, y, 3)) = 3
      /\ \A k \in 1 .. 3 : At(b, y, 3)[k] = b[y + k]
  BY <1>3, AtElements, Zenon
<1> QED
  BY <1>2, <1>4, <1>5, Zenon

LEMMA ParseOf ==
  ASSUME NEW b, NEW s \in Systems, NEW i \in Byte, NEW addr, NEW n \in Length,
         Addressed(b, s, i, addr, n),
         Len(Spacewire[s].reply_path_address) = 4 * (i % 4)
  PROVE  Parsed(s, b, i, addr, n)
<1> DEFINE path == EtherSize + Len(Spacewire[s].target_path_address)
           inst == b[path + 3]
           base == path + 4 + 4 * (inst % 4)
<1>1. /\ Parse(s, b).instruction = inst
      /\ Parse(s, b).do_write = ((inst \div 32) % 2 = 1)
      /\ Parse(s, b).do_reply = ((inst \div 8) % 2 = 1)
      /\ Parse(s, b).address = unsplat_from_4bytes(At(b, base + 4, 4))
      /\ Parse(s, b).length = unsplat_from_4bytes(<<0>> \o At(b, base + 8, 3))
      /\ Parse(s, b).data_from = base + 12
  BY Zenon DEF Parse
<1>2. Holds(s, b) <=> /\ Len(b) >= path + 3
                      /\ Len(b) >= base + 11
                      /\ Parse(s, b).do_write =>
                           Len(b) - Parse(s, b).data_from >= Parse(s, b).length
  BY Zenon DEF Holds
<1>3. PICK l \in Nat, p \in Nat, r \in Nat :
        /\ l = Len(b)
        /\ p = Len(Spacewire[s].target_path_address)
        /\ r = Len(Spacewire[s].reply_path_address)
  BY PathLengths, LenProperties DEF Addressed
<1>4. l >= 12 + p + r + 16 /\ b \in Seq(Byte)
  BY <1>3, Zenon DEF Addressed
<1>5. path = 12 + p
  BY <1>3, Zenon DEF EtherSize
<1>6. inst = i
  BY <1>3, <1>5, Zenon DEF Addressed
<1>7. PICK e \in Nat : e = 12 + p + r + 4
  OBVIOUS
<1>8. base = e
  <2>1. base = 12 + p + 4 + r
    BY <1>3, <1>5, <1>6, Zenon
  <2>2. 12 + p + 4 + r = e
    BY <1>7
  <2> QED
    BY <2>1, <2>2, Zenon
<1> HIDE DEF base, inst, path
<1>15. e + 12 <= l
  BY <1>4, <1>7
<1>9. HeaderEnd(s) = e + 12
  <2>1. HeaderEnd(s) = 12 + p + r + 16
    BY <1>3, Zenon DEF HeaderEnd
  <2> QED
    BY <1>7, <2>1
<1>10. /\ \A k \in 1 .. 4 : b[12 + p + r + 8 + k] = addr[k]
       /\ \A k \in 1 .. 3 : b[12 + p + r + 12 + k] = splat_to_nbytes(3, n)[k]
  BY <1>3, Zenon DEF Addressed
<1>11. unsplat_from_4bytes(At(b, e + 4, 4)) = unsplat_from_4bytes(addr)
  <2>2. \A k \in 1 .. 4 : At(b, e + 4, 4)[k] = b[(e + 4) + k]
    BY <1>3, <1>4, <1>15, FieldElements, Zenon
  <2>3. ASSUME NEW k \in 1 .. 4 PROVE At(b, e + 4, 4)[k] = addr[k]
    <3>1. (e + 4) + k = 12 + p + r + 8 + k
      BY <1>7
    <3> QED
      BY <1>10, <2>2, <3>1, Zenon
  <2>4. 1 \in 1 .. 4 /\ 2 \in 1 .. 4 /\ 3 \in 1 .. 4 /\ 4 \in 1 .. 4
    OBVIOUS
  <2> QED
    BY <2>3, <2>4, SameUnsplat, Zenon
<1>12. At(b, e + 8, 3) = splat_to_nbytes(3, n)
  <2>2. /\ At(b, e + 8, 3) \in Seq(Byte) /\ Len(At(b, e + 8, 3)) = 3
        /\ \A k \in 1 .. 3 : At(b, e + 8, 3)[k] = b[(e + 8) + k]
    BY <1>3, <1>4, <1>15, FieldElements, Zenon
  <2>3. ASSUME NEW k \in 1 .. 3 PROVE At(b, e + 8, 3)[k] = splat_to_nbytes(3, n)[k]
    <3>1. (e + 8) + k = 12 + p + r + 12 + k
      BY <1>7
    <3> QED
      BY <1>10, <2>2, <3>1, Zenon
  <2>4. splat_to_nbytes(3, n) \in Seq(Byte) /\ Len(splat_to_nbytes(3, n)) = 3
    BY LengthIsNat, SplatIsBytes, Zenon
  <2> QED
    BY <2>2, <2>3, <2>4, SeqEqual, Zenon
<1>13. unsplat_from_4bytes(<<0>> \o splat_to_nbytes(3, n)) = n
  BY UnsplatOfSplat3, Zenon DEF Length
<1>14. l >= (12 + p) + 3 /\ l >= e + 11
  BY <1>4, <1>7
<1> QED
  <2>1. /\ Parse(s, b).do_write = ((i \div 32) % 2 = 1)
        /\ Parse(s, b).do_reply = ((i \div 8) % 2 = 1)
        /\ Parse(s, b).instruction = i
    BY <1>1, <1>6, Zenon
  <2>2. Parse(s, b).address = unsplat_from_4bytes(addr) /\ Parse(s, b).data_from = HeaderEnd(s)
    BY <1>1, <1>8, <1>9, <1>11, Zenon
  <2>3. Parse(s, b).length = n
    BY <1>1, <1>8, <1>12, <1>13, Zenon
  <2>4. Holds(s, b) <=> (Parse(s, b).do_write => Len(b) - HeaderEnd(s) >= n)
    BY <1>2, <1>3, <1>5, <1>8, <1>14, <2>2, <2>3, Zenon
  <2> QED
    BY <2>1, <2>2, <2>3, <2>4, Zenon DEF Parsed

-----------------------------------------------------------------------------
(* Replies: get_reply_data takes out of a reply what ReadReply puts in.     *)

\* A reply with a header t and data d.
Reply(t, d) ==
  LET packet == t \o <<Crc(t)>> \o d \o <<Crc(d)>>
  IN  get_spw_ether_header(packet) \o packet

LEMMA ReplyOf ==
  ASSUME CrcIsAByte, NEW t \in Seq(Byte), Len(t) = 11, NEW d \in Seq(Byte), NEW n \in Length,
         Len(d) = n, \A k \in 1 .. 3 : t[8 + k] = splat_to_nbytes(3, n)[k]
  PROVE  Reply(t, d) \in Seq(Byte) /\ get_reply_data(Reply(t, d)) = d
<1>0. n \in Nat
  BY LengthIsNat
<1>1. PICK c : c = <<Crc(t)>> /\ OneByte(c, Crc(t))
  BY Tuples, Zenon DEF CrcIsAByte
<1>2. PICK e : e = <<Crc(d)>> /\ OneByte(e, Crc(d))
  BY Tuples, Zenon DEF CrcIsAByte
<1>3. PICK u : u = t \o c /\ Joins(u, t, c, 11, 1)
  <2>1. c \in Seq(Byte) /\ Len(c) = 1
    BY <1>1, Zenon DEF OneByte
  <2> QED
    BY <2>1, Joined, Zenon
<1>4. PICK v : v = u \o d /\ Joins(v, u, d, 11 + 1, n)
  <2>1. u \in Seq(Byte) /\ Len(u) = 11 + 1
    BY <1>3, Zenon DEF Joins
  <2> QED
    BY <2>1, Joined, Zenon
<1>5. PICK w : w = v \o e /\ Joins(w, v, e, (11 + 1) + n, 1)
  <2>1. v \in Seq(Byte) /\ Len(v) = (11 + 1) + n
    BY <1>4, Zenon DEF Joins
  <2>2. e \in Seq(Byte) /\ Len(e) = 1
    BY <1>2, Zenon DEF OneByte
  <2> QED
    BY <2>1, <2>2, Joined, Zenon
<1>6. w \in Seq(Byte) /\ Len(w) = ((11 + 1) + n) + 1
  BY <1>5, Zenon DEF Joins
<1>7. PICK b : b = get_spw_ether_header(w) \o w
  OBVIOUS
<1>8. /\ b \in Seq(Byte) /\ Len(b) = 12 + Len(w)
      /\ \A k \in 1 .. Len(w) : b[12 + k] = w[k]
  BY <1>6, <1>7, EtherFields, Zenon
<1>9. Len(b) = 25 + n
  <2>1. 12 + (((11 + 1) + n) + 1) = 25 + n
    BY <1>0
  <2> QED
    BY <1>6, <1>8, <2>1, Zenon
<1>10. ASSUME NEW k \in 1 .. 3 PROVE b[20 + k] = splat_to_nbytes(3, n)[k]
  <2>1. /\ 8 + k \in 1 .. ((11 + 1) + n) + 1 /\ 8 + k \in 1 .. (11 + 1) + n
        /\ 8 + k \in 1 .. 11 + 1 /\ 8 + k \in 1 .. 11 /\ 12 + (8 + k) = 20 + k
    BY <1>0
  <2>2. b[12 + (8 + k)] = w[8 + k]
    BY <1>6, <1>8, <2>1, Zenon
  <2>3. w[8 + k] = v[8 + k] /\ v[8 + k] = u[8 + k] /\ u[8 + k] = t[8 + k]
    BY <1>3, <1>4, <1>5, <2>1, Zenon DEF Joins
  <2> QED
    BY <2>1, <2>2, <2>3, Zenon
<1>11. ASSUME NEW k \in 1 .. n PROVE b[24 + k] = d[k]
  <2>1. /\ (11 + 1) + k \in 1 .. ((11 + 1) + n) + 1 /\ (11 + 1) + k \in 1 .. (11 + 1) + n
        /\ 12 + ((11 + 1) + k) = 24 + k
    BY <1>0
  <2>2. b[12 + ((11 + 1) + k)] = w[(11 + 1) + k]
    BY <1>6, <1>8, <2>1, Zenon
  <2>3. w[(11 + 1) + k] = v[(11 + 1) + k] /\ v[(11 + 1) + k] = d[k]
    BY <1>4, <1>5, <2>1, Zenon DEF Joins
  <2> QED
    BY <2>1, <2>2, <2>3, Zenon
<1>12. At(b, 20, 3) = splat_to_nbytes(3, n)
  <2>1. 20 \in Nat /\ 3 \in Nat /\ 20 + 3 <= Len(b)
    BY <1>0, <1>9
  <2>2. /\ At(b, 20, 3) \in Seq(Byte) /\ Len(At(b, 20, 3)) = 3
        /\ \A k \in 1 .. 3 : At(b, 20, 3)[k] = b[20 + k]
    BY <1>8, <2>1, AtElements, Zenon
  <2>3. splat_to_nbytes(3, n) \in Seq(Byte) /\ Len(splat_to_nbytes(3, n)) = 3
    BY <1>0, SplatIsBytes, Zenon
  <2> QED
    <3>1. \A k \in 1 .. 3 : At(b, 20, 3)[k] = splat_to_nbytes(3, n)[k]
      BY <1>10, <2>2, Zenon
    <3>2. PICK x \in Seq(Byte) : x = At(b, 20, 3)
      BY <2>2, Zenon
    <3>3. PICK y \in Seq(Byte) : y = splat_to_nbytes(3, n)
      BY <2>3, Zenon
    <3>4. Len(x) = 3 /\ Len(y) = 3 /\ \A k \in 1 .. 3 : x[k] = y[k]
      BY <2>2, <2>3, <3>1, <3>2, <3>3, Zenon
    <3>5. x = y
      BY <3>4, SeqEqual
    <3> QED
      BY <3>2, <3>3, <3>5, Zenon
<1>13. unsplat_from_4bytes(<<0>> \o At(b, 20, 3)) = n
  BY <1>12, UnsplatOfSplat3, Zenon DEF Length
<1>14. At(b, 24, n) = d
  <2>1. 24 \in Nat /\ 24 + n <= Len(b)
    BY <1>0, <1>9
  <2>2. /\ At(b, 24, n) \in Seq(Byte) /\ Len(At(b, 24, n)) = n
        /\ \A k \in 1 .. n : At(b, 24, n)[k] = b[24 + k]
    BY <1>0, <1>8, <2>1, AtElements, Zenon
  <2> QED
    <3>1. \A k \in 1 .. n : At(b, 24, n)[k] = d[k]
      BY <1>11, <2>2, Zenon
    <3> QED
      BY <2>2, <3>1, SeqEqual, Zenon
<1>15. get_reply_data(b) = d
  <2>1. EtherSize + 13 = 25 /\ EtherSize + 8 = 20 /\ EtherSize + 12 = 24
    BY DEF EtherSize
  <2>2. ~ 25 + n < 25 /\ ~ (25 + n) - 25 < n
    BY <1>0
  <2> QED
    BY <1>9, <1>13, <1>14, <2>1, <2>2, Zenon DEF get_reply_data
<1>16. b = Reply(t, d)
  BY <1>1, <1>2, <1>3, <1>4, <1>5, <1>7, Zenon DEF Reply
<1> QED
  BY <1>8, <1>15, <1>16, Zenon

LEMMA EightElements ==
  ASSUME NEW a1 \in Byte, NEW a2 \in Byte, NEW a3 \in Byte, NEW a4 \in Byte,
         NEW a5 \in Byte, NEW a6 \in Byte, NEW a7 \in Byte, NEW a8 \in Byte
  PROVE  /\ <<a1, a2, a3, a4, a5, a6, a7, a8>> \in Seq(Byte)
         /\ Len(<<a1, a2, a3, a4, a5, a6, a7, a8>>) = 8
OBVIOUS

LEMMA ReadReplyOf ==
  ASSUME CrcIsAByte, NEW s \in Systems, NEW p, NEW stray \in Byte, p.instruction \in Byte,
         p.initiator \in Byte, p.id \in Byte, p.length \in Length,
         NEW d, d = [k \in 1 .. p.length |-> mmaps[s][p.address + k - 1]],
         \A k \in 1 .. p.length : mmaps[s][p.address + k - 1] \in Byte
  PROVE  ReadReply(s, p, stray) \in Seq(Byte) /\ get_reply_data(ReadReply(s, p, stray)) = d
<1>0. PICK n \in Length : n = p.length /\ n \in Nat
  BY LengthIsNat
<1>1. d \in Seq(Byte) /\ Len(d) = n
  <2>1. d \in [1 .. n -> Byte]
    BY <1>0
  <2> QED
    BY <1>0, <2>1, FunctionIsSeq, Zenon
<1>2. PICK a \in Byte, x \in Byte, y \in Byte, z \in Byte :
        /\ a = p.initiator /\ x = (p.instruction % 4) + 8
        /\ y = Spacewire[s].source_logical_address /\ z = p.id
  <2>1. (p.instruction % 4) + 8 \in Byte
    BY SomeBytes, Zenon
  <2>2. Spacewire[s].source_logical_address \in Byte
    BY SpacewireType DEF SpaceWire
  <2> QED
    BY <2>1, <2>2, Zenon
<1>3. PICK f : /\ f = <<a, 1, x, 0, y, z, stray, 0>>
               /\ f \in Seq(Byte) /\ Len(f) = 8
  <2>1. 0 \in Byte /\ 1 \in Byte
    BY SomeBytes, Zenon
  <2> QED
    <3>1. /\ <<a, 1, x, 0, y, z, stray, 0>> \in Seq(Byte)
          /\ Len(<<a, 1, x, 0, y, z, stray, 0>>) = 8
      BY <2>1, EightElements
    <3> QED
      BY <3>1, Zenon
<1>4. PICK l : l = splat_to_nbytes(3, n) /\ l \in Seq(Byte) /\ Len(l) = 3
  BY <1>0, SplatIsBytes, Zenon
<1>5. PICK t : t = f \o l /\ Joins(t, f, l, 8, 3)
  BY <1>3, <1>4, Joined, Zenon
<1>6. t \in Seq(Byte) /\ Len(t) = 11 /\ \A k \in 1 .. 3 : t[8 + k] = l[k]
  <2>1. 8 + 3 = 11
    OBVIOUS
  <2> QED
    BY <1>5, <2>1, Zenon DEF Joins
<1>7. Reply(t, d) \in Seq(Byte) /\ get_reply_data(Reply(t, d)) = d
  <2>1. \A k \in 1 .. 3 : t[8 + k] = splat_to_nbytes(3, n)[k]
    BY <1>4, <1>6, Zenon
  <2> QED
    BY <1>1, <1>6, <2>1, ReplyOf, Zenon
<1>8. t = <<p.initiator, 1, (p.instruction % 4) + 8, 0, Spacewire[s].source_logical_address,
            p.id, stray, 0>> \o splat_to_nbytes(3, p.length)
  BY <1>0, <1>2, <1>3, <1>4, <1>5, Zenon
<1>9. ReadReply(s, p, stray) = Reply(t, d)
  BY <1>8, Zenon DEF ReadReply, Reply
<1> QED
  BY <1>7, <1>9, Zenon

-----------------------------------------------------------------------------
(* Any bytes as the Responder reads them.                                  *)

LEMMA UnsplatBytes ==
  ASSUME NEW u, u[1] \in Byte, u[2] \in Byte, u[3] \in Byte, u[4] \in Byte
  PROVE  unsplat_from_4bytes(u) \in Nat
<1>1. PICK a \in Byte, b \in Byte, c \in Byte, d \in Byte :
        a = u[1] /\ b = u[2] /\ c = u[3] /\ d = u[4]
  OBVIOUS
<1>2. PICK v : /\ v = <<a, b, c, d>>
               /\ v[1] = a /\ v[2] = b /\ v[3] = c /\ v[4] = d
  <2>1. PICK v : v = <<a, b, c, d>> /\ FourBytes(v, a, b, c, d)
    BY Tuples, Zenon
  <2> QED
    BY <2>1, Zenon DEF FourBytes
<1>3. unsplat_from_4bytes(v) \in Nat
  BY <1>2, UnsplatType, Zenon
<1> QED
  BY <1>1, <1>2, <1>3, SameUnsplat, Zenon

LEMMA UnsplatThree ==
  ASSUME NEW u \in Seq(Byte), Len(u) = 3
  PROVE  unsplat_from_4bytes(<<0>> \o u) \in Length
<1>1. PICK b \in Byte, c \in Byte, d \in Byte : b = u[1] /\ c = u[2] /\ d = u[3]
  <2>1. 1 \in 1 .. 3 /\ 2 \in 1 .. 3 /\ 3 \in 1 .. 3
    OBVIOUS
  <2> QED
    BY <2>1, ElementOfSeq, Zenon
<1>2. u = <<b, c, d>>
  <2>1. u \in [1 .. 3 -> Byte]
    BY LenProperties
  <2> QED
    BY <1>1, <2>1, ThreeElements, Zenon
<1>3. unsplat_from_4bytes(<<0, b, c, d>>) \in Length
  <2>1. 0 \in Byte /\ 0 <= 127
    BY SMT DEF Byte
  <2>2. unsplat_from_4bytes(<<0, b, c, d>>) = 0 * 16777216 + b * 65536 + c * 256 + d
    BY <2>1, Unsplat, SMT
  <2>3. 2 ^ 24 = 16777216
    BY SMT
  <2> QED
    BY <2>2, <2>3, SMT DEF Byte, Length
<1> QED
  BY <1>2, <1>3, ZeroInFront, Zenon

LEMMA ParseType ==
  ASSUME NEW s \in Systems, NEW b \in Seq(Byte), Holds(s, b), NEW p, p = Parse(s, b)
  PROVE  /\ p.instruction \in Byte /\ p.initiator \in Byte /\ p.id \in Byte
         /\ p.address \in Nat /\ p.length \in Length /\ p.data_from \in Nat
         /\ p.do_write => p.data_from + p.length <= Len(b)
<1> DEFINE path == EtherSize + Len(Spacewire[s].target_path_address)
           inst == b[path + 3]
           base == path + 4 + 4 * (inst % 4)
<1>1. /\ p.instruction = inst /\ p.initiator = b[base + 1] /\ p.id = b[base + 2]
      /\ p.address = unsplat_from_4bytes(At(b, base + 4, 4))
      /\ p.length = unsplat_from_4bytes(<<0>> \o At(b, base + 8, 3))
      /\ p.data_from = base + 12
  BY Zenon DEF Parse
<1>2. /\ Len(b) >= path + 3 /\ Len(b) >= base + 11
      /\ p.do_write => Len(b) - p.data_from >= p.length
  BY Zenon DEF Holds
<1>3. PICK f \in Nat : f = path
  <2>1. PICK x \in Nat : x = Len(Spacewire[s].target_path_address)
    BY PathLengths, Zenon
  <2>2. path = 12 + x
    BY <2>1, Zenon DEF EtherSize
  <2>3. 12 + x \in Nat
    OBVIOUS
  <2> QED
    BY <2>2, <2>3, Zenon
<1>4. PICK l \in Nat : l = Len(b)
  BY LenProperties
<1>5. l >= f + 3
  BY <1>2, <1>3, <1>4, Zenon
<1>6. PICK i \in Byte : i = inst
  <2>1. f + 3 \in 1 .. l
    BY <1>5
  <2>2. b[f + 3] \in Byte
    BY <1>4, <2>1, ElementOfSeq, Zenon
  <2> QED
    BY <1>3, <2>2, Zenon
<1>7. PICK e \in Nat : e = base
  <2>1. f + 4 + 4 * (i % 4) \in Nat
    BY DEF Byte
  <2> QED
    BY <1>3, <1>6, <2>1, Zenon
<1> HIDE DEF base, inst, path
<1>8. l >= e + 11
  BY <1>2, <1>4, <1>7, Zenon
<1>9. b[e + 1] \in Byte /\ b[e + 2] \in Byte
  <2>1. e + 1 \in 1 .. l /\ e + 2 \in 1 .. l
    BY <1>8
  <2> QED
    BY <1>4, <2>1, ElementOfSeq, Zenon
<1>10. unsplat_from_4bytes(At(b, e + 4, 4)) \in Nat
  <2>1. e + 4 \in Nat /\ 4 \in Nat /\ (e + 4) + 4 <= l
    BY <1>8
  <2>2. At(b, e + 4, 4) \in Seq(Byte) /\ Len(At(b, e + 4, 4)) = 4
    BY <1>4, <2>1, AtElements, Zenon
  <2>3. /\ 1 \in 1 .. 4 /\ 2 \in 1 .. 4 /\ 3 \in 1 .. 4 /\ 4 \in 1 .. 4
    OBVIOUS
  <2> QED
    BY <2>2, <2>3, ElementOfSeq, UnsplatBytes, Zenon
<1>11. unsplat_from_4bytes(<<0>> \o At(b, e + 8, 3)) \in Length
  <2>1. e + 8 \in Nat /\ 3 \in Nat /\ (e + 8) + 3 <= l
    BY <1>8
  <2>2. At(b, e + 8, 3) \in Seq(Byte) /\ Len(At(b, e + 8, 3)) = 3
    BY <1>4, <2>1, AtElements, Zenon
  <2> QED
    BY <2>2, UnsplatThree, Zenon
<1>12. p.do_write => p.data_from + p.length <= Len(b)
  <2>1. PICK n \in Nat : n = p.length
    BY <1>1, <1>7, <1>11, LengthIsNat, Zenon
  <2>2. p.do_write => l - (e + 12) >= n
    BY <1>1, <1>2, <1>4, <1>7, <2>1, Zenon
  <2>3. l - (e + 12) >= n => (e + 12) + n <= l
    OBVIOUS
  <2> QED
    BY <1>1, <1>4, <1>7, <2>1, <2>2, <2>3, Zenon
<1>13. e + 12 \in Nat
  OBVIOUS
<1> QED
  BY <1>1, <1>6, <1>7, <1>9, <1>10, <1>11, <1>12, <1>13, Zenon

LEMMA SenderType ==
  ASSUME NEW b
  PROVE  identify_sender(b) \in Systems \cup {Null}
<1> DEFINE named == {s \in Systems :
                       /\ FirstAddress(b) < Len(b) - 4
                       /\ b[FirstAddress(b) + 2] = 1 /\ b[FirstAddress(b) + 4] = 2
                       /\ b[FirstAddress(b) + 1] = Spacewire[s].target_logical_address}
<1>1. identify_sender(b) = IF named = {} THEN Null ELSE CHOOSE s \in named : TRUE
  BY Zenon DEF identify_sender
<1>2. named \subseteq Systems
  OBVIOUS
<1> HIDE DEF named
<1> QED
  BY <1>1, <1>2

LEMMA CompleteType ==
  ASSUME NEW a \in Seq(Byte)
  PROVE  Complete(a) \in Seq(Byte)
<1>1. PICK l \in Nat : l = Len(a)
  BY LenProperties
<1>2. <<>> \in Seq(Byte)
  BY EmptySeq, Zenon
<1>3. CASE l >= 12
  <2>1. PICK n \in Nat : n = unsplat_from_4bytes(At(a, 8, 4))
    <3>1. 8 \in Nat /\ 4 \in Nat /\ 8 + 4 <= l
      BY <1>3
    <3>2. At(a, 8, 4) \in Seq(Byte) /\ Len(At(a, 8, 4)) = 4
      BY <1>1, <3>1, AtElements, Zenon
    <3>3. /\ 1 \in 1 .. 4 /\ 2 \in 1 .. 4 /\ 3 \in 1 .. 4 /\ 4 \in 1 .. 4
      OBVIOUS
    <3> QED
      BY <3>2, <3>3, ElementOfSeq, UnsplatBytes, Zenon
  <2>2. Complete(a) = IF l - 12 >= n THEN At(a, 0, 12 + n) ELSE <<>>
    BY <1>1, <1>3, <2>1, Zenon DEF Complete, EtherSize
  <2>3. CASE l - 12 >= n
    <3>1. 0 \in Nat /\ 12 + n \in Nat /\ 0 + (12 + n) <= l
      BY <1>3, <2>3
    <3>2. 0 + (12 + n) <= Len(a)
      BY <1>1, <3>1, Zenon
    <3>3. At(a, 0, 12 + n) \in Seq(Byte)
      BY <3>1, <3>2, AtElements, Zenon
    <3> QED
      BY <2>2, <2>3, <3>3, Zenon
  <2> QED
    BY <1>2, <2>2, <2>3, Zenon
<1>4. CASE ~ l >= 12
  <2>1. Complete(a) = IF Len(a) = 2 /\ a[1] # 0 THEN a ELSE <<>>
    BY <1>1, <1>4, Zenon DEF Complete, EtherSize
  <2> QED
    BY <1>2, <2>1, Zenon
<1> QED
  BY <1>3, <1>4, Zenon

LEMMA RequestIsBytes ==
  ASSUME CrcIsAByte, NEW r \in Responders, NEW q \in Requests[r]
  PROVE  q \in Request /\ Bytes(q) \in Seq(Byte)
<1>1. q \in Request
  BY FoxsimileAssumption
<1>2. CASE lookup[r]
  <2>1. q.by = "bytes"
    BY <1>2, RequestAssumption, Zenon
  <2>2. Bytes(q) = q.code
    BY <2>1 DEF Bytes
  <2> QED
    BY <1>1, <2>1, <2>2, RequestFields, Zenon
<1>3. CASE ~ lookup[r]
  <2>1. q.by # "bytes" /\ Proper(q)
    BY <1>3, RequestAssumption, Zenon
  <2>2. Says(Bytes(q), q.sys, Instruction(q), Meaning(q))
    BY <1>1, <2>1, RequestSays, Zenon
  <2>3. PICK addr : Addressed(Bytes(q), q.sys, Instruction(q), addr, Meaning(q).len)
    BY <2>2, Zenon DEF Says
  <2> QED
    BY <1>1, <2>3, Zenon DEF Addressed
<1> QED
  BY <1>2, <1>3, Zenon

-----------------------------------------------------------------------------
(* Type correctness.                                                       *)

\* The memory maps.
MemoryOK ==
  DOMAIN mmaps = Systems /\ \A s \in Systems : mmaps[s] \in [DOMAIN Memory[s] -> Byte]

LEMMA InMemory ==
  ASSUME MemoryOK, NEW s \in Systems, NEW a \in Nat, a < Size(s)
  PROVE  a \in DOMAIN Memory[s] /\ mmaps[s][a] \in Byte
<1>1. DOMAIN Memory[s] = 0 .. Size(s) - 1 /\ Size(s) \in Nat
  BY FoxsimileAssumption, Zenon
<1>2. a \in 0 .. Size(s) - 1
  BY <1>1
<1>3. mmaps[s] \in [DOMAIN Memory[s] -> Byte]
  BY Zenon DEF MemoryOK
<1> QED
  BY <1>1, <1>2, <1>3

LEMMA AnswerType ==
  ASSUME replies \in [Responders -> Seq(Seq(Byte))], NEW r \in Responders,
         NEW reply \in Seq(Byte), Answer(r, reply)
  PROVE  replies' \in [Responders -> Seq(Seq(Byte))]
<1>1. Append(replies[r], reply) \in Seq(Seq(Byte))
  BY AppendProperties
<1> QED
  BY <1>1 DEF Answer

LEMMA OnesType ==
  <<1, 1, 1, 1>> \in Seq(Byte)
<1>1. 1 \in Byte
  BY DEF Byte
<1>2. FourBytes(<<1, 1, 1, 1>>, 1, 1, 1, 1)
  BY <1>1, Tuples, Zenon
<1> QED
  BY <1>2, Zenon DEF FourBytes

LEMMA WriteType ==
  ASSUME MemoryOK, replies \in [Responders -> Seq(Seq(Byte))], NEW r \in Responders,
         NEW s \in Systems, NEW p, p.address \in Nat, p.length \in Nat,
         NEW data \in Seq(Byte), Len(data) = p.length, WriteMemory(r, s, p, data)
  PROVE  MemoryOK' /\ replies' \in [Responders -> Seq(Seq(Byte))]
<1>1. PICK at \in Nat, n \in Nat : at = p.address /\ n = p.length
  OBVIOUS
<1>2. PICK f : f = [a \in DOMAIN mmaps[s] |->
                      IF a \in at .. at + n - 1 THEN data[a - at + 1] ELSE mmaps[s][a]]
  OBVIOUS
<1>3. mmaps' = [mmaps EXCEPT ![s] = f]
  BY <1>1, <1>2 DEF WriteMemory
<1>4. DOMAIN mmaps = Systems /\ \A t \in Systems : mmaps[t] \in [DOMAIN Memory[t] -> Byte]
  BY Zenon DEF MemoryOK
<1>5. DOMAIN mmaps[s] = DOMAIN Memory[s] /\ DOMAIN Memory[s] \subseteq Nat
  <2>1. DOMAIN Memory[s] = 0 .. Size(s) - 1 /\ Size(s) \in Nat
    BY FoxsimileAssumption, Zenon
  <2> QED
    BY <1>4, <2>1
<1>6. f \in [DOMAIN Memory[s] -> Byte]
  <2>1. ASSUME NEW a \in DOMAIN Memory[s] PROVE f[a] \in Byte
    <3>1. CASE a \in at .. at + n - 1
      <4>1. a - at + 1 \in 1 .. n
        BY <1>1, <3>1
      <4>2. data[a - at + 1] \in Byte
        BY <1>1, <4>1, ElementOfSeq, Zenon
      <4> QED
        BY <1>2, <1>5, <3>1, <4>2
    <3>2. CASE a \notin at .. at + n - 1
      <4>1. mmaps[s][a] \in Byte
        BY <1>4, Zenon
      <4> QED
        BY <1>2, <1>5, <3>2, <4>1
    <3> QED
      BY <3>1, <3>2, Zenon
  <2>2. DOMAIN f = DOMAIN Memory[s]
    BY <1>2, <1>5
  <2> QED
    BY <1>2, <2>1, <2>2
<1>7. MemoryOK'
  <2>1. DOMAIN mmaps' = Systems
    BY <1>3, <1>4
  <2>2. ASSUME NEW t \in Systems PROVE mmaps'[t] \in [DOMAIN Memory[t] -> Byte]
    BY <1>3, <1>4, <1>6
  <2> QED
    BY <2>1, <2>2 DEF MemoryOK
<1>8. replies' \in [Responders -> Seq(Seq(Byte))]
  <2>1. UNCHANGED replies \/ Answer(r, <<1, 1, 1, 1>>)
    BY Zenon DEF WriteMemory, NoAnswer
  <2> QED
    BY <2>1, AnswerType, OnesType, Zenon
<1> QED
  BY <1>7, <1>8, Zenon

\* Handling a message keeps the types.
LEMMA MakeReplyType ==
  ASSUME CrcIsAByte, MemoryOK, running \in BOOLEAN,
         replies \in [Responders -> Seq(Seq(Byte))],
         NEW r \in Responders, NEW b \in Seq(Byte), make_reply(r, b)
  PROVE  MemoryOK' /\ running' \in BOOLEAN /\ replies' \in [Responders -> Seq(Seq(Byte))]
<1>0. UNCHANGED mmaps => MemoryOK'
  BY Zenon DEF MemoryOK
<1>1. PICK s : s = identify_sender(b) /\ s \in Systems \cup {Null}
  BY SenderType, Zenon
<1>2. CASE Throw
  BY <1>0, <1>2 DEF Throw
<1>3. CASE NoAnswer /\ UNCHANGED <<mmaps, running>>
  BY <1>0, <1>3 DEF NoAnswer
<1>4. CASE Undefined
  BY <1>0, <1>4 DEF Undefined
<1>5. CASE /\ s # Null /\ Holds(s, b)
           /\ \E p \in {Parse(s, b)} :
                IF p.do_write
                THEN /\ WriteMemory(r, s, p, At(b, p.data_from, p.length))
                     /\ UNCHANGED running
                ELSE IF p.do_reply /\ p.address + p.length > Size(s) THEN Undefined
                ELSE ReadMemory(r, s, p) /\ UNCHANGED running
  <2>0. s \in Systems
    BY <1>1, <1>5, Zenon
  <2>1. PICK p : /\ p = Parse(s, b)
                 /\ IF p.do_write
                    THEN /\ WriteMemory(r, s, p, At(b, p.data_from, p.length))
                         /\ UNCHANGED running
                    ELSE IF p.do_reply /\ p.address + p.length > Size(s) THEN Undefined
                    ELSE ReadMemory(r, s, p) /\ UNCHANGED running
    BY <1>5, Zenon
  <2>2. /\ p.instruction \in Byte /\ p.initiator \in Byte /\ p.id \in Byte
        /\ p.address \in Nat /\ p.length \in Length /\ p.data_from \in Nat
        /\ p.do_write => p.data_from + p.length <= Len(b)
    BY <1>5, <2>0, <2>1, ParseType, Zenon
  <2>3. p.length \in Nat
    BY <2>2, LengthIsNat, Zenon
  <2>4. CASE p.do_write
    <3>1. /\ At(b, p.data_from, p.length) \in Seq(Byte)
          /\ Len(At(b, p.data_from, p.length)) = p.length
      BY <2>2, <2>3, <2>4, AtElements, Zenon
    <3>2. WriteMemory(r, s, p, At(b, p.data_from, p.length)) /\ UNCHANGED running
      BY <2>1, <2>4, Zenon
    <3> QED
      BY <2>0, <2>2, <2>3, <3>1, <3>2, WriteType, Zenon
  <2>5. CASE ~ p.do_write /\ p.do_reply /\ p.address + p.length > Size(s)
    <3>1. Undefined
      BY <2>1, <2>5, Zenon
    <3> QED
      BY <1>4, <3>1, Zenon
  <2>6. CASE ~ p.do_write /\ ~ (p.do_reply /\ p.address + p.length > Size(s))
    <3>1. ReadMemory(r, s, p) /\ UNCHANGED running
      BY <2>1, <2>6, Zenon
    <3>2. UNCHANGED mmaps
      BY <3>1, Zenon DEF ReadMemory
    <3>3. CASE p.do_reply
      <4>1. PICK stray \in Stray : Answer(r, ReadReply(s, p, stray))
        BY <3>1, <3>3, Zenon DEF ReadMemory
      <4>2. stray \in Byte
        BY FoxsimileAssumption
      <4>3. PICK at \in Nat, n \in Nat, z \in Nat : at = p.address /\ n = p.length /\ z = Size(s)
        BY <2>0, <2>2, <2>3, FoxsimileAssumption, Zenon
      <4>4. at + n <= z
        <5>1. ~ at + n > z
          BY <2>6, <3>3, <4>3, Zenon
        <5> QED
          BY <5>1
      <4>5. ASSUME NEW k \in 1 .. n PROVE mmaps[s][at + k - 1] \in Byte
        <5>1. at + k - 1 \in Nat /\ at + k - 1 < z
          BY <4>4
        <5> QED
          BY <2>0, <4>3, <5>1, InMemory, Zenon
      <4>6. PICK d : d = [k \in 1 .. p.length |-> mmaps[s][p.address + k - 1]]
        OBVIOUS
      <4>7. ReadReply(s, p, stray) \in Seq(Byte)
        <5>1. \A k \in 1 .. p.length : mmaps[s][p.address + k - 1] \in Byte
          BY <4>3, <4>5, Zenon
        <5> QED
          BY <2>0, <2>2, <4>2, <4>6, <5>1, ReadReplyOf, Zenon
      <4> QED
        BY <1>0, <3>1, <3>2, <4>1, <4>7, AnswerType, Zenon
    <3>4. CASE ~ p.do_reply
      BY <1>0, <3>1, <3>2, <3>4, Zenon DEF ReadMemory, NoAnswer
    <3> QED
      BY <3>3, <3>4, Zenon
  <2> QED
    BY <2>4, <2>5, <2>6, Zenon
<1>6. \/ Throw
      \/ NoAnswer /\ UNCHANGED <<mmaps, running>>
      \/ Undefined
      \/ /\ s # Null /\ Holds(s, b)
         /\ \E p \in {Parse(s, b)} :
                IF p.do_write
                THEN /\ WriteMemory(r, s, p, At(b, p.data_from, p.length))
                     /\ UNCHANGED running
                ELSE IF p.do_reply /\ p.address + p.length > Size(s) THEN Undefined
                ELSE ReadMemory(r, s, p) /\ UNCHANGED running
  BY <1>1, Zenon DEF make_reply
<1> QED
  BY <1>2, <1>3, <1>4, <1>5, <1>6, Zenon

LEMMA ResponseType ==
  ASSUME CrcIsAByte, MemoryOK, running \in BOOLEAN,
         replies \in [Responders -> Seq(Seq(Byte))],
         NEW r \in Responders, NEW b \in Seq(Byte), get_response(r, b)
  PROVE  MemoryOK' /\ running' \in BOOLEAN /\ replies' \in [Responders -> Seq(Seq(Byte))]
<1>1. CASE lookup[r]
  <2>1. UNCHANGED <<mmaps, running>>
    BY <1>1, Zenon DEF get_response
  <2>2. MemoryOK' /\ running' \in BOOLEAN
    BY <2>1 DEF MemoryOK
  <2>3. CASE b \in DOMAIN response_lookup /\ Answer(r, response_lookup[b])
    <3>1. response_lookup \in [DOMAIN response_lookup -> Seq(Byte) \ {<<>>}]
      BY FoxsimileAssumption, Zenon
    <3>2. response_lookup[b] \in Seq(Byte)
      BY <2>3, <3>1
    <3> QED
      BY <2>2, <2>3, <3>2, AnswerType, Zenon
  <2>4. CASE UNCHANGED replies
    BY <2>2, <2>4, Zenon
  <2> QED
    BY <1>1, <2>3, <2>4, Zenon DEF get_response, NoAnswer
<1>2. CASE ~ lookup[r]
  BY <1>2, MakeReplyType, Zenon DEF get_response
<1> QED
  BY <1>1, <1>2, Zenon

LEMMA FieldBytes ==
  ASSUME MemoryOK, NEW s \in Systems, NEW g \in Rings[s]
  PROVE  /\ g \in Ring
         /\ \A i \in 1 .. 4 : /\ g.pointer_at + i - 1 \in DOMAIN mmaps[s]
                              /\ mmaps[s][g.pointer_at + i - 1] \in Byte
         /\ Pointer(g, mmaps[s]) \in Nat
<1>1. g \in Ring /\ g.pointer_at \in Nat
  <2>1. Rings[s] \subseteq Ring
    BY FoxsimileAssumption, Zenon
  <2> QED
    BY <2>1 DEF Ring
<1>2. /\ DOMAIN mmaps[s] = DOMAIN Memory[s]
      /\ \A a \in DOMAIN Memory[s] : mmaps[s][a] \in Byte
  BY DEF MemoryOK
<1>3. Field(g) \subseteq DOMAIN Memory[s]
  BY RingAssumption, Zenon
<1>4. ASSUME NEW i \in 1 .. 4
      PROVE  /\ g.pointer_at + i - 1 \in DOMAIN mmaps[s]
             /\ mmaps[s][g.pointer_at + i - 1] \in Byte
  <2>1. g.pointer_at + i - 1 \in g.pointer_at .. g.pointer_at + 3
    BY <1>1
  <2> QED
    BY <1>2, <1>3, <2>1, Zenon DEF Field
<1>5. Pointer(g, mmaps[s]) \in Nat
  <2>1. PICK u : u = [i \in 1 .. 4 |-> mmaps[s][g.pointer_at + i - 1]]
    OBVIOUS
  <2>2. u[1] \in Byte /\ u[2] \in Byte /\ u[3] \in Byte /\ u[4] \in Byte
    BY <1>4, <2>1
  <2> QED
    BY <2>1, <2>2, UnsplatBytes, Zenon DEF Pointer
<1> QED
  BY <1>1, <1>4, <1>5, Zenon

LEMMA AdvanceType ==
  ASSUME NEW g \in Ring, NEW p \in Nat
  PROVE  Advance(g, p) \in Nat
BY DEF Advance, Ring

LEMMA TimerType ==
  ASSUME MemoryOK, handle_frame_timer
  PROVE  MemoryOK'
<1>1. mmaps' = [s \in Systems |-> [a \in DOMAIN mmaps[s] |->
        IF \E g \in Rings[s] : a \in Field(g)
        THEN LET ring == CHOOSE g \in Rings[s] : a \in Field(g)
             IN  splat_to_nbytes(4, Advance(ring, Pointer(ring, mmaps[s])))[a - ring.pointer_at + 1]
        ELSE mmaps[s][a]]]
  BY Zenon DEF handle_frame_timer
<1>2. ASSUME NEW s \in Systems PROVE mmaps'[s] \in [DOMAIN Memory[s] -> Byte]
  <2>1. mmaps[s] \in [DOMAIN Memory[s] -> Byte]
    BY Zenon DEF MemoryOK
  <2>2. PICK f : f = [a \in DOMAIN mmaps[s] |->
          IF \E g \in Rings[s] : a \in Field(g)
          THEN LET ring == CHOOSE g \in Rings[s] : a \in Field(g)
               IN  splat_to_nbytes(4, Advance(ring, Pointer(ring, mmaps[s])))[a - ring.pointer_at + 1]
          ELSE mmaps[s][a]]
    OBVIOUS
  <2>3. mmaps'[s] = f
    BY <1>1, <2>2, Zenon
  <2>4. ASSUME NEW a \in DOMAIN mmaps[s] PROVE f[a] \in Byte
    <3>1. CASE \E g \in Rings[s] : a \in Field(g)
      <4>1. PICK ring \in Rings[s] : /\ ring = CHOOSE g \in Rings[s] : a \in Field(g)
                                     /\ a \in Field(ring)
        BY <3>1, Zenon
      <4>2. f[a] = splat_to_nbytes(4, Advance(ring, Pointer(ring, mmaps[s])))[a - ring.pointer_at + 1]
        BY <2>2, <3>1, <4>1, Zenon
      <4>3. ring \in Ring /\ Pointer(ring, mmaps[s]) \in Nat
        BY FieldBytes, Zenon
      <4>4. a - ring.pointer_at + 1 \in 1 .. 4
        BY <4>1, <4>3 DEF Field, Ring
      <4>5. Advance(ring, Pointer(ring, mmaps[s])) \in Nat
        BY <4>3, AdvanceType, Zenon
      <4> QED
        BY <4>2, <4>4, <4>5, SplatIsBytes, ElementOfSeq, Zenon
    <3>2. CASE ~ \E g \in Rings[s] : a \in Field(g)
      <4>1. f[a] = mmaps[s][a]
        BY <2>2, <3>2, Zenon
      <4> QED
        BY <2>1, <4>1
    <3> QED
      BY <3>1, <3>2, Zenon
  <2>5. f \in [DOMAIN mmaps[s] -> Byte]
    BY <2>2, <2>4, Zenon
  <2> QED
    BY <2>1, <2>3, <2>5
<1>3. DOMAIN mmaps' = Systems
  BY <1>1
<1> QED
  BY <1>2, <1>3 DEF MemoryOK

LEMMA InitType ==
  Init => TypeOK
<1> SUFFICES ASSUME Init PROVE TypeOK
  OBVIOUS
<1>1. MemoryOK
  BY FoxsimileAssumption DEF Init, MemoryOK
<1>2. 0 \in 0 .. MaxClosed
  BY FoxsimileAssumption
<1>3. /\ running \in BOOLEAN
      /\ conn \in [Responders -> {"listening", "open", "closed by client"}]
      /\ wire \in [Responders -> Seq(Byte)]
      /\ message_accumulator \in [Responders -> Seq(Byte)]
      /\ DOMAIN sent = Responders
      /\ \A r \in Responders : sent[r] \in Seq(Requests[r])
      /\ replies \in [Responders -> Seq(Seq(Byte))]
      /\ closed = 0
  BY DEF Init
<1> QED
  BY <1>1, <1>2, <1>3, Zenon DEF TypeOK, MemoryOK

\* The bytes of the wire that a read takes, and those that it leaves.
LEMMA Received ==
  ASSUME NEW w \in Seq(Byte), NEW n \in 1 .. Len(w)
  PROVE  /\ At(w, 0, n) \in Seq(Byte) /\ Len(At(w, 0, n)) = n
         /\ \A k \in 1 .. n : At(w, 0, n)[k] = w[k]
         /\ At(w, n, Len(w) - n) \in Seq(Byte) /\ Len(At(w, n, Len(w) - n)) = Len(w) - n
         /\ \A k \in 1 .. Len(w) - n : At(w, n, Len(w) - n)[k] = w[n + k]
<1>1. PICK l \in Nat : l = Len(w)
  BY LenProperties
<1>2. n \in Nat /\ 0 \in Nat /\ 0 + n <= l /\ l - n \in Nat /\ n + (l - n) <= l
  BY <1>1
<1>3. /\ At(w, 0, n) \in Seq(Byte) /\ Len(At(w, 0, n)) = n
      /\ \A k \in 1 .. n : At(w, 0, n)[k] = w[0 + k]
  BY <1>1, <1>2, AtElements, Zenon
<1>4. \A k \in 1 .. n : 0 + k = k
  OBVIOUS
<1>5. /\ At(w, n, l - n) \in Seq(Byte) /\ Len(At(w, n, l - n)) = l - n
      /\ \A k \in 1 .. l - n : At(w, n, l - n)[k] = w[n + k]
  BY <1>1, <1>2, AtElements, Zenon
<1> QED
  BY <1>1, <1>3, <1>4, <1>5, Zenon

LEMMA NextType ==
  ASSUME CrcIsAByte, TypeOK, [Next]_vars
  PROVE  TypeOK'
<1>0. MemoryOK
  BY Zenon DEF TypeOK, MemoryOK
<1>1. CASE UNCHANGED vars
  BY <1>1 DEF vars, TypeOK
<1>2. CASE handle_frame_timer
  <2>1. MemoryOK'
    BY <1>0, <1>2, TimerType, Zenon
  <2>2. UNCHANGED <<running, conn, wire, message_accumulator, sent, replies, closed>>
    BY <1>2, Zenon DEF handle_frame_timer
  <2> QED
    BY <2>1, <2>2 DEF TypeOK, MemoryOK
<1>3. ASSUME NEW r \in Responders, Receive(r) PROVE TypeOK'
  <2>1. PICK n : await_full_buffer(r, n)
    BY <1>3, Zenon DEF Receive
  <2>2. n \in 1 .. Len(wire[r]) /\ wire' = [wire EXCEPT ![r] = At(@, n, Len(@) - n)]
    BY <2>1, Zenon DEF await_full_buffer, async_receive
  <2>3. PICK all, message :
          /\ all = message_accumulator[r] \o At(wire[r], 0, n)
          /\ message = Complete(all)
          /\ IF message = <<>>
             THEN /\ message_accumulator' = [message_accumulator EXCEPT ![r] = all]
                  /\ UNCHANGED <<running, mmaps, replies>>
             ELSE /\ message_accumulator' = [message_accumulator EXCEPT ![r] = <<>>]
                  /\ get_response(r, message)
    BY <2>1, Zenon DEF await_full_buffer
  <2>4. UNCHANGED <<conn, sent, closed>>
    BY <2>1, Zenon DEF await_full_buffer
  <2>5. wire[r] \in Seq(Byte) /\ message_accumulator[r] \in Seq(Byte)
    BY DEF TypeOK
  <2>6. At(wire[r], 0, n) \in Seq(Byte) /\ At(wire[r], n, Len(wire[r]) - n) \in Seq(Byte)
    BY <2>2, <2>5, Received, Zenon
  <2>7. all \in Seq(Byte)
    BY <2>3, <2>5, <2>6, ConcatProperties, Zenon
  <2>8. message \in Seq(Byte)
    BY <2>3, <2>7, CompleteType, Zenon
  <2>9. wire' \in [Responders -> Seq(Byte)]
    BY <2>2, <2>6 DEF TypeOK
  <2>10. /\ running \in BOOLEAN /\ replies \in [Responders -> Seq(Seq(Byte))]
         /\ message_accumulator \in [Responders -> Seq(Byte)]
    BY Zenon DEF TypeOK
  <2>11. /\ MemoryOK' /\ running' \in BOOLEAN /\ replies' \in [Responders -> Seq(Seq(Byte))]
         /\ message_accumulator' \in [Responders -> Seq(Byte)]
    <3>1. CASE message = <<>>
      <4>1. /\ message_accumulator' = [message_accumulator EXCEPT ![r] = all]
            /\ UNCHANGED <<running, mmaps, replies>>
        BY <2>3, <3>1, Zenon
      <4> QED
        BY <1>0, <2>7, <2>10, <4>1 DEF MemoryOK
    <3>2. CASE message # <<>>
      <4>1. /\ message_accumulator' = [message_accumulator EXCEPT ![r] = <<>>]
            /\ get_response(r, message)
        BY <2>3, <3>2, Zenon
      <4>2. MemoryOK' /\ running' \in BOOLEAN /\ replies' \in [Responders -> Seq(Seq(Byte))]
        BY <1>0, <2>8, <2>10, <4>1, ResponseType, Zenon
      <4>3. message_accumulator' \in [Responders -> Seq(Byte)]
        BY <2>10, <4>1
      <4> QED
        BY <4>2, <4>3, Zenon
    <3> QED
      BY <3>1, <3>2, Zenon
  <2> QED
    BY <2>4, <2>9, <2>11 DEF TypeOK, MemoryOK
<1>4. ASSUME NEW r \in Responders, end_session(r) \/ Connect(r) PROVE TypeOK'
  BY <1>4 DEF TypeOK, end_session, Connect
<1>5. ASSUME NEW r \in Responders, NEW q \in Requests[r], Send(r, q) PROVE TypeOK'
  <2>1. /\ wire' = [wire EXCEPT ![r] = @ \o Bytes(q)]
        /\ sent' = [sent EXCEPT ![r] = Append(@, q)]
        /\ UNCHANGED <<running, conn, message_accumulator, mmaps, replies, closed>>
    BY <1>5, Zenon DEF Send
  <2>2. wire[r] \in Seq(Byte) /\ sent[r] \in Seq(Requests[r])
    BY DEF TypeOK
  <2>3. Bytes(q) \in Seq(Byte)
    BY RequestIsBytes, Zenon
  <2>4. wire[r] \o Bytes(q) \in Seq(Byte)
    BY <2>2, <2>3, ConcatProperties, Zenon
  <2>5. Append(sent[r], q) \in Seq(Requests[r])
    BY <2>2, AppendProperties, Zenon
  <2>6. wire' \in [Responders -> Seq(Byte)]
    BY <2>1, <2>4 DEF TypeOK
  <2>7. DOMAIN sent' = Responders /\ \A t \in Responders : sent'[t] \in Seq(Requests[t])
    BY <2>1, <2>5 DEF TypeOK
  <2> QED
    BY <2>1, <2>6, <2>7 DEF TypeOK
<1>6. ASSUME NEW r \in Responders, Close(r) PROVE TypeOK'
  <2>1. closed' \in 0 .. MaxClosed
    <3>1. closed < MaxClosed /\ closed' = closed + 1
      BY <1>6, Zenon DEF Close
    <3>2. closed \in 0 .. MaxClosed /\ MaxClosed \in Nat
      BY FoxsimileAssumption, Zenon DEF TypeOK
    <3> QED
      BY <3>1, <3>2
  <2>2. /\ conn' = [conn EXCEPT ![r] = "closed by client"]
        /\ UNCHANGED <<running, wire, message_accumulator, mmaps, sent, replies>>
    BY <1>6, Zenon DEF Close
  <2> QED
    BY <2>1, <2>2 DEF TypeOK
<1>7. ASSUME NEW r \in Responders, Reset(r) PROVE TypeOK'
  <2>1. closed' \in 0 .. MaxClosed
    <3>1. closed < MaxClosed /\ closed' = closed + 1
      BY <1>7, Zenon DEF Reset
    <3>2. closed \in 0 .. MaxClosed /\ MaxClosed \in Nat
      BY FoxsimileAssumption, Zenon DEF TypeOK
    <3> QED
      BY <3>1, <3>2
  <2>2. /\ conn' = [conn EXCEPT ![r] = "listening"]
        /\ wire' = [wire EXCEPT ![r] = <<>>]
        /\ sent' = [sent EXCEPT ![r] = IF wire[r] = <<>> THEN @ ELSE Front(@)]
        /\ UNCHANGED <<running, message_accumulator, mmaps, replies>>
    BY <1>7, Zenon DEF Reset
  <2>3. sent[r] \in Seq(Requests[r]) /\ <<>> \in Seq(Byte)
    BY EmptySeq, Zenon DEF TypeOK
  <2>4. Front(sent[r]) \in Seq(Requests[r])
    <3>1. PICK l \in Nat : l = Len(sent[r])
      BY <2>3, LenProperties, Zenon
    <3>2. \A k \in 1 .. l - 1 : sent[r][k] \in Requests[r]
      <4>1. \A k \in 1 .. l - 1 : k \in 1 .. l
        OBVIOUS
      <4> QED
        BY <2>3, <3>1, <4>1, ElementOfSeq, Zenon
    <3>3. SubSeq(sent[r], 1, l - 1) \in Seq(Requests[r])
      <4>1. 1 \in Int /\ l - 1 \in Int
        OBVIOUS
      <4> QED
        BY <3>2, <4>1, SubSeqProperties, Zenon
    <3> QED
      BY <3>1, <3>3, Zenon DEF Front
  <2>5. DOMAIN sent' = Responders /\ \A t \in Responders : sent'[t] \in Seq(Requests[t])
    BY <2>2, <2>3, <2>4 DEF TypeOK
  <2>6. wire' \in [Responders -> Seq(Byte)]
    BY <2>2, <2>3 DEF TypeOK
  <2> QED
    BY <2>1, <2>2, <2>5, <2>6 DEF TypeOK
<1> QED
  BY <1>1, <1>2, <1>3, <1>4, <1>5, <1>6, <1>7, Zenon DEF Next

\* The state of the simulator and of its clients keeps its types, whatever the
\* client sends and however TCP cuts it up (Foxsimile.cpp): every byte that is
\* stored or replied is one.
THEOREM TypeCorrect ==
  ASSUME CrcIsAByte
  PROVE  Spec => []TypeOK
<1>1. TypeOK /\ [Next]_vars => TypeOK'
  BY NextType, Zenon
<1> QED
  BY <1>1, InitType, PTL DEF Spec

-----------------------------------------------------------------------------
(* Write pointers.                                                         *)

LEMMA SamePointer ==
  ASSUME NEW g \in Ring, NEW f, NEW h, \A a \in Field(g) : f[a] = h[a]
  PROVE  Pointer(g, f) = Pointer(g, h)
<1>1. PICK u, v : /\ u = [i \in 1 .. 4 |-> f[g.pointer_at + i - 1]]
                  /\ v = [i \in 1 .. 4 |-> h[g.pointer_at + i - 1]]
  OBVIOUS
<1>2. ASSUME NEW i \in 1 .. 4 PROVE u[i] = v[i]
  <2>1. g.pointer_at + i - 1 \in Field(g)
    BY DEF Ring, Field
  <2> QED
    BY <1>1, <2>1
<1>3. 1 \in 1 .. 4 /\ 2 \in 1 .. 4 /\ 3 \in 1 .. 4 /\ 4 \in 1 .. 4
  OBVIOUS
<1>4. unsplat_from_4bytes(u) = unsplat_from_4bytes(v)
  BY <1>2, <1>3, SameUnsplat, Zenon
<1> QED
  BY <1>1, <1>4, Zenon DEF Pointer

LEMMA Monotone ==
  ASSUME NEW a \in Nat, NEW b \in Nat, NEW c \in Nat, a <= b
  PROVE  a * c <= b * c
<1>1. PICK d \in Nat : b = a + d
  <2>1. b - a \in Nat /\ b = a + (b - a)
    OBVIOUS
  <2> QED
    BY <2>1
<1>2. b * c = a * c + d * c /\ d * c \in Nat /\ a * c \in Nat
  BY <1>1
<1> QED
  BY <1>2

\* A slot in numbers.
SlotIs(g, p, k, x, y, z) ==
  /\ x = g.start /\ y = g.stride /\ z = g.slots
  /\ p = x + k * y /\ k <= z /\ y > 0

LEMMA SlotNumbers ==
  ASSUME NEW g \in Ring, NEW p \in Slots(g)
  PROVE  \E k, x, y, z \in Nat : SlotIs(g, p, k, x, y, z)
<1>1. PICK x \in Nat, y \in Nat, z \in Nat :
        x = g.start /\ y = g.stride /\ z = g.slots /\ y > 0
  BY DEF Ring
<1>2. PICK k \in 0 .. z : p = x + k * y
  BY <1>1, Zenon DEF Slots
<1>3. k \in Nat /\ k <= z
  OBVIOUS
<1> QED
  BY <1>1, <1>2, <1>3, Zenon DEF SlotIs

LEMMA SlotIsSmall ==
  ASSUME NEW s \in Systems, NEW g \in Rings[s], NEW p \in Slots(g)
  PROVE  p \in Nat /\ p < Huge
<1>1. g \in Ring /\ g.start + g.slots * g.stride < Huge
  BY FoxsimileAssumption, RingAssumption
<1>2. PICK k \in Nat, x \in Nat, y \in Nat, z \in Nat :
        /\ x = g.start /\ y = g.stride /\ z = g.slots
        /\ p = x + k * y /\ k <= z /\ y > 0
  BY <1>1, SlotNumbers, Zenon DEF SlotIs
<1>3. x + z * y < Huge
  BY <1>1, <1>2, Zenon
<1>4. k * y <= z * y
  BY <1>2, Monotone
<1>5. k * y \in Nat /\ z * y \in Nat
  OBVIOUS
<1>6. PICK u \in Nat, v \in Nat : u = k * y /\ v = z * y
  BY <1>5
<1> QED
  BY <1>2, <1>3, <1>4, <1>6, SMT DEF Huge

\* The pointer moves from slot to slot, and from the last one to the first.
LEMMA AdvanceToSlot ==
  ASSUME NEW g \in Ring, NEW p \in Slots(g)
  PROVE  Advance(g, p) \in Slots(g)
<1>1. PICK k \in Nat, x \in Nat, y \in Nat, z \in Nat :
        /\ x = g.start /\ y = g.stride /\ z = g.slots
        /\ p = x + k * y /\ k <= z /\ y > 0
  BY SlotNumbers, Zenon DEF SlotIs
<1>2. Slots(g) = {x + j * y : j \in 0 .. z}
  BY <1>1, Zenon DEF Slots
<1>3. CASE k = z
  <2>1. p + y > x + z * y
    <3>1. PICK v \in Nat : v = z * y
      OBVIOUS
    <3>2. p = x + v
      BY <1>1, <1>3, <3>1, Zenon
    <3>3. (x + v) + y > x + v
      BY <1>1
    <3> QED
      BY <3>1, <3>2, <3>3, Zenon
  <2>2. Advance(g, p) = x
    BY <1>1, <2>1, Zenon DEF Advance
  <2>3. x = x + 0 * y /\ 0 \in 0 .. z
    OBVIOUS
  <2> QED
    BY <1>2, <2>2, <2>3, Zenon
<1>4. CASE k # z
  <2>1. k + 1 \in 0 .. z /\ p + y = x + (k + 1) * y
    <3>1. (k + 1) * y = k * y + y
      OBVIOUS
    <3>2. PICK u \in Nat : u = k * y
      OBVIOUS
    <3>3. (x + u) + y = x + (u + y)
      OBVIOUS
    <3>4. p + y = x + (k + 1) * y
      BY <1>1, <3>1, <3>2, <3>3, Zenon
    <3>5. k + 1 \in 0 .. z
      BY <1>1, <1>4
    <3> QED
      BY <3>4, <3>5, Zenon
  <2>2. p + y \in Slots(g)
    BY <1>2, <2>1, Zenon
  <2>3. x \in Slots(g)
    <3>1. x = x + 0 * y /\ 0 \in 0 .. z
      OBVIOUS
    <3> QED
      BY <1>2, <3>1, Zenon
  <2> QED
    BY <1>1, <2>2, <2>3, Zenon DEF Advance
<1> QED
  BY <1>3, <1>4, Zenon

\* What the timer leaves in a system's memory: each pointer one on, and all the
\* rest as it was.
LEMMA TimerMoves ==
  ASSUME MemoryOK, PointerIsASlot, handle_frame_timer, NEW s \in Systems
  PROVE  /\ \A g \in Rings[s] : Pointer(g, mmaps'[s]) = Advance(g, Pointer(g, mmaps[s]))
         /\ \A a \in DOMAIN Memory[s] :
              (\A g \in Rings[s] : a \notin Field(g)) => mmaps'[s][a] = mmaps[s][a]
<1>1. mmaps' = [t \in Systems |-> [a \in DOMAIN mmaps[t] |->
        IF \E g \in Rings[t] : a \in Field(g)
        THEN LET ring == CHOOSE g \in Rings[t] : a \in Field(g)
             IN  splat_to_nbytes(4, Advance(ring, Pointer(ring, mmaps[t])))[a - ring.pointer_at + 1]
        ELSE mmaps[t][a]]]
  BY Zenon DEF handle_frame_timer
<1>2. DOMAIN mmaps[s] = DOMAIN Memory[s]
  BY DEF MemoryOK
<1>3. ASSUME NEW a \in DOMAIN Memory[s]
      PROVE  mmaps'[s][a] =
               IF \E g \in Rings[s] : a \in Field(g)
               THEN LET ring == CHOOSE g \in Rings[s] : a \in Field(g)
                    IN  splat_to_nbytes(4, Advance(ring, Pointer(ring, mmaps[s])))
                          [a - ring.pointer_at + 1]
               ELSE mmaps[s][a]
  BY <1>1, <1>2, Zenon
<1>4. ASSUME NEW g \in Rings[s]
      PROVE  Pointer(g, mmaps'[s]) = Advance(g, Pointer(g, mmaps[s]))
  <2>1. g \in Ring /\ Pointer(g, mmaps[s]) \in Slots(g)
    BY FieldBytes, Zenon DEF PointerIsASlot
  <2>2. PICK x \in Nat : x = Advance(g, Pointer(g, mmaps[s])) /\ x < Huge
    BY <2>1, AdvanceToSlot, SlotIsSmall, Zenon
  <2>3. PICK u : u = [i \in 1 .. 4 |-> mmaps'[s][g.pointer_at + i - 1]]
    OBVIOUS
  <2>4. ASSUME NEW i \in 1 .. 4 PROVE u[i] = splat_to_nbytes(4, x)[i]
    <3>1. PICK a : a = g.pointer_at + i - 1
      OBVIOUS
    <3>2. a \in Field(g) /\ a - g.pointer_at + 1 = i
      BY <2>1, <3>1 DEF Field, Ring
    <3>3. a \in DOMAIN Memory[s]
      BY <3>2, RingAssumption, Zenon
    <3>4. \A h \in Rings[s] : a \in Field(h) => h = g
      BY <3>2, RingAssumption, Zenon
    <3>5. (CHOOSE h \in Rings[s] : a \in Field(h)) = g
      BY <3>2, <3>4, Zenon
    <3>6. mmaps'[s][a] = splat_to_nbytes(4, Advance(g, Pointer(g, mmaps[s])))[a - g.pointer_at + 1]
      BY <1>3, <3>2, <3>3, <3>5, Zenon
    <3> QED
      BY <2>2, <2>3, <3>1, <3>2, <3>6, Zenon
  <2>5. unsplat_from_4bytes(u) = unsplat_from_4bytes(splat_to_nbytes(4, x))
    <3>1. 1 \in 1 .. 4 /\ 2 \in 1 .. 4 /\ 3 \in 1 .. 4 /\ 4 \in 1 .. 4
      OBVIOUS
    <3> QED
      BY <2>4, <3>1, SameUnsplat, Zenon
  <2>6. unsplat_from_4bytes(splat_to_nbytes(4, x)) = x
    BY <2>2, UnsplatOfSplat, Zenon
  <2> QED
    BY <2>2, <2>3, <2>5, <2>6, Zenon DEF Pointer
<1>5. ASSUME NEW a \in DOMAIN Memory[s], \A g \in Rings[s] : a \notin Field(g)
      PROVE  mmaps'[s][a] = mmaps[s][a]
  BY <1>3, <1>5, Zenon
<1> QED
  BY <1>4, <1>5, Zenon

LEMMA TimerKeepsSlots ==
  ASSUME MemoryOK, PointerIsASlot, handle_frame_timer
  PROVE  PointerIsASlot'
<1>1. ASSUME NEW s \in Systems, NEW g \in Rings[s] PROVE Pointer(g, mmaps'[s]) \in Slots(g)
  <2>1. g \in Ring /\ Pointer(g, mmaps[s]) \in Slots(g)
    BY FieldBytes, Zenon DEF PointerIsASlot
  <2>2. Pointer(g, mmaps'[s]) = Advance(g, Pointer(g, mmaps[s]))
    BY TimerMoves, Zenon
  <2> QED
    BY <2>1, <2>2, AdvanceToSlot, Zenon
<1> QED
  BY <1>1 DEF PointerIsASlot

-----------------------------------------------------------------------------
(* What the Responder makes of the bytes of a request.                     *)

\* A request is under way: its bytes are partly collected, partly on the wire.
UnderWay(r) ==
  \/ Settled(r)
  \/ /\ sent[r] # <<>>
     /\ Joins(Bytes(Last(sent[r])), message_accumulator[r], wire[r],
              Len(message_accumulator[r]), Len(wire[r]))

\* The memory maps after a write.
Written(q, m) ==
  mmaps' = [mmaps EXCEPT ![q.sys] = [a \in DOMAIN @ |->
              IF a \in m.at .. m.at + m.len - 1 THEN m.data[a - m.at + 1] ELSE @[a]]]

\* A request is ignored, answered from memory, or written to memory.
Served(r, q, m) ==
  \/ Mistaken(q) /\ UNCHANGED <<mmaps, running, replies>>
  \/ /\ ~ Mistaken(q) /\ m.read /\ UNCHANGED <<mmaps, running>>
     /\ \E p, stray : /\ stray \in Stray /\ Answer(r, ReadReply(q.sys, p, stray))
                      /\ p = Parse(q.sys, Bytes(q)) /\ p.address = m.at /\ p.length = m.len
                      /\ Holds(q.sys, Bytes(q))
  \/ /\ ~ Mistaken(q) /\ ~ m.read /\ UNCHANGED running
     /\ Written(q, m)
     /\ IF m.at + m.len > Size(q.sys) \/ m.reply THEN NoAnswer ELSE Answer(r, <<1, 1, 1, 1>>)

LEMMA RequestServed ==
  ASSUME CrcIsAByte, NEW r \in Responders, ~ lookup[r], NEW q \in Requests[r],
         make_reply(r, Bytes(q))
  PROVE  Served(r, q, Meaning(q)) /\ Enveloped(Bytes(q))
<1>1. q \in Request /\ q.by # "bytes" /\ Proper(q)
  BY RequestIsBytes, RequestAssumption, Zenon
<1>2. PICK b, s, i, m : /\ b = Bytes(q) /\ s = q.sys /\ i = Instruction(q) /\ m = Meaning(q)
                        /\ s \in Systems /\ i \in Byte /\ Says(b, s, i, m)
  BY <1>1, RequestSays, Zenon
<1>3. PICK addr \in [1 .. 4 -> Byte] :
        Addressed(b, s, i, addr, m.len) /\ m.at = unsplat_from_4bytes(addr)
  BY <1>2, Zenon DEF Says
<1>4. /\ Len(Spacewire[s].reply_path_address) = 4 * (i % 4)
      /\ Len(b) - EtherSize < 256
      /\ m.read <=> (i \div 32) % 2 = 0
      /\ m.reply <=> (i \div 8) % 2 = 1
      /\ m.len \in Length
      /\ m.read => m.reply /\ m.at + m.len <= Size(s)
  BY <1>1, <1>2, Zenon DEF Proper
<1>5. Enveloped(b)
  BY <1>2, <1>3, <1>4, AddressedIsEnveloped, Zenon
<1>6. Mistaken(q) <=> Named(b, 11)
  <2>1. b[12] = Len(b) - 12
    BY <1>5, Zenon DEF Enveloped
  <2>2. 11 + 1 = 12
    OBVIOUS
  <2> QED
    BY <1>2, <2>1, <2>2, Zenon DEF Mistaken, Named, EtherSize
<1>7. /\ Mistaken(q) => identify_sender(b) = Null
      /\ ~ Mistaken(q) => identify_sender(b) = s
  BY <1>2, <1>3, <1>5, <1>6, Sender, Zenon
<1>8. /\ identify_sender(b) = Null => NoAnswer /\ UNCHANGED <<mmaps, running>>
      /\ identify_sender(b) # Null =>
           IF ~ Holds(identify_sender(b), b) THEN Undefined
           ELSE \E p \in {Parse(identify_sender(b), b)} :
                  IF p.do_write
                  THEN /\ WriteMemory(r, identify_sender(b), p, At(b, p.data_from, p.length))
                       /\ UNCHANGED running
                  ELSE IF p.do_reply /\ p.address + p.length > Size(identify_sender(b))
                  THEN Undefined
                  ELSE ReadMemory(r, identify_sender(b), p) /\ UNCHANGED running
  <2>1. /\ b[1] = 0 /\ ~ Len(b) < 33
        /\ ~ Len(b) - EtherSize < unsplat_from_4bytes(At(b, 7, 4))
    BY <1>5, NothingWrong, Zenon
  <2>2. make_reply(r, b)
    BY <1>2, Zenon
  <2> QED
    BY <2>1, <2>2, Zenon DEF make_reply
<1>9. CASE Mistaken(q)
  <2>1. NoAnswer /\ UNCHANGED <<mmaps, running>>
    BY <1>7, <1>8, <1>9, Zenon
  <2>2. UNCHANGED <<mmaps, running, replies>>
    BY <2>1 DEF NoAnswer
  <2> QED
    BY <1>2, <1>5, <1>9, <2>2, Zenon DEF Served
<1>10. CASE ~ Mistaken(q)
  <2>1. identify_sender(b) = s /\ s # Null
    <3>1. Null \notin Systems
      BY FoxsimileAssumption, Zenon
    <3> QED
      BY <1>2, <1>7, <1>10, <3>1, Zenon
  <2>2. PICK p : p = Parse(s, b)
    OBVIOUS
  <2>3. /\ p.do_write = ((i \div 32) % 2 = 1)
        /\ p.do_reply = ((i \div 8) % 2 = 1)
        /\ p.address = m.at /\ p.length = m.len /\ p.data_from = HeaderEnd(s)
        /\ Holds(s, b) <=> (p.do_write => Len(b) - HeaderEnd(s) >= m.len)
    <3>1. PICK n \in Length : n = m.len /\ Addressed(b, s, i, addr, n)
      BY <1>3, <1>4, Zenon
    <3>2. Parsed(s, b, i, addr, n)
      BY <1>2, <1>4, <3>1, ParseOf
    <3> QED
      BY <1>3, <2>2, <3>1, <3>2, Zenon DEF Parsed
  <2>4. (p.do_write <=> ~ m.read) /\ (p.do_reply <=> m.reply)
    <3>1. (i \div 32) % 2 = 1 <=> ~ (i \div 32) % 2 = 0
      BY <1>2 DEF Byte
    <3> QED
      BY <1>4, <2>3, <3>1, Zenon
  <2>5. PICK l \in Nat, h \in Nat, n \in Nat :
          l = Len(b) /\ h = HeaderEnd(s) /\ n = m.len /\ b \in Seq(Byte)
    <3>1. b \in Seq(Byte)
      BY <1>3, Zenon DEF Addressed
    <3>2. HeaderEnd(s) \in Nat
      <4>1. PICK x \in Nat, y \in Nat : /\ x = Len(Spacewire[s].target_path_address)
                                        /\ y = Len(Spacewire[s].reply_path_address)
        BY <1>2, PathLengths, Zenon
      <4>2. 12 + x + y + 16 \in Nat
        OBVIOUS
      <4> QED
        BY <4>1, <4>2, Zenon DEF HeaderEnd
    <3> QED
      BY <1>4, <3>1, <3>2, LenProperties, LengthIsNat, Zenon
  <2>6. ~ m.read => /\ l = h + n + 1 /\ m.data \in Seq(Byte) /\ Len(m.data) = n
                    /\ \A k \in 1 .. n : b[h + k] = m.data[k]
    BY <1>2, <2>5, Zenon DEF Says
  <2>7. Holds(s, b)
    <3>1. ~ m.read => l - h >= n
      <4>1. (h + n + 1) - h >= n
        OBVIOUS
      <4> QED
        BY <2>6, <4>1, Zenon
    <3> QED
      BY <2>3, <2>4, <2>5, <3>1, Zenon
  <2>8. IF p.do_write
        THEN WriteMemory(r, s, p, At(b, p.data_from, p.length)) /\ UNCHANGED running
        ELSE IF p.do_reply /\ p.address + p.length > Size(s) THEN Undefined
        ELSE ReadMemory(r, s, p) /\ UNCHANGED running
    BY <1>8, <2>1, <2>2, <2>7, Zenon
  <2>9. CASE m.read
    <3>1. ~ p.address + p.length > Size(s)
      <4>1. PICK at \in Nat, z \in Nat : at = m.at /\ z = Size(s)
        <5>1. unsplat_from_4bytes(addr) \in Nat
          <6>1. addr[1] \in Byte /\ addr[2] \in Byte /\ addr[3] \in Byte /\ addr[4] \in Byte
            OBVIOUS
          <6> QED
            BY <6>1, UnsplatBytes, Zenon
        <5> QED
          BY <1>2, <1>3, <5>1, FoxsimileAssumption, Zenon
      <4>2. at + n <= z
        BY <1>4, <2>5, <2>9, <4>1, Zenon
      <4>3. ~ at + n > z
        BY <4>2
      <4> QED
        BY <2>3, <2>5, <4>1, <4>3, Zenon
    <3>2. ReadMemory(r, s, p) /\ UNCHANGED running
      BY <2>4, <2>8, <2>9, <3>1, Zenon
    <3>3. UNCHANGED mmaps /\ \E stray \in Stray : Answer(r, ReadReply(s, p, stray))
      BY <1>4, <2>4, <2>9, <3>2, Zenon DEF ReadMemory
    <3>4. UNCHANGED <<mmaps, running>>
      BY <3>2, <3>3
    <3>5. \E p1, stray :
            /\ stray \in Stray /\ Answer(r, ReadReply(s, p1, stray))
            /\ p1 = Parse(s, b) /\ p1.address = m.at /\ p1.length = m.len
            /\ Holds(s, b)
      BY <2>2, <2>3, <2>7, <3>3, Zenon
    <3>6. Served(r, q, m)
      BY <1>2, <1>10, <2>9, <3>4, <3>5, Zenon DEF Served
    <3> QED
      BY <1>2, <1>5, <3>6, Zenon
  <2>10. CASE ~ m.read
    <3>1. WriteMemory(r, s, p, At(b, h, n)) /\ UNCHANGED running
      BY <2>3, <2>4, <2>5, <2>8, <2>10, Zenon
    <3>2. At(b, h, n) = m.data
      <4>1. h + n <= Len(b)
        <5>1. h + n <= h + n + 1
          OBVIOUS
        <5> QED
          BY <2>5, <2>6, <2>10, <5>1, Zenon
      <4>2. /\ At(b, h, n) \in Seq(Byte) /\ Len(At(b, h, n)) = n
            /\ \A k \in 1 .. n : At(b, h, n)[k] = b[h + k]
        BY <2>5, <4>1, AtElements, Zenon
      <4>3. \A k \in 1 .. n : At(b, h, n)[k] = m.data[k]
        BY <2>6, <2>10, <4>2, Zenon
      <4>4. m.data \in Seq(Byte) /\ Len(m.data) = n
        BY <2>6, <2>10, Zenon
      <4> QED
        BY <4>2, <4>3, <4>4, SeqEqual, Zenon
    <3>3. WriteMemory(r, s, p, m.data)
      BY <3>1, <3>2, Zenon
    <3>4. /\ mmaps' = [mmaps EXCEPT ![s] = [a \in DOMAIN @ |->
              IF a \in p.address .. p.address + p.length - 1
              THEN m.data[a - p.address + 1] ELSE @[a]]]
          /\ IF p.address + p.length > Size(s) \/ p.do_reply THEN NoAnswer
             ELSE Answer(r, <<1, 1, 1, 1>>)
      BY <3>3, Zenon DEF WriteMemory
    <3>5. /\ Written(q, m)
          /\ IF m.at + m.len > Size(s) \/ m.reply THEN NoAnswer
             ELSE Answer(r, <<1, 1, 1, 1>>)
      <4>1. Written(q, m)
        BY <1>2, <2>3, <3>4 DEF Written
      <4> QED
        BY <2>3, <2>4, <3>4, <4>1, Zenon
    <3>6. Served(r, q, m)
      BY <1>2, <1>10, <2>10, <3>1, <3>5, Zenon DEF Served
    <3> QED
      BY <1>2, <1>5, <3>6, Zenon
  <2> QED
    BY <2>9, <2>10, Zenon
<1> QED
  BY <1>9, <1>10, Zenon

LEMMA RequestEnveloped ==
  ASSUME CrcIsAByte, NEW r \in Responders, ~ lookup[r], NEW q \in Requests[r]
  PROVE  Enveloped(Bytes(q))
<1>1. q \in Request /\ q.by # "bytes" /\ Proper(q)
  BY RequestIsBytes, RequestAssumption, Zenon
<1>2. q.sys \in Systems /\ Says(Bytes(q), q.sys, Instruction(q), Meaning(q))
  BY <1>1, RequestSays, Zenon
<1>3. PICK addr : Addressed(Bytes(q), q.sys, Instruction(q), addr, Meaning(q).len)
  BY <1>2, Zenon DEF Says
<1>4. Len(Bytes(q)) - EtherSize < 256
  BY <1>1, Zenon DEF Proper
<1> QED
  BY <1>2, <1>3, <1>4, AddressedIsEnveloped, Zenon

LEMMA LastRequest ==
  ASSUME TypeOK, NEW r \in Responders, sent[r] # <<>>
  PROVE  Last(sent[r]) \in Requests[r]
<1>1. sent[r] \in Seq(Requests[r])
  BY Zenon DEF TypeOK
<1>2. Len(sent[r]) \in Nat \ {0}
  BY <1>1, EmptySeq, Zenon
<1>3. Len(sent[r]) \in 1 .. Len(sent[r])
  BY <1>2
<1> QED
  BY <1>1, <1>3, ElementOfSeq, Zenon DEF Last

\* What has arrived of a request is complete when all of it has.
LEMMA CompleteOfRequest ==
  ASSUME CrcIsAByte, NEW r \in Responders, NEW q \in Requests[r], NEW b, b = Bytes(q),
         NEW a \in Seq(Byte), Len(a) <= Len(b), \A k \in 1 .. Len(a) : a[k] = b[k]
  PROVE  /\ Len(a) = Len(b) => Complete(a) = a
         /\ Len(a) # Len(b) => Complete(a) = <<>>
<1>1. CASE lookup[r]
  <2>1. q.by = "bytes" /\ Len(q.code) = 2 /\ q.code[1] # 0
    BY <1>1, RequestAssumption, Zenon
  <2>2. b = q.code
    BY <2>1 DEF Bytes
  <2>3. PICK m \in Nat : m = Len(a)
    BY LenProperties
  <2>4. m <= 2 /\ Len(b) = 2
    BY <2>1, <2>2, <2>3, Zenon
  <2>5. ~ Len(a) >= EtherSize
    BY <2>3, <2>4 DEF EtherSize
  <2>6. Complete(a) = IF Len(a) = 2 /\ a[1] # 0 THEN a ELSE <<>>
    BY <2>5, Zenon DEF Complete
  <2>7. m = 2 => a[1] # 0
    <3>1. SUFFICES ASSUME m = 2 PROVE a[1] # 0
      OBVIOUS
    <3>2. 1 \in 1 .. m
      BY <3>1
    <3> QED
      BY <2>1, <2>2, <2>3, <3>2, Zenon
  <2> QED
    BY <2>3, <2>4, <2>6, <2>7, Zenon
<1>2. CASE ~ lookup[r]
  BY <1>2, RequestEnveloped, CompleteOfPrefix, Zenon
<1> QED
  BY <1>1, <1>2, Zenon

\* A read takes a part of the request that is under way, or the rest of it, and
\* then all of it is handled.
LEMMA Taken ==
  ASSUME CrcIsAByte, TypeOK, NEW r \in Responders, UnderWay(r), NEW n,
         await_full_buffer(r, n)
  PROVE  /\ ~ Settled(r) /\ sent[r] # <<>> /\ Last(sent[r]) \in Requests[r]
         /\ \/ ~ Settled(r)' /\ UnderWay(r)' /\ UNCHANGED <<running, mmaps, replies>>
            \/ Settled(r)' /\ get_response(r, Bytes(Last(sent[r])))
<1>1. n \in 1 .. Len(wire[r]) /\ wire' = [wire EXCEPT ![r] = At(@, n, Len(@) - n)]
  BY Zenon DEF await_full_buffer, async_receive
<1>2. PICK all, message :
        /\ all = message_accumulator[r] \o At(wire[r], 0, n)
        /\ message = Complete(all)
        /\ IF message = <<>>
           THEN /\ message_accumulator' = [message_accumulator EXCEPT ![r] = all]
                /\ UNCHANGED <<running, mmaps, replies>>
           ELSE /\ message_accumulator' = [message_accumulator EXCEPT ![r] = <<>>]
                /\ get_response(r, message)
  BY Zenon DEF await_full_buffer
<1>3. UNCHANGED sent
  BY DEF await_full_buffer
<1>4. PICK a \in Seq(Byte), w \in Seq(Byte) : a = message_accumulator[r] /\ w = wire[r]
  BY DEF TypeOK
<1>5. PICK m \in Nat, l \in Nat : m = Len(a) /\ l = Len(w) /\ n \in 1 .. l
  BY <1>1, <1>4, LenProperties, Zenon
<1>6. w # <<>>
  BY <1>5
<1>7. /\ ~ Settled(r) /\ sent[r] # <<>>
      /\ Joins(Bytes(Last(sent[r])), message_accumulator[r], wire[r],
               Len(message_accumulator[r]), Len(wire[r]))
  BY <1>4, <1>6, Zenon DEF UnderWay, Settled
<1>8. Last(sent[r]) \in Requests[r]
  BY <1>7, LastRequest, Zenon
<1>9. PICK b : b = Bytes(Last(sent[r])) /\ Joins(b, a, w, m, l)
  BY <1>4, <1>5, <1>7, Zenon
<1>10. PICK x \in Seq(Byte), y \in Seq(Byte) :
         /\ x = At(w, 0, n) /\ Len(x) = n /\ \A k \in 1 .. n : x[k] = w[k]
         /\ y = At(w, n, l - n) /\ Len(y) = l - n /\ \A k \in 1 .. l - n : y[k] = w[n + k]
  BY <1>5, Received, Zenon
<1>11. all = a \o x /\ Joins(all, a, x, m, n)
  <2>1. all = a \o x
    BY <1>2, <1>4, <1>10, Zenon
  <2>2. Joins(a \o x, a, x, m, n)
    BY <1>5, <1>10, Joined, Zenon
  <2> QED
    BY <2>1, <2>2, Zenon
<1>12. all \in Seq(Byte) /\ Len(all) = m + n
  BY <1>11, Zenon DEF Joins
<1>13. b \in Seq(Byte) /\ Len(b) = m + l
  BY <1>9, Zenon DEF Joins
<1>14. ASSUME NEW k \in 1 .. m + n PROVE all[k] = b[k]
  <2>1. CASE k \in 1 .. m
    BY <1>9, <1>11, <2>1, Zenon DEF Joins
  <2>2. CASE k \notin 1 .. m
    <3>1. k - m \in 1 .. n /\ m + (k - m) = k /\ k - m \in 1 .. l
      BY <1>5, <2>2
    <3>2. all[m + (k - m)] = x[k - m] /\ b[m + (k - m)] = w[k - m]
      BY <1>9, <1>11, <3>1, Zenon DEF Joins
    <3>3. x[k - m] = w[k - m]
      BY <1>10, <3>1, Zenon
    <3> QED
      BY <3>1, <3>2, <3>3, Zenon
  <2> QED
    BY <2>1, <2>2, Zenon
<1>15. /\ Len(all) = Len(b) => message = all
       /\ Len(all) # Len(b) => message = <<>>
  <2>1. m + n <= m + l
    BY <1>5
  <2>2. Len(all) <= Len(b) /\ \A k \in 1 .. Len(all) : all[k] = b[k]
    BY <1>12, <1>13, <1>14, <2>1, Zenon
  <2> QED
    BY <1>2, <1>8, <1>9, <1>12, <2>2, CompleteOfRequest, Zenon
<1>16. wire'[r] = y
  <2>1. wire'[r] = At(wire[r], n, Len(wire[r]) - n)
    BY <1>1 DEF TypeOK
  <2> QED
    BY <1>4, <1>5, <1>10, <2>1, Zenon
<1>17. all # <<>>
  BY <1>5, <1>12
<1>18. CASE n = l
  <2>1. message = all
    BY <1>12, <1>13, <1>15, <1>18, Zenon
  <2>2. all = b
    <3>1. Len(all) = Len(b) /\ \A k \in 1 .. Len(all) : all[k] = b[k]
      BY <1>12, <1>13, <1>14, <1>18, Zenon
    <3> QED
      BY <1>12, <1>13, <3>1, SeqEqual, Zenon
  <2>3. /\ message_accumulator' = [message_accumulator EXCEPT ![r] = <<>>]
        /\ get_response(r, b)
    BY <1>2, <1>17, <2>1, <2>2, Zenon
  <2>4. message_accumulator'[r] = <<>>
    BY <2>3 DEF TypeOK
  <2>5. y = <<>>
    BY <1>5, <1>10, <1>18, EmptySeq
  <2>6. Settled(r)'
    BY <1>16, <2>4, <2>5, Zenon DEF Settled
  <2> QED
    BY <1>7, <1>8, <1>9, <2>3, <2>6, Zenon
<1>19. CASE n # l
  <2>1. message = <<>>
    <3>1. m + n # m + l
      BY <1>5, <1>19
    <3> QED
      BY <1>12, <1>13, <1>15, <3>1, Zenon
  <2>2. /\ message_accumulator' = [message_accumulator EXCEPT ![r] = all]
        /\ UNCHANGED <<running, mmaps, replies>>
    BY <1>2, <2>1, Zenon
  <2>3. message_accumulator'[r] = all
    BY <2>2 DEF TypeOK
  <2>4. ~ Settled(r)'
    BY <1>17, <2>3, Zenon DEF Settled
  <2>5. Joins(b, all, y, m + n, l - n)
    <3>1. Len(b) = (m + n) + (l - n)
      BY <1>5, <1>13
    <3>2. ASSUME NEW k \in 1 .. l - n PROVE b[(m + n) + k] = y[k]
      <4>1. n + k \in 1 .. l /\ m + (n + k) = (m + n) + k
        BY <1>5
      <4>2. b[m + (n + k)] = w[n + k]
        BY <1>9, <4>1, Zenon DEF Joins
      <4>3. y[k] = w[n + k]
        BY <1>10, Zenon
      <4> QED
        BY <4>1, <4>2, <4>3, Zenon
    <3>3. \A k \in 1 .. m + n : b[k] = all[k]
      BY <1>14, Zenon
    <3> QED
      BY <1>13, <3>1, <3>2, <3>3, Zenon DEF Joins
  <2>6. UnderWay(r)'
    <3>1. sent'[r] # <<>> /\ Bytes(Last(sent[r]))' = b
      <4>1. sent'[r] = sent[r]
        BY <1>3, Zenon
      <4> QED
        BY <1>3, <1>7, <1>9, <4>1, Zenon DEF Bytes, Last, get_command_bytes_for_sys_for_code
    <3> QED
      BY <1>10, <1>12, <1>16, <2>3, <2>5, <3>1, Zenon DEF UnderWay
  <2> QED
    BY <1>7, <1>8, <2>2, <2>4, <2>6, Zenon
<1> QED
  BY <1>18, <1>19, Zenon

-----------------------------------------------------------------------------
(* A patient client's requests arrive one after the other.                 *)

OneAtATime == \A r \in Responders : UnderWay(r)

LEMMA LastOfAppend ==
  ASSUME NEW S, NEW h \in Seq(S), NEW q \in S
  PROVE  /\ Append(h, q) # <<>> /\ Last(Append(h, q)) = q
         /\ Front(Append(h, q)) = h
<1>1. PICK l \in Nat : l = Len(h)
  BY LenProperties
<1>2. PICK u \in Seq(S) : /\ u = Append(h, q) /\ u # <<>> /\ Len(u) = l + 1
                          /\ \A k \in 1 .. l : u[k] = h[k]
                          /\ u[l + 1] = q
  BY <1>1, AppendProperties
<1>3. Last(u) = q
  BY <1>2, Zenon DEF Last
<1>4. Front(u) = h
  <2>1. \A k \in 1 .. l : u[k] \in S
    BY <1>1, <1>2, ElementOfSeq
  <2>2. /\ SubSeq(u, 1, l) \in Seq(S)
        /\ Len(SubSeq(u, 1, l)) = IF 1 <= l THEN l - 1 + 1 ELSE 0
        /\ \A k \in 1 .. l - 1 + 1 : SubSeq(u, 1, l)[k] = u[1 + k - 1]
    BY <2>1, SubSeqProperties
  <2>3. Len(SubSeq(u, 1, l)) = l /\ \A k \in 1 .. l : SubSeq(u, 1, l)[k] = h[k]
    BY <1>2, <2>2
  <2>4. SubSeq(u, 1, l) = h
    BY <1>1, <2>2, <2>3, SeqEqual
  <2>5. (l + 1) - 1 = l
    OBVIOUS
  <2> QED
    BY <1>2, <2>4, <2>5, Zenon DEF Front
<1> QED
  BY <1>2, <1>3, <1>4, Zenon

\* What is under way at a port stays so while only other ports change.
LEMMA OtherPort ==
  ASSUME NEW r \in Responders, UnderWay(r), wire'[r] = wire[r], sent'[r] = sent[r],
         message_accumulator'[r] = message_accumulator[r]
  PROVE  UnderWay(r)'
BY Zenon DEF UnderWay, Settled

LEMMA InitOneAtATime ==
  Init => OneAtATime
BY DEF Init, OneAtATime, UnderWay, Settled

LEMMA NextOneAtATime ==
  ASSUME CrcIsAByte, Patient, TypeOK, OneAtATime, [Next]_vars
  PROVE  OneAtATime'
<1> SUFFICES ASSUME NEW t \in Responders PROVE UnderWay(t)'
  BY DEF OneAtATime
<1>0. UnderWay(t)
  BY Zenon DEF OneAtATime
<1>1. CASE UNCHANGED <<wire, sent, message_accumulator>>
  BY <1>0, <1>1, OtherPort
<1>2. ASSUME NEW r \in Responders, Receive(r) PROVE UnderWay(t)'
  <2>1. PICK n : await_full_buffer(r, n)
    BY <1>2, Zenon DEF Receive
  <2>2. CASE r = t
    <3>1. UnderWay(t)' \/ Settled(t)'
      BY <1>0, <2>1, <2>2, Taken, Zenon
    <3> QED
      BY <3>1, Zenon DEF UnderWay
  <2>3. CASE r # t
    <3>1. wire'[t] = wire[t] /\ sent'[t] = sent[t]
      BY <2>1, <2>3 DEF await_full_buffer, async_receive, TypeOK
    <3>2. message_accumulator'[t] = message_accumulator[t]
      <4>1. PICK x : message_accumulator' = [message_accumulator EXCEPT ![r] = x]
        BY <2>1, Zenon DEF await_full_buffer
      <4> QED
        BY <2>3, <4>1 DEF TypeOK
    <3> QED
      BY <1>0, <3>1, <3>2, OtherPort, Zenon
  <2> QED
    BY <2>2, <2>3, Zenon
<1>3. ASSUME NEW r \in Responders, NEW q \in Requests[r], Send(r, q) PROVE UnderWay(t)'
  <2>1. /\ wire' = [wire EXCEPT ![r] = @ \o Bytes(q)]
        /\ sent' = [sent EXCEPT ![r] = Append(@, q)]
        /\ UNCHANGED message_accumulator
        /\ Settled(r)
    BY <1>3, Zenon DEF Send
  <2>2. CASE r = t
    <3>1. PICK b \in Seq(Byte), n \in Nat : b = Bytes(q) /\ n = Len(b)
      BY RequestIsBytes, LenProperties, Zenon
    <3>2. wire'[t] = b /\ message_accumulator'[t] = <<>>
      <4>1. wire'[t] = <<>> \o b
        BY <2>1, <2>2, <3>1 DEF TypeOK, Settled
      <4>2. <<>> \o b = b
        BY <3>1, ConcatEmptySeq, Zenon
      <4> QED
        BY <2>1, <2>2, <4>1, <4>2, Zenon DEF Settled
    <3>3. Joins(b, <<>>, b, 0, n)
      BY <3>1 DEF Joins
    <3>4. PICK h \in Seq(Requests[t]) : h = sent[t] /\ sent'[t] = Append(h, q)
      BY <2>1, <2>2 DEF TypeOK
    <3>5. sent'[t] # <<>> /\ Last(sent'[t]) = q
      <4>1. q \in Requests[t]
        BY <2>2, Zenon
      <4>2. Append(h, q) # <<>> /\ Last(Append(h, q)) = q
        BY <4>1, LastOfAppend, Zenon
      <4> QED
        BY <3>4, <4>2, Zenon
    <3>6. Len(<<>>) = 0
      OBVIOUS
    <3> QED
      BY <3>1, <3>2, <3>3, <3>5, <3>6, Zenon DEF UnderWay
  <2>3. CASE r # t
    <3>1. /\ wire'[t] = wire[t] /\ sent'[t] = sent[t]
          /\ message_accumulator'[t] = message_accumulator[t]
      BY <2>1, <2>3 DEF TypeOK
    <3> QED
      BY <1>0, <3>1, OtherPort, Zenon
  <2> QED
    BY <2>2, <2>3, Zenon
<1>4. ASSUME NEW r \in Responders, Reset(r) PROVE UnderWay(t)'
  <2>1. /\ wire' = [wire EXCEPT ![r] = <<>>]
        /\ sent' = [sent EXCEPT ![r] = IF wire[r] = <<>> THEN @ ELSE Front(@)]
        /\ UNCHANGED message_accumulator
        /\ message_accumulator[r] = <<>>
    BY <1>4, Zenon DEF Reset
  <2>2. CASE r = t
    <3>1. wire'[t] = <<>> /\ message_accumulator'[t] = <<>>
      BY <2>1, <2>2 DEF TypeOK
    <3> QED
      BY <3>1, Zenon DEF UnderWay, Settled
  <2>3. CASE r # t
    <3>1. /\ wire'[t] = wire[t] /\ sent'[t] = sent[t]
          /\ message_accumulator'[t] = message_accumulator[t]
      BY <2>1, <2>3 DEF TypeOK
    <3> QED
      BY <1>0, <3>1, OtherPort, Zenon
  <2> QED
    BY <2>2, <2>3, Zenon
<1>5. \/ UNCHANGED <<wire, sent, message_accumulator>>
      \/ \E r \in Responders : \/ Receive(r)
                               \/ \E q \in Requests[r] : Send(r, q)
                               \/ Reset(r)
  <2>1. CASE UNCHANGED vars
    BY <2>1 DEF vars
  <2>2. CASE handle_frame_timer
    BY <2>2 DEF handle_frame_timer
  <2>3. ASSUME NEW r \in Responders, end_session(r) \/ Connect(r) \/ Close(r)
        PROVE  UNCHANGED <<wire, sent, message_accumulator>>
    BY <2>3 DEF end_session, Connect, Close
  <2> QED
    BY <2>1, <2>2, <2>3, Zenon DEF Next
<1> QED
  BY <1>1, <1>2, <1>3, <1>4, <1>5, Zenon

\* Serving a request leaves the write pointers alone.
LEMMA ServedKeepsPointers ==
  ASSUME MemoryOK, NEW r, NEW q \in Request, q.by # "bytes", Proper(q),
         Served(r, q, Meaning(q)), NEW s \in Systems, NEW g \in Rings[s]
  PROVE  Pointer(g, mmaps'[s]) = Pointer(g, mmaps[s])
<1>1. CASE UNCHANGED mmaps
  BY <1>1, Zenon
<1>2. PICK m : m = Meaning(q)
  OBVIOUS
<1>3. CASE ~ m.read /\ Written(q, m)
  <2>1. mmaps' = [mmaps EXCEPT ![q.sys] = [a \in DOMAIN @ |->
                   IF a \in m.at .. m.at + m.len - 1 THEN m.data[a - m.at + 1] ELSE @[a]]]
    BY <1>3, Zenon DEF Written
  <2>2. DOMAIN mmaps = Systems /\ DOMAIN mmaps[s] = DOMAIN Memory[s]
    BY DEF MemoryOK
  <2>3. CASE s = q.sys
    <3>1. Field(g) \cap (m.at .. m.at + m.len - 1) = {}
      BY <1>2, <1>3, <2>3, Zenon DEF Proper
    <3>2. Field(g) \subseteq DOMAIN mmaps[s]
      BY <2>2, RingAssumption, Zenon
    <3>3. mmaps'[s] = [a \in DOMAIN mmaps[s] |->
                         IF a \in m.at .. m.at + m.len - 1 THEN m.data[a - m.at + 1]
                         ELSE mmaps[s][a]]
      BY <2>1, <2>2, <2>3
    <3>4. ASSUME NEW a \in Field(g) PROVE mmaps'[s][a] = mmaps[s][a]
      <4>1. a \in DOMAIN mmaps[s] /\ a \notin m.at .. m.at + m.len - 1
        BY <3>1, <3>2, Zenon
      <4> QED
        BY <3>3, <4>1, Zenon
    <3> QED
      BY <3>4, FieldBytes, SamePointer, Zenon
  <2>4. CASE s # q.sys
    <3>1. mmaps'[s] = mmaps[s]
      BY <2>1, <2>2, <2>4, Zenon
    <3> QED
      BY <3>1, Zenon
  <2> QED
    BY <2>3, <2>4, Zenon
<1>4. UNCHANGED mmaps \/ (~ m.read /\ Written(q, m))
  <2>1. Served(r, q, m)
    BY <1>2, Zenon
  <2>2. UNCHANGED <<mmaps, running, replies>> => UNCHANGED mmaps
    OBVIOUS
  <2>3. UNCHANGED <<mmaps, running>> => UNCHANGED mmaps
    OBVIOUS
  <2> QED
    BY <2>1, <2>2, <2>3, Zenon DEF Served
<1> QED
  BY <1>1, <1>3, <1>4, Zenon

LEMMA NextPointers ==
  ASSUME CrcIsAByte, Patient, TypeOK, OneAtATime, PointerIsASlot, [Next]_vars
  PROVE  PointerIsASlot'
<1>0. MemoryOK
  BY Zenon DEF TypeOK, MemoryOK
<1>1. CASE UNCHANGED mmaps
  BY <1>1, Zenon DEF PointerIsASlot
<1>2. CASE handle_frame_timer
  BY <1>0, <1>2, TimerKeepsSlots, Zenon
<1>3. ASSUME NEW r \in Responders, Receive(r) PROVE PointerIsASlot'
  <2>1. PICK n : await_full_buffer(r, n)
    BY <1>3, Zenon DEF Receive
  <2>2. CASE lookup[r]
    <3>1. PICK message : UNCHANGED <<running, mmaps, replies>> \/ get_response(r, message)
      BY <2>1, Zenon DEF await_full_buffer
    <3>2. get_response(r, message) => UNCHANGED <<mmaps, running>>
      BY <2>2, Zenon DEF get_response
    <3>3. UNCHANGED mmaps
      BY <3>1, <3>2
    <3> QED
      BY <1>1, <3>3, Zenon
  <2>3. CASE ~ lookup[r]
    <3>1. PICK q : q = Last(sent[r])
      OBVIOUS
    <3>2. /\ q \in Requests[r]
          /\ UNCHANGED <<running, mmaps, replies>> \/ make_reply(r, Bytes(q))
      BY <2>1, <2>3, <3>1, Taken, Zenon DEF OneAtATime, get_response
    <3>3. CASE make_reply(r, Bytes(q))
      <4>1. q \in Request /\ q.by # "bytes" /\ Proper(q)
        BY <2>3, <3>2, RequestIsBytes, RequestAssumption, Zenon
      <4>2. Served(r, q, Meaning(q))
        BY <2>3, <3>2, <3>3, RequestServed, Zenon
      <4>3. \A s \in Systems : \A g \in Rings[s] :
              Pointer(g, mmaps'[s]) = Pointer(g, mmaps[s])
        BY <1>0, <4>1, <4>2, ServedKeepsPointers, Zenon
      <4> QED
        BY <4>3, Zenon DEF PointerIsASlot
    <3>4. CASE UNCHANGED <<running, mmaps, replies>>
      BY <1>1, <3>4
    <3> QED
      BY <3>2, <3>3, <3>4, Zenon
  <2> QED
    BY <2>2, <2>3, Zenon
<1>4. \/ UNCHANGED mmaps \/ handle_frame_timer \/ \E r \in Responders : Receive(r)
  <2>1. CASE UNCHANGED vars
    BY <2>1 DEF vars
  <2>2. ASSUME NEW r \in Responders, end_session(r) \/ Connect(r) \/ Close(r) \/ Reset(r)
        PROVE  UNCHANGED mmaps
    BY <2>2 DEF end_session, Connect, Close, Reset
  <2>3. ASSUME NEW r \in Responders, NEW q \in Requests[r], Send(r, q) PROVE UNCHANGED mmaps
    BY <2>3 DEF Send
  <2> QED
    BY <2>1, <2>2, <2>3, Zenon DEF Next
<1> QED
  BY <1>1, <1>2, <1>3, <1>4, Zenon

\* While the client lets each message be taken up before it sends the next, the
\* write pointers in the simulated memories stay at slots of their rings
\* (mmap::advance_write_pointer): no write that make_reply takes out of the
\* stream lands on one.
THEOREM PointersStaySlots ==
  ASSUME CrcIsAByte, Patient
  PROVE  Spec => []PointerIsASlot
<1>1. Init => TypeOK /\ OneAtATime /\ PointerIsASlot
  <2>1. Init => PointerIsASlot
    BY RingAssumption, Zenon DEF Init, PointerIsASlot
  <2> QED
    BY <2>1, InitType, InitOneAtATime, Zenon
<1>2. TypeOK /\ OneAtATime /\ PointerIsASlot /\ [Next]_vars
        => TypeOK' /\ OneAtATime' /\ PointerIsASlot'
  BY NextType, NextOneAtATime, NextPointers, Zenon
<1> QED
  BY <1>1, <1>2, PTL DEF Spec

-----------------------------------------------------------------------------
(* AfterAll takes the requests one after the other.                        *)

LEMMA LeastElement ==
  ASSUME NEW T, T \subseteq Nat, T # {}
  PROVE  \E m \in T : \A k \in T : ~ k < m
<1>1. PICK R : R = OpToRel(<, Nat)
  BY Zenon
<1>2. IsWellFoundedOn(R, Nat)
  BY <1>1, NatLessThanWellFounded, Zenon
<1>3. \E m \in T : \A k \in T : ~ (<<k, m>> \in R)
  BY <1>2, WFMin, Zenon
<1>4. R = {ss \in Nat \X Nat : ss[1] < ss[2]}
  BY <1>1, Zenon DEF OpToRel
<1>5. ASSUME NEW k \in T, NEW m \in T, ~ (<<k, m>> \in R) PROVE ~ k < m
  <2>1. k \in Nat /\ m \in Nat
    OBVIOUS
  <2> QED
    BY <1>4, <1>5, <2>1, Zenon
<1> QED
  BY <1>3, <1>5, Zenon

\* Two functions of the same domain.
LEMMA SameFunction ==
  ASSUME NEW D, NEW f, NEW e, f = [k \in D |-> f[k]], e = [k \in D |-> e[k]],
         \A k \in D : f[k] = e[k]
  PROVE  f = e
OBVIOUS

Start == [memory |-> Memory, answers |-> <<>>]

\* f holds what is there after each of the first n requests of h.
History(f, h, n) ==
  f = [k \in 0 .. n |-> IF k = 0 THEN Start ELSE After(f[k - 1], h[k])]

LEMMA HistoryStep ==
  ASSUME NEW h, NEW n \in Nat, NEW g, History(g, h, n)
  PROVE  \E f : History(f, h, n + 1)
<1>1. PICK f : f = [k \in 0 .. n + 1 |-> IF k = n + 1 THEN After(g[n], h[n + 1]) ELSE g[k]]
  OBVIOUS
<1>2. ASSUME NEW k \in 0 .. n + 1
      PROVE  f[k] = IF k = 0 THEN Start ELSE After(f[k - 1], h[k])
  <2>1. CASE k = n + 1
    <3>1. k # 0 /\ k - 1 = n /\ n \in 0 .. n + 1 /\ n # n + 1
      BY <2>1
    <3>2. f[k] = After(g[n], h[n + 1]) /\ f[k - 1] = g[n]
      BY <1>1, <2>1, <3>1, Zenon
    <3> QED
      BY <2>1, <3>1, <3>2, Zenon
  <2>2. CASE k # n + 1
    <3>1. k \in 0 .. n /\ (k # 0 => k - 1 \in 0 .. n + 1 /\ k - 1 # n + 1)
      BY <2>2
    <3>2. g[k] = IF k = 0 THEN Start ELSE After(g[k - 1], h[k])
      BY <3>1, Zenon DEF History
    <3>3. f[k] = g[k] /\ (k # 0 => f[k - 1] = g[k - 1])
      BY <1>1, <2>2, <3>1, Zenon
    <3> QED
      BY <3>2, <3>3, Zenon
  <2> QED
    BY <2>1, <2>2, Zenon
<1>3. PICK e : e = [k \in 0 .. n + 1 |-> IF k = 0 THEN Start ELSE After(f[k - 1], h[k])]
  OBVIOUS
<1>4. f = e
  <2>1. \A k \in 0 .. n + 1 : f[k] = e[k]
    BY <1>2, <1>3, Zenon
  <2>2. DOMAIN f = 0 .. n + 1 /\ f = [k \in DOMAIN f |-> f[k]]
    BY <1>1
  <2>3. DOMAIN e = 0 .. n + 1 /\ e = [k \in DOMAIN e |-> e[k]]
    BY <1>3
  <2> QED
    BY <2>1, <2>2, <2>3, SameFunction
<1> QED
  BY <1>3, <1>4, Zenon DEF History

LEMMA HistoryExists ==
  ASSUME NEW h, NEW n \in Nat
  PROVE  \E f : History(f, h, n)
<1> DEFINE T == {k \in Nat : ~ \E f : History(f, h, k)}
<1> SUFFICES ASSUME T # {} PROVE FALSE
  BY Zenon
<1>1. PICK m \in T : \A k \in T : ~ k < m
  <2>1. T \subseteq Nat
    OBVIOUS
  <2> HIDE DEF T
  <2> QED
    BY <2>1, LeastElement, Zenon
<1>2. m \in Nat /\ ~ \E f : History(f, h, m)
  BY Zenon
<1>3. CASE m = 0
  <2>1. PICK f : f = [k \in 0 .. 0 |-> Start]
    OBVIOUS
  <2>2. PICK e : e = [k \in 0 .. 0 |-> IF k = 0 THEN Start ELSE After(f[k - 1], h[k])]
    OBVIOUS
  <2>3. f = e
    <3>1. \A k \in 0 .. 0 : k = 0
      OBVIOUS
    <3>2. \A k \in 0 .. 0 : f[k] = e[k]
      BY <2>1, <2>2, <3>1, Zenon
    <3>3. DOMAIN f = 0 .. 0 /\ f = [k \in DOMAIN f |-> f[k]]
      BY <2>1
    <3>4. DOMAIN e = 0 .. 0 /\ e = [k \in DOMAIN e |-> e[k]]
      BY <2>2
    <3> QED
      BY <3>2, <3>3, <3>4, SameFunction
  <2>4. History(f, h, 0)
    BY <2>2, <2>3, Zenon DEF History
  <2> QED
    BY <1>2, <1>3, <2>4, Zenon
<1>4. CASE m # 0
  <2>1. PICK k \in Nat : k = m - 1 /\ k < m /\ k + 1 = m
    BY <1>2, <1>4
  <2>2. k \notin T
    BY <1>1, <2>1, Zenon
  <2>3. PICK g : History(g, h, k)
    BY <2>2, Zenon
  <2>4. \E f : History(f, h, k + 1)
    BY <2>3, HistoryStep, Zenon
  <2> QED
    BY <1>2, <2>1, <2>4, Zenon
<1> QED
  BY <1>3, <1>4, Zenon

LEMMA HistoryUnique ==
  ASSUME NEW h1, NEW h2, NEW n1 \in Nat, NEW n2 \in Nat, NEW n \in Nat, n <= n1, n <= n2,
         NEW f1, NEW f2, History(f1, h1, n1), History(f2, h2, n2),
         \A k \in 1 .. n : h1[k] = h2[k]
  PROVE  f1[n] = f2[n]
<1> DEFINE T == {k \in 0 .. n : f1[k] # f2[k]}
<1> SUFFICES ASSUME T # {} PROVE FALSE
  <2>1. n \in 0 .. n
    OBVIOUS
  <2> QED
    BY <2>1, Zenon
<1>1. PICK m \in T : \A k \in T : ~ k < m
  <2>1. T \subseteq Nat
    OBVIOUS
  <2> HIDE DEF T
  <2> QED
    BY <2>1, LeastElement, Zenon
<1>2. m \in 0 .. n /\ f1[m] # f2[m] /\ m \in 0 .. n1 /\ m \in 0 .. n2
  OBVIOUS
<1>3. /\ f1[m] = IF m = 0 THEN Start ELSE After(f1[m - 1], h1[m])
      /\ f2[m] = IF m = 0 THEN Start ELSE After(f2[m - 1], h2[m])
  BY <1>2, Zenon DEF History
<1>4. CASE m = 0
  BY <1>2, <1>3, <1>4, Zenon
<1>5. CASE m # 0
  <2>1. m - 1 \in 0 .. n /\ m - 1 < m /\ m \in 1 .. n
    BY <1>2, <1>5
  <2>2. f1[m - 1] = f2[m - 1]
    BY <1>1, <2>1, Zenon
  <2> QED
    BY <1>2, <1>3, <1>5, <2>1, <2>2, Zenon
<1> QED
  BY <1>4, <1>5, Zenon

\* The memory and the answers after no request, and after one more.
LEMMA AfterAllIs ==
  ASSUME NEW S, NEW h \in Seq(S)
  PROVE  \E f : History(f, h, Len(h)) /\ AfterAll(h) = f[Len(h)]
<1>1. Len(h) \in Nat
  BY LenProperties
<1>2. \E f : History(f, h, Len(h))
  BY <1>1, HistoryExists, Zenon
<1>3. PICK f : f = CHOOSE e : History(e, h, Len(h))
  OBVIOUS
<1>4. History(f, h, Len(h))
  BY <1>2, <1>3, Zenon
<1>5. AfterAll(h) = (CHOOSE e : History(e, h, Len(h)))[Len(h)]
  BY Zenon DEF AfterAll, History, Start
<1> QED
  BY <1>3, <1>4, <1>5, Zenon

LEMMA AfterNone ==
  AfterAll(<<>>) = Start
<1>1. <<>> \in Seq(Nat) /\ Len(<<>>) = 0 /\ 0 \in 0 .. 0
  OBVIOUS
<1>2. PICK f : History(f, <<>>, 0) /\ AfterAll(<<>>) = f[0]
  BY <1>1, AfterAllIs, Zenon
<1> QED
  BY <1>1, <1>2, Zenon DEF History

LEMMA AfterOneMore ==
  ASSUME NEW S, NEW h \in Seq(S), NEW q \in S
  PROVE  AfterAll(Append(h, q)) = After(AfterAll(h), q)
<1>1. PICK n \in Nat : n = Len(h)
  BY LenProperties
<1>2. PICK u \in Seq(S) : /\ u = Append(h, q) /\ Len(u) = n + 1
                          /\ \A k \in 1 .. n : u[k] = h[k]
                          /\ u[n + 1] = q
  BY <1>1, AppendProperties
<1>3. PICK f : History(f, h, n) /\ AfterAll(h) = f[n]
  BY <1>1, AfterAllIs, Zenon
<1>4. PICK g : History(g, u, n + 1) /\ AfterAll(u) = g[n + 1]
  BY <1>2, AfterAllIs, Zenon
<1>5. n + 1 \in 0 .. n + 1 /\ n + 1 # 0 /\ (n + 1) - 1 = n /\ n + 1 \in Nat /\ n <= n + 1
  OBVIOUS
<1>6. g[n + 1] = After(g[n], u[n + 1])
  BY <1>4, <1>5, Zenon DEF History
<1>7. f[n] = g[n]
  <2>1. \A k \in 1 .. n : h[k] = u[k]
    BY <1>2, Zenon
  <2> QED
    BY <1>3, <1>4, <1>5, <2>1, HistoryUnique
<1> QED
  BY <1>2, <1>3, <1>4, <1>6, <1>7, Zenon

-----------------------------------------------------------------------------
(* The replies so far are those that the requests handled so far may get.  *)

\* What the client takes from a reply.
Taking(r, reply) == IF lookup[r] THEN reply ELSE get_reply_data(reply)

\* Each reply of got is one of those that are expected at its place.
Good(r, got, answers) ==
  /\ \E S : answers \in Seq(S)
  /\ Len(got) = Len(answers)
  /\ \A k \in 1 .. Len(answers) : Taking(r, got[k]) \in answers[k]

LEMMA Appended ==
  ASSUME NEW S, NEW h \in Seq(S), NEW q \in S, NEW n, n = Len(h)
  PROVE  /\ Append(h, q) \in Seq(S) /\ Len(Append(h, q)) = n + 1
         /\ \A k \in 1 .. n : Append(h, q)[k] = h[k]
         /\ Append(h, q)[n + 1] = q
BY AppendProperties

LEMMA GoodAppend ==
  ASSUME NEW r, NEW got \in Seq(Seq(Byte)), NEW answers, Good(r, got, answers),
         NEW reply \in Seq(Byte), NEW x, Taking(r, reply) \in x
  PROVE  Good(r, Append(got, reply), Append(answers, x))
<1>1. PICK S : answers \in Seq(S)
  BY Zenon DEF Good
<1>2. PICK T : T = S \cup {x}
  OBVIOUS
<1>3. answers \in Seq(T) /\ x \in T
  <2>1. S \subseteq T /\ x \in T
    BY <1>2
  <2> QED
    BY <1>1, <2>1, SeqMonotonic
<1>4. PICK n \in Nat : n = Len(answers) /\ n = Len(got)
  BY <1>1, LenProperties, Zenon DEF Good
<1>5. PICK v : v = Append(answers, x)
  OBVIOUS
<1>6. PICK u : u = Append(got, reply)
  OBVIOUS
<1>8. /\ v \in Seq(T) /\ Len(v) = n + 1
      /\ \A k \in 1 .. n : v[k] = answers[k]
      /\ v[n + 1] = x
  <2>1. /\ Append(answers, x) \in Seq(T) /\ Len(Append(answers, x)) = n + 1
        /\ \A k \in 1 .. n : Append(answers, x)[k] = answers[k]
        /\ Append(answers, x)[n + 1] = x
    <3>1. answers \in Seq(T) /\ x \in T /\ n = Len(answers)
      BY <1>3, <1>4, Zenon
    <3> QED
      BY ONLY <3>1, Appended
  <2> QED
    BY <1>5, <2>1, Zenon
<1>9. /\ Len(u) = n + 1
      /\ \A k \in 1 .. n : u[k] = got[k]
      /\ u[n + 1] = reply
  BY <1>4, <1>6, Appended
<1>7. ASSUME NEW k \in 1 .. n + 1 PROVE Taking(r, u[k]) \in v[k]
  <2>1. CASE k \in 1 .. n
    BY <1>4, <1>8, <1>9, <2>1, Zenon DEF Good
  <2>2. CASE k \notin 1 .. n
    <3>1. k = n + 1
      BY <2>2
    <3> QED
      BY <1>8, <1>9, <3>1, Zenon
  <2> QED
    BY <2>1, <2>2, Zenon
<1> QED
  BY <1>5, <1>6, <1>7, <1>8, <1>9, Zenon DEF Good

\* A request adds one answer, or none.
LEMMA AfterGrows ==
  ASSUME NEW state, NEW q
  PROVE  \/ After(state, q).answers = state.answers
         \/ \E x : After(state, q).answers = Append(state.answers, x)
<1> DEFINE m == Meaning(q)
           next == IF m.reply \/ (m.at + m.len > Size(q.sys)) THEN state.answers
                   ELSE Append(state.answers, {<<>>})
<1>1. CASE After(state, q) = state
  BY <1>1, Zenon
<1>2. ASSUME NEW x, After(state, q) = [memory |-> state.memory, answers |-> Append(state.answers, x)]
      PROVE  After(state, q).answers = Append(state.answers, x)
  BY <1>2
<1>3. ASSUME NEW x, After(state, q) = [memory |-> x, answers |-> next]
      PROVE  After(state, q).answers = next
  <2> HIDE DEF next
  <2> QED
    BY <1>3
<1>4. \/ After(state, q) = state
      \/ \E x : After(state, q) = [memory |-> state.memory, answers |-> Append(state.answers, x)]
      \/ \E x : After(state, q) = [memory |-> x, answers |-> next]
  BY Zenon DEF After
<1> QED
  BY <1>1, <1>2, <1>3, <1>4, Zenon

-----------------------------------------------------------------------------
(* The data of a read is what the client may expect of the memory.         *)

\* Beside the write pointers, the memory maps are what the requests made them.
Remembered(maps, memory) ==
  /\ DOMAIN memory = Systems
  /\ \A s \in Systems :
       /\ DOMAIN memory[s] = DOMAIN Memory[s]
       /\ \A a \in DOMAIN Memory[s] :
            (\A g \in Rings[s] : a \notin Field(g)) => maps[s][a] = memory[s][a]

LEMMA SlotIsRead ==
  ASSUME NEW s \in Systems, NEW g \in Rings[s], NEW d \in [1 .. 4 -> Byte],
         unsplat_from_4bytes(d) \in Slots(g)
  PROVE  d = splat_to_nbytes(4, unsplat_from_4bytes(d))
<1>1. PICK a \in Byte, b \in Byte, c \in Byte, e \in Byte :
        a = d[1] /\ b = d[2] /\ c = d[3] /\ e = d[4]
  OBVIOUS
<1>2. d = <<a, b, c, e>>
  BY <1>1, FourElements, Zenon
<1>3. unsplat_from_4bytes(d) # Huge
  <2>1. PICK n : n = unsplat_from_4bytes(d) /\ n \in Nat /\ n < Huge
    BY SlotIsSmall, Zenon
  <2>2. n # Huge
    BY <2>1, SMT DEF Huge
  <2> QED
    BY <2>1, <2>2, Zenon
<1> QED
  BY <1>2, <1>3, SplatOfUnsplat, Zenon

LEMMA ReadData ==
  ASSUME MemoryOK, PointerIsASlot, NEW q \in Request, q.by # "bytes", Proper(q),
         NEW memory, Remembered(mmaps, memory), NEW m, m = Meaning(q), m.read,
         m.at \in Nat, m.len \in Nat, NEW d, d = [k \in 1 .. m.len |-> mmaps[q.sys][m.at + k - 1]]
  PROVE  /\ \A k \in 1 .. m.len : mmaps[q.sys][m.at + k - 1] \in Byte
         /\ d \in Readable(q.sys, memory[q.sys], m.at, m.len)
<1>1. PICK s \in Systems : s = q.sys
  BY DEF Request
<1>2. PICK n \in Nat, l \in Nat, z \in Nat : n = m.at /\ l = m.len /\ z = Size(s)
  BY FoxsimileAssumption, Zenon
<1>3. n + l <= z
  BY <1>1, <1>2, Zenon DEF Proper
<1>4. ASSUME NEW k \in 1 .. l
      PROVE  /\ n + k - 1 \in DOMAIN Memory[s] /\ mmaps[s][n + k - 1] \in Byte
             /\ n + k - 1 \in n .. n + l - 1
  <2>1. n + k - 1 \in Nat /\ n + k - 1 < z /\ n + k - 1 \in n .. n + l - 1
    BY <1>3
  <2> QED
    BY <1>2, <2>1, InMemory, Zenon
<1>5. \A k \in 1 .. m.len : mmaps[q.sys][m.at + k - 1] \in Byte
  BY <1>1, <1>2, <1>4, Zenon
<1>6. d = [k \in 1 .. l |-> mmaps[s][n + k - 1]]
  BY <1>1, <1>2, Zenon
<1> DEFINE rings == {g \in Rings[s] : g.pointer_at = n /\ l = 4}
<1>7. CASE rings # {}
  <2>1. PICK g \in Rings[s] : g.pointer_at = n /\ l = 4
    BY <1>7, Zenon
  <2>2. d \in [1 .. 4 -> Byte]
    BY <1>4, <1>6, <2>1
  <2>3. Pointer(g, mmaps[s]) = unsplat_from_4bytes(d)
    BY <1>6, <2>1, Zenon DEF Pointer
  <2>4. unsplat_from_4bytes(d) \in Slots(g)
    BY <2>3, Zenon DEF PointerIsASlot
  <2>5. d = splat_to_nbytes(4, unsplat_from_4bytes(d))
    BY <2>2, <2>4, SlotIsRead, Zenon
  <2>6. unsplat_from_4bytes(d) \in UNION {Slots(h) : h \in rings}
    BY <2>1, <2>4, Zenon
  <2>7. Readable(s, memory[s], n, l)
          = {splat_to_nbytes(4, p) : p \in UNION {Slots(h) : h \in rings}}
    BY <1>7, Zenon DEF Readable
  <2>8. d \in Readable(s, memory[s], n, l)
    <3> HIDE DEF rings
    <3> QED
      BY <2>5, <2>6, <2>7, Zenon
  <2> QED
    BY <1>1, <1>2, <1>5, <2>8, Zenon
<1>8. CASE rings = {}
  <2>1. Readable(s, memory[s], n, l) = {[k \in 1 .. l |-> memory[s][n + k - 1]]}
    BY <1>8, Zenon DEF Readable
  <2>2. ASSUME NEW k \in 1 .. l PROVE mmaps[s][n + k - 1] = memory[s][n + k - 1]
    <3>1. ASSUME NEW g \in Rings[s] PROVE n + k - 1 \notin Field(g)
      <4>1. ~ (g.pointer_at = n /\ l = 4)
        BY <1>8, Zenon
      <4>2. Field(g) \cap (n .. n + l - 1) = {}
        BY <1>1, <1>2, <4>1, Zenon DEF Proper
      <4> QED
        BY <1>4, <4>2, Zenon
    <3> QED
      BY <1>4, <3>1, Zenon DEF Remembered
  <2>3. PICK e : e = [k \in 1 .. l |-> memory[s][n + k - 1]]
    OBVIOUS
  <2>4. d = e
    <3>1. DOMAIN d = 1 .. l /\ d = [k \in DOMAIN d |-> d[k]]
      BY <1>6
    <3>2. DOMAIN e = 1 .. l /\ e = [k \in DOMAIN e |-> e[k]]
      BY <2>3
    <3>3. \A k \in 1 .. l : d[k] = e[k]
      BY <1>6, <2>2, <2>3, Zenon
    <3> QED
      BY <3>1, <3>2, <3>3, SameFunction
  <2>5. d \in Readable(s, memory[s], n, l)
    BY <2>1, <2>3, <2>4, Zenon
  <2> QED
    BY <1>1, <1>2, <1>5, <2>5, Zenon
<1> QED
  BY <1>7, <1>8, Zenon

\* What handling a request gives and leaves is what After says of it.
Follows(r, state, q) ==
  /\ Good(r, replies'[r], After(state, q).answers)
  /\ ~ lookup[r] => Remembered(mmaps', After(state, q).memory)

LEMMA AnswerIs ==
  ASSUME TypeOK, NEW r \in Responders, NEW reply, Answer(r, reply)
  PROVE  replies'[r] = Append(replies[r], reply)
BY DEF Answer, TypeOK

LEMMA RepliesAreBytes ==
  ASSUME TypeOK, NEW r \in Responders
  PROVE  replies[r] \in Seq(Seq(Byte))
BY DEF TypeOK

LEMMA OnesHaveNoData ==
  get_reply_data(<<1, 1, 1, 1>>) = <<>>
<1>1. Len(<<1, 1, 1, 1>>) < 12 + 13
  OBVIOUS
<1> QED
  BY <1>1, Zenon DEF get_reply_data, EtherSize

LEMMA WriteFollows ==
  ASSUME TypeOK, NEW r \in Responders, ~ lookup[r], NEW q \in Request, q.by # "bytes",
         ~ Mistaken(q), NEW m, m = Meaning(q), ~ m.read, Written(q, m),
         IF m.at + m.len > Size(q.sys) \/ m.reply THEN NoAnswer ELSE Answer(r, <<1, 1, 1, 1>>),
         NEW state, Good(r, replies[r], state.answers), Remembered(mmaps, state.memory)
  PROVE  Follows(r, state, q)
<1>1. PICK s \in Systems : s = q.sys
  BY DEF Request
<1>2. MemoryOK
  BY Zenon DEF TypeOK, MemoryOK
<1>3. PICK memory : memory = state.memory
  OBVIOUS
<1>4. PICK new : new = [memory EXCEPT ![s] = [a \in DOMAIN @ |->
                         IF a \in m.at .. m.at + m.len - 1 THEN m.data[a - m.at + 1] ELSE @[a]]]
  OBVIOUS
<1>5. PICK answers : answers = IF m.reply \/ (m.at + m.len > Size(s)) THEN state.answers
                               ELSE Append(state.answers, {<<>>})
  OBVIOUS
<1>6. After(state, q) = [memory |-> new, answers |-> answers]
  BY <1>1, <1>3, <1>4, <1>5, Zenon DEF After
<1>7. After(state, q).memory = new /\ After(state, q).answers = answers
  BY <1>6
<1>8. Remembered(mmaps', new)
  <2>1. DOMAIN memory = Systems /\ DOMAIN mmaps = Systems
    BY <1>2, <1>3, Zenon DEF MemoryOK, Remembered
  <2>2. DOMAIN new = Systems
    BY <1>4, <2>1, Zenon
  <2>3. mmaps' = [mmaps EXCEPT ![s] = [a \in DOMAIN @ |->
                   IF a \in m.at .. m.at + m.len - 1 THEN m.data[a - m.at + 1] ELSE @[a]]]
    BY <1>1, Zenon DEF Written
  <2>4. ASSUME NEW t \in Systems
        PROVE  /\ DOMAIN new[t] = DOMAIN Memory[t]
               /\ \A a \in DOMAIN Memory[t] :
                    (\A g \in Rings[t] : a \notin Field(g)) => mmaps'[t][a] = new[t][a]
    <3>1. /\ DOMAIN memory[t] = DOMAIN Memory[t] /\ DOMAIN mmaps[t] = DOMAIN Memory[t]
          /\ \A a \in DOMAIN Memory[t] :
               (\A g \in Rings[t] : a \notin Field(g)) => mmaps[t][a] = memory[t][a]
      <4>1. mmaps[t] \in [DOMAIN Memory[t] -> Byte]
        BY <1>2, Zenon DEF MemoryOK
      <4>2. DOMAIN mmaps[t] = DOMAIN Memory[t]
        BY <4>1
      <4> QED
        BY <1>3, <4>2, Zenon DEF Remembered
    <3>2. CASE t = s
      <4>1. new[t] = [a \in DOMAIN memory[t] |->
                       IF a \in m.at .. m.at + m.len - 1 THEN m.data[a - m.at + 1] ELSE memory[t][a]]
        BY <1>4, <2>1, <3>2, Zenon
      <4>2. mmaps'[t] = [a \in DOMAIN mmaps[t] |->
                       IF a \in m.at .. m.at + m.len - 1 THEN m.data[a - m.at + 1] ELSE mmaps[t][a]]
        BY <2>1, <2>3, <3>2, Zenon
      <4>3. DOMAIN new[t] = DOMAIN Memory[t]
        BY <3>1, <4>1, Zenon
      <4>4. ASSUME NEW a \in DOMAIN Memory[t], \A g \in Rings[t] : a \notin Field(g)
            PROVE  mmaps'[t][a] = new[t][a]
        <5>1. mmaps[t][a] = memory[t][a]
          BY <3>1, <4>4, Zenon
        <5> QED
          BY <3>1, <4>1, <4>2, <5>1, Zenon
      <4> QED
        BY <4>3, <4>4, Zenon
    <3>3. CASE t # s
      <4>1. new[t] = memory[t] /\ mmaps'[t] = mmaps[t]
        BY <1>4, <2>1, <2>3, <3>3, Zenon
      <4> QED
        BY <3>1, <4>1, Zenon
    <3> QED
      BY <3>2, <3>3, Zenon
  <2> QED
    BY <2>2, <2>4, Zenon DEF Remembered
<1>9. Good(r, replies'[r], answers)
  <2>1. CASE m.reply \/ (m.at + m.len > Size(s))
    <3>1. answers = state.answers
      BY <1>5, <2>1, Zenon
    <3>2. NoAnswer
      BY <1>1, <2>1, Zenon
    <3>3. replies' = replies
      BY <3>2 DEF NoAnswer
    <3> QED
      BY <3>1, <3>3, Zenon
  <2>2. CASE ~ (m.reply \/ (m.at + m.len > Size(s)))
    <3>1. answers = Append(state.answers, {<<>>})
      BY <1>5, <2>2, Zenon
    <3>2. Answer(r, <<1, 1, 1, 1>>)
      BY <1>1, <2>2, Zenon
    <3>3. replies'[r] = Append(replies[r], <<1, 1, 1, 1>>)
      BY <3>2, AnswerIs, Zenon
    <3>4. Taking(r, <<1, 1, 1, 1>>) \in {<<>>}
      BY OnesHaveNoData, Zenon DEF Taking
    <3> QED
      BY <3>1, <3>3, <3>4, RepliesAreBytes, OnesType, GoodAppend, Zenon
  <2> QED
    BY <2>1, <2>2, Zenon
<1> QED
  BY <1>7, <1>8, <1>9, Zenon DEF Follows

LEMMA ServedFollows ==
  ASSUME CrcIsAByte, TypeOK, PointerIsASlot, NEW r \in Responders, ~ lookup[r],
         NEW q \in Requests[r], Served(r, q, Meaning(q)),
         NEW state, Good(r, replies[r], state.answers), Remembered(mmaps, state.memory)
  PROVE  Follows(r, state, q)
<1>0. MemoryOK
  BY Zenon DEF TypeOK, MemoryOK
<1>1. q \in Request /\ q.by # "bytes" /\ Proper(q)
  BY RequestIsBytes, RequestAssumption, Zenon
<1>2. PICK m : m = Meaning(q)
  OBVIOUS
<1>3. CASE Mistaken(q) /\ UNCHANGED <<mmaps, running, replies>>
  <2>1. After(state, q) = state
    BY <1>1, <1>3, Zenon DEF After
  <2>2. mmaps' = mmaps /\ replies' = replies
    BY <1>3
  <2> QED
    BY <2>1, <2>2, Zenon DEF Follows
<1>4. CASE ~ Mistaken(q) /\ m.read /\ UNCHANGED <<mmaps, running>>
           /\ \E p, stray : /\ stray \in Stray /\ Answer(r, ReadReply(q.sys, p, stray))
                            /\ p = Parse(q.sys, Bytes(q)) /\ p.address = m.at /\ p.length = m.len
                            /\ Holds(q.sys, Bytes(q))
  <2>1. mmaps' = mmaps
    BY <1>4
  <2>2. PICK p, stray : /\ stray \in Stray /\ Answer(r, ReadReply(q.sys, p, stray))
                        /\ p = Parse(q.sys, Bytes(q)) /\ p.address = m.at /\ p.length = m.len
                        /\ Holds(q.sys, Bytes(q))
    BY <1>4, Zenon
  <2>3. PICK s \in Systems, b \in Seq(Byte) : s = q.sys /\ b = Bytes(q)
    <3>1. q.sys \in Systems
      BY <1>1 DEF Request
    <3>2. Bytes(q) \in Seq(Byte)
      BY RequestIsBytes, Zenon
    <3> QED
      BY <3>1, <3>2, Zenon
  <2>4. /\ p.instruction \in Byte /\ p.initiator \in Byte /\ p.id \in Byte
        /\ p.address \in Nat /\ p.length \in Length
    BY <2>2, <2>3, ParseType, Zenon
  <2>5. stray \in Byte /\ p.length \in Nat
    BY <2>2, <2>4, LengthIsNat, FoxsimileAssumption, Zenon
  <2>6. PICK d : d = [k \in 1 .. m.len |-> mmaps[s][m.at + k - 1]]
    OBVIOUS
  <2>7. /\ \A k \in 1 .. m.len : mmaps[s][m.at + k - 1] \in Byte
        /\ d \in Readable(s, state.memory[s], m.at, m.len)
    <3>1. m.at \in Nat /\ m.len \in Nat
      BY <2>2, <2>4, <2>5, Zenon
    <3> QED
      BY <1>0, <1>1, <1>2, <1>4, <2>3, <2>6, <3>1, ReadData, Zenon
  <2>8. PICK u : u = ReadReply(s, p, stray)
    OBVIOUS
  <2>9. u \in Seq(Byte) /\ get_reply_data(u) = d
    <3>1. /\ d = [k \in 1 .. p.length |-> mmaps[s][p.address + k - 1]]
          /\ \A k \in 1 .. p.length : mmaps[s][p.address + k - 1] \in Byte
      BY <2>2, <2>6, <2>7, Zenon
    <3> QED
      BY <2>4, <2>5, <2>8, <3>1, ReadReplyOf, Zenon
  <2>10. After(state, q) = [memory  |-> state.memory,
                            answers |-> Append(state.answers,
                                               Readable(s, state.memory[s], m.at, m.len))]
    BY <1>1, <1>2, <1>4, <2>3, Zenon DEF After
  <2>11. /\ After(state, q).memory = state.memory
         /\ After(state, q).answers
              = Append(state.answers, Readable(s, state.memory[s], m.at, m.len))
    BY <2>10
  <2>12. replies'[r] = Append(replies[r], u)
    BY <2>2, <2>3, <2>8, AnswerIs, Zenon
  <2>13. Taking(r, u) \in Readable(s, state.memory[s], m.at, m.len)
    BY <2>7, <2>9, Zenon DEF Taking
  <2>14. Good(r, replies'[r], After(state, q).answers)
    BY <2>9, <2>11, <2>12, <2>13, RepliesAreBytes, GoodAppend, Zenon
  <2> QED
    BY <2>1, <2>11, <2>14, Zenon DEF Follows
<1>5. CASE /\ ~ Mistaken(q) /\ ~ m.read
           /\ Written(q, m)
           /\ IF m.at + m.len > Size(q.sys) \/ m.reply THEN NoAnswer ELSE Answer(r, <<1, 1, 1, 1>>)
  BY <1>1, <1>2, <1>5, WriteFollows, Zenon
<1>6. Served(r, q, m)
  BY <1>2, Zenon
<1> QED
  BY <1>3, <1>4, <1>5, <1>6, Zenon DEF Served

LEMMA LookupFollows ==
  ASSUME TypeOK, NEW r \in Responders, lookup[r], NEW q \in Requests[r],
         get_response(r, Bytes(q)), NEW state, Good(r, replies[r], state.answers)
  PROVE  Follows(r, state, q)
<1>1. q.by = "bytes"
  BY RequestAssumption, Zenon
<1>2. Bytes(q) = q.code
  BY <1>1 DEF Bytes
<1>3. IF q.code \in DOMAIN response_lookup THEN Answer(r, response_lookup[q.code]) ELSE NoAnswer
  BY <1>2, Zenon DEF get_response
<1>4. CASE q.code \in DOMAIN response_lookup
  <2>1. PICK u \in Seq(Byte) : u = response_lookup[q.code]
    BY <1>4, FoxsimileAssumption
  <2>2. After(state, q) = [memory |-> state.memory, answers |-> Append(state.answers, {u})]
    BY <1>1, <1>4, <2>1, Zenon DEF After
  <2> DEFINE x == {u}
  <2>3. After(state, q).answers = Append(state.answers, x)
    BY <2>2
  <2>4. replies'[r] = Append(replies[r], u)
    BY <1>3, <1>4, <2>1, AnswerIs, Zenon
  <2>5. Taking(r, u) \in x
    BY Zenon DEF Taking
  <2>6. Good(r, replies'[r], After(state, q).answers)
    <3> HIDE DEF x
    <3> QED
      BY <2>3, <2>4, <2>5, RepliesAreBytes, GoodAppend, Zenon
  <2> QED
    BY <2>6, Zenon DEF Follows
<1>5. CASE q.code \notin DOMAIN response_lookup
  <2>1. After(state, q) = state
    BY <1>1, <1>5, Zenon DEF After
  <2>2. replies' = replies
    BY <1>3, <1>5 DEF NoAnswer
  <2> QED
    BY <2>1, <2>2, Zenon DEF Follows
<1> QED
  BY <1>4, <1>5, Zenon

-----------------------------------------------------------------------------
(* Every reply in its place, until and after each step.                    *)

\* The requests that have been handled: all but the one under way.
Handled(r) == IF Settled(r) THEN sent[r] ELSE Front(sent[r])

\* What a port has answered, and what is in memory, is as state says.
InState(r, state) ==
  /\ Good(r, replies[r], state.answers)
  /\ ~ lookup[r] => Remembered(mmaps, state.memory)

AsRequested == \A r \in Responders : InState(r, AfterAll(Handled(r)))

LEMMA FrontAndLast ==
  ASSUME NEW S, NEW h \in Seq(S), h # <<>>
  PROVE  Front(h) \in Seq(S) /\ h = Append(Front(h), Last(h)) /\ Last(h) \in S
<1>1. PICK l \in Nat : l + 1 = Len(h) /\ l = Len(h) - 1
  <2>1. Len(h) \in Nat \ {0}
    BY EmptySeq, Zenon
  <2>2. PICK k \in Nat : k = Len(h) /\ k # 0
    BY <2>1
  <2>3. k - 1 \in Nat /\ k - 1 + 1 = k
    BY <2>2
  <2> QED
    BY <2>2, <2>3
<1>2. \A k \in 1 .. l + 1 : h[k] \in S
  BY <1>1, ElementOfSeq
<1>3. l + 1 \in 1 .. l + 1 /\ \A k \in 1 .. l : k \in 1 .. l + 1
  BY <1>1
<1>4. Last(h) = h[l + 1] /\ Last(h) \in S
  BY <1>1, <1>2, <1>3, Zenon DEF Last
<1>5. PICK f \in Seq(S) : f = Front(h) /\ Len(f) = l /\ \A k \in 1 .. l : f[k] = h[k]
  <2>1. /\ SubSeq(h, 1, l) \in Seq(S)
        /\ Len(SubSeq(h, 1, l)) = IF 1 <= l THEN l - 1 + 1 ELSE 0
        /\ \A k \in 1 .. l - 1 + 1 : SubSeq(h, 1, l)[k] = h[1 + k - 1]
    <3>1. \A k \in 1 .. l : h[k] \in S
      BY <1>2, <1>3, Zenon
    <3> QED
      BY <3>1, SubSeqProperties
  <2>2. Len(SubSeq(h, 1, l)) = l /\ \A k \in 1 .. l : SubSeq(h, 1, l)[k] = h[k]
    BY <2>1
  <2>3. Front(h) = SubSeq(h, 1, l)
    BY <1>1, Zenon DEF Front
  <2> QED
    BY <2>1, <2>2, <2>3, Zenon
<1>6. PICK u : u = Append(f, Last(h))
  OBVIOUS
<1>7. /\ u \in Seq(S) /\ Len(u) = l + 1
      /\ \A k \in 1 .. l : u[k] = f[k]
      /\ u[l + 1] = Last(h)
  BY <1>4, <1>5, <1>6, Appended
<1>8. ASSUME NEW k \in 1 .. l + 1 PROVE u[k] = h[k]
  <2>1. k \in 1 .. l \/ k = l + 1
    OBVIOUS
  <2> QED
    BY <1>4, <1>5, <1>7, <2>1, Zenon
<1>9. u = h
  BY <1>1, <1>7, <1>8, SeqEqual
<1> QED
  BY <1>4, <1>5, <1>6, <1>9, Zenon

LEMMA AfterLast ==
  ASSUME TypeOK, NEW r \in Responders, sent[r] # <<>>
  PROVE  /\ Last(sent[r]) \in Requests[r]
         /\ AfterAll(sent[r]) = After(AfterAll(Front(sent[r])), Last(sent[r]))
<1>1. sent[r] \in Seq(Requests[r])
  BY Zenon DEF TypeOK
<1>2. PICK f, q : f = Front(sent[r]) /\ q = Last(sent[r])
  OBVIOUS
<1>3. f \in Seq(Requests[r]) /\ q \in Requests[r] /\ sent[r] = Append(f, q)
  BY <1>1, <1>2, FrontAndLast, Zenon
<1>4. AfterAll(Append(f, q)) = After(AfterAll(f), q)
  BY <1>3, AfterOneMore, Zenon
<1> QED
  BY <1>2, <1>3, <1>4, Zenon

\* Nothing changes at a port.
LEMMA StaysInState ==
  ASSUME NEW r, NEW state, InState(r, state), replies'[r] = replies[r],
         ~ lookup[r] => mmaps' = mmaps
  PROVE  InState(r, state)'
BY Zenon DEF InState

LEMMA StaysHandled ==
  ASSUME NEW r, wire'[r] = wire[r], sent'[r] = sent[r],
         message_accumulator'[r] = message_accumulator[r]
  PROVE  Handled(r)' = Handled(r)
BY Zenon DEF Handled, Settled

LEMMA InitAsRequested ==
  Init => AsRequested
<1> SUFFICES ASSUME Init, NEW r \in Responders PROVE InState(r, AfterAll(Handled(r)))
  BY DEF AsRequested
<1>1. Handled(r) = <<>>
  BY DEF Init, Handled, Settled
<1>2. AfterAll(Handled(r)).memory = Memory /\ AfterAll(Handled(r)).answers = <<>>
  BY <1>1, AfterNone DEF Start
<1>3. mmaps = Memory /\ DOMAIN Memory = Systems
  BY FoxsimileAssumption, Zenon DEF Init
<1>4. Remembered(mmaps, Memory)
  BY <1>3, Zenon DEF Remembered
<1>5. replies[r] = <<>>
  BY DEF Init
<1>6. Good(r, <<>>, <<>>)
  <2>1. <<>> \in Seq(Nat) /\ \A k \in 1 .. 0 : FALSE
    OBVIOUS
  <2>2. Len(<<>>) = 0
    OBVIOUS
  <2> QED
    BY <2>1, <2>2, Zenon DEF Good
<1> QED
  BY <1>2, <1>3, <1>4, <1>5, <1>6, Zenon DEF InState

LEMMA TimerAsRequested ==
  ASSUME TypeOK, PointerIsASlot, AsRequested, handle_frame_timer
  PROVE  AsRequested'
<1> SUFFICES ASSUME NEW r \in Responders PROVE InState(r, AfterAll(Handled(r)))'
  BY DEF AsRequested
<1>0. MemoryOK
  BY Zenon DEF TypeOK, MemoryOK
<1>1. PICK state : state = AfterAll(Handled(r)) /\ InState(r, state)
  BY Zenon DEF AsRequested
<1>2. UNCHANGED wire /\ UNCHANGED sent /\ UNCHANGED message_accumulator /\ UNCHANGED replies
  BY DEF handle_frame_timer
<1>3. Handled(r)' = Handled(r)
  BY <1>2, StaysHandled, Zenon
<1>4. ASSUME ~ lookup[r] PROVE Remembered(mmaps', state.memory)
  <2>1. Remembered(mmaps, state.memory)
    BY <1>1, <1>4, Zenon DEF InState
  <2>2. \A s \in Systems : \A a \in DOMAIN Memory[s] :
          (\A g \in Rings[s] : a \notin Field(g)) => mmaps'[s][a] = mmaps[s][a]
    BY <1>0, TimerMoves, Zenon
  <2>3. ASSUME NEW s \in Systems, NEW a \in DOMAIN Memory[s],
               \A g \in Rings[s] : a \notin Field(g)
        PROVE  mmaps'[s][a] = state.memory[s][a]
    BY <2>1, <2>2, <2>3, Zenon DEF Remembered
  <2> QED
    BY <2>1, <2>3, Zenon DEF Remembered
<1>5. InState(r, state)'
  BY <1>1, <1>2, <1>4, Zenon DEF InState
<1>6. AfterAll(Handled(r))' = state
  BY <1>1, <1>3, Zenon DEF AfterAll
<1> QED
  BY <1>5, <1>6, Zenon

\* Only the replies of the port that handles a request change, and the memory
\* only if it is the one that answers from memory.
LEMMA ElsewhereTheSame ==
  ASSUME CrcIsAByte, TypeOK, NEW r \in Responders, NEW q \in Requests[r],
         get_response(r, Bytes(q)), NEW t \in Responders, t # r
  PROVE  replies'[t] = replies[t] /\ (~ lookup[t] => mmaps' = mmaps)
<1>1. ASSUME NEW reply, Answer(r, reply) PROVE replies'[t] = replies[t]
  BY <1>1 DEF Answer, TypeOK
<1>2. NoAnswer => replies'[t] = replies[t]
  BY DEF NoAnswer
<1>3. CASE lookup[r]
  <2>1. mmaps' = mmaps
    <3>1. UNCHANGED <<mmaps, running>>
      BY <1>3, Zenon DEF get_response
    <3> QED
      BY <3>1
  <2>2. NoAnswer \/ \E reply : Answer(r, reply)
    BY <1>3, Zenon DEF get_response
  <2> QED
    BY <1>1, <1>2, <2>1, <2>2, Zenon
<1>4. CASE ~ lookup[r]
  <2>1. lookup[t]
    BY <1>4, RequestAssumption, Zenon
  <2>2. Served(r, q, Meaning(q))
    <3>1. make_reply(r, Bytes(q))
      BY <1>4, Zenon DEF get_response
    <3> QED
      BY <1>4, <3>1, RequestServed, Zenon
  <2>3. UNCHANGED <<mmaps, running, replies>> => replies'[t] = replies[t]
    OBVIOUS
  <2>4. \/ UNCHANGED <<mmaps, running, replies>> \/ NoAnswer \/ \E reply : Answer(r, reply)
    <3>1. PICK m : m = Meaning(q)
      OBVIOUS
    <3>2. Served(r, q, m)
      BY <2>2, <3>1, Zenon
    <3> QED
      BY <3>2, Zenon DEF Served
  <2> QED
    BY <1>1, <1>2, <2>1, <2>3, <2>4, Zenon
<1> QED
  BY <1>3, <1>4, Zenon

LEMMA ReceiveAsRequested ==
  ASSUME CrcIsAByte, TypeOK, OneAtATime, PointerIsASlot, AsRequested, NEW r \in Responders,
         Receive(r)
  PROVE  AsRequested'
<1> SUFFICES ASSUME NEW t \in Responders PROVE InState(t, AfterAll(Handled(t)))'
  BY DEF AsRequested
<1>1. PICK n : await_full_buffer(r, n)
  BY Zenon DEF Receive
<1>2. PICK q : q = Last(sent[r])
  OBVIOUS
<1>3. /\ ~ Settled(r) /\ sent[r] # <<>> /\ q \in Requests[r]
      /\ \/ ~ Settled(r)' /\ UNCHANGED <<running, mmaps, replies>>
         \/ Settled(r)' /\ get_response(r, Bytes(q))
  BY <1>1, <1>2, Taken, Zenon DEF OneAtATime
<1>4. UNCHANGED sent
  BY <1>1 DEF await_full_buffer
<1>5. PICK state : state = AfterAll(Handled(t)) /\ InState(t, state)
  BY Zenon DEF AsRequested
<1>6. CASE t = r
  <2>1. Handled(t) = Front(sent[t])
    BY <1>3, <1>6, Zenon DEF Handled
  <2>2. CASE ~ Settled(r)' /\ UNCHANGED <<running, mmaps, replies>>
    <3>1. mmaps' = mmaps /\ replies' = replies
      BY <2>2
    <3>2. InState(t, state)'
      BY <1>5, <3>1, StaysInState, Zenon
    <3>3. Handled(t)' = Handled(t)
      <4>1. sent' = sent /\ ~ Settled(t)'
        BY <1>4, <1>6, <2>2, Zenon
      <4>2. Handled(t)' = Front(sent[t])'
        BY <4>1, Zenon DEF Handled
      <4>3. Front(sent[t])' = Front(sent[t])
        BY <4>1, Zenon DEF Front
      <4> QED
        BY <2>1, <4>2, <4>3, Zenon
    <3>4. AfterAll(Handled(t))' = state
      BY <1>5, <3>3, Zenon DEF AfterAll
    <3> QED
      BY <3>2, <3>4, Zenon
  <2>3. CASE Settled(r)' /\ get_response(r, Bytes(q))
    <3>1. Follows(r, state, q)
      <4>1. CASE lookup[r]
        <5>1. Good(r, replies[r], state.answers)
          BY <1>5, <1>6, Zenon DEF InState
        <5> QED
          BY <1>3, <2>3, <4>1, <5>1, LookupFollows, Zenon
      <4>2. CASE ~ lookup[r]
        <5>1. Good(r, replies[r], state.answers) /\ Remembered(mmaps, state.memory)
          BY <1>5, <1>6, <4>2, Zenon DEF InState
        <5>2. make_reply(r, Bytes(q))
          BY <2>3, <4>2, Zenon DEF get_response
        <5>3. Served(r, q, Meaning(q))
          BY <1>3, <4>2, <5>2, RequestServed, Zenon
        <5> QED
          BY <1>3, <4>2, <5>1, <5>3, ServedFollows, Zenon
      <4> QED
        BY <4>1, <4>2, Zenon
    <3>2. PICK new : new = After(state, q)
      OBVIOUS
    <3>3. InState(t, new)'
      BY <1>6, <3>1, <3>2, Zenon DEF Follows, InState
    <3>4. Handled(t)' = sent[t]
      BY <1>4, <1>6, <2>3, Zenon DEF Handled
    <3>5. AfterAll(sent[t]) = new
      <4>1. AfterAll(sent[t]) = After(AfterAll(Front(sent[t])), Last(sent[t]))
        BY <1>3, <1>6, AfterLast, Zenon
      <4> QED
        BY <1>2, <1>5, <1>6, <2>1, <3>2, <4>1, Zenon
    <3>6. AfterAll(Handled(t))' = new
      BY <3>4, <3>5, Zenon DEF AfterAll
    <3> QED
      BY <3>3, <3>6, Zenon
  <2> QED
    BY <1>3, <2>2, <2>3, Zenon
<1>7. CASE t # r
  <2>1. wire'[t] = wire[t] /\ sent'[t] = sent[t]
    BY <1>1, <1>7 DEF await_full_buffer, async_receive, TypeOK
  <2>2. message_accumulator'[t] = message_accumulator[t]
    <3>1. PICK x : message_accumulator' = [message_accumulator EXCEPT ![r] = x]
      BY <1>1, Zenon DEF await_full_buffer
    <3> QED
      BY <1>7, <3>1 DEF TypeOK
  <2>3. Handled(t)' = Handled(t)
    BY <2>1, <2>2, StaysHandled, Zenon
  <2>4. replies'[t] = replies[t] /\ (~ lookup[t] => mmaps' = mmaps)
    <3>1. CASE UNCHANGED <<running, mmaps, replies>>
      BY <3>1
    <3>2. CASE get_response(r, Bytes(q))
      BY <1>3, <1>7, <3>2, ElsewhereTheSame, Zenon
    <3> QED
      BY <1>3, <3>1, <3>2, Zenon
  <2>5. InState(t, state)'
    BY <1>5, <2>4, StaysInState, Zenon
  <2>6. AfterAll(Handled(t))' = state
    BY <1>5, <2>3, Zenon DEF AfterAll
  <2> QED
    BY <2>5, <2>6, Zenon
<1> QED
  BY <1>6, <1>7, Zenon

LEMMA RequestIsNotEmpty ==
  ASSUME CrcIsAByte, NEW r \in Responders, NEW q \in Requests[r]
  PROVE  Bytes(q) # <<>>
<1>1. PICK n \in Nat : n = Len(Bytes(q))
  BY RequestIsBytes, LenProperties, Zenon
<1>2. n # 0
  <2>1. CASE lookup[r]
    <3>1. q.by = "bytes" /\ Len(q.code) = 2
      BY <2>1, RequestAssumption, Zenon
    <3>2. Bytes(q) = q.code
      BY <3>1 DEF Bytes
    <3>3. n = 2
      BY <1>1, <3>1, <3>2, Zenon
    <3> QED
      BY <3>3
  <2>2. CASE ~ lookup[r]
    <3>1. Enveloped(Bytes(q))
      BY <2>2, RequestEnveloped, Zenon
    <3>2. n \in 33 .. 267
      BY <1>1, <3>1, Zenon DEF Enveloped
    <3> QED
      BY <3>2
  <2> QED
    BY <2>1, <2>2, Zenon
<1>3. Len(<<>>) = 0
  OBVIOUS
<1> QED
  BY <1>1, <1>2, <1>3, Zenon

\* Only what is under way changes, or nothing.
LEMMA OthersAsRequested ==
  ASSUME AsRequested, UNCHANGED mmaps, UNCHANGED replies,
         \A t \in Responders : Handled(t)' = Handled(t)
  PROVE  AsRequested'
<1> SUFFICES ASSUME NEW t \in Responders PROVE InState(t, AfterAll(Handled(t)))'
  BY DEF AsRequested
<1>1. PICK state : state = AfterAll(Handled(t)) /\ InState(t, state)
  BY Zenon DEF AsRequested
<1>2. InState(t, state)'
  BY <1>1, StaysInState, Zenon
<1>3. AfterAll(Handled(t))' = state
  BY <1>1, Zenon DEF AfterAll
<1> QED
  BY <1>2, <1>3, Zenon

LEMMA SendAsRequested ==
  ASSUME CrcIsAByte, Patient, TypeOK, AsRequested, NEW r \in Responders,
         NEW q \in Requests[r], Send(r, q)
  PROVE  AsRequested'
<1>1. /\ wire' = [wire EXCEPT ![r] = @ \o Bytes(q)]
      /\ sent' = [sent EXCEPT ![r] = Append(@, q)]
      /\ UNCHANGED message_accumulator
      /\ Settled(r)
  BY Zenon DEF Send
<1>2. UNCHANGED mmaps /\ UNCHANGED replies
  BY DEF Send
<1>3. ASSUME NEW t \in Responders PROVE Handled(t)' = Handled(t)
  <2>1. CASE t = r
    <3>1. wire'[t] # <<>>
      <4>1. PICK b \in Seq(Byte) : b = Bytes(q) /\ b # <<>>
        BY RequestIsBytes, RequestIsNotEmpty, Zenon
      <4>2. wire'[t] = <<>> \o b
        BY <1>1, <2>1, <4>1 DEF TypeOK, Settled
      <4>3. <<>> \o b = b
        BY <4>1, ConcatEmptySeq, Zenon
      <4> QED
        BY <4>1, <4>2, <4>3, Zenon
    <3>2. ~ Settled(t)'
      BY <3>1, Zenon DEF Settled
    <3>3. sent[t] \in Seq(Requests[t]) /\ sent'[t] = Append(sent[t], q) /\ q \in Requests[t]
      BY <1>1, <2>1 DEF TypeOK
    <3>4. Front(sent[t])' = sent[t]
      <4>1. Front(Append(sent[t], q)) = sent[t]
        BY <3>3, LastOfAppend, Zenon
      <4> QED
        BY <3>3, <4>1, Zenon DEF Front
    <3> QED
      BY <1>1, <2>1, <3>2, <3>4, Zenon DEF Handled
  <2>2. CASE t # r
    <3>1. /\ wire'[t] = wire[t] /\ sent'[t] = sent[t]
          /\ message_accumulator'[t] = message_accumulator[t]
      BY <1>1, <2>2 DEF TypeOK
    <3> QED
      BY <3>1, StaysHandled, Zenon
  <2> QED
    BY <2>1, <2>2, Zenon
<1> QED
  BY <1>2, <1>3, OthersAsRequested, Zenon

LEMMA ResetAsRequested ==
  ASSUME Patient, TypeOK, AsRequested, NEW r \in Responders, Reset(r)
  PROVE  AsRequested'
<1>1. /\ wire' = [wire EXCEPT ![r] = <<>>]
      /\ sent' = [sent EXCEPT ![r] = IF wire[r] = <<>> THEN @ ELSE Front(@)]
      /\ UNCHANGED message_accumulator
      /\ message_accumulator[r] = <<>>
  BY Zenon DEF Reset
<1>2. UNCHANGED mmaps /\ UNCHANGED replies
  BY DEF Reset
<1>3. ASSUME NEW t \in Responders PROVE Handled(t)' = Handled(t)
  <2>1. CASE t = r
    <3>1. wire'[t] = <<>> /\ message_accumulator'[t] = <<>>
      BY <1>1, <2>1 DEF TypeOK
    <3>2. Handled(t)' = sent'[t]
      BY <3>1, Zenon DEF Handled, Settled
    <3>3. sent'[t] = IF wire[t] = <<>> THEN sent[t] ELSE Front(sent[t])
      BY <1>1, <2>1 DEF TypeOK
    <3> QED
      BY <1>1, <2>1, <3>2, <3>3, Zenon DEF Handled, Settled
  <2>2. CASE t # r
    <3>1. /\ wire'[t] = wire[t] /\ sent'[t] = sent[t]
          /\ message_accumulator'[t] = message_accumulator[t]
      BY <1>1, <2>2 DEF TypeOK
    <3> QED
      BY <3>1, StaysHandled, Zenon
  <2> QED
    BY <2>1, <2>2, Zenon
<1> QED
  BY <1>2, <1>3, OthersAsRequested, Zenon

LEMMA NextAsRequested ==
  ASSUME CrcIsAByte, Patient, TypeOK, OneAtATime, PointerIsASlot, AsRequested, [Next]_vars
  PROVE  AsRequested'
<1>1. CASE UNCHANGED <<wire, sent, message_accumulator, mmaps, replies>>
  <2>1. wire' = wire /\ sent' = sent /\ message_accumulator' = message_accumulator
    BY <1>1
  <2>2. mmaps' = mmaps /\ replies' = replies
    BY <1>1
  <2>3. \A t \in Responders : Handled(t)' = Handled(t)
    BY <2>1, StaysHandled, Zenon
  <2> QED
    BY <2>2, <2>3, OthersAsRequested, Zenon
<1>2. \/ UNCHANGED <<wire, sent, message_accumulator, mmaps, replies>>
      \/ handle_frame_timer
      \/ \E r \in Responders : \/ Receive(r)
                               \/ \E q \in Requests[r] : Send(r, q)
                               \/ Reset(r)
  <2>1. CASE UNCHANGED vars
    BY <2>1 DEF vars
  <2>2. ASSUME NEW r \in Responders, end_session(r) \/ Connect(r) \/ Close(r)
        PROVE  UNCHANGED <<wire, sent, message_accumulator, mmaps, replies>>
    BY <2>2 DEF end_session, Connect, Close
  <2> QED
    BY <2>1, <2>2, Zenon DEF Next
<1> QED
  BY <1>1, <1>2, TimerAsRequested, ReceiveAsRequested, SendAsRequested, ResetAsRequested, Zenon

\* The requests that are handled have their replies, and the one under way has
\* none yet.
LEMMA RepliesInOrder ==
  ASSUME TypeOK, OneAtATime, AsRequested
  PROVE  AnswersInOrder
<1> SUFFICES ASSUME NEW r \in Responders, NEW got, got = Got(r), NEW wanted, wanted = Wanted(r)
             PROVE  /\ Len(got) \in {Len(wanted), Len(wanted) - 1}
                    /\ Settled(r) => Len(got) = Len(wanted)
                    /\ \A i \in DOMAIN got : got[i] \in wanted[i]
  BY Zenon DEF AnswersInOrder
<1>1. PICK state : state = AfterAll(Handled(r)) /\ InState(r, state)
  BY Zenon DEF AsRequested
<1>2. PICK answers, S : answers = state.answers /\ answers \in Seq(S) /\ Good(r, replies[r], answers)
  BY <1>1, Zenon DEF InState, Good
<1>3. PICK n \in Nat : n = Len(answers) /\ n = Len(replies[r])
  BY <1>2, LenProperties, Zenon DEF Good
<1>4. DOMAIN replies[r] = 1 .. n
  BY <1>3, RepliesAreBytes, LenProperties, Zenon
<1>5. got = [k \in 1 .. n |-> Taking(r, replies[r][k])]
  BY <1>4, Zenon DEF Got, Taking
<1>6. DOMAIN got = 1 .. n /\ \A k \in 1 .. n : got[k] \in answers[k]
  BY <1>2, <1>3, <1>5, Zenon DEF Good
<1>7. Len(got) = n
  <2>1. \E u : u = got /\ Len(u) = n
    <3> DEFINE F(k) == Taking(r, replies[r][k])
    <3>1. got = [k \in 1 .. n |-> F(k)]
      BY <1>5, Zenon
    <3> HIDE DEF F
    <3> QED
      BY <3>1
  <2> QED
    BY <2>1, Zenon
<1>8. CASE Settled(r)
  <2>1. wanted = answers
    BY <1>1, <1>2, <1>8, Zenon DEF Wanted, Handled
  <2> QED
    BY <1>3, <1>6, <1>7, <2>1, Zenon
<1>9. CASE ~ Settled(r)
  <2>1. sent[r] # <<>> /\ Handled(r) = Front(sent[r])
    BY <1>9, Zenon DEF OneAtATime, UnderWay, Handled
  <2>2. wanted = After(state, Last(sent[r])).answers
    BY <1>1, <2>1, AfterLast, Zenon DEF Wanted
  <2>3. wanted = answers \/ \E x : wanted = Append(answers, x)
    BY <1>2, <2>2, AfterGrows, Zenon
  <2>4. CASE wanted = answers
    BY <1>3, <1>6, <1>7, <1>9, <2>4, Zenon
  <2>5. ASSUME NEW x, wanted = Append(answers, x)
        PROVE  /\ Len(got) = Len(wanted) - 1
               /\ \A i \in DOMAIN got : got[i] \in wanted[i]
    <3>1. PICK T : T = S \cup {x}
      OBVIOUS
    <3>2. answers \in Seq(T) /\ x \in T
      <4>1. S \subseteq T /\ x \in T
        BY <3>1
      <4> QED
        BY <1>2, <4>1, SeqMonotonic
    <3>3. Len(wanted) = n + 1 /\ \A k \in 1 .. n : wanted[k] = answers[k]
      <4>1. Len(Append(answers, x)) = n + 1 /\ \A k \in 1 .. n : Append(answers, x)[k] = answers[k]
        <5>1. answers \in Seq(T) /\ x \in T /\ n = Len(answers)
          BY <1>3, <3>2, Zenon
        <5> QED
          BY ONLY <5>1, Appended
      <4> QED
        BY <2>5, <4>1, Zenon
    <3>4. PICK w \in Nat : w = Len(wanted) /\ w = n + 1
      <4>1. n + 1 \in Nat
        OBVIOUS
      <4> QED
        BY <3>3, <4>1, Zenon
    <3>5. Len(got) = Len(wanted) - 1
      <4>1. w - 1 = n
        BY <3>4
      <4> QED
        BY <1>7, <3>4, <4>1, Zenon
    <3> QED
      BY <1>6, <3>3, <3>5, Zenon
  <2> QED
    BY <1>9, <2>3, <2>4, <2>5, Zenon
<1> QED
  BY <1>8, <1>9, Zenon

\* However the requests of a client that lets each be taken up are cut up on the
\* way, it gets one reply to each read, in the order it asked, with the data
\* that its earlier writes left there or a write pointer that is a slot of its
\* ring (await_full_buffer, make_reply, get_reply_data).
THEOREM AnswersCome ==
  ASSUME CrcIsAByte, Patient
  PROVE  Spec => []AnswersInOrder
<1>1. Init => TypeOK /\ OneAtATime /\ PointerIsASlot /\ AsRequested
  <2>1. Init => PointerIsASlot
    BY RingAssumption, Zenon DEF Init, PointerIsASlot
  <2> QED
    BY <2>1, InitType, InitOneAtATime, InitAsRequested, Zenon
<1>2. TypeOK /\ OneAtATime /\ PointerIsASlot /\ AsRequested /\ [Next]_vars
        => TypeOK' /\ OneAtATime' /\ PointerIsASlot' /\ AsRequested'
  BY NextType, NextOneAtATime, NextPointers, NextAsRequested, Zenon
<1>3. TypeOK /\ OneAtATime /\ AsRequested => AnswersInOrder
  BY RepliesInOrder, Zenon
<1> QED
  BY <1>1, <1>2, <1>3, PTL DEF Spec
=============================================================================
