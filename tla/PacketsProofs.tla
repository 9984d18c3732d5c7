--------------------------- MODULE PacketsProofs ---------------------------
(* Proofs about Packets, for every size of a chunk, every song and every   *)
(* session.                                                                *)
EXTENDS Packets, AesProofs

-----------------------------------------------------------------------------
(* Bytes.                                                                  *)

\* The bytes that are written after others: no bits, the last one, the first.
LEMMA OneBits ==
  /\ \A i \in 0 .. 7 : Bit(0, i) = 0
  /\ Bit(1, 0) = 1 /\ \A i \in 1 .. 7 : Bit(1, i) = 0
<1>1. /\ Bit(0, 0) = 0 /\ Bit(0, 1) = 0 /\ Bit(0, 2) = 0 /\ Bit(0, 3) = 0
      /\ Bit(0, 4) = 0 /\ Bit(0, 5) = 0 /\ Bit(0, 6) = 0 /\ Bit(0, 7) = 0
  BY DEF Bit
<1>2. /\ Bit(1, 0) = 1 /\ Bit(1, 1) = 0 /\ Bit(1, 2) = 0 /\ Bit(1, 3) = 0
      /\ Bit(1, 4) = 0 /\ Bit(1, 5) = 0 /\ Bit(1, 6) = 0 /\ Bit(1, 7) = 0
  BY DEF Bit
<1> QED
  BY <1>1, <1>2

\* What | does to bytes.
LEMMA OrSum ==
  ASSUME NEW x \in Byte, NEW y \in Byte
  PROVE  LET At(i) == IF Bit(x, i) = 1 \/ Bit(y, i) = 1 THEN 1 ELSE 0
         IN Ored[x][y] = At(0) + 2 * At(1) + 4 * At(2) + 8 * At(3) + 16 * At(4)
                         + 32 * At(5) + 64 * At(6) + 128 * At(7)
<1>1. /\ 2^0 = 1 /\ 2^1 = 2 /\ 2^2 = 4 /\ 2^3 = 8 /\ 2^4 = 16 /\ 2^5 = 32
      /\ 2^6 = 64 /\ 2^7 = 128
  OBVIOUS
<1> DEFINE At(i) == IF Bit(x, i) = 1 \/ Bit(y, i) = 1 THEN 2^i ELSE 0
<1>2. Ored[x][y] = At(0) + At(1) + At(2) + At(3) + At(4) + At(5) + At(6) + At(7)
  BY Zenon DEF Ored
<1> QED
  BY <1>1, <1>2

\* bits_write adds what it writes to bits that are zero.
LEMMA OrAdds ==
  /\ \A x \in Byte : Ored[x][0] = x
  /\ \A x \in Byte : x % 2 = 0 => Ored[x][1] = x + 1
  /\ \A s \in {0, 1} : Ored[0][16 * s] = 16 * s /\ Ored[16 * s][2] = 16 * s + 2
<1>0. 0 \in Byte /\ 1 \in Byte
  BY DEF Byte
<1>1. ASSUME NEW x \in Byte PROVE Ored[x][0] = x
  BY <1>0, OneBits, OrSum, ByteBits
<1>2. ASSUME NEW x \in Byte, x % 2 = 0 PROVE Ored[x][1] = x + 1
  <2>1. Bit(x, 0) = 0
    BY <1>2 DEF Bit, Byte
  <2> QED
    BY <1>0, <2>1, OneBits, OrSum, ByteBits
<1>3. Ored[0][16] = 16 /\ Ored[0][2] = 2 /\ Ored[16][2] = 18
  BY DEF Ored, Byte, Bit
<1>4. 16 * 0 = 0 /\ 16 * 1 = 16 /\ 0 + 2 = 2 /\ 16 + 2 = 18
  OBVIOUS
<1>5. Ored[0][0] = 0
  BY <1>1 DEF Byte
<1> QED
  BY <1>1, <1>2, <1>3, <1>4, <1>5

\* What the writer holds: Held(b, p, n), n bits of the byte at p are written.
Held(b, p, n) == [buf |-> b, bp |-> p, bpos |-> n]

\* A field that fits into the byte at p, which is then x.
LEMMA FieldWritten ==
  ASSUME NEW b, NEW p, NEW n \in 0 .. 8, NEW d, NEW len \in Nat,
         NEW end \in 0 .. 8, n + len = end, NEW x,
         x = IF n # 0 THEN Ored[b[p]][d * 2^(8 - end)] ELSE d * 2^(8 - end)
  PROVE  bits_write(Held(b, p, n), d, len) = Held([b EXCEPT ![p] = x], p, end)
<1> DEFINE w == Held(b, p, n)
           rb == 8 - w.bpos - len
<1>1. w.buf = b /\ w.bp = p /\ w.bpos = n
  BY DEF Held
<1>2. rb = 8 - end /\ rb >= 0 /\ n + len = end
  BY <1>1
<1>3. bits_write(w, d, len) =
        [w EXCEPT !.buf[w.bp] = IF w.bpos # 0 THEN Ored[@][d * 2^rb] ELSE d * 2^rb,
                  !.bpos = @ + len]
  BY <1>2 DEF bits_write
<1>4. bits_write(w, d, len) = [w EXCEPT !.buf[p] = x, !.bpos = end]
  BY <1>1, <1>2, <1>3
<1> QED
  BY <1>4 DEF Held

\* A field that goes on in the next byte: the two are then x and y.
LEMMA FieldGoesOn ==
  ASSUME NEW b, NEW p, NEW n \in 0 .. 8, NEW d, NEW len \in Nat,
         NEW end \in 1 .. 8, n + len = 8 + end, NEW q, q = p + 1, NEW x, NEW y,
         x = Ored[b[p]][d \div 2^(end)], y = (d * 2^(8 - end)) % 256
  PROVE  bits_write(Held(b, p, n), d, len) = Held([b EXCEPT ![p] = x, ![q] = y], q, end)
<1> DEFINE w == Held(b, p, n)
           rb == 8 - w.bpos - len
<1>1. w.buf = b /\ w.bp = p /\ w.bpos = n
  BY DEF Held
<1>2. -rb = end /\ 8 + rb = 8 - end /\ ~(rb >= 0)
  BY <1>1
<1>3. bits_write(w, d, len) =
        [w EXCEPT !.buf[w.bp] = Ored[@][d \div 2^(-rb)],
                  !.buf[w.bp + 1] = (d * 2^(8 + rb)) % 256,
                  !.bp = @ + 1,
                  !.bpos = -rb]
  BY <1>2 DEF bits_write
<1>4. bits_write(w, d, len) =
        [w EXCEPT !.buf[p] = Ored[@][d \div 2^(end)],
                  !.buf[p + 1] = (d * 2^(8 - end)) % 256,
                  !.bp = @ + 1,
                  !.bpos = end]
  BY <1>1, <1>2, <1>3, Zenon
<1>5. bits_write(w, d, len) = [w EXCEPT !.buf[p] = x, !.buf[q] = y, !.bp = q, !.bpos = end]
  BY <1>1, <1>4
<1> QED
  BY <1>5, ZenonT(60) DEF Held

Put(b, p, x, q, y) == [b EXCEPT ![p] = x, ![q] = y]

\* A byte written at bit 7 fills one byte and begins the next.
LEMMA ByteGoesOn ==
  ASSUME NEW b, NEW p, NEW d \in Byte, NEW q, q = p + 1, NEW x, x = Ored[b[p]][d \div 128],
         NEW y, y = (2 * d) % 256
  PROVE  bits_write(Held(b, p, 7), d, 8) = Held(Put(b, p, x, q, y), q, 7)
<1>1. /\ 7 \in 0 .. 8 /\ 8 \in Nat /\ 7 \in 1 .. 8 /\ 7 + 8 = 8 + 7
      /\ 2^7 = 128 /\ d * 2^(8 - 7) = 2 * d
  BY DEF Byte
<1>2. x = Ored[b[p]][d \div 2^7] /\ y = (d * 2^(8 - 7)) % 256
  BY <1>1
<1>3. bits_write(Held(b, p, 7), d, 8) = Held([b EXCEPT ![p] = x, ![q] = y], q, 7)
  BY <1>1, <1>2, FieldGoesOn
<1> QED
  BY <1>3 DEF Put

\* After the header; after d and seven bits of the byte before.
HeaderHeld(w, c, s) ==
  w = Held(c, 3, 7) /\ c[1] = 32 /\ c[2] = 0 /\ c[3] = 16 * s + 2
ByteHeld(w, b, p, d, c) ==
  /\ w = Held(c, p + 1, 7)
  /\ c[p] = b[p] + (d \div 128) /\ c[p + 1] = (2 * d) % 256
  /\ \A k \in 1 .. p - 1 : c[k] = b[k]

\* A byte after seven bits.
LEMMA ByteWritten ==
  ASSUME NEW L \in Nat, NEW b \in [1 .. L -> Byte], NEW p \in 1 .. L, p + 1 \in 1 .. L,
         NEW d \in Byte, b[p] % 2 = 0
  PROVE  \E c \in [1 .. L -> Byte] : ByteHeld(bits_write(Held(b, p, 7), d, 8), b, p, d, c)
<1> DEFINE x == b[p] + (d \div 128)
           y == (2 * d) % 256
           c == Put(b, p, x, p + 1, y)
<1>1. d \div 128 \in {0, 1} /\ y \in Byte
  BY DEF Byte
<1>2. x = Ored[b[p]][d \div 128]
  <2>1. b[p] \in Byte
    OBVIOUS
  <2>2. \A z \in Byte : z + 0 = z
    BY DEF Byte
  <2> QED
    BY <1>1, <2>1, <2>2, OrAdds
<1>3. x \in Byte
  <2>1. \A z \in Byte : z % 2 = 0 => z + 0 \in Byte /\ z + 1 \in Byte
    BY DEF Byte
  <2> QED
    BY <1>1, <2>1
<1>4. bits_write(Held(b, p, 7), d, 8) = Held(c, p + 1, 7)
  <2>1. y = (2 * d) % 256
    OBVIOUS
  <2> HIDE DEF x, y
  <2> QED
    BY <1>2, <2>1, ByteGoesOn
<1>5. c \in [1 .. L -> Byte] /\ c[p] = x /\ c[p + 1] = y /\ \A k \in 1 .. p - 1 : c[k] = b[k]
  <2> HIDE DEF x, y
  <2> QED
    BY <1>1, <1>3 DEF Put
<1>6. ByteHeld(bits_write(Held(b, p, 7), d, 8), b, p, d, c)
  BY <1>4, <1>5 DEF ByteHeld
<1> HIDE DEF c
<1> QED
  BY <1>5, <1>6

\* The writer W after each field of the header.
HeaderSteps(W, b, s) ==
  /\ W[0] = Held(b, 1, 0)
  /\ W[1] = bits_write(W[0], 1, 3) /\ W[2] = bits_write(W[1], 0, 4)
  /\ W[3] = bits_write(W[2], 0, 8) /\ W[4] = bits_write(W[3], 0, 4)
  /\ W[5] = bits_write(W[4], s, 1) /\ W[6] = bits_write(W[5], 0, 2)
  /\ W[7] = bits_write(W[6], 1, 1)

\* The seven fields of the header, s the bit for an explicit number of frames.
LEMMA HeaderWritten ==
  ASSUME NEW L \in Nat, 3 <= L, NEW b \in [1 .. L -> Byte], NEW s \in {0, 1}, NEW W,
         HeaderSteps(W, b, s)
  PROVE  \E c \in [1 .. L -> Byte] : HeaderHeld(W[7], c, s)
<1>0. 1 \in 1 .. L /\ 2 \in 1 .. L /\ 3 \in 1 .. L /\ 0 \in Byte /\ 32 \in Byte
      /\ 16 * s \in Byte /\ 16 * s + 2 \in Byte
  BY DEF Byte
<1>a. /\ Ored[32][0] = 32 /\ Ored[0][0] = 0 /\ Ored[0][16 * s] = 16 * s
      /\ Ored[16 * s][0] = 16 * s /\ Ored[16 * s][2] = 16 * s + 2
  BY <1>0, OrAdds
<1>b. /\ W[0] = Held(b, 1, 0)
      /\ W[1] = bits_write(W[0], 1, 3) /\ W[2] = bits_write(W[1], 0, 4)
      /\ W[3] = bits_write(W[2], 0, 8) /\ W[4] = bits_write(W[3], 0, 4)
      /\ W[5] = bits_write(W[4], s, 1) /\ W[6] = bits_write(W[5], 0, 2)
      /\ W[7] = bits_write(W[6], 1, 1)
  BY DEF HeaderSteps
<1> DEFINE b1 == [b EXCEPT ![1] = 32]
           b2 == [b1 EXCEPT ![1] = 32]
           b3 == [b2 EXCEPT ![1] = 32, ![2] = 0]
           b4 == [b3 EXCEPT ![2] = 0, ![3] = 0]
           b5 == [b4 EXCEPT ![3] = 16 * s]
           b6 == [b5 EXCEPT ![3] = 16 * s]
           b7 == [b6 EXCEPT ![3] = 16 * s + 2]
<1>1. W[1] = Held(b1, 1, 3)
  <2>2. 32 = IF 0 # 0 THEN Ored[b[1]][1 * 2^(8 - 3)] ELSE 1 * 2^(8 - 3)
    <3>1. 1 * 2^(8 - 3) = 32
      OBVIOUS
    <3> QED
      BY <3>1
  <2>3. 0 \in 0 .. 8 /\ 3 \in Nat /\ 3 \in 0 .. 8 /\ 0 + 3 = 3
    OBVIOUS
  <2>4. ASSUME NEW c, 32 = IF 0 # 0 THEN Ored[c[1]][1 * 2^(8 - 3)] ELSE 1 * 2^(8 - 3)
        PROVE  bits_write(Held(c, 1, 0), 1, 3) = Held([c EXCEPT ![1] = 32], 1, 3)
    BY <2>3, <2>4, FieldWritten
  <2>5. bits_write(Held(b, 1, 0), 1, 3) = Held([b EXCEPT ![1] = 32], 1, 3)
    BY <2>2, <2>4, Zenon
  <2> QED
    BY <1>b, <2>5, Zenon
<1>2. W[2] = Held(b2, 1, 7)
  <2>1. b1[1] = 32
    BY <1>0
  <2>2. 32 = IF 3 # 0 THEN Ored[b1[1]][0 * 2^(8 - 7)] ELSE 0 * 2^(8 - 7)
    <3>1. 0 * 2^(8 - 7) = 0
      OBVIOUS
    <3> QED
      BY <1>a, <2>1, <3>1
  <2>3. 3 \in 0 .. 8 /\ 4 \in Nat /\ 7 \in 0 .. 8 /\ 3 + 4 = 7
    OBVIOUS
  <2> HIDE DEF b1
  <2> QED
    BY <1>b, <1>1, <2>2, <2>3, FieldWritten
<1>3. W[3] = Held(b3, 2, 7)
  <2>1. b2[1] = 32
    BY <1>0
  <2>2. 32 = Ored[b2[1]][0 \div 2^7] /\ 0 = (0 * 2^(8 - 7)) % 256
    <3>1. 0 \div 2^7 = 0 /\ (0 * 2^(8 - 7)) % 256 = 0
      OBVIOUS
    <3> QED
      BY <1>a, <2>1, <3>1
  <2>3. /\ 7 \in 0 .. 8 /\ 8 \in Nat /\ 7 \in 1 .. 8 /\ 7 + 8 = 8 + 7
        /\ 2 = 1 + 1
    OBVIOUS
  <2> HIDE DEF b2
  <2> QED
    BY <1>b, <1>2, <2>2, <2>3, FieldGoesOn
<1>4. W[4] = Held(b4, 3, 3)
  <2>1. b3[2] = 0
    BY <1>0
  <2>2. 0 = Ored[b3[2]][0 \div 2^3] /\ 0 = (0 * 2^(8 - 3)) % 256
    <3>1. 0 \div 2^3 = 0 /\ (0 * 2^(8 - 3)) % 256 = 0
      OBVIOUS
    <3> QED
      BY <1>a, <2>1, <3>1
  <2>3. /\ 7 \in 0 .. 8 /\ 4 \in Nat /\ 3 \in 1 .. 8 /\ 7 + 4 = 8 + 3
        /\ 3 = 2 + 1
    OBVIOUS
  <2> HIDE DEF b3
  <2> QED
    BY <1>b, <1>3, <2>2, <2>3, FieldGoesOn
<1>5. W[5] = Held(b5, 3, 4)
  <2>1. b4[3] = 0
    BY <1>0
  <2>2. 16 * s = IF 3 # 0 THEN Ored[b4[3]][s * 2^(8 - 4)] ELSE s * 2^(8 - 4)
    <3>1. s * 2^(8 - 4) = 16 * s
      OBVIOUS
    <3> QED
      BY <1>a, <2>1, <3>1
  <2>3. 3 \in 0 .. 8 /\ 1 \in Nat /\ 4 \in 0 .. 8 /\ 3 + 1 = 4
    OBVIOUS
  <2> HIDE DEF b4
  <2> QED
    BY <1>b, <1>4, <2>2, <2>3, FieldWritten, SMTT(60)
<1>6. W[6] = Held(b6, 3, 6)
  <2>1. b5[3] = 16 * s
    BY <1>0
  <2>2. 16 * s = IF 4 # 0 THEN Ored[b5[3]][0 * 2^(8 - 6)] ELSE 0 * 2^(8 - 6)
    <3>1. 0 * 2^(8 - 6) = 0
      OBVIOUS
    <3> QED
      BY <1>a, <2>1, <3>1
  <2>3. 4 \in 0 .. 8 /\ 2 \in Nat /\ 6 \in 0 .. 8 /\ 4 + 2 = 6
    OBVIOUS
  <2> HIDE DEF b5
  <2> QED
    BY <1>b, <1>5, <2>2, <2>3, FieldWritten
<1>7. W[7] = Held(b7, 3, 7)
  <2>1. b6[3] = 16 * s
    BY <1>0
  <2>2. 16 * s + 2 = IF 6 # 0 THEN Ored[b6[3]][1 * 2^(8 - 7)] ELSE 1 * 2^(8 - 7)
    <3>1. 1 * 2^(8 - 7) = 2
      OBVIOUS
    <3> QED
      BY <1>a, <2>1, <3>1
  <2>3. 6 \in 0 .. 8 /\ 1 \in Nat /\ 7 \in 0 .. 8 /\ 6 + 1 = 7
    OBVIOUS
  <2> HIDE DEF b6
  <2> QED
    BY <1>b, <1>6, <2>2, <2>3, FieldWritten
<1>8. b7 \in [1 .. L -> Byte] /\ b7[1] = 32 /\ b7[2] = 0 /\ b7[3] = 16 * s + 2
  BY <1>0
<1>9. HeaderHeld(W[7], b7, s)
  BY <1>7, <1>8 DEF HeaderHeld
<1> HIDE DEF b7
<1> QED
  BY <1>8, <1>9

-----------------------------------------------------------------------------
(* Recursive functions. The library's theorems about them are about an     *)
(* operator and cannot be used, so each has its own proof that it exists:  *)
(* otherwise there would be a smallest domain for which it does not.       *)

\* The fields are written one after the other.
LEMMA WrittenStepwise ==
  ASSUME NEW buf, NEW fields, Len(fields) \in Nat
  PROVE  \E W : /\ W[0] = Held(buf, 1, 0)
                /\ \A i \in 1 .. Len(fields) :
                     W[i] = bits_write(W[i - 1], fields[i][1], fields[i][2])
                /\ Written(buf, fields) = W[Len(fields)]
<1> DEFINE N == Len(fields)
           Step(w, i) == bits_write(w, fields[i][1], fields[i][2])
           Is(g, k) == g = [i \in 0 .. k |-> IF i = 0 THEN Held(buf, 1, 0)
                                             ELSE Step(g[i - 1], i)]
           S == {k \in 0 .. N : \E g : Is(g, k)}
<1> HIDE DEF Step
<1>1. 0 \in S
  <2>1. \E g : Is(g, 0)
    <3>1. Is([i \in 0 .. 0 |-> Held(buf, 1, 0)], 0)
      OBVIOUS
    <3> HIDE DEF Is
    <3> QED
      BY <3>1
  <2> HIDE DEF Is
  <2> QED
    BY <2>1
<1>2. ASSUME NEW k \in 0 .. N - 1, k \in S PROVE k + 1 \in S
  <2>1. PICK g : Is(g, k)
    BY <1>2
  <2> DEFINE h == [i \in 0 .. k + 1 |-> IF i = k + 1 THEN Step(g[k], k + 1) ELSE g[i]]
  <2>2. ASSUME NEW i \in 0 .. k + 1
        PROVE  h[i] = IF i = 0 THEN Held(buf, 1, 0) ELSE Step(h[i - 1], i)
    <3>1. CASE i = 0
      BY <2>1, <3>1
    <3>2. CASE i \in 1 .. k
      BY <2>1, <3>2
    <3>3. CASE i = k + 1
      BY <3>3
    <3> QED
      BY <3>1, <3>2, <3>3
  <2>3. Is(h, k + 1)
    BY <2>2
  <2> HIDE DEF Is, h
  <2> QED
    BY <2>3
<1>3. N \in S
  <2>1. N \in Nat /\ N \in 0 .. N
    OBVIOUS
  <2> HIDE DEF S, N
  <2> QED
    BY <1>1, <1>2, <2>1, Upwards
<1> DEFINE W == CHOOSE g : Is(g, N)
<1>4. Is(W, N)
  BY <1>3
<1>5. Written(buf, fields) = W[N]
  BY Zenon DEF Written, Step, Held
<1> HIDE DEF W
<1>6. W[0] = Held(buf, 1, 0) /\ \A i \in 1 .. N : W[i] = Step(W[i - 1], i)
  BY <1>4
<1> QED
  BY <1>5, <1>6 DEF Step

-----------------------------------------------------------------------------
(* A chunk: the header, of which seven bits are in the third byte, and m    *)
(* bytes after it, D.                                                       *)

\* The first seven bits of the byte 3 + j, then the whole byte k.
Begin(s, D, j) == IF j = 0 THEN 16 * s + 2 ELSE (2 * D[j]) % 256
ChunkByte(s, D, m, k) ==
  IF k = 1 THEN 32
  ELSE IF k = 2 THEN 0
  ELSE Begin(s, D, k - 3) + IF k - 3 < m THEN D[k - 2] \div 128 ELSE 0

\* There is room for a chunk.
ChunkFits(L, m, b, s, D) ==
  /\ L \in Nat /\ m \in Nat /\ 3 + m <= L
  /\ b \in [1 .. L -> Byte] /\ s \in {0, 1} /\ D \in [1 .. m -> Byte]

\* The writer after each byte, and after all of them.
ByteSteps(W, D, m) ==
  \A j \in 0 .. m - 1 : W[7 + (j + 1)] = bits_write(W[7 + j], D[j + 1], 8)
ChunkHeld(w, c, s, D, m) ==
  w = Held(c, 3 + m, 7) /\ \A k \in 1 .. 3 + m : c[k] = ChunkByte(s, D, m, k)

\* What bits_write leaves in the buffer, whatever was there.
LEMMA ChunkWritten ==
  ASSUME NEW L, NEW m, NEW b, NEW s, NEW D, NEW W, ChunkFits(L, m, b, s, D),
         HeaderSteps(W, b, s), ByteSteps(W, D, m)
  PROVE  \E c \in [1 .. L -> Byte] : ChunkHeld(W[7 + m], c, s, D, m)
<1> USE DEF ChunkFits
<1> DEFINE P(j) == \E c \in [1 .. L -> Byte] :
                     /\ W[7 + j] = Held(c, 3 + j, 7)
                     /\ c[3 + j] = Begin(s, D, j)
                     /\ \A k \in 1 .. 2 + j : c[k] = ChunkByte(s, D, m, k)
           S == {j \in 0 .. m : P(j)}
<1>1. 0 \in S
  <2>1. PICK c \in [1 .. L -> Byte] : HeaderHeld(W[7], c, s)
    <3>1. 3 <= L
      OBVIOUS
    <3> QED
      BY <3>1, HeaderWritten, ZenonT(60)
  <2>2. 7 + 0 = 7 /\ 3 + 0 = 3 /\ 0 \in 0 .. m /\ \A k \in 1 .. 2 + 0 : k = 1 \/ k = 2
    OBVIOUS
  <2>3. c[3 + 0] = Begin(s, D, 0) /\ \A k \in 1 .. 2 + 0 : c[k] = ChunkByte(s, D, m, k)
    BY <2>1, <2>2 DEF Begin, ChunkByte, HeaderHeld
  <2>4. P(0)
    BY <2>1, <2>2, <2>3 DEF HeaderHeld
  <2> HIDE DEF P
  <2> QED
    BY <2>2, <2>4
<1>2. ASSUME NEW j \in 0 .. m - 1, j \in S PROVE j + 1 \in S
  <2>1. PICK c \in [1 .. L -> Byte] :
          /\ W[7 + j] = Held(c, 3 + j, 7)
          /\ c[3 + j] = Begin(s, D, j)
          /\ \A k \in 1 .. 2 + j : c[k] = ChunkByte(s, D, m, k)
    BY <1>2
  <2>2. /\ 3 + j \in 1 .. L /\ (3 + j) + 1 \in 1 .. L /\ (3 + j) + 1 = 3 + (j + 1)
        /\ j + 1 \in 1 .. m /\ j + 1 \in 0 .. m /\ D[j + 1] \in Byte
    OBVIOUS
  <2>3. c[3 + j] % 2 = 0
    <3>1. CASE j = 0
      BY <2>1, <3>1 DEF Begin
    <3>2. CASE j # 0
      <4>1. D[j] \in Byte
        BY <3>2
      <4>2. \A x \in Byte : ((2 * x) % 256) % 2 = 0
        BY DEF Byte
      <4> QED
        BY <2>1, <3>2, <4>1, <4>2 DEF Begin
    <3> QED
      BY <3>1, <3>2
  <2>4. PICK e \in [1 .. L -> Byte] :
          ByteHeld(bits_write(Held(c, 3 + j, 7), D[j + 1], 8), c, 3 + j, D[j + 1], e)
    BY <2>2, <2>3, ByteWritten, Zenon
  <2>5. W[7 + (j + 1)] = Held(e, 3 + (j + 1), 7)
    BY <2>1, <2>2, <2>4 DEF ByteHeld, ByteSteps
  <2>6. e[3 + (j + 1)] = Begin(s, D, j + 1)
    BY <2>2, <2>4 DEF Begin, ByteHeld
  <2>7. ASSUME NEW k \in 1 .. 2 + (j + 1) PROVE e[k] = ChunkByte(s, D, m, k)
    <3>1. CASE k = 3 + j
      <4>1. k # 1 /\ k # 2 /\ k - 3 = j /\ k - 3 < m /\ k - 2 = j + 1
        BY <3>1
      <4> QED
        BY <2>1, <2>4, <3>1, <4>1 DEF ChunkByte, ByteHeld
    <3>2. CASE k # 3 + j
      <4>1. k \in 1 .. 2 + j /\ k \in 1 .. (3 + j) - 1
        BY <3>2
      <4> QED
        BY <2>1, <2>4, <4>1 DEF ByteHeld
    <3> QED
      BY <3>1, <3>2
  <2>8. P(j + 1)
    BY <2>5, <2>6, <2>7
  <2> HIDE DEF P
  <2> QED
    BY <2>2, <2>8
<1>3. m \in S
  <2>1. m \in 0 .. m
    OBVIOUS
  <2> HIDE DEF S
  <2> QED
    BY <1>1, <1>2, <2>1, Upwards
<1>4. PICK c \in [1 .. L -> Byte] :
        /\ W[7 + m] = Held(c, 3 + m, 7)
        /\ c[3 + m] = Begin(s, D, m)
        /\ \A k \in 1 .. 2 + m : c[k] = ChunkByte(s, D, m, k)
  BY <1>3
<1>5. \A k \in 1 .. 3 + m : c[k] = ChunkByte(s, D, m, k)
  <2>1. ChunkByte(s, D, m, 3 + m) = Begin(s, D, m)
    <3>1. Begin(s, D, m) \in Int
      <4>1. CASE m = 0
        BY <4>1 DEF Begin
      <4>2. CASE m # 0
        <5>1. D[m] \in Byte
          BY <4>2
        <5>2. \A x \in Byte : (2 * x) % 256 \in Int
          BY DEF Byte
        <5> QED
          BY <4>2, <5>1, <5>2 DEF Begin
      <4> QED
        BY <4>1, <4>2
    <3>2. 3 + m # 1 /\ 3 + m # 2 /\ (3 + m) - 3 = m /\ ~(m < m)
      OBVIOUS
    <3> QED
      BY <3>1, <3>2 DEF ChunkByte
  <2>2. \A k \in 1 .. 3 + m : k \in 1 .. 2 + m \/ k = 3 + m
    OBVIOUS
  <2> QED
    BY <1>4, <2>1, <2>2
<1> QED
  BY <1>4, <1>5, Zenon DEF ChunkHeld

-----------------------------------------------------------------------------
(* The fields WritePCM writes.                                              *)

\* How many bytes announce the number of frames, how many bytes follow the
\* header, and these bytes: D of ChunkWritten.
CountByte(bsize, k) == (bsize \div 256^(4 - k)) % 256
Announced(bsize) == IF bsize # FullChunk THEN 4 ELSE 0
Extent(input, bsize) == Announced(bsize) + IF input = <<>> THEN 0 ELSE 4 * bsize
SampleByte(input, q) ==
  LET f == (q + 3) \div 4  b == ((q + 3) % 4) + 1 IN
  IF f <= Len(input) THEN input[f][<<2, 1, 4, 3>>[b]] ELSE 0
Payload(input, bsize) ==
  [k \in 1 .. Extent(input, bsize) |->
     IF k <= Announced(bsize) THEN CountByte(bsize, k)
     ELSE SampleByte(input, k - Announced(bsize))]
Sized(bsize) == IF bsize # FullChunk THEN 1 ELSE 0

\* The bytes of a frame are written in the order 2, 1, 4, 3.
LEMMA SampleBytes ==
  ASSUME NEW input \in Seq(Frame), NEW g \in Nat, NEW b \in 1 .. 4
  PROVE  /\ SampleByte(input, 4 * g + b) =
              IF g + 1 <= Len(input) THEN input[g + 1][<<2, 1, 4, 3>>[b]] ELSE 0
         /\ SampleByte(input, 4 * g + b) \in Byte
<1>1. ((4 * g + b) + 3) \div 4 = g + 1 /\ (((4 * g + b) + 3) % 4) + 1 = b
  OBVIOUS
<1>2. SampleByte(input, 4 * g + b) =
        IF g + 1 <= Len(input) THEN input[g + 1][<<2, 1, 4, 3>>[b]] ELSE 0
  BY <1>1, Zenon DEF SampleByte
<1>3. <<2, 1, 4, 3>>[b] \in 1 .. 4
  OBVIOUS
<1>4. ASSUME g + 1 <= Len(input) PROVE input[g + 1][<<2, 1, 4, 3>>[b]] \in Byte
  <2>1. input[g + 1] \in Frame
    BY <1>4
  <2> HIDE DEF Byte
  <2> QED
    BY <1>3, <2>1 DEF Frame
<1>5. 0 \in Byte
  BY DEF Byte
<1> QED
  BY <1>2, <1>4, <1>5

\* Every number but 0 ends some group of four or is in one.
LEMMA InFours ==
  ASSUME NEW n \in Nat, NEW q \in 1 .. 4 * n
  PROVE  \E g \in 0 .. n - 1, b \in 1 .. 4 : q = 4 * g + b
<1>1. (q - 1) \div 4 \in 0 .. n - 1 /\ ((q - 1) % 4) + 1 \in 1 .. 4
      /\ q = 4 * ((q - 1) \div 4) + (((q - 1) % 4) + 1)
  OBVIOUS
<1> QED
  BY <1>1

\* The four bytes of the number of frames are bytes.
LEMMA CountBytes ==
  ASSUME NEW bsize \in Nat, NEW k \in 1 .. 4
  PROVE  CountByte(bsize, k) \in Byte
<1>1. k = 1 \/ k = 2 \/ k = 3 \/ k = 4
  OBVIOUS
<1>2. /\ 256^(4 - 1) = 256 * 256 * 256 /\ 256^(4 - 2) = 256 * 256
      /\ 256^(4 - 3) = 256 /\ 256^(4 - 4) = 1
  OBVIOUS
<1>3. /\ (bsize \div (256 * 256 * 256)) % 256 \in Byte
      /\ (bsize \div (256 * 256)) % 256 \in Byte
      /\ (bsize \div 256) % 256 \in Byte /\ (bsize \div 1) % 256 \in Byte
  BY DEF Byte
<1>4. CASE k = 1
  BY <1>2, <1>3, <1>4 DEF CountByte
<1>5. CASE k = 2
  BY <1>2, <1>3, <1>5 DEF CountByte
<1>6. CASE k = 3
  BY <1>2, <1>3, <1>6 DEF CountByte
<1>7. CASE k = 4
  BY <1>2, <1>3, <1>7 DEF CountByte
<1> QED
  BY <1>1, <1>4, <1>5, <1>6, <1>7

\* The bytes after the header: the number of frames, if announced, and samples.
LEMMA PayloadBytes ==
  ASSUME NEW input \in Seq(Frame), NEW bsize \in Nat
  PROVE  /\ Announced(bsize) \in {0, 4} /\ Extent(input, bsize) \in Nat
         /\ Announced(bsize) <= Extent(input, bsize)
         /\ Payload(input, bsize) \in [1 .. Extent(input, bsize) -> Byte]
<1>1. Announced(bsize) \in {0, 4}
  BY DEF Announced
<1>2. Extent(input, bsize) \in Nat /\ Announced(bsize) <= Extent(input, bsize)
  <2> DEFINE more == IF input = <<>> THEN 0 ELSE 4 * bsize
  <2>1. more \in Nat
    <3>1. 4 * bsize \in Nat /\ 0 \in Nat
      OBVIOUS
    <3> QED
      BY <3>1, Zenon
  <2>2. Extent(input, bsize) = Announced(bsize) + more
    BY DEF Extent
  <2> HIDE DEF more
  <2> QED
    BY <1>1, <2>1, <2>2
<1>3. ASSUME NEW k \in 1 .. Extent(input, bsize)
      PROVE  (IF k <= Announced(bsize) THEN CountByte(bsize, k)
              ELSE SampleByte(input, k - Announced(bsize))) \in Byte
  <2>1. CASE k <= Announced(bsize)
    <3>1. k \in 1 .. 4
      BY <1>1, <2>1
    <3>4. CountByte(bsize, k) \in Byte
      BY <3>1, CountBytes, Zenon
    <3> QED
      BY <2>1, <3>4
  <2>2. CASE ~(k <= Announced(bsize))
    <3>1. k - Announced(bsize) \in 1 .. 4 * bsize
      BY <1>1, <2>2 DEF Extent
    <3>2. PICK g \in 0 .. bsize - 1, b \in 1 .. 4 : k - Announced(bsize) = 4 * g + b
      BY <3>1, InFours
    <3>3. SampleByte(input, 4 * g + b) \in Byte
      <4>1. g \in Nat
        OBVIOUS
      <4> QED
        BY <4>1, SampleBytes, Zenon
    <3> QED
      BY <2>2, <3>2, <3>3
  <2> QED
    BY <2>1, <2>2
<1> QED
  BY <1>1, <1>2, <1>3 DEF Payload

\* The elements of three sequences joined.
Parts(w, s, t, u) ==
  /\ Len(w) = Len(s) + Len(t) + Len(u)
  /\ \A i \in 1 .. Len(s) : w[i] = s[i]
  /\ \A i \in 1 .. Len(t) : w[Len(s) + i] = t[i]
  /\ \A i \in 1 .. Len(u) : w[Len(s) + Len(t) + i] = u[i]

\* Three sequences joined, item by item.
LEMMA Joined ==
  ASSUME NEW S, NEW s \in Seq(S), NEW t \in Seq(S), NEW u \in Seq(S),
         NEW w, w = (s \o t) \o u
  PROVE  w \in Seq(S) /\ Parts(w, s, t, u)
<1> DEFINE v == s \o t
<1>0. Len(s) \in Nat /\ Len(t) \in Nat /\ Len(u) \in Nat
  BY LenProperties
<1>1. v \in Seq(S) /\ Len(v) = Len(s) + Len(t)
  BY ConcatProperties
<1>2. \A i \in 1 .. Len(v) : v[i] = IF i <= Len(s) THEN s[i] ELSE t[i - Len(s)]
  BY <1>1, ConcatProperties
<1> HIDE DEF v
<1>3. v \o u \in Seq(S) /\ Len(v \o u) = Len(v) + Len(u)
  BY <1>1, ConcatProperties
<1>4. \A i \in 1 .. Len(v) + Len(u) :
        (v \o u)[i] = IF i <= Len(v) THEN v[i] ELSE u[i - Len(v)]
  BY <1>1, ConcatProperties
<1>5. ASSUME NEW i \in 1 .. Len(s) PROVE (v \o u)[i] = s[i]
  BY <1>0, <1>1, <1>2, <1>4
<1>6. ASSUME NEW i \in 1 .. Len(t) PROVE (v \o u)[Len(s) + i] = t[i]
  BY <1>0, <1>1, <1>2, <1>4
<1>7. ASSUME NEW i \in 1 .. Len(u) PROVE (v \o u)[Len(s) + Len(t) + i] = u[i]
  BY <1>0, <1>1, <1>4
<1> QED
  BY <1>1, <1>3, <1>5, <1>6, <1>7 DEF v, Parts

\* A function on 1 .. n is a sequence of length n.
LEMMA AsSequence ==
  ASSUME NEW S, NEW n \in Nat, NEW f \in [1 .. n -> S]
  PROVE  f \in Seq(S) /\ Len(f) = n
OBVIOUS

\* Only the empty sequence has no item.
LEMMA NoneLeft ==
  ASSUME NEW S, NEW s \in Seq(S)
  PROVE  Len(s) = 0 <=> s = <<>>
BY EmptySeq

\* The fields of the header, then those of eight bits.
HeaderFields(F, s) ==
  /\ F[1] = <<1, 3>> /\ F[2] = <<0, 4>> /\ F[3] = <<0, 8>> /\ F[4] = <<0, 4>>
  /\ F[5] = <<s, 1>> /\ F[6] = <<0, 2>> /\ F[7] = <<1, 1>>

FieldsAre(F, s, D, m) ==
  Len(F) = 7 + m /\ HeaderFields(F, s) /\ \A j \in 1 .. m : F[7 + j] = <<D[j], 8>>

\* The fields of the announced number of frames are whole bytes.
LEMMA AnnouncedFields ==
  ASSUME NEW bsize \in Nat, NEW a,
         LET e(k) == <<CountByte(bsize, k), 8>>
         IN  a = <<e(1), e(2), e(3), e(4)>>
  PROVE  /\ a \in Seq(Int \X Int) /\ Len(a) = 4
         /\ \A k \in 1 .. 4 : a[k] = <<CountByte(bsize, k), 8>>
<1> DEFINE e(k) == <<CountByte(bsize, k), 8>>
<1>0. a = <<e(1), e(2), e(3), e(4)>>
  BY Zenon
<1>1. ASSUME NEW k \in 1 .. 4 PROVE e(k) \in Int \X Int
  <2>1. CountByte(bsize, k) \in Byte
    BY CountBytes, Zenon
  <2>2. \A x \in Byte : <<x, 8>> \in Int \X Int
    BY DEF Byte
  <2> QED
    BY <2>1, <2>2, Zenon
<1> HIDE DEF e
<1>2. a \in Seq(Int \X Int) /\ Len(a) = 4
  <2> DEFINE S == Int \X Int
  <2>1. e(1) \in S /\ e(2) \in S /\ e(3) \in S /\ e(4) \in S
    BY <1>1
  <2> HIDE DEF S
  <2>2. a \in Seq(S) /\ Len(a) = 4
    BY <1>0, <2>1
  <2> QED
    BY <2>2 DEF S
<1>3. ASSUME NEW k \in 1 .. 4 PROVE a[k] = e(k)
  <2>1. k = 1 \/ k = 2 \/ k = 3 \/ k = 4
    OBVIOUS
  <2> QED
    BY <1>0, <2>1
<1> QED
  BY <1>2, <1>3, Zenon DEF e

\* The fields of a chunk are the seven of the header and then whole bytes.
LEMMA FieldsShape ==
  ASSUME NEW input \in Seq(Frame), NEW bsize \in Nat, NEW m, m = Extent(input, bsize),
         NEW F, F = Fields(input, bsize)
  PROVE  FieldsAre(F, Sized(bsize), Payload(input, bsize), m)
<1>0. /\ Announced(bsize) \in {0, 4} /\ Extent(input, bsize) \in Nat
      /\ Announced(bsize) <= Extent(input, bsize)
      /\ Payload(input, bsize) \in [1 .. Extent(input, bsize) -> Byte]
  BY PayloadBytes, Zenon
<1>a. 4 * bsize \in Nat
  OBVIOUS
<1> DEFINE Byte4(k) == <<CountByte(bsize, k), 8>>
           h == << <<1, 3>>, <<0, 4>>, <<0, 8>>, <<0, 4>>, <<Sized(bsize), 1>>,
                   <<0, 2>>, <<1, 1>> >>
           a == IF bsize # FullChunk THEN Four(Byte4) ELSE <<>>
           z == IF Len(input) = 0 THEN <<>>
                ELSE [k \in 1 .. 4 * bsize |-> <<SampleByte(input, k), 8>>]
           S == Int \X Int
<1>1. F = (h \o a) \o z
  BY Zenon DEF Fields, Header, SampleByte, Sized, CountByte
<1>2. h \in Seq(S) /\ Len(h) = 7 /\ HeaderFields(h, Sized(bsize))
  <2>1. Sized(bsize) \in Int
    BY DEF Sized
  <2> QED
    BY <2>1 DEF HeaderFields
<1>3. a \in Seq(S) /\ Len(a) = Announced(bsize)
      /\ \A k \in 1 .. Announced(bsize) : a[k] = <<CountByte(bsize, k), 8>>
  <2>1. CASE bsize # FullChunk
    <3>1. a = Four(Byte4) /\ Announced(bsize) = 4
      BY <2>1, Zenon DEF Announced
    <3>2. a = <<Byte4(1), Byte4(2), Byte4(3), Byte4(4)>>
      BY <3>1, Zenon DEF Four
    <3> HIDE DEF a
    <3>3. a \in Seq(S) /\ Len(a) = 4 /\ \A k \in 1 .. 4 : a[k] = Byte4(k)
      BY <3>2, AnnouncedFields, Zenon
    <3> QED
      BY <3>1, <3>3, Zenon
  <2>2. CASE bsize = FullChunk
    <3>1. a = <<>> /\ Announced(bsize) = 0
      BY <2>2, Zenon DEF Announced
    <3>2. <<>> \in Seq(S) /\ Len(<<>>) = 0
      <4> HIDE DEF S
      <4> QED
        OBVIOUS
    <3> HIDE DEF a, S
    <3> QED
      BY <3>1, <3>2
  <2> QED
    BY <2>1, <2>2
<1>4. z \in Seq(S) /\ Len(z) = m - Announced(bsize)
      /\ \A q \in 1 .. m - Announced(bsize) : z[q] = <<SampleByte(input, q), 8>>
  <2>1. CASE Len(input) = 0
    <3>1. input = <<>>
      BY <2>1, NoneLeft
    <3>2. m = Announced(bsize) + 0 /\ z = <<>>
      BY <2>1, <3>1, Zenon DEF Extent
    <3>3. Announced(bsize) \in Int
      BY <1>0
    <3> HIDE DEF z, S
    <3> QED
      BY <3>2, <3>3
  <2>2. CASE Len(input) # 0
    <3>1. input # <<>>
      BY <2>2, NoneLeft
    <3>2. m = Announced(bsize) + 4 * bsize
          /\ z = [k \in 1 .. 4 * bsize |-> <<SampleByte(input, k), 8>>]
      BY <2>2, <3>1, Zenon DEF Extent
    <3>3. Announced(bsize) \in Int /\ m - Announced(bsize) = 4 * bsize /\ 4 * bsize \in Nat
      BY <1>0, <1>a, <3>2
    <3>4. ASSUME NEW k \in 1 .. 4 * bsize PROVE <<SampleByte(input, k), 8>> \in S
      <4>1. PICK g \in 0 .. bsize - 1, b \in 1 .. 4 : k = 4 * g + b
        BY InFours
      <4>2. SampleByte(input, k) \in Byte
        <5>1. g \in Nat
          OBVIOUS
        <5> QED
          BY <4>1, <5>1, SampleBytes, Zenon
      <4>3. \A x \in Byte : <<x, 8>> \in Int \X Int
        BY DEF Byte
      <4> QED
        BY <4>2, <4>3, Zenon
    <3>5. z \in [1 .. 4 * bsize -> S]
      BY <3>2, <3>4, Zenon
    <3>6. z \in Seq(S) /\ Len(z) = 4 * bsize
      <4> HIDE DEF z, S
      <4> QED
        BY <3>3, <3>5, AsSequence
    <3>7. \A q \in 1 .. 4 * bsize : z[q] = <<SampleByte(input, q), 8>>
      BY <3>2, Zenon
    <3> HIDE DEF z, S
    <3> QED
      BY <3>3, <3>6, <3>7, Zenon
  <2> QED
    BY <2>1, <2>2
<1> HIDE DEF h, a, z, S
<1>5. /\ Len(F) = Len(h) + Len(a) + Len(z)
      /\ \A i \in 1 .. Len(h) : F[i] = h[i]
      /\ \A i \in 1 .. Len(a) : F[Len(h) + i] = a[i]
      /\ \A i \in 1 .. Len(z) : F[Len(h) + Len(a) + i] = z[i]
  <2>1. h \in Seq(S) /\ a \in Seq(S) /\ z \in Seq(S)
    BY <1>2, <1>3, <1>4, Zenon
  <2>2. Parts(F, h, a, z)
    BY <1>1, <2>1, Joined, Zenon
  <2> QED
    BY <2>2, Zenon DEF Parts
<1>6. m \in Nat /\ Announced(bsize) \in {0, 4} /\ Announced(bsize) <= m
  BY <1>0
<1>7. Len(F) = 7 + m
  BY <1>2, <1>3, <1>4, <1>5, <1>6
<1>8. HeaderFields(F, Sized(bsize))
  <2>1. \A i \in 1 .. 7 : F[i] = h[i]
    BY <1>2, <1>5, Zenon
  <2> QED
    BY <1>2, <2>1 DEF HeaderFields
<1>9. ASSUME NEW j \in 1 .. m PROVE F[7 + j] = <<Payload(input, bsize)[j], 8>>
  <2>1. CASE j <= Announced(bsize)
    <3>1. F[7 + j] = <<CountByte(bsize, j), 8>>
      BY <1>2, <1>3, <1>5, <1>6, <2>1
    <3>2. Payload(input, bsize)[j] = CountByte(bsize, j)
      BY <2>1, Zenon DEF Payload
    <3> QED
      BY <3>1, <3>2
  <2>2. CASE ~(j <= Announced(bsize))
    <3> DEFINE q == j - Announced(bsize)
    <3>1. q \in 1 .. m - Announced(bsize) /\ 7 + Announced(bsize) + q = 7 + j
      BY <1>6, <2>2
    <3>2. Payload(input, bsize)[j] = SampleByte(input, q)
      BY <2>2, Zenon DEF Payload
    <3> HIDE DEF q
    <3>3. F[7 + Announced(bsize) + q] = <<SampleByte(input, q), 8>>
      BY <1>2, <1>3, <1>4, <1>5, <3>1, Zenon
    <3> QED
      BY <3>1, <3>2, <3>3
  <2> QED
    BY <2>1, <2>2
<1> QED
  BY <1>7, <1>8, <1>9, Zenon DEF FieldsAre

\* The fields of a chunk, written into any buffer.
LEMMA FieldsWritten ==
  ASSUME NEW input \in Seq(Frame), NEW bsize \in Nat, NEW m, m = Extent(input, bsize),
         NEW L \in Nat, 3 + m <= L, NEW buf \in [1 .. L -> Byte]
  PROVE  \E c \in [1 .. L -> Byte] :
           ChunkHeld(Written(buf, Fields(input, bsize)), c, Sized(bsize),
                     Payload(input, bsize), m)
<1> DEFINE F == Fields(input, bsize)
           D == Payload(input, bsize)
           s == Sized(bsize)
<1>1. m \in Nat /\ D \in [1 .. m -> Byte]
  BY PayloadBytes, Zenon
<1>2. Len(F) = 7 + m /\ HeaderFields(F, s) /\ \A j \in 1 .. m : F[7 + j] = <<D[j], 8>>
  <2>1. FieldsAre(F, s, D, m)
    BY FieldsShape, Zenon
  <2> QED
    BY <2>1, Zenon DEF FieldsAre
<1> HIDE DEF F, D, s
<1>3. Len(F) \in Nat
  BY <1>1, <1>2
<1>4. PICK W : /\ W[0] = Held(buf, 1, 0)
               /\ \A i \in 1 .. Len(F) : W[i] = bits_write(W[i - 1], F[i][1], F[i][2])
               /\ Written(buf, F) = W[Len(F)]
  BY <1>3, WrittenStepwise, Zenon
<1>5. HeaderSteps(W, buf, s)
  <2>1. /\ 1 \in 1 .. Len(F) /\ 2 \in 1 .. Len(F) /\ 3 \in 1 .. Len(F) /\ 4 \in 1 .. Len(F)
        /\ 5 \in 1 .. Len(F) /\ 6 \in 1 .. Len(F) /\ 7 \in 1 .. Len(F)
        /\ 1 - 1 = 0 /\ 2 - 1 = 1 /\ 3 - 1 = 2 /\ 4 - 1 = 3 /\ 5 - 1 = 4 /\ 6 - 1 = 5
        /\ 7 - 1 = 6
    BY <1>1, <1>2
  <2>2. /\ W[1] = bits_write(W[0], F[1][1], F[1][2])
        /\ W[2] = bits_write(W[1], F[2][1], F[2][2])
        /\ W[3] = bits_write(W[2], F[3][1], F[3][2])
        /\ W[4] = bits_write(W[3], F[4][1], F[4][2])
        /\ W[5] = bits_write(W[4], F[5][1], F[5][2])
        /\ W[6] = bits_write(W[5], F[6][1], F[6][2])
        /\ W[7] = bits_write(W[6], F[7][1], F[7][2])
    BY <1>4, <2>1
  <2>3. /\ F[1][1] = 1 /\ F[1][2] = 3 /\ F[2][1] = 0 /\ F[2][2] = 4
        /\ F[3][1] = 0 /\ F[3][2] = 8 /\ F[4][1] = 0 /\ F[4][2] = 4
        /\ F[5][1] = s /\ F[5][2] = 1 /\ F[6][1] = 0 /\ F[6][2] = 2
        /\ F[7][1] = 1 /\ F[7][2] = 1
    BY <1>2 DEF HeaderFields
  <2> QED
    BY <1>4, <2>2, <2>3, Zenon DEF HeaderSteps
<1>6. ByteSteps(W, D, m)
  <2>1. ASSUME NEW j \in 0 .. m - 1
        PROVE  W[7 + (j + 1)] = bits_write(W[7 + j], D[j + 1], 8)
    <3>1. 7 + (j + 1) \in 1 .. Len(F) /\ (7 + (j + 1)) - 1 = 7 + j /\ j + 1 \in 1 .. m
      BY <1>1, <1>2
    <3>2. F[7 + (j + 1)] = <<D[j + 1], 8>>
      BY <1>2, <3>1, Zenon
    <3>3. F[7 + (j + 1)][1] = D[j + 1] /\ F[7 + (j + 1)][2] = 8
      BY <3>2
    <3>4. W[7 + (j + 1)] =
            bits_write(W[(7 + (j + 1)) - 1], F[7 + (j + 1)][1], F[7 + (j + 1)][2])
      BY <1>4, <3>1, Zenon
    <3> QED
      BY <3>1, <3>3, <3>4, Zenon
  <2> QED
    BY <2>1, Zenon DEF ByteSteps
<1>7. s \in {0, 1}
  BY DEF s, Sized
<1>8. \E c \in [1 .. L -> Byte] : ChunkHeld(W[7 + m], c, s, D, m)
  <2>1. ChunkFits(L, m, buf, s, D)
    BY <1>1, <1>7, Zenon DEF ChunkFits
  <2> QED
    BY <1>5, <1>6, <2>1, ChunkWritten, Zenon
<1>9. Written(buf, F) = W[7 + m]
  BY <1>2, <1>4, Zenon
<1> QED
  BY <1>8, <1>9, Zenon DEF F, D, s

-----------------------------------------------------------------------------
(* What a decoder reads.                                                    *)

\* The bits of a sample of two bytes are those of its bytes.
LEMMA SampleBits ==
  ASSUME NEW h \in Byte, NEW l \in Byte, NEW i \in 0 .. 7
  PROVE  Bit(256 * h + l, 8 + i) = Bit(h, i) /\ Bit(256 * h + l, i) = Bit(l, i)
<1> DEFINE x == 256 * h + l
<1>1. i = 0 \/ i = 1 \/ i = 2 \/ i = 3 \/ i = 4 \/ i = 5 \/ i = 6 \/ i = 7
  OBVIOUS
<1>2. /\ (x \div 256) % 2 = h % 2
      /\ (x \div 512) % 2 = (h \div 2) % 2
      /\ (x \div 1024) % 2 = (h \div 4) % 2
      /\ (x \div 2048) % 2 = (h \div 8) % 2
      /\ (x \div 4096) % 2 = (h \div 16) % 2
      /\ (x \div 8192) % 2 = (h \div 32) % 2
      /\ (x \div 16384) % 2 = (h \div 64) % 2
      /\ (x \div 32768) % 2 = (h \div 128) % 2
  <2>1. (x \div 256) % 2 = h % 2
    BY SMTT(60) DEF Byte
  <2>2. (x \div 512) % 2 = (h \div 2) % 2
    BY SMTT(60) DEF Byte
  <2>3. (x \div 1024) % 2 = (h \div 4) % 2
    BY SMTT(60) DEF Byte
  <2>4. (x \div 2048) % 2 = (h \div 8) % 2
    BY SMTT(60) DEF Byte
  <2>5. (x \div 4096) % 2 = (h \div 16) % 2
    BY SMTT(60) DEF Byte
  <2>6. (x \div 8192) % 2 = (h \div 32) % 2
    BY SMTT(60) DEF Byte
  <2>7. (x \div 16384) % 2 = (h \div 64) % 2
    BY SMTT(60) DEF Byte
  <2>8. (x \div 32768) % 2 = (h \div 128) % 2
    BY SMTT(60) DEF Byte
  <2> QED
    BY <2>1, <2>2, <2>3, <2>4, <2>5, <2>6, <2>7, <2>8
<1>3. /\ x % 2 = l % 2
      /\ (x \div 2) % 2 = (l \div 2) % 2
      /\ (x \div 4) % 2 = (l \div 4) % 2
      /\ (x \div 8) % 2 = (l \div 8) % 2
      /\ (x \div 16) % 2 = (l \div 16) % 2
      /\ (x \div 32) % 2 = (l \div 32) % 2
      /\ (x \div 64) % 2 = (l \div 64) % 2
      /\ (x \div 128) % 2 = (l \div 128) % 2
  <2>1. x % 2 = l % 2
    BY SMTT(60) DEF Byte
  <2>2. (x \div 2) % 2 = (l \div 2) % 2
    BY SMTT(60) DEF Byte
  <2>3. (x \div 4) % 2 = (l \div 4) % 2
    BY SMTT(60) DEF Byte
  <2>4. (x \div 8) % 2 = (l \div 8) % 2
    BY SMTT(60) DEF Byte
  <2>5. (x \div 16) % 2 = (l \div 16) % 2
    BY SMTT(60) DEF Byte
  <2>6. (x \div 32) % 2 = (l \div 32) % 2
    BY SMTT(60) DEF Byte
  <2>7. (x \div 64) % 2 = (l \div 64) % 2
    BY SMTT(60) DEF Byte
  <2>8. (x \div 128) % 2 = (l \div 128) % 2
    BY SMTT(60) DEF Byte
  <2> QED
    BY <2>1, <2>2, <2>3, <2>4, <2>5, <2>6, <2>7, <2>8
<1>4. x \in Int /\ h \in Int /\ l \in Int
  BY DEF Byte
<1> HIDE DEF x
<1>5. /\ Bit(x, 8 + 0) = Bit(h, 0) /\ Bit(x, 0) = Bit(l, 0)
      /\ Bit(x, 8 + 1) = Bit(h, 1) /\ Bit(x, 1) = Bit(l, 1)
      /\ Bit(x, 8 + 2) = Bit(h, 2) /\ Bit(x, 2) = Bit(l, 2)
      /\ Bit(x, 8 + 3) = Bit(h, 3) /\ Bit(x, 3) = Bit(l, 3)
      /\ Bit(x, 8 + 4) = Bit(h, 4) /\ Bit(x, 4) = Bit(l, 4)
      /\ Bit(x, 8 + 5) = Bit(h, 5) /\ Bit(x, 5) = Bit(l, 5)
      /\ Bit(x, 8 + 6) = Bit(h, 6) /\ Bit(x, 6) = Bit(l, 6)
      /\ Bit(x, 8 + 7) = Bit(h, 7) /\ Bit(x, 7) = Bit(l, 7)
  <2>1. Bit(x, 8 + 0) = Bit(h, 0) /\ Bit(x, 0) = Bit(l, 0)
    BY <1>2, <1>3, <1>4 DEF Bit
  <2>2. Bit(x, 8 + 1) = Bit(h, 1) /\ Bit(x, 1) = Bit(l, 1)
    BY <1>2, <1>3, <1>4 DEF Bit
  <2>3. Bit(x, 8 + 2) = Bit(h, 2) /\ Bit(x, 2) = Bit(l, 2)
    BY <1>2, <1>3, <1>4 DEF Bit
  <2>4. Bit(x, 8 + 3) = Bit(h, 3) /\ Bit(x, 3) = Bit(l, 3)
    BY <1>2, <1>3, <1>4 DEF Bit
  <2>5. Bit(x, 8 + 4) = Bit(h, 4) /\ Bit(x, 4) = Bit(l, 4)
    BY <1>2, <1>3, <1>4 DEF Bit
  <2>6. Bit(x, 8 + 5) = Bit(h, 5) /\ Bit(x, 5) = Bit(l, 5)
    BY <1>2, <1>3, <1>4 DEF Bit
  <2>7. Bit(x, 8 + 6) = Bit(h, 6) /\ Bit(x, 6) = Bit(l, 6)
    BY <1>2, <1>3, <1>4 DEF Bit
  <2>8. Bit(x, 8 + 7) = Bit(h, 7) /\ Bit(x, 7) = Bit(l, 7)
    BY <1>2, <1>3, <1>4 DEF Bit
  <2> QED
    BY <2>1, <2>2, <2>3, <2>4, <2>5, <2>6, <2>7, <2>8, Zenon
<1> QED
  BY <1>1, <1>5, ZenonT(60) DEF x

\* The bits of a number below 2^30 are those of its four bytes.
LEMMA CountBits ==
  ASSUME NEW x \in Nat, x < 2^30, NEW k \in 1 .. 4, NEW i \in 0 .. 7
  PROVE  /\ Bit(x, 8 * (4 - k) + i) = Bit(CountByte(x, k), i)
         /\ Bit(CountByte(x, 1), 7) = 0 /\ Bit(CountByte(x, 1), 6) = 0
<1>1. /\ Bit(x, 0) = Bit(CountByte(x, 4), 0)
      /\ Bit(x, 1) = Bit(CountByte(x, 4), 1)
      /\ Bit(x, 2) = Bit(CountByte(x, 4), 2)
      /\ Bit(x, 3) = Bit(CountByte(x, 4), 3)
      /\ Bit(x, 4) = Bit(CountByte(x, 4), 4)
      /\ Bit(x, 5) = Bit(CountByte(x, 4), 5)
      /\ Bit(x, 6) = Bit(CountByte(x, 4), 6)
      /\ Bit(x, 7) = Bit(CountByte(x, 4), 7)
  <2>0. CountByte(x, 4) = (x \div 1) % 256
    BY DEF CountByte
  <2>1. Bit(x, 0) = Bit(CountByte(x, 4), 0)
    BY <2>0 DEF Bit
  <2>2. Bit(x, 1) = Bit(CountByte(x, 4), 1)
    BY <2>0 DEF Bit
  <2>3. Bit(x, 2) = Bit(CountByte(x, 4), 2)
    BY <2>0 DEF Bit
  <2>4. Bit(x, 3) = Bit(CountByte(x, 4), 3)
    BY <2>0 DEF Bit
  <2>5. Bit(x, 4) = Bit(CountByte(x, 4), 4)
    BY <2>0 DEF Bit
  <2>6. Bit(x, 5) = Bit(CountByte(x, 4), 5)
    BY <2>0 DEF Bit
  <2>7. Bit(x, 6) = Bit(CountByte(x, 4), 6)
    BY <2>0 DEF Bit
  <2>8. Bit(x, 7) = Bit(CountByte(x, 4), 7)
    BY <2>0 DEF Bit
  <2> QED
    BY <2>1, <2>2, <2>3, <2>4, <2>5, <2>6, <2>7, <2>8, Zenon
<1>2. /\ Bit(x, 8) = Bit(CountByte(x, 3), 0)
      /\ Bit(x, 9) = Bit(CountByte(x, 3), 1)
      /\ Bit(x, 10) = Bit(CountByte(x, 3), 2)
      /\ Bit(x, 11) = Bit(CountByte(x, 3), 3)
      /\ Bit(x, 12) = Bit(CountByte(x, 3), 4)
      /\ Bit(x, 13) = Bit(CountByte(x, 3), 5)
      /\ Bit(x, 14) = Bit(CountByte(x, 3), 6)
      /\ Bit(x, 15) = Bit(CountByte(x, 3), 7)
  <2>0. CountByte(x, 3) = (x \div 256) % 256
    BY DEF CountByte
  <2>1. Bit(x, 8) = Bit(CountByte(x, 3), 0)
    BY <2>0 DEF Bit
  <2>2. Bit(x, 9) = Bit(CountByte(x, 3), 1)
    BY <2>0 DEF Bit
  <2>3. Bit(x, 10) = Bit(CountByte(x, 3), 2)
    BY <2>0 DEF Bit
  <2>4. Bit(x, 11) = Bit(CountByte(x, 3), 3)
    BY <2>0 DEF Bit
  <2>5. Bit(x, 12) = Bit(CountByte(x, 3), 4)
    BY <2>0 DEF Bit
  <2>6. Bit(x, 13) = Bit(CountByte(x, 3), 5)
    BY <2>0, SMTT(60) DEF Bit
  <2>7. Bit(x, 14) = Bit(CountByte(x, 3), 6)
    BY <2>0 DEF Bit
  <2>8. Bit(x, 15) = Bit(CountByte(x, 3), 7)
    BY <2>0 DEF Bit
  <2> QED
    BY <2>1, <2>2, <2>3, <2>4, <2>5, <2>6, <2>7, <2>8, Zenon
<1>3. /\ Bit(x, 16) = Bit(CountByte(x, 2), 0)
      /\ Bit(x, 17) = Bit(CountByte(x, 2), 1)
      /\ Bit(x, 18) = Bit(CountByte(x, 2), 2)
      /\ Bit(x, 19) = Bit(CountByte(x, 2), 3)
      /\ Bit(x, 20) = Bit(CountByte(x, 2), 4)
      /\ Bit(x, 21) = Bit(CountByte(x, 2), 5)
      /\ Bit(x, 22) = Bit(CountByte(x, 2), 6)
      /\ Bit(x, 23) = Bit(CountByte(x, 2), 7)
  <2>0. CountByte(x, 2) = (x \div (256 * 256)) % 256
    BY DEF CountByte
  <2>1. Bit(x, 16) = Bit(CountByte(x, 2), 0)
    BY <2>0 DEF Bit
  <2>2. Bit(x, 17) = Bit(CountByte(x, 2), 1)
    BY <2>0 DEF Bit
  <2>3. Bit(x, 18) = Bit(CountByte(x, 2), 2)
    BY <2>0 DEF Bit
  <2>4. Bit(x, 19) = Bit(CountByte(x, 2), 3)
    BY <2>0 DEF Bit
  <2>5. Bit(x, 20) = Bit(CountByte(x, 2), 4)
    BY <2>0 DEF Bit
  <2>6. Bit(x, 21) = Bit(CountByte(x, 2), 5)
    BY <2>0 DEF Bit
  <2>7. Bit(x, 22) = Bit(CountByte(x, 2), 6)
    BY <2>0 DEF Bit
  <2>8. Bit(x, 23) = Bit(CountByte(x, 2), 7)
    BY <2>0 DEF Bit
  <2> QED
    BY <2>1, <2>2, <2>3, <2>4, <2>5, <2>6, <2>7, <2>8, Zenon
<1>4. /\ Bit(x, 24) = Bit(CountByte(x, 1), 0)
      /\ Bit(x, 25) = Bit(CountByte(x, 1), 1)
      /\ Bit(x, 26) = Bit(CountByte(x, 1), 2)
      /\ Bit(x, 27) = Bit(CountByte(x, 1), 3)
      /\ Bit(x, 28) = Bit(CountByte(x, 1), 4)
      /\ Bit(x, 29) = Bit(CountByte(x, 1), 5)
      /\ Bit(x, 30) = Bit(CountByte(x, 1), 6)
      /\ Bit(x, 31) = Bit(CountByte(x, 1), 7)
  <2>0. CountByte(x, 1) = (x \div (256 * 256 * 256)) % 256
    BY DEF CountByte
  <2>1. Bit(x, 24) = Bit(CountByte(x, 1), 0)
    BY <2>0 DEF Bit
  <2>2. Bit(x, 25) = Bit(CountByte(x, 1), 1)
    BY <2>0 DEF Bit
  <2>3. Bit(x, 26) = Bit(CountByte(x, 1), 2)
    BY <2>0 DEF Bit
  <2>4. Bit(x, 27) = Bit(CountByte(x, 1), 3)
    BY <2>0 DEF Bit
  <2>5. Bit(x, 28) = Bit(CountByte(x, 1), 4)
    BY <2>0 DEF Bit
  <2>6. Bit(x, 29) = Bit(CountByte(x, 1), 5)
    BY <2>0 DEF Bit
  <2>7. Bit(x, 30) = Bit(CountByte(x, 1), 6)
    BY <2>0 DEF Bit
  <2>8. Bit(x, 31) = Bit(CountByte(x, 1), 7)
    BY <2>0 DEF Bit
  <2> QED
    BY <2>1, <2>2, <2>3, <2>4, <2>5, <2>6, <2>7, <2>8, Zenon
<1>5. Bit(CountByte(x, 1), 7) = 0 /\ Bit(CountByte(x, 1), 6) = 0
  <2>1. Bit(x, 31) = 0 /\ Bit(x, 30) = 0
    BY DEF Bit
  <2> QED
    BY <1>4, <2>1
<1>6. 8 * (4 - 1) = 24 /\ 8 * (4 - 2) = 16 /\ 8 * (4 - 3) = 8 /\ 8 * (4 - 4) = 0
  OBVIOUS
<1>7. k = 1 \/ k = 2 \/ k = 3 \/ k = 4
  OBVIOUS
<1>8. i = 0 \/ i = 1 \/ i = 2 \/ i = 3 \/ i = 4 \/ i = 5 \/ i = 6 \/ i = 7
  OBVIOUS
<1>9. CASE k = 1
  BY <1>4, <1>5, <1>6, <1>8, <1>9
<1>10. CASE k = 2
  BY <1>3, <1>5, <1>6, <1>8, <1>10
<1>11. CASE k = 3
  BY <1>2, <1>5, <1>6, <1>8, <1>11
<1>12. CASE k = 4
  BY <1>1, <1>5, <1>6, <1>8, <1>12
<1> QED
  BY <1>7, <1>9, <1>10, <1>11, <1>12

\* The samples of the frame g + 1, from its bytes.
SampleWord(input, u) ==
  LET f == (u + 1) \div 2  c == 2 * ((u + 1) % 2) IN
  IF f <= Len(input) THEN 256 * input[f][c + 2] + input[f][c + 1] ELSE 0

\* A sample of 16 bits, read by a decoder, is two of the bytes written.
LEMMA SampleWords ==
  ASSUME NEW input \in Seq(Frame), NEW g \in Nat
  PROVE  /\ SampleWord(input, 2 * g + 1) =
              256 * SampleByte(input, 4 * g + 1) + SampleByte(input, 4 * g + 2)
         /\ SampleWord(input, 2 * g + 2) =
              256 * SampleByte(input, 4 * g + 3) + SampleByte(input, 4 * g + 4)
<1>1. /\ ((2 * g + 1) + 1) \div 2 = g + 1 /\ 2 * (((2 * g + 1) + 1) % 2) = 0
      /\ ((2 * g + 2) + 1) \div 2 = g + 1 /\ 2 * (((2 * g + 2) + 1) % 2) = 2
      /\ 0 + 2 = 2 /\ 0 + 1 = 1 /\ 2 + 2 = 4 /\ 2 + 1 = 3
  OBVIOUS
<1> DEFINE there == g + 1 <= Len(input)
           f == input[g + 1]
<1>2. /\ SampleWord(input, 2 * g + 1) = IF there THEN 256 * f[2] + f[1] ELSE 0
      /\ SampleWord(input, 2 * g + 2) = IF there THEN 256 * f[4] + f[3] ELSE 0
  BY <1>1 DEF SampleWord
<1>3. \A b \in 1 .. 4 : SampleByte(input, 4 * g + b) =
                          IF there THEN f[<<2, 1, 4, 3>>[b]] ELSE 0
  BY SampleBytes, Zenon
<1> HIDE DEF there, f
<1>4. /\ SampleByte(input, 4 * g + 1) = IF there THEN f[2] ELSE 0
      /\ SampleByte(input, 4 * g + 2) = IF there THEN f[1] ELSE 0
      /\ SampleByte(input, 4 * g + 3) = IF there THEN f[4] ELSE 0
      /\ SampleByte(input, 4 * g + 4) = IF there THEN f[3] ELSE 0
  BY <1>3
<1>5. 256 * 0 + 0 = 0
  OBVIOUS
<1> QED
  BY <1>2, <1>4, <1>5, Zenon

\* A bit among n bytes is one of the eight of one of them.
LEMMA InEights ==
  ASSUME NEW n \in Nat, NEW i \in 1 .. 8 * n
  PROVE  \E q \in 1 .. n, t \in 1 .. 8 : i = 8 * (q - 1) + t
<1>1. ((i - 1) \div 8) + 1 \in 1 .. n /\ ((i - 1) % 8) + 1 \in 1 .. 8
      /\ i = 8 * ((((i - 1) \div 8) + 1) - 1) + (((i - 1) % 8) + 1)
  OBVIOUS
<1> QED
  BY <1>1

\* The samples a decoder reads are the bytes that are written.
SamplesAre(E, input, bsize) ==
  /\ E \in Seq({0, 1}) /\ Len(E) = 32 * bsize
  /\ \A q \in 1 .. 4 * bsize, t \in 1 .. 8 :
       E[8 * (q - 1) + t] = Bit(SampleByte(input, q), 8 - t)

\* What a decoder reads as samples are the bits of the bytes written.
LEMMA SamplesRead ==
  ASSUME NEW input \in Seq(Frame), NEW bsize \in Nat, NEW E,
         E = Bits([k \in 1 .. 2 * bsize |-> SampleWord(input, k)], 16)
  PROVE  SamplesAre(E, input, bsize)
<1> DEFINE N == [k \in 1 .. 2 * bsize |-> SampleWord(input, k)]
<1>1. 2 * bsize \in Nat /\ 16 * (2 * bsize) = 32 * bsize /\ 4 * bsize \in Nat
      /\ 32 * bsize = 8 * (4 * bsize) /\ 32 * bsize \in Nat
  OBVIOUS
<1>2. Len(N) = 2 * bsize
  <2>1. DOMAIN N = 1 .. 2 * bsize
    OBVIOUS
  <2> HIDE DEF N
  <2> QED
    BY <1>1, <2>1
<1>3. E = [i \in 1 .. 32 * bsize |-> Bit(N[((i - 1) \div 16) + 1], 15 - ((i - 1) % 16))]
  <2>1. 16 - 1 = 15
    OBVIOUS
  <2>2. E = [i \in 1 .. 16 * Len(N) |->
               Bit(N[((i - 1) \div 16) + 1], 16 - 1 - ((i - 1) % 16))]
    BY Zenon DEF Bits
  <2> HIDE DEF N
  <2> QED
    BY <1>1, <1>2, <2>1, <2>2, Zenon
<1>4. ASSUME NEW q \in 1 .. 4 * bsize, NEW t \in 1 .. 8
      PROVE  E[8 * (q - 1) + t] = Bit(SampleByte(input, q), 8 - t)
  <2>1. PICK g \in 0 .. bsize - 1, b \in 1 .. 4 : q = 4 * g + b
    BY InFours
  <2> DEFINE i == 8 * (q - 1) + t
  <2>2. i \in 1 .. 32 * bsize
    OBVIOUS
  <2>3. E[i] = Bit(N[((i - 1) \div 16) + 1], 15 - ((i - 1) % 16))
    <3> HIDE DEF i, N
    <3> QED
      BY <1>3, <2>2, Zenon
  <2>4. /\ 2 * g + 1 \in 1 .. 2 * bsize /\ 2 * g + 2 \in 1 .. 2 * bsize
        /\ g \in Nat /\ 8 - t \in 0 .. 7
    OBVIOUS
  <2>5. N[2 * g + 1] = SampleWord(input, 2 * g + 1)
        /\ N[2 * g + 2] = SampleWord(input, 2 * g + 2)
    BY <2>4, Zenon
  <2> HIDE DEF N
  <2>6. /\ SampleByte(input, 4 * g + 1) \in Byte /\ SampleByte(input, 4 * g + 2) \in Byte
        /\ SampleByte(input, 4 * g + 3) \in Byte /\ SampleByte(input, 4 * g + 4) \in Byte
    <3>1. 1 \in 1 .. 4 /\ 2 \in 1 .. 4 /\ 3 \in 1 .. 4 /\ 4 \in 1 .. 4
      OBVIOUS
    <3> QED
      BY <2>4, <3>1, SampleBytes, Zenon
  <2>7. /\ Bit(N[2 * g + 1], 8 + (8 - t)) = Bit(SampleByte(input, 4 * g + 1), 8 - t)
        /\ Bit(N[2 * g + 1], 8 - t) = Bit(SampleByte(input, 4 * g + 2), 8 - t)
        /\ Bit(N[2 * g + 2], 8 + (8 - t)) = Bit(SampleByte(input, 4 * g + 3), 8 - t)
        /\ Bit(N[2 * g + 2], 8 - t) = Bit(SampleByte(input, 4 * g + 4), 8 - t)
    <3>1. /\ N[2 * g + 1] =
                256 * SampleByte(input, 4 * g + 1) + SampleByte(input, 4 * g + 2)
          /\ N[2 * g + 2] =
                256 * SampleByte(input, 4 * g + 3) + SampleByte(input, 4 * g + 4)
      BY <2>4, <2>5, SampleWords, ZenonT(60)
    <3>2. /\ Bit(N[2 * g + 1], 8 + (8 - t)) = Bit(SampleByte(input, 4 * g + 1), 8 - t)
          /\ Bit(N[2 * g + 1], 8 - t) = Bit(SampleByte(input, 4 * g + 2), 8 - t)
      BY <2>4, <2>6, <3>1, SampleBits, SMTT(60)
    <3>3. /\ Bit(N[2 * g + 2], 8 + (8 - t)) = Bit(SampleByte(input, 4 * g + 3), 8 - t)
          /\ Bit(N[2 * g + 2], 8 - t) = Bit(SampleByte(input, 4 * g + 4), 8 - t)
      BY <2>4, <2>6, <3>1, SampleBits, SMTT(60)
    <3> QED
      BY <3>2, <3>3
  <2>8. CASE b = 1
    <3>1. ((i - 1) \div 16) + 1 = 2 * g + 1 /\ 15 - ((i - 1) % 16) = 8 + (8 - t)
      BY <2>1, <2>8
    <3> HIDE DEF i
    <3>2. E[i] = Bit(SampleByte(input, q), 8 - t)
      BY <2>1, <2>3, <2>7, <2>8, <3>1, Zenon
    <3> QED
      BY <3>2 DEF i
  <2>9. CASE b = 2
    <3>1. ((i - 1) \div 16) + 1 = 2 * g + 1 /\ 15 - ((i - 1) % 16) = 8 - t
      BY <2>1, <2>9
    <3> HIDE DEF i
    <3>2. E[i] = Bit(SampleByte(input, q), 8 - t)
      BY <2>1, <2>3, <2>7, <2>9, <3>1, Zenon
    <3> QED
      BY <3>2 DEF i
  <2>10. CASE b = 3
    <3>1. ((i - 1) \div 16) + 1 = 2 * g + 2 /\ 15 - ((i - 1) % 16) = 8 + (8 - t)
      BY <2>1, <2>10
    <3> HIDE DEF i
    <3>2. E[i] = Bit(SampleByte(input, q), 8 - t)
      BY <2>1, <2>3, <2>7, <2>10, <3>1, Zenon
    <3> QED
      BY <3>2 DEF i
  <2>11. CASE b = 4
    <3>1. ((i - 1) \div 16) + 1 = 2 * g + 2 /\ 15 - ((i - 1) % 16) = 8 - t
      BY <2>1, <2>11
    <3> HIDE DEF i
    <3>2. E[i] = Bit(SampleByte(input, q), 8 - t)
      BY <2>1, <2>3, <2>7, <2>11, <3>1, Zenon
    <3> QED
      BY <3>2 DEF i
  <2> QED
    BY <2>8, <2>9, <2>10, <2>11
<1>5. ASSUME NEW i \in 1 .. 32 * bsize PROVE E[i] \in {0, 1}
  <2>1. PICK q \in 1 .. 4 * bsize, t \in 1 .. 8 : i = 8 * (q - 1) + t
    <3>1. i \in 1 .. 8 * (4 * bsize)
      BY <1>1
    <3> QED
      BY <1>1, <3>1, InEights, Zenon
  <2>2. PICK g \in 0 .. bsize - 1, b \in 1 .. 4 : q = 4 * g + b
    BY InFours
  <2>3. g \in Nat /\ 8 - t \in 0 .. 7
    OBVIOUS
  <2>4. SampleByte(input, q) \in Byte
    BY <2>2, <2>3, SampleBytes, Zenon
  <2>5. Bit(SampleByte(input, q), 8 - t) \in {0, 1}
    BY <2>3, <2>4, ByteBits, Zenon
  <2> QED
    BY <1>4, <2>1, <2>5, Zenon
<1>6. E \in [1 .. 32 * bsize -> {0, 1}]
  BY <1>3, <1>5
<1>7. E \in Seq({0, 1}) /\ Len(E) = 32 * bsize
  <2> DEFINE S == {0, 1}
             n == 32 * bsize
  <2>1. n \in Nat /\ E \in [1 .. n -> S]
    BY <1>1, <1>6, Zenon
  <2> HIDE DEF S, n
  <2>2. E \in Seq(S) /\ Len(E) = n
    BY <2>1, AsSequence
  <2> QED
    BY <2>2, Zenon DEF S, n
<1> QED
  BY <1>4, <1>7, Zenon DEF SamplesAre

\* The number of frames a decoder reads is the number announced.
LEMMA CountRead ==
  ASSUME NEW x \in Nat, x < 2^30, NEW C, C = <<0, 0>> \o Bits(<<x>>, 30)
  PROVE  /\ C \in Seq({0, 1}) /\ Len(C) = 32
         /\ \A k \in 1 .. 4, t \in 1 .. 8 :
              C[8 * (k - 1) + t] = Bit(CountByte(x, k), 8 - t)
<1> DEFINE B == Bits(<<x>>, 30)
           Two == {0, 1}
<1>1. B = [i \in 1 .. 30 |-> Bit(x, 30 - i)]
  <2>1. Len(<<x>>) = 1 /\ 30 * 1 = 30
    OBVIOUS
  <2>2. B = [i \in 1 .. 30 |-> Bit(<<x>>[((i - 1) \div 30) + 1], 30 - 1 - ((i - 1) % 30))]
    BY <2>1, Zenon DEF Bits
  <2>3. ASSUME NEW i \in 1 .. 30
        PROVE  Bit(<<x>>[((i - 1) \div 30) + 1], 30 - 1 - ((i - 1) % 30)) = Bit(x, 30 - i)
    <3>1. ((i - 1) \div 30) + 1 = 1 /\ 30 - 1 - ((i - 1) % 30) = 30 - i
      OBVIOUS
    <3>2. <<x>>[1] = x
      OBVIOUS
    <3> QED
      BY <3>1, <3>2, Zenon
  <2> HIDE DEF B
  <2> QED
    BY <2>2, <2>3, Zenon
<1> HIDE DEF B
<1>2. ASSUME NEW i \in 1 .. 30 PROVE Bit(x, 30 - i) \in Two
  <2> DEFINE k == 4 - ((30 - i) \div 8)
             j == (30 - i) % 8
  <2>1. k \in 1 .. 4 /\ j \in 0 .. 7 /\ 8 * (4 - k) + j = 30 - i
    OBVIOUS
  <2> HIDE DEF k, j
  <2>2. Bit(x, 8 * (4 - k) + j) = Bit(CountByte(x, k), j)
    BY <2>1, CountBits
  <2>3. CountByte(x, k) \in Byte
    BY <2>1, CountBytes, Zenon
  <2>4. Bit(CountByte(x, k), j) \in Two
    BY <2>1, <2>3, ByteBits, Zenon
  <2> QED
    BY <2>1, <2>2, <2>4, Zenon
<1>3. B \in [1 .. 30 -> Two]
  <2> HIDE DEF Two
  <2> QED
    BY <1>1, <1>2
<1>4. 0 \in Two
  OBVIOUS
<1> HIDE DEF Two
<1>5. <<0, 0>> \in Seq(Two) /\ Len(<<0, 0>>) = 2 /\ <<0, 0>>[1] = 0 /\ <<0, 0>>[2] = 0
  BY <1>4
<1>6. B \in Seq(Two) /\ Len(B) = 30
  BY <1>3, AsSequence
<1> DEFINE A == <<0, 0>>
<1> HIDE DEF A
<1>7. A \in Seq(Two) /\ Len(A) = 2 /\ A[1] = 0 /\ A[2] = 0
  BY <1>5, Zenon DEF A
<1>8. C = A \o B
  BY Zenon DEF A, B
<1>9. /\ C \in Seq(Two) /\ Len(C) = 32
      /\ \A n \in 1 .. 32 : C[n] = IF n <= 2 THEN A[n] ELSE B[n - 2]
  <2>1. /\ A \o B \in Seq(Two) /\ Len(A \o B) = Len(A) + Len(B)
        /\ \A n \in 1 .. Len(A) + Len(B) :
             (A \o B)[n] = IF n <= Len(A) THEN A[n] ELSE B[n - Len(A)]
    BY <1>6, <1>7, ConcatProperties, Zenon
  <2>2. Len(A) + Len(B) = 32
    BY <1>6, <1>7
  <2> QED
    BY <1>7, <1>8, <2>1, <2>2, Zenon
<1>10. ASSUME NEW k \in 1 .. 4, NEW t \in 1 .. 8
       PROVE  C[8 * (k - 1) + t] = Bit(CountByte(x, k), 8 - t)
  <2> DEFINE n == 8 * (k - 1) + t
  <2>1. n \in 1 .. 32 /\ 8 - t \in 0 .. 7
    OBVIOUS
  <2>2. CASE n <= 2
    <3>1. k = 1 /\ (t = 1 \/ t = 2) /\ n = t
      BY <2>2
    <3>2. C[n] = 0
      <4> HIDE DEF n
      <4> QED
        BY <1>7, <1>9, <2>1, <2>2, <3>1
    <3>3. Bit(CountByte(x, 1), 7) = 0 /\ Bit(CountByte(x, 1), 6) = 0
      <4>1. 1 \in 1 .. 4 /\ 0 \in 0 .. 7
        OBVIOUS
      <4> QED
        BY <4>1, CountBits
    <3>4. Bit(CountByte(x, k), 8 - t) = 0
      BY <3>1, <3>3
    <3> QED
      BY <3>2, <3>4
  <2>3. CASE ~(n <= 2)
    <3>1. n - 2 \in 1 .. 30 /\ 30 - (n - 2) = 8 * (4 - k) + (8 - t)
      BY <2>1, <2>3
    <3> HIDE DEF n
    <3>2. C[n] = B[n - 2]
      BY <1>9, <2>1, <2>3, Zenon
    <3>3. B[n - 2] = Bit(x, 30 - (n - 2))
      BY <1>1, <3>1, Zenon
    <3>4. Bit(x, 8 * (4 - k) + (8 - t)) = Bit(CountByte(x, k), 8 - t)
      BY <2>1, CountBits
    <3>5. C[n] = Bit(CountByte(x, k), 8 - t)
      BY <3>1, <3>2, <3>3, <3>4, Zenon
    <3> QED
      BY <3>5 DEF n
  <2> QED
    BY <2>2, <2>3
<1> QED
  BY <1>9, <1>10, Zenon DEF Two

\* The bits of a header, and of m bytes D after it.
HeaderBits(bits, s) ==
  \A i \in 1 .. 23 : bits[i] = IF i = 3 \/ i = 23 THEN 1 ELSE IF i = 20 THEN s ELSE 0
BitsAre(bits, s, D, m) ==
  /\ Len(bits) = 23 + 8 * m
  /\ HeaderBits(bits, s)
  /\ \A j \in 1 .. m, t \in 1 .. 8 : bits[23 + (8 * (j - 1) + t)] = Bit(D[j], 8 - t)

\* The 23 bits of a header a decoder reads.
LEMMA HeaderRead ==
  ASSUME NEW s \in {0, 1}, NEW h,
         h = <<0, 0, 1>> \o [i \in 1 .. 16 |-> 0] \o <<s, 0, 0, 1>>
  PROVE  h \in Seq({0, 1}) /\ Len(h) = 23 /\ HeaderBits(h, s)
<1> DEFINE A == <<0, 0, 1>>
           Z == [i \in 1 .. 16 |-> 0]
           B == <<s, 0, 0, 1>>
           Two == {0, 1}
<1>1. 0 \in Two /\ 1 \in Two /\ s \in Two
  OBVIOUS
<1>2. Z \in [1 .. 16 -> Two] /\ \A i \in 1 .. 16 : Z[i] = 0
  OBVIOUS
<1>3. h = (A \o Z) \o B
  OBVIOUS
<1> HIDE DEF Two, Z
<1>4. A \in Seq(Two) /\ Len(A) = 3 /\ A[1] = 0 /\ A[2] = 0 /\ A[3] = 1
  BY <1>1
<1>5. B \in Seq(Two) /\ Len(B) = 4 /\ B[1] = s /\ B[2] = 0 /\ B[3] = 0 /\ B[4] = 1
  BY <1>1
<1>6. Z \in Seq(Two) /\ Len(Z) = 16
  <2>1. 16 \in Nat
    OBVIOUS
  <2> QED
    BY <1>2, <2>1, AsSequence, ZenonT(60)
<1> HIDE DEF A, B
<1>7. h \in Seq(Two) /\ Parts(h, A, Z, B)
  BY <1>3, <1>4, <1>5, <1>6, Joined, Zenon
<1>8. /\ Len(h) = 23
      /\ \A i \in 1 .. 3 : h[i] = A[i]
      /\ \A i \in 1 .. 16 : h[3 + i] = Z[i]
      /\ \A i \in 1 .. 4 : h[19 + i] = B[i]
  BY <1>4, <1>5, <1>6, <1>7 DEF Parts
<1>9. ASSUME NEW i \in 1 .. 23
      PROVE  h[i] = IF i = 3 \/ i = 23 THEN 1 ELSE IF i = 20 THEN s ELSE 0
  <2>1. CASE i <= 3
    <3>1. i = 1 \/ i = 2 \/ i = 3
      BY <2>1
    <3> QED
      BY <1>4, <1>8, <3>1
  <2>2. CASE i \in 4 .. 19
    <3>1. i - 3 \in 1 .. 16 /\ 3 + (i - 3) = i /\ i # 3 /\ i # 23 /\ i # 20
      BY <2>2
    <3> QED
      BY <1>2, <1>8, <3>1
  <2>3. CASE i \in 20 .. 23
    <3>1. i = 19 + 1 \/ i = 19 + 2 \/ i = 19 + 3 \/ i = 19 + 4
      BY <2>3
    <3> QED
      BY <1>5, <1>8, <3>1
  <2> QED
    BY <2>1, <2>2, <2>3
<1> QED
  BY <1>7, <1>8, <1>9, Zenon DEF HeaderBits, Two

\* A frame, as a decoder reads it: the header and then the bits of the bytes written.
LEMMA LayoutRead ==
  ASSUME NEW input \in Seq(Frame), NEW bsize \in Nat, bsize # FullChunk => bsize < 2^30,
         NEW m, m = Extent(input, bsize)
  PROVE  \E bits : /\ Layout(input, bsize) = Octets(bits)
                   /\ BitsAre(bits, Sized(bsize), Payload(input, bsize), m)
<1> DEFINE Two == {0, 1}
           s == Sized(bsize)
           D == Payload(input, bsize)
           a == Announced(bsize)
           h == <<0, 0, 1>> \o [i \in 1 .. 16 |-> 0] \o <<s, 0, 0, 1>>
           C == IF bsize # FullChunk THEN <<0, 0>> \o Bits(<<bsize>>, 30) ELSE <<>>
           E == IF input = <<>> THEN <<>>
                ELSE Bits([k \in 1 .. 2 * bsize |-> SampleWord(input, k)], 16)
           bits == (h \o C) \o E
<1>1. Layout(input, bsize) = Octets(bits)
  BY Zenon DEF Layout, SampleWord, Sized
<1>2. s \in {0, 1}
  BY DEF Sized
<1>3. h \in Seq(Two) /\ Len(h) = 23 /\ HeaderBits(h, s)
  <2> HIDE DEF s, h
  <2>1. h = <<0, 0, 1>> \o [i \in 1 .. 16 |-> 0] \o <<s, 0, 0, 1>>
    BY DEF h
  <2> QED
    BY <1>2, <2>1, HeaderRead, Zenon
<1>4. /\ a \in {0, 4} /\ m \in Nat /\ a <= m
      /\ D = [k \in 1 .. m |-> IF k <= a THEN CountByte(bsize, k)
                               ELSE SampleByte(input, k - a)]
  <2>1. a \in {0, 4} /\ m \in Nat /\ a <= m
    BY PayloadBytes, Zenon
  <2> QED
    BY <2>1, Zenon DEF Payload
<1>5. /\ C \in Seq(Two) /\ Len(C) = 8 * a
      /\ \A k \in 1 .. a, t \in 1 .. 8 : C[8 * (k - 1) + t] = Bit(CountByte(bsize, k), 8 - t)
  <2>1. CASE bsize # FullChunk
    <3>1. a = 4 /\ C = <<0, 0>> \o Bits(<<bsize>>, 30) /\ bsize < 2^30
      BY <2>1, Zenon DEF Announced
    <3>2. 8 * 4 = 32
      OBVIOUS
    <3> HIDE DEF a, C
    <3> QED
      BY <3>1, <3>2, CountRead, ZenonT(60)
  <2>2. CASE bsize = FullChunk
    <3>1. a = 0 /\ C = <<>>
      BY <2>2, Zenon DEF Announced
    <3>2. <<>> \in Seq(Two) /\ Len(<<>>) = 0
      <4> HIDE DEF Two
      <4> QED
        OBVIOUS
    <3> HIDE DEF a, C, Two
    <3> QED
      BY <3>1, <3>2
  <2> QED
    BY <2>1, <2>2
<1>6. /\ E \in Seq(Two) /\ Len(E) = 8 * (m - a)
      /\ \A q \in 1 .. m - a, t \in 1 .. 8 :
           E[8 * (q - 1) + t] = Bit(SampleByte(input, q), 8 - t)
  <2>1. CASE input = <<>>
    <3>1. m = a + 0 /\ E = <<>>
      BY <2>1, Zenon DEF Extent
    <3>2. <<>> \in Seq(Two) /\ Len(<<>>) = 0
      <4> HIDE DEF Two
      <4> QED
        OBVIOUS
    <3> HIDE DEF a, E, Two
    <3>3. m - a = 0
      BY <1>4, <3>1
    <3> QED
      BY <3>1, <3>2, <3>3
  <2>2. CASE input # <<>>
    <3>1. m = a + 4 * bsize
          /\ E = Bits([k \in 1 .. 2 * bsize |-> SampleWord(input, k)], 16)
      BY <2>2, Zenon DEF Extent
    <3> HIDE DEF a, E
    <3>2. m - a = 4 * bsize /\ 8 * (m - a) = 32 * bsize
      <4>1. 4 * bsize \in Nat /\ 8 * (4 * bsize) = 32 * bsize
        OBVIOUS
      <4> QED
        BY <1>4, <3>1, <4>1
    <3>3. /\ E \in Seq({0, 1}) /\ Len(E) = 32 * bsize
          /\ \A q \in 1 .. 4 * bsize, t \in 1 .. 8 :
               E[8 * (q - 1) + t] = Bit(SampleByte(input, q), 8 - t)
      <4>1. SamplesAre(E, input, bsize)
        BY <3>1, SamplesRead, Zenon
      <4> QED
        BY <4>1, Zenon DEF SamplesAre
    <3> QED
      BY <3>2, <3>3, Zenon
  <2> QED
    BY <2>1, <2>2
<1> HIDE DEF s, D, a, h, C, E, Two, bits
<1>7. Parts(bits, h, C, E)
  BY <1>3, <1>5, <1>6, Joined, Zenon DEF bits
<1>8. /\ Len(bits) = 23 + 8 * m
      /\ \A i \in 1 .. 23 : bits[i] = h[i]
      /\ \A i \in 1 .. 8 * a : bits[23 + i] = C[i]
      /\ \A i \in 1 .. 8 * (m - a) : bits[23 + 8 * a + i] = E[i]
  BY <1>3, <1>4, <1>5, <1>6, <1>7 DEF Parts
<1>9. HeaderBits(bits, s)
  BY <1>3, <1>8, ZenonT(60) DEF HeaderBits
<1>10. ASSUME NEW j \in 1 .. m, NEW t \in 1 .. 8
       PROVE  bits[23 + (8 * (j - 1) + t)] = Bit(D[j], 8 - t)
  <2>1. CASE j <= a
    <3>1. 8 * (j - 1) + t \in 1 .. 8 * a /\ j \in 1 .. a
      BY <1>4, <2>1
    <3>2. D[j] = CountByte(bsize, j)
      BY <1>4, <2>1, Zenon
    <3> QED
      BY <1>5, <1>8, <3>1, <3>2, Zenon
  <2>2. CASE ~(j <= a)
    <3> DEFINE q == j - a
    <3>1. /\ 8 * (q - 1) + t \in 1 .. 8 * (m - a) /\ q \in 1 .. m - a
          /\ 23 + 8 * a + (8 * (q - 1) + t) = 23 + (8 * (j - 1) + t)
      BY <1>4, <2>2
    <3>2. D[j] = SampleByte(input, q)
      BY <1>4, <2>2, Zenon
    <3> HIDE DEF q
    <3> QED
      BY <1>6, <1>8, <3>1, <3>2, ZenonT(60)
  <2> QED
    BY <2>1, <2>2
<1>11. BitsAre(bits, s, D, m)
  BY <1>8, <1>9, <1>10, Zenon DEF BitsAre
<1> QED
  BY <1>1, <1>11, Zenon DEF s, D

\* Seven bits of a byte and the one left over.
LEMMA ByteRead ==
  ASSUME NEW x \in Byte
  PROVE  /\ 128 * Bit(x, 6) + 64 * Bit(x, 5) + 32 * Bit(x, 4) + 16 * Bit(x, 3)
              + 8 * Bit(x, 2) + 4 * Bit(x, 1) + 2 * Bit(x, 0) = (2 * x) % 256
         /\ Bit(x, 7) = x \div 128
         /\ \A i \in 0 .. 7 : Bit(x, i) \in {0, 1}
<1>1. x \in Int /\ x \div 128 \in {0, 1} /\ (2 * x) % 256 = 2 * x - 256 * (x \div 128)
  BY DEF Byte
<1>2. Bit(x, 7) = x \div 128
  BY <1>1 DEF Bit
<1>3. \A i \in 0 .. 7 : Bit(x, i) \in {0, 1}
  BY ByteBits
<1>4. x = Bit(x, 0) + 2 * Bit(x, 1) + 4 * Bit(x, 2) + 8 * Bit(x, 3) + 16 * Bit(x, 4)
          + 32 * Bit(x, 5) + 64 * Bit(x, 6) + 128 * Bit(x, 7)
  BY ByteBits
<1>5. /\ Bit(x, 0) \in Int /\ Bit(x, 1) \in Int /\ Bit(x, 2) \in Int /\ Bit(x, 3) \in Int
      /\ Bit(x, 4) \in Int /\ Bit(x, 5) \in Int /\ Bit(x, 6) \in Int /\ Bit(x, 7) \in Int
  BY <1>3
<1> DEFINE y == x \div 128
           z == (2 * x) % 256
<1>6. Bit(x, 7) = y /\ z = 2 * x - 256 * y /\ y \in Int
  BY <1>1, <1>2
<1> HIDE DEF y, z
<1>7. 128 * Bit(x, 6) + 64 * Bit(x, 5) + 32 * Bit(x, 4) + 16 * Bit(x, 3)
        + 8 * Bit(x, 2) + 4 * Bit(x, 1) + 2 * Bit(x, 0) = z
  BY <1>1, <1>4, <1>5, <1>6
<1> QED
  BY <1>2, <1>3, <1>7 DEF z

\* The octets of a decoder's bits are the bytes bits_write leaves.
ChunkBytes(s, D, m) == [k \in 1 .. 3 + m |-> ChunkByte(s, D, m, k)]
Payloads(m, s, D) == m \in Nat /\ s \in {0, 1} /\ D \in [1 .. m -> Byte]

\* The octets of the bits a decoder reads are the bytes bits_write leaves.
LEMMA OctetsRead ==
  ASSUME NEW m, NEW s, NEW D, NEW bits, Payloads(m, s, D), BitsAre(bits, s, D, m)
  PROVE  Octets(bits) = ChunkBytes(s, D, m)
<1> USE DEF Payloads
<1>1. /\ Len(bits) = 23 + 8 * m
      /\ HeaderBits(bits, s)
      /\ \A j \in 1 .. m, t \in 1 .. 8 : bits[23 + (8 * (j - 1) + t)] = Bit(D[j], 8 - t)
  BY Zenon DEF BitsAre
<1> DEFINE At(i) == IF i <= Len(bits) THEN bits[i] ELSE 0
           Octet(k) == 128 * At(8*k - 7) + 64 * At(8*k - 6) + 32 * At(8*k - 5)
                       + 16 * At(8*k - 4) + 8 * At(8*k - 3) + 4 * At(8*k - 2)
                       + 2 * At(8*k - 1) + At(8*k)
<1>2. Octets(bits) = [k \in 1 .. (Len(bits) + 7) \div 8 |-> Octet(k)]
  BY Zenon DEF Octets
<1>3. (Len(bits) + 7) \div 8 = 3 + m
  BY <1>1
<1>4. \A i \in 1 .. 23 : At(i) = IF i = 3 \/ i = 23 THEN 1 ELSE IF i = 20 THEN s ELSE 0
  <2>1. ASSUME NEW i \in 1 .. 23 PROVE At(i) = bits[i]
    BY <1>1
  <2> HIDE DEF At
  <2> QED
    BY <1>1, <2>1, Zenon DEF HeaderBits
<1>5. ASSUME NEW j \in 1 .. m, NEW t \in 1 .. 8
      PROVE  At(23 + (8 * (j - 1) + t)) = Bit(D[j], 8 - t)
  <2>1. 23 + (8 * (j - 1) + t) <= 23 + 8 * m
    OBVIOUS
  <2> QED
    BY <1>1, <2>1
<1>6. \A i \in Int : i > 23 + 8 * m => At(i) = 0
  BY <1>1
<1> HIDE DEF At
\* The first bit of a byte is the last one of an octet.
<1>7. ASSUME NEW j \in 0 .. m
      PROVE  At(24 + 8 * j) = IF j < m THEN D[j + 1] \div 128 ELSE 0
  <2>1. CASE j < m
    <3>1. j + 1 \in 1 .. m /\ 1 \in 1 .. 8 /\ 8 - 1 = 7
          /\ 23 + (8 * ((j + 1) - 1) + 1) = 24 + 8 * j
      BY <2>1
    <3>2. D[j + 1] \in Byte
      BY <3>1
    <3>3. At(24 + 8 * j) = Bit(D[j + 1], 7)
      BY <1>5, <3>1
    <3> QED
      BY <2>1, <3>2, <3>3, ByteRead
  <2>2. CASE ~(j < m)
    <3>1. 24 + 8 * j \in Int /\ 24 + 8 * j > 23 + 8 * m
      BY <2>2
    <3> QED
      BY <1>6, <2>2, <3>1
  <2> QED
    BY <2>1, <2>2
<1>8. Octet(1) = 32 /\ Octet(2) = 0
  <2>1. /\ At(1) = 0 /\ At(2) = 0 /\ At(3) = 1 /\ At(4) = 0
        /\ At(5) = 0 /\ At(6) = 0 /\ At(7) = 0 /\ At(8) = 0
        /\ At(9) = 0 /\ At(10) = 0 /\ At(11) = 0 /\ At(12) = 0
        /\ At(13) = 0 /\ At(14) = 0 /\ At(15) = 0 /\ At(16) = 0
    BY <1>4
  <2> QED
    BY <2>1
<1>9. Octet(3) = 16 * s + 2 + At(24)
  <2>1. /\ At(17) = 0 /\ At(18) = 0 /\ At(19) = 0 /\ At(20) = s
        /\ At(21) = 0 /\ At(22) = 0 /\ At(23) = 1
    BY <1>4
  <2>2. Octet(3) = 128 * At(17) + 64 * At(18) + 32 * At(19) + 16 * At(20)
                   + 8 * At(21) + 4 * At(22) + 2 * At(23) + At(24)
    OBVIOUS
  <2>3. At(24) \in Int
    <3>1. At(24 + 8 * 0) = IF 0 < m THEN D[0 + 1] \div 128 ELSE 0
      BY <1>7
    <3>2. 0 < m => D[0 + 1] \in Byte
      OBVIOUS
    <3>3. \A x \in Byte : x \div 128 \in Int
      BY DEF Byte
    <3>4. 24 + 8 * 0 = 24
      OBVIOUS
    <3> QED
      BY <3>1, <3>2, <3>3, <3>4
  <2> QED
    BY <2>1, <2>2, <2>3, SMTT(60)
<1>10. ASSUME NEW j \in 1 .. m PROVE Octet(3 + j) = ((2 * D[j]) % 256) + At(24 + 8 * j)
  <2>0. D[j] \in Byte
    OBVIOUS
  <2>1. /\ 8 * (3 + j) - 7 = 23 + (8 * (j - 1) + 2) /\ 8 * (3 + j) - 6 = 23 + (8 * (j - 1) + 3)
        /\ 8 * (3 + j) - 5 = 23 + (8 * (j - 1) + 4) /\ 8 * (3 + j) - 4 = 23 + (8 * (j - 1) + 5)
        /\ 8 * (3 + j) - 3 = 23 + (8 * (j - 1) + 6) /\ 8 * (3 + j) - 2 = 23 + (8 * (j - 1) + 7)
        /\ 8 * (3 + j) - 1 = 23 + (8 * (j - 1) + 8) /\ 8 * (3 + j) = 24 + 8 * j
    OBVIOUS
  <2>2. /\ At(23 + (8 * (j - 1) + 2)) = Bit(D[j], 6) /\ At(23 + (8 * (j - 1) + 3)) = Bit(D[j], 5)
        /\ At(23 + (8 * (j - 1) + 4)) = Bit(D[j], 4) /\ At(23 + (8 * (j - 1) + 5)) = Bit(D[j], 3)
        /\ At(23 + (8 * (j - 1) + 6)) = Bit(D[j], 2) /\ At(23 + (8 * (j - 1) + 7)) = Bit(D[j], 1)
        /\ At(23 + (8 * (j - 1) + 8)) = Bit(D[j], 0)
    <3>1. /\ 8 - 2 = 6 /\ 8 - 3 = 5 /\ 8 - 4 = 4 /\ 8 - 5 = 3 /\ 8 - 6 = 2 /\ 8 - 7 = 1
          /\ 8 - 8 = 0
          /\ 2 \in 1 .. 8 /\ 3 \in 1 .. 8 /\ 4 \in 1 .. 8 /\ 5 \in 1 .. 8 /\ 6 \in 1 .. 8
          /\ 7 \in 1 .. 8 /\ 8 \in 1 .. 8
      OBVIOUS
    <3> QED
      BY <1>5, <3>1
  <2>3. Octet(3 + j) = 128 * Bit(D[j], 6) + 64 * Bit(D[j], 5) + 32 * Bit(D[j], 4)
                       + 16 * Bit(D[j], 3) + 8 * Bit(D[j], 2) + 4 * Bit(D[j], 1)
                       + 2 * Bit(D[j], 0) + At(24 + 8 * j)
    <3>1. /\ At(8 * (3 + j) - 7) = Bit(D[j], 6) /\ At(8 * (3 + j) - 6) = Bit(D[j], 5)
          /\ At(8 * (3 + j) - 5) = Bit(D[j], 4) /\ At(8 * (3 + j) - 4) = Bit(D[j], 3)
          /\ At(8 * (3 + j) - 3) = Bit(D[j], 2) /\ At(8 * (3 + j) - 2) = Bit(D[j], 1)
          /\ At(8 * (3 + j) - 1) = Bit(D[j], 0) /\ At(8 * (3 + j)) = At(24 + 8 * j)
      BY <2>1, <2>2
    <3> QED
      BY <3>1
  <2> HIDE DEF Octet
  <2>4. 128 * Bit(D[j], 6) + 64 * Bit(D[j], 5) + 32 * Bit(D[j], 4) + 16 * Bit(D[j], 3)
          + 8 * Bit(D[j], 2) + 4 * Bit(D[j], 1) + 2 * Bit(D[j], 0) = (2 * D[j]) % 256
    BY <2>0, ByteRead, Zenon
  <2> QED
    BY <2>3, <2>4
<1>11. ASSUME NEW k \in 1 .. 3 + m PROVE Octet(k) = ChunkByte(s, D, m, k)
  <2>1. CASE k = 1
    BY <1>8, <2>1 DEF ChunkByte
  <2>2. CASE k = 2
    BY <1>8, <2>2 DEF ChunkByte
  <2>3. CASE k = 3
    <3>1. At(24 + 8 * 0) = IF 0 < m THEN D[0 + 1] \div 128 ELSE 0
      BY <1>7
    <3>2. 24 + 8 * 0 = 24 /\ 0 + 1 = 1 /\ 3 - 3 = 0 /\ 3 - 2 = 1 /\ 3 # 1 /\ 3 # 2
      OBVIOUS
    <3>3. ChunkByte(s, D, m, 3) = 16 * s + 2 + IF 0 < m THEN D[1] \div 128 ELSE 0
      BY <3>2, Zenon DEF ChunkByte, Begin
    <3> QED
      BY <1>9, <2>3, <3>1, <3>2, <3>3, ZenonT(60)
  <2>4. CASE k > 3
    <3> DEFINE j == k - 3
    <3>1. /\ j \in 1 .. m /\ j \in 0 .. m /\ k = 3 + j /\ j + 1 = k - 2
          /\ k # 1 /\ k # 2 /\ j # 0
      BY <2>4
    <3>2. ChunkByte(s, D, m, k) =
            ((2 * D[j]) % 256) + IF j < m THEN D[k - 2] \div 128 ELSE 0
      BY <3>1, Zenon DEF ChunkByte, Begin
    <3> HIDE DEF j
    <3>3. Octet(3 + j) = ((2 * D[j]) % 256) + At(24 + 8 * j)
      BY <1>10, <3>1, Zenon
    <3>4. At(24 + 8 * j) = IF j < m THEN D[j + 1] \div 128 ELSE 0
      BY <1>7, <3>1, Zenon
    <3> HIDE DEF Octet
    <3> QED
      BY <3>1, <3>2, <3>3, <3>4, ZenonT(60)
  <2> QED
    BY <2>1, <2>2, <2>3, <2>4
<1> HIDE DEF Octet
<1> QED
  BY <1>2, <1>3, <1>11, Zenon DEF ChunkBytes

-----------------------------------------------------------------------------
(* WritePCM, and the steps of the specification.                            *)

\* What WritePCM takes of its input.
LEMMA Taken ==
  ASSUME NEW input \in Seq(Frame), NEW bsize \in Nat, NEW read,
         read = SubSeq(input, 1, IF Len(input) < bsize THEN Len(input) ELSE bsize)
  PROVE  /\ read \in Seq(Frame) /\ Len(read) <= bsize
         /\ Len(input) <= bsize => read = input
         /\ SubSeq(input, Len(read) + 1, Len(input)) \in Seq(Frame)
<1> DEFINE n == IF Len(input) < bsize THEN Len(input) ELSE bsize
<1>1. Len(input) \in Nat /\ \A i \in 1 .. Len(input) : input[i] \in Frame
  BY LenProperties, ElementOfSeq
<1>2. n \in Nat /\ n <= Len(input) /\ n <= bsize
  BY <1>1
<1>3. Len(input) <= bsize => n = Len(input)
  BY <1>1
<1> HIDE DEF n
<1>4. read = SubSeq(input, 1, n)
  BY Zenon DEF n
<1>5. read \in Seq(Frame) /\ Len(read) = n /\ \A i \in 1 .. n : read[i] = input[i]
  <2>1. \A i \in 1 .. n : input[i] \in Frame
    BY <1>1, <1>2
  <2> HIDE DEF Frame
  <2> QED
    BY <1>2, <1>4, <2>1, SubSeqProperties
<1>6. Len(input) <= bsize => read = input
  BY <1>1, <1>3, <1>5, SeqEqual
<1>7. SubSeq(input, n + 1, Len(input)) \in Seq(Frame)
  <2>1. \A i \in n + 1 .. Len(input) : input[i] \in Frame
    BY <1>1, <1>2
  <2>2. n + 1 \in Int /\ Len(input) \in Int
    BY <1>1, <1>2
  <2> QED
    BY <2>1, <2>2, SubSeqProperties, Zenon
<1> QED
  BY <1>2, <1>5, <1>6, <1>7

\* What WritePCM returns is what a decoder expects of the frames it took,
\* whatever the buffer held.
LaidOut(w, input, bsize, L) ==
  /\ w.read = SubSeq(input, 1, IF Len(input) < bsize THEN Len(input) ELSE bsize)
  /\ w.buf \in [1 .. L -> Byte]
  /\ w.data = Layout(w.read, bsize)
  /\ w.data \in Seq(Byte) /\ (bsize = FullChunk => Len(w.data) <= 3 + 4 * bsize)

\* WritePCM lays out an Apple Lossless frame, in whatever the buffer held.
LEMMA ChunkLaidOut ==
  ASSUME NEW input \in Seq(Frame), NEW bsize \in Nat, bsize # FullChunk => bsize < 2^30,
         NEW L \in Nat, 7 + 4 * bsize <= L, NEW buf \in [1 .. L -> Byte],
         NEW w, w = WritePCM(buf, bsize, input)
  PROVE  LaidOut(w, input, bsize, L)
<1> DEFINE read == SubSeq(input, 1, IF Len(input) < bsize THEN Len(input) ELSE bsize)
           end == Written(buf, Fields(read, bsize))
           m == Extent(read, bsize)
           s == Sized(bsize)
           D == Payload(read, bsize)
<1>1. w = [rval |-> IF read = <<>> THEN -1 ELSE 0, read |-> read, buf |-> end.buf,
           data |-> SubSeq(end.buf, 1, IF end.bpos # 0 THEN end.bp ELSE end.bp - 1)]
  BY Zenon DEF WritePCM
<1>2. read \in Seq(Frame)
  BY Taken, Zenon
<1> HIDE DEF read
<1>3. m \in Nat /\ D \in [1 .. m -> Byte]
  BY <1>2, PayloadBytes, Zenon
<1>4. m <= 4 + 4 * bsize /\ (bsize = FullChunk => m <= 4 * bsize)
  <2> DEFINE a == Announced(bsize)
             more == IF read = <<>> THEN 0 ELSE 4 * bsize
  <2>1. a \in {0, 4} /\ (bsize = FullChunk => a = 0)
    BY DEF Announced
  <2>2. more \in {0, 4 * bsize}
    BY Zenon
  <2>3. m = a + more
    BY Zenon DEF Extent
  <2> HIDE DEF a, more, m
  <2> QED
    BY <2>1, <2>2, <2>3
<1>5. s \in {0, 1}
  BY DEF Sized
<1> HIDE DEF m
<1>6. 3 + m <= L
  BY <1>3, <1>4
<1>7. PICK c \in [1 .. L -> Byte] : ChunkHeld(end, c, s, D, m)
  <2>1. m = Extent(read, bsize)
    BY DEF m
  <2> QED
    BY <1>2, <1>6, <2>1, FieldsWritten, Zenon
<1> HIDE DEF end, s, D
<1>8. /\ end.buf = c /\ end.bp = 3 + m /\ end.bpos = 7
      /\ \A k \in 1 .. 3 + m : c[k] = ChunkByte(s, D, m, k)
  BY <1>7 DEF ChunkHeld, Held
<1>9. w.read = read /\ w.buf = c /\ w.data = SubSeq(c, 1, 3 + m)
  <2> DEFINE e == SubSeq(end.buf, 1, IF end.bpos # 0 THEN end.bp ELSE end.bp - 1)
  <2>1. e = SubSeq(c, 1, 3 + m)
    <3>1. (IF end.bpos # 0 THEN end.bp ELSE end.bp - 1) = 3 + m
      BY <1>8
    <3> QED
      BY <1>8, <3>1, Zenon
  <2>2. w.read = read /\ w.buf = end.buf /\ w.data = e
    <3> HIDE DEF e
    <3>1. PICK r : w = [rval |-> r, read |-> read, buf |-> end.buf, data |-> e]
      BY <1>1, Zenon DEF e
    <3> QED
      BY <3>1
  <2> QED
    BY <1>8, <2>1, <2>2, Zenon
<1>10. SubSeq(c, 1, 3 + m) = ChunkBytes(s, D, m)
  <2> DEFINE n == 3 + m
             d == SubSeq(c, 1, n)
  <2>1. n \in Nat /\ n <= L
    BY <1>3, <1>6
  <2>2. \A k \in 1 .. n : c[k] = ChunkByte(s, D, m, k)
    BY <1>8
  <2> HIDE DEF n
  <2>3. \A k \in 1 .. n : c[k] \in Byte
    BY <2>1
  <2>4. d \in Seq(Byte) /\ Len(d) = n /\ \A k \in 1 .. n : d[k] = c[k]
    <3> HIDE DEF Byte
    <3> QED
      BY <2>1, <2>3, SubSeqProperties
  <2> HIDE DEF d
  <2>5. d \in [1 .. n -> Byte]
    BY <2>4, LenProperties
  <2>6. d = [k \in 1 .. n |-> ChunkByte(s, D, m, k)]
    BY <2>2, <2>4, <2>5
  <2> QED
    BY <2>6 DEF d, n, ChunkBytes
<1>11. /\ SubSeq(c, 1, 3 + m) \in Seq(Byte)
       /\ bsize = FullChunk => Len(SubSeq(c, 1, 3 + m)) <= 3 + 4 * bsize
  <2> DEFINE n == 3 + m
             d == SubSeq(c, 1, n)
  <2>1. n \in Nat /\ n <= L /\ (bsize = FullChunk => n <= 3 + 4 * bsize)
    BY <1>3, <1>4, <1>6
  <2> HIDE DEF n
  <2>2. \A k \in 1 .. n : c[k] \in Byte
    BY <2>1
  <2>3. d \in Seq(Byte) /\ Len(d) = n
    <3> HIDE DEF Byte
    <3> QED
      BY <2>1, <2>2, SubSeqProperties
  <2> HIDE DEF d
  <2>4. d \in Seq(Byte) /\ (bsize = FullChunk => Len(d) <= 3 + 4 * bsize)
    BY <2>1, <2>3
  <2> QED
    BY <2>4 DEF d, n
<1>12. Layout(read, bsize) = ChunkBytes(s, D, m)
  <2>1. PICK bits : Layout(read, bsize) = Octets(bits) /\ BitsAre(bits, s, D, m)
    BY <1>2, LayoutRead, Zenon DEF s, D, m
  <2>2. Payloads(m, s, D)
    BY <1>3, <1>5, Zenon DEF Payloads
  <2> QED
    BY <2>1, <2>2, OctetsRead, Zenon
<1> QED
  BY <1>9, <1>10, <1>11, <1>12, Zenon DEF read, LaidOut

\* The song is made of frames and the buffer of bytes.
PacketsType ==
  /\ pc \in {"closed", "opened", "connected", "started", "sent", "ended"}
  /\ song \in Seq(Frame)
  /\ buffer \in [1 .. 4 * FullChunk + 16 -> Byte]

LayoutInv == PacketsType /\ ChunkLayout

\* A new session holds no chunk.
LEMMA LayoutInit == Init => LayoutInv
<1> SUFFICES ASSUME Init PROVE LayoutInv
  OBVIOUS
<1>1. pc = "closed" /\ song = <<>> /\ buffer = [i \in 1 .. 4 * FullChunk + 16 |-> 0]
  BY DEF Init
<1>2. buffer \in [1 .. 4 * FullChunk + 16 -> Byte]
  BY <1>1 DEF Byte
<1>3. song \in Seq(Frame)
  BY <1>1
<1> QED
  BY <1>1, <1>2, <1>3 DEF LayoutInv, PacketsType, ChunkLayout

\* Open makes the silence; the buffer of the song stays.
LEMMA LayoutOpen == LayoutInv /\ Open => LayoutInv'
<1> SUFFICES ASSUME LayoutInv, Open PROVE LayoutInv'
  OBVIOUS
<1> DEFINE none == [f \in 1 .. SmallChunk |-> <<0, 0, 0, 0>>]
           buf == [i \in 1 .. 4 * SmallChunk + 16 |-> 0]
           w == WritePCM(buf, SmallChunk, none)
<1>1. pc' = "opened" /\ song' = song /\ buffer' = buffer /\ silence' = w.data
  BY Zenon DEF Open
<1>2. SmallChunk \in Nat /\ SmallChunk < 2^30 /\ 4 * SmallChunk + 16 \in Nat
      /\ 7 + 4 * SmallChunk <= 4 * SmallChunk + 16
  BY ConstantsAssumption
<1>3. none \in [1 .. SmallChunk -> Frame]
  BY DEF Frame, Byte
<1>4. none \in Seq(Frame) /\ Len(none) = SmallChunk
  <2> HIDE DEF none
  <2> QED
    BY <1>2, <1>3, AsSequence, Zenon
<1>5. buf \in [1 .. 4 * SmallChunk + 16 -> Byte]
  BY DEF Byte
<1>6. w.data = Layout(none, SmallChunk)
  <2>1. Len(none) <= SmallChunk
    BY <1>2, <1>4
  <2> HIDE DEF none, buf
  <2>2. /\ w.read = SubSeq(none, 1, IF Len(none) < SmallChunk THEN Len(none)
                                    ELSE SmallChunk)
        /\ w.data = Layout(w.read, SmallChunk)
    <3>1. LaidOut(w, none, SmallChunk, 4 * SmallChunk + 16)
      BY <1>2, <1>4, <1>5, ChunkLaidOut, Zenon
    <3> QED
      BY <3>1, Zenon DEF LaidOut
  <2>3. w.read = none
    BY <1>2, <1>4, <2>1, <2>2, Taken, Zenon
  <2> QED
    BY <2>2, <2>3, Zenon
<1>7. ChunkLayout'
  BY <1>1, <1>6, Zenon DEF ChunkLayout
<1>8. PacketsType'
  BY <1>1 DEF PacketsType, LayoutInv
<1> QED
  BY <1>7, <1>8 DEF LayoutInv

\* GetNextSample makes a chunk of the next frames of the song.
LEMMA LayoutNext ==
  ASSUME LayoutInv, pc # "closed", GetNextSample, UNCHANGED session
  PROVE  LayoutInv'
<1> DEFINE w == WritePCM(buffer, FullChunk, song)
           L == 4 * FullChunk + 16
<1>1. /\ pc' \in {"sent", "ended"}
      /\ buffer' = w.buf /\ frames' = w.read /\ chunk' = w.data
      /\ song' = SubSeq(song, Len(w.read) + 1, Len(song))
      /\ silence' = silence
  BY Zenon DEF GetNextSample, session
<1>2. /\ FullChunk \in Nat /\ L \in Nat /\ 7 + 4 * FullChunk <= L
      /\ FullChunk # FullChunk => FullChunk < 2^30
  BY ConstantsAssumption
<1>3. song \in Seq(Frame) /\ buffer \in [1 .. L -> Byte]
  BY DEF LayoutInv, PacketsType
<1> HIDE DEF L
<1>4. /\ w.read = SubSeq(song, 1, IF Len(song) < FullChunk THEN Len(song) ELSE FullChunk)
      /\ w.buf \in [1 .. L -> Byte]
      /\ w.data = Layout(w.read, FullChunk)
  <2>1. LaidOut(w, song, FullChunk, L)
    BY <1>2, <1>3, ChunkLaidOut, Zenon
  <2> QED
    BY <2>1, Zenon DEF LaidOut
<1>5. song' \in Seq(Frame)
  BY <1>1, <1>2, <1>3, <1>4, Taken, ZenonT(60)
<1> HIDE DEF w
<1>6. chunk' = Layout(frames', FullChunk)
  BY <1>1, <1>4, Zenon
<1>7. pc # "closed"
  OBVIOUS
<1>8. ChunkLayout'
  BY <1>1, <1>6, <1>7, Zenon DEF LayoutInv, ChunkLayout
<1>9. PacketsType'
  <2>1. pc' \in {"closed", "opened", "connected", "started", "sent", "ended"}
    BY <1>1
  <2>2. buffer' \in [1 .. L -> Byte]
    BY <1>1, <1>4, Zenon
  <2> QED
    BY <1>5, <2>1, <2>2, Zenon DEF PacketsType, L
<1> QED
  BY <1>8, <1>9 DEF LayoutInv

\* A chunk that is sent again stays as it is.
LEMMA LayoutSend == LayoutInv /\ SendChunk => LayoutInv'
<1> SUFFICES ASSUME LayoutInv, SendChunk PROVE LayoutInv'
  OBVIOUS
<1>1. pc # "closed" /\ UNCHANGED session
  BY DEF SendChunk
<1>2. CASE GetNextSample
  BY <1>1, <1>2, LayoutNext
<1>3. CASE SameSample
  <2>1. /\ pc' = pc /\ song' = song /\ buffer' = buffer /\ silence' = silence
        /\ chunk' = chunk /\ frames' = frames
    BY <1>1, <1>3, Zenon DEF SameSample, session
  <2> QED
    BY <2>1 DEF LayoutInv, PacketsType, ChunkLayout
<1> QED
  BY <1>2, <1>3, Zenon DEF SendChunk

\* The steps that write no samples.
LEMMA LayoutOther ==
  LayoutInv /\ (Connect \/ Start \/ UNCHANGED vars) => LayoutInv'
<1> SUFFICES ASSUME LayoutInv, Connect \/ Start \/ UNCHANGED vars PROVE LayoutInv'
  OBVIOUS
<1>1. CASE Connect
  <2>1. /\ pc = "opened" /\ pc' = "connected" /\ song' = song /\ buffer' = buffer
        /\ silence' = silence
    BY <1>1, Zenon DEF Connect
  <2> QED
    BY <2>1 DEF LayoutInv, PacketsType, ChunkLayout
<1>2. CASE Start
  <2>1. /\ pc # "closed" /\ pc' = "started" /\ song' \in Songs /\ buffer' = buffer
        /\ silence' = silence
    BY <1>2 DEF Start, session
  <2>2. song' \in Seq(Frame)
    <3>1. Songs \subseteq Seq(Frame)
      BY ConstantsAssumption
    <3> QED
      BY <2>1, <3>1, Zenon
  <2>3. PacketsType'
    BY <2>1, <2>2 DEF LayoutInv, PacketsType
  <2>4. ChunkLayout'
    BY <2>1 DEF LayoutInv, ChunkLayout
  <2> QED
    BY <2>3, <2>4 DEF LayoutInv
<1>3. CASE UNCHANGED vars
  <2>1. /\ pc' = pc /\ song' = song /\ buffer' = buffer /\ silence' = silence
        /\ chunk' = chunk /\ frames' = frames
    BY <1>3, Zenon DEF vars
  <2> QED
    BY <2>1 DEF LayoutInv, PacketsType, ChunkLayout
<1> QED
  BY <1>1, <1>2, <1>3

\* Every chunk WritePCM makes of a song, and the chunk of silence of
\* RAOPClient::Open, is what an Apple Lossless decoder expects: for every
\* song, every number of samples in a chunk and whatever the packets before
\* left in the buffer.
THEOREM ChunksLaidOut == Spec => []ChunkLayout
<1>1. Init => LayoutInv
  BY LayoutInit
<1>2. LayoutInv /\ [Next]_vars => LayoutInv'
  BY LayoutOpen, LayoutSend, LayoutOther DEF Next
<1>3. LayoutInv => ChunkLayout
  BY DEF LayoutInv
<1> QED
  BY <1>1, <1>2, <1>3, PTL DEF Spec

-----------------------------------------------------------------------------
(* The text of the initialization vector, and what a receiver reads of it. *)

\* Three bytes as four characters of six bits.
LEMMA SixBits ==
  ASSUME NEW a \in Byte, NEW b \in Byte, NEW d \in Byte, NEW c, c = 65536 * a + 256 * b + d
  PROVE  /\ (c \div 64^3) % 64 = a \div 4
         /\ (c \div 64^2) % 64 = 16 * (a % 4) + (b \div 16)
         /\ (c \div 64^1) % 64 = 4 * (b % 16) + (d \div 64)
         /\ (c \div 64^0) % 64 = d % 64
<1>1. 64^3 = 262144 /\ 64^2 = 4096 /\ 64^1 = 64 /\ 64^0 = 1
  OBVIOUS
<1>2. c \div 262144 = a \div 4
  BY DEF Byte
<1>3. c \div 4096 = 16 * a + (b \div 16)
  BY DEF Byte
<1>4. c \div 64 = 1024 * a + 4 * b + (d \div 64)
  BY DEF Byte
<1>5. (c \div 262144) % 64 = a \div 4
  BY <1>2 DEF Byte
<1>6. (c \div 4096) % 64 = 16 * (a % 4) + (b \div 16)
  BY <1>3 DEF Byte
<1>7. (c \div 64) % 64 = 4 * (b % 16) + (d \div 64)
  BY <1>4 DEF Byte
<1>8. (c \div 1) % 64 = d % 64
  BY DEF Byte
<1> QED
  BY <1>1, <1>5, <1>6, <1>7, <1>8

\* The bits of the four characters.
LEMMA CharacterBits ==
  ASSUME NEW a \in Byte, NEW b \in Byte, NEW d \in Byte,
         NEW p, NEW q, NEW r, NEW s,
         p = a \div 4, q = 16 * (a % 4) + (b \div 16), r = 4 * (b % 16) + (d \div 64), s = d % 64
  PROVE  /\ Bit(p, 5) = Bit(a, 7) /\ Bit(p, 4) = Bit(a, 6) /\ Bit(p, 3) = Bit(a, 5)
         /\ Bit(p, 2) = Bit(a, 4) /\ Bit(p, 1) = Bit(a, 3) /\ Bit(p, 0) = Bit(a, 2)
         /\ Bit(q, 5) = Bit(a, 1) /\ Bit(q, 4) = Bit(a, 0) /\ Bit(q, 3) = Bit(b, 7)
         /\ Bit(q, 2) = Bit(b, 6) /\ Bit(q, 1) = Bit(b, 5) /\ Bit(q, 0) = Bit(b, 4)
         /\ Bit(r, 5) = Bit(b, 3) /\ Bit(r, 4) = Bit(b, 2) /\ Bit(r, 3) = Bit(b, 1)
         /\ Bit(r, 2) = Bit(b, 0) /\ Bit(r, 1) = Bit(d, 7) /\ Bit(r, 0) = Bit(d, 6)
         /\ Bit(s, 5) = Bit(d, 5) /\ Bit(s, 4) = Bit(d, 4) /\ Bit(s, 3) = Bit(d, 3)
         /\ Bit(s, 2) = Bit(d, 2) /\ Bit(s, 1) = Bit(d, 1) /\ Bit(s, 0) = Bit(d, 0)
<1>1. 2^7 = 128 /\ 2^6 = 64 /\ 2^5 = 32 /\ 2^4 = 16 /\ 2^3 = 8 /\ 2^2 = 4 /\ 2^1 = 2 /\ 2^0 = 1
  OBVIOUS
<1>2. PICK m \in 0 .. 3, n \in 0 .. 63 : a = 4 * n + m
  <2>1. a \in Int /\ 0 <= a /\ a <= 255
    BY DEF Byte
  <2>2. a \div 4 \in 0 .. 63
    BY <2>1
  <2>3. a % 4 \in 0 .. 3
    BY <2>1
  <2>4. a = 4 * (a \div 4) + (a % 4)
    BY <2>1
  <2> QED BY <2>2, <2>3, <2>4
<1>3. PICK i \in 0 .. 15, j \in 0 .. 15 : b = 16 * j + i
  <2>1. b \in Int /\ 0 <= b /\ b <= 255
    BY DEF Byte
  <2>2. b \div 16 \in 0 .. 15
    BY <2>1
  <2>3. b % 16 \in 0 .. 15
    BY <2>1
  <2>4. b = 16 * (b \div 16) + (b % 16)
    BY <2>1
  <2> QED BY <2>2, <2>3, <2>4
<1>4. PICK k \in 0 .. 63, h \in 0 .. 3 : d = 64 * h + k
  <2>1. d \in Int /\ 0 <= d /\ d <= 255
    BY DEF Byte
  <2>2. d \div 64 \in 0 .. 3
    BY <2>1
  <2>3. d % 64 \in 0 .. 63
    BY <2>1
  <2>4. d = 64 * (d \div 64) + (d % 64)
    BY <2>1
  <2> QED BY <2>2, <2>3, <2>4
<1>5. p = n
  BY <1>2
<1>6. q = 16 * m + j
  BY <1>2, <1>3
<1>7. r = 4 * i + h
  BY <1>3, <1>4
<1>8. s = k
  BY <1>4
<1>9. Bit(p, 5) = Bit(a, 7)
  BY <1>1, <1>2, <1>5 DEF Bit, Byte
<1>10. Bit(p, 4) = Bit(a, 6)
  BY <1>1, <1>2, <1>5 DEF Bit, Byte
<1>11. Bit(p, 3) = Bit(a, 5)
  BY <1>1, <1>2, <1>5 DEF Bit, Byte
<1>12. Bit(p, 2) = Bit(a, 4)
  BY <1>1, <1>2, <1>5 DEF Bit, Byte
<1>13. Bit(p, 1) = Bit(a, 3)
  BY <1>1, <1>2, <1>5 DEF Bit, Byte
<1>14. Bit(p, 0) = Bit(a, 2)
  BY <1>1, <1>2, <1>5 DEF Bit, Byte
<1>15. Bit(q, 5) = Bit(a, 1)
  BY <1>1, <1>2, <1>6 DEF Bit, Byte
<1>16. Bit(q, 4) = Bit(a, 0)
  BY <1>1, <1>2, <1>6 DEF Bit, Byte
<1>17. Bit(q, 3) = Bit(b, 7)
  BY <1>1, <1>3, <1>6 DEF Bit, Byte
<1>18. Bit(q, 2) = Bit(b, 6)
  BY <1>1, <1>3, <1>6 DEF Bit, Byte
<1>19. Bit(q, 1) = Bit(b, 5)
  BY <1>1, <1>3, <1>6 DEF Bit, Byte
<1>20. Bit(q, 0) = Bit(b, 4)
  BY <1>1, <1>3, <1>6 DEF Bit, Byte
<1>21. Bit(r, 5) = Bit(b, 3)
  BY <1>1, <1>3, <1>7 DEF Bit, Byte
<1>22. Bit(r, 4) = Bit(b, 2)
  BY <1>1, <1>3, <1>7 DEF Bit, Byte
<1>23. Bit(r, 3) = Bit(b, 1)
  BY <1>1, <1>3, <1>7 DEF Bit, Byte
<1>24. Bit(r, 2) = Bit(b, 0)
  BY <1>1, <1>3, <1>7 DEF Bit, Byte
<1>25. Bit(r, 1) = Bit(d, 7)
  BY <1>1, <1>4, <1>7 DEF Bit, Byte
<1>26. Bit(r, 0) = Bit(d, 6)
  BY <1>1, <1>4, <1>7 DEF Bit, Byte
<1>27. Bit(s, 5) = Bit(d, 5)
  BY <1>1, <1>4, <1>8 DEF Bit, Byte
<1>28. Bit(s, 4) = Bit(d, 4)
  BY <1>1, <1>4, <1>8 DEF Bit, Byte
<1>29. Bit(s, 3) = Bit(d, 3)
  BY <1>1, <1>4, <1>8 DEF Bit, Byte
<1>30. Bit(s, 2) = Bit(d, 2)
  BY <1>1, <1>4, <1>8 DEF Bit, Byte
<1>31. Bit(s, 1) = Bit(d, 1)
  BY <1>1, <1>4, <1>8 DEF Bit, Byte
<1>32. Bit(s, 0) = Bit(d, 0)
  BY <1>1, <1>4, <1>8 DEF Bit, Byte
<1> QED
  BY <1>9, <1>10, <1>11, <1>12, <1>13, <1>14, <1>15, <1>16, <1>17, <1>18, <1>19, <1>20, <1>21, <1>22, <1>23, <1>24, <1>25, <1>26, <1>27, <1>28, <1>29, <1>30, <1>31, <1>32

\* The bytes of a sequence, zeros after it; and the group of four characters
\* that stands for three of them, with padding for what is after the end.
Padded(data, i) == IF i <= Len(data) THEN data[i] ELSE 0
TextGroup(data, t, E) ==
  LET a == Padded(data, 3 * t + 1)  b == Padded(data, 3 * t + 2)
      d == Padded(data, 3 * t + 3)
  IN /\ E[4 * t + 1] = a \div 4
     /\ E[4 * t + 2] = 16 * (a % 4) + (b \div 16)
     /\ E[4 * t + 3] = IF 3 * t + 2 > Len(data) THEN 64 ELSE 4 * (b % 16) + (d \div 64)
     /\ E[4 * t + 4] = IF 3 * t + 3 > Len(data) THEN 64 ELSE d % 64

\* Bytes, at every place.
LEMMA PaddedBytes ==
  ASSUME NEW data \in Seq(Byte), NEW i \in Nat \ {0}
  PROVE  Padded(data, i) \in Byte
<1>1. Len(data) \in Nat /\ 0 \in Byte
  BY LenProperties DEF Byte
<1>2. i <= Len(data) => data[i] \in Byte
  BY <1>1, ElementOfSeq
<1> QED
  BY <1>1, <1>2, Zenon DEF Padded

\* Base64Encode makes such groups, of any sequence of bytes.
LEMMA TextEncoded ==
  ASSUME NEW data \in Seq(Byte), NEW g \in Nat, g = (Len(data) + 2) \div 3
  PROVE  /\ Base64Encode(data) \in [1 .. 4 * g -> 0 .. 64]
         /\ \A t \in 0 .. g - 1 : TextGroup(data, t, Base64Encode(data))
<1> DEFINE Value(i) == 65536 * Padded(data, i + 1) + 256 * Padded(data, i + 2)
                       + Padded(data, i + 3)
           Char(i, p) == IF \/ p = 3 /\ i + 3 > Len(data)
                            \/ p = 2 /\ i + 2 > Len(data) THEN 64
                         ELSE (Value(i) \div 64^(3 - p)) % 64
           E == Base64Encode(data)
<1>1. Len(data) \in Nat
  BY LenProperties
<1>2. E = [k \in 1 .. 4 * ((Len(data) + 2) \div 3) |-> Char(3 * ((k - 1) \div 4), (k - 1) % 4)]
  BY SMT DEF Base64Encode, Pad, Padded
<1> HIDE DEF Char, E
<1>3. E = [k \in 1 .. 4 * g |-> Char(3 * ((k - 1) \div 4), (k - 1) % 4)]
  BY <1>2, Zenon
<1>4. ASSUME NEW t \in 0 .. g - 1
      PROVE  /\ E[4 * t + 1] = Char(3 * t, 0) /\ E[4 * t + 2] = Char(3 * t, 1)
             /\ E[4 * t + 3] = Char(3 * t, 2) /\ E[4 * t + 4] = Char(3 * t, 3)
  <2>1. ASSUME NEW p \in 0 .. 3 PROVE E[4 * t + 1 + p] = Char(3 * t, p)
    <3> DEFINE k == 4 * t + 1 + p
    <3>1. k \in 1 .. 4 * g /\ 3 * ((k - 1) \div 4) = 3 * t /\ (k - 1) % 4 = p
      OBVIOUS
    <3> HIDE DEF k
    <3>2. E[k] = Char(3 * t, p)
      BY <1>3, <3>1
    <3> QED
      BY <3>2 DEF k
  <2>2. /\ 4 * t + 1 + 0 = 4 * t + 1 /\ 4 * t + 1 + 1 = 4 * t + 2
        /\ 4 * t + 1 + 2 = 4 * t + 3 /\ 4 * t + 1 + 3 = 4 * t + 4
    OBVIOUS
  <2>3. 0 \in 0 .. 3 /\ 1 \in 0 .. 3 /\ 2 \in 0 .. 3 /\ 3 \in 0 .. 3
    OBVIOUS
  <2> QED
    BY <2>1, <2>2, <2>3
<1>5. ASSUME NEW t \in 0 .. g - 1
      PROVE  /\ TextGroup(data, t, E)
             /\ E[4 * t + 1] \in 0 .. 64 /\ E[4 * t + 2] \in 0 .. 64
             /\ E[4 * t + 3] \in 0 .. 64 /\ E[4 * t + 4] \in 0 .. 64
  <2> DEFINE a == Padded(data, 3 * t + 1)
             b == Padded(data, 3 * t + 2)
             d == Padded(data, 3 * t + 3)
             c == 65536 * a + 256 * b + d
  <2>1. a \in Byte /\ b \in Byte /\ d \in Byte
    <3>1. 3 * t + 1 \in Nat \ {0} /\ 3 * t + 2 \in Nat \ {0} /\ 3 * t + 3 \in Nat \ {0}
      OBVIOUS
    <3> QED
      BY <3>1, PaddedBytes
  <2>3. Value(3 * t) = c
    OBVIOUS
  <2> HIDE DEF Value
  <2>4. 3 - 0 = 3 /\ 3 - 1 = 2 /\ 3 - 2 = 1 /\ 3 - 3 = 0
    OBVIOUS
  <2>5. /\ Char(3 * t, 0) = (c \div 64^3) % 64
        /\ Char(3 * t, 1) = (c \div 64^2) % 64
        /\ Char(3 * t, 2) = IF 3 * t + 2 > Len(data) THEN 64 ELSE (c \div 64^1) % 64
        /\ Char(3 * t, 3) = IF 3 * t + 3 > Len(data) THEN 64 ELSE (c \div 64^0) % 64
    BY <2>3, <2>4 DEF Char
  <2> HIDE DEF a, b, d
  <2>7. /\ (c \div 64^3) % 64 = a \div 4
        /\ (c \div 64^2) % 64 = 16 * (a % 4) + (b \div 16)
        /\ (c \div 64^1) % 64 = 4 * (b % 16) + (d \div 64)
        /\ (c \div 64^0) % 64 = d % 64
    BY <2>1, SixBits
  <2> HIDE DEF c
  <2>8. /\ a \div 4 \in 0 .. 64 /\ 16 * (a % 4) + (b \div 16) \in 0 .. 64
        /\ 4 * (b % 16) + (d \div 64) \in 0 .. 64 /\ d % 64 \in 0 .. 64
    BY <2>1 DEF Byte
  <2>9. /\ E[4 * t + 1] = a \div 4
        /\ E[4 * t + 2] = 16 * (a % 4) + (b \div 16)
        /\ E[4 * t + 3] = IF 3 * t + 2 > Len(data) THEN 64 ELSE 4 * (b % 16) + (d \div 64)
        /\ E[4 * t + 4] = IF 3 * t + 3 > Len(data) THEN 64 ELSE d % 64
    <3>1. E[4 * t + 1] = a \div 4 /\ E[4 * t + 2] = 16 * (a % 4) + (b \div 16)
      BY <1>4, <2>5, <2>7, Zenon
    <3>2. E[4 * t + 3] = IF 3 * t + 2 > Len(data) THEN 64 ELSE 4 * (b % 16) + (d \div 64)
      BY <1>4, <2>5, <2>7, Zenon
    <3>3. E[4 * t + 4] = IF 3 * t + 3 > Len(data) THEN 64 ELSE d % 64
      BY <1>4, <2>5, <2>7, Zenon
    <3> QED
      BY <3>1, <3>2, <3>3
  <2>10. TextGroup(data, t, E)
    BY <2>9, Zenon DEF TextGroup, a, b, d
  <2>11. 64 \in 0 .. 64
    OBVIOUS
  <2> QED
    BY <2>8, <2>9, <2>10, <2>11
<1>6. ASSUME NEW k \in 1 .. 4 * g PROVE E[k] \in 0 .. 64
  <2> DEFINE t == (k - 1) \div 4
  <2>1. t \in 0 .. g - 1 /\ k \in {4 * t + 1, 4 * t + 2, 4 * t + 3, 4 * t + 4}
    OBVIOUS
  <2> HIDE DEF t
  <2> QED
    BY <1>5, <2>1
<1>7. E \in [1 .. 4 * g -> 0 .. 64]
  BY <1>3, <1>6
<1> QED
  BY <1>5, <1>7 DEF E

\* The characters of a vector: twenty-two of six bits, then two for padding.
Third(v, k) == IF k <= 16 THEN v[k] ELSE 0
Group(v, t, E) ==
  LET a == v[3 * t + 1]  b == Third(v, 3 * t + 2)  d == Third(v, 3 * t + 3) IN
  /\ E[4 * t + 1] = a \div 4
  /\ E[4 * t + 2] = 16 * (a % 4) + (b \div 16)
  /\ E[4 * t + 3] = IF t = 5 THEN 64 ELSE 4 * (b % 16) + (d \div 64)
  /\ E[4 * t + 4] = IF t = 5 THEN 64 ELSE d % 64

\* Base64Encode makes such a text.
LEMMA VectorEncoded ==
  ASSUME NEW v \in [1 .. 16 -> Byte]
  PROVE  /\ Base64Encode(v) \in [1 .. 24 -> 0 .. 64]
         /\ \A t \in 0 .. 5 : Group(v, t, Base64Encode(v))
<1> DEFINE E == Base64Encode(v)
<1>1. v \in Seq(Byte) /\ Len(v) = 16
  BY AsSequence
<1>2. E \in [1 .. 4 * 6 -> 0 .. 64] /\ \A t \in 0 .. 6 - 1 : TextGroup(v, t, E)
  <2>1. 6 \in Nat /\ 6 = (Len(v) + 2) \div 3
    BY <1>1
  <2> QED
    BY <1>1, <2>1, TextEncoded, Zenon
<1> HIDE DEF E
<1>3. ASSUME NEW t \in 0 .. 5 PROVE Group(v, t, E)
  <2> DEFINE a == v[3 * t + 1]
             b == Third(v, 3 * t + 2)
             d == Third(v, 3 * t + 3)
  <2>1. /\ Padded(v, 3 * t + 1) = a /\ Padded(v, 3 * t + 2) = b /\ Padded(v, 3 * t + 3) = d
    BY <1>1 DEF Padded, Third
  <2>2. (3 * t + 2 > Len(v) <=> t = 5) /\ (3 * t + 3 > Len(v) <=> t = 5)
    BY <1>1
  <2>3. t \in 0 .. 6 - 1
    OBVIOUS
  <2>4. TextGroup(v, t, E)
    BY <1>2, <2>3, Zenon
  <2> HIDE DEF a, b, d
  <2>5. /\ E[4 * t + 1] = a \div 4
        /\ E[4 * t + 2] = 16 * (a % 4) + (b \div 16)
        /\ E[4 * t + 3] = IF t = 5 THEN 64 ELSE 4 * (b % 16) + (d \div 64)
        /\ E[4 * t + 4] = IF t = 5 THEN 64 ELSE d % 64
    BY <2>1, <2>2, <2>4, ZenonT(60) DEF TextGroup
  <2> QED
    BY <2>5, Zenon DEF Group, a, b, d
<1> QED
  BY <1>2, <1>3, 4 * 6 = 24 DEF E

\* Only the last two characters are padding.
LEMMA Padding ==
  ASSUME NEW v \in [1 .. 16 -> Byte], NEW E, E = Base64Encode(v)
  PROVE  E[23] = 64 /\ E[24] = 64 /\ \A k \in 1 .. 22 : E[k] # 64
<1>1. \A t \in 0 .. 5 : Group(v, t, E)
  BY VectorEncoded
<1>2. E[23] = 64 /\ E[24] = 64
  <2>1. Group(v, 5, E) /\ 4 * 5 + 3 = 23 /\ 4 * 5 + 4 = 24
    BY <1>1
  <2> QED
    BY <2>1 DEF Group
<1>3. ASSUME NEW k \in 1 .. 22 PROVE E[k] # 64
  <2> DEFINE t == (k - 1) \div 4
             a == v[3 * t + 1]
             b == Third(v, 3 * t + 2)
             d == Third(v, 3 * t + 3)
  <2>1. t \in 0 .. 5 /\ \/ k = 4 * t + 1 \/ k = 4 * t + 2
                        \/ t < 5 /\ (k = 4 * t + 3 \/ k = 4 * t + 4)
    OBVIOUS
  <2>2. Group(v, t, E)
    BY <1>1, <2>1
  <2> HIDE DEF t
  <2>3. a \in Byte /\ b \in Byte /\ d \in Byte
    BY <2>1 DEF Third, Byte
  <2>4. /\ E[4 * t + 1] = a \div 4
        /\ E[4 * t + 2] = 16 * (a % 4) + (b \div 16)
        /\ E[4 * t + 3] = IF t = 5 THEN 64 ELSE 4 * (b % 16) + (d \div 64)
        /\ E[4 * t + 4] = IF t = 5 THEN 64 ELSE d % 64
    BY <2>2, Zenon DEF Group
  <2> HIDE DEF a, b, d
  <2>5. /\ a \div 4 # 64 /\ 16 * (a % 4) + (b \div 16) # 64
        /\ 4 * (b % 16) + (d \div 64) # 64 /\ d % 64 # 64
    BY <2>3 DEF Byte
  <2> QED
    BY <2>1, <2>4, <2>5
<1> QED
  BY <1>2, <1>3

\* The first k characters, none of them padding, one by one.
CharsKept(r, k, E) == r \in Seq(0 .. 64) /\ Len(r) = k /\ \A i \in 1 .. k : r[i] = E[i]

\* A character that is not for padding is kept.
LEMMA OneMoreKept ==
  ASSUME NEW E \in [1 .. 24 -> 0 .. 64], NEW k \in 0 .. 21, NEW r, CharsKept(r, k, E)
  PROVE  CharsKept(Append(r, E[k + 1]), k + 1, E)
<1> DEFINE q == Append(r, E[k + 1])
<1>1. r \in Seq(0 .. 64) /\ Len(r) = k /\ \A i \in 1 .. k : r[i] = E[i]
  BY DEF CharsKept
<1>2. E[k + 1] \in 0 .. 64
  OBVIOUS
<1>3. /\ q \in Seq(0 .. 64) /\ Len(q) = k + 1 /\ q[k + 1] = E[k + 1]
      /\ \A i \in 1 .. k : q[i] = r[i]
  BY <1>1, <1>2, AppendProperties, SMTT(60)
<1> HIDE DEF q
<1>4. CharsKept(q, k + 1, E)
  BY <1>1, <1>3, SMTT(60) DEF CharsKept
<1> QED
  BY <1>4 DEF q

\* The session's description has the characters without the padding.
LEMMA PaddingRemoved ==
  ASSUME NEW v \in [1 .. 16 -> Byte]
  PROVE  RemoveCharFromString(Base64Encode(v), Pad) = [k \in 1 .. 22 |-> Base64Encode(v)[k]]
<1> DEFINE E == Base64Encode(v)
           S == Seq(0 .. 64)
           Step(kept, i) == IF E[i] = 64 THEN kept ELSE Append(kept, E[i])
           Is(R) == R = [i \in 0 .. 24 |-> IF i = 0 THEN <<>> ELSE Step(R[i - 1], i)]
           g == [i \in 1 .. 24 |-> [kept \in S |-> Step(kept, i)]]
           R == CHOOSE f : Is(f)
<1>1. E \in [1 .. 24 -> 0 .. 64]
  BY VectorEncoded
<1>2. E[23] = 64 /\ E[24] = 64 /\ \A k \in 1 .. 22 : E[k] # 64
  BY Padding
<1>3. Len(E) = 24
  <2> HIDE DEF E
  <2> QED
    BY <1>1, AsSequence
<1>4. RemoveCharFromString(E, Pad) = R[24]
  <2> DEFINE Removed(n) ==
               (CHOOSE f : f = [i \in 0 .. n |-> IF i = 0 THEN <<>> ELSE Step(f[i - 1], i)])[n]
  <2> HIDE DEF E
  <2>1. RemoveCharFromString(E, Pad) = Removed(Len(E))
    BY SMT DEF RemoveCharFromString, Pad
  <2>2. R[24] = Removed(24)
    BY SMT
  <2> HIDE DEF Removed, R
  <2> QED
    BY <1>3, <2>1, <2>2
<1> HIDE DEF E
<1>5. <<>> \in S /\ Len(<<>>) = 0
  BY EmptySeq
<1>6. ASSUME NEW i \in 1 .. 24, NEW kept \in S
      PROVE  /\ Append(kept, E[i]) \in S /\ Len(Append(kept, E[i])) = Len(kept) + 1
             /\ \A j \in 1 .. Len(kept) : Append(kept, E[i])[j] = kept[j]
             /\ Append(kept, E[i])[Len(kept) + 1] = E[i]
  <2>1. E[i] \in 0 .. 64
    BY <1>1
  <2> QED
    BY <2>1, AppendProperties
<1>7. PICK f \in [0 .. 24 -> S] : Follows(f, <<>>, 24, g)
  <2>1. g \in [1 .. 24 -> [S -> S]]
    <3>1. ASSUME NEW i \in 1 .. 24, NEW kept \in S PROVE Step(kept, i) \in S
      <4> HIDE DEF S
      <4> QED
        BY <1>6
    <3> HIDE DEF Step, S
    <3> QED
      BY <3>1
  <2>2. 24 \in Nat
    OBVIOUS
  <2> HIDE DEF g, S
  <2> QED
    BY <1>5, <2>1, <2>2, Recursion, ZenonT(60)
<1>8. f[0] = <<>> /\ \A i \in 1 .. 24 : f[i] = Step(f[i - 1], i)
  <2>1. ASSUME NEW i \in 1 .. 24 PROVE f[i] = Step(f[i - 1], i)
    <3> HIDE DEF Step, S
    <3>1. f[i - 1] \in S
      OBVIOUS
    <3>2. f[i] = g[i][f[i - 1]]
      BY <1>7 DEF Follows
    <3> QED
      BY <3>1, <3>2, Zenon
  <2> QED
    BY <1>7, <2>1 DEF Follows
<1> HIDE DEF g
<1>9. Is(f)
  <2> HIDE DEF Step, S
  <2>1. \A i \in 0 .. 24 : f[i] = IF i = 0 THEN <<>> ELSE Step(f[i - 1], i)
    BY <1>8, SMTT(60)
  <2>2. f = [i \in 0 .. 24 |-> f[i]]
    OBVIOUS
  <2> QED
    BY <2>1, <2>2
<1>10. Is(R)
  <2> HIDE DEF Is
  <2> QED
    BY <1>9
<1> HIDE DEF R
<1>11. R[0] = <<>> /\ \A i \in 1 .. 24 : R[i] = Step(R[i - 1], i)
  <2> HIDE DEF Step
  <2> QED
    BY <1>10
<1>12. \A k \in 0 .. 21 : R[k + 1] = Append(R[k], E[k + 1])
  <2> TAKE k \in 0 .. 21
  <2>1. k + 1 \in 1 .. 24 /\ k + 1 \in 1 .. 22 /\ (k + 1) - 1 = k
    OBVIOUS
  <2>2. R[k + 1] = Step(R[k], k + 1)
    <3> HIDE DEF Step
    <3> QED
      BY <1>11, <2>1
  <2>3. E[k + 1] # 64
    BY <1>2, <2>1
  <2> QED
    BY <2>2, <2>3, Zenon
<1>13. CharsKept(R[22], 22, E)
  <2> DEFINE K == {k \in 0 .. 22 : CharsKept(R[k], k, E)}
  <2>1. CharsKept(<<>>, 0, E)
    BY <1>5 DEF CharsKept
  <2> HIDE DEF Step, S
  <2>2. 0 \in K
    BY <1>11, <2>1
  <2>3. ASSUME NEW k \in 0 .. 22 - 1, k \in K PROVE k + 1 \in K
    <3>1. k + 1 \in 0 .. 22 /\ k \in 0 .. 21
      OBVIOUS
    <3>2. CharsKept(R[k], k, E)
      BY <2>3
    <3>3. R[k + 1] = Append(R[k], E[k + 1])
      BY <1>12, <3>1
    <3>4. CharsKept(Append(R[k], E[k + 1]), k + 1, E)
      BY <1>1, <3>1, <3>2, OneMoreKept, Zenon
    <3> QED
      BY <3>1, <3>3, <3>4
  <2> HIDE DEF K
  <2>4. 22 \in Nat /\ 22 \in 0 .. 22
    OBVIOUS
  <2>5. 22 \in K
    BY <2>2, <2>3, <2>4, Upwards
  <2> QED
    BY <2>5 DEF K
<1>14. R[24] = R[22]
  <2>1. R[23] = Step(R[22], 23) /\ R[24] = Step(R[23], 24)
    <3> HIDE DEF Step
    <3> QED
      BY <1>11
  <2> QED
    BY <1>2, <2>1
<1>15. R[22] = [k \in 1 .. 22 |-> E[k]]
  <2> DEFINE r == R[22]
  <2> HIDE DEF r
  <2>4. r \in Seq(0 .. 64) /\ Len(r) = 22 /\ \A i \in 1 .. 22 : r[i] = E[i]
    BY <1>13, Zenon DEF r, CharsKept
  <2>1. r \in [1 .. 22 -> 0 .. 64]
    BY <2>4, LenProperties, ZenonT(60)
  <2>2. \A k \in 1 .. 22 : r[k] = E[k]
    BY <2>4
  <2>3. r = [k \in 1 .. 22 |-> E[k]]
    BY <2>1, <2>2
  <2> QED
    BY <2>3 DEF r
<1> QED
  BY <1>4, <1>14, <1>15 DEF E

\* Eight bits, after the j-th, that are those of a byte.
BitsAt(b, j, x) ==
  /\ b[j + 1] = Bit(x, 7) /\ b[j + 2] = Bit(x, 6) /\ b[j + 3] = Bit(x, 5)
  /\ b[j + 4] = Bit(x, 4) /\ b[j + 5] = Bit(x, 3) /\ b[j + 6] = Bit(x, 2)
  /\ b[j + 7] = Bit(x, 1) /\ b[j + 8] = Bit(x, 0)

\* Eight bits of a byte in a row are the byte.
LEMMA EightBits ==
  ASSUME NEW x \in Byte, NEW b, NEW j \in Nat, BitsAt(b, j, x)
  PROVE  128 * b[j + 1] + 64 * b[j + 2] + 32 * b[j + 3] + 16 * b[j + 4]
           + 8 * b[j + 5] + 4 * b[j + 6] + 2 * b[j + 7] + b[j + 8] = x
<1>1. /\ Bit(x, 0) \in Nat /\ Bit(x, 1) \in Nat /\ Bit(x, 2) \in Nat /\ Bit(x, 3) \in Nat
      /\ Bit(x, 4) \in Nat /\ Bit(x, 5) \in Nat /\ Bit(x, 6) \in Nat /\ Bit(x, 7) \in Nat
  BY ByteBits
<1>2. x = Bit(x, 0) + 2 * Bit(x, 1) + 4 * Bit(x, 2) + 8 * Bit(x, 3) + 16 * Bit(x, 4)
          + 32 * Bit(x, 5) + 64 * Bit(x, 6) + 128 * Bit(x, 7)
  BY ByteBits
<1> QED
  BY <1>1, <1>2 DEF BitsAt

\* The bits of characters of six bits, one after the other.
TextBits(T, b) == \A q \in 0 .. 21, r \in 0 .. 5 : b[6 * q + r + 1] = Bit(T[q + 1], 5 - r)

\* The six bits of one of the characters.
LEMMA SixByOne ==
  ASSUME NEW T, NEW b, TextBits(T, b), NEW t \in 0 .. 21
  PROVE  /\ b[6 * t + 1] = Bit(T[t + 1], 5) /\ b[6 * t + 2] = Bit(T[t + 1], 4)
         /\ b[6 * t + 3] = Bit(T[t + 1], 3) /\ b[6 * t + 4] = Bit(T[t + 1], 2)
         /\ b[6 * t + 5] = Bit(T[t + 1], 1) /\ b[6 * t + 6] = Bit(T[t + 1], 0)
<1>1. /\ 0 \in 0 .. 5 /\ 1 \in 0 .. 5 /\ 2 \in 0 .. 5 /\ 3 \in 0 .. 5 /\ 4 \in 0 .. 5 /\ 5 \in 0 .. 5
      /\ 6 * t + 0 + 1 = 6 * t + 1 /\ 6 * t + 1 + 1 = 6 * t + 2 /\ 6 * t + 2 + 1 = 6 * t + 3
      /\ 6 * t + 3 + 1 = 6 * t + 4 /\ 6 * t + 4 + 1 = 6 * t + 5 /\ 6 * t + 5 + 1 = 6 * t + 6
      /\ 5 - 0 = 5 /\ 5 - 1 = 4 /\ 5 - 2 = 3 /\ 5 - 3 = 2 /\ 5 - 4 = 1 /\ 5 - 5 = 0
  OBVIOUS
<1> QED
  BY <1>1 DEF TextBits

\* The bits of the description's text.
LEMMA BitsOfText ==
  ASSUME NEW T \in [1 .. 22 -> 0 .. 64]
  PROVE  TextBits(T, Bits(T, 6)) /\ Len(Bits(T, 6)) = 132
<1> DEFINE b == Bits(T, 6)
<1>1. Len(T) = 22
  BY AsSequence
<1>2. b = [i \in 1 .. 132 |-> Bit(T[((i - 1) \div 6) + 1], 5 - ((i - 1) % 6))]
  <2>1. 6 * Len(T) = 132 /\ 6 - 1 = 5
    BY <1>1
  <2>2. b = [i \in 1 .. 6 * Len(T) |-> Bit(T[((i - 1) \div 6) + 1], 6 - 1 - ((i - 1) % 6))]
    BY Zenon DEF Bits
  <2> QED
    BY <2>1, <2>2, ZenonT(60)
<1> HIDE DEF b
<1>3. ASSUME NEW q \in 0 .. 21, NEW r \in 0 .. 5
      PROVE  b[6 * q + r + 1] = Bit(T[q + 1], 5 - r)
  <2> DEFINE i == 6 * q + r + 1
  <2>1. i \in 1 .. 132 /\ (i - 1) \div 6 = q /\ (i - 1) % 6 = r
    OBVIOUS
  <2> HIDE DEF i
  <2>2. b[i] = Bit(T[q + 1], 5 - r)
    BY <1>2, <2>1
  <2> QED
    BY <2>2 DEF i
<1>4. Len(b) = 132
  BY <1>2
<1> QED
  BY <1>3, <1>4 DEF TextBits, b

\* The bits of three bytes of a vector, and of the last one.
LEMMA GroupRead ==
  ASSUME NEW v \in [1 .. 16 -> Byte], NEW E, NEW T, NEW b, NEW t \in 0 .. 5,
         Group(v, t, E), T = [k \in 1 .. 22 |-> E[k]], TextBits(T, b)
  PROVE  LET x == v[3 * t + 1]  y == v[3 * t + 2]  z == v[3 * t + 3]  j == 24 * t IN
         /\ b[j + 1] = Bit(x, 7) /\ b[j + 2] = Bit(x, 6)
         /\ b[j + 3] = Bit(x, 5) /\ b[j + 4] = Bit(x, 4)
         /\ b[j + 5] = Bit(x, 3) /\ b[j + 6] = Bit(x, 2)
         /\ b[j + 7] = Bit(x, 1) /\ b[j + 8] = Bit(x, 0)
         /\ t < 5 =>
              /\ b[j + 9] = Bit(y, 7) /\ b[j + 10] = Bit(y, 6)
              /\ b[j + 11] = Bit(y, 5) /\ b[j + 12] = Bit(y, 4)
              /\ b[j + 13] = Bit(y, 3) /\ b[j + 14] = Bit(y, 2)
              /\ b[j + 15] = Bit(y, 1) /\ b[j + 16] = Bit(y, 0)
              /\ b[j + 17] = Bit(z, 7) /\ b[j + 18] = Bit(z, 6)
              /\ b[j + 19] = Bit(z, 5) /\ b[j + 20] = Bit(z, 4)
              /\ b[j + 21] = Bit(z, 3) /\ b[j + 22] = Bit(z, 2)
              /\ b[j + 23] = Bit(z, 1) /\ b[j + 24] = Bit(z, 0)
<1> DEFINE x == v[3 * t + 1]
           y == Third(v, 3 * t + 2)
           z == Third(v, 3 * t + 3)
           p == T[4 * t + 1]
           q == T[4 * t + 2]
           r == T[4 * t + 3]
           s == T[4 * t + 4]
<1>1. x \in Byte /\ y \in Byte /\ z \in Byte
  BY DEF Third, Byte
<1>2. t < 5 => y = v[3 * t + 2] /\ z = v[3 * t + 3]
  BY DEF Third
<1>3. p = x \div 4 /\ q = 16 * (x % 4) + (y \div 16)
  <2>1. E[4 * t + 1] = x \div 4 /\ E[4 * t + 2] = 16 * (x % 4) + (y \div 16)
    BY Zenon DEF Group
  <2>2. 4 * t + 1 \in 1 .. 22 /\ 4 * t + 2 \in 1 .. 22
    OBVIOUS
  <2> HIDE DEF x, y
  <2> QED
    BY <2>1, <2>2
<1>4. t < 5 => r = 4 * (y % 16) + (z \div 64) /\ s = z % 64
  <2>1. /\ E[4 * t + 3] = IF t = 5 THEN 64 ELSE 4 * (y % 16) + (z \div 64)
        /\ E[4 * t + 4] = IF t = 5 THEN 64 ELSE z % 64
    BY Zenon DEF Group
  <2>2. t < 5 => 4 * t + 3 \in 1 .. 22 /\ 4 * t + 4 \in 1 .. 22
    OBVIOUS
  <2> HIDE DEF y, z
  <2> QED
    BY <2>1, <2>2
<1> HIDE DEF x, y, z
<1> DEFINE r0 == 4 * (y % 16) + (z \div 64)
           s0 == z % 64
<1>5. /\ Bit(p, 5) = Bit(x, 7) /\ Bit(p, 4) = Bit(x, 6) /\ Bit(p, 3) = Bit(x, 5)
      /\ Bit(p, 2) = Bit(x, 4) /\ Bit(p, 1) = Bit(x, 3) /\ Bit(p, 0) = Bit(x, 2)
      /\ Bit(q, 5) = Bit(x, 1) /\ Bit(q, 4) = Bit(x, 0) /\ Bit(q, 3) = Bit(y, 7)
      /\ Bit(q, 2) = Bit(y, 6) /\ Bit(q, 1) = Bit(y, 5) /\ Bit(q, 0) = Bit(y, 4)
      /\ Bit(r0, 5) = Bit(y, 3) /\ Bit(r0, 4) = Bit(y, 2) /\ Bit(r0, 3) = Bit(y, 1)
      /\ Bit(r0, 2) = Bit(y, 0) /\ Bit(r0, 1) = Bit(z, 7) /\ Bit(r0, 0) = Bit(z, 6)
      /\ Bit(s0, 5) = Bit(z, 5) /\ Bit(s0, 4) = Bit(z, 4) /\ Bit(s0, 3) = Bit(z, 3)
      /\ Bit(s0, 2) = Bit(z, 2) /\ Bit(s0, 1) = Bit(z, 1) /\ Bit(s0, 0) = Bit(z, 0)
  <2> HIDE DEF p, q, r0, s0
  <2>1. p = x \div 4 /\ q = 16 * (x % 4) + (y \div 16)
    BY <1>3
  <2>2. r0 = 4 * (y % 16) + (z \div 64) /\ s0 = z % 64
    BY Zenon DEF r0, s0
  <2> QED
    BY <1>1, <2>1, <2>2, CharacterBits
<1> HIDE DEF r0, s0
<1>6. t < 5 => r = r0 /\ s = s0
  BY <1>4 DEF r0, s0
<1>7. /\ b[24 * t + 1] = Bit(p, 5) /\ b[24 * t + 2] = Bit(p, 4)
      /\ b[24 * t + 3] = Bit(p, 3) /\ b[24 * t + 4] = Bit(p, 2)
      /\ b[24 * t + 5] = Bit(p, 1) /\ b[24 * t + 6] = Bit(p, 0)
  <2> DEFINE u == 4 * t
  <2>1. /\ u \in 0 .. 21 /\ 6 * u + 1 = 24 * t + 1 /\ 6 * u + 2 = 24 * t + 2
        /\ 6 * u + 3 = 24 * t + 3 /\ 6 * u + 4 = 24 * t + 4
        /\ 6 * u + 5 = 24 * t + 5 /\ 6 * u + 6 = 24 * t + 6
    OBVIOUS
  <2>2. p = T[u + 1]
    OBVIOUS
  <2> HIDE DEF u, p
  <2> QED
    BY <2>1, <2>2, SixByOne
<1>8. /\ b[24 * t + 7] = Bit(q, 5) /\ b[24 * t + 8] = Bit(q, 4)
      /\ b[24 * t + 9] = Bit(q, 3) /\ b[24 * t + 10] = Bit(q, 2)
      /\ b[24 * t + 11] = Bit(q, 1) /\ b[24 * t + 12] = Bit(q, 0)
  <2> DEFINE u == 4 * t + 1
  <2>1. /\ u \in 0 .. 21 /\ 6 * u + 1 = 24 * t + 7 /\ 6 * u + 2 = 24 * t + 8
        /\ 6 * u + 3 = 24 * t + 9 /\ 6 * u + 4 = 24 * t + 10
        /\ 6 * u + 5 = 24 * t + 11 /\ 6 * u + 6 = 24 * t + 12
    OBVIOUS
  <2>2. q = T[u + 1]
    OBVIOUS
  <2> HIDE DEF u, q
  <2> QED
    BY <2>1, <2>2, SixByOne
<1>9. ASSUME t < 5
      PROVE  /\ b[24 * t + 13] = Bit(r0, 5) /\ b[24 * t + 14] = Bit(r0, 4)
             /\ b[24 * t + 15] = Bit(r0, 3) /\ b[24 * t + 16] = Bit(r0, 2)
             /\ b[24 * t + 17] = Bit(r0, 1) /\ b[24 * t + 18] = Bit(r0, 0)
  <2> DEFINE u == 4 * t + 2
  <2>1. /\ u \in 0 .. 21 /\ 6 * u + 1 = 24 * t + 13 /\ 6 * u + 2 = 24 * t + 14
        /\ 6 * u + 3 = 24 * t + 15 /\ 6 * u + 4 = 24 * t + 16
        /\ 6 * u + 5 = 24 * t + 17 /\ 6 * u + 6 = 24 * t + 18
    BY <1>9
  <2>2. r0 = T[u + 1]
    BY <1>6, <1>9
  <2> HIDE DEF u
  <2> QED
    BY <2>1, <2>2, SixByOne
<1>10. ASSUME t < 5
       PROVE  /\ b[24 * t + 19] = Bit(s0, 5) /\ b[24 * t + 20] = Bit(s0, 4)
              /\ b[24 * t + 21] = Bit(s0, 3) /\ b[24 * t + 22] = Bit(s0, 2)
              /\ b[24 * t + 23] = Bit(s0, 1) /\ b[24 * t + 24] = Bit(s0, 0)
  <2> DEFINE u == 4 * t + 3
  <2>1. /\ u \in 0 .. 21 /\ 6 * u + 1 = 24 * t + 19 /\ 6 * u + 2 = 24 * t + 20
        /\ 6 * u + 3 = 24 * t + 21 /\ 6 * u + 4 = 24 * t + 22
        /\ 6 * u + 5 = 24 * t + 23 /\ 6 * u + 6 = 24 * t + 24
    BY <1>10
  <2>2. s0 = T[u + 1]
    BY <1>6, <1>10
  <2> HIDE DEF u
  <2> QED
    BY <2>1, <2>2, SixByOne
<1> HIDE DEF p, q, r, s
<1>11. /\ b[24 * t + 1] = Bit(x, 7) /\ b[24 * t + 2] = Bit(x, 6)
       /\ b[24 * t + 3] = Bit(x, 5) /\ b[24 * t + 4] = Bit(x, 4)
       /\ b[24 * t + 5] = Bit(x, 3) /\ b[24 * t + 6] = Bit(x, 2)
       /\ b[24 * t + 7] = Bit(x, 1) /\ b[24 * t + 8] = Bit(x, 0)
  BY <1>5, <1>7, <1>8
<1>12. ASSUME t < 5
       PROVE  /\ b[24 * t + 9] = Bit(y, 7) /\ b[24 * t + 10] = Bit(y, 6)
              /\ b[24 * t + 11] = Bit(y, 5) /\ b[24 * t + 12] = Bit(y, 4)
              /\ b[24 * t + 13] = Bit(y, 3) /\ b[24 * t + 14] = Bit(y, 2)
              /\ b[24 * t + 15] = Bit(y, 1) /\ b[24 * t + 16] = Bit(y, 0)
              /\ b[24 * t + 17] = Bit(z, 7) /\ b[24 * t + 18] = Bit(z, 6)
              /\ b[24 * t + 19] = Bit(z, 5) /\ b[24 * t + 20] = Bit(z, 4)
              /\ b[24 * t + 21] = Bit(z, 3) /\ b[24 * t + 22] = Bit(z, 2)
              /\ b[24 * t + 23] = Bit(z, 1) /\ b[24 * t + 24] = Bit(z, 0)
  BY <1>5, <1>8, <1>9, <1>10, <1>12
<1>13. x = v[3 * t + 1]
  BY DEF x
<1> QED
  BY <1>2, <1>11, <1>12, <1>13

\* A receiver reads the vector from the text of the description.
LEMMA VectorRead ==
  ASSUME NEW v \in [1 .. 16 -> Byte]
  PROVE  SubSeq(Octets(Bits(RemoveCharFromString(Base64Encode(v), Pad), 6)), 1, 16) = v
<1> DEFINE E == Base64Encode(v)
           T == RemoveCharFromString(E, Pad)
           b == Bits(T, 6)
           At(i) == IF i <= Len(b) THEN b[i] ELSE 0
           Octet(k) == 128 * At(8*k - 7) + 64 * At(8*k - 6) + 32 * At(8*k - 5)
                       + 16 * At(8*k - 4) + 8 * At(8*k - 3) + 4 * At(8*k - 2) + 2 * At(8*k - 1)
                       + At(8*k)
           o == Octets(b)
<1>1. E \in [1 .. 24 -> 0 .. 64] /\ \A t \in 0 .. 5 : Group(v, t, E)
  BY VectorEncoded
<1>2. T = [k \in 1 .. 22 |-> E[k]]
  BY PaddingRemoved
<1> HIDE DEF E, T
<1>3. T \in [1 .. 22 -> 0 .. 64]
  BY <1>1, <1>2
<1>4. TextBits(T, b) /\ Len(b) = 132
  BY <1>3, BitsOfText
<1>5. o = [k \in 1 .. (Len(b) + 7) \div 8 |-> Octet(k)]
  BY SMT DEF Octets
<1> HIDE DEF b, o
<1>6. \A k \in 1 .. 16 : o[k] = Octet(k)
  <2>1. (Len(b) + 7) \div 8 = 17
    BY <1>4
  <2> HIDE DEF Octet
  <2> QED
    BY <1>5, <2>1
<1>7. ASSUME NEW k \in 1 .. 16, NEW j \in Nat, j = 8 * k - 8, BitsAt(b, j, v[k])
      PROVE  o[k] = v[k]
  <2>1. /\ 8*k - 7 = j + 1 /\ 8*k - 6 = j + 2 /\ 8*k - 5 = j + 3 /\ 8*k - 4 = j + 4
        /\ 8*k - 3 = j + 5 /\ 8*k - 2 = j + 6 /\ 8*k - 1 = j + 7 /\ 8*k = j + 8
        /\ j + 8 <= 132
    BY <1>7
  <2>2. /\ At(j + 1) = b[j + 1] /\ At(j + 2) = b[j + 2] /\ At(j + 3) = b[j + 3]
        /\ At(j + 4) = b[j + 4] /\ At(j + 5) = b[j + 5] /\ At(j + 6) = b[j + 6]
        /\ At(j + 7) = b[j + 7] /\ At(j + 8) = b[j + 8]
    BY <1>4, <2>1
  <2>3. Octet(k) = 128 * At(j + 1) + 64 * At(j + 2) + 32 * At(j + 3) + 16 * At(j + 4)
                   + 8 * At(j + 5) + 4 * At(j + 6) + 2 * At(j + 7) + At(j + 8)
    <3> HIDE DEF At
    <3> QED
      BY <2>1, Zenon
  <2> HIDE DEF At
  <2>4. Octet(k) = 128 * b[j + 1] + 64 * b[j + 2] + 32 * b[j + 3] + 16 * b[j + 4]
                   + 8 * b[j + 5] + 4 * b[j + 6] + 2 * b[j + 7] + b[j + 8]
    <3> HIDE DEF Octet
    <3> QED
      BY <2>2, <2>3
  <2> HIDE DEF Octet
  <2>5. 128 * b[j + 1] + 64 * b[j + 2] + 32 * b[j + 3] + 16 * b[j + 4]
        + 8 * b[j + 5] + 4 * b[j + 6] + 2 * b[j + 7] + b[j + 8] = v[k]
    <3>1. v[k] \in Byte
      OBVIOUS
    <3> QED
      BY <1>7, <3>1, EightBits
  <2> QED
    BY <1>6, <2>4, <2>5
<1> HIDE DEF Octet
<1>8. ASSUME NEW k \in 1 .. 16 PROVE o[k] = v[k]
  <2> DEFINE t == (k - 1) \div 3
             j == 8 * k - 8
  <2>1. /\ t \in 0 .. 5 /\ j \in Nat
        /\ \/ k = 3 * t + 1 /\ j = 24 * t
           \/ t < 5 /\ k = 3 * t + 2 /\ j = 24 * t + 8
           \/ t < 5 /\ k = 3 * t + 3 /\ j = 24 * t + 16
    OBVIOUS
  <2>2. j = 8 * k - 8
    OBVIOUS
  <2> HIDE DEF t, j
  <2>3. /\ b[24 * t + 1] = Bit(v[3 * t + 1], 7) /\ b[24 * t + 2] = Bit(v[3 * t + 1], 6)
        /\ b[24 * t + 3] = Bit(v[3 * t + 1], 5) /\ b[24 * t + 4] = Bit(v[3 * t + 1], 4)
        /\ b[24 * t + 5] = Bit(v[3 * t + 1], 3) /\ b[24 * t + 6] = Bit(v[3 * t + 1], 2)
        /\ b[24 * t + 7] = Bit(v[3 * t + 1], 1) /\ b[24 * t + 8] = Bit(v[3 * t + 1], 0)
        /\ t < 5 =>
           /\ b[24 * t + 9] = Bit(v[3 * t + 2], 7) /\ b[24 * t + 10] = Bit(v[3 * t + 2], 6)
           /\ b[24 * t + 11] = Bit(v[3 * t + 2], 5) /\ b[24 * t + 12] = Bit(v[3 * t + 2], 4)
           /\ b[24 * t + 13] = Bit(v[3 * t + 2], 3) /\ b[24 * t + 14] = Bit(v[3 * t + 2], 2)
           /\ b[24 * t + 15] = Bit(v[3 * t + 2], 1) /\ b[24 * t + 16] = Bit(v[3 * t + 2], 0)
           /\ b[24 * t + 17] = Bit(v[3 * t + 3], 7) /\ b[24 * t + 18] = Bit(v[3 * t + 3], 6)
           /\ b[24 * t + 19] = Bit(v[3 * t + 3], 5) /\ b[24 * t + 20] = Bit(v[3 * t + 3], 4)
           /\ b[24 * t + 21] = Bit(v[3 * t + 3], 3) /\ b[24 * t + 22] = Bit(v[3 * t + 3], 2)
           /\ b[24 * t + 23] = Bit(v[3 * t + 3], 1) /\ b[24 * t + 24] = Bit(v[3 * t + 3], 0)
    <3>1. Group(v, t, E)
      BY <1>1, <2>1
    <3> QED
      BY <1>2, <1>4, <2>1, <3>1, GroupRead
  <2>4. BitsAt(b, j, v[k])
    <3>1. CASE k = 3 * t + 1 /\ j = 24 * t
      BY <2>3, <3>1 DEF BitsAt
    <3>2. CASE t < 5 /\ k = 3 * t + 2 /\ j = 24 * t + 8
      <4>1. /\ j + 1 = 24 * t + 9 /\ j + 2 = 24 * t + 10 /\ j + 3 = 24 * t + 11
            /\ j + 4 = 24 * t + 12 /\ j + 5 = 24 * t + 13 /\ j + 6 = 24 * t + 14
            /\ j + 7 = 24 * t + 15 /\ j + 8 = 24 * t + 16
        BY <2>1, <3>2
      <4> QED
        BY <2>3, <3>2, <4>1 DEF BitsAt
    <3>3. CASE t < 5 /\ k = 3 * t + 3 /\ j = 24 * t + 16
      <4>1. /\ j + 1 = 24 * t + 17 /\ j + 2 = 24 * t + 18 /\ j + 3 = 24 * t + 19
            /\ j + 4 = 24 * t + 20 /\ j + 5 = 24 * t + 21 /\ j + 6 = 24 * t + 22
            /\ j + 7 = 24 * t + 23 /\ j + 8 = 24 * t + 24
        BY <2>1, <3>3
      <4> QED
        BY <2>3, <3>3, <4>1 DEF BitsAt
    <3> QED
      BY <2>1, <3>1, <3>2, <3>3
  <2> QED
    BY <1>7, <2>1, <2>2, <2>4
<1> DEFINE w == SubSeq(o, 1, 16)
<1>9. w \in Seq(Byte) /\ Len(w) = 16 /\ \A k \in 1 .. 16 : w[k] = o[k]
  <2>1. \A k \in 1 .. 16 : o[k] \in Byte
    BY <1>8
  <2>2. 1 \in Int /\ 16 \in Int /\ 16 - 1 + 1 = 16 /\ \A k \in 1 .. 16 : 1 + k - 1 = k
    OBVIOUS
  <2> HIDE DEF Byte
  <2> QED
    BY <2>1, <2>2, SubSeqProperties
<1> HIDE DEF w
<1>10. w \in [1 .. 16 -> Byte]
  BY <1>9, LenProperties
<1>11. w = v
  BY <1>8, <1>9, <1>10
<1> QED
  BY <1>11 DEF w, o, b, T, E

-----------------------------------------------------------------------------
(* Blocks of sixteen bytes.                                                 *)

SixteenBytes == [1 .. 16 -> Byte]

\* A block is a sequence of sixteen bytes.
LEMMA Sixteen ==
  ASSUME NEW a \in SixteenBytes
  PROVE  a \in Seq(Byte) /\ Len(a) = 16
BY AsSequence DEF SixteenBytes

\* Blocks of the same bytes are the same.
LEMMA SixteenSame ==
  ASSUME NEW a \in SixteenBytes, NEW b \in SixteenBytes, \A t \in 1 .. 16 : a[t] = b[t]
  PROVE  a = b
BY DEF SixteenBytes

\* The bytes of a block of a sequence.
LEMMA BlockBytes ==
  ASSUME NEW s \in Seq(Byte), NEW i \in Nat \ {0}, 16 * i <= Len(s)
  PROVE  /\ Block(s, i) \in SixteenBytes
         /\ \A t \in 1 .. 16 : Block(s, i)[t] = s[16 * i - 16 + t]
<1> DEFINE m == 16 * i - 15
           n == 16 * i
           b == SubSeq(s, m, n)
<1>1. /\ m \in Int /\ n \in Int /\ n - m + 1 = 16 /\ m <= n
      /\ \A t \in 1 .. 16 : m + t - 1 = 16 * i - 16 + t
      /\ m \in Nat \ {0} /\ n <= Len(s)
  OBVIOUS
<1>2. b = Block(s, i)
  BY Zenon DEF Block
<1> HIDE DEF m, n
<1>3. \A k \in m .. n : s[k] \in Byte
  BY <1>1, LenProperties, ElementOfSeq
<1>4. b \in Seq(Byte) /\ Len(b) = 16 /\ \A t \in 1 .. 16 : b[t] = s[m + t - 1]
  <2> HIDE DEF Byte
  <2> QED
    BY <1>1, <1>3, SubSeqProperties
<1> HIDE DEF b
<1>5. b \in [1 .. 16 -> Byte]
  BY <1>4, LenProperties
<1> QED
  BY <1>1, <1>2, <1>4, <1>5 DEF SixteenBytes

\* Blocks of the same bytes.
LEMMA SameBlocks ==
  ASSUME NEW s \in Seq(Byte), NEW i \in Nat \ {0}, 16 * i <= Len(s),
         NEW q \in Seq(Byte), NEW j \in Nat \ {0}, 16 * j <= Len(q),
         \A t \in 1 .. 16 : s[16 * i - 16 + t] = q[16 * j - 16 + t]
  PROVE  Block(s, i) = Block(q, j)
<1>1. /\ Block(s, i) \in SixteenBytes /\ \A t \in 1 .. 16 : Block(s, i)[t] = s[16 * i - 16 + t]
  BY BlockBytes
<1>2. /\ Block(q, j) \in SixteenBytes /\ \A t \in 1 .. 16 : Block(q, j)[t] = q[16 * j - 16 + t]
  BY BlockBytes
<1>3. \A t \in 1 .. 16 : Block(s, i)[t] = Block(q, j)[t]
  BY <1>1, <1>2
<1> QED
  BY <1>1, <1>2, <1>3, SixteenSame

\* The sum of two blocks is a block.
LEMMA BlocksAdded ==
  ASSUME NEW a \in SixteenBytes, NEW b \in SixteenBytes
  PROVE  XorBytes(a, b) \in SixteenBytes
<1>1. \A i \in 1 .. 16 : Xored[a[i]][b[i]] \in Byte
  <2> TAKE i \in 1 .. 16
  <2>1. a[i] \in Byte /\ b[i] \in Byte
    BY DEF SixteenBytes
  <2>2. a[i] (+) b[i] \in Byte
    BY <2>1, XorLaws
  <2> QED
    BY <2>2, Zenon DEF (+)
<1> QED
  BY <1>1 DEF XorBytes, SixteenBytes

\* One more block.
LEMMA OneMoreBlock ==
  ASSUME NEW s \in Seq(Byte), NEW n \in Nat, Len(s) = 16 * n, NEW c \in SixteenBytes
  PROVE  LET q == s \o c IN
         /\ q \in Seq(Byte) /\ Len(q) = 16 * n + 16
         /\ \A k \in 1 .. 16 * n : q[k] = s[k]
         /\ \A i \in 1 .. n : Block(q, i) = Block(s, i)
         /\ Block(q, n + 1) = c
<1> DEFINE q == s \o c
<1> HIDE DEF q
<1>1. c \in Seq(Byte) /\ Len(c) = 16
  BY Sixteen
<1>2. /\ q \in Seq(Byte) /\ Len(q) = 16 * n + 16
      /\ \A k \in 1 .. 16 * n + 16 : q[k] = IF k <= 16 * n THEN s[k] ELSE c[k - 16 * n]
  <2>1. /\ s \o c \in Seq(Byte) /\ Len(s \o c) = Len(s) + Len(c)
        /\ \A k \in 1 .. Len(s) + Len(c) :
             (s \o c)[k] = IF k <= Len(s) THEN s[k] ELSE c[k - Len(s)]
    BY <1>1, ConcatProperties
  <2>2. /\ q \in Seq(Byte) /\ Len(q) = Len(s) + Len(c)
        /\ \A k \in 1 .. Len(s) + Len(c) : q[k] = IF k <= Len(s) THEN s[k] ELSE c[k - Len(s)]
    BY <2>1, Zenon DEF q
  <2> QED
    BY <1>1, <2>2
<1>3. \A k \in 1 .. 16 * n : q[k] = s[k]
  BY <1>2
<1>4. ASSUME NEW i \in 1 .. n PROVE Block(q, i) = Block(s, i)
  <2>1. i \in Nat \ {0} /\ 16 * i <= Len(q) /\ 16 * i <= Len(s)
    BY <1>2
  <2>2. \A t \in 1 .. 16 : q[16 * i - 16 + t] = s[16 * i - 16 + t]
    <3> TAKE t \in 1 .. 16
    <3>1. 16 * i - 16 + t \in 1 .. 16 * n
      OBVIOUS
    <3> QED
      BY <1>3, <3>1
  <2> QED
    BY <1>2, <2>1, <2>2, SameBlocks
<1>5. Block(q, n + 1) = c
  <2>1. n + 1 \in Nat \ {0} /\ 16 * (n + 1) <= Len(q)
    BY <1>2
  <2>2. /\ Block(q, n + 1) \in SixteenBytes
        /\ \A t \in 1 .. 16 : Block(q, n + 1)[t] = q[16 * (n + 1) - 16 + t]
    BY <1>2, <2>1, BlockBytes
  <2>3. \A t \in 1 .. 16 : q[16 * (n + 1) - 16 + t] = c[t]
    <3> TAKE t \in 1 .. 16
    <3> DEFINE k == 16 * (n + 1) - 16 + t
    <3>1. k \in 1 .. 16 * n + 16 /\ ~ (k <= 16 * n) /\ k - 16 * n = t
      OBVIOUS
    <3> HIDE DEF k
    <3>2. q[k] = c[t]
      BY <1>2, <3>1
    <3> QED
      BY <3>2 DEF k
  <2>4. \A t \in 1 .. 16 : Block(q, n + 1)[t] = c[t]
    BY <2>2, <2>3
  <2> QED
    BY <2>2, <2>4, SixteenSame
<1> QED
  BY <1>2, <1>3, <1>4, <1>5 DEF q

\* Ciphers that agree, with round keys RK.
KeysAgree(RK, nr) ==
  \A input \in SixteenBytes : /\ AesEncrypt(RK, nr, input) = Cipher(RK, nr, input)
                              /\ AesEncrypt(RK, nr, input) \in SixteenBytes

\* After a vector, k blocks each enciphered after the block before it.
Enciphered(B, vector, data, k, RK, nr) ==
  /\ B \in Seq(Byte) /\ Len(B) = 16 * k + 16
  /\ \A t \in 1 .. 16 : B[t] = vector[t]
  /\ \A i \in 1 .. k :
       Block(B, i + 1) = Cipher(RK, nr, XorBytes(Block(data, i), Block(B, i)))

\* One more block after those that are enciphered.
LEMMA OneMoreEnciphered ==
  ASSUME NEW vector \in SixteenBytes, NEW data \in Seq(Byte), NEW k \in Nat,
         16 * k + 16 <= Len(data), NEW RK, NEW nr, KeysAgree(RK, nr), NEW B,
         Enciphered(B, vector, data, k, RK, nr)
  PROVE  LET c == AesEncrypt(RK, nr, XorBytes(Block(data, k + 1), Block(B, k + 1))) IN
         /\ c \in SixteenBytes
         /\ Enciphered(B \o c, vector, data, k + 1, RK, nr)
<1> DEFINE x == XorBytes(Block(data, k + 1), Block(B, k + 1))
           c == AesEncrypt(RK, nr, x)
           q == B \o c
<1>1. /\ B \in Seq(Byte) /\ Len(B) = 16 * k + 16
      /\ \A t \in 1 .. 16 : B[t] = vector[t]
      /\ \A i \in 1 .. k : Block(B, i + 1) = Cipher(RK, nr, XorBytes(Block(data, i), Block(B, i)))
  BY Zenon DEF Enciphered
<1>2. k + 1 \in Nat \ {0} /\ 16 * (k + 1) <= Len(data) /\ 16 * (k + 1) = Len(B)
  BY <1>1, SMTT(60)
<1>3. x \in SixteenBytes
  <2>1. Block(data, k + 1) \in SixteenBytes /\ Block(B, k + 1) \in SixteenBytes
    BY <1>1, <1>2, BlockBytes
  <2> QED
    BY <2>1, BlocksAdded
<1>4. c = Cipher(RK, nr, x) /\ c \in SixteenBytes
  <2> HIDE DEF x
  <2> QED
    BY <1>3, Zenon DEF KeysAgree
<1>5. x = XorBytes(Block(data, k + 1), Block(B, k + 1))
  OBVIOUS
<1> HIDE DEF x, c, q
<1>6. /\ q \in Seq(Byte) /\ Len(q) = 16 * (k + 1) + 16
      /\ \A j \in 1 .. 16 * (k + 1) : q[j] = B[j]
      /\ \A i \in 1 .. k + 1 : Block(q, i) = Block(B, i)
      /\ Block(q, (k + 1) + 1) = c
  <2> DEFINE n == k + 1
  <2>1. n \in Nat /\ Len(B) = 16 * n
    BY <1>1
  <2> HIDE DEF n
  <2>2. /\ q \in Seq(Byte) /\ Len(q) = 16 * n + 16
        /\ \A j \in 1 .. 16 * n : q[j] = B[j]
        /\ \A i \in 1 .. n : Block(q, i) = Block(B, i)
        /\ Block(q, n + 1) = c
    BY <1>1, <1>4, <2>1, OneMoreBlock, ZenonT(60) DEF q
  <2> QED
    BY <2>2 DEF n
<1>7. \A t \in 1 .. 16 : q[t] = vector[t]
  BY <1>1, <1>6, SMTT(60)
<1>8. ASSUME NEW i \in 1 .. k + 1
      PROVE  Block(q, i + 1) = Cipher(RK, nr, XorBytes(Block(data, i), Block(q, i)))
  <2>1. CASE i = k + 1
    <3>1. Block(q, i) = Block(B, i)
      BY <1>6
    <3>2. Block(q, i + 1) = c
      BY <1>6, <2>1
    <3>3. x = XorBytes(Block(data, i), Block(q, i))
      BY <1>5, <2>1, <3>1, Zenon
    <3> QED
      BY <1>4, <3>2, <3>3, Zenon
  <2>2. CASE i # k + 1
    <3>1. i \in 1 .. k /\ i + 1 \in 1 .. k + 1
      BY <2>2
    <3>2. Block(q, i) = Block(B, i) /\ Block(q, i + 1) = Block(B, i + 1)
      BY <1>6, <3>1
    <3>3. Block(B, i + 1) = Cipher(RK, nr, XorBytes(Block(data, i), Block(B, i)))
      BY <1>1, <3>1
    <3> QED
      BY <3>2, <3>3, Zenon
  <2> QED
    BY <2>1, <2>2
<1>9. Enciphered(q, vector, data, k + 1, RK, nr)
  BY <1>6, <1>7, <1>8, Zenon DEF Enciphered
<1> QED
  BY <1>4, <1>9 DEF c, q, x

\* The blocks are enciphered one after the other.
EncipherNext(done, data, i) ==
  done \o AesEncrypt(ctx.erk, ctx.nr, XorBytes(Block(data, i), Block(done, i)))

\* Chained, block by block.
LEMMA ChainedStepwise ==
  ASSUME NEW vector, NEW data, NEW N \in Nat, N = Len(data) \div 16
  PROVE  \E E : /\ E[0] = vector
                /\ \A i \in 1 .. N : E[i] = EncipherNext(E[i - 1], data, i)
                /\ Chained(vector, data) = E[N]
<1> DEFINE Is(g, k) == g = [i \in 0 .. k |-> IF i = 0 THEN vector
                                             ELSE EncipherNext(g[i - 1], data, i)]
           S == {k \in 0 .. N : \E g : Is(g, k)}
<1>1. 0 \in S
  <2>1. \E g : Is(g, 0)
    <3>1. Is([i \in 0 .. 0 |-> vector], 0)
      OBVIOUS
    <3> HIDE DEF Is
    <3> QED
      BY <3>1
  <2> HIDE DEF Is
  <2> QED
    BY <2>1
<1>2. ASSUME NEW k \in 0 .. N - 1, k \in S PROVE k + 1 \in S
  <2>1. PICK g : Is(g, k)
    BY <1>2
  <2> DEFINE h == [i \in 0 .. k + 1 |-> IF i = k + 1 THEN EncipherNext(g[k], data, k + 1)
                                        ELSE g[i]]
  <2>2. ASSUME NEW i \in 0 .. k + 1
        PROVE  h[i] = IF i = 0 THEN vector ELSE EncipherNext(h[i - 1], data, i)
    <3>1. CASE i = 0
      BY <2>1, <3>1
    <3>2. CASE i \in 1 .. k
      BY <2>1, <3>2
    <3>3. CASE i = k + 1
      BY <3>3
    <3> QED
      BY <3>1, <3>2, <3>3
  <2>3. Is(h, k + 1)
    BY <2>2
  <2> HIDE DEF Is, h
  <2> QED
    BY <2>3
<1>3. N \in S
  <2>1. N \in 0 .. N
    OBVIOUS
  <2> HIDE DEF S
  <2> QED
    BY <1>1, <1>2, <2>1, Upwards
<1> DEFINE E == CHOOSE g : Is(g, N)
<1>4. Is(E, N)
  BY <1>3
<1>5. Chained(vector, data) = E[N]
  <2> DEFINE Made(n) ==
               (CHOOSE g : g = [i \in 0 .. n |-> IF i = 0 THEN vector
                                                 ELSE EncipherNext(g[i - 1], data, i)])[n]
  <2>1. Chained(vector, data) = Made(Len(data) \div 16)
    BY Zenon DEF Chained, EncipherNext
  <2>2. E[N] = Made(N)
    BY Zenon
  <2> HIDE DEF Made, E
  <2> QED
    BY <2>1, <2>2, Zenon
<1> HIDE DEF E
<1>6. E[0] = vector /\ \A i \in 1 .. N : E[i] = EncipherNext(E[i - 1], data, i)
  BY <1>4
<1> QED
  BY <1>5, <1>6

\* Encrypt chains every whole block of its data after the vector.
LEMMA ChainedBlocks ==
  ASSUME NEW vector \in SixteenBytes, NEW data \in Seq(Byte), NEW N \in Nat,
         N = Len(data) \div 16, KeysAgree(ctx.erk, ctx.nr)
  PROVE  Enciphered(Chained(vector, data), vector, data, N, ctx.erk, ctx.nr)
<1>1. PICK E : /\ E[0] = vector
               /\ \A i \in 1 .. N : E[i] = EncipherNext(E[i - 1], data, i)
               /\ Chained(vector, data) = E[N]
  BY ChainedStepwise
<1>2. Enciphered(vector, vector, data, 0, ctx.erk, ctx.nr)
  <2>1. vector \in Seq(Byte) /\ Len(vector) = 16
    BY Sixteen
  <2> QED
    BY <2>1 DEF Enciphered
<1> DEFINE K == {k \in 0 .. N : Enciphered(E[k], vector, data, k, ctx.erk, ctx.nr)}
<1>3. 0 \in K
  BY <1>1, <1>2
<1>4. ASSUME NEW k \in 0 .. N - 1, k \in K PROVE k + 1 \in K
  <2>1. k \in Nat /\ 16 * k + 16 <= Len(data)
    BY LenProperties
  <2>2. k + 1 \in 1 .. N /\ k + 1 \in 0 .. N /\ (k + 1) - 1 = k
    OBVIOUS
  <2>3. Enciphered(E[k], vector, data, k, ctx.erk, ctx.nr)
    BY <1>4
  <2> DEFINE c == AesEncrypt(ctx.erk, ctx.nr, XorBytes(Block(data, k + 1), Block(E[k], k + 1)))
  <2>4. E[k + 1] = E[k] \o c
    <3>1. E[k + 1] = EncipherNext(E[k], data, k + 1)
      BY <1>1, <2>2
    <3> QED
      BY <3>1, Zenon DEF EncipherNext
  <2>5. Enciphered(E[k] \o c, vector, data, k + 1, ctx.erk, ctx.nr)
    BY <2>1, <2>3, OneMoreEnciphered, Zenon
  <2> HIDE DEF c
  <2> QED
    BY <2>2, <2>4, <2>5
<1>5. N \in 0 .. N
  OBVIOUS
<1>6. N \in K
  <2> HIDE DEF K
  <2> QED
    BY <1>3, <1>4, <1>5, Upwards
<1> QED
  BY <1>1, <1>6

-----------------------------------------------------------------------------
(* A packet.                                                                *)

\* A part of a sequence of bytes, two one after the other, and the second.
LEMMA Piece ==
  ASSUME NEW s \in Seq(Byte), NEW m \in Nat, NEW n \in Nat, m <= n, n <= Len(s)
  PROVE  /\ SubSeq(s, m + 1, n) \in Seq(Byte) /\ Len(SubSeq(s, m + 1, n)) = n - m
         /\ \A k \in 1 .. n - m : SubSeq(s, m + 1, n)[k] = s[m + k]
<1>1. \A k \in m + 1 .. n : s[k] \in Byte
  <2>1. \A k \in m + 1 .. n : k \in 1 .. Len(s)
    OBVIOUS
  <2> QED
    BY <2>1, ElementOfSeq
<1> DEFINE p == m + 1
           b == SubSeq(s, p, n)
<1>2. p \in Int /\ n \in Int /\ n - p + 1 = n - m /\ (IF p <= n THEN n - p + 1 ELSE 0) = n - m
  OBVIOUS
<1>3. \A k \in 1 .. n - m : p + k - 1 = m + k
  OBVIOUS
<1>4. \A k \in p .. n : s[k] \in Byte
  BY <1>1
<1> HIDE DEF p
<1>5. /\ b \in Seq(Byte) /\ Len(b) = n - m
      /\ \A k \in 1 .. n - m : b[k] = s[p + k - 1]
  <2> HIDE DEF Byte
  <2> QED
    BY <1>2, <1>4, SubSeqProperties
<1> HIDE DEF b
<1>6. \A k \in 1 .. n - m : b[k] = s[m + k]
  BY <1>3, <1>5
<1> QED
  BY <1>5, <1>6 DEF b, p

\* The bytes of two sequences, one after the other.
LEMMA Joint ==
  ASSUME NEW s \in Seq(Byte), NEW q \in Seq(Byte)
  PROVE  /\ s \o q \in Seq(Byte) /\ Len(s \o q) = Len(s) + Len(q)
         /\ \A k \in 1 .. Len(s) : (s \o q)[k] = s[k]
         /\ \A k \in 1 .. Len(q) : (s \o q)[Len(s) + k] = q[k]
<1> DEFINE b == s \o q
<1>1. /\ b \in Seq(Byte) /\ Len(b) = Len(s) + Len(q)
      /\ \A i \in 1 .. Len(s) + Len(q) : b[i] = IF i <= Len(s) THEN s[i] ELSE q[i - Len(s)]
  BY ConcatProperties
<1> HIDE DEF b
<1>2. Len(s) \in Nat /\ Len(q) \in Nat
  BY LenProperties
<1>3. \A k \in 1 .. Len(s) : b[k] = s[k]
  BY <1>1, <1>2
<1>4. ASSUME NEW k \in 1 .. Len(q) PROVE b[Len(s) + k] = q[k]
  <2> DEFINE i == Len(s) + k
  <2>1. i \in 1 .. Len(s) + Len(q) /\ ~ (i <= Len(s)) /\ i - Len(s) = k
    BY <1>2
  <2> HIDE DEF i
  <2>2. b[i] = q[k]
    BY <1>1, <2>1
  <2> QED
    BY <2>2 DEF i
<1> QED
  BY <1>1, <1>3, <1>4 DEF b

\* What follows the first of two sequences is the second.
LEMMA SecondPart ==
  ASSUME NEW s \in Seq(Byte), NEW q \in Seq(Byte)
  PROVE  SubSeq(s \o q, Len(s) + 1, Len(s \o q)) = q
<1> DEFINE b == s \o q
           m == Len(s)
           n == Len(b)
<1>1. b \in Seq(Byte) /\ n = m + Len(q) /\ \A k \in 1 .. Len(q) : b[m + k] = q[k]
  BY Joint
<1>2. m \in Nat /\ n \in Nat /\ Len(q) \in Nat
  BY <1>1, LenProperties
<1> HIDE DEF b
<1>3. n = Len(b)
  OBVIOUS
<1> HIDE DEF m, n
<1>4. m <= n /\ n <= Len(b) /\ n - m = Len(q)
  BY <1>1, <1>2, <1>3
<1> DEFINE p == SubSeq(b, m + 1, n)
<1>5. p \in Seq(Byte) /\ Len(p) = Len(q) /\ \A k \in 1 .. Len(q) : p[k] = b[m + k]
  BY <1>1, <1>2, <1>4, Piece
<1> HIDE DEF p
<1>6. p = q
  BY <1>1, <1>5, SeqEqual
<1> QED
  BY <1>6 DEF p, b, m, n

\* The blocks of a payload after the vector, and the rest of the sample.
PayloadOf(B, sample) ==
  SubSeq(B, 17, Len(B)) \o SubSeq(sample, Len(B) - 15, Len(sample))

\* A payload is as long as its sample, of the blocks and then its rest.
LEMMA PayloadJoined ==
  ASSUME NEW sample \in Seq(Byte), NEW N \in Nat, N = Len(sample) \div 16,
         NEW B \in Seq(Byte), Len(B) = 16 * N + 16
  PROVE  LET P == PayloadOf(B, sample) IN
         /\ P \in Seq(Byte) /\ Len(P) = Len(sample)
         /\ \A k \in 1 .. 16 * N : P[k] = B[16 + k]
         /\ \A k \in 16 * N + 1 .. Len(sample) : P[k] = sample[k]
<1> DEFINE n == 16 * N
           b == SubSeq(B, 16 + 1, n + 16)
           r == SubSeq(sample, n + 1, Len(sample))
           P == b \o r
<1>1. n \in Nat /\ n + 16 \in Nat /\ 16 <= n + 16 /\ n <= Len(sample) /\ Len(sample) \in Nat
  BY LenProperties
<1>2. P = PayloadOf(B, sample)
  <2>1. 17 = 16 + 1 /\ Len(B) = n + 16 /\ Len(B) - 15 = n + 1
    OBVIOUS
  <2> HIDE DEF n
  <2> QED
    BY <2>1 DEF PayloadOf
<1>3. Len(B) = n + 16
  OBVIOUS
<1> HIDE DEF n
<1>4. b \in Seq(Byte) /\ Len(b) = n /\ \A k \in 1 .. n : b[k] = B[16 + k]
  <2>1. (n + 16) - 16 = n /\ 16 \in Nat
    BY <1>1
  <2> QED
    BY <1>1, <1>3, <2>1, Piece
<1>5. r \in Seq(Byte) /\ Len(r) = Len(sample) - n
      /\ \A k \in 1 .. Len(sample) - n : r[k] = sample[n + k]
  BY <1>1, Piece
<1> HIDE DEF b, r
<1>6. /\ P \in Seq(Byte) /\ Len(P) = Len(b) + Len(r)
      /\ \A k \in 1 .. Len(b) : P[k] = b[k]
      /\ \A k \in 1 .. Len(r) : P[Len(b) + k] = r[k]
  BY <1>4, <1>5, Joint
<1> HIDE DEF P
<1>7. Len(P) = Len(sample)
  BY <1>1, <1>4, <1>5, <1>6
<1>8. \A k \in 1 .. n : P[k] = B[16 + k]
  BY <1>4, <1>6
<1>9. ASSUME NEW k \in n + 1 .. Len(sample) PROVE P[k] = sample[k]
  <2> DEFINE j == k - n
  <2>1. j \in 1 .. Len(sample) - n /\ n + j = k
    BY <1>1
  <2> HIDE DEF j
  <2>2. P[n + j] = r[j] /\ r[j] = sample[n + j]
    BY <1>4, <1>5, <1>6, <2>1
  <2> QED
    BY <2>1, <2>2
<1>10. /\ P \in Seq(Byte) /\ Len(P) = Len(sample)
       /\ \A k \in 1 .. n : P[k] = B[16 + k]
       /\ \A k \in n + 1 .. Len(sample) : P[k] = sample[k]
  BY <1>6, <1>7, <1>8, <1>9
<1> QED
  BY <1>2, <1>10 DEF n

\* What a receiver checks of n blocks of a payload P of the chunk c, and of
\* the rest.
BlocksRead(P, c, vector, n, RK, nr) ==
  /\ \A i \in 1 .. n :
       Block(P, i) = Cipher(RK, nr, XorBytes(Block(c, i), Block(vector \o P, i)))
  /\ SubSeq(P, 16 * n + 1, Len(c)) = SubSeq(c, 16 * n + 1, Len(c))
PayloadReads(P, c, vector, RK, nr) ==
  Len(P) = Len(c) /\ BlocksRead(P, c, vector, Len(c) \div 16, RK, nr)

\* A payload P of the sample: N blocks of B after the vector, and the rest.
Continues(P, B, sample, N) ==
  /\ P \in Seq(Byte) /\ Len(P) = Len(sample)
  /\ \A k \in 1 .. 16 * N : P[k] = B[16 + k]
  /\ \A k \in 16 * N + 1 .. Len(sample) : P[k] = sample[k]

\* The vector before a payload.
LEMMA VectorFirst ==
  ASSUME NEW vector \in SixteenBytes, NEW P \in Seq(Byte)
  PROVE  LET C == vector \o P IN
         /\ C \in Seq(Byte) /\ Len(C) = 16 + Len(P)
         /\ \A k \in 1 .. 16 : C[k] = vector[k]
         /\ \A k \in 1 .. Len(P) : C[16 + k] = P[k]
<1> DEFINE C == vector \o P
<1>1. vector \in Seq(Byte) /\ Len(vector) = 16
  BY Sixteen
<1>2. /\ C \in Seq(Byte) /\ Len(C) = Len(vector) + Len(P)
      /\ \A k \in 1 .. Len(vector) : C[k] = vector[k]
      /\ \A k \in 1 .. Len(P) : C[Len(vector) + k] = P[k]
  BY <1>1, Joint
<1> HIDE DEF C
<1>3. /\ C \in Seq(Byte) /\ Len(C) = 16 + Len(P)
      /\ \A k \in 1 .. 16 : C[k] = vector[k]
      /\ \A k \in 1 .. Len(P) : C[16 + k] = P[k]
  BY <1>1, <1>2
<1> QED
  BY <1>3 DEF C

\* The block i of n is within as many bytes.
LEMMA WithinBlocks ==
  ASSUME NEW n \in Nat, NEW i \in 1 .. n
  PROVE  /\ i \in Nat \ {0} /\ i + 1 \in Nat \ {0}
         /\ 16 * i <= 16 * n /\ 16 * (i + 1) <= 16 * n + 16
         /\ 16 * i <= 16 * n + 16 /\ 16 * (i + 1) - 16 = 16 * i
         /\ \A t \in 1 .. 16 :
              /\ 16 * i - 16 + t \in 1 .. 16 * n
              /\ 16 + (16 * i - 16 + t) = 16 * (i + 1) - 16 + t
OBVIOUS

\* A block of the payload is the block after it of B.
LEMMA PayloadBlock ==
  ASSUME NEW n \in Nat, NEW i \in 1 .. n, NEW P \in Seq(Byte), NEW B \in Seq(Byte),
         16 * n <= Len(P), Len(B) = 16 * n + 16,
         \A k \in 1 .. 16 * n : P[k] = B[16 + k]
  PROVE  Block(P, i) = Block(B, i + 1)
<1>1. Len(P) \in Nat /\ Len(B) \in Nat
  BY LenProperties
<1>2. /\ i \in Nat \ {0} /\ i + 1 \in Nat \ {0}
      /\ 16 * i <= Len(P) /\ 16 * (i + 1) <= Len(B)
  BY <1>1, WithinBlocks
<1>3. \A t \in 1 .. 16 : P[16 * i - 16 + t] = B[16 * (i + 1) - 16 + t]
  <2> TAKE t \in 1 .. 16
  <2> DEFINE k == 16 * i - 16 + t
  <2>1. k \in 1 .. 16 * n /\ 16 + k = 16 * (i + 1) - 16 + t
    BY WithinBlocks
  <2> HIDE DEF k
  <2>2. P[k] = B[16 * (i + 1) - 16 + t]
    BY <2>1
  <2> QED
    BY <2>2 DEF k
<1> QED
  BY <1>2, <1>3, SameBlocks, ZenonT(60)

\* Two sequences with the same bytes up to n have the same blocks there.
LEMMA PrefixBlock ==
  ASSUME NEW n \in Nat, NEW i \in 1 .. n, NEW C \in Seq(Byte), NEW B \in Seq(Byte),
         16 * n <= Len(C), 16 * n <= Len(B),
         \A k \in 1 .. 16 * n : C[k] = B[k]
  PROVE  Block(C, i) = Block(B, i)
<1>1. Len(C) \in Nat /\ Len(B) \in Nat
  BY LenProperties
<1>2. i \in Nat \ {0} /\ 16 * i <= Len(C) /\ 16 * i <= Len(B)
  BY <1>1, WithinBlocks
<1>3. \A t \in 1 .. 16 : C[16 * i - 16 + t] = B[16 * i - 16 + t]
  <2> TAKE t \in 1 .. 16
  <2>1. 16 * i - 16 + t \in 1 .. 16 * n
    BY WithinBlocks
  <2> QED
    BY <2>1
<1> QED
  BY <1>2, <1>3, SameBlocks

\* Sequences with the same bytes after m have the same rest.
LEMMA SameRest ==
  ASSUME NEW P \in Seq(Byte), NEW s \in Seq(Byte), NEW m \in Nat, NEW n \in Nat,
         m <= n, n = Len(P), n = Len(s), \A k \in m + 1 .. n : P[k] = s[k]
  PROVE  SubSeq(P, m + 1, n) = SubSeq(s, m + 1, n)
<1> DEFINE p == SubSeq(P, m + 1, n)
           q == SubSeq(s, m + 1, n)
<1>1. n <= Len(P) /\ n <= Len(s)
  OBVIOUS
<1>2. p \in Seq(Byte) /\ Len(p) = n - m /\ \A k \in 1 .. n - m : p[k] = P[m + k]
  BY <1>1, Piece
<1>3. q \in Seq(Byte) /\ Len(q) = n - m /\ \A k \in 1 .. n - m : q[k] = s[m + k]
  BY <1>1, Piece
<1> HIDE DEF p, q
<1>4. \A k \in 1 .. n - m : p[k] = q[k]
  <2> TAKE k \in 1 .. n - m
  <2>1. m + k \in m + 1 .. n
    OBVIOUS
  <2> QED
    BY <1>2, <1>3, <2>1
<1>5. p = q
  BY <1>2, <1>3, <1>4, SeqEqual
<1> QED
  BY <1>5 DEF p, q

\* What the first N blocks of a payload were encrypted from, and its rest.
LEMMA PayloadChains ==
  ASSUME NEW vector \in SixteenBytes, NEW sample \in Seq(Byte), NEW N \in Nat,
         16 * N <= Len(sample), NEW RK, NEW nr, NEW B,
         Enciphered(B, vector, sample, N, RK, nr), NEW P,
         Continues(P, B, sample, N)
  PROVE  BlocksRead(P, sample, vector, N, RK, nr)
<1> DEFINE C == vector \o P
           m == 16 * N
           l == Len(sample)
<1>1. B \in Seq(Byte) /\ Len(B) = m + 16
  BY Zenon DEF Enciphered
<1>2. \A t \in 1 .. 16 : B[t] = vector[t]
  BY Zenon DEF Enciphered
<1>3. \A i \in 1 .. N : Block(B, i + 1) = Cipher(RK, nr, XorBytes(Block(sample, i), Block(B, i)))
  BY Zenon DEF Enciphered
<1>4. P \in Seq(Byte) /\ Len(P) = l
  BY Zenon DEF Continues
<1>5. \A k \in 1 .. m : P[k] = B[16 + k]
  BY Zenon DEF Continues
<1>6. \A k \in m + 1 .. l : P[k] = sample[k]
  BY Zenon DEF Continues
<1>7. l \in Nat /\ m \in Nat /\ m <= l
  BY LenProperties
<1>8. /\ C \in Seq(Byte) /\ Len(C) = 16 + l
      /\ \A k \in 1 .. 16 : C[k] = vector[k]
      /\ \A k \in 1 .. l : C[16 + k] = P[k]
  <2>1. /\ C \in Seq(Byte) /\ Len(C) = 16 + Len(P)
        /\ \A k \in 1 .. 16 : C[k] = vector[k]
        /\ \A k \in 1 .. Len(P) : C[16 + k] = P[k]
    BY <1>4, VectorFirst
  <2> HIDE DEF C, l
  <2> QED
    BY <1>4, <2>1
<1> HIDE DEF C, l
<1>9. \A k \in 1 .. m + 16 : C[k] = B[k]
  <2> HIDE DEF m
  <2> TAKE k \in 1 .. m + 16
  <2>1. CASE k <= 16
    <3>1. k \in 1 .. 16
      BY <1>7, <2>1
    <3> QED
      BY <1>2, <1>8, <3>1
  <2>2. CASE ~ (k <= 16)
    <3> DEFINE j == k - 16
    <3>1. j \in 1 .. m /\ 16 + j = k /\ j \in 1 .. l
      BY <1>7, <2>2
    <3> HIDE DEF j
    <3>2. C[16 + j] = P[j] /\ P[j] = B[16 + j]
      BY <1>5, <1>8, <3>1
    <3> QED
      BY <3>1, <3>2
  <2> QED
    BY <2>1, <2>2
<1>10. \A k \in 1 .. m : C[k] = B[k]
  <2> HIDE DEF m
  <2>1. \A k \in 1 .. m : k \in 1 .. m + 16
    BY <1>7
  <2> QED
    BY <1>9, <2>1
<1>11. m <= Len(C) /\ m <= Len(B) /\ m <= Len(P)
  BY <1>1, <1>4, <1>7, <1>8
<1>12. ASSUME NEW i \in 1 .. N
       PROVE  Block(P, i) = Cipher(RK, nr, XorBytes(Block(sample, i), Block(C, i)))
  <2>1. Block(C, i) = Block(B, i)
    BY <1>1, <1>8, <1>10, <1>11, PrefixBlock
  <2>2. Block(P, i) = Block(B, i + 1)
    BY <1>1, <1>4, <1>5, <1>11, PayloadBlock
  <2>3. Block(B, i + 1) = Cipher(RK, nr, XorBytes(Block(sample, i), Block(B, i)))
    BY <1>3
  <2> QED
    BY <2>1, <2>2, <2>3, Zenon
<1>13. SubSeq(P, m + 1, l) = SubSeq(sample, m + 1, l)
  <2> HIDE DEF m
  <2>1. l = Len(sample) /\ l = Len(P)
    BY <1>4 DEF l
  <2> QED
    BY <1>4, <1>6, <1>7, <2>1, SameRest
<1>14. \A i \in 1 .. N :
         Block(P, i) = Cipher(RK, nr, XorBytes(Block(sample, i), Block(C, i)))
  BY <1>12
<1> QED
  BY <1>13, <1>14, Zenon DEF C, m, l, BlocksRead

\* The payload of the blocks that Encrypt makes is read back.
LEMMA PayloadDecodes ==
  ASSUME NEW vector \in SixteenBytes, NEW sample \in Seq(Byte), NEW N \in Nat,
         N = Len(sample) \div 16, NEW RK, NEW nr, NEW B,
         Enciphered(B, vector, sample, N, RK, nr)
  PROVE  /\ PayloadReads(PayloadOf(B, sample), sample, vector, RK, nr)
         /\ PayloadOf(B, sample) \in Seq(Byte)
<1> DEFINE P == PayloadOf(B, sample)
<1>1. B \in Seq(Byte) /\ Len(B) = 16 * N + 16
  BY Zenon DEF Enciphered
<1>2. /\ P \in Seq(Byte) /\ Len(P) = Len(sample)
      /\ \A k \in 1 .. 16 * N : P[k] = B[16 + k]
      /\ \A k \in 16 * N + 1 .. Len(sample) : P[k] = sample[k]
  BY <1>1, PayloadJoined
<1> HIDE DEF P
<1>3. 16 * N <= Len(sample)
  BY LenProperties
<1>4. Continues(P, B, sample, N)
  BY <1>2, Zenon DEF Continues
<1>5. BlocksRead(P, sample, vector, N, RK, nr)
  BY <1>3, <1>4, PayloadChains, Zenon
<1>6. Len(sample) \div 16 = N
  OBVIOUS
<1>7. PayloadReads(P, sample, vector, RK, nr)
  BY <1>2, <1>5, <1>6, Zenon DEF PayloadReads
<1> QED
  BY <1>2, <1>7 DEF P

\* What a receiver that has the vector checks of a packet p of the chunk c.
PacketReads(p, c, vector, RK, nr) ==
  /\ p[1] = 36
  /\ 256 * p[3] + p[4] + 4 = Len(p)
  /\ PayloadReads(SubSeq(p, 17, Len(p)), c, vector, RK, nr)

\* The header of a packet of a length.
HeaderOf(length) ==
  <<36, 0, length \div 256, length % 256, 240, 255>> \o [i \in 1 .. 10 |-> 0]

\* The header, for the two bytes of a length.
LEMMA HeaderJoined ==
  ASSUME NEW d \in Byte, NEW e \in Byte
  PROVE  LET h == <<36, 0, d, e, 240, 255>> \o [i \in 1 .. 10 |-> 0] IN
         h \in Seq(Byte) /\ Len(h) = 16 /\ h[1] = 36 /\ h[3] = d /\ h[4] = e
<1> DEFINE a == <<36, 0, d, e, 240, 255>>
           b == [i \in 1 .. 10 |-> 0]
<1>1. 36 \in Byte /\ 0 \in Byte /\ 240 \in Byte /\ 255 \in Byte
  BY DEF Byte
<1>2. a \in Seq(Byte) /\ Len(a) = 6 /\ a[1] = 36 /\ a[3] = d /\ a[4] = e
  <2>1. a \in [1 .. 6 -> Byte] /\ a[1] = 36 /\ a[3] = d /\ a[4] = e
    BY <1>1
  <2> HIDE DEF a
  <2>2. 6 \in Nat
    OBVIOUS
  <2> QED
    BY <2>1, <2>2, AsSequence, ZenonT(60)
<1>3. b \in Seq(Byte) /\ Len(b) = 10
  <2>1. b \in [1 .. 10 -> Byte] /\ 10 \in Nat
    BY <1>1
  <2> HIDE DEF b
  <2> QED
    BY <2>1, AsSequence
<1> HIDE DEF a, b
<1> DEFINE h == a \o b
<1>4. /\ h \in Seq(Byte) /\ Len(h) = Len(a) + Len(b)
      /\ \A k \in 1 .. Len(a) : h[k] = a[k]
  BY <1>2, <1>3, Joint, ZenonT(60)
<1> HIDE DEF h
<1>5. h \in Seq(Byte) /\ Len(h) = 16 /\ h[1] = 36 /\ h[3] = d /\ h[4] = e
  BY <1>2, <1>3, <1>4
<1> QED
  BY <1>5 DEF h, a, b

\* The header is sixteen bytes that state the length.
LEMMA HeaderBytes ==
  ASSUME NEW length \in Lengths
  PROVE  LET h == HeaderOf(length) IN
         /\ h \in Seq(Byte) /\ Len(h) = 16
         /\ h[1] = 36 /\ 256 * h[3] + h[4] = length
<1> DEFINE h == HeaderOf(length)
           d == length \div 256
           e == length % 256
<1>1. d \in Byte /\ e \in Byte /\ 256 * d + e = length
  BY DEF Byte, Lengths, MaxLength
<1> HIDE DEF d, e
<1>2. h = <<36, 0, d, e, 240, 255>> \o [i \in 1 .. 10 |-> 0]
  BY DEF HeaderOf, d, e
<1> HIDE DEF h
<1>3. h \in Seq(Byte) /\ Len(h) = 16 /\ h[1] = 36 /\ h[3] = d /\ h[4] = e
  BY <1>1, <1>2, HeaderJoined
<1>4. h \in Seq(Byte) /\ Len(h) = 16 /\ h[1] = 36 /\ 256 * h[3] + h[4] = length
  BY <1>1, <1>3
<1> QED
  BY <1>4 DEF h

\* The two parts of a payload are bytes.
LEMMA PayloadParts ==
  ASSUME NEW sample \in Seq(Byte), NEW N \in Nat, N = Len(sample) \div 16, NEW vector,
         NEW RK, NEW nr, NEW B, Enciphered(B, vector, sample, N, RK, nr)
  PROVE  /\ SubSeq(B, 17, Len(B)) \in Seq(Byte)
         /\ SubSeq(sample, Len(B) - 15, Len(sample)) \in Seq(Byte)
<1> DEFINE n == 16 * N
<1>1. B \in Seq(Byte) /\ Len(B) = n + 16
  BY Zenon DEF Enciphered
<1>2. n \in Nat /\ n + 16 \in Nat /\ 16 <= n + 16 /\ n <= Len(sample) /\ Len(sample) \in Nat
  BY LenProperties
<1> HIDE DEF n
<1>3. SubSeq(B, 16 + 1, n + 16) \in Seq(Byte)
  <2>1. 16 \in Nat /\ n + 16 <= Len(B)
    BY <1>1, <1>2
  <2> QED
    BY <1>1, <1>2, <2>1, Piece
<1>4. SubSeq(sample, n + 1, Len(sample)) \in Seq(Byte)
  BY <1>2, Piece
<1>5. 16 + 1 = 17 /\ Len(B) - 15 = n + 1
  BY <1>1, <1>2
<1> QED
  BY <1>1, <1>3, <1>4, <1>5, Zenon

\* A number of two bytes is its remainder.
LEMMA SmallRemainder ==
  ASSUME NEW x \in Nat, x <= 65535
  PROVE  x % 65536 = x
<1>1. x \div 65536 = 0
  OBVIOUS
<1> QED
  BY <1>1

\* A header states the whole length.
LEMMA LengthStated ==
  ASSUME NEW length \in Lengths
  PROVE  HeaderOf(length % 65536) = HeaderOf(length)
<1>1. length % 65536 = length
  <2>1. length \in Nat /\ length <= 65535
    BY DEF Lengths, MaxLength
  <2> QED
    BY <2>1, SmallRemainder, SMTT(60)
<1> QED
  BY <1>1

\* What the variables of a packet are set to, in a length of two bytes.
LEMMA PacketMade ==
  ASSUME NEW sample, Len(sample) + 12 \in Lengths, SendSample(sample),
         NEW B, B = Chained(iv, sample), NEW h, h = HeaderOf(Len(sample) + 12)
  PROVE  packet' = (h \o SubSeq(B, 17, Len(B))) \o SubSeq(sample, Len(B) - 15, Len(sample))
<1>1. PICK g : g = HeaderOf((Len(sample) + 12) % 65536)
  OBVIOUS
<1>2. packet' = (g \o SubSeq(B, 17, Len(B))) \o SubSeq(sample, Len(B) - 15, Len(sample))
  BY <1>1 DEF SendSample, Vector, HeaderOf
<1>3. g = h
  BY <1>1, LengthStated
<1> QED
  BY <1>2, <1>3, Zenon

\* The parts of a packet can be put together in any order.
LEMMA PartsJoined ==
  ASSUME NEW h \in Seq(Byte), NEW b \in Seq(Byte), NEW r \in Seq(Byte)
  PROVE  (h \o b) \o r = h \o (b \o r)
BY ConcatAssociative

\* A packet of a header and a payload.
LEMMA PacketJoined ==
  ASSUME NEW h \in Seq(Byte), Len(h) = 16, NEW P \in Seq(Byte)
  PROVE  /\ h \o P \in Seq(Byte) /\ Len(h \o P) = 16 + Len(P)
         /\ (h \o P)[1] = h[1] /\ (h \o P)[3] = h[3] /\ (h \o P)[4] = h[4]
         /\ SubSeq(h \o P, 17, Len(h \o P)) = P
<1> DEFINE q == h \o P
<1>1. q \in Seq(Byte) /\ Len(q) = Len(h) + Len(P)
  BY Joint
<1>2. \A k \in 1 .. Len(h) : q[k] = h[k]
  BY Joint
<1>3. SubSeq(q, Len(h) + 1, Len(q)) = P
  BY SecondPart
<1> HIDE DEF q
<1>4. 1 \in 1 .. Len(h) /\ 3 \in 1 .. Len(h) /\ 4 \in 1 .. Len(h) /\ Len(h) + 1 = 17
  OBVIOUS
<1>5. q[1] = h[1] /\ q[3] = h[3] /\ q[4] = h[4]
  BY <1>2, <1>4
<1>6. SubSeq(q, 17, Len(q)) = P
  BY <1>3, <1>4, Zenon
<1>7. q \in Seq(Byte) /\ Len(q) = 16 + Len(P)
  BY <1>1
<1> QED
  BY <1>5, <1>6, <1>7 DEF q

\* The packet SendSample makes of a sample is read back: it states its
\* length, and its payload continues from the session's vector.
LEMMA PacketSent ==
  ASSUME NEW sample \in Seq(Byte), Len(sample) + 12 \in Lengths, iv \in SixteenBytes,
         KeysAgree(ctx.erk, ctx.nr), SendSample(sample)
  PROVE  PacketReads(packet', sample, iv, ctx.erk, ctx.nr)
<1>1. PICK N \in Nat : N = Len(sample) \div 16
  BY LenProperties
<1>2. PICK B : B = Chained(iv, sample)
  OBVIOUS
<1>3. PICK h : h = HeaderOf(Len(sample) + 12)
  OBVIOUS
<1>4. PICK b : b = SubSeq(B, 17, Len(B))
  OBVIOUS
<1>5. PICK r : r = SubSeq(sample, Len(B) - 15, Len(sample))
  OBVIOUS
<1>6. Enciphered(B, iv, sample, N, ctx.erk, ctx.nr)
  BY <1>1, <1>2, ChainedBlocks
<1>7. b \o r = PayloadOf(B, sample)
  BY <1>4, <1>5, Zenon DEF PayloadOf
<1>8. packet' = (h \o b) \o r
  BY <1>2, <1>3, <1>4, <1>5, PacketMade
<1>9. PayloadReads(b \o r, sample, iv, ctx.erk, ctx.nr) /\ b \o r \in Seq(Byte)
  <2>1. /\ PayloadReads(PayloadOf(B, sample), sample, iv, ctx.erk, ctx.nr)
        /\ PayloadOf(B, sample) \in Seq(Byte)
    BY <1>1, <1>6, PayloadDecodes
  <2> QED
    BY <1>7, <2>1, Zenon
<1>10. h \in Seq(Byte) /\ Len(h) = 16 /\ h[1] = 36 /\ 256 * h[3] + h[4] = Len(sample) + 12
  BY <1>3, HeaderBytes
<1>11. b \in Seq(Byte) /\ r \in Seq(Byte)
  BY <1>1, <1>4, <1>5, <1>6, PayloadParts
<1>12. packet' = h \o (b \o r)
  <2>1. (h \o b) \o r = h \o (b \o r)
    BY <1>10, <1>11, PartsJoined
  <2> QED
    BY <1>8, <2>1, Zenon
<1>13. PICK P : P = b \o r
  OBVIOUS
<1>14. /\ PayloadReads(P, sample, iv, ctx.erk, ctx.nr) /\ P \in Seq(Byte) /\ packet' = h \o P
  BY <1>9, <1>12, <1>13, Zenon
<1>15. Len(P) = Len(sample)
  BY <1>14, Zenon DEF PayloadReads
<1>16. PICK p : p = packet'
  OBVIOUS
<1>17. /\ p \in Seq(Byte) /\ Len(p) = 16 + Len(P)
       /\ p[1] = h[1] /\ p[3] = h[3] /\ p[4] = h[4]
       /\ SubSeq(p, 17, Len(p)) = P
  <2>1. /\ h \o P \in Seq(Byte) /\ Len(h \o P) = 16 + Len(P)
        /\ (h \o P)[1] = h[1] /\ (h \o P)[3] = h[3] /\ (h \o P)[4] = h[4]
        /\ SubSeq(h \o P, 17, Len(h \o P)) = P
    BY <1>10, <1>14, PacketJoined
  <2> QED
    BY <1>14, <1>16, <2>1, Zenon
<1>18. 256 * p[3] + p[4] + 4 = Len(p) /\ p[1] = 36
  BY <1>10, <1>15, <1>17, LenProperties
<1> QED
  BY <1>14, <1>16, <1>17, <1>18, Zenon DEF PacketReads

-----------------------------------------------------------------------------
(* Every packet of every song.                                             *)

\* The tables are made once; a session's key schedule is its key's; the
\* description of a session holds the text of its vector.
SessionInv ==
  /\ tables = <<>> \/ tables.FT = FT
  /\ pc # "closed" => /\ tables.FT = FT
                      /\ key \in SixteenBytes /\ iv \in SixteenBytes
                      /\ ctx.nr = Rounds(key) /\ ctx.erk = erk(key)
  /\ pc \in {"connected", "started", "sent", "ended"} =>
       aesiv = RemoveCharFromString(Base64Encode(iv), Pad)

\* What is encrypted fits into a packet.
Fits(sample) == sample \in Seq(Byte) /\ Len(sample) + 12 \in Lengths
ChunkReady == pc \in {"sent", "ended"} => Fits(chunk)

PacketInv == LayoutInv /\ SessionInv /\ ChunkReady /\ PacketDecodes

\* A player that has no session holds no packet.
LEMMA PacketInit == Init => PacketInv
<1> SUFFICES ASSUME Init PROVE PacketInv
  OBVIOUS
<1>1. pc = "closed" /\ tables = <<>>
  BY DEF Init
<1> QED
  BY <1>1, LayoutInit DEF PacketInv, SessionInv, ChunkReady, PacketDecodes

\* Open makes the key schedule of the key it chooses, of sixteen bytes.
LEMMA PacketOpen == PacketInv /\ Open => PacketInv'
<1> SUFFICES ASSUME PacketInv, Open PROVE PacketInv'
  OBVIOUS
<1>1. PICK s \in Sessions : /\ key' = s[1] /\ iv' = s[2] /\ MakeTables
                            /\ ctx' = [nr |-> Rounds(s[1]), erk |-> erk(s[1])]
  BY Zenon DEF Open
<1>2. pc' = "opened"
  BY DEF Open
<1>3. s[1] \in SixteenBytes /\ s[2] \in SixteenBytes
  <2>1. Sessions \subseteq SixteenBytes \X SixteenBytes
    BY ConstantsAssumption, Zenon DEF SixteenBytes
  <2> QED
    BY <1>1, <2>1
<1>4. ctx'.nr = Rounds(key') /\ ctx'.erk = erk(key')
  BY <1>1
<1>5. tables'.FT = FT
  BY <1>1 DEF MakeTables, PacketInv, SessionInv
<1>6. SessionInv'
  BY <1>1, <1>2, <1>3, <1>4, <1>5, Zenon DEF SessionInv
<1>7. PacketDecodes' /\ ChunkReady'
  BY <1>2, Zenon DEF PacketDecodes, ChunkReady
<1> QED
  BY <1>6, <1>7, LayoutOpen DEF PacketInv

\* Connect makes the text of the vector, Start neither packet nor session.
LEMMA PacketOther ==
  PacketInv /\ (Connect \/ Start) => PacketInv'
<1> SUFFICES ASSUME PacketInv, Connect \/ Start PROVE PacketInv'
  OBVIOUS
<1>1. LayoutInv'
  BY LayoutOther DEF PacketInv
<1>2. CASE Connect
  <2>1. /\ pc = "opened" /\ pc' = "connected"
        /\ aesiv' = RemoveCharFromString(Base64Encode(iv), Pad)
        /\ tables' = tables /\ key' = key /\ iv' = iv /\ ctx' = ctx
    BY <1>2, Zenon DEF Connect
  <2>2. SessionInv'
    BY <2>1, Zenon DEF SessionInv, PacketInv
  <2>3. PacketDecodes' /\ ChunkReady'
    BY <2>1, Zenon DEF PacketDecodes, ChunkReady
  <2> QED
    BY <1>1, <2>2, <2>3 DEF PacketInv
<1>3. CASE Start
  <2>1. /\ pc \in {"connected", "started", "sent", "ended"} /\ pc' = "started"
        /\ tables' = tables /\ key' = key /\ iv' = iv /\ ctx' = ctx /\ aesiv' = aesiv
    BY <1>3, Zenon DEF Start, session
  <2>2. SessionInv'
    BY <2>1, Zenon DEF SessionInv, PacketInv
  <2>3. PacketDecodes' /\ ChunkReady'
    BY <2>1, Zenon DEF PacketDecodes, ChunkReady
  <2> QED
    BY <1>1, <2>2, <2>3 DEF PacketInv
<1> QED
  BY <1>2, <1>3

\* Two bytes can state the length of every chunk's packet.
LEMMA ChunkStated ==
  ASSUME NEW l \in Nat, l <= 3 + 4 * FullChunk
  PROVE  l + 12 \in Lengths
<1>1. MaxLength \in Nat
  BY DEF MaxLength
<1>2. FullChunk \in Nat /\ 4 * FullChunk + 15 \in Lengths
  BY ConstantsAssumption
<1>3. 4 * FullChunk + 15 <= MaxLength
  BY <1>1, <1>2 DEF Lengths
<1> QED
  BY <1>1, <1>2, <1>3 DEF Lengths

\* Whatever fits into a packet is read back from it, in a session that has
\* been described.
LEMMA SampleSent ==
  ASSUME NEW sample, Fits(sample), SendSample(sample), SessionInv,
         pc \in {"connected", "started", "sent", "ended"}
  PROVE  PacketReads(packet', sample, SubSeq(Octets(Bits(aesiv, 6)), 1, 16), ctx.erk, ctx.nr)
<1>1. /\ key \in SixteenBytes /\ iv \in SixteenBytes /\ tables.FT = FT
      /\ ctx.nr = Rounds(key) /\ ctx.erk = erk(key)
      /\ aesiv = RemoveCharFromString(Base64Encode(iv), Pad)
  BY DEF SessionInv
<1>2. KeysAgree(ctx.erk, ctx.nr)
  <2>1. KeyOf(key, 4)
    BY <1>1 DEF KeyOf, SixteenBytes
  <2>2. ASSUME NEW input \in SixteenBytes
        PROVE  /\ AesEncrypt(erk(key), Rounds(key), input) = Cipher(erk(key), Rounds(key), input)
               /\ AesEncrypt(erk(key), Rounds(key), input) \in SixteenBytes
    <3>1. input \in [1 .. 16 -> Byte]
      BY Zenon DEF SixteenBytes
    <3>2. /\ AesEncrypt(erk(key), Rounds(key), input) = Cipher(erk(key), Rounds(key), input)
          /\ AesEncrypt(erk(key), Rounds(key), input) \in [1 .. 16 -> Byte]
      BY <1>1, <2>1, <3>1, CiphersAgree
    <3> QED
      BY <3>2, Zenon DEF SixteenBytes
  <2>3. KeysAgree(erk(key), Rounds(key))
    BY <2>2, Zenon DEF KeysAgree
  <2> QED
    BY <1>1, <2>3, Zenon
<1>3. PacketReads(packet', sample, iv, ctx.erk, ctx.nr)
  BY <1>1, <1>2, PacketSent DEF Fits
<1>4. iv = SubSeq(Octets(Bits(aesiv, 6)), 1, 16)
  <2>1. iv \in [1 .. 16 -> Byte]
    BY <1>1, Zenon DEF SixteenBytes
  <2> QED
    BY <1>1, <2>1, VectorRead, Zenon
<1> QED
  BY <1>3, <1>4, Zenon

\* The next chunk of a song fits into a packet.
LEMMA NextFits ==
  ASSUME PacketInv, GetNextSample
  PROVE  Fits(chunk') /\ pc' \in {"sent", "ended"}
<1> DEFINE L == 4 * FullChunk + 16
<1>1. PICK w : w = WritePCM(buffer, FullChunk, song)
  OBVIOUS
<1>2. pc' \in {"sent", "ended"} /\ chunk' = w.data
  BY <1>1, Zenon DEF GetNextSample
<1>3. /\ FullChunk \in Nat /\ L \in Nat /\ 7 + 4 * FullChunk <= L
      /\ FullChunk # FullChunk => FullChunk < 2^30
  BY ConstantsAssumption
<1>4. song \in Seq(Frame) /\ buffer \in [1 .. L -> Byte]
  BY Zenon DEF PacketInv, LayoutInv, PacketsType
<1> HIDE DEF L
<1>5. LaidOut(w, song, FullChunk, L)
  BY <1>1, <1>3, <1>4, ChunkLaidOut, Zenon
<1>6. w.data \in Seq(Byte) /\ Len(w.data) <= 3 + 4 * FullChunk
  BY <1>5, Zenon DEF LaidOut
<1>7. Len(w.data) \in Nat
  BY <1>6, LenProperties
<1>8. Len(w.data) + 12 \in Lengths
  BY <1>6, <1>7, ChunkStated
<1> QED
  BY <1>2, <1>6, <1>8, Zenon DEF Fits

\* A chunk that is sent again fitted before.
LEMMA SameFits ==
  ASSUME PacketInv, SameSample
  PROVE  Fits(chunk') /\ pc' \in {"sent", "ended"}
BY DEF PacketInv, ChunkReady, SameSample

\* SendChunk sends a packet that is read back, also when it is made anew.
LEMMA PacketSend == PacketInv /\ SendChunk => PacketInv'
<1> SUFFICES ASSUME PacketInv, SendChunk PROVE PacketInv'
  OBVIOUS
<1>1. LayoutInv'
  BY LayoutSend DEF PacketInv
<1>2. /\ pc \in {"started", "sent"} /\ SendSample(chunk')
      /\ tables' = tables /\ key' = key /\ iv' = iv /\ ctx' = ctx /\ aesiv' = aesiv
  BY Zenon DEF SendChunk, session
<1>3. Fits(chunk') /\ pc' \in {"sent", "ended"}
  BY NextFits, SameFits, Zenon DEF SendChunk
<1>4. PICK sample : sample = chunk'
  OBVIOUS
<1>5. PacketReads(packet', sample, SubSeq(Octets(Bits(aesiv, 6)), 1, 16), ctx.erk, ctx.nr)
  BY <1>2, <1>3, <1>4, SampleSent DEF PacketInv
<1>6. PacketReads(packet', chunk', SubSeq(Octets(Bits(aesiv', 6)), 1, 16), ctx'.erk, ctx'.nr)
  BY <1>2, <1>4, <1>5, Zenon
<1>7. PacketDecodes'
  BY <1>6, Zenon DEF PacketReads, PayloadReads, BlocksRead, PacketDecodes
<1>8. SessionInv'
  BY <1>2, Zenon DEF SessionInv, PacketInv
<1> QED
  BY <1>1, <1>3, <1>7, <1>8, Zenon DEF PacketInv, ChunkReady

\* A step that changes nothing.
LEMMA PacketStutter == PacketInv /\ UNCHANGED vars => PacketInv'
<1> SUFFICES ASSUME PacketInv, UNCHANGED vars PROVE PacketInv'
  OBVIOUS
<1>1. LayoutInv'
  BY LayoutOther DEF PacketInv
<1>2. /\ pc' = pc /\ tables' = tables /\ key' = key /\ iv' = iv /\ ctx' = ctx
      /\ aesiv' = aesiv /\ chunk' = chunk /\ packet' = packet
  BY Zenon DEF vars
<1>3. SessionInv'
  BY <1>2, Zenon DEF SessionInv, PacketInv
<1>4. PacketDecodes' /\ ChunkReady'
  BY <1>2, Zenon DEF PacketDecodes, ChunkReady, PacketInv
<1> QED
  BY <1>1, <1>3, <1>4 DEF PacketInv

\* Every packet of every song can be read by an AirPort that knows the key
\* and the description of the session: for every key, vector, song and
\* number of samples in a chunk, SendSample, Encrypt and AesEncrypt make a
\* packet that states its length, and whose payload is the chunk in cipher
\* block chaining after the vector of the session, whatever was sent before.
THEOREM PacketsDecode == Spec => []PacketDecodes
<1>1. Init => PacketInv
  BY PacketInit
<1>2. PacketInv /\ [Next]_vars => PacketInv'
  BY PacketOpen, PacketOther, PacketSend, PacketStutter DEF Next
<1>3. PacketInv => PacketDecodes
  BY DEF PacketInv
<1> QED
  BY <1>1, <1>2, <1>3, PTL DEF Spec

-----------------------------------------------------------------------------
(* The texts of Base64Encode and the bytes of Base64Decode.                *)

\* TokenDecode takes a group with up to two characters of padding.
LEMMA TokenDecoded ==
  ASSUME NEW token, NEW m \in 0 .. 2, Len(token) = 4,
         \A i \in 1 .. 4 : token[i] = 64 <=> i > 4 - m
  PROVE  LET At(i) == IF i > 4 - m THEN 0 ELSE token[i] IN
         TokenDecode(token) =
           {[marker |-> m, val |-> 64 * (64 * (64 * At(1) + At(2)) + At(3)) + At(4)]}
<1> DEFINE At(i) == IF i > 4 - m THEN 0 ELSE token[i]
           marks == Cardinality({i \in 1 .. Len(token) : token[i] = Pad})
           Of(i) == IF token[i] = Pad THEN 0 ELSE token[i]
<1>1. {i \in 1 .. Len(token) : token[i] = Pad} = 5 - m .. 4
  BY DEF Pad
<1>2. marks = m
  <2>1. Cardinality(5 - m .. 4) = m
    <3>1. 5 - m \in Int /\ 4 \in Int /\ (IF 5 - m > 4 THEN 0 ELSE 4 - (5 - m) + 1) = m
      OBVIOUS
    <3> QED
      BY <3>1, FS_Interval
  <2> QED
    BY <1>1, <2>1, Zenon
<1>3. /\ Of(1) = At(1) /\ Of(2) = At(2) /\ Of(3) = At(3) /\ Of(4) = At(4)
  BY DEF Pad
<1>4. ~ (Len(token) < 4) /\ ~ (m > 2) /\ ~ \E i \in 5 - m .. 4 : token[i] # Pad
  BY DEF Pad
<1>5. TokenDecode(token) =
        IF Len(token) < 4 \/ marks > 2 \/ \E i \in 5 - marks .. 4 : token[i] # Pad
        THEN {}
        ELSE {[marker |-> marks, val |-> 64 * (64 * (64 * Of(1) + Of(2)) + Of(3)) + Of(4)]}
  BY Zenon DEF TokenDecode
<1> HIDE DEF marks, Of, At
<1>6. TokenDecode(token) =
        {[marker |-> m, val |-> 64 * (64 * (64 * At(1) + At(2)) + At(3)) + At(4)]}
  BY <1>2, <1>3, <1>4, <1>5
<1> QED
  BY <1>6 DEF At

\* The three bytes of a value.
ThreeBytes(c) == <<c \div 65536, (c \div 256) % 256, c % 256>>

\* Four characters of six bits are three bytes.
LEMMA SixBitsJoined ==
  ASSUME NEW a \in Byte, NEW b \in Byte, NEW d \in Byte
  PROVE  LET c == 64 * (64 * (64 * (a \div 4) + (16 * (a % 4) + (b \div 16)))
                        + (4 * (b % 16) + (d \div 64))) + (d % 64)
         IN ThreeBytes(c) = <<a, b, d>>
<1> DEFINE c == 64 * (64 * (64 * (a \div 4) + (16 * (a % 4) + (b \div 16)))
                      + (4 * (b % 16) + (d \div 64))) + (d % 64)
<1>1. a \in Nat /\ b \in Nat /\ d \in Nat /\ a < 256 /\ b < 256 /\ d < 256
  BY DEF Byte
<1>2. c = 65536 * a + 256 * b + d
  <2>1. a = 4 * (a \div 4) + (a % 4)
    BY <1>1
  <2>2. b = 16 * (b \div 16) + (b % 16)
    BY <1>1
  <2>3. d = 64 * (d \div 64) + (d % 64)
    BY <1>1
  <2>4. /\ a \div 4 \in Nat /\ a % 4 \in Nat /\ b \div 16 \in Nat /\ b % 16 \in Nat
        /\ d \div 64 \in Nat /\ d % 64 \in Nat
    BY <1>1
  <2> QED
    BY <2>1, <2>2, <2>3, <2>4
<1> HIDE DEF c
<1>3. c \div 65536 = a
  BY <1>1, <1>2
<1>4. (c \div 256) % 256 = b
  <2>1. c \div 256 = 256 * a + b
    BY <1>1, <1>2
  <2> QED
    BY <1>1, <2>1
<1>5. c % 256 = d
  BY <1>1, <1>2
<1>6. ThreeBytes(c) = <<a, b, d>>
  BY <1>3, <1>4, <1>5 DEF ThreeBytes
<1> QED
  BY <1>6 DEF c

\* The number of bytes after t groups, and of padding in the last of them.
After3(data, t) == IF 3 * t <= Len(data) THEN 3 * t ELSE Len(data)
Missing(data, t) == 3 * t - After3(data, t)

\* A group has the value c, with m characters of padding.
OneValue(token, m, c) == TokenDecode(token) = {[marker |-> m, val |-> c]}

\* c is the value of the t-th group and states its bytes.
GroupValue(data, token, t, c) ==
  /\ OneValue(token, Missing(data, t), c)
  /\ ThreeBytes(c) = <<Padded(data, 3 * t - 2), Padded(data, 3 * t - 1), Padded(data, 3 * t)>>

\* The t-th group is decoded to its bytes.
LEMMA GroupDecoded ==
  ASSUME NEW data \in Seq(Byte), NEW g \in Nat, g = (Len(data) + 2) \div 3,
         NEW E \in [1 .. 4 * g -> 0 .. 64], NEW t \in 1 .. g, TextGroup(data, t - 1, E)
  PROVE  \E c : GroupValue(data, SubSeq(E, 4 * t - 3, 4 * t), t, c)
<1> DEFINE token == SubSeq(E, 4 * t - 3, 4 * t)
           m == Missing(data, t)
           n == Len(data)
           a == Padded(data, 3 * t - 2)
           b == Padded(data, 3 * t - 1)
           d == Padded(data, 3 * t)
           At(i) == IF i > 4 - m THEN 0 ELSE token[i]
<1>1. n \in Nat
  BY LenProperties
<1>2. a \in Byte /\ b \in Byte /\ d \in Byte
  <2>1. 3 * t - 2 \in Nat \ {0} /\ 3 * t - 1 \in Nat \ {0} /\ 3 * t \in Nat \ {0}
    OBVIOUS
  <2> QED
    BY <2>1, PaddedBytes
<1>3. /\ m \in 0 .. 2 /\ (m = 2 <=> 3 * t - 1 > n) /\ (m >= 1 <=> 3 * t > n)
      /\ (m = 2 => 3 * t - 1 > n /\ 3 * t > n) /\ (m >= 1 => 3 * t > n)
  BY <1>1 DEF Missing, After3
<1>4. Len(token) = 4 /\ \A i \in 1 .. 4 : token[i] = E[4 * t - 4 + i]
  <2>2. /\ 4 * t - 3 \in Int /\ 4 * t \in Int /\ 4 * t - (4 * t - 3) + 1 = 4
        /\ 4 * t - 3 <= 4 * t /\ \A i \in 1 .. 4 : (4 * t - 3) + i - 1 = 4 * t - 4 + i
        /\ \A i \in 4 * t - 3 .. 4 * t : i \in 1 .. 4 * g
    OBVIOUS
  <2>3. \A i \in 4 * t - 3 .. 4 * t : E[i] \in 0 .. 64
    BY <2>2
  <2> DEFINE k == 4 * t - 3
             l == 4 * t
  <2>4. /\ k \in Int /\ l \in Int /\ (IF k <= l THEN l - k + 1 ELSE 0) = 4
        /\ \A i \in 1 .. 4 : k + i - 1 = 4 * t - 4 + i
    BY <2>2
  <2>5. Len(SubSeq(E, k, l)) = 4 /\ \A i \in 1 .. 4 : SubSeq(E, k, l)[i] = E[k + i - 1]
    <3> DEFINE S == 0 .. 64
    <3>1. \A i \in k .. l : E[i] \in S
      BY <2>3
    <3> HIDE DEF k, l, S
    <3> QED
      BY <2>4, <3>1, SubSeqProperties
  <2> QED
    BY <2>4, <2>5
<1> HIDE DEF token
<1>5. /\ E[4 * t - 3] = a \div 4
      /\ E[4 * t - 2] = 16 * (a % 4) + (b \div 16)
      /\ E[4 * t - 1] = IF 3 * t - 1 > n THEN 64 ELSE 4 * (b % 16) + (d \div 64)
      /\ E[4 * t] = IF 3 * t > n THEN 64 ELSE d % 64
  <2>1. /\ 3 * (t - 1) + 1 = 3 * t - 2 /\ 3 * (t - 1) + 2 = 3 * t - 1
        /\ 3 * (t - 1) + 3 = 3 * t /\ 4 * (t - 1) + 1 = 4 * t - 3
        /\ 4 * (t - 1) + 2 = 4 * t - 2 /\ 4 * (t - 1) + 3 = 4 * t - 1
        /\ 4 * (t - 1) + 4 = 4 * t
    OBVIOUS
  <2> QED
    BY <2>1 DEF TextGroup
<1>6. /\ token[1] = E[4 * t - 3] /\ token[2] = E[4 * t - 2]
      /\ token[3] = E[4 * t - 1] /\ token[4] = E[4 * t]
  <2>1. /\ 4 * t - 4 + 1 = 4 * t - 3 /\ 4 * t - 4 + 2 = 4 * t - 2
        /\ 4 * t - 4 + 3 = 4 * t - 1 /\ 4 * t - 4 + 4 = 4 * t
    OBVIOUS
  <2> QED
    BY <1>4, <2>1
<1>7. (3 * t - 1 > n => b = 0) /\ (3 * t > n => d = 0)
  BY <1>1 DEF Padded
<1> HIDE DEF m, n, a, b, d
<1>8. /\ a \div 4 \in 0 .. 63 /\ 16 * (a % 4) + (b \div 16) \in 0 .. 63
      /\ 4 * (b % 16) + (d \div 64) \in 0 .. 63 /\ d % 64 \in 0 .. 63
      /\ (b = 0 /\ d = 0 => 4 * (b % 16) + (d \div 64) = 0) /\ (d = 0 => d % 64 = 0)
  <2>1. a \div 4 \in 0 .. 63
    BY <1>2 DEF Byte
  <2>2. 16 * (a % 4) + (b \div 16) \in 0 .. 63
    <3>1. a % 4 \in 0 .. 3 /\ b \div 16 \in 0 .. 15
      BY <1>2 DEF Byte
    <3>2. \A u \in 0 .. 3, v \in 0 .. 15 : 16 * u + v \in 0 .. 63
      OBVIOUS
    <3> QED
      BY <3>1, <3>2, Zenon
  <2>3. 4 * (b % 16) + (d \div 64) \in 0 .. 63
    <3>1. b % 16 \in 0 .. 15 /\ d \div 64 \in 0 .. 3
      BY <1>2 DEF Byte
    <3>2. \A u \in 0 .. 15, v \in 0 .. 3 : 4 * u + v \in 0 .. 63
      OBVIOUS
    <3> QED
      BY <3>1, <3>2, Zenon
  <2>4. d % 64 \in 0 .. 63
    BY <1>2 DEF Byte
  <2>5. 0 % 16 = 0 /\ 0 \div 64 = 0 /\ 0 % 64 = 0
    OBVIOUS
  <2> QED
    BY <2>1, <2>2, <2>3, <2>4, <2>5
<1>9. /\ At(1) = a \div 4 /\ At(2) = 16 * (a % 4) + (b \div 16)
      /\ At(3) = 4 * (b % 16) + (d \div 64) /\ At(4) = d % 64
  BY <1>3, <1>5, <1>6, <1>7, <1>8
<1>10. \A i \in 1 .. 4 : token[i] = 64 <=> i > 4 - m
  <2> HIDE DEF At
  <2> DEFINE p == a \div 4
             q == 16 * (a % 4) + (b \div 16)
             r == 4 * (b % 16) + (d \div 64)
             s == d % 64
  <2>1. p \in 0 .. 63 /\ q \in 0 .. 63 /\ r \in 0 .. 63 /\ s \in 0 .. 63
    BY <1>8, Zenon
  <2>6. /\ token[1] = p /\ token[2] = q
        /\ token[3] = IF 3 * t - 1 > n THEN 64 ELSE r
        /\ token[4] = IF 3 * t > n THEN 64 ELSE s
    BY <1>5, <1>6
  <2> HIDE DEF p, q, r, s
  <2>7. p # 64 /\ q # 64 /\ r # 64 /\ s # 64
    <3>1. \A x \in 0 .. 63 : x # 64
      OBVIOUS
    <3> QED
      BY <2>1, <3>1, Zenon
  <2>2. token[1] # 64 /\ token[2] # 64
    BY <2>6, <2>7, Zenon
  <2>3. (token[3] = 64 <=> 3 * t - 1 > n) /\ (token[4] = 64 <=> 3 * t > n)
    BY <2>6, <2>7, Zenon
  <2>4. /\ ~ (1 > 4 - m) /\ ~ (2 > 4 - m)
        /\ (3 > 4 - m <=> m = 2) /\ (4 > 4 - m <=> m >= 1)
    BY <1>3
  <2>5. \A i \in 1 .. 4 : i = 1 \/ i = 2 \/ i = 3 \/ i = 4
    OBVIOUS
  <2> QED
    BY <1>3, <2>2, <2>3, <2>4, <2>5, Zenon
<1> DEFINE c == 64 * (64 * (64 * At(1) + At(2)) + At(3)) + At(4)
<1>11. TokenDecode(token) = {[marker |-> m, val |-> c]}
  BY <1>3, <1>4, <1>10, TokenDecoded, ZenonT(60)
<1>12. ThreeBytes(c) = <<a, b, d>>
  <2> HIDE DEF At
  <2> QED
    BY <1>2, <1>9, SixBitsJoined, ZenonT(60)
<1> HIDE DEF c
<1> QED
  BY <1>11, <1>12, Zenon DEF GroupValue, OneValue, token, m, a, b, d

\* The parts of a sequence, one after the other, are a longer part of it.
LEMMA Prolonged ==
  ASSUME NEW s \in Seq(Byte), NEW j \in Nat, NEW k \in Nat, j <= k, k <= Len(s),
         NEW x \in Seq(Byte), k - j <= Len(x), \A i \in 1 .. k - j : x[i] = s[j + i]
  PROVE  SubSeq(s, 1, j) \o SubSeq(x, 1, k - j) = SubSeq(s, 1, k)
<1> DEFINE u == SubSeq(s, 0 + 1, j)
           v == SubSeq(x, 0 + 1, k - j)
           w == SubSeq(s, 0 + 1, k)
<1>1. /\ 0 \in Nat /\ 0 <= j /\ 0 <= k /\ j <= Len(s) /\ k - j \in Nat /\ 0 <= k - j
      /\ j - 0 = j /\ k - 0 = k /\ (k - j) - 0 = k - j
  BY LenProperties
<1>2. u \in Seq(Byte) /\ Len(u) = j /\ \A i \in 1 .. j : u[i] = s[0 + i]
  BY <1>1, Piece
<1>3. v \in Seq(Byte) /\ Len(v) = k - j /\ \A i \in 1 .. k - j : v[i] = x[0 + i]
  BY <1>1, Piece
<1>4. w \in Seq(Byte) /\ Len(w) = k /\ \A i \in 1 .. k : w[i] = s[0 + i]
  BY <1>1, Piece
<1>5. u = SubSeq(s, 1, j) /\ v = SubSeq(x, 1, k - j) /\ w = SubSeq(s, 1, k)
  BY 0 + 1 = 1, Zenon
<1> HIDE DEF u, v, w
<1> DEFINE b == u \o v
<1>6. /\ b \in Seq(Byte) /\ Len(b) = j + (k - j)
      /\ \A i \in 1 .. j : b[i] = u[i]
      /\ \A i \in 1 .. k - j : b[j + i] = v[i]
  BY <1>2, <1>3, Joint
<1> HIDE DEF b
<1>7. ASSUME NEW i \in 1 .. k PROVE b[i] = w[i]
  <2>1. CASE i <= j
    BY <1>2, <1>4, <1>6, <2>1
  <2>2. CASE i > j
    <3> DEFINE l == i - j
    <3>1. l \in 1 .. k - j /\ j + l = i /\ 0 + l = l /\ 0 + i = i
      BY <2>2
    <3>2. b[j + l] = v[l] /\ v[l] = x[0 + l] /\ x[l] = s[j + l] /\ w[i] = s[0 + i]
      <4> HIDE DEF l
      <4> QED
        BY <1>3, <1>4, <1>6, <3>1
    <3> HIDE DEF l
    <3> QED
      BY <3>1, <3>2
  <2> QED
    BY <2>1, <2>2
<1>8. Len(b) = Len(w) /\ Len(b) = k
  BY <1>4, <1>6
<1>9. b = w
  BY <1>4, <1>6, <1>7, <1>8, SeqEqual
<1> QED
  BY <1>5, <1>9, Zenon DEF b

\* The i-th group of a text, and what Base64Decode knows after it.
TokenAt(str, i) == SubSeq(str, 4 * i - 3, IF 4 * i < Len(str) THEN 4 * i ELSE Len(str))
DecodeNext(before, str, i) ==
  {known \o TokenBytes(t) : known \in before, t \in TokenDecode(TokenAt(str, i))}

\* Base64Decode, group by group.
LEMMA DecodeStepwise ==
  ASSUME NEW str, NEW N \in Nat, N = (Len(str) + 3) \div 4
  PROVE  \E D : /\ D[0] = {<<>>}
                /\ \A i \in 1 .. N : D[i] = DecodeNext(D[i - 1], str, i)
                /\ Base64Decode(str) = D[N]
<1> DEFINE a == {<<>>}
<1> HIDE DEF a
<1> DEFINE Is(f, k) == f = [i \in 0 .. k |-> IF i = 0 THEN a
                                             ELSE DecodeNext(f[i - 1], str, i)]
           S == {k \in 0 .. N : \E f : Is(f, k)}
<1>1. 0 \in S
  <2>1. \E f : Is(f, 0)
    <3>1. Is([i \in 0 .. 0 |-> a], 0)
      OBVIOUS
    <3> HIDE DEF Is
    <3> QED
      BY <3>1
  <2> HIDE DEF Is
  <2> QED
    BY <2>1
<1>2. ASSUME NEW k \in 0 .. N - 1, k \in S PROVE k + 1 \in S
  <2>1. PICK f : Is(f, k)
    BY <1>2
  <2> DEFINE h == [i \in 0 .. k + 1 |-> IF i = k + 1 THEN DecodeNext(f[k], str, k + 1)
                                        ELSE f[i]]
  <2>2. ASSUME NEW i \in 0 .. k + 1
        PROVE  h[i] = IF i = 0 THEN a ELSE DecodeNext(h[i - 1], str, i)
    <3>1. CASE i = 0
      BY <2>1, <3>1
    <3>2. CASE i \in 1 .. k
      BY <2>1, <3>2
    <3>3. CASE i = k + 1
      BY <3>3
    <3> QED
      BY <3>1, <3>2, <3>3
  <2>3. Is(h, k + 1)
    BY <2>2
  <2> HIDE DEF Is, h
  <2> QED
    BY <2>3
<1>3. N \in S
  <2>1. N \in 0 .. N
    OBVIOUS
  <2> HIDE DEF S
  <2> QED
    BY <1>1, <1>2, <2>1, Upwards
<1> DEFINE D == CHOOSE f : Is(f, N)
<1>4. Is(D, N)
  BY <1>3
<1>5. Base64Decode(str) = D[N]
  <2> DEFINE Made(n) ==
               (CHOOSE f : f = [i \in 0 .. n |-> IF i = 0 THEN a
                                                 ELSE DecodeNext(f[i - 1], str, i)])[n]
  <2>1. Base64Decode(str) = Made((Len(str) + 3) \div 4)
    BY SMT DEF Base64Decode, DecodeNext, TokenAt, a
  <2>2. D[N] = Made(N)
    BY Zenon
  <2> HIDE DEF Made, D
  <2> QED
    BY <2>1, <2>2, Zenon
<1> HIDE DEF D
<1>6. D[0] = a /\ \A i \in 1 .. N : D[i] = DecodeNext(D[i - 1], str, i)
  BY <1>4
<1> QED
  BY <1>5, <1>6 DEF a

\* Only the bytes of s and of c are known.
OneNext(known, s, m, c) == known = {s \o SubSeq(ThreeBytes(c), 1, 3 - m)}

\* With one sequence known and one value of the group, one is known after it.
LEMMA OneMoreGroup ==
  ASSUME NEW s, NEW str, NEW i, NEW m, NEW c,
         OneValue(TokenAt(str, i), m, c)
  PROVE  OneNext(DecodeNext({s}, str, i), s, m, c)
<1> DEFINE r == [marker |-> m, val |-> c]
           T == TokenDecode(TokenAt(str, i))
<1>1. TokenBytes(r) = SubSeq(ThreeBytes(c), 1, 3 - m)
  <2>1. r.val = c /\ r.marker = m
    OBVIOUS
  <2> HIDE DEF r
  <2>2. TokenBytes(r) = SubSeq(ThreeBytes(r.val), 1, 3 - r.marker)
    BY SMT DEF TokenBytes, ThreeBytes
  <2> QED
    BY <2>1, <2>2, Zenon
<1>2. T = {r}
  BY Zenon DEF OneValue
<1> HIDE DEF r
<1>3. \A e : e \in DecodeNext({s}, str, i) <=> \E known \in {s}, t \in T : e = known \o TokenBytes(t)
  BY DEF DecodeNext
<1> HIDE DEF T
<1>4. \A e : e \in DecodeNext({s}, str, i) <=> e = s \o TokenBytes(r)
  BY <1>2, <1>3, Zenon
<1>5. DecodeNext({s}, str, i) = {s \o TokenBytes(r)}
  BY <1>4, Zenon
<1> QED
  BY <1>1, <1>5, Zenon DEF OneNext

\* The bytes of a sequence of three.
LEMMA ThreeItems ==
  ASSUME NEW a \in Byte, NEW b \in Byte, NEW d \in Byte, NEW x, x = <<a, b, d>>
  PROVE  x \in Seq(Byte) /\ Len(x) = 3 /\ x[1] = a /\ x[2] = b /\ x[3] = d
<1> HIDE DEF Byte
<1> QED
  OBVIOUS

\* The groups but the last are complete.
LEMMA BytesKnown ==
  ASSUME NEW data \in Seq(Byte), NEW t \in Nat \ {0}, NEW n \in Nat, n = Len(data),
         3 * t - 2 <= n
  PROVE  /\ After3(data, t - 1) = 3 * t - 3
         /\ After3(data, t) \in Nat /\ 3 * t - 3 <= After3(data, t) /\ After3(data, t) <= n
         /\ After3(data, t) - (3 * t - 3) <= 3
         /\ 3 - Missing(data, t) = After3(data, t) - (3 * t - 3)
<1> DEFINE k == After3(data, t)
<1>1. After3(data, t - 1) = 3 * t - 3
  <2>1. 3 * (t - 1) = 3 * t - 3 /\ 3 * t - 3 <= n
    OBVIOUS
  <2> QED
    BY <2>1 DEF After3
<1>2. k = IF 3 * t <= n THEN 3 * t ELSE n
  BY DEF After3
<1>3. Missing(data, t) = 3 * t - k
  BY Zenon DEF Missing
<1> HIDE DEF k
<1>4. /\ k \in Nat /\ 3 * t - 3 <= k /\ k <= n /\ k - (3 * t - 3) <= 3
      /\ 3 - (3 * t - k) = k - (3 * t - 3)
  BY <1>2
<1> QED
  BY <1>1, <1>3, <1>4 DEF k

\* What is known of the data after a group.
LEMMA GroupsKnown ==
  ASSUME NEW data \in Seq(Byte), NEW g \in Nat, g = (Len(data) + 2) \div 3,
         NEW t \in 1 .. g, NEW c,
         ThreeBytes(c) = <<Padded(data, 3 * t - 2), Padded(data, 3 * t - 1),
                           Padded(data, 3 * t)>>
  PROVE  SubSeq(data, 1, After3(data, t - 1)) \o SubSeq(ThreeBytes(c), 1, 3 - Missing(data, t))
         = SubSeq(data, 1, After3(data, t))
<1> DEFINE n == Len(data)
           j == 3 * t - 3
           k == After3(data, t)
           x == ThreeBytes(c)
           a == Padded(data, 3 * t - 2)
           b == Padded(data, 3 * t - 1)
           d == Padded(data, 3 * t)
<1>1. n \in Nat /\ t \in Nat \ {0} /\ n = Len(data)
  BY LenProperties
<1>2. 3 * t - 2 <= n
  <2>1. 3 * g <= n + 2
    BY <1>1
  <2> QED
    BY <1>1, <2>1
<1>3. After3(data, t - 1) = j
  BY <1>1, <1>2, BytesKnown
<1>4. /\ k \in Nat /\ j \in Nat /\ j <= k /\ k <= n /\ k - j <= 3
      /\ 3 - Missing(data, t) = k - j
  BY <1>1, <1>2, BytesKnown
<1>5. a \in Byte /\ b \in Byte /\ d \in Byte
  <2>1. 3 * t - 2 \in Nat \ {0} /\ 3 * t - 1 \in Nat \ {0} /\ 3 * t \in Nat \ {0}
    OBVIOUS
  <2> QED
    BY <2>1, PaddedBytes
<1>6. x \in Seq(Byte) /\ Len(x) = 3 /\ x[1] = a /\ x[2] = b /\ x[3] = d
  <2> HIDE DEF a, b, d
  <2>1. x = <<a, b, d>>
    BY Zenon DEF a, b, d
  <2> HIDE DEF x
  <2> QED
    BY <1>5, <2>1, ThreeItems
<1>7. j + 1 = 3 * t - 2 /\ j + 2 = 3 * t - 1 /\ j + 3 = 3 * t
  OBVIOUS
<1> HIDE DEF j
<1>8. /\ x[1] = Padded(data, j + 1) /\ x[2] = Padded(data, j + 2) /\ x[3] = Padded(data, j + 3)
  BY <1>6, <1>7, Zenon
<1> HIDE DEF x, k, n
<1>10. ASSUME NEW l \in 1 .. k - j PROVE x[l] = data[j + l]
  <2>1. (l = 1 \/ l = 2 \/ l = 3) /\ j + l <= n
    BY <1>1, <1>4
  <2>2. x[l] = Padded(data, j + l)
    BY <1>8, <2>1
  <2> QED
    BY <1>1, <2>1, <2>2, Zenon DEF Padded
<1>11. SubSeq(data, 1, j) \o SubSeq(x, 1, k - j) = SubSeq(data, 1, k)
  BY <1>1, <1>4, <1>6, <1>10, Prolonged
<1> QED
  BY <1>3, <1>4, <1>11, Zenon DEF k, x

\* Base64Decode takes back what Base64Encode made of any bytes.
LEMMA TextDecoded ==
  ASSUME NEW data \in Seq(Byte)
  PROVE  Base64Decode(Base64Encode(data)) = {data}
<1> DEFINE n == Len(data)
           g == (n + 2) \div 3
           E == Base64Encode(data)
           Known(i) == SubSeq(data, 1, After3(data, i))
<1>1. n \in Nat /\ g \in Nat
  BY LenProperties
<1>2. E \in [1 .. 4 * g -> 0 .. 64] /\ \A t \in 0 .. g - 1 : TextGroup(data, t, E)
  <2> HIDE DEF E
  <2>1. /\ Base64Encode(data) \in [1 .. 4 * g -> 0 .. 64]
        /\ \A t \in 0 .. g - 1 : TextGroup(data, t, Base64Encode(data))
    BY <1>1, TextEncoded
  <2> QED
    BY <2>1, Zenon DEF E
<1> HIDE DEF E
<1>3. Len(E) = 4 * g /\ (Len(E) + 3) \div 4 = g
  <2>1. 4 * g \in Nat /\ (4 * g + 3) \div 4 = g
    BY <1>1
  <2> HIDE DEF g
  <2>2. Len(E) = 4 * g
    BY <1>2, <2>1, AsSequence
  <2> QED
    BY <2>1, <2>2, Zenon
<1>4. g = (Len(data) + 2) \div 3
  OBVIOUS
<1>5. /\ \A i \in 0 .. g - 1 : 3 * i <= n
      /\ After3(data, 0) = 0 /\ After3(data, g) = n
  BY <1>1 DEF After3
<1> HIDE DEF g
<1>6. PICK D : /\ D[0] = {<<>>}
               /\ \A i \in 1 .. g : D[i] = DecodeNext(D[i - 1], E, i)
               /\ Base64Decode(E) = D[g]
  BY <1>1, <1>3, DecodeStepwise
<1> DEFINE K == {i \in 0 .. g : D[i] = {Known(i)}}
<1>7. 0 \in K
  <2>1. SubSeq(data, 1, 0) = <<>>
    OBVIOUS
  <2>2. Known(0) = <<>>
    BY <1>5, <2>1, Zenon
  <2> HIDE DEF Known
  <2> QED
    BY <1>1, <1>6, <2>2
<1>8. ASSUME NEW i \in 0 .. g - 1, i \in K PROVE i + 1 \in K
  <2> DEFINE t == i + 1
             token == SubSeq(E, 4 * t - 3, 4 * t)
             m == Missing(data, t)
  <2>1. t \in 1 .. g /\ t - 1 = i /\ t \in 0 .. g /\ t - 1 \in 0 .. g - 1
    BY <1>1
  <2> HIDE DEF t
  <2>9. PICK c : GroupValue(data, token, t, c)
    <3>1. TextGroup(data, t - 1, E)
      BY <1>2, <2>1, Zenon
    <3>2. \E c : GroupValue(data, SubSeq(E, 4 * t - 3, 4 * t), t, c)
      BY <1>1, <1>2, <1>4, <2>1, <3>1, GroupDecoded, Zenon
    <3> QED
      BY <3>2
  <2>2. /\ OneValue(token, m, c)
        /\ ThreeBytes(c) = <<Padded(data, 3 * t - 2), Padded(data, 3 * t - 1),
                             Padded(data, 3 * t)>>
    BY <2>9, Zenon DEF GroupValue
  <2>3. (IF 4 * t < Len(E) THEN 4 * t ELSE Len(E)) = 4 * t
    BY <1>1, <1>3, <2>1
  <2>4. token = TokenAt(E, t)
    BY <2>3, Zenon DEF TokenAt
  <2> HIDE DEF token, m
  <2>5. DecodeNext({Known(i)}, E, t) = {Known(i) \o SubSeq(ThreeBytes(c), 1, 3 - m)}
    <3>1. OneValue(TokenAt(E, t), m, c)
      BY <2>2, <2>4, Zenon
    <3> HIDE DEF Known
    <3>2. OneNext(DecodeNext({Known(i)}, E, t), Known(i), m, c)
      BY <3>1, OneMoreGroup, Zenon
    <3> QED
      BY <3>2, Zenon DEF OneNext
  <2>6. Known(i) \o SubSeq(ThreeBytes(c), 1, 3 - m) = Known(t)
    <3>1. /\ ThreeBytes(c) = <<Padded(data, 3 * t - 2), Padded(data, 3 * t - 1),
                               Padded(data, 3 * t)>>
      BY <2>2
    <3>2. SubSeq(data, 1, After3(data, t - 1))
            \o SubSeq(ThreeBytes(c), 1, 3 - Missing(data, t)) = SubSeq(data, 1, After3(data, t))
      BY <1>1, <1>4, <2>1, <3>1, GroupsKnown, Zenon
    <3> QED
      BY <2>1, <3>2, Zenon DEF m
  <2>7. D[i] = {Known(i)}
    BY <1>8
  <2> HIDE DEF Known
  <2>8. D[t] = {Known(t)}
    BY <1>6, <2>1, <2>5, <2>6, <2>7, Zenon
  <2> QED
    BY <2>1, <2>8 DEF t
<1>9. D[g] = {Known(g)}
  <2> HIDE DEF K
  <2>1. \A i \in 0 .. g : i \in K
    BY <1>1, <1>7, <1>8, Upwards
  <2>2. g \in K
    BY <1>1, <2>1
  <2> QED
    BY <2>2 DEF K
<1>10. Known(g) = data
  <2>1. SubSeq(data, 1, Len(data)) = data
    OBVIOUS
  <2> QED
    BY <1>5, <2>1, Zenon
<1> QED
  BY <1>6, <1>9, <1>10, Zenon DEF E

-----------------------------------------------------------------------------
(* CodecsAgree.                                                            *)

\* The tables are made once, and a session has a key and a vector.
AllTables == [FT |-> FT, RT |-> RT, KT |-> KT]
CodecsInv ==
  /\ tables = <<>> \/ tables = AllTables
  /\ pc # "closed" => tables = AllTables /\ key \in SixteenBytes /\ iv \in SixteenBytes

\* The long keys are keys.
LEMMA LongKeys ==
  ASSUME NEW n \in {16, 24, 32}, key \in SixteenBytes
  PROVE  KeyOf(LongKey(n), n \div 4) /\ Rounds(LongKey(n)) = (n \div 4) + 6
<1> DEFINE k == LongKey(n)
           At(i) == (key[((i - 1) % 16) + 1] + 16 * ((i - 1) \div 16)) % 256
<1>1. n \in Nat /\ n \div 4 \in {4, 6, 8} /\ 4 * (n \div 4) = n
  OBVIOUS
<1>2. k = [i \in 1 .. n |-> At(i)]
  BY Zenon DEF LongKey
<1>3. ASSUME NEW i \in 1 .. n PROVE At(i) \in Byte
  <2>1. ((i - 1) % 16) + 1 \in 1 .. 16 /\ (i - 1) \div 16 \in Nat
    BY <1>1
  <2>2. key[((i - 1) % 16) + 1] \in Byte
    BY <2>1, Zenon DEF SixteenBytes
  <2> DEFINE x == key[((i - 1) % 16) + 1]
             y == (i - 1) \div 16
  <2>3. x \in Nat /\ y \in Nat
    BY <2>1, <2>2 DEF Byte
  <2> HIDE DEF x, y
  <2>4. (x + 16 * y) % 256 \in 0 .. 255
    BY <2>3
  <2> QED
    BY <2>4, Zenon DEF x, y, Byte
<1> HIDE DEF k, At
<1>4. k \in [1 .. n -> Byte]
  BY <1>2, <1>3
<1>5. Len(k) = n
  BY <1>1, <1>4, AsSequence
<1>6. KeyOf(k, n \div 4)
  BY <1>1, <1>4, Zenon DEF KeyOf
<1>7. Rounds(k) = (n \div 4) + 6
  BY <1>5, Zenon DEF Rounds
<1> QED
  BY <1>6, <1>7 DEF k

\* The codecs agree in every session that has been opened.
LEMMA CodecsOpened == CodecsInv => CodecsAgree
<1> SUFFICES ASSUME CodecsInv, pc = "opened" PROVE CodecsAgree
  BY Zenon DEF CodecsAgree
<1>1. tables = AllTables /\ key \in SixteenBytes /\ iv \in SixteenBytes
  BY DEF CodecsInv
<1>2. ASSUME NEW n \in 0 .. 16
      PROVE  Base64Decode(Base64Encode(SubSeq(iv, 1, n))) = {SubSeq(iv, 1, n)}
  <2>1. iv \in Seq(Byte) /\ Len(iv) = 16
    BY <1>1, Sixteen
  <2>2. 0 \in Nat /\ n \in Nat /\ 0 <= n /\ n <= Len(iv) /\ 0 + 1 = 1
    BY <2>1
  <2>3. SubSeq(iv, 0 + 1, n) \in Seq(Byte)
    BY <2>1, <2>2, Piece
  <2>4. SubSeq(iv, 1, n) \in Seq(Byte)
    BY <2>2, <2>3, Zenon
  <2> QED
    BY <2>4, TextDecoded, Zenon
<1>3. ASSUME NEW n \in {16, 24, 32}
      PROVE  \E RK \in {erk(LongKey(n))} : \E block \in {AesEncrypt(RK, (n \div 4) + 6, iv)} :
               /\ block = Cipher(RK, (n \div 4) + 6, iv)
               /\ AesDecrypt(RK, (n \div 4) + 6, block) = iv
  <2> DEFINE k == LongKey(n)
             nr == (n \div 4) + 6
  <2>1. KeyOf(k, n \div 4) /\ Rounds(k) = nr
    BY <1>1, LongKeys, Zenon
  <2>2. iv \in [1 .. 16 -> Byte]
    BY <1>1, Zenon DEF SixteenBytes
  <2>3. tables = [FT |-> FT, RT |-> RT, KT |-> KT]
    BY <1>1, Zenon DEF AllTables
  <2>4. tables.FT = FT
    <3> HIDE DEF FT, RT, KT
    <3> QED
      BY <2>3
  <2> HIDE DEF k
  <2>5. AesEncrypt(erk(k), Rounds(k), iv) = Cipher(erk(k), Rounds(k), iv)
    BY <2>1, <2>2, <2>4, CiphersAgree, Zenon
  <2>6. AesDecrypt(erk(k), Rounds(k), AesEncrypt(erk(k), Rounds(k), iv)) = iv
    BY <2>1, <2>2, <2>3, DecryptionInverts, Zenon
  <2>7. /\ AesEncrypt(erk(k), nr, iv) = Cipher(erk(k), nr, iv)
        /\ AesDecrypt(erk(k), nr, AesEncrypt(erk(k), nr, iv)) = iv
    BY <2>1, <2>5, <2>6, Zenon
  <2> QED
    BY <2>7, Zenon DEF k
<1> QED
  BY <1>2, <1>3, Zenon DEF CodecsAgree

\* No step changes the tables, the key or the vector of an open session.
LEMMA CodecsStep == CodecsInv /\ [Next]_vars => CodecsInv'
<1> SUFFICES ASSUME CodecsInv, [Next]_vars PROVE CodecsInv'
  OBVIOUS
<1>1. CASE Open
  <2>1. PICK s \in Sessions : key' = s[1] /\ iv' = s[2] /\ MakeTables
    BY <1>1, Zenon DEF Open
  <2>2. s[1] \in SixteenBytes /\ s[2] \in SixteenBytes
    <3>1. Sessions \subseteq SixteenBytes \X SixteenBytes
      BY ConstantsAssumption, Zenon DEF SixteenBytes
    <3> QED
      BY <2>1, <3>1
  <2>3. tables' = AllTables
    BY <2>1, Zenon DEF MakeTables, CodecsInv, AllTables
  <2> QED
    BY <2>1, <2>2, <2>3, Zenon DEF CodecsInv, AllTables
<1>2. CASE Connect \/ Start \/ SendChunk \/ UNCHANGED vars
  <2>1. tables' = tables /\ key' = key /\ iv' = iv /\ (pc = "closed" => pc' = "closed")
    <3>1. CASE Connect
      BY <3>1 DEF Connect
    <3>2. CASE Start
      BY <3>2 DEF Start, session
    <3>3. CASE SendChunk
      BY <3>3 DEF SendChunk, session
    <3>4. CASE UNCHANGED vars
      BY <3>4 DEF vars
    <3> QED
      BY <1>2, <3>1, <3>2, <3>3, <3>4
  <2> QED
    BY <2>1, Zenon DEF CodecsInv, AllTables
<1> QED
  BY <1>1, <1>2 DEF Next

\* In every session, what AesEncrypt makes of the vector under the key and
\* its longer versions is what FIPS 197 makes of it, and AesDecrypt takes it
\* back; and Base64Decode takes back what Base64Encode makes of every part of
\* the vector: for every key and every vector.
THEOREM CodecsAlwaysAgree == Spec => []CodecsAgree
<1>1. Init => CodecsInv
  BY DEF Init, CodecsInv
<1>2. CodecsInv /\ [Next]_vars => CodecsInv'
  BY CodecsStep
<1>3. CodecsInv => CodecsAgree
  BY CodecsOpened
<1> QED
  BY <1>1, <1>2, <1>3, PTL DEF Spec
=============================================================================
