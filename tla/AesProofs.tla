----------------------------- MODULE AesProofs -----------------------------
(* Proofs about Aes: the block cipher of RAOPClient.cpp, with tables made  *)
(* from powers and logarithms of 3, is the cipher of FIPS 197, which does  *)
(* without; and its decryption undoes it.                                  *)
EXTENDS Aes, SequenceTheorems, FiniteSetTheorems, FunctionTheorems, WellFoundedInduction,
        TLAPS

-----------------------------------------------------------------------------
(* Bytes and their bits.                                                   *)

\* A byte is the sum of its bits.
LEMMA ByteBits ==
  ASSUME NEW x \in Byte
  PROVE  /\ \A i \in 0 .. 7 : Bit(x, i) \in {0, 1}
         /\ x = Bit(x, 0) + 2 * Bit(x, 1) + 4 * Bit(x, 2) + 8 * Bit(x, 3) + 16 * Bit(x, 4)
                + 32 * Bit(x, 5) + 64 * Bit(x, 6) + 128 * Bit(x, 7)
<1>1. /\ Bit(x, 0) = x % 2 /\ Bit(x, 1) = (x \div 2) % 2
      /\ Bit(x, 2) = (x \div 4) % 2 /\ Bit(x, 3) = (x \div 8) % 2
      /\ Bit(x, 4) = (x \div 16) % 2 /\ Bit(x, 5) = (x \div 32) % 2
      /\ Bit(x, 6) = (x \div 64) % 2 /\ Bit(x, 7) = (x \div 128) % 2
  BY DEF Bit, Byte
<1>2. /\ x = 2 * (x \div 2) + (x % 2)
      /\ x \div 2 = 2 * (x \div 4) + ((x \div 2) % 2)
      /\ x \div 4 = 2 * (x \div 8) + ((x \div 4) % 2)
      /\ x \div 8 = 2 * (x \div 16) + ((x \div 8) % 2)
      /\ x \div 16 = 2 * (x \div 32) + ((x \div 16) % 2)
      /\ x \div 32 = 2 * (x \div 64) + ((x \div 32) % 2)
      /\ x \div 64 = 2 * (x \div 128) + ((x \div 64) % 2)
      /\ x \div 128 = (x \div 128) % 2
  <2>1. x = 2 * (x \div 2) + (x % 2)
    BY DEF Byte
  <2>2. x \div 2 = 2 * (x \div 4) + ((x \div 2) % 2)
    BY DEF Byte
  <2>3. x \div 4 = 2 * (x \div 8) + ((x \div 4) % 2)
    BY DEF Byte
  <2>4. x \div 8 = 2 * (x \div 16) + ((x \div 8) % 2)
    BY DEF Byte
  <2>5. x \div 16 = 2 * (x \div 32) + ((x \div 16) % 2)
    BY DEF Byte
  <2>6. x \div 32 = 2 * (x \div 64) + ((x \div 32) % 2)
    BY DEF Byte
  <2>7. x \div 64 = 2 * (x \div 128) + ((x \div 64) % 2)
    BY DEF Byte
  <2>8. x \div 128 = (x \div 128) % 2
    BY DEF Byte
  <2> QED
    BY <2>1, <2>2, <2>3, <2>4, <2>5, <2>6, <2>7, <2>8
<1>3. /\ Bit(x, 0) \in {0, 1} /\ Bit(x, 1) \in {0, 1} /\ Bit(x, 2) \in {0, 1}
      /\ Bit(x, 3) \in {0, 1} /\ Bit(x, 4) \in {0, 1} /\ Bit(x, 5) \in {0, 1}
      /\ Bit(x, 6) \in {0, 1} /\ Bit(x, 7) \in {0, 1}
  BY <1>1 DEF Byte
<1>4. \A i \in 0 .. 7 : Bit(x, i) \in {0, 1}
  BY <1>3
<1>5. /\ x \div 2 \in Int /\ x \div 4 \in Int /\ x \div 8 \in Int /\ x \div 16 \in Int
      /\ x \div 32 \in Int /\ x \div 64 \in Int /\ x \div 128 \in Int
  BY DEF Byte
<1>6. /\ x \in Int
      /\ Bit(x, 0) \in Int /\ Bit(x, 1) \in Int /\ Bit(x, 2) \in Int /\ Bit(x, 3) \in Int
      /\ Bit(x, 4) \in Int /\ Bit(x, 5) \in Int /\ Bit(x, 6) \in Int
  BY <1>3 DEF Byte
<1>7. x = Bit(x, 0) + 2 * Bit(x, 1) + 4 * Bit(x, 2) + 8 * Bit(x, 3) + 16 * Bit(x, 4)
          + 32 * Bit(x, 5) + 64 * Bit(x, 6) + 128 * (x \div 128)
  <2>1. /\ x = 2 * (x \div 2) + Bit(x, 0)
        /\ x \div 2 = 2 * (x \div 4) + Bit(x, 1)
        /\ x \div 4 = 2 * (x \div 8) + Bit(x, 2)
        /\ x \div 8 = 2 * (x \div 16) + Bit(x, 3)
        /\ x \div 16 = 2 * (x \div 32) + Bit(x, 4)
        /\ x \div 32 = 2 * (x \div 64) + Bit(x, 5)
        /\ x \div 64 = 2 * (x \div 128) + Bit(x, 6)
    BY <1>1, <1>2, Zenon
  <2> QED
    <3> DEFINE h1 == x \div 2
               h2 == x \div 4
               h3 == x \div 8
               h4 == x \div 16
               h5 == x \div 32
               h6 == x \div 64
               h7 == x \div 128
    <3>1. /\ x = 2 * h1 + Bit(x, 0) /\ h1 = 2 * h2 + Bit(x, 1) /\ h2 = 2 * h3 + Bit(x, 2)
          /\ h3 = 2 * h4 + Bit(x, 3) /\ h4 = 2 * h5 + Bit(x, 4) /\ h5 = 2 * h6 + Bit(x, 5)
          /\ h6 = 2 * h7 + Bit(x, 6)
      BY <2>1, Zenon
    <3>2. /\ h1 \in Int /\ h2 \in Int /\ h3 \in Int /\ h4 \in Int /\ h5 \in Int
          /\ h6 \in Int /\ h7 \in Int
      BY <1>5, Zenon
    <3> HIDE DEF h1, h2, h3, h4, h5, h6, h7
    <3>3. x = Bit(x, 0) + 2 * Bit(x, 1) + 4 * Bit(x, 2) + 8 * Bit(x, 3) + 16 * Bit(x, 4)
              + 32 * Bit(x, 5) + 64 * Bit(x, 6) + 128 * h7
      BY <1>6, <3>1, <3>2
    <3> QED
      BY <3>3 DEF h7
<1>8. x \div 128 = Bit(x, 7)
  BY <1>1, <1>2
<1> QED
  BY <1>4, <1>7, <1>8, Zenon

\* Zero and one are bytes.
LEMMA Constants == 0 \in Byte /\ 1 \in Byte
BY DEF Byte

On(x, i) == Bit(x, i) = 1
a ## b == ~(a <=> b)

\* Eight bits make a byte, which has them.
LEMMA SumOfBits ==
  ASSUME NEW a \in {0, 1}, NEW b \in {0, 1}, NEW c \in {0, 1}, NEW d \in {0, 1},
         NEW e \in {0, 1}, NEW f \in {0, 1}, NEW g \in {0, 1}, NEW h \in {0, 1},
         NEW x, x = a + 2 * b + 4 * c + 8 * d + 16 * e + 32 * f + 64 * g + 128 * h
  PROVE  /\ x \in Byte
         /\ Bit(x, 0) = a /\ Bit(x, 1) = b /\ Bit(x, 2) = c /\ Bit(x, 3) = d
         /\ Bit(x, 4) = e /\ Bit(x, 5) = f /\ Bit(x, 6) = g /\ Bit(x, 7) = h
<1>1. x \in Byte
  BY DEF Byte
<1>2. /\ Bit(x, 0) = x % 2 /\ Bit(x, 1) = (x \div 2) % 2
      /\ Bit(x, 2) = (x \div 4) % 2 /\ Bit(x, 3) = (x \div 8) % 2
      /\ Bit(x, 4) = (x \div 16) % 2 /\ Bit(x, 5) = (x \div 32) % 2
      /\ Bit(x, 6) = (x \div 64) % 2 /\ Bit(x, 7) = (x \div 128) % 2
  BY <1>1 DEF Bit, Byte
<1>3. /\ x \div 2 = b + 2 * c + 4 * d + 8 * e + 16 * f + 32 * g + 64 * h
      /\ x \div 4 = c + 2 * d + 4 * e + 8 * f + 16 * g + 32 * h
      /\ x \div 8 = d + 2 * e + 4 * f + 8 * g + 16 * h
      /\ x \div 16 = e + 2 * f + 4 * g + 8 * h
  OBVIOUS
<1>4. x \div 32 = f + 2 * g + 4 * h /\ x \div 64 = g + 2 * h /\ x \div 128 = h
  OBVIOUS
<1>5. x % 2 = a /\ (x \div 2) % 2 = b /\ (x \div 4) % 2 = c /\ (x \div 8) % 2 = d
  BY <1>3
<1>6. (x \div 16) % 2 = e /\ (x \div 32) % 2 = f /\ (x \div 64) % 2 = g /\ (x \div 128) % 2 = h
  BY <1>3, <1>4
<1> QED
  BY <1>1, <1>2, <1>5, <1>6

\* Bytes with the same bits are the same.
LEMMA SameBits ==
  ASSUME NEW x \in Byte, NEW y \in Byte,
         On(x, 0) <=> On(y, 0), On(x, 1) <=> On(y, 1), On(x, 2) <=> On(y, 2),
         On(x, 3) <=> On(y, 3), On(x, 4) <=> On(y, 4), On(x, 5) <=> On(y, 5),
         On(x, 6) <=> On(y, 6), On(x, 7) <=> On(y, 7)
  PROVE  x = y
<1>1. \A i \in 0 .. 7 : Bit(x, i) \in {0, 1} /\ Bit(y, i) \in {0, 1}
  BY ByteBits
<1>2. /\ Bit(x, 0) = Bit(y, 0) /\ Bit(x, 1) = Bit(y, 1) /\ Bit(x, 2) = Bit(y, 2)
      /\ Bit(x, 3) = Bit(y, 3) /\ Bit(x, 4) = Bit(y, 4) /\ Bit(x, 5) = Bit(y, 5)
      /\ Bit(x, 6) = Bit(y, 6) /\ Bit(x, 7) = Bit(y, 7)
  BY <1>1 DEF On
<1>3. x = Bit(x, 0) + 2 * Bit(x, 1) + 4 * Bit(x, 2) + 8 * Bit(x, 3) + 16 * Bit(x, 4)
          + 32 * Bit(x, 5) + 64 * Bit(x, 6) + 128 * Bit(x, 7)
  BY ByteBits
<1>4. y = Bit(y, 0) + 2 * Bit(y, 1) + 4 * Bit(y, 2) + 8 * Bit(y, 3) + 16 * Bit(y, 4)
          + 32 * Bit(y, 5) + 64 * Bit(y, 6) + 128 * Bit(y, 7)
  BY ByteBits
<1> QED
  BY <1>2, <1>3, <1>4, Zenon

\* The sum of two bytes, bit by bit.
x (+) y == Xored[x][y]

\* A bit of a sum of two bytes is set when it is in one of them only.
LEMMA XorBits ==
  ASSUME NEW x \in Byte, NEW y \in Byte
  PROVE  /\ x (+) y \in Byte
         /\ On(x (+) y, 0) <=> On(x, 0) ## On(y, 0)
         /\ On(x (+) y, 1) <=> On(x, 1) ## On(y, 1)
         /\ On(x (+) y, 2) <=> On(x, 2) ## On(y, 2)
         /\ On(x (+) y, 3) <=> On(x, 3) ## On(y, 3)
         /\ On(x (+) y, 4) <=> On(x, 4) ## On(y, 4)
         /\ On(x (+) y, 5) <=> On(x, 5) ## On(y, 5)
         /\ On(x (+) y, 6) <=> On(x, 6) ## On(y, 6)
         /\ On(x (+) y, 7) <=> On(x, 7) ## On(y, 7)
<1> DEFINE b(i) == (Bit(x, i) + Bit(y, i)) % 2
<1>1. PICK d : d = [i \in 0 .. 7 |-> (Bit(x, i) + Bit(y, i)) % 2]
  OBVIOUS
<1>2. x (+) y = d[0] + 2 * d[1] + 4 * d[2] + 8 * d[3] + 16 * d[4] + 32 * d[5] + 64 * d[6]
                + 128 * d[7]
  BY <1>1, Zenon DEF Xored, (+)
<1>3. ASSUME NEW i \in 0 .. 7
      PROVE  d[i] = b(i) /\ b(i) \in {0, 1} /\ (b(i) = 1 <=> On(x, i) ## On(y, i))
  <2>1. Bit(x, i) \in {0, 1} /\ Bit(y, i) \in {0, 1}
    BY ByteBits
  <2> QED
    BY <1>1, <2>1 DEF On, ##
<1> HIDE DEF b
<1>4. x (+) y = b(0) + 2 * b(1) + 4 * b(2) + 8 * b(3) + 16 * b(4) + 32 * b(5)
                + 64 * b(6) + 128 * b(7)
  BY <1>2, <1>3
<1>5. /\ 0 \in 0 .. 7 /\ 1 \in 0 .. 7 /\ 2 \in 0 .. 7 /\ 3 \in 0 .. 7 /\ 4 \in 0 .. 7
      /\ 5 \in 0 .. 7 /\ 6 \in 0 .. 7 /\ 7 \in 0 .. 7
  OBVIOUS
<1>6. /\ x (+) y \in Byte
      /\ Bit(x (+) y, 0) = b(0) /\ Bit(x (+) y, 1) = b(1) /\ Bit(x (+) y, 2) = b(2)
      /\ Bit(x (+) y, 3) = b(3) /\ Bit(x (+) y, 4) = b(4) /\ Bit(x (+) y, 5) = b(5)
      /\ Bit(x (+) y, 6) = b(6) /\ Bit(x (+) y, 7) = b(7)
  <2>1. /\ b(0) \in {0, 1} /\ b(1) \in {0, 1} /\ b(2) \in {0, 1} /\ b(3) \in {0, 1}
        /\ b(4) \in {0, 1} /\ b(5) \in {0, 1} /\ b(6) \in {0, 1} /\ b(7) \in {0, 1}
    BY <1>3, <1>5, Zenon
  <2> DEFINE v == x (+) y
  <2>2. v = b(0) + 2 * b(1) + 4 * b(2) + 8 * b(3) + 16 * b(4) + 32 * b(5)
            + 64 * b(6) + 128 * b(7)
    BY <1>4, Zenon
  <2> HIDE DEF v
  <2>3. /\ v \in Byte
        /\ Bit(v, 0) = b(0) /\ Bit(v, 1) = b(1) /\ Bit(v, 2) = b(2) /\ Bit(v, 3) = b(3)
        /\ Bit(v, 4) = b(4) /\ Bit(v, 5) = b(5) /\ Bit(v, 6) = b(6) /\ Bit(v, 7) = b(7)
    BY <2>1, <2>2, SumOfBits
  <2> QED
    BY <2>3, Zenon DEF v
<1> QED
  BY <1>3, <1>5, <1>6, Zenon DEF On

\* The sum of bytes is that of a vector space.
LEMMA XorLaws ==
  ASSUME NEW x \in Byte, NEW y \in Byte, NEW z \in Byte
  PROVE  /\ x (+) y \in Byte
         /\ x (+) y = y (+) x
         /\ (x (+) y) (+) z = x (+) (y (+) z)
         /\ x (+) 0 = x
         /\ x (+) x = 0
<1>1. 0 \in Byte
  BY DEF Byte
<1>2. x (+) y \in Byte /\ y (+) x \in Byte /\ y (+) z \in Byte /\ x (+) 0 \in Byte /\ x (+) x \in Byte
  BY <1>1, XorBits
<1>3. (x (+) y) (+) z \in Byte /\ x (+) (y (+) z) \in Byte
  BY <1>2, XorBits
<1>4. x (+) y = y (+) x
  BY <1>2, XorBits, SameBits DEF ##
<1>5. (x (+) y) (+) z = x (+) (y (+) z)
  <2> DEFINE u == x (+) y
             v == y (+) z
  <2>1. /\ On(u (+) z, 0) <=> On(x (+) v, 0)
        /\ On(u (+) z, 1) <=> On(x (+) v, 1)
        /\ On(u (+) z, 2) <=> On(x (+) v, 2)
        /\ On(u (+) z, 3) <=> On(x (+) v, 3)
        /\ On(u (+) z, 4) <=> On(x (+) v, 4)
        /\ On(u (+) z, 5) <=> On(x (+) v, 5)
        /\ On(u (+) z, 6) <=> On(x (+) v, 6)
        /\ On(u (+) z, 7) <=> On(x (+) v, 7)
    BY <1>2, XorBits DEF ##
  <2> QED
    BY <1>3, <2>1, SameBits
<1>6. x (+) 0 = x
  <2>1. ~On(0, 0) /\ ~On(0, 1) /\ ~On(0, 2) /\ ~On(0, 3) /\ ~On(0, 4) /\ ~On(0, 5)
        /\ ~On(0, 6) /\ ~On(0, 7)
    BY SumOfBits DEF On
  <2> QED
    BY <1>1, <1>2, <2>1, XorBits, SameBits DEF ##
<1>7. x (+) x = 0
  <2>1. ~On(0, 0) /\ ~On(0, 1) /\ ~On(0, 2) /\ ~On(0, 3) /\ ~On(0, 4) /\ ~On(0, 5)
        /\ ~On(0, 6) /\ ~On(0, 7)
    BY SumOfBits DEF On
  <2> QED
    BY <1>1, <1>2, <2>1, XorBits, SameBits DEF ##
<1> QED
  BY <1>2, <1>4, <1>5, <1>6, <1>7

\* The bits of the bytes in which the code differs from a mere shift.
LEMMA Literals ==
  /\ On(27, 0) /\ On(27, 1) /\ ~On(27, 2) /\ On(27, 3) /\ On(27, 4) /\ ~On(27, 5)
     /\ ~On(27, 6) /\ ~On(27, 7)
  /\ On(99, 0) /\ On(99, 1) /\ ~On(99, 2) /\ ~On(99, 3) /\ ~On(99, 4) /\ On(99, 5)
     /\ On(99, 6) /\ ~On(99, 7)
  /\ ~On(0, 0) /\ ~On(0, 1) /\ ~On(0, 2) /\ ~On(0, 3) /\ ~On(0, 4) /\ ~On(0, 5)
     /\ ~On(0, 6) /\ ~On(0, 7)
  /\ On(1, 0) /\ ~On(1, 1) /\ ~On(1, 2) /\ ~On(1, 3) /\ ~On(1, 4) /\ ~On(1, 5)
     /\ ~On(1, 6) /\ ~On(1, 7)
<1>1. 27 = 1 + 2 * 1 + 4 * 0 + 8 * 1 + 16 * 1 + 32 * 0 + 64 * 0 + 128 * 0
  OBVIOUS
<1>2. 99 = 1 + 2 * 1 + 4 * 0 + 8 * 0 + 16 * 0 + 32 * 1 + 64 * 1 + 128 * 0
  OBVIOUS
<1>3. 0 = 0 + 2 * 0 + 4 * 0 + 8 * 0 + 16 * 0 + 32 * 0 + 64 * 0 + 128 * 0
  OBVIOUS
<1>4. 1 = 1 + 2 * 0 + 4 * 0 + 8 * 0 + 16 * 0 + 32 * 0 + 64 * 0 + 128 * 0
  OBVIOUS
<1>5. 0 \in {0, 1} /\ 1 \in {0, 1} /\ 0 # 1
  OBVIOUS
<1>6. /\ Bit(27, 0) = 1 /\ Bit(27, 1) = 1 /\ Bit(27, 2) = 0 /\ Bit(27, 3) = 1
      /\ Bit(27, 4) = 1 /\ Bit(27, 5) = 0 /\ Bit(27, 6) = 0 /\ Bit(27, 7) = 0
  BY <1>1, <1>5, SumOfBits
<1>7. /\ Bit(99, 0) = 1 /\ Bit(99, 1) = 1 /\ Bit(99, 2) = 0 /\ Bit(99, 3) = 0
      /\ Bit(99, 4) = 0 /\ Bit(99, 5) = 1 /\ Bit(99, 6) = 1 /\ Bit(99, 7) = 0
  BY <1>2, <1>5, SumOfBits
<1>8. /\ Bit(0, 0) = 0 /\ Bit(0, 1) = 0 /\ Bit(0, 2) = 0 /\ Bit(0, 3) = 0
      /\ Bit(0, 4) = 0 /\ Bit(0, 5) = 0 /\ Bit(0, 6) = 0 /\ Bit(0, 7) = 0
  BY <1>3, <1>5, SumOfBits
<1>9. /\ Bit(1, 0) = 1 /\ Bit(1, 1) = 0 /\ Bit(1, 2) = 0 /\ Bit(1, 3) = 0
      /\ Bit(1, 4) = 0 /\ Bit(1, 5) = 0 /\ Bit(1, 6) = 0 /\ Bit(1, 7) = 0
  BY <1>4, <1>5, SumOfBits
<1> QED
  BY <1>5, <1>6, <1>7, <1>8, <1>9 DEF On

\* XTIME multiplies by x modulo x^8 + x^4 + x^3 + x + 1.
LEMMA XtimeBits ==
  ASSUME NEW x \in Byte
  PROVE  /\ XTIME[x] \in Byte
         /\ On(XTIME[x], 0) <=> On(x, 7)
         /\ On(XTIME[x], 1) <=> On(x, 0) ## On(x, 7)
         /\ On(XTIME[x], 2) <=> On(x, 1)
         /\ On(XTIME[x], 3) <=> On(x, 2) ## On(x, 7)
         /\ On(XTIME[x], 4) <=> On(x, 3) ## On(x, 7)
         /\ On(XTIME[x], 5) <=> On(x, 4)
         /\ On(XTIME[x], 6) <=> On(x, 5)
         /\ On(XTIME[x], 7) <=> On(x, 6)
<1> DEFINE d == (2 * x) % 256
           r == IF x >= 128 THEN 27 ELSE 0
<1>1. XTIME[x] = d (+) r
  BY Zenon DEF XTIME, (+)
<1>2. r \in Byte
  BY DEF Byte
<1>3. \A i \in 0 .. 7 : Bit(x, i) \in {0, 1}
  BY ByteBits
<1>4. x = Bit(x, 0) + 2 * Bit(x, 1) + 4 * Bit(x, 2) + 8 * Bit(x, 3) + 16 * Bit(x, 4)
          + 32 * Bit(x, 5) + 64 * Bit(x, 6) + 128 * Bit(x, 7)
  BY ByteBits
<1>5. x >= 128 <=> Bit(x, 7) = 1
  BY <1>3, <1>4
<1>6. d = 0 + 2 * Bit(x, 0) + 4 * Bit(x, 1) + 8 * Bit(x, 2) + 16 * Bit(x, 3)
          + 32 * Bit(x, 4) + 64 * Bit(x, 5) + 128 * Bit(x, 6)
  BY <1>3, <1>4
<1> HIDE DEF d
<1>7. /\ d \in Byte
      /\ Bit(d, 0) = 0 /\ Bit(d, 1) = Bit(x, 0) /\ Bit(d, 2) = Bit(x, 1)
      /\ Bit(d, 3) = Bit(x, 2) /\ Bit(d, 4) = Bit(x, 3) /\ Bit(d, 5) = Bit(x, 4)
      /\ Bit(d, 6) = Bit(x, 5) /\ Bit(d, 7) = Bit(x, 6)
  BY <1>3, <1>6, SumOfBits
<1>8. /\ \A i \in {0, 1, 3, 4} : On(r, i) <=> On(x, 7)
      /\ ~On(r, 2) /\ ~On(r, 5) /\ ~On(r, 6) /\ ~On(r, 7)
  <2>1. CASE On(x, 7)
    <3>1. r = 27
      BY <1>5, <2>1 DEF On
    <3> QED
      BY <2>1, <3>1, Literals
  <2>2. CASE ~On(x, 7)
    <3>1. r = 0
      BY <1>5, <2>2 DEF On
    <3> QED
      BY <2>2, <3>1, Literals
  <2> QED
    BY <2>1, <2>2
<1>9. /\ ~On(d, 0)
      /\ On(d, 1) <=> On(x, 0)
      /\ On(d, 2) <=> On(x, 1)
      /\ On(d, 3) <=> On(x, 2)
      /\ On(d, 4) <=> On(x, 3)
      /\ On(d, 5) <=> On(x, 4)
      /\ On(d, 6) <=> On(x, 5)
      /\ On(d, 7) <=> On(x, 6)
  BY <1>7 DEF On
<1> HIDE DEF r
<1> QED
  BY <1>1, <1>2, <1>7, <1>8, <1>9, XorBits DEF ##

-----------------------------------------------------------------------------
(* Squaring in GF(2^8) is linear: the maps x |-> X^n * x for n = 2, 4, ...  *)
(* 128, each the one before applied twice, and 1 + X^n.                    *)

Doubled(f) == [x \in Byte |-> f[f[x]]]
X2 == Doubled(XTIME)
X4 == Doubled(X2)
X8 == Doubled(X4)
X16 == Doubled(X8)
X32 == Doubled(X16)
X64 == Doubled(X32)
X128 == Doubled(X64)
Plus(f) == [x \in Byte |-> x (+) f[x]]

Linear(f) ==
  /\ f \in [Byte -> Byte]
  /\ \A x, y \in Byte : f[x (+) y] = f[x] (+) f[y]

\* XTIME is linear.
LEMMA XtimeLinear == Linear(XTIME)
<1>1. XTIME \in [Byte -> Byte]
  <2>1. \A x \in Byte : XTIME[x] \in Byte
    BY XtimeBits
  <2>2. XTIME = [x \in Byte |-> XTIME[x]]
    BY Zenon DEF XTIME
  <2> QED
    BY <2>1, <2>2
<1>2. ASSUME NEW x \in Byte, NEW y \in Byte
      PROVE  XTIME[x (+) y] = XTIME[x] (+) XTIME[y]
  <2>1. /\ x (+) y \in Byte /\ XTIME[x] \in Byte /\ XTIME[y] \in Byte
        /\ XTIME[x (+) y] \in Byte /\ XTIME[x] (+) XTIME[y] \in Byte
    BY XorBits, XtimeBits
  <2> QED
    BY <2>1, XorBits, XtimeBits, SameBits DEF ##
<1> QED
  BY <1>1, <1>2 DEF Linear

\* (1 + X^n)^2 = 1 + X^(2n).
LEMMA Frobenius ==
  ASSUME NEW f, Linear(f)
  PROVE  /\ Linear(Doubled(f))
         /\ \A x \in Byte : Plus(f)[x] \in Byte /\ Plus(f)[Plus(f)[x]] = Plus(Doubled(f))[x]
<1> USE DEF Linear
<1>1. Linear(Doubled(f))
  <2>1. Doubled(f) \in [Byte -> Byte]
    BY DEF Doubled
  <2>2. ASSUME NEW x \in Byte, NEW y \in Byte
        PROVE  Doubled(f)[x (+) y] = Doubled(f)[x] (+) Doubled(f)[y]
    <3>1. x (+) y \in Byte
      BY XorLaws
    <3> QED
      BY <3>1 DEF Doubled
  <2> QED
    BY <2>1, <2>2
<1>2. ASSUME NEW x \in Byte
      PROVE  Plus(f)[x] \in Byte /\ Plus(f)[Plus(f)[x]] = Plus(Doubled(f))[x]
  <2> DEFINE y == f[x]
             z == f[y]
  <2>0. 0 \in Byte
    BY Constants
  <2>1. y \in Byte /\ z \in Byte /\ x (+) y \in Byte /\ y (+) z \in Byte /\ 0 \in Byte
    BY <2>0, XorLaws
  <2>2. Plus(f)[x] = x (+) y /\ Plus(f)[x (+) y] = (x (+) y) (+) (y (+) z)
    BY <2>1 DEF Plus
  <2>3. (x (+) y) (+) (y (+) z) = x (+) (y (+) (y (+) z))
    BY <2>1, XorLaws
  <2>4. y (+) (y (+) z) = z
    <3>1. y (+) (y (+) z) = (y (+) y) (+) z /\ y (+) y = 0 /\ 0 (+) z = z (+) 0 /\ z (+) 0 = z
      BY <2>1, XorLaws
    <3> QED
      BY <3>1
  <2>5. Plus(Doubled(f))[x] = x (+) z
    BY DEF Plus, Doubled
  <2> QED
    BY <2>1, <2>2, <2>3, <2>4, <2>5
<1> QED
  BY <1>1, <1>2


\* The bits of X2.
LEMMA X2Bits ==
  ASSUME NEW x \in Byte
  PROVE  /\ X2[x] \in Byte
         /\ On(X2[x], 0) <=> On(x, 6)
         /\ On(X2[x], 1) <=> On(x, 6) ## On(x, 7)
         /\ On(X2[x], 2) <=> On(x, 0) ## On(x, 7)
         /\ On(X2[x], 3) <=> On(x, 1) ## On(x, 6)
         /\ On(X2[x], 4) <=> On(x, 2) ## On(x, 6) ## On(x, 7)
         /\ On(X2[x], 5) <=> On(x, 3) ## On(x, 7)
         /\ On(X2[x], 6) <=> On(x, 4)
         /\ On(X2[x], 7) <=> On(x, 5)
<1>1. X2[x] = XTIME[XTIME[x]]
  BY Zenon DEF X2, Doubled
<1> QED
  BY <1>1, XtimeBits DEF ##

\* The bits of X4.
LEMMA X4Bits ==
  ASSUME NEW x \in Byte
  PROVE  /\ X4[x] \in Byte
         /\ On(X4[x], 0) <=> On(x, 4)
         /\ On(X4[x], 1) <=> On(x, 4) ## On(x, 5)
         /\ On(X4[x], 2) <=> On(x, 5) ## On(x, 6)
         /\ On(X4[x], 3) <=> On(x, 4) ## On(x, 6) ## On(x, 7)
         /\ On(X4[x], 4) <=> On(x, 0) ## On(x, 4) ## On(x, 5) ## On(x, 7)
         /\ On(X4[x], 5) <=> On(x, 1) ## On(x, 5) ## On(x, 6)
         /\ On(X4[x], 6) <=> On(x, 2) ## On(x, 6) ## On(x, 7)
         /\ On(X4[x], 7) <=> On(x, 3) ## On(x, 7)
<1>1. X4[x] = X2[X2[x]]
  BY Zenon DEF X4, Doubled
<1> QED
  BY <1>1, X2Bits DEF ##

\* The bits of X8.
LEMMA X8Bits ==
  ASSUME NEW x \in Byte
  PROVE  /\ X8[x] \in Byte
         /\ On(X8[x], 0) <=> On(x, 0) ## On(x, 4) ## On(x, 5) ## On(x, 7)
         /\ On(X8[x], 1) <=> On(x, 0) ## On(x, 1) ## On(x, 4) ## On(x, 6) ## On(x, 7)
         /\ On(X8[x], 2) <=> On(x, 1) ## On(x, 2) ## On(x, 5) ## On(x, 7)
         /\ On(X8[x], 3) <=> On(x, 0) ## On(x, 2) ## On(x, 3) ## On(x, 4)
                              ## On(x, 5) ## On(x, 6) ## On(x, 7)
         /\ On(X8[x], 4) <=> On(x, 0) ## On(x, 1) ## On(x, 3) ## On(x, 6)
         /\ On(X8[x], 5) <=> On(x, 1) ## On(x, 2) ## On(x, 4) ## On(x, 7)
         /\ On(X8[x], 6) <=> On(x, 2) ## On(x, 3) ## On(x, 5)
         /\ On(X8[x], 7) <=> On(x, 3) ## On(x, 4) ## On(x, 6)
<1>1. X8[x] = X4[X4[x]]
  BY Zenon DEF X8, Doubled
<1> QED
  BY <1>1, X4Bits DEF ##

\* The bits of X16.
LEMMA X16Bits ==
  ASSUME NEW x \in Byte
  PROVE  /\ X16[x] \in Byte
         /\ On(X16[x], 0) <=> On(x, 2) ## On(x, 4) ## On(x, 5)
         /\ On(X16[x], 1) <=> On(x, 0) ## On(x, 2) ## On(x, 3) ## On(x, 4) ## On(x, 6)
         /\ On(X16[x], 2) <=> On(x, 0) ## On(x, 1) ## On(x, 3) ## On(x, 4) ## On(x, 5) ## On(x, 7)
         /\ On(X16[x], 3) <=> On(x, 0) ## On(x, 1) ## On(x, 6)
         /\ On(X16[x], 4) <=> On(x, 0) ## On(x, 1) ## On(x, 4) ## On(x, 5) ## On(x, 7)
         /\ On(X16[x], 5) <=> On(x, 1) ## On(x, 2) ## On(x, 5) ## On(x, 6)
         /\ On(X16[x], 6) <=> On(x, 0) ## On(x, 2) ## On(x, 3) ## On(x, 6) ## On(x, 7)
         /\ On(X16[x], 7) <=> On(x, 1) ## On(x, 3) ## On(x, 4) ## On(x, 7)
<1>1. X16[x] = X8[X8[x]]
  BY Zenon DEF X16, Doubled
<1> QED
  BY <1>1, X8Bits DEF ##

\* The bits of X32.
LEMMA X32Bits ==
  ASSUME NEW x \in Byte
  PROVE  /\ X32[x] \in Byte
         /\ On(X32[x], 0) <=> On(x, 1) ## On(x, 2) ## On(x, 3) ## On(x, 5) ## On(x, 6)
         /\ On(X32[x], 1) <=> On(x, 1) ## On(x, 4) ## On(x, 5) ## On(x, 7)
         /\ On(X32[x], 2) <=> On(x, 0) ## On(x, 2) ## On(x, 5) ## On(x, 6)
         /\ On(X32[x], 3) <=> On(x, 2) ## On(x, 5) ## On(x, 7)
         /\ On(X32[x], 4) <=> On(x, 1) ## On(x, 2) ## On(x, 5)
         /\ On(X32[x], 5) <=> On(x, 0) ## On(x, 2) ## On(x, 3) ## On(x, 6)
         /\ On(X32[x], 6) <=> On(x, 0) ## On(x, 1) ## On(x, 3) ## On(x, 4) ## On(x, 7)
         /\ On(X32[x], 7) <=> On(x, 0) ## On(x, 1) ## On(x, 2) ## On(x, 4) ## On(x, 5)
<1>1. X32[x] = X16[X16[x]]
  BY Zenon DEF X32, Doubled
<1> QED
  BY <1>1, X16Bits DEF ##

\* The bits of X64.
LEMMA X64Bits ==
  ASSUME NEW x \in Byte
  PROVE  /\ X64[x] \in Byte
         /\ On(X64[x], 0) <=> On(x, 0) ## On(x, 2) ## On(x, 5) ## On(x, 7)
         /\ On(X64[x], 1) <=> On(x, 1) ## On(x, 2) ## On(x, 3) ## On(x, 5) ## On(x, 6) ## On(x, 7)
         /\ On(X64[x], 2) <=> On(x, 0) ## On(x, 2) ## On(x, 3) ## On(x, 4) ## On(x, 6) ## On(x, 7)
         /\ On(X64[x], 3) <=> On(x, 0) ## On(x, 1) ## On(x, 2) ## On(x, 3) ## On(x, 4)
         /\ On(X64[x], 4) <=> On(x, 1) ## On(x, 3) ## On(x, 4) ## On(x, 7)
         /\ On(X64[x], 5) <=> On(x, 2) ## On(x, 4) ## On(x, 5)
         /\ On(X64[x], 6) <=> On(x, 0) ## On(x, 3) ## On(x, 5) ## On(x, 6)
         /\ On(X64[x], 7) <=> On(x, 1) ## On(x, 4) ## On(x, 6) ## On(x, 7)
<1>1. X64[x] = X32[X32[x]]
  BY Zenon DEF X64, Doubled
<1> QED
  BY <1>1, X32Bits DEF ##

\* The bits of X128.
LEMMA X128Bits ==
  ASSUME NEW x \in Byte
  PROVE  /\ X128[x] \in Byte
         /\ On(X128[x], 0) <=> On(x, 1) ## On(x, 2) ## On(x, 3) ## On(x, 4) ## On(x, 7)
         /\ On(X128[x], 1) <=> On(x, 0) ## On(x, 1) ## On(x, 5) ## On(x, 7)
         /\ On(X128[x], 2) <=> On(x, 1) ## On(x, 2) ## On(x, 6)
         /\ On(X128[x], 3) <=> On(x, 0) ## On(x, 1) ## On(x, 4)
         /\ On(X128[x], 4) <=> On(x, 0) ## On(x, 3) ## On(x, 4) ## On(x, 5) ## On(x, 7)
         /\ On(X128[x], 5) <=> On(x, 0) ## On(x, 1) ## On(x, 4) ## On(x, 5) ## On(x, 6)
         /\ On(X128[x], 6) <=> On(x, 0) ## On(x, 1) ## On(x, 2) ## On(x, 5) ## On(x, 6) ## On(x, 7)
         /\ On(X128[x], 7) <=> On(x, 0) ## On(x, 1) ## On(x, 2) ## On(x, 3) ## On(x, 6) ## On(x, 7)
<1>1. X128[x] = X64[X64[x]]
  BY Zenon DEF X128, Doubled
<1> QED
  BY <1>1, X64Bits DEF ##

-----------------------------------------------------------------------------
(* Recursive functions. The library's theorems about them are about an     *)
(* operator and cannot be used, so each has its own proof that it exists:  *)
(* otherwise there would be a smallest domain for which it does not.       *)

\* Any set of natural numbers that is not empty has a smallest one.
LEMMA Least ==
  ASSUME NEW S, S \subseteq Nat, S # {}
  PROVE  \E n \in S : \A m \in S : n <= m
<1> DEFINE R == {p \in Nat \X Nat : p[1] < p[2]}
<1>1. R = OpToRel(<, Nat)
  BY Zenon DEF OpToRel
<1>2. IsWellFoundedOn(R, Nat)
  BY <1>1, NatLessThanWellFounded, Zenon
<1>3. PICK n \in S : \A m \in S : ~ (<<m, n>> \in R)
  <2> HIDE DEF R
  <2> QED BY <1>2, WFMin, Zenon
<1>4. \A m \in S : ~(m < n)
  BY <1>3
<1> QED BY <1>4

\* A set of numbers that holds 0 and with each number up to N the next one
\* holds all of them up to N.
LEMMA Upwards ==
  ASSUME NEW N \in Nat, NEW S, 0 \in S, \A k \in 0 .. N - 1 : k \in S => k + 1 \in S
  PROVE  \A k \in 0 .. N : k \in S
<1> DEFINE T == {k \in 0 .. N : k \notin S}
<1> SUFFICES ASSUME T # {} PROVE FALSE
  OBVIOUS
<1>1. PICK k \in T : \A m \in T : k <= m
  <2>1. T \subseteq Nat
    OBVIOUS
  <2> HIDE DEF T
  <2> QED
    BY <2>1, Least
<1>2. k \in 1 .. N /\ k - 1 \in 0 .. N - 1
  BY <1>1
<1>3. k - 1 \in S
  BY <1>1, <1>2
<1>4. (k - 1) + 1 = k
  BY <1>2
<1> QED
  BY <1>1, <1>2, <1>3, <1>4

\* What each item makes of the one before, from a on.
Follows(f, a, n, g) ==
  f[0] = a /\ \A i \in 1 .. n : f[i] = g[i][f[i - 1]]

\* A function on 0 .. n may be defined by its first item and its steps.
LEMMA Recursion ==
  ASSUME NEW S, NEW a \in S, NEW n \in Nat, NEW g \in [1 .. n -> [S -> S]]
  PROVE  \E f \in [0 .. n -> S] : Follows(f, a, n, g)
<1> DEFINE Is(f, k) == f \in [0 .. k -> S] /\ Follows(f, a, k, g)
           K == {k \in 0 .. n : \E f : Is(f, k)}
<1>1. 0 \in K
  <2>1. Is([i \in 0 .. 0 |-> a], 0)
    BY DEF Follows
  <2> HIDE DEF Is
  <2> QED
    BY <2>1
<1>2. ASSUME NEW k \in 0 .. n - 1, k \in K PROVE k + 1 \in K
  <2>1. PICK f : Is(f, k)
    BY <1>2
  <2>2. g[k + 1][f[k]] \in S
    BY <2>1
  <2> DEFINE h == [i \in 0 .. k + 1 |-> IF i = k + 1 THEN g[k + 1][f[k]] ELSE f[i]]
  <2>3. h \in [0 .. k + 1 -> S]
    BY <2>1, <2>2
  <2>4. h[0] = a
    BY <2>1 DEF Follows
  <2>5. ASSUME NEW i \in 1 .. k + 1 PROVE h[i] = g[i][h[i - 1]]
    <3>1. CASE i = k + 1
      BY <3>1
    <3>2. CASE i # k + 1
      <4>1. i \in 1 .. k /\ i - 1 \in 0 .. k /\ i - 1 # k + 1
        BY <3>2
      <4> QED
        BY <2>1, <4>1 DEF Follows
    <3> QED
      BY <3>1, <3>2
  <2>6. Is(h, k + 1)
    BY <2>3, <2>4, <2>5 DEF Follows
  <2> HIDE DEF Is, h
  <2> QED
    BY <2>6
<1>3. n \in K
  <2>1. n \in 0 .. n
    OBVIOUS
  <2> HIDE DEF K
  <2> QED
    BY <1>1, <1>2, <2>1, Upwards
<1> QED
  BY <1>3

-----------------------------------------------------------------------------
(* The powers of 3.                                                        *)

\* Times3 is 1 + X.
LEMMA ThreeTimes ==
  ASSUME NEW x \in Byte
  PROVE  Times3[x] = Plus(XTIME)[x] /\ Times3[x] \in Byte
<1>1. Times3[x] = x (+) XTIME[x]
  BY Zenon DEF Times3, (+)
<1>2. Plus(XTIME)[x] = x (+) XTIME[x]
  BY SMTT(60) DEF Plus
<1> QED
  BY <1>1, <1>2, XorLaws, XtimeBits

\* The numbers of a byte that sixteen divides, but for 0, are not below it.
LEMMA Sixteenths ==
  ASSUME NEW i \in 0 .. 255, i # 0, i % 16 = 0
  PROVE  i - 16 \in 0 .. 239 /\ (i - 16) + 16 = i
<1>1. i = 16 * (i \div 16) + (i % 16) /\ i \div 16 \in Nat
  BY SMTT(60)
<1>2. i \div 16 # 0
  BY <1>1, SMTT(60)
<1> QED
  BY <1>1, <1>2, SMTT(60)

\* The loop of AesGenTables multiplies by 3.
LEMMA Powers ==
  /\ pow \in [Byte -> Byte]
  /\ pow[0] = 1
  /\ \A i \in 0 .. 254 : pow[i + 1] = Times3[pow[i]]
<1> DEFINE Is(p) == p = [i \in Byte |->
                     IF i = 0 THEN 1
                     ELSE IF i % 16 = 0 THEN SixteenTimes[p[i - 16]] ELSE Times3[p[i - 1]]]
           g == [i \in 1 .. 255 |-> Times3]
<1>1. Times3 \in [Byte -> Byte]
  <2>1. Times3 = [x \in Byte |-> Times3[x]]
    BY Zenon DEF Times3
  <2> QED
    BY <2>1, ThreeTimes
<1>2. PICK f \in [0 .. 255 -> Byte] : Follows(f, 1, 255, g)
  <2>1. g \in [1 .. 255 -> [Byte -> Byte]] /\ 255 \in Nat
    BY <1>1
  <2> HIDE DEF g
  <2> QED
    BY <2>1, Constants, Recursion, ZenonT(60)
<1>3. f[0] = 1 /\ \A i \in 0 .. 254 : f[i + 1] = Times3[f[i]]
  <2>1. ASSUME NEW i \in 0 .. 254 PROVE f[i + 1] = Times3[f[i]]
    <3>1. i + 1 \in 1 .. 255 /\ (i + 1) - 1 = i
      OBVIOUS
    <3> QED
      BY <1>2, <3>1 DEF Follows
  <2> QED
    BY <1>2, <2>1 DEF Follows
<1>4. ASSUME NEW i \in 0 .. 251 PROVE f[i + 4] = FourTimes[f[i]]
  <2>1. /\ i + 1 \in 0 .. 254 /\ i + 2 \in 0 .. 254 /\ i + 3 \in 0 .. 254
        /\ (i + 1) + 1 = i + 2 /\ (i + 2) + 1 = i + 3 /\ (i + 3) + 1 = i + 4
    OBVIOUS
  <2> HIDE DEF g, Is
  <2>2. /\ f[i + 1] = Times3[f[i]] /\ f[(i + 1) + 1] = Times3[f[i + 1]]
        /\ f[(i + 2) + 1] = Times3[f[i + 2]] /\ f[(i + 3) + 1] = Times3[f[i + 3]]
    BY <1>3, <2>1
  <2>3. f[i + 4] = Times3[Times3[Times3[Times3[f[i]]]]]
    BY <2>1, <2>2, Zenon
  <2>4. f[i] \in Byte
    OBVIOUS
  <2> QED
    BY <2>3, <2>4, Zenon DEF FourTimes
<1>5. ASSUME NEW i \in 0 .. 239 PROVE f[i + 16] = SixteenTimes[f[i]]
  <2>1. /\ i \in 0 .. 251 /\ i + 4 \in 0 .. 251 /\ i + 8 \in 0 .. 251 /\ i + 12 \in 0 .. 251
        /\ (i + 4) + 4 = i + 8 /\ (i + 8) + 4 = i + 12 /\ (i + 12) + 4 = i + 16
    OBVIOUS
  <2> HIDE DEF g, Is
  <2>2. /\ f[i + 4] = FourTimes[f[i]] /\ f[(i + 4) + 4] = FourTimes[f[i + 4]]
        /\ f[(i + 8) + 4] = FourTimes[f[i + 8]] /\ f[(i + 12) + 4] = FourTimes[f[i + 12]]
    BY <1>4, <2>1
  <2>3. f[i + 16] = FourTimes[FourTimes[FourTimes[FourTimes[f[i]]]]]
    BY <2>1, <2>2, Zenon
  <2>4. f[i] \in Byte
    OBVIOUS
  <2> QED
    BY <2>3, <2>4, Zenon DEF SixteenTimes
<1>6. Is(f)
  <2>1. ASSUME NEW i \in Byte
        PROVE  f[i] = IF i = 0 THEN 1
                      ELSE IF i % 16 = 0 THEN SixteenTimes[f[i - 16]] ELSE Times3[f[i - 1]]
    <3> HIDE DEF Is, g
    <3>1. CASE i = 0
      BY <1>3, <3>1, Zenon
    <3>2. CASE i # 0 /\ i % 16 = 0
      <4>1. i - 16 \in 0 .. 239 /\ (i - 16) + 16 = i
        <5>1. i \in 0 .. 255
          BY DEF Byte
        <5> QED
          BY <3>2, <5>1, Sixteenths, Zenon
      <4>2. f[(i - 16) + 16] = SixteenTimes[f[i - 16]]
        BY <1>5, <4>1, Zenon
      <4> QED
        BY <3>2, <4>1, <4>2, Zenon
    <3>3. CASE i # 0 /\ i % 16 # 0
      <4>1. i - 1 \in 0 .. 254 /\ (i - 1) + 1 = i
        <5>1. i \in 0 .. 255
          BY DEF Byte
        <5> QED
          BY <3>3, <5>1, SMTT(60)
      <4>2. f[(i - 1) + 1] = Times3[f[i - 1]]
        BY <1>3, <4>1, Zenon
      <4> QED
        BY <3>3, <4>1, <4>2, Zenon
    <3> QED
      BY <3>1, <3>2, <3>3, Zenon
  <2>2. f = [i \in Byte |-> f[i]]
    BY DEF Byte
  <2> QED
    BY <2>1, <2>2
<1>7. Is(pow)
  <2>1. pow = CHOOSE p : Is(p)
    BY Zenon DEF pow
  <2> HIDE DEF Is
  <2> QED
    BY <1>6, <2>1
<1>8. ASSUME NEW i \in Byte
      PROVE  pow[i] = IF i = 0 THEN 1
                      ELSE IF i % 16 = 0 THEN SixteenTimes[pow[i - 16]] ELSE Times3[pow[i - 1]]
  BY <1>7
<1> DEFINE K == {k \in 0 .. 255 : \A j \in 0 .. k : pow[j] = f[j]}
<1> HIDE DEF Is, g
<1>9. \A k \in 0 .. 255 : k \in K
  <2>1. 0 \in K
    <3>1. 0 \in Byte
      BY DEF Byte
    <3>2. pow[0] = 1
      BY <1>8, <3>1, Zenon
    <3>3. \A j \in 0 .. 0 : j = 0
      OBVIOUS
    <3>4. 0 \in 0 .. 255
      OBVIOUS
    <3> QED
      BY <1>3, <3>2, <3>3, <3>4, Zenon
  <2>2. ASSUME NEW k \in 0 .. 255 - 1, k \in K PROVE k + 1 \in K
    <3>1. k + 1 \in Byte /\ k + 1 # 0 /\ (k + 1) - 1 = k
      BY DEF Byte
    <3>2. pow[k + 1] = f[k + 1]
      <4>1. CASE (k + 1) % 16 = 0
        <5>1. (k + 1) - 16 \in 0 .. 239 /\ (k + 1) - 16 \in 0 .. k /\ ((k + 1) - 16) + 16 = k + 1
          <6>1. k + 1 \in 0 .. 255
            OBVIOUS
          <6>2. (k + 1) - 16 \in 0 .. 239 /\ ((k + 1) - 16) + 16 = k + 1
            BY <3>1, <4>1, <6>1, Sixteenths, Zenon
          <6> QED
            BY <6>2, SMTT(60)
        <5>2. pow[k + 1] = SixteenTimes[pow[(k + 1) - 16]]
          BY <1>8, <3>1, <4>1, Zenon
        <5>3. pow[(k + 1) - 16] = f[(k + 1) - 16]
          BY <2>2, <5>1, Zenon
        <5>4. f[((k + 1) - 16) + 16] = SixteenTimes[f[(k + 1) - 16]]
          BY <1>5, <5>1, Zenon
        <5> QED
          BY <5>1, <5>2, <5>3, <5>4, Zenon
      <4>2. CASE (k + 1) % 16 # 0
        <5>1. k \in 0 .. 254 /\ k \in 0 .. k
          OBVIOUS
        <5>2. pow[k + 1] = Times3[pow[k]]
          BY <1>8, <3>1, <4>2, Zenon
        <5>3. pow[k] = f[k] /\ f[k + 1] = Times3[f[k]]
          BY <1>3, <2>2, <5>1, Zenon
        <5> QED
          BY <5>2, <5>3, Zenon
      <4> QED
        BY <4>1, <4>2, Zenon
    <3>3. \A j \in 0 .. k + 1 : j \in 0 .. k \/ j = k + 1
      OBVIOUS
    <3>4. k + 1 \in 0 .. 255
      OBVIOUS
    <3> QED
      BY <2>2, <3>2, <3>3, <3>4, Zenon
  <2> HIDE DEF K
  <2> QED
    BY <2>1, <2>2, Upwards
<1>10. ASSUME NEW k \in 0 .. 255 PROVE pow[k] = f[k]
  <2>1. k \in K
    BY <1>9, ZenonT(60)
  <2>2. k \in 0 .. k
    OBVIOUS
  <2> QED
    BY <2>1, <2>2, SMTT(60)
<1>11. pow \in [Byte -> Byte]
  <2>1. pow = [i \in Byte |-> pow[i]]
    BY <1>7, SMTT(60) DEF Is
  <2> QED
    BY <1>10, <2>1, ZenonT(60) DEF Byte
<1> HIDE DEF K
<1>12. pow[0] = 1
  BY <1>3, <1>10
<1>13. ASSUME NEW i \in 0 .. 254 PROVE pow[i + 1] = Times3[pow[i]]
  <2>1. i \in 0 .. 255 /\ i + 1 \in 0 .. 255
    OBVIOUS
  <2>2. pow[i] = f[i] /\ pow[i + 1] = f[i + 1]
    BY <1>10, <2>1
  <2> QED
    BY <1>3, <2>2, Zenon
<1> QED
  BY <1>11, <1>12, <1>13, Zenon

\* The m-th power after another one is 1 + f times it.
Jump(m, f) == \A i \in 0 .. 255 - m : pow[i + m] = Plus(f)[pow[i]]

\* From the powers m apart to those twice as far apart.
LEMMA FurtherJump ==
  ASSUME NEW m \in 1 .. 64, NEW f, Linear(f), Jump(m, f)
  PROVE  Jump(2 * m, Doubled(f)) /\ Linear(Doubled(f))
<1>1. ASSUME NEW i \in 0 .. 255 - 2 * m PROVE pow[i + 2 * m] = Plus(Doubled(f))[pow[i]]
  <2>1. /\ i \in 0 .. 255 - m /\ i + m \in 0 .. 255 - m /\ (i + m) + m = i + 2 * m /\ i \in Byte
    BY DEF Byte
  <2>2. pow[i + 2 * m] = Plus(f)[Plus(f)[pow[i]]]
    BY <2>1 DEF Jump
  <2>3. pow[i] \in Byte
    BY <2>1, Powers
  <2> QED
    BY <2>2, <2>3, Frobenius
<1> QED
  BY <1>1, Frobenius DEF Jump

\* Powers of 3 that are 1, 2, 4, ... apart, as sums of multiples.
LEMMA PowerJumps ==
  /\ Jump(1, XTIME) /\ Jump(2, X2) /\ Jump(4, X4) /\ Jump(8, X8)
  /\ Jump(16, X16) /\ Jump(32, X32) /\ Jump(64, X64) /\ Jump(128, X128)
<1>1. Jump(1, XTIME) /\ Linear(XTIME)
  <2>1. ASSUME NEW i \in 0 .. 255 - 1 PROVE pow[i + 1] = Plus(XTIME)[pow[i]]
    <3>1. i \in 0 .. 254 /\ i \in Byte
      BY DEF Byte
    <3>2. pow[i + 1] = Times3[pow[i]] /\ pow[i] \in Byte
      BY <3>1, Powers
    <3> QED
      BY <3>2, ThreeTimes
  <2> QED
    BY <2>1, XtimeLinear DEF Jump
<1>2. Jump(2, X2) /\ Linear(X2)
  <2>1. 1 \in 1 .. 64 /\ 2 * 1 = 2
    OBVIOUS
  <2> QED
    BY <1>1, <2>1, FurtherJump, Zenon DEF X2
<1>3. Jump(4, X4) /\ Linear(X4)
  <2>1. 2 \in 1 .. 64 /\ 2 * 2 = 4
    OBVIOUS
  <2> QED
    BY <1>2, <2>1, FurtherJump, Zenon DEF X4
<1>4. Jump(8, X8) /\ Linear(X8)
  <2>1. 4 \in 1 .. 64 /\ 2 * 4 = 8
    OBVIOUS
  <2> QED
    BY <1>3, <2>1, FurtherJump, Zenon DEF X8
<1>5. Jump(16, X16) /\ Linear(X16)
  <2>1. 8 \in 1 .. 64 /\ 2 * 8 = 16
    OBVIOUS
  <2> QED
    BY <1>4, <2>1, FurtherJump, Zenon DEF X16
<1>6. Jump(32, X32) /\ Linear(X32)
  <2>1. 16 \in 1 .. 64 /\ 2 * 16 = 32
    OBVIOUS
  <2> QED
    BY <1>5, <2>1, FurtherJump, Zenon DEF X32
<1>7. Jump(64, X64) /\ Linear(X64)
  <2>1. 32 \in 1 .. 64 /\ 2 * 32 = 64
    OBVIOUS
  <2> QED
    BY <1>6, <2>1, FurtherJump, ZenonT(60) DEF X64
<1>8. Jump(128, X128) /\ Linear(X128)
  <2>1. 64 \in 1 .. 64 /\ 2 * 64 = 128
    OBVIOUS
  <2> QED
    BY <1>7, <2>1, FurtherJump DEF X128
<1> QED
  BY <1>1, <1>2, <1>3, <1>4, <1>5, <1>6, <1>7, <1>8

\* The bits of x are those of a set.
Has(x, S) ==
  /\ x \in Byte
  /\ On(x, 0) <=> 0 \in S
  /\ On(x, 1) <=> 1 \in S
  /\ On(x, 2) <=> 2 \in S
  /\ On(x, 3) <=> 3 \in S
  /\ On(x, 4) <=> 4 \in S
  /\ On(x, 5) <=> 5 \in S
  /\ On(x, 6) <=> 6 \in S
  /\ On(x, 7) <=> 7 \in S

\* The order of 3 divides 255, and none of its largest divisors.
LEMMA PowersOfThree ==
  pow[255] = 1 /\ pow[15] # 1 /\ pow[51] # 1 /\ pow[85] # 1
<1>0. Has(pow[0], {0})
  BY Powers, Constants, Literals DEF Has
<1>1. Has(pow[1], {0, 1})
  <2>1. 0 \in 0 .. 255 - 1 /\ 0 + 1 = 1
    OBVIOUS
  <2>2. Jump(1, XTIME)
    BY PowerJumps
  <2>3. pow[1] = Plus(XTIME)[pow[0]]
    BY <2>1, <2>2 DEF Jump
  <2> QED
    BY <1>0, <2>3, XtimeBits, XorBits DEF Has, Plus, ##
<1>2. Has(pow[3], {0, 1, 2, 3})
  <2>1. 1 \in 0 .. 255 - 2 /\ 1 + 2 = 3
    OBVIOUS
  <2>2. Jump(2, X2)
    BY PowerJumps
  <2>3. pow[3] = Plus(X2)[pow[1]]
    BY <2>1, <2>2 DEF Jump
  <2> QED
    BY <1>1, <2>3, X2Bits, XorBits DEF Has, Plus, ##
<1>3. Has(pow[7], {0, 1, 2, 3, 4, 5, 6, 7})
  <2>1. 3 \in 0 .. 255 - 4 /\ 3 + 4 = 7
    OBVIOUS
  <2>2. Jump(4, X4)
    BY PowerJumps
  <2>3. pow[7] = Plus(X4)[pow[3]]
    BY <2>1, <2>2 DEF Jump
  <2> QED
    BY <1>2, <2>3, X4Bits, XorBits DEF Has, Plus, ##
<1>4. Has(pow[15], {0, 2, 4, 5})
  <2>1. 7 \in 0 .. 255 - 8 /\ 7 + 8 = 15
    OBVIOUS
  <2>2. Jump(8, X8)
    BY PowerJumps
  <2>3. pow[15] = Plus(X8)[pow[7]]
    BY <2>1, <2>2 DEF Jump
  <2> QED
    BY <1>3, <2>3, X8Bits, XorBits DEF Has, Plus, ##
<1>5. Has(pow[31], {1, 3, 5, 7})
  <2>1. 15 \in 0 .. 255 - 16 /\ 15 + 16 = 31
    OBVIOUS
  <2>2. Jump(16, X16)
    BY PowerJumps
  <2>3. pow[31] = Plus(X16)[pow[15]]
    BY <2>1, <2>2 DEF Jump
  <2> QED
    BY <1>4, <2>3, X16Bits, XorBits DEF Has, Plus, ##
<1>6. Has(pow[63], {0, 2, 3, 6, 7})
  <2>1. 31 \in 0 .. 255 - 32 /\ 31 + 32 = 63
    OBVIOUS
  <2>2. Jump(32, X32)
    BY PowerJumps
  <2>3. pow[63] = Plus(X32)[pow[31]]
    BY <2>1, <2>2 DEF Jump
  <2> QED
    BY <1>5, <2>3, X32Bits, XorBits DEF Has, Plus, ##
<1>7. Has(pow[127], {5, 7})
  <2>1. 63 \in 0 .. 255 - 64 /\ 63 + 64 = 127
    OBVIOUS
  <2>2. Jump(64, X64)
    BY PowerJumps
  <2>3. pow[127] = Plus(X64)[pow[63]]
    BY <2>1, <2>2 DEF Jump
  <2> QED
    BY <1>6, <2>3, X64Bits, XorBits DEF Has, Plus, ##
<1>8. Has(pow[255], {0})
  <2>1. 127 \in 0 .. 255 - 128 /\ 127 + 128 = 255
    OBVIOUS
  <2>2. Jump(128, X128)
    BY PowerJumps
  <2>3. pow[255] = Plus(X128)[pow[127]]
    BY <2>1, <2>2 DEF Jump
  <2> QED
    BY <1>7, <2>3, X128Bits, XorBits DEF Has, Plus, ##
<1>9. Has(pow[19], {3, 6})
  <2>1. 3 \in 0 .. 255 - 16 /\ 3 + 16 = 19
    OBVIOUS
  <2>2. Jump(16, X16)
    BY PowerJumps
  <2>3. pow[19] = Plus(X16)[pow[3]]
    BY <2>1, <2>2 DEF Jump
  <2> QED
    BY <1>2, <2>3, X16Bits, XorBits DEF Has, Plus, ##
<1>10. Has(pow[51], {2, 3})
  <2>1. 19 \in 0 .. 255 - 32 /\ 19 + 32 = 51
    OBVIOUS
  <2>2. Jump(32, X32)
    BY PowerJumps
  <2>3. pow[51] = Plus(X32)[pow[19]]
    BY <2>1, <2>2 DEF Jump
  <2> QED
    BY <1>9, <2>3, X32Bits, XorBits DEF Has, Plus, ##
<1>11. Has(pow[5], {0, 1, 4, 5})
  <2>1. 1 \in 0 .. 255 - 4 /\ 1 + 4 = 5
    OBVIOUS
  <2>2. Jump(4, X4)
    BY PowerJumps
  <2>3. pow[5] = Plus(X4)[pow[1]]
    BY <2>1, <2>2 DEF Jump
  <2> QED
    BY <1>1, <2>3, X4Bits, XorBits DEF Has, Plus, ##
<1>12. Has(pow[21], {0, 1, 4, 5, 6})
  <2>1. 5 \in 0 .. 255 - 16 /\ 5 + 16 = 21
    OBVIOUS
  <2>2. Jump(16, X16)
    BY PowerJumps
  <2>3. pow[21] = Plus(X16)[pow[5]]
    BY <2>1, <2>2 DEF Jump
  <2> QED
    BY <1>11, <2>3, X16Bits, XorBits DEF Has, Plus, ##
<1>13. Has(pow[85], {0, 2, 3, 4, 5, 7})
  <2>1. 21 \in 0 .. 255 - 64 /\ 21 + 64 = 85
    OBVIOUS
  <2>2. Jump(64, X64)
    BY PowerJumps
  <2>3. pow[85] = Plus(X64)[pow[21]]
    BY <2>1, <2>2 DEF Jump
  <2> QED
    BY <1>12, <2>3, X64Bits, XorBits DEF Has, Plus, ##
<1>14. pow[255] = 1
  BY <1>8, Constants, Literals, SameBits DEF Has
<1> QED
  BY <1>4, <1>10, <1>13, <1>14, Literals DEF Has

\* The product with 3 can be undone.
LEMMA ThreeInjective ==
  ASSUME NEW x \in Byte, NEW y \in Byte
  PROVE  /\ Times3[x] = Times3[y] => x = y
         /\ Times3[x] = 0 => x = 0
<1>1. /\ Times3[x] = x (+) XTIME[x] /\ Times3[y] = y (+) XTIME[y]
      /\ XTIME[x] \in Byte /\ XTIME[y] \in Byte
  BY ThreeTimes, XtimeBits DEF Plus
<1>2. ASSUME Times3[x] = Times3[y] PROVE x = y
  <2>1. x (+) XTIME[x] = y (+) XTIME[y]
    BY <1>1, <1>2
  <2> QED
    BY <1>1, <2>1, XorBits, XtimeBits, SameBits DEF ##
<1>3. ASSUME Times3[x] = 0 PROVE x = 0
  <2>1. x (+) XTIME[x] = 0
    BY <1>1, <1>3
  <2> QED
    BY <1>1, <2>1, Constants, Literals, XorBits, XtimeBits, SameBits DEF ##
<1> QED
  BY <1>2, <1>3

\* If 3 had a smaller order than 255, the smallest m would divide 255, and so
\* be or divide one of 15, 51 and 85.
LEMMA Multiples ==
  ASSUME NEW m \in 1 .. 254, pow[m] = 1
  PROVE  /\ \A i \in 0 .. 255 - m : pow[i + m] = pow[i]
         /\ \A k \in Nat : k * m <= 255 => pow[k * m] = 1
<1> DEFINE K == {i \in 0 .. 255 - m : pow[i + m] = pow[i]}
<1>1. 0 \in K
  BY Powers
<1>2. ASSUME NEW i \in 0 .. (255 - m) - 1, i \in K PROVE i + 1 \in K
  <2>1. /\ i \in 0 .. 254 /\ i + m \in 0 .. 254 /\ (i + 1) + m = (i + m) + 1
        /\ i + 1 \in 0 .. 255 - m
    OBVIOUS
  <2>2. pow[i + m] = pow[i]
    BY <1>2
  <2>3. pow[(i + m) + 1] = Times3[pow[i + m]] /\ pow[i + 1] = Times3[pow[i]]
    BY <2>1, Powers
  <2> QED
    BY <2>1, <2>2, <2>3
<1>3. \A i \in 0 .. 255 - m : i \in K
  <2>1. 255 - m \in Nat
    OBVIOUS
  <2> HIDE DEF K
  <2> QED
    BY <1>1, <1>2, <2>1, Upwards
<1>4. \A i \in 0 .. 255 - m : pow[i + m] = pow[i]
  BY <1>3
<1>5. ASSUME NEW k \in Nat, k * m <= 255 PROVE pow[k * m] = 1
  <2> DEFINE J == {j \in 0 .. k : pow[j * m] = 1}
  <2>1. 0 \in J
    <3>1. 0 * m = 0
      OBVIOUS
    <3> QED
      BY <3>1, Powers
  <2>2. ASSUME NEW j \in 0 .. k - 1, j \in J PROVE j + 1 \in J
    <3>1. (j + 1) * m = j * m + m /\ j * m \in Nat
      OBVIOUS
    <3>2. (j + 1) * m <= k * m
      OBVIOUS
    <3>3. j * m \in 0 .. 255 - m
      BY <1>5, <3>1, <3>2
    <3>4. pow[j * m] = 1
      BY <2>2
    <3> QED
      BY <1>4, <3>1, <3>3, <3>4
  <2>3. \A j \in 0 .. k : j \in J
    <3> HIDE DEF J
    <3> QED
      BY <2>1, <2>2, Upwards
  <2>4. k \in J
    BY <2>3
  <2> QED
    BY <2>4
<1> QED
  BY <1>4, <1>5

\* What the order of 3 could be, short of 255.
LEMMA DivisorsOf255 ==
  ASSUME NEW m \in 1 .. 254, NEW k \in Nat, k * m = 255
  PROVE  m \in {1, 3, 5, 15, 17, 51, 85}
<1>1. k \in 1 .. 255
  <2>1. k # 0
    OBVIOUS
  <2>2. k <= k * m
    OBVIOUS
  <2> QED
    BY <2>1, <2>2
<1>2. m <= 15 \/ k <= 15
  <2> SUFFICES ASSUME m >= 16, k >= 16 PROVE FALSE
    BY <1>1
  <2>1. k * m >= 16 * m
    BY <1>1
  <2> QED
    BY <2>1
<1>3. CASE m <= 15
  <2>1. \/ m = 1 \/ m = 2 \/ m = 3 \/ m = 4 \/ m = 5 \/ m = 6 \/ m = 7 \/ m = 8 \/ m = 9
        \/ m = 10 \/ m = 11 \/ m = 12 \/ m = 13 \/ m = 14 \/ m = 15
    BY <1>3
  <2> QED
    BY <2>1
<1>4. CASE k <= 15
  <2>1. \/ k = 1 \/ k = 2 \/ k = 3 \/ k = 4 \/ k = 5 \/ k = 6 \/ k = 7 \/ k = 8 \/ k = 9
        \/ k = 10 \/ k = 11 \/ k = 12 \/ k = 13 \/ k = 14 \/ k = 15
    BY <1>1, <1>4
  <2> QED
    BY <2>1
<1> QED
  BY <1>2, <1>3, <1>4

\* The number r is a multiple of m away from 255.
Apart(r, m) == \E k \in Nat : r + k * m = 255

\* No power of 3 before the last is 1.
LEMMA OrderOfThree ==
  ASSUME NEW d \in 1 .. 254
  PROVE  pow[d] # 1
<1> SUFFICES ASSUME pow[d] = 1 PROVE FALSE
  OBVIOUS
<1> DEFINE M == {i \in 1 .. 254 : pow[i] = 1}
<1>1. PICK m \in M : \A i \in M : m <= i
  <2>1. M \subseteq Nat /\ M # {}
    OBVIOUS
  <2> HIDE DEF M
  <2> QED
    BY <2>1, Least
<1>2. m \in 1 .. 254 /\ pow[m] = 1 /\ \A i \in 1 .. 254 : pow[i] = 1 => m <= i
  BY <1>1
<1>3. /\ \A i \in 0 .. 255 - m : pow[i + m] = pow[i]
      /\ \A k \in Nat : k * m <= 255 => pow[k * m] = 1
  BY <1>2, Multiples
<1> DEFINE R == {r \in 0 .. 255 : pow[r] = 1 /\ Apart(r, m)}
<1>4. PICK n \in R : \A r \in R : n <= r
  <2>1. 255 \in R
    <3>1. 0 \in Nat /\ 255 + 0 * m = 255
      BY <1>2
    <3>2. Apart(255, m)
      BY <3>1, Zenon DEF Apart
    <3> QED
      BY <3>2, PowersOfThree
  <2>2. R \subseteq Nat /\ R # {}
    BY <2>1
  <2> HIDE DEF R
  <2> QED
    BY <2>2, Least
<1>5. PICK k \in Nat : n + k * m = 255
  BY <1>4 DEF Apart
<1>6. n < m
  <2> SUFFICES ASSUME n >= m PROVE FALSE
    BY <1>2
  <2>1. n - m \in 0 .. 255 - m /\ (n - m) + m = n /\ n - m < n
    BY <1>2, <1>4
  <2>2. pow[n - m] = 1
    BY <1>3, <1>4, <2>1
  <2>3. k + 1 \in Nat /\ (n - m) + (k + 1) * m = 255
    <3>1. (k + 1) * m = k * m + m
      BY <1>2
    <3> QED
      BY <1>2, <1>5, <2>1, <3>1
  <2>4. Apart(n - m, m)
    BY <2>3, Zenon DEF Apart
  <2>5. n - m \in R
    BY <1>2, <2>1, <2>2, <2>4
  <2>6. n <= n - m
    BY <1>4, <2>5, Zenon
  <2>7. n \in Nat
    BY <1>4
  <2> QED
    BY <1>2, <2>6, <2>7
<1>7. n = 0
  <2> SUFFICES ASSUME n # 0 PROVE FALSE
    OBVIOUS
  <2>1. n \in 1 .. 254 /\ pow[n] = 1
    BY <1>2, <1>4, <1>6
  <2> QED
    BY <1>2, <1>6, <2>1
<1>8. k * m = 255
  BY <1>2, <1>5, <1>7
<1>9. m \in {1, 3, 5, 15, 17, 51, 85}
  BY <1>2, <1>8, DivisorsOf255
<1>10. pow[15] = 1 \/ pow[51] = 1 \/ pow[85] = 1
  <2>1. CASE m \in {1, 3, 5, 15}
    <3>1. 15 * 1 = 15 /\ 5 * 3 = 15 /\ 3 * 5 = 15 /\ 1 * 15 = 15
      OBVIOUS
    <3>2. PICK j \in {1, 3, 5, 15} : j * m = 15
      BY <2>1, <3>1
    <3> QED
      BY <1>3, <3>2
  <2>2. CASE m \in {17, 51}
    <3>1. 3 * 17 = 51 /\ 1 * 51 = 51
      OBVIOUS
    <3>2. PICK j \in {1, 3} : j * m = 51
      BY <2>2, <3>1
    <3> QED
      BY <1>3, <3>2
  <2>3. CASE m = 85
    BY <1>2, <2>3
  <2> QED
    BY <1>9, <2>1, <2>2, <2>3
<1> QED
  BY <1>10, PowersOfThree

\* 3 generates the field: no two of its 255 powers are the same.
LEMMA PowersDiffer ==
  ASSUME NEW a \in 1 .. 255, NEW b \in 1 .. 255, a < b
  PROVE  pow[a] # pow[b]
<1> SUFFICES ASSUME pow[a] = pow[b] PROVE FALSE
  OBVIOUS
<1> DEFINE d == b - a
           K == {k \in 0 .. a : pow[a - k] = pow[(a - k) + d]}
<1>1. d \in 1 .. 254 /\ a \in Nat
  OBVIOUS
<1>2. 0 \in K
  <2>1. a - 0 = a /\ a + d = b
    OBVIOUS
  <2> QED
    BY <2>1
<1> HIDE DEF d
<1>3. ASSUME NEW k \in 0 .. a - 1, k \in K PROVE k + 1 \in K
  <2> DEFINE i == a - (k + 1)
  <2>1. /\ i \in 0 .. 254 /\ i + d \in 0 .. 254 /\ a - k = i + 1 /\ (a - k) + d = (i + d) + 1
        /\ k + 1 \in 0 .. a /\ i \in Byte /\ i + d \in Byte
    BY <1>1 DEF d, Byte
  <2>2. pow[a - k] = Times3[pow[i]] /\ pow[(a - k) + d] = Times3[pow[i + d]]
    BY <2>1, Powers
  <2>3. pow[i] \in Byte /\ pow[i + d] \in Byte
    BY <2>1, Powers
  <2>4. pow[i] = pow[i + d]
    BY <1>3, <2>2, <2>3, ThreeInjective
  <2> QED
    BY <2>1, <2>4
<1>4. \A k \in 0 .. a : k \in K
  <2> HIDE DEF K
  <2> QED
    BY <1>1, <1>2, <1>3, Upwards
<1>5. pow[a - a] = pow[(a - a) + d]
  <2>1. a \in K
    BY <1>4
  <2> QED
    BY <2>1
<1>6. a - a = 0 /\ 0 + d = d
  BY <1>1
<1>7. pow[d] = 1
  BY <1>5, <1>6, Powers
<1> QED
  BY <1>1, <1>7, OrderOfThree

\* Every byte but 0 is the power of 3 to its logarithm.
LEMMA Logarithms ==
  ASSUME NEW x \in 1 .. 255
  PROVE  log[x] \in 1 .. 255 /\ pow[log[x]] = x
<1> DEFINE p == [i \in 1 .. 255 |-> pow[i]]
           K == {k \in 0 .. 255 : pow[k] # 0}
<1>1. \A k \in 0 .. 255 : k \in K
  <2>1. 0 \in K
    BY Powers
  <2>2. ASSUME NEW k \in 0 .. 255 - 1, k \in K PROVE k + 1 \in K
    <3>1. k \in 0 .. 254 /\ k \in Byte /\ k + 1 \in 0 .. 255
      BY DEF Byte
    <3>2. pow[k + 1] = Times3[pow[k]] /\ pow[k] \in Byte /\ pow[k] # 0
      BY <2>2, <3>1, Powers, SMTT(60)
    <3>3. pow[k + 1] # 0
      BY <3>2, Constants, ThreeInjective
    <3> QED
      BY <3>1, <3>3
  <2> HIDE DEF K
  <2> QED
    BY <2>1, <2>2, Upwards
<1>2. p \in [1 .. 255 -> 1 .. 255]
  <2>1. ASSUME NEW i \in 1 .. 255 PROVE pow[i] \in 1 .. 255
    <3>1. i \in 0 .. 255 /\ i \in Byte
      BY DEF Byte
    <3>2. pow[i] # 0
      BY <1>1, <3>1
    <3>3. pow[i] \in Byte
      BY <3>1, Powers, SMTT(60)
    <3> QED
      BY <3>2, <3>3 DEF Byte
  <2> QED
    BY <2>1
<1>3. \A i, j \in 1 .. 255 : p[i] = p[j] => i = j
  <2>1. ASSUME NEW i \in 1 .. 255, NEW j \in 1 .. 255, pow[i] = pow[j] PROVE i = j
    <3>1. i < j \/ j < i \/ i = j
      OBVIOUS
    <3> QED
      BY <2>1, <3>1, PowersDiffer
  <2> QED
    BY <2>1, ZenonT(60)
<1>4. p \in Surjection(1 .. 255, 1 .. 255)
  <2>1. p \in Injection(1 .. 255, 1 .. 255)
    BY <1>2, <1>3, ZenonT(60) DEF Injection, IsInjective
  <2>2. IsFiniteSet(1 .. 255)
    <3>1. 1 \in Int /\ 255 \in Int
      OBVIOUS
    <3> QED
      BY <3>1, FS_Interval, Zenon
  <2> HIDE DEF p
  <2> QED
    BY <2>1, <2>2, FS_Injection, ZenonT(60)
<1>5. PICK n \in 1 .. 255 : p[n] = x
  <2> HIDE DEF p
  <2> QED
    BY <1>4, ZenonT(60) DEF Surjection
<1>6. \E i \in 1 .. 255 : pow[i] = x
  BY <1>5, ZenonT(60)
<1>7. log[x] = CHOOSE i \in 1 .. 255 : pow[i] = x
  BY DEF log
<1> QED
  BY <1>6, <1>7, Zenon

-----------------------------------------------------------------------------
(* The product of the standard.                                            *)

Part(y, i, z) == IF On(y, i) THEN z ELSE 0
Tree(a, b, c, d, e, f, g, h) ==
  ((a (+) b) (+) (c (+) d)) (+) ((e (+) f) (+) (g (+) h))
EightBytes(a, b, c, d, e, f, g, h) ==
  /\ a \in Byte /\ b \in Byte /\ c \in Byte /\ d \in Byte
  /\ e \in Byte /\ f \in Byte /\ g \in Byte /\ h \in Byte

\* What x is multiplied with to give the parts of a product.
Multiples8(x, b, c, d, e, f, g, h) ==
  /\ b = XTIME[x] /\ c = XTIME[b] /\ d = XTIME[c] /\ e = XTIME[d]
  /\ f = XTIME[e] /\ g = XTIME[f] /\ h = XTIME[g]

\* A product is the sum of the multiples by a power of two of one factor
\* that the bits of the other one select.
LEMMA ProductParts ==
  ASSUME NEW x \in Byte, NEW y \in Byte,
         NEW b, NEW c, NEW d, NEW e, NEW f, NEW g, NEW h, Multiples8(x, b, c, d, e, f, g, h)
  PROVE  /\ EightBytes(x, b, c, d, e, f, g, h)
         /\ Product[x][y] = Tree(Part(y, 0, x), Part(y, 1, b), Part(y, 2, c), Part(y, 3, d),
                                 Part(y, 4, e), Part(y, 5, f), Part(y, 6, g), Part(y, 7, h))
<1> USE DEF Multiples8
<1>1. EightBytes(x, b, c, d, e, f, g, h)
  <2>1. \A z \in Byte : XTIME[z] \in Byte
    BY XtimeBits
  <2> QED
    BY <2>1 DEF EightBytes
<1>2. Product[x][y] = Tree(Part(y, 0, x), Part(y, 1, b), Part(y, 2, c), Part(y, 3, d),
                           Part(y, 4, e), Part(y, 5, f), Part(y, 6, g), Part(y, 7, h))
  BY ZenonT(60) DEF Product, Tree, Part, On, (+)
<1> QED
  BY <1>1, <1>2

\* The sum of eight bytes, bit by bit.
BitSums(s, x, y) ==
  /\ s \in Byte
  /\ On(s, 0) <=> On(x, 0) ## On(y, 0)
  /\ On(s, 1) <=> On(x, 1) ## On(y, 1)
  /\ On(s, 2) <=> On(x, 2) ## On(y, 2)
  /\ On(s, 3) <=> On(x, 3) ## On(y, 3)
  /\ On(s, 4) <=> On(x, 4) ## On(y, 4)
  /\ On(s, 5) <=> On(x, 5) ## On(y, 5)
  /\ On(s, 6) <=> On(x, 6) ## On(y, 6)
  /\ On(s, 7) <=> On(x, 7) ## On(y, 7)
TreeBit(s, a, b, c, d, e, f, g, h, i) ==
  On(s, i) <=> ((On(a, i) ## On(b, i)) ## (On(c, i) ## On(d, i)))
               ## ((On(e, i) ## On(f, i)) ## (On(g, i) ## On(h, i)))
TreeAll(s, a, b, c, d, e, f, g, h) ==
  /\ s \in Byte
  /\ TreeBit(s, a, b, c, d, e, f, g, h, 0)
  /\ TreeBit(s, a, b, c, d, e, f, g, h, 1)
  /\ TreeBit(s, a, b, c, d, e, f, g, h, 2)
  /\ TreeBit(s, a, b, c, d, e, f, g, h, 3)
  /\ TreeBit(s, a, b, c, d, e, f, g, h, 4)
  /\ TreeBit(s, a, b, c, d, e, f, g, h, 5)
  /\ TreeBit(s, a, b, c, d, e, f, g, h, 6)
  /\ TreeBit(s, a, b, c, d, e, f, g, h, 7)

\* A bit of a sum of eight bytes, added in pairs.
LEMMA TreeBits ==
  ASSUME NEW a, NEW b, NEW c, NEW d, NEW e, NEW f, NEW g, NEW h,
         EightBytes(a, b, c, d, e, f, g, h)
  PROVE  TreeAll(Tree(a, b, c, d, e, f, g, h), a, b, c, d, e, f, g, h)
<1> USE DEF EightBytes
<1> DEFINE p == a (+) b
           q == c (+) d
           r == e (+) f
           s == g (+) h
           t == p (+) q
           u == r (+) s
<1>1. p \in Byte /\ q \in Byte /\ r \in Byte /\ s \in Byte
  BY XorBits
<1>2. t \in Byte /\ u \in Byte
  <2> HIDE DEF p, q, r, s
  <2> QED
    BY <1>1, XorBits
<1>3. Tree(a, b, c, d, e, f, g, h) = t (+) u
  BY DEF Tree
<1>4. BitSums(p, a, b)
  BY XorBits DEF BitSums
<1>5. BitSums(q, c, d)
  BY XorBits DEF BitSums
<1>6. BitSums(r, e, f)
  BY XorBits DEF BitSums
<1>7. BitSums(s, g, h)
  BY XorBits DEF BitSums
<1>8. BitSums(t, p, q)
  <2> HIDE DEF p, q
  <2> QED
    BY <1>1, XorBits DEF BitSums
<1>9. BitSums(u, r, s)
  <2> HIDE DEF r, s
  <2> QED
    BY <1>1, XorBits DEF BitSums
<1>10. BitSums(t (+) u, t, u)
  <2> HIDE DEF t, u
  <2> QED
    BY <1>2, XorBits DEF BitSums
<1>11. t (+) u \in Byte
  <2> HIDE DEF t, u
  <2> QED
    BY <1>2, XorBits
<1> HIDE DEF p, q, r, s, t, u
<1> QED
  BY <1>3, <1>4, <1>5, <1>6, <1>7, <1>8, <1>9, <1>10, <1>11 DEF TreeAll, TreeBit, BitSums, ##

\* A bit of a multiple that takes part in a product or not.
LEMMA PartBits ==
  ASSUME NEW y, NEW i, NEW z \in Byte
  PROVE  /\ Part(y, i, z) \in Byte
         /\ On(Part(y, i, z), 0) <=> On(y, i) /\ On(z, 0)
         /\ On(Part(y, i, z), 1) <=> On(y, i) /\ On(z, 1)
         /\ On(Part(y, i, z), 2) <=> On(y, i) /\ On(z, 2)
         /\ On(Part(y, i, z), 3) <=> On(y, i) /\ On(z, 3)
         /\ On(Part(y, i, z), 4) <=> On(y, i) /\ On(z, 4)
         /\ On(Part(y, i, z), 5) <=> On(y, i) /\ On(z, 5)
         /\ On(Part(y, i, z), 6) <=> On(y, i) /\ On(z, 6)
         /\ On(Part(y, i, z), 7) <=> On(y, i) /\ On(z, 7)
<1>1. CASE On(y, i)
  BY <1>1 DEF Part
<1>2. CASE ~On(y, i)
  BY <1>2, Constants, Literals DEF Part
<1> QED
  BY <1>1, <1>2

\* One is neutral.
LEMMA ProductOfOne ==
  ASSUME NEW y \in Byte
  PROVE  Product[1][y] = y
<1> DEFINE b == XTIME[1]
           c == XTIME[b]
           d == XTIME[c]
           e == XTIME[d]
           f == XTIME[e]
           g == XTIME[f]
           h == XTIME[g]
<1>1. Has(1, {0})
  BY Constants, Literals DEF Has
<1>2. Has(b, {1})
  BY <1>1, XtimeBits DEF Has, ##
<1>3. Has(c, {2})
  <2> HIDE DEF b
  <2> QED
    BY <1>2, XtimeBits DEF Has, ##
<1>4. Has(d, {3})
  <2> HIDE DEF c
  <2> QED
    BY <1>3, XtimeBits DEF Has, ##
<1>5. Has(e, {4})
  <2> HIDE DEF d
  <2> QED
    BY <1>4, XtimeBits DEF Has, ##
<1>6. Has(f, {5})
  <2> HIDE DEF e
  <2> QED
    BY <1>5, XtimeBits DEF Has, ##
<1>7. Has(g, {6})
  <2> HIDE DEF f
  <2> QED
    BY <1>6, XtimeBits DEF Has, ##
<1>8. Has(h, {7})
  <2> HIDE DEF g
  <2> QED
    BY <1>7, XtimeBits DEF Has, ##
<1>9. Multiples8(1, b, c, d, e, f, g, h)
  BY Zenon DEF Multiples8
<1> HIDE DEF b, c, d, e, f, g, h
<1> DEFINE p == Part(y, 0, 1)
           q == Part(y, 1, b)
           r == Part(y, 2, c)
           s == Part(y, 3, d)
           t == Part(y, 4, e)
           u == Part(y, 5, f)
           v == Part(y, 6, g)
           w == Part(y, 7, h)
<1>10. /\ p \in Byte
       /\ On(p, 0) <=> On(y, 0)
       /\ ~On(p, 1)
       /\ ~On(p, 2)
       /\ ~On(p, 3)
       /\ ~On(p, 4)
       /\ ~On(p, 5)
       /\ ~On(p, 6)
       /\ ~On(p, 7)
  BY <1>1, PartBits DEF Has
<1>11. /\ q \in Byte
       /\ ~On(q, 0)
       /\ On(q, 1) <=> On(y, 1)
       /\ ~On(q, 2)
       /\ ~On(q, 3)
       /\ ~On(q, 4)
       /\ ~On(q, 5)
       /\ ~On(q, 6)
       /\ ~On(q, 7)
  BY <1>2, PartBits DEF Has
<1>12. /\ r \in Byte
       /\ ~On(r, 0)
       /\ ~On(r, 1)
       /\ On(r, 2) <=> On(y, 2)
       /\ ~On(r, 3)
       /\ ~On(r, 4)
       /\ ~On(r, 5)
       /\ ~On(r, 6)
       /\ ~On(r, 7)
  BY <1>3, PartBits DEF Has
<1>13. /\ s \in Byte
       /\ ~On(s, 0)
       /\ ~On(s, 1)
       /\ ~On(s, 2)
       /\ On(s, 3) <=> On(y, 3)
       /\ ~On(s, 4)
       /\ ~On(s, 5)
       /\ ~On(s, 6)
       /\ ~On(s, 7)
  BY <1>4, PartBits DEF Has
<1>14. /\ t \in Byte
       /\ ~On(t, 0)
       /\ ~On(t, 1)
       /\ ~On(t, 2)
       /\ ~On(t, 3)
       /\ On(t, 4) <=> On(y, 4)
       /\ ~On(t, 5)
       /\ ~On(t, 6)
       /\ ~On(t, 7)
  BY <1>5, PartBits DEF Has
<1>15. /\ u \in Byte
       /\ ~On(u, 0)
       /\ ~On(u, 1)
       /\ ~On(u, 2)
       /\ ~On(u, 3)
       /\ ~On(u, 4)
       /\ On(u, 5) <=> On(y, 5)
       /\ ~On(u, 6)
       /\ ~On(u, 7)
  BY <1>6, PartBits DEF Has
<1>16. /\ v \in Byte
       /\ ~On(v, 0)
       /\ ~On(v, 1)
       /\ ~On(v, 2)
       /\ ~On(v, 3)
       /\ ~On(v, 4)
       /\ ~On(v, 5)
       /\ On(v, 6) <=> On(y, 6)
       /\ ~On(v, 7)
  BY <1>7, PartBits DEF Has
<1>17. /\ w \in Byte
       /\ ~On(w, 0)
       /\ ~On(w, 1)
       /\ ~On(w, 2)
       /\ ~On(w, 3)
       /\ ~On(w, 4)
       /\ ~On(w, 5)
       /\ ~On(w, 6)
       /\ On(w, 7) <=> On(y, 7)
  BY <1>8, PartBits DEF Has
<1>18. Product[1][y] = Tree(p, q, r, s, t, u, v, w)
  BY <1>9, Constants, ProductParts
<1> HIDE DEF p, q, r, s, t, u, v, w
<1>19. EightBytes(p, q, r, s, t, u, v, w)
  BY <1>10, <1>11, <1>12, <1>13, <1>14, <1>15, <1>16, <1>17 DEF EightBytes
<1>20. TreeAll(Product[1][y], p, q, r, s, t, u, v, w)
  BY <1>18, <1>19, TreeBits
<1> QED
  BY <1>10, <1>11, <1>12, <1>13, <1>14, <1>15, <1>16, <1>17, <1>20, SameBits
     DEF TreeAll, TreeBit, ##

\* The factors of MixColumns.
LEMMA SmallProducts ==
  ASSUME NEW x \in Byte
  PROVE  Product[x][2] = XTIME[x] /\ Product[x][3] = x (+) XTIME[x]
<1> DEFINE b == XTIME[x]
           c == XTIME[b]
           d == XTIME[c]
           e == XTIME[d]
           f == XTIME[e]
           g == XTIME[f]
           h == XTIME[g]
<1>1. Multiples8(x, b, c, d, e, f, g, h)
  BY Zenon DEF Multiples8
<1>2. /\ 2 \in Byte /\ 3 \in Byte
      /\ 2 = 0 + 2 * 1 + 4 * 0 + 8 * 0 + 16 * 0 + 32 * 0 + 64 * 0 + 128 * 0
      /\ 3 = 1 + 2 * 1 + 4 * 0 + 8 * 0 + 16 * 0 + 32 * 0 + 64 * 0 + 128 * 0
  BY DEF Byte
<1>3. Has(2, {1}) /\ Has(3, {0, 1})
  <2>1. 0 \in {0, 1} /\ 1 \in {0, 1}
    OBVIOUS
  <2> QED
    BY <1>2, <2>1, SumOfBits DEF On, Has
<1>4. EightBytes(x, b, c, d, e, f, g, h)
  <2> HIDE DEF b, c, d, e, f, g, h
  <2> QED
    BY <1>1, <1>2, ProductParts
<1> HIDE DEF b, c, d, e, f, g, h
<1>5. Product[x][2] = Tree(0, b, 0, 0, 0, 0, 0, 0)
  <2>1. /\ Part(2, 0, x) = 0 /\ Part(2, 1, b) = b /\ Part(2, 2, c) = 0 /\ Part(2, 3, d) = 0
        /\ Part(2, 4, e) = 0 /\ Part(2, 5, f) = 0 /\ Part(2, 6, g) = 0 /\ Part(2, 7, h) = 0
    BY <1>3 DEF Part, Has
  <2>2. Product[x][2] = Tree(Part(2, 0, x), Part(2, 1, b), Part(2, 2, c), Part(2, 3, d),
                             Part(2, 4, e), Part(2, 5, f), Part(2, 6, g), Part(2, 7, h))
    BY <1>1, <1>2, ProductParts
  <2> QED
    BY <2>1, <2>2, Zenon
<1>6. Product[x][3] = Tree(x, b, 0, 0, 0, 0, 0, 0)
  <2>1. /\ Part(3, 0, x) = x /\ Part(3, 1, b) = b /\ Part(3, 2, c) = 0 /\ Part(3, 3, d) = 0
        /\ Part(3, 4, e) = 0 /\ Part(3, 5, f) = 0 /\ Part(3, 6, g) = 0 /\ Part(3, 7, h) = 0
    BY <1>3 DEF Part, Has
  <2>2. Product[x][3] = Tree(Part(3, 0, x), Part(3, 1, b), Part(3, 2, c), Part(3, 3, d),
                             Part(3, 4, e), Part(3, 5, f), Part(3, 6, g), Part(3, 7, h))
    BY <1>1, <1>2, ProductParts
  <2> QED
    BY <2>1, <2>2, Zenon
<1>7. x \in Byte /\ b \in Byte /\ 0 \in Byte
  BY <1>4, Constants DEF EightBytes
<1>8. 0 (+) b = b /\ 0 (+) 0 = 0 /\ b (+) 0 = b /\ x (+) b \in Byte /\ (x (+) b) (+) 0 = x (+) b
  BY <1>7, XorLaws
<1>9. Tree(0, b, 0, 0, 0, 0, 0, 0) = b /\ Tree(x, b, 0, 0, 0, 0, 0, 0) = x (+) b
  BY <1>8, Zenon DEF Tree
<1> QED
  BY <1>5, <1>6, <1>9 DEF b

\* Times3 is linear and commutes with XTIME.
LEMMA ThreeLinear ==
  ASSUME NEW x \in Byte, NEW y \in Byte
  PROVE  /\ Times3[x (+) y] = Times3[x] (+) Times3[y]
         /\ Times3[XTIME[x]] = XTIME[Times3[x]]
         /\ Times3[0] = 0
<1>1. /\ x (+) y \in Byte /\ XTIME[x] \in Byte /\ XTIME[y] \in Byte /\ 0 \in Byte
      /\ XTIME[0] \in Byte
  BY XorLaws, XtimeBits, Constants
<1>2. \A z \in Byte : Times3[z] = z (+) XTIME[z] /\ Times3[z] \in Byte
  BY ThreeTimes DEF Plus
<1>3. Times3[x (+) y] = Times3[x] (+) Times3[y]
  <2> DEFINE u == XTIME[x]
             v == XTIME[y]
  <2>1. u \in Byte /\ v \in Byte /\ XTIME[x (+) y] = u (+) v
    BY <1>1, XtimeLinear DEF Linear
  <2>2. /\ Times3[x (+) y] = (x (+) y) (+) (u (+) v)
        /\ Times3[x] (+) Times3[y] = (x (+) u) (+) (y (+) v)
    BY <1>1, <1>2, <2>1
  <2> HIDE DEF u, v
  <2>3. /\ u (+) v \in Byte /\ y (+) u \in Byte /\ x (+) u \in Byte /\ y (+) v \in Byte
        /\ (x (+) y) (+) (u (+) v) = x (+) (y (+) (u (+) v))
        /\ y (+) (u (+) v) = (y (+) u) (+) v /\ y (+) u = u (+) y
        /\ (u (+) y) (+) v = u (+) (y (+) v)
    BY <2>1, XorLaws
  <2>4. (x (+) u) (+) (y (+) v) = x (+) (u (+) (y (+) v))
    BY <2>1, <2>3, XorLaws
  <2> QED
    BY <2>2, <2>3, <2>4, Zenon
<1>4. Times3[XTIME[x]] = XTIME[Times3[x]]
  <2>1. XTIME[x (+) XTIME[x]] = XTIME[x] (+) XTIME[XTIME[x]]
    BY <1>1, XtimeLinear DEF Linear
  <2> QED
    BY <1>1, <1>2, <2>1
<1>5. Times3[0] = 0
  <2>1. 0 (+) 0 = 0
    BY Constants, XorLaws
  <2>2. XTIME[0] = 0
    BY <1>1, Literals, XtimeBits, SameBits DEF ##
  <2> QED
    BY <1>1, <1>2, <2>1, <2>2
<1> QED
  BY <1>3, <1>4, <1>5

\* A product is tripled with its factor.
LEMMA ProductOfThree ==
  ASSUME NEW x \in Byte, NEW y \in Byte
  PROVE  Product[x][y] \in Byte /\ Product[Times3[x]][y] = Times3[Product[x][y]]
<1> DEFINE b == XTIME[x]
           c == XTIME[b]
           d == XTIME[c]
           e == XTIME[d]
           f == XTIME[e]
           g == XTIME[f]
           h == XTIME[g]
<1>1. Multiples8(x, b, c, d, e, f, g, h)
  BY Zenon DEF Multiples8
<1> HIDE DEF b, c, d, e, f, g, h
<1>2. /\ EightBytes(x, b, c, d, e, f, g, h)
      /\ Product[x][y] = Tree(Part(y, 0, x), Part(y, 1, b), Part(y, 2, c), Part(y, 3, d),
                              Part(y, 4, e), Part(y, 5, f), Part(y, 6, g), Part(y, 7, h))
  BY <1>1, ProductParts
<1>3. Multiples8(Times3[x], Times3[b], Times3[c], Times3[d], Times3[e], Times3[f],
                 Times3[g], Times3[h])
  BY <1>1, <1>2, ThreeLinear, ZenonT(60) DEF Multiples8, EightBytes
<1>4. Times3[x] \in Byte
  BY ThreeTimes
<1>5. Product[Times3[x]][y] =
        Tree(Part(y, 0, Times3[x]), Part(y, 1, Times3[b]), Part(y, 2, Times3[c]),
             Part(y, 3, Times3[d]), Part(y, 4, Times3[e]), Part(y, 5, Times3[f]),
             Part(y, 6, Times3[g]), Part(y, 7, Times3[h]))
  BY <1>3, <1>4, ProductParts
<1>6. \A i, z : z \in Byte => /\ Part(y, i, z) \in Byte
                             /\ Part(y, i, Times3[z]) = Times3[Part(y, i, z)]
  BY Constants, ThreeLinear DEF Part
<1> DEFINE p == Part(y, 0, x)
           q == Part(y, 1, b)
           r == Part(y, 2, c)
           s == Part(y, 3, d)
           t == Part(y, 4, e)
           u == Part(y, 5, f)
           v == Part(y, 6, g)
           w == Part(y, 7, h)
<1>7. EightBytes(p, q, r, s, t, u, v, w)
  BY <1>2, <1>6 DEF EightBytes
<1>8. Product[Times3[x]][y] = Tree(Times3[p], Times3[q], Times3[r], Times3[s],
                                   Times3[t], Times3[u], Times3[v], Times3[w])
  <2>1. /\ Part(y, 0, Times3[x]) = Times3[p] /\ Part(y, 1, Times3[b]) = Times3[q]
        /\ Part(y, 2, Times3[c]) = Times3[r] /\ Part(y, 3, Times3[d]) = Times3[s]
        /\ Part(y, 4, Times3[e]) = Times3[t] /\ Part(y, 5, Times3[f]) = Times3[u]
        /\ Part(y, 6, Times3[g]) = Times3[v] /\ Part(y, 7, Times3[h]) = Times3[w]
    BY <1>2, <1>6 DEF EightBytes
  <2> QED
    BY <1>5, <2>1, Zenon
<1>9. Product[x][y] = Tree(p, q, r, s, t, u, v, w)
  BY <1>2
<1> HIDE DEF p, q, r, s, t, u, v, w
<1>10. Times3[Tree(p, q, r, s, t, u, v, w)] =
         Tree(Times3[p], Times3[q], Times3[r], Times3[s],
              Times3[t], Times3[u], Times3[v], Times3[w])
  <2> DEFINE pq == p (+) q
             rs == r (+) s
             tu == t (+) u
             vw == v (+) w
             ps == pq (+) rs
             tw == tu (+) vw
  <2>1. /\ pq \in Byte /\ Times3[pq] = Times3[p] (+) Times3[q]
        /\ rs \in Byte /\ Times3[rs] = Times3[r] (+) Times3[s]
        /\ tu \in Byte /\ Times3[tu] = Times3[t] (+) Times3[u]
        /\ vw \in Byte /\ Times3[vw] = Times3[v] (+) Times3[w]
    BY <1>7, XorLaws, ThreeLinear DEF EightBytes
  <2>2. /\ ps \in Byte /\ Times3[ps] = Times3[pq] (+) Times3[rs]
        /\ tw \in Byte /\ Times3[tw] = Times3[tu] (+) Times3[vw]
    <3> HIDE DEF pq, rs, tu, vw
    <3> QED
      BY <2>1, XorLaws, ThreeLinear
  <2>3. Times3[ps (+) tw] = Times3[ps] (+) Times3[tw]
    <3> HIDE DEF ps, tw
    <3> QED
      BY <2>2, ThreeLinear
  <2> QED
    BY <2>1, <2>2, <2>3, Zenon DEF Tree
<1>11. Product[x][y] \in Byte
  BY <1>7, <1>9, TreeBits DEF TreeAll
<1> QED
  BY <1>8, <1>9, <1>10, <1>11

\* A product with zero is zero.
LEMMA ProductOfZero ==
  ASSUME NEW x \in Byte
  PROVE  Product[x][0] = 0
<1> DEFINE b == XTIME[x]
           c == XTIME[b]
           d == XTIME[c]
           e == XTIME[d]
           f == XTIME[e]
           g == XTIME[f]
           h == XTIME[g]
<1>1. Multiples8(x, b, c, d, e, f, g, h)
  BY Zenon DEF Multiples8
<1> HIDE DEF b, c, d, e, f, g, h
<1>2. Product[x][0] = Tree(Part(0, 0, x), Part(0, 1, b), Part(0, 2, c), Part(0, 3, d),
                           Part(0, 4, e), Part(0, 5, f), Part(0, 6, g), Part(0, 7, h))
  BY <1>1, Constants, ProductParts
<1>3. /\ Part(0, 0, x) = 0 /\ Part(0, 1, b) = 0 /\ Part(0, 2, c) = 0 /\ Part(0, 3, d) = 0
      /\ Part(0, 4, e) = 0 /\ Part(0, 5, f) = 0 /\ Part(0, 6, g) = 0 /\ Part(0, 7, h) = 0
  BY Literals DEF Part
<1>4. 0 (+) 0 = 0
  BY Constants, XorLaws
<1> QED
  BY <1>2, <1>3, <1>4, Zenon DEF Tree

\* Powers of 3 are multiplied by adding their logarithms.
LEMMA ProductOfPowers ==
  ASSUME NEW k \in 0 .. 255
  PROVE  /\ \A j \in 0 .. 255 - k : Product[pow[k]][pow[j]] = pow[k + j]
         /\ \A y, z \in Byte : Product[pow[k]][y] = Product[pow[k]][z] => y = z
<1> DEFINE Adds(n) == \A j \in 0 .. 255 - n : Product[pow[n]][pow[j]] = pow[n + j]
           Cancels(n) == \A y, z \in Byte : Product[pow[n]][y] = Product[pow[n]][z] => y = z
           K == {n \in 0 .. 255 : Adds(n) /\ Cancels(n)}
<1>1. \A i \in 0 .. 255 : pow[i] \in Byte
  BY Powers DEF Byte
<1>2. 0 \in K
  <2>1. Adds(0)
    BY <1>1, Powers, ProductOfOne
  <2>2. Cancels(0)
    BY Powers, ProductOfOne
  <2> HIDE DEF Adds, Cancels
  <2> QED
    BY <2>1, <2>2
<1>3. ASSUME NEW n \in 0 .. 255 - 1, n \in K PROVE n + 1 \in K
  <2>1. n \in 0 .. 255 /\ n \in 0 .. 254 /\ n + 1 \in 0 .. 255
    OBVIOUS
  <2>2. pow[n] \in Byte /\ pow[n + 1] = Times3[pow[n]]
    BY <1>1, <2>1, Powers
  <2>3. \A y \in Byte : /\ Product[pow[n]][y] \in Byte
                        /\ Product[pow[n + 1]][y] = Times3[Product[pow[n]][y]]
    BY <2>2, ProductOfThree
  <2>4. ASSUME NEW j \in 0 .. 255 - (n + 1)
        PROVE  Product[pow[n + 1]][pow[j]] = pow[(n + 1) + j]
    <3>1. /\ j \in 0 .. 255 - n /\ j \in 0 .. 255 /\ n + j \in 0 .. 254
          /\ (n + 1) + j = (n + j) + 1
      BY <2>1
    <3>2. Product[pow[n]][pow[j]] = pow[n + j]
      BY <1>3, <3>1
    <3>3. pow[(n + j) + 1] = Times3[pow[n + j]]
      BY <3>1, Powers
    <3>4. pow[j] \in Byte
      BY <1>1, <3>1
    <3> QED
      BY <2>3, <3>1, <3>2, <3>3, <3>4
  <2>5. ASSUME NEW y \in Byte, NEW z \in Byte, Product[pow[n + 1]][y] = Product[pow[n + 1]][z]
        PROVE  y = z
    <3>1. Product[pow[n]][y] = Product[pow[n]][z]
      BY <2>3, <2>5, ThreeInjective
    <3> QED
      BY <1>3, <3>1
  <2> QED
    BY <2>1, <2>4, <2>5
<1>4. \A n \in 0 .. 255 : n \in K
  <2> HIDE DEF K
  <2> QED
    BY <1>2, <1>3, Upwards, SMTT(60)
<1>5. k \in K
  BY <1>4, ZenonT(60)
<1> QED
  BY <1>5, SMTT(60)

\* The inverse that AesGenTables finds by logarithms is the only one.
LEMMA Inverses ==
  ASSUME NEW x \in 1 .. 255
  PROVE  /\ pow[255 - log[x]] \in Byte
         /\ pow[255 - log[x]] = CHOOSE y \in 1 .. 255 : Product[x][y] = 1
<1> DEFINE k == log[x]
           j == 255 - k
<1>1. k \in 1 .. 255 /\ pow[k] = x
  BY Logarithms, ZenonT(60)
<1> HIDE DEF k
<1>2. k \in 0 .. 255 /\ j \in 0 .. 255 - k /\ k + j = 255 /\ j \in Byte
  BY <1>1 DEF Byte
<1>0. /\ \A i \in 0 .. 255 - k : Product[pow[k]][pow[i]] = pow[k + i]
      /\ \A y, z \in Byte : Product[pow[k]][y] = Product[pow[k]][z] => y = z
  <2>1. k \in 0 .. 255
    BY <1>2
  <2> HIDE DEF j
  <2> QED
    BY <2>1, ProductOfPowers
<1>3. Product[x][pow[j]] = 1
  <2> HIDE DEF j
  <2>1. Product[pow[k]][pow[j]] = pow[k + j]
    BY <1>0, <1>2, Zenon
  <2> QED
    BY <1>1, <1>2, <2>1, PowersOfThree
<1>4. pow[j] \in Byte
  BY <1>2, Powers
<1>5. \A y, z \in Byte : Product[x][y] = Product[x][z] => y = z
  BY <1>0, <1>1, Zenon
<1>6. pow[j] # 0
  <2>1. Product[x][0] = 0
    <3> SUFFICES x \in Byte
      BY ProductOfZero
    <3> QED
      BY DEF Byte
  <2> QED
    BY <1>3, <2>1
<1>7. pow[j] \in 1 .. 255
  BY <1>4, <1>6 DEF Byte
<1>8. \A y \in 1 .. 255 : y \in Byte
  BY DEF Byte
<1> HIDE DEF j
<1>9. pow[j] = CHOOSE y \in 1 .. 255 : Product[x][y] = 1
  BY <1>3, <1>4, <1>5, <1>7, <1>8, Zenon
<1> QED
  BY <1>4, <1>9 DEF j, k

-----------------------------------------------------------------------------
(* The S-box.                                                              *)

\* A bit of a rotated byte is the bit below it, the lowest the highest.
LEMMA RotateBits ==
  ASSUME NEW x \in Byte
  PROVE  /\ RotateLeft[x] \in Byte
         /\ On(RotateLeft[x], 0) <=> On(x, 7)
         /\ On(RotateLeft[x], 1) <=> On(x, 0)
         /\ On(RotateLeft[x], 2) <=> On(x, 1)
         /\ On(RotateLeft[x], 3) <=> On(x, 2)
         /\ On(RotateLeft[x], 4) <=> On(x, 3)
         /\ On(RotateLeft[x], 5) <=> On(x, 4)
         /\ On(RotateLeft[x], 6) <=> On(x, 5)
         /\ On(RotateLeft[x], 7) <=> On(x, 6)
<1> DEFINE r == RotateLeft[x]
<1>1. r = ((2 * x) % 256) + (x \div 128)
  BY DEF RotateLeft
<1>2. \A i \in 0 .. 7 : Bit(x, i) \in {0, 1}
  BY ByteBits
<1>3. x = Bit(x, 0) + 2 * Bit(x, 1) + 4 * Bit(x, 2) + 8 * Bit(x, 3) + 16 * Bit(x, 4)
          + 32 * Bit(x, 5) + 64 * Bit(x, 6) + 128 * Bit(x, 7)
  BY ByteBits
<1> HIDE DEF r
<1>4. r = Bit(x, 7) + 2 * Bit(x, 0) + 4 * Bit(x, 1) + 8 * Bit(x, 2) + 16 * Bit(x, 3)
          + 32 * Bit(x, 4) + 64 * Bit(x, 5) + 128 * Bit(x, 6)
  BY <1>1, <1>2, <1>3
<1>5. /\ r \in Byte
      /\ Bit(r, 0) = Bit(x, 7) /\ Bit(r, 1) = Bit(x, 0) /\ Bit(r, 2) = Bit(x, 1)
      /\ Bit(r, 3) = Bit(x, 2) /\ Bit(r, 4) = Bit(x, 3) /\ Bit(r, 5) = Bit(x, 4)
      /\ Bit(r, 6) = Bit(x, 5) /\ Bit(r, 7) = Bit(x, 6)
  BY <1>2, <1>4, SumOfBits
<1> QED
  BY <1>5 DEF r, On

\* The parity of six bits.
LEMMA Parity ==
  ASSUME NEW a \in {0, 1}, NEW b \in {0, 1}, NEW c \in {0, 1}, NEW d \in {0, 1},
         NEW e \in {0, 1}, NEW f \in {0, 1}
  PROVE  /\ (a + b + c + d + e + f) % 2 \in {0, 1}
         /\ ((a + b + c + d + e + f) % 2 = 1) <=>
              (a = 1) ## (b = 1) ## (c = 1) ## (d = 1) ## (e = 1) ## (f = 1)
BY DEF ##

\* A bit of the affine image of SubBytes is a sum of five bits and the
\* constant.
LEMMA AffineImageBits ==
  ASSUME NEW v \in Byte
  PROVE  /\ AffineImage(v) \in Byte
         /\ On(AffineImage(v), 0) <=> On(v, 0) ## On(v, 4) ## On(v, 5) ## On(v, 6) ## On(v, 7) ## On(99, 0)
         /\ On(AffineImage(v), 1) <=> On(v, 1) ## On(v, 5) ## On(v, 6) ## On(v, 7) ## On(v, 0) ## On(99, 1)
         /\ On(AffineImage(v), 2) <=> On(v, 2) ## On(v, 6) ## On(v, 7) ## On(v, 0) ## On(v, 1) ## On(99, 2)
         /\ On(AffineImage(v), 3) <=> On(v, 3) ## On(v, 7) ## On(v, 0) ## On(v, 1) ## On(v, 2) ## On(99, 3)
         /\ On(AffineImage(v), 4) <=> On(v, 4) ## On(v, 0) ## On(v, 1) ## On(v, 2) ## On(v, 3) ## On(99, 4)
         /\ On(AffineImage(v), 5) <=> On(v, 5) ## On(v, 1) ## On(v, 2) ## On(v, 3) ## On(v, 4) ## On(99, 5)
         /\ On(AffineImage(v), 6) <=> On(v, 6) ## On(v, 2) ## On(v, 3) ## On(v, 4) ## On(v, 5) ## On(99, 6)
         /\ On(AffineImage(v), 7) <=> On(v, 7) ## On(v, 3) ## On(v, 4) ## On(v, 5) ## On(v, 6) ## On(99, 7)
<1>1. /\ Bit(v, 0) \in {0, 1} /\ Bit(v, 1) \in {0, 1} /\ Bit(v, 2) \in {0, 1}
      /\ Bit(v, 3) \in {0, 1} /\ Bit(v, 4) \in {0, 1} /\ Bit(v, 5) \in {0, 1}
      /\ Bit(v, 6) \in {0, 1} /\ Bit(v, 7) \in {0, 1}
  BY ByteBits
<1>2. /\ Bit(99, 0) \in {0, 1} /\ Bit(99, 1) \in {0, 1} /\ Bit(99, 2) \in {0, 1}
      /\ Bit(99, 3) \in {0, 1} /\ Bit(99, 4) \in {0, 1} /\ Bit(99, 5) \in {0, 1}
      /\ Bit(99, 6) \in {0, 1} /\ Bit(99, 7) \in {0, 1}
  <2>1. 99 \in Byte
    BY DEF Byte
  <2> QED
    BY <2>1, ByteBits
<1>3. /\ AffineBit(v, 0) \in {0, 1}
      /\ (AffineBit(v, 0) = 1) <=> On(v, 0) ## On(v, 4) ## On(v, 5) ## On(v, 6) ## On(v, 7) ## On(99, 0)
  <2>1. AffineBit(v, 0) = (Bit(v, 0) + Bit(v, 4) + Bit(v, 5) + Bit(v, 6) + Bit(v, 7) + Bit(99, 0)) % 2
    BY DEF AffineBit
  <2> QED
    BY <1>1, <1>2, <2>1, Parity DEF On
<1>4. /\ AffineBit(v, 1) \in {0, 1}
      /\ (AffineBit(v, 1) = 1) <=> On(v, 1) ## On(v, 5) ## On(v, 6) ## On(v, 7) ## On(v, 0) ## On(99, 1)
  <2>1. AffineBit(v, 1) = (Bit(v, 1) + Bit(v, 5) + Bit(v, 6) + Bit(v, 7) + Bit(v, 0) + Bit(99, 1)) % 2
    BY DEF AffineBit
  <2> QED
    BY <1>1, <1>2, <2>1, Parity DEF On
<1>5. /\ AffineBit(v, 2) \in {0, 1}
      /\ (AffineBit(v, 2) = 1) <=> On(v, 2) ## On(v, 6) ## On(v, 7) ## On(v, 0) ## On(v, 1) ## On(99, 2)
  <2>1. AffineBit(v, 2) = (Bit(v, 2) + Bit(v, 6) + Bit(v, 7) + Bit(v, 0) + Bit(v, 1) + Bit(99, 2)) % 2
    BY DEF AffineBit
  <2> QED
    BY <1>1, <1>2, <2>1, Parity DEF On
<1>6. /\ AffineBit(v, 3) \in {0, 1}
      /\ (AffineBit(v, 3) = 1) <=> On(v, 3) ## On(v, 7) ## On(v, 0) ## On(v, 1) ## On(v, 2) ## On(99, 3)
  <2>1. AffineBit(v, 3) = (Bit(v, 3) + Bit(v, 7) + Bit(v, 0) + Bit(v, 1) + Bit(v, 2) + Bit(99, 3)) % 2
    BY DEF AffineBit
  <2> QED
    BY <1>1, <1>2, <2>1, Parity DEF On
<1>7. /\ AffineBit(v, 4) \in {0, 1}
      /\ (AffineBit(v, 4) = 1) <=> On(v, 4) ## On(v, 0) ## On(v, 1) ## On(v, 2) ## On(v, 3) ## On(99, 4)
  <2>1. AffineBit(v, 4) = (Bit(v, 4) + Bit(v, 0) + Bit(v, 1) + Bit(v, 2) + Bit(v, 3) + Bit(99, 4)) % 2
    BY DEF AffineBit
  <2> QED
    BY <1>1, <1>2, <2>1, Parity DEF On
<1>8. /\ AffineBit(v, 5) \in {0, 1}
      /\ (AffineBit(v, 5) = 1) <=> On(v, 5) ## On(v, 1) ## On(v, 2) ## On(v, 3) ## On(v, 4) ## On(99, 5)
  <2>1. AffineBit(v, 5) = (Bit(v, 5) + Bit(v, 1) + Bit(v, 2) + Bit(v, 3) + Bit(v, 4) + Bit(99, 5)) % 2
    BY DEF AffineBit
  <2> QED
    BY <1>1, <1>2, <2>1, Parity DEF On
<1>9. /\ AffineBit(v, 6) \in {0, 1}
      /\ (AffineBit(v, 6) = 1) <=> On(v, 6) ## On(v, 2) ## On(v, 3) ## On(v, 4) ## On(v, 5) ## On(99, 6)
  <2>1. AffineBit(v, 6) = (Bit(v, 6) + Bit(v, 2) + Bit(v, 3) + Bit(v, 4) + Bit(v, 5) + Bit(99, 6)) % 2
    BY DEF AffineBit
  <2> QED
    BY <1>1, <1>2, <2>1, Parity DEF On
<1>10. /\ AffineBit(v, 7) \in {0, 1}
       /\ (AffineBit(v, 7) = 1) <=> On(v, 7) ## On(v, 3) ## On(v, 4) ## On(v, 5) ## On(v, 6) ## On(99, 7)
  <2>1. AffineBit(v, 7) = (Bit(v, 7) + Bit(v, 3) + Bit(v, 4) + Bit(v, 5) + Bit(v, 6) + Bit(99, 7)) % 2
    BY DEF AffineBit
  <2> QED
    BY <1>1, <1>2, <2>1, Parity DEF On
<1>11. /\ AffineImage(v) \in Byte
       /\ Bit(AffineImage(v), 0) = AffineBit(v, 0) /\ Bit(AffineImage(v), 1) = AffineBit(v, 1)
       /\ Bit(AffineImage(v), 2) = AffineBit(v, 2) /\ Bit(AffineImage(v), 3) = AffineBit(v, 3)
       /\ Bit(AffineImage(v), 4) = AffineBit(v, 4) /\ Bit(AffineImage(v), 5) = AffineBit(v, 5)
       /\ Bit(AffineImage(v), 6) = AffineBit(v, 6) /\ Bit(AffineImage(v), 7) = AffineBit(v, 7)
  <2> DEFINE w == AffineImage(v)
  <2>1. w = AffineBit(v, 0) + 2 * AffineBit(v, 1) + 4 * AffineBit(v, 2) + 8 * AffineBit(v, 3)
            + 16 * AffineBit(v, 4) + 32 * AffineBit(v, 5) + 64 * AffineBit(v, 6)
            + 128 * AffineBit(v, 7)
    BY DEF AffineImage
  <2>2. /\ AffineBit(v, 0) \in {0, 1} /\ AffineBit(v, 1) \in {0, 1}
        /\ AffineBit(v, 2) \in {0, 1} /\ AffineBit(v, 3) \in {0, 1}
        /\ AffineBit(v, 4) \in {0, 1} /\ AffineBit(v, 5) \in {0, 1}
        /\ AffineBit(v, 6) \in {0, 1} /\ AffineBit(v, 7) \in {0, 1}
    BY <1>3, <1>4, <1>5, <1>6, <1>7, <1>8, <1>9, <1>10
  <2> HIDE DEF w
  <2>3. /\ w \in Byte
        /\ Bit(w, 0) = AffineBit(v, 0) /\ Bit(w, 1) = AffineBit(v, 1)
        /\ Bit(w, 2) = AffineBit(v, 2) /\ Bit(w, 3) = AffineBit(v, 3)
        /\ Bit(w, 4) = AffineBit(v, 4) /\ Bit(w, 5) = AffineBit(v, 5)
        /\ Bit(w, 6) = AffineBit(v, 6) /\ Bit(w, 7) = AffineBit(v, 7)
    BY <2>1, <2>2, SumOfBits
  <2> QED
    BY <2>3 DEF w
<1> HIDE DEF AffineImage
<1> QED
  BY <1>3, <1>4, <1>5, <1>6, <1>7, <1>8, <1>9, <1>10, <1>11 DEF On

\* The rotations of the code make the affine image.
LEMMA AffineAgrees ==
  ASSUME NEW v \in Byte
  PROVE  Affine[v] = AffineImage(v) /\ AffineImage(v) \in Byte
<1> DEFINE v1 == RotateLeft[v]
           v2 == RotateLeft[v1]
           v3 == RotateLeft[v2]
           v4 == RotateLeft[v3]
<1>1. /\ v1 \in Byte
      /\ On(v1, 0) <=> On(v, 7)
      /\ On(v1, 1) <=> On(v, 0)
      /\ On(v1, 2) <=> On(v, 1)
      /\ On(v1, 3) <=> On(v, 2)
      /\ On(v1, 4) <=> On(v, 3)
      /\ On(v1, 5) <=> On(v, 4)
      /\ On(v1, 6) <=> On(v, 5)
      /\ On(v1, 7) <=> On(v, 6)
  BY RotateBits
<1>2. /\ v2 \in Byte
      /\ On(v2, 0) <=> On(v, 6)
      /\ On(v2, 1) <=> On(v, 7)
      /\ On(v2, 2) <=> On(v, 0)
      /\ On(v2, 3) <=> On(v, 1)
      /\ On(v2, 4) <=> On(v, 2)
      /\ On(v2, 5) <=> On(v, 3)
      /\ On(v2, 6) <=> On(v, 4)
      /\ On(v2, 7) <=> On(v, 5)
  <2> HIDE DEF v1
  <2> QED
    BY <1>1, RotateBits
<1>3. /\ v3 \in Byte
      /\ On(v3, 0) <=> On(v, 5)
      /\ On(v3, 1) <=> On(v, 6)
      /\ On(v3, 2) <=> On(v, 7)
      /\ On(v3, 3) <=> On(v, 0)
      /\ On(v3, 4) <=> On(v, 1)
      /\ On(v3, 5) <=> On(v, 2)
      /\ On(v3, 6) <=> On(v, 3)
      /\ On(v3, 7) <=> On(v, 4)
  <2> HIDE DEF v2
  <2> QED
    BY <1>2, RotateBits
<1>4. /\ v4 \in Byte
      /\ On(v4, 0) <=> On(v, 4)
      /\ On(v4, 1) <=> On(v, 5)
      /\ On(v4, 2) <=> On(v, 6)
      /\ On(v4, 3) <=> On(v, 7)
      /\ On(v4, 4) <=> On(v, 0)
      /\ On(v4, 5) <=> On(v, 1)
      /\ On(v4, 6) <=> On(v, 2)
      /\ On(v4, 7) <=> On(v, 3)
  <2> HIDE DEF v3
  <2> QED
    BY <1>3, RotateBits
<1>5. Affine[v] = (v (+) (v1 (+) v2)) (+) ((v3 (+) v4) (+) 99)
  BY Zenon DEF Affine, (+)
<1> HIDE DEF v1, v2, v3, v4
<1>6. 99 \in Byte
  BY DEF Byte
<1>7. BitSums(v1 (+) v2, v1, v2) /\ BitSums(v3 (+) v4, v3, v4)
  BY <1>1, <1>2, <1>3, <1>4, XorBits DEF BitSums
<1>8. BitSums(v (+) (v1 (+) v2), v, v1 (+) v2) /\ BitSums((v3 (+) v4) (+) 99, v3 (+) v4, 99)
  <2>1. v1 (+) v2 \in Byte /\ v3 (+) v4 \in Byte
    BY <1>7 DEF BitSums
  <2> QED
    BY <1>6, <2>1, XorBits DEF BitSums
<1>9. BitSums(Affine[v], v (+) (v1 (+) v2), (v3 (+) v4) (+) 99)
  <2>1. v (+) (v1 (+) v2) \in Byte /\ (v3 (+) v4) (+) 99 \in Byte
    BY <1>8 DEF BitSums
  <2> QED
    BY <1>5, <2>1, XorBits DEF BitSums
<1>10. /\ Affine[v] \in Byte
       /\ On(Affine[v], 0) <=> On(AffineImage(v), 0)
       /\ On(Affine[v], 1) <=> On(AffineImage(v), 1)
       /\ On(Affine[v], 2) <=> On(AffineImage(v), 2)
       /\ On(Affine[v], 3) <=> On(AffineImage(v), 3)
       /\ On(Affine[v], 4) <=> On(AffineImage(v), 4)
       /\ On(Affine[v], 5) <=> On(AffineImage(v), 5)
       /\ On(Affine[v], 6) <=> On(AffineImage(v), 6)
       /\ On(Affine[v], 7) <=> On(AffineImage(v), 7)
  <2>1. BitSums(v1 (+) v2, v1, v2) /\ BitSums(v3 (+) v4, v3, v4)
    BY <1>7
  <2> QED
    BY <1>1, <1>2, <1>3, <1>4, <1>7, <1>8, <1>9, AffineImageBits DEF BitSums, ##
<1> QED
  BY <1>10, AffineImageBits, SameBits

\* The substitution of the code is that of the standard.
LEMMA SubstitutionAgrees ==
  ASSUME NEW x \in Byte
  PROVE  FSb[x] = SBox[x + 1] /\ FSb[x] \in Byte
<1> DEFINE inverse(i) == IF i = 0 THEN 0 ELSE CHOOSE y \in 1 .. 255 : Product[i][y] = 1
<1>1. SBox = <<>> \o [i \in 1 .. 256 |-> AffineImage(inverse(i - 1))]
  BY Zenon DEF SBox, AffineImage, AffineBit
<1> HIDE DEF inverse
<1>2. SBox[x + 1] = AffineImage(inverse(x))
  <2> DEFINE s == [i \in 1 .. 256 |-> AffineImage(inverse(i - 1))]
  <2>1. Len(s) = 256 /\ Len(<<>>) = 0
    OBVIOUS
  <2>2. \A i \in 1 .. 256 : (<<>> \o s)[i] = s[i]
    BY <2>1
  <2>3. x + 1 \in 1 .. 256 /\ (x + 1) - 1 = x
    BY DEF Byte
  <2>4. SBox[x + 1] = s[x + 1]
    BY <1>1, <2>2, <2>3
  <2> QED
    BY <2>3, <2>4
<1>3. CASE x = 0
  <2>1. inverse(x) = 0
    BY <1>3 DEF inverse
  <2>2. FSb[x] = 99
    BY <1>3 DEF FSb
  <2>3. 99 \in Byte
    BY DEF Byte
  <2>4. AffineImage(0) = 99
    BY <2>3, Constants, Literals, AffineImageBits, SameBits DEF ##
  <2> QED
    BY <1>2, <2>1, <2>2, <2>3, <2>4
<1>4. CASE x # 0
  <2>1. x \in 1 .. 255
    BY <1>4, SMTT(60) DEF Byte
  <2>2. inverse(x) = pow[255 - log[x]] /\ pow[255 - log[x]] \in Byte
    BY <1>4, <2>1, Inverses DEF inverse
  <2>3. FSb[x] = Affine[pow[255 - log[x]]]
    BY <1>4 DEF FSb
  <2> QED
    BY <1>2, <2>2, <2>3, AffineAgrees
<1> QED
  BY <1>3, <1>4

-----------------------------------------------------------------------------
(* The rounds.                                                             *)

FourBytes == [1 .. 4 -> Byte]
FourWords == [1 .. 4 -> FourBytes]

\* Four items of a set.
LEMMA FourOf ==
  ASSUME NEW S, NEW a \in S, NEW b \in S, NEW c \in S, NEW d \in S
  PROVE  <<a, b, c, d>> \in [1 .. 4 -> S]
OBVIOUS

\* A word is its four bytes.
LEMMA BytesOfWord ==
  ASSUME NEW w \in FourBytes
  PROVE  /\ w \in Word /\ Len(w) = 4
         /\ w[1] \in Byte /\ w[2] \in Byte /\ w[3] \in Byte /\ w[4] \in Byte
         /\ w = <<w[1], w[2], w[3], w[4]>>
<1>1. w \in Word /\ Len(w) = 4
  <2>1. w \in Seq(Byte)
    BY SeqDef DEF FourBytes
  <2> QED
    BY <2>1, LenProperties DEF FourBytes, Word
<1>2. w[1] \in Byte /\ w[2] \in Byte /\ w[3] \in Byte /\ w[4] \in Byte
  BY DEF FourBytes
<1> QED
  BY <1>1, <1>2 DEF Word

\* Words are added byte by byte.
LEMMA WordSums ==
  ASSUME NEW v \in FourBytes, NEW w \in FourBytes
  PROVE  /\ XorWords[v][w] \in FourBytes
         /\ XorWords[v][w] = <<v[1] (+) w[1], v[2] (+) w[2], v[3] (+) w[3], v[4] (+) w[4]>>
<1>1. v \in Word /\ w \in Word
  BY BytesOfWord
<1>2. XorWords[v][w] = <<v[1] (+) w[1], v[2] (+) w[2], v[3] (+) w[3], v[4] (+) w[4]>>
  BY <1>1, Zenon DEF XorWords, Four, (+)
<1>3. /\ v[1] (+) w[1] \in Byte /\ v[2] (+) w[2] \in Byte
      /\ v[3] (+) w[3] \in Byte /\ v[4] (+) w[4] \in Byte
  BY BytesOfWord, XorLaws
<1> QED
  BY <1>2, <1>3, FourOf DEF FourBytes

\* The tables FT1 to FT3 are FT0 turned.
LEMMA Turned ==
  ASSUME NEW a \in Byte, NEW b \in Byte, NEW c \in Byte, NEW d \in Byte,
         NEW w, w = <<a, b, c, d>>
  PROVE  /\ ROTR8(0, w) = <<a, b, c, d>>
         /\ ROTR8(1, w) = <<d, a, b, c>>
         /\ ROTR8(2, w) = <<c, d, a, b>>
         /\ ROTR8(3, w) = <<b, c, d, a>>
<1> DEFINE u == w \o w
<1>1. w \in Seq(Byte) /\ Len(w) = 4
  OBVIOUS
<1>2. /\ u \in Seq(Byte) /\ Len(u) = 8
      /\ u[1] = a /\ u[2] = b /\ u[3] = c /\ u[4] = d
      /\ u[5] = a /\ u[6] = b /\ u[7] = c /\ u[8] = d
  BY <1>1
<1>3. \A n \in 0 .. 3 : ROTR8(n, w) = SubSeq(u, 5 - n, 8 - n)
  BY <1>1 DEF ROTR8, Word
<1> HIDE DEF u
<1>4. ASSUME NEW n \in 0 .. 3
      PROVE  SubSeq(u, 5 - n, 8 - n) = <<u[5 - n], u[6 - n], u[7 - n], u[8 - n]>>
  <2>1. 5 - n \in 1 .. 9 /\ 8 - n \in 4 .. 8
    OBVIOUS
  <2> DEFINE v == SubSeq(u, 5 - n, 8 - n)
  <2>2. /\ v \in Seq(Byte) /\ Len(v) = 4
        /\ \A i \in 1 .. 4 : v[i] = u[5 - n + i - 1]
    BY <1>2, <2>1, SubSeqProperties
  <2> HIDE DEF v
  <2>3. v[1] = u[5 - n] /\ v[2] = u[6 - n] /\ v[3] = u[7 - n] /\ v[4] = u[8 - n]
    BY <2>2
  <2>4. v = <<v[1], v[2], v[3], v[4]>>
    BY <2>2
  <2>5. v = <<u[5 - n], u[6 - n], u[7 - n], u[8 - n]>>
    BY <2>3, <2>4, Zenon
  <2> QED
    BY <2>5 DEF v
<1>5. 0 \in 0 .. 3 /\ 1 \in 0 .. 3 /\ 2 \in 0 .. 3 /\ 3 \in 0 .. 3
  OBVIOUS
<1>6. /\ ROTR8(0, w) = <<u[5], u[6], u[7], u[8]>>
      /\ ROTR8(1, w) = <<u[4], u[5], u[6], u[7]>>
      /\ ROTR8(2, w) = <<u[3], u[4], u[5], u[6]>>
      /\ ROTR8(3, w) = <<u[2], u[3], u[4], u[5]>>
  BY <1>3, <1>4, <1>5
<1> QED
  BY <1>2, <1>6

\* Four bytes are added in any order.
LEMMA AnyOrder ==
  ASSUME NEW a \in Byte, NEW b \in Byte, NEW c \in Byte, NEW d \in Byte
  PROVE  /\ (a (+) b) (+) (c (+) d) = (b (+) c) (+) (d (+) a)
         /\ (a (+) b) (+) (c (+) d) = (c (+) d) (+) (a (+) b)
         /\ (a (+) b) (+) (c (+) d) \in Byte
<1>1. a (+) b \in Byte /\ c (+) d \in Byte /\ b (+) c \in Byte /\ d (+) a \in Byte
  BY XorLaws
<1>2. (a (+) b) (+) (c (+) d) = (c (+) d) (+) (a (+) b)
  BY <1>1, XorLaws
<1>3. (a (+) b) (+) (c (+) d) \in Byte
  BY <1>1, XorLaws
<1>4. (a (+) b) (+) (c (+) d) = a (+) (b (+) (c (+) d))
  BY <1>1, XorLaws
<1>5. b (+) (c (+) d) = (b (+) c) (+) d
  BY XorLaws
<1>6. a (+) ((b (+) c) (+) d) = ((b (+) c) (+) d) (+) a
  BY <1>1, XorLaws
<1>7. ((b (+) c) (+) d) (+) a = (b (+) c) (+) (d (+) a)
  BY <1>1, XorLaws
<1> QED
  BY <1>2, <1>3, <1>4, <1>5, <1>6, <1>7

\* A column of MixColumns.
MixedColumn(s) ==
  << (XTIME[s[1]] (+) (s[2] (+) XTIME[s[2]])) (+) (s[3] (+) s[4]),
     (XTIME[s[2]] (+) (s[3] (+) XTIME[s[3]])) (+) (s[4] (+) s[1]),
     (XTIME[s[3]] (+) (s[4] (+) XTIME[s[4]])) (+) (s[1] (+) s[2]),
     (XTIME[s[4]] (+) (s[1] (+) XTIME[s[1]])) (+) (s[2] (+) s[3]) >>

\* A column by way of the tables.
LEMMA ColumnAgrees ==
  ASSUME NEW k \in FourBytes, NEW s \in FourBytes
  PROVE  /\ Xor5(k, ROTR8(0, FT0[s[1]]), ROTR8(1, FT0[s[2]]), ROTR8(2, FT0[s[3]]),
                 ROTR8(3, FT0[s[4]]))
              = XorWords[k][MixedColumn(s)]
         /\ MixedColumn(s) \in FourBytes
<1> DEFINE a == s[1]
           b == s[2]
           c == s[3]
           d == s[4]
           a2 == XTIME[a]
           b2 == XTIME[b]
           c2 == XTIME[c]
           d2 == XTIME[d]
           a3 == a (+) a2
           b3 == b (+) b2
           c3 == c (+) c2
           d3 == d (+) d2
<1>1. /\ a \in Byte /\ b \in Byte /\ c \in Byte /\ d \in Byte
  BY BytesOfWord
<1>2. /\ a2 \in Byte /\ b2 \in Byte /\ c2 \in Byte /\ d2 \in Byte
  BY <1>1, XtimeBits
<1>3. /\ a3 \in Byte /\ b3 \in Byte /\ c3 \in Byte /\ d3 \in Byte
  <2> HIDE DEF a, b, c, d, a2, b2, c2, d2
  <2> QED
    BY <1>1, <1>2, XorLaws
<1>4. /\ FT0[a] = <<a2, a, a, a3>> /\ FT0[b] = <<b2, b, b, b3>>
      /\ FT0[c] = <<c2, c, c, c3>> /\ FT0[d] = <<d2, d, d, d3>>
  BY <1>1, Zenon DEF FT0, (+)
<1>5. MixedColumn(s) = << (a2 (+) b3) (+) (c (+) d), (b2 (+) c3) (+) (d (+) a),
                          (c2 (+) d3) (+) (a (+) b), (d2 (+) a3) (+) (b (+) c) >>
  BY Zenon DEF MixedColumn
<1>6. Xor5(k, ROTR8(0, FT0[s[1]]), ROTR8(1, FT0[s[2]]), ROTR8(2, FT0[s[3]]), ROTR8(3, FT0[s[4]]))
        = Xor5(k, ROTR8(0, FT0[a]), ROTR8(1, FT0[b]), ROTR8(2, FT0[c]), ROTR8(3, FT0[d]))
  BY Zenon
<1> HIDE DEF a, b, c, d, a2, b2, c2, d2, a3, b3, c3, d3
<1> DEFINE f == ROTR8(0, FT0[a])
           g == ROTR8(1, FT0[b])
           h == ROTR8(2, FT0[c])
           i == ROTR8(3, FT0[d])
<1>7. /\ f = <<a2, a, a, a3>> /\ g = <<b3, b2, b, b>>
      /\ h = <<c, c3, c2, c>> /\ i = <<d, d, d3, d2>>
  BY <1>1, <1>2, <1>3, <1>4, Turned
<1> HIDE DEF f, g, h, i
<1>8. f \in FourBytes /\ g \in FourBytes /\ h \in FourBytes /\ i \in FourBytes
  BY <1>1, <1>2, <1>3, <1>7, FourOf DEF FourBytes
<1> DEFINE fg == XorWords[f][g]
           hi == XorWords[h][i]
           sum == XorWords[fg][hi]
<1>9. /\ fg = <<a2 (+) b3, a (+) b2, a (+) b, a3 (+) b>> /\ fg \in FourBytes
      /\ hi = <<c (+) d, c3 (+) d, c2 (+) d3, c (+) d2>> /\ hi \in FourBytes
  <2>1. /\ f[1] = a2 /\ f[2] = a /\ f[3] = a /\ f[4] = a3
        /\ g[1] = b3 /\ g[2] = b2 /\ g[3] = b /\ g[4] = b
        /\ h[1] = c /\ h[2] = c3 /\ h[3] = c2 /\ h[4] = c
        /\ i[1] = d /\ i[2] = d /\ i[3] = d3 /\ i[4] = d2
    BY <1>7
  <2> QED
    BY <1>8, <2>1, WordSums
<1> HIDE DEF fg, hi
<1>10. /\ sum \in FourBytes
       /\ sum = << (a2 (+) b3) (+) (c (+) d), (a (+) b2) (+) (c3 (+) d),
                   (a (+) b) (+) (c2 (+) d3), (a3 (+) b) (+) (c (+) d2) >>
  <2>1. /\ fg[1] = a2 (+) b3 /\ fg[2] = a (+) b2 /\ fg[3] = a (+) b /\ fg[4] = a3 (+) b
        /\ hi[1] = c (+) d /\ hi[2] = c3 (+) d /\ hi[3] = c2 (+) d3 /\ hi[4] = c (+) d2
    BY <1>9
  <2> QED
    BY <1>9, <2>1, WordSums
<1> HIDE DEF sum
<1>11. /\ (a (+) b2) (+) (c3 (+) d) = (b2 (+) c3) (+) (d (+) a)
       /\ (a (+) b) (+) (c2 (+) d3) = (c2 (+) d3) (+) (a (+) b)
       /\ (d2 (+) a3) (+) (b (+) c) = (a3 (+) b) (+) (c (+) d2)
  BY <1>1, <1>2, <1>3, AnyOrder
<1>12. sum = MixedColumn(s)
  BY <1>5, <1>10, <1>11, Zenon
<1>13. Xor5(k, f, g, h, i) = XorWords[k][sum]
  BY Zenon DEF Xor5, sum, fg, hi
<1>14. Xor5(k, ROTR8(0, FT0[s[1]]), ROTR8(1, FT0[s[2]]), ROTR8(2, FT0[s[3]]), ROTR8(3, FT0[s[4]]))
         = Xor5(k, f, g, h, i)
  BY <1>6, Zenon DEF f, g, h, i
<1> QED
  BY <1>10, <1>12, <1>13, <1>14, Zenon

\* The places of ShiftRows.
LEMMA Places ==
  /\ After(1, 0) = 1 /\ After(1, 1) = 2 /\ After(1, 2) = 3 /\ After(1, 3) = 4
  /\ After(2, 0) = 2 /\ After(2, 1) = 3 /\ After(2, 2) = 4 /\ After(2, 3) = 1
  /\ After(3, 0) = 3 /\ After(3, 1) = 4 /\ After(3, 2) = 1 /\ After(3, 3) = 2
  /\ After(4, 0) = 4 /\ After(4, 1) = 1 /\ After(4, 2) = 2 /\ After(4, 3) = 3
BY DEF After

\* Four words, one by one.
LEMMA WordsOfBlock ==
  ASSUME NEW X \in FourWords
  PROVE  /\ X[1] \in FourBytes /\ X[2] \in FourBytes /\ X[3] \in FourBytes /\ X[4] \in FourBytes
         /\ \A j, b \in 1 .. 4 : X[j][b] \in Byte
BY DEF FourWords, FourBytes

\* AddRoundKey, word by word.
LEMMA KeyAdded ==
  ASSUME NEW K \in FourWords, NEW Y \in FourWords
  PROVE  /\ AddKey(K, Y) = <<XorWords[K[1]][Y[1]], XorWords[K[2]][Y[2]],
                             XorWords[K[3]][Y[3]], XorWords[K[4]][Y[4]]>>
         /\ AddKey(K, Y) \in FourWords
<1>1. AddKey(K, Y) = <<XorWords[K[1]][Y[1]], XorWords[K[2]][Y[2]],
                       XorWords[K[3]][Y[3]], XorWords[K[4]][Y[4]]>>
  BY Zenon DEF AddKey, Four
<1>2. /\ XorWords[K[1]][Y[1]] \in FourBytes /\ XorWords[K[2]][Y[2]] \in FourBytes
      /\ XorWords[K[3]][Y[3]] \in FourBytes /\ XorWords[K[4]][Y[4]] \in FourBytes
  BY WordsOfBlock, WordSums
<1> QED
  BY <1>1, <1>2, FourOf DEF FourWords

\* A column after SubBytes and ShiftRows, by way of the program's S-box.
ShiftedColumn(Y, i, j, k, l) == <<FSb[Y[i][1]], FSb[Y[j][2]], FSb[Y[k][3]], FSb[Y[l][4]]>>
ShiftedBlock(Y) ==
  <<ShiftedColumn(Y, 1, 2, 3, 4), ShiftedColumn(Y, 2, 3, 4, 1),
    ShiftedColumn(Y, 3, 4, 1, 2), ShiftedColumn(Y, 4, 1, 2, 3)>>

\* SubBytes and ShiftRows, column by column.
LEMMA ShiftedColumns ==
  ASSUME NEW Y \in FourWords
  PROVE  /\ Shifted(Y) = ShiftedBlock(Y)
         /\ ShiftedBlock(Y) \in FourWords
         /\ \A i, j, k, l \in 1 .. 4 : ShiftedColumn(Y, i, j, k, l) \in FourBytes
<1>1. \A j, b \in 1 .. 4 : Y[j][b] \in Byte
  BY WordsOfBlock
<1>2. \A j, b \in 1 .. 4 : SBox[Y[j][b] + 1] = FSb[Y[j][b]] /\ FSb[Y[j][b]] \in Byte
  BY <1>1, SubstitutionAgrees, Zenon
<1>3. 1 \in 1 .. 4 /\ 2 \in 1 .. 4 /\ 3 \in 1 .. 4 /\ 4 \in 1 .. 4
  OBVIOUS
<1>4. 1 - 1 = 0 /\ 2 - 1 = 1 /\ 3 - 1 = 2 /\ 4 - 1 = 3
  OBVIOUS
<1> DEFINE Column(i, j, k, l) ==
             <<SBox[Y[i][1] + 1], SBox[Y[j][2] + 1], SBox[Y[k][3] + 1], SBox[Y[l][4] + 1]>>
<1>5. Shifted(Y) = <<Column(After(1, 0), After(1, 1), After(1, 2), After(1, 3)),
                     Column(After(2, 0), After(2, 1), After(2, 2), After(2, 3)),
                     Column(After(3, 0), After(3, 1), After(3, 2), After(3, 3)),
                     Column(After(4, 0), After(4, 1), After(4, 2), After(4, 3))>>
  BY <1>4, Zenon DEF Shifted, Four
<1>6. \A i, j, k, l \in 1 .. 4 : Column(i, j, k, l) = ShiftedColumn(Y, i, j, k, l)
  BY <1>2, <1>3, Zenon DEF ShiftedColumn
<1> HIDE DEF Column
<1>7. Shifted(Y) = ShiftedBlock(Y)
  BY <1>3, <1>5, <1>6, Places DEF ShiftedBlock
<1>8. ASSUME NEW i \in 1 .. 4, NEW j \in 1 .. 4, NEW k \in 1 .. 4, NEW l \in 1 .. 4
      PROVE  ShiftedColumn(Y, i, j, k, l) \in FourBytes
  <2>1. /\ FSb[Y[i][1]] \in Byte /\ FSb[Y[j][2]] \in Byte
        /\ FSb[Y[k][3]] \in Byte /\ FSb[Y[l][4]] \in Byte
    BY <1>2, <1>3, Zenon
  <2> QED
    BY <2>1, FourOf, Zenon DEF ShiftedColumn, FourBytes
<1>9. ShiftedBlock(Y) \in FourWords
  BY <1>3, <1>8, FourOf, Zenon DEF ShiftedBlock, FourWords
<1> QED
  BY <1>7, <1>8, <1>9

\* MixColumns, column by column.
LEMMA MixedColumns ==
  ASSUME NEW X \in FourWords
  PROVE  /\ MixColumns(X) = <<MixedColumn(X[1]), MixedColumn(X[2]),
                              MixedColumn(X[3]), MixedColumn(X[4])>>
         /\ MixColumns(X) \in FourWords
<1> DEFINE Mix(w, i, j, k, l) ==
             (Product[w[i]][2] (+) Product[w[j]][3]) (+) (w[k] (+) w[l])
           Column(w) ==
             <<Mix(w, After(1, 0), After(1, 1), After(1, 2), After(1, 3)),
               Mix(w, After(2, 0), After(2, 1), After(2, 2), After(2, 3)),
               Mix(w, After(3, 0), After(3, 1), After(3, 2), After(3, 3)),
               Mix(w, After(4, 0), After(4, 1), After(4, 2), After(4, 3))>>
<1>1. MixColumns(X) = <<Column(X[1]), Column(X[2]), Column(X[3]), Column(X[4])>>
  BY Zenon DEF MixColumns, Four, (+)
<1>2. ASSUME NEW w \in FourBytes
      PROVE  Column(w) = MixedColumn(w)
  <2>1. Column(w) = <<Mix(w, 1, 2, 3, 4), Mix(w, 2, 3, 4, 1),
                      Mix(w, 3, 4, 1, 2), Mix(w, 4, 1, 2, 3)>>
    BY Places, Zenon
  <2>2. \A i \in 1 .. 4 : w[i] \in Byte
    BY DEF FourBytes
  <2>3. \A i \in 1 .. 4 : /\ Product[w[i]][2] = XTIME[w[i]]
                          /\ Product[w[i]][3] = w[i] (+) XTIME[w[i]]
    BY <2>2, SmallProducts, Zenon
  <2>4. 1 \in 1 .. 4 /\ 2 \in 1 .. 4 /\ 3 \in 1 .. 4 /\ 4 \in 1 .. 4
    OBVIOUS
  <2>5. \A i, j, k, l \in 1 .. 4 :
          Mix(w, i, j, k, l) = (XTIME[w[i]] (+) (w[j] (+) XTIME[w[j]])) (+) (w[k] (+) w[l])
    BY <2>3, Zenon
  <2> HIDE DEF Mix, Column
  <2>6. /\ Mix(w, 1, 2, 3, 4) = (XTIME[w[1]] (+) (w[2] (+) XTIME[w[2]])) (+) (w[3] (+) w[4])
        /\ Mix(w, 2, 3, 4, 1) = (XTIME[w[2]] (+) (w[3] (+) XTIME[w[3]])) (+) (w[4] (+) w[1])
        /\ Mix(w, 3, 4, 1, 2) = (XTIME[w[3]] (+) (w[4] (+) XTIME[w[4]])) (+) (w[1] (+) w[2])
        /\ Mix(w, 4, 1, 2, 3) = (XTIME[w[4]] (+) (w[1] (+) XTIME[w[1]])) (+) (w[2] (+) w[3])
    BY <2>4, <2>5
  <2> QED
    BY <2>1, <2>6, Zenon DEF MixedColumn
<1> HIDE DEF Column
<1>3. X[1] \in FourBytes /\ X[2] \in FourBytes /\ X[3] \in FourBytes /\ X[4] \in FourBytes
  BY WordsOfBlock
<1>4. MixColumns(X) = <<MixedColumn(X[1]), MixedColumn(X[2]),
                        MixedColumn(X[3]), MixedColumn(X[4])>>
  BY <1>1, <1>2, <1>3, Zenon
<1>5. /\ MixedColumn(X[1]) \in FourBytes /\ MixedColumn(X[2]) \in FourBytes
      /\ MixedColumn(X[3]) \in FourBytes /\ MixedColumn(X[4]) \in FourBytes
  BY <1>3, ColumnAgrees, Zenon
<1>6. <<MixedColumn(X[1]), MixedColumn(X[2]), MixedColumn(X[3]), MixedColumn(X[4])>>
        \in FourWords
  BY <1>5, FourOf, Zenon DEF FourWords
<1> QED
  BY <1>4, <1>6, Zenon

\* A round by way of the tables.
LEMMA RoundAgrees ==
  ASSUME NEW K \in FourWords, NEW Y \in FourWords, tables.FT = FT
  PROVE  /\ AES_FROUND(K, Y) = AddKey(K, MixColumns(Shifted(Y)))
         /\ AES_FROUND(K, Y) \in FourWords
<1> DEFINE T(n, x) == ROTR8(n, FT0[FSb[x]])
           Column(k, i, j, m, l) ==
             Xor5(k, FT[0][Y[i][1]], FT[1][Y[j][2]], FT[2][Y[m][3]], FT[3][Y[l][4]])
<1>1. 0 + 1 = 1 /\ 1 + 1 = 2 /\ 2 + 1 = 3 /\ 3 + 1 = 4
  OBVIOUS
<1>2. AES_FROUND(K, Y) =
        <<Column(K[1], After(1, 0), After(1, 1), After(1, 2), After(1, 3)),
          Column(K[2], After(2, 0), After(2, 1), After(2, 2), After(2, 3)),
          Column(K[3], After(3, 0), After(3, 1), After(3, 2), After(3, 3)),
          Column(K[4], After(4, 0), After(4, 1), After(4, 2), After(4, 3))>>
  BY <1>1, Zenon DEF AES_FROUND, Four
<1>3. \A n \in 0 .. 3, x \in Byte : FT[n][x] = ROTR8(n, FT0[FSb[x]])
  BY Zenon DEF FT
<1>4. \A j, b \in 1 .. 4 : Y[j][b] \in Byte
  BY WordsOfBlock
<1>5. /\ 1 \in 1 .. 4 /\ 2 \in 1 .. 4 /\ 3 \in 1 .. 4 /\ 4 \in 1 .. 4
      /\ 0 \in 0 .. 3 /\ 1 \in 0 .. 3 /\ 2 \in 0 .. 3 /\ 3 \in 0 .. 3
  OBVIOUS
<1>6. ASSUME NEW k \in FourBytes,
             NEW i \in 1 .. 4, NEW j \in 1 .. 4, NEW m \in 1 .. 4, NEW l \in 1 .. 4
      PROVE  Column(k, i, j, m, l) = XorWords[k][MixedColumn(ShiftedColumn(Y, i, j, m, l))]
  <2> DEFINE s == ShiftedColumn(Y, i, j, m, l)
  <2>1. s \in FourBytes
    BY ShiftedColumns, Zenon
  <2>2. s[1] = FSb[Y[i][1]] /\ s[2] = FSb[Y[j][2]] /\ s[3] = FSb[Y[m][3]] /\ s[4] = FSb[Y[l][4]]
    BY DEF ShiftedColumn
  <2> HIDE DEF s
  <2>3. Column(k, i, j, m, l) = Xor5(k, ROTR8(0, FT0[s[1]]), ROTR8(1, FT0[s[2]]),
                                     ROTR8(2, FT0[s[3]]), ROTR8(3, FT0[s[4]]))
    <3>1. /\ Y[i][1] \in Byte /\ Y[j][2] \in Byte /\ Y[m][3] \in Byte /\ Y[l][4] \in Byte
      BY <1>4, <1>5
    <3>2. /\ FT[0][Y[i][1]] = ROTR8(0, FT0[FSb[Y[i][1]]])
          /\ FT[1][Y[j][2]] = ROTR8(1, FT0[FSb[Y[j][2]]])
          /\ FT[2][Y[m][3]] = ROTR8(2, FT0[FSb[Y[m][3]]])
          /\ FT[3][Y[l][4]] = ROTR8(3, FT0[FSb[Y[l][4]]])
      BY <1>3, <1>5, <3>1
    <3> QED
      BY <2>2, <3>2, Zenon
  <2>4. Column(k, i, j, m, l) = XorWords[k][MixedColumn(s)]
    BY <2>1, <2>3, ColumnAgrees, Zenon
  <2> QED
    BY <2>4 DEF s
<1> HIDE DEF Column
<1>7. K[1] \in FourBytes /\ K[2] \in FourBytes /\ K[3] \in FourBytes /\ K[4] \in FourBytes
  BY WordsOfBlock
<1>8. AES_FROUND(K, Y) =
        <<XorWords[K[1]][MixedColumn(ShiftedColumn(Y, 1, 2, 3, 4))],
          XorWords[K[2]][MixedColumn(ShiftedColumn(Y, 2, 3, 4, 1))],
          XorWords[K[3]][MixedColumn(ShiftedColumn(Y, 3, 4, 1, 2))],
          XorWords[K[4]][MixedColumn(ShiftedColumn(Y, 4, 1, 2, 3))]>>
  BY <1>2, <1>5, <1>6, <1>7, Places
<1> DEFINE S == Shifted(Y)
           M == MixColumns(S)
<1>9. S = ShiftedBlock(Y) /\ S \in FourWords
  BY ShiftedColumns
<1>10. /\ S[1] = ShiftedColumn(Y, 1, 2, 3, 4) /\ S[2] = ShiftedColumn(Y, 2, 3, 4, 1)
       /\ S[3] = ShiftedColumn(Y, 3, 4, 1, 2) /\ S[4] = ShiftedColumn(Y, 4, 1, 2, 3)
  BY <1>9 DEF ShiftedBlock
<1> HIDE DEF S
<1>11. /\ M = <<MixedColumn(S[1]), MixedColumn(S[2]), MixedColumn(S[3]), MixedColumn(S[4])>>
       /\ M \in FourWords
  BY <1>9, MixedColumns
<1> HIDE DEF M
<1>12. /\ M[1] = MixedColumn(S[1]) /\ M[2] = MixedColumn(S[2])
       /\ M[3] = MixedColumn(S[3]) /\ M[4] = MixedColumn(S[4])
  BY <1>11
<1>13. AES_FROUND(K, Y) = AddKey(K, M)
  <2>1. AddKey(K, M) = <<XorWords[K[1]][M[1]], XorWords[K[2]][M[2]],
                         XorWords[K[3]][M[3]], XorWords[K[4]][M[4]]>>
    BY <1>11, KeyAdded
  <2> QED
    BY <1>8, <1>10, <1>12, <2>1, Zenon
<1> QED
  BY <1>11, <1>13, KeyAdded DEF M, S

-----------------------------------------------------------------------------
(* Blocks.                                                                 *)

\* Four items of a sequence.
LEMMA FourInARow ==
  ASSUME NEW S, NEW s \in Seq(S), NEW m \in Nat, m + 4 <= Len(s)
  PROVE  /\ SubSeq(s, m + 1, m + 4) \in [1 .. 4 -> S]
         /\ SubSeq(s, m + 1, m + 4) = <<s[m + 1], s[m + 2], s[m + 3], s[m + 4]>>
<1> DEFINE v == SubSeq(s, m + 1, m + 4)
<1>1. \A i \in m + 1 .. m + 4 : s[i] \in S
  <2>1. Len(s) \in Nat /\ \A i \in 1 .. Len(s) : s[i] \in S
    BY LenProperties, ElementOfSeq
  <2> QED
    BY <2>1
<1>2. v \in Seq(S) /\ Len(v) = 4 /\ \A i \in 1 .. 4 : v[i] = s[m + i]
  <2>1. m + 1 \in Int /\ m + 4 \in Int /\ m + 1 <= m + 4 /\ (m + 4) - (m + 1) + 1 = 4
    OBVIOUS
  <2>2. \A i \in 1 .. 4 : (m + 1) + i - 1 = m + i
    OBVIOUS
  <2>3. v \in Seq(S) /\ Len(v) = 4 /\ \A i \in 1 .. 4 : v[i] = s[(m + 1) + i - 1]
    BY <1>1, <2>1, SubSeqProperties
  <2> HIDE DEF v
  <2> QED
    BY <2>2, <2>3
<1> HIDE DEF v
<1>3. v = <<v[1], v[2], v[3], v[4]>>
  BY <1>2
<1>4. v[1] = s[m + 1] /\ v[2] = s[m + 2] /\ v[3] = s[m + 3] /\ v[4] = s[m + 4]
  BY <1>2
<1>5. s[m + 1] \in S /\ s[m + 2] \in S /\ s[m + 3] \in S /\ s[m + 4] \in S
  BY <1>1
<1>6. v = <<s[m + 1], s[m + 2], s[m + 3], s[m + 4]>>
  BY <1>3, <1>4, Zenon
<1>7. v \in [1 .. 4 -> S]
  BY <1>5, <1>6, FourOf, Zenon
<1> QED
  BY <1>6, <1>7 DEF v

\* The words of a block.
LEMMA WordsOfInput ==
  ASSUME NEW input \in [1 .. 16 -> Byte]
  PROVE  ToWords(input) \in FourWords
<1>1. input \in Seq(Byte) /\ Len(input) = 16
  <2>1. input \in Seq(Byte)
    BY SeqDef
  <2> QED
    BY <2>1, LenProperties
<1>2. ASSUME NEW j \in 1 .. 4
      PROVE  GET_UINT32(input, j) \in FourBytes
  <2> DEFINE m == 4 * j - 4
  <2>1. m \in Nat /\ m + 4 <= Len(input) /\ m + 1 = 4 * j - 3 /\ m + 4 = 4 * j
    BY <1>1
  <2> HIDE DEF m
  <2>2. SubSeq(input, m + 1, m + 4) \in FourBytes
    BY <1>1, <2>1, FourInARow DEF FourBytes
  <2> QED
    BY <2>1, <2>2, Zenon DEF GET_UINT32
<1>3. ToWords(input) = <<GET_UINT32(input, 1), GET_UINT32(input, 2),
                         GET_UINT32(input, 3), GET_UINT32(input, 4)>>
  BY Zenon DEF ToWords, Four
<1>4. /\ GET_UINT32(input, 1) \in FourBytes /\ GET_UINT32(input, 2) \in FourBytes
      /\ GET_UINT32(input, 3) \in FourBytes /\ GET_UINT32(input, 4) \in FourBytes
  BY <1>2
<1>5. <<GET_UINT32(input, 1), GET_UINT32(input, 2), GET_UINT32(input, 3),
        GET_UINT32(input, 4)>> \in FourWords
  BY <1>4, FourOf, Zenon DEF FourWords
<1> QED
  BY <1>3, <1>5, Zenon

\* Two sequences of bytes, one after the other.
LEMMA Longer ==
  ASSUME NEW s \in Seq(Byte), NEW t \in Seq(Byte)
  PROVE  s \o t \in Seq(Byte) /\ Len(s \o t) = Len(s) + Len(t)
BY ConcatProperties

\* The block of four words.
LEMMA BytesOfWords ==
  ASSUME NEW X \in FourWords
  PROVE  PutWords(X) \in [1 .. 16 -> Byte]
<1>1. \A j \in 1 .. 4 : X[j] \in Seq(Byte) /\ Len(X[j]) = 4
  BY BytesOfWord DEF FourWords, Word
<1>2. /\ X[1] \in Seq(Byte) /\ X[2] \in Seq(Byte) /\ X[3] \in Seq(Byte) /\ X[4] \in Seq(Byte)
      /\ Len(X[1]) = 4 /\ Len(X[2]) = 4 /\ Len(X[3]) = 4 /\ Len(X[4]) = 4
  BY <1>1
<1> DEFINE p == X[1] \o X[2]
           q == p \o X[3]
           r == q \o X[4]
<1>3. p \in Seq(Byte) /\ Len(p) = Len(X[1]) + Len(X[2])
  BY <1>2, Longer, Zenon
<1> HIDE DEF p
<1>4. q \in Seq(Byte) /\ Len(q) = Len(p) + Len(X[3])
  BY <1>2, <1>3, Longer, Zenon
<1> HIDE DEF q
<1>5. r \in Seq(Byte) /\ Len(r) = Len(q) + Len(X[4])
  BY <1>2, <1>4, Longer, Zenon
<1> HIDE DEF r
<1>6. r \in [1 .. 16 -> Byte]
  <2>1. Len(r) = 16
    BY <1>2, <1>3, <1>4, <1>5
  <2> QED
    BY <1>5, <2>1, LenProperties
<1> QED
  BY <1>6, Zenon DEF PutWords, p, q, r

-----------------------------------------------------------------------------
(* The cipher.                                                             *)

\* Round keys of nr rounds, and the program's rounds with them and the
\* standard's.
RoundKeys(RK, nr) == \A r \in 0 .. nr : RoundKey(RK, r) \in FourWords
EncryptRound(RK, nr, r, Y) ==
  LET Last(j) == SubWord(<<Y[j][1], Y[After(j, 1)][2], Y[After(j, 2)][3], Y[After(j, 3)][4]>>)
  IN IF r < nr THEN AES_FROUND(RoundKey(RK, r), Y)
     ELSE AddKey(RoundKey(RK, nr), Four(Last))
CipherRound(RK, nr, r, Y) ==
  LET S == Shifted(Y) IN AddKey(RoundKey(RK, r), IF r < nr THEN MixColumns(S) ELSE S)

\* A round of the program is a round of the standard, the last one too.
LEMMA RoundsAgree ==
  ASSUME NEW nr \in Nat, NEW RK, RoundKeys(RK, nr), tables.FT = FT,
         NEW r \in 1 .. nr, NEW Y \in FourWords
  PROVE  /\ EncryptRound(RK, nr, r, Y) = CipherRound(RK, nr, r, Y)
         /\ CipherRound(RK, nr, r, Y) \in FourWords
<1>1. RoundKey(RK, r) \in FourWords
  BY DEF RoundKeys
<1>2. CASE r < nr
  <2>1. EncryptRound(RK, nr, r, Y) = AES_FROUND(RoundKey(RK, r), Y)
    BY <1>2, Zenon DEF EncryptRound
  <2>2. CipherRound(RK, nr, r, Y) = AddKey(RoundKey(RK, r), MixColumns(Shifted(Y)))
    BY <1>2, Zenon DEF CipherRound
  <2> QED
    BY <1>1, <2>1, <2>2, RoundAgrees
<1>3. CASE ~ (r < nr)
  <2>1. r = nr
    BY <1>3
  <2> DEFINE Last(j) == SubWord(<<Y[j][1], Y[After(j, 1)][2], Y[After(j, 2)][3],
                                  Y[After(j, 3)][4]>>)
             Column(i, j, k, l) == SubWord(<<Y[i][1], Y[j][2], Y[k][3], Y[l][4]>>)
  <2>2. EncryptRound(RK, nr, r, Y)
          = AddKey(RoundKey(RK, nr), <<Last(1), Last(2), Last(3), Last(4)>>)
    BY <1>3, Zenon DEF EncryptRound, Four
  <2>3. CipherRound(RK, nr, r, Y) = AddKey(RoundKey(RK, r), Shifted(Y))
    BY <1>3, Zenon DEF CipherRound
  <2>4. /\ Last(1) = Column(1, 2, 3, 4) /\ Last(2) = Column(2, 3, 4, 1)
        /\ Last(3) = Column(3, 4, 1, 2) /\ Last(4) = Column(4, 1, 2, 3)
    BY Places, Zenon
  <2>5. \A i, j, k, l : Column(i, j, k, l) = ShiftedColumn(Y, i, j, k, l)
    <3> TAKE i, j, k, l
    <3> DEFINE w == <<Y[i][1], Y[j][2], Y[k][3], Y[l][4]>>
    <3>1. w[1] = Y[i][1] /\ w[2] = Y[j][2] /\ w[3] = Y[k][3] /\ w[4] = Y[l][4]
      OBVIOUS
    <3> HIDE DEF w
    <3>2. SubWord(w) = <<FSb[w[1]], FSb[w[2]], FSb[w[3]], FSb[w[4]]>>
      BY Zenon DEF SubWord, Four
    <3>3. SubWord(w) = ShiftedColumn(Y, i, j, k, l)
      BY <3>1, <3>2, Zenon DEF ShiftedColumn
    <3> QED
      BY <3>3 DEF w
  <2> HIDE DEF Last, Column
  <2>6. <<Last(1), Last(2), Last(3), Last(4)>> = ShiftedBlock(Y)
    BY <2>4, <2>5, Zenon DEF ShiftedBlock
  <2>7. EncryptRound(RK, nr, r, Y) = AddKey(RoundKey(RK, r), Shifted(Y))
    BY <2>1, <2>2, <2>6, ShiftedColumns, Zenon
  <2>8. Shifted(Y) \in FourWords
    BY ShiftedColumns
  <2> QED
    BY <1>1, <2>3, <2>7, <2>8, KeyAdded
<1> QED
  BY <1>2, <1>3

\* The states of a block, one after every round, are the same for the program
\* and the standard, whatever the round keys.
LEMMA StatesAgree ==
  ASSUME NEW nr \in Nat, NEW RK, RoundKeys(RK, nr), tables.FT = FT,
         NEW input \in [1 .. 16 -> Byte]
  PROVE  \E X \in [0 .. nr -> FourWords] :
           /\ X[0] = AddKey(RoundKey(RK, 0), ToWords(input))
           /\ \A r \in 1 .. nr : X[r] = CipherRound(RK, nr, r, X[r - 1])
           /\ AesEncrypt(RK, nr, input) = PutWords(X[nr])
           /\ Cipher(RK, nr, input) = PutWords(X[nr])
<1> DEFINE a == AddKey(RoundKey(RK, 0), ToWords(input))
           IsEncrypt(X) == X = [r \in 0 .. nr |->
                             IF r = 0 THEN a ELSE EncryptRound(RK, nr, r, X[r - 1])]
           IsCipher(X) == X = [r \in 0 .. nr |->
                             IF r = 0 THEN a ELSE CipherRound(RK, nr, r, X[r - 1])]
           E == CHOOSE X : IsEncrypt(X)
           C == CHOOSE X : IsCipher(X)
           g == [r \in 1 .. nr |-> [Y \in FourWords |-> CipherRound(RK, nr, r, Y)]]
<1>1. AesEncrypt(RK, nr, input) = PutWords(E[nr])
  BY Zenon DEF AesEncrypt, EncryptRound
<1>2. Cipher(RK, nr, input) = PutWords(C[nr])
  BY Zenon DEF Cipher, CipherRound
<1>3. a \in FourWords
  <2>1. RoundKey(RK, 0) \in FourWords
    BY DEF RoundKeys
  <2> QED
    BY <2>1, WordsOfInput, KeyAdded
<1> HIDE DEF a
<1>4. \A r \in 1 .. nr, Y \in FourWords :
         /\ EncryptRound(RK, nr, r, Y) = CipherRound(RK, nr, r, Y)
         /\ CipherRound(RK, nr, r, Y) \in FourWords
  BY RoundsAgree
<1>5. PICK f \in [0 .. nr -> FourWords] : Follows(f, a, nr, g)
  <2>1. g \in [1 .. nr -> [FourWords -> FourWords]]
    BY <1>4
  <2> HIDE DEF g
  <2> QED
    BY <1>3, <2>1, Recursion
<1>6. f[0] = a /\ \A r \in 1 .. nr : f[r] = CipherRound(RK, nr, r, f[r - 1])
  <2>1. ASSUME NEW r \in 1 .. nr PROVE f[r] = CipherRound(RK, nr, r, f[r - 1])
    <3>1. f[r - 1] \in FourWords
      OBVIOUS
    <3>2. f[r] = g[r][f[r - 1]]
      BY <1>5 DEF Follows
    <3> QED
      BY <3>1, <3>2, Zenon
  <2> QED
    BY <1>5, <2>1 DEF Follows
<1> HIDE DEF g
<1>7. f = [r \in 0 .. nr |-> f[r]]
  OBVIOUS
<1>8. \A r \in 1 .. nr : f[r] = EncryptRound(RK, nr, r, f[r - 1])
  <2>1. ASSUME NEW r \in 1 .. nr PROVE f[r - 1] \in FourWords
    OBVIOUS
  <2> QED
    BY <1>4, <1>6, <2>1
<1>9. IsEncrypt(E)
  <2>1. \A r \in 0 .. nr : f[r] = IF r = 0 THEN a ELSE EncryptRound(RK, nr, r, f[r - 1])
    BY <1>6, <1>8
  <2>2. IsEncrypt(f)
    BY <1>7, <2>1
  <2> HIDE DEF IsEncrypt
  <2> QED
    BY <2>2
<1>10. IsCipher(C)
  <2>1. \A r \in 0 .. nr : f[r] = IF r = 0 THEN a ELSE CipherRound(RK, nr, r, f[r - 1])
    BY <1>6
  <2>2. IsCipher(f)
    BY <1>7, <2>1
  <2> HIDE DEF IsCipher
  <2> QED
    BY <2>2
<1>11. E[0] = a /\ \A r \in 1 .. nr : E[r] = EncryptRound(RK, nr, r, E[r - 1])
  <2> HIDE DEF E
  <2> QED
    BY <1>9
<1>12. C[0] = a /\ \A r \in 1 .. nr : C[r] = CipherRound(RK, nr, r, C[r - 1])
  <2> HIDE DEF C
  <2> QED
    BY <1>10
<1> HIDE DEF E, C
<1> DEFINE K == {k \in 0 .. nr : E[k] = f[k] /\ C[k] = f[k]}
<1>13. \A k \in 0 .. nr : k \in K
  <2>1. 0 \in K
    BY <1>6, <1>11, <1>12
  <2>2. ASSUME NEW k \in 0 .. nr - 1, k \in K PROVE k + 1 \in K
    <3>1. k + 1 \in 1 .. nr /\ (k + 1) - 1 = k
      OBVIOUS
    <3> QED
      BY <1>6, <1>8, <1>11, <1>12, <2>2, <3>1
  <2> HIDE DEF K
  <2> QED
    BY <2>1, <2>2, Upwards
<1>14. E[nr] = f[nr] /\ C[nr] = f[nr]
  <2>1. nr \in 0 .. nr
    OBVIOUS
  <2> QED
    BY <1>13, <2>1
<1> QED
  BY <1>1, <1>2, <1>6, <1>14, Zenon DEF a

\* The program's cipher is the standard's, whatever the round keys.
LEMMA BlocksAgree ==
  ASSUME NEW nr \in Nat, NEW RK, RoundKeys(RK, nr), tables.FT = FT,
         NEW input \in [1 .. 16 -> Byte]
  PROVE  /\ AesEncrypt(RK, nr, input) = Cipher(RK, nr, input)
         /\ AesEncrypt(RK, nr, input) \in [1 .. 16 -> Byte]
<1>1. PICK X \in [0 .. nr -> FourWords] :
        /\ AesEncrypt(RK, nr, input) = PutWords(X[nr])
        /\ Cipher(RK, nr, input) = PutWords(X[nr])
  BY StatesAgree, Zenon
<1>2. X[nr] \in FourWords
  OBVIOUS
<1> QED
  BY <1>1, <1>2, BytesOfWords

-----------------------------------------------------------------------------
(* The key schedule.                                                       *)

\* The round constants are bytes.
LEMMA RconBytes == \A i \in 0 .. 9 : RCON[i] \in Byte
<1> DEFINE Is(p) == p = [i \in 0 .. 9 |-> IF i = 0 THEN 1 ELSE XTIME[p[i - 1]]]
           g == [i \in 1 .. 9 |-> XTIME]
<1>1. XTIME \in [Byte -> Byte]
  <2>1. XTIME = [x \in Byte |-> XTIME[x]]
    BY Zenon DEF XTIME
  <2>2. \A x \in Byte : XTIME[x] \in Byte
    BY XtimeBits
  <2> QED
    BY <2>1, <2>2
<1>2. PICK f \in [0 .. 9 -> Byte] : Follows(f, 1, 9, g)
  <2>1. g \in [1 .. 9 -> [Byte -> Byte]] /\ 9 \in Nat
    BY <1>1
  <2> HIDE DEF g
  <2> QED
    BY <2>1, Constants, Recursion, Zenon
<1>3. Is(f)
  <2>1. ASSUME NEW i \in 0 .. 9
        PROVE  f[i] = IF i = 0 THEN 1 ELSE XTIME[f[i - 1]]
    BY <1>2 DEF Follows
  <2>2. f = [i \in 0 .. 9 |-> f[i]]
    OBVIOUS
  <2> QED
    BY <2>1, <2>2
<1>4. Is(RCON)
  <2>1. RCON = CHOOSE p : Is(p)
    BY Zenon DEF RCON
  <2> HIDE DEF Is
  <2> QED
    BY <1>3, <2>1
<1> DEFINE K == {k \in 0 .. 9 : RCON[k] \in Byte}
<1>5. \A k \in 0 .. 9 : k \in K
  <2>1. 0 \in K
    BY <1>4, Constants
  <2>2. ASSUME NEW k \in 0 .. 9 - 1, k \in K PROVE k + 1 \in K
    <3>1. k + 1 \in 0 .. 9 /\ k + 1 # 0 /\ (k + 1) - 1 = k
      OBVIOUS
    <3>2. RCON[k + 1] = XTIME[RCON[k]]
      BY <1>4, <3>1
    <3> QED
      BY <1>1, <2>2, <3>1, <3>2
  <2>3. 9 \in Nat
    OBVIOUS
  <2> HIDE DEF K
  <2> QED
    BY <2>1, <2>2, <2>3, Upwards
<1> QED
  BY <1>5

\* SubWord of a word is a word.
LEMMA SubstitutedWord ==
  ASSUME NEW w \in FourBytes
  PROVE  SubWord(w) \in FourBytes
<1>1. SubWord(w) = <<FSb[w[1]], FSb[w[2]], FSb[w[3]], FSb[w[4]]>>
  BY Zenon DEF SubWord, Four
<1>2. FSb[w[1]] \in Byte /\ FSb[w[2]] \in Byte /\ FSb[w[3]] \in Byte /\ FSb[w[4]] \in Byte
  BY BytesOfWord, SubstitutionAgrees
<1>3. <<FSb[w[1]], FSb[w[2]], FSb[w[3]], FSb[w[4]]>> \in FourBytes
  BY <1>2, FourOf, Zenon DEF FourBytes
<1> QED
  BY <1>1, <1>3

\* A key of nk words, and what the schedule adds to the words known before.
KeyOf(key, nk) == nk \in {4, 6, 8} /\ key \in [1 .. 4 * nk -> Byte]
NextWord(key, nk, known, i) ==
  LET w == known[i - 1] IN
  IF i <= nk THEN GET_UINT32(key, i)
  ELSE XorWords[known[i - nk]][
         IF i % nk = 1
         THEN XorWords[<<RCON[(i \div nk) - 1], 0, 0, 0>>][SubWord(<<w[2], w[3], w[4], w[1]>>)]
         ELSE IF nk = 8 /\ i % nk = 5 THEN SubWord(w) ELSE w]

\* The next word of a key schedule is a word.
LEMMA NextWordTyped ==
  ASSUME NEW nk, NEW key, KeyOf(key, nk), NEW i \in 1 .. 4 * nk + 28,
         NEW known \in Seq(FourBytes), Len(known) = i - 1
  PROVE  NextWord(key, nk, known, i) \in FourBytes
<1>1. nk \in Nat /\ (nk = 4 \/ nk = 6 \/ nk = 8)
  BY DEF KeyOf
<1>2. CASE i <= nk
  <2>1. key \in Seq(Byte) /\ Len(key) = 4 * nk
    <3>1. key \in [1 .. 4 * nk -> Byte] /\ 4 * nk \in Nat
      BY <1>1 DEF KeyOf
    <3>2. key \in Seq(Byte)
      BY <3>1, SeqDef
    <3> QED
      BY <3>1, <3>2, LenProperties
  <2> DEFINE m == 4 * i - 4
  <2>2. m \in Nat /\ m + 4 <= Len(key) /\ m + 1 = 4 * i - 3 /\ m + 4 = 4 * i
    BY <1>1, <1>2, <2>1
  <2> HIDE DEF m
  <2>3. SubSeq(key, m + 1, m + 4) \in FourBytes
    BY <2>1, <2>2, FourInARow DEF FourBytes
  <2>4. NextWord(key, nk, known, i) = GET_UINT32(key, i)
    BY <1>2, Zenon DEF NextWord
  <2> QED
    BY <2>2, <2>3, <2>4, Zenon DEF GET_UINT32
<1>3. CASE ~ (i <= nk)
  <2> DEFINE w == known[i - 1]
             v == known[i - nk]
             turned == <<w[2], w[3], w[4], w[1]>>
             r == RCON[(i \div nk) - 1]
             u == IF i % nk = 1 THEN XorWords[<<r, 0, 0, 0>>][SubWord(turned)]
                  ELSE IF nk = 8 /\ i % nk = 5 THEN SubWord(w) ELSE w
  <2>1. w \in FourBytes /\ v \in FourBytes
    <3>1. i - 1 \in 1 .. Len(known) /\ i - nk \in 1 .. Len(known)
      BY <1>1, <1>3
    <3> QED
      BY <3>1, ElementOfSeq
  <2>2. turned \in FourBytes
    <3> HIDE DEF w
    <3>1. w[1] \in Byte /\ w[2] \in Byte /\ w[3] \in Byte /\ w[4] \in Byte
      BY <2>1, BytesOfWord
    <3> QED
      BY <3>1, FourOf, Zenon DEF FourBytes
  <2>3. ASSUME i % nk = 1
        PROVE  r \in Byte
    <3>1. (i \div nk) - 1 \in 0 .. 9
      <4>1. CASE nk = 4
        <5>1. i \in 5 .. 44 /\ i \div nk = i \div 4 /\ i % 4 = 1
          BY <1>3, <2>3, <4>1
        <5>2. i \div 4 \in 1 .. 10
          BY <5>1
        <5> QED
          BY <5>1, <5>2
      <4>2. CASE nk = 6
        <5>1. i \in 7 .. 52 /\ i \div nk = i \div 6 /\ i % 6 = 1
          BY <1>3, <2>3, <4>2
        <5>2. i \div 6 \in 1 .. 10
          BY <5>1
        <5> QED
          BY <5>1, <5>2
      <4>3. CASE nk = 8
        <5>1. i \in 9 .. 60 /\ i \div nk = i \div 8 /\ i % 8 = 1
          BY <1>3, <2>3, <4>3
        <5>2. i \div 8 \in 1 .. 10
          BY <5>1
        <5> QED
          BY <5>1, <5>2
      <4> QED
        BY <1>1, <4>1, <4>2, <4>3
    <3> QED
      BY <3>1, RconBytes
  <2>4. NextWord(key, nk, known, i) = XorWords[v][u]
    BY <1>3, Zenon DEF NextWord
  <2> HIDE DEF w, v, turned, r
  <2>5. i % nk = 1 => <<r, 0, 0, 0>> \in FourBytes
    BY <2>3, Constants, FourOf, Zenon DEF FourBytes
  <2>6. SubWord(turned) \in FourBytes /\ SubWord(w) \in FourBytes
    BY <2>1, <2>2, SubstitutedWord
  <2>7. i % nk = 1 => XorWords[<<r, 0, 0, 0>>][SubWord(turned)] \in FourBytes
    BY <2>5, <2>6, WordSums
  <2>8. u \in FourBytes
    BY <2>1, <2>6, <2>7, Zenon
  <2> HIDE DEF u
  <2> QED
    BY <2>1, <2>4, <2>8, WordSums
<1> QED
  BY <1>2, <1>3

\* The schedule gives every round its key.
LEMMA KeysScheduled ==
  ASSUME NEW nk, NEW key, KeyOf(key, nk)
  PROVE  /\ Rounds(key) = nk + 6
         /\ RoundKeys(erk(key), nk + 6)
<1> DEFINE N == 4 * nk + 28
           S == Seq(FourBytes)
           Is(R) == R = [i \in 0 .. N |-> IF i = 0 THEN <<>>
                           ELSE Append(R[i - 1], NextWord(key, nk, R[i - 1], i))]
           Step(known, i) == IF Len(known) = i - 1
                             THEN Append(known, NextWord(key, nk, known, i)) ELSE <<>>
           g == [i \in 1 .. N |-> [known \in S |-> Step(known, i)]]
           RK == CHOOSE R : Is(R)
<1>1. /\ nk \in {4, 6, 8} /\ nk \in Nat /\ N \in Nat
      /\ key \in [1 .. 4 * nk -> Byte] /\ 4 * nk \in Nat
  BY DEF KeyOf
<1>2. Len(key) = 4 * nk
  <2>1. key \in Seq(Byte)
    BY <1>1, SeqDef
  <2> QED
    BY <1>1, <2>1, LenProperties
<1>3. /\ Len(key) \div 4 = nk /\ Rounds(key) = nk + 6
      /\ 4 * Rounds(key) + 4 = N
  <2>1. Len(key) \div 4 = nk
    BY <1>1, <1>2
  <2> QED
    BY <1>1, <2>1 DEF Rounds
<1>4. erk(key) = RK[N]
  <2> DEFINE Scheduled(d, e) ==
               (CHOOSE R : R = [i \in 0 .. e |-> IF i = 0 THEN <<>>
                                ELSE Append(R[i - 1], NextWord(key, d, R[i - 1], i))])[e]
  <2>1. erk(key) = Scheduled(Len(key) \div 4, 4 * Rounds(key) + 4)
    BY Zenon DEF erk, NextWord
  <2>2. RK[N] = Scheduled(nk, N)
    BY Zenon
  <2> HIDE DEF Scheduled, RK, N
  <2> QED
    BY <1>3, <2>1, <2>2, Zenon
<1> HIDE DEF N
<1>5. <<>> \in S /\ Len(<<>>) = 0
  BY EmptySeq
<1>6. ASSUME NEW i \in 1 .. N, NEW known \in S, Len(known) = i - 1
      PROVE  /\ Append(known, NextWord(key, nk, known, i)) \in S
             /\ Len(Append(known, NextWord(key, nk, known, i))) = i
  <2>1. NextWord(key, nk, known, i) \in FourBytes
    BY <1>6, NextWordTyped DEF N
  <2> QED
    BY <1>1, <1>6, <2>1, AppendProperties
<1>7. PICK f \in [0 .. N -> S] : Follows(f, <<>>, N, g)
  <2>1. g \in [1 .. N -> [S -> S]]
    <3>1. ASSUME NEW i \in 1 .. N, NEW known \in S PROVE Step(known, i) \in S
      <4> HIDE DEF S
      <4> QED
        BY <1>5, <1>6, Zenon
    <3> HIDE DEF Step, S
    <3> QED
      BY <3>1
  <2> HIDE DEF g, S
  <2> QED
    BY <1>1, <1>5, <2>1, Recursion
<1>8. f[0] = <<>> /\ \A i \in 1 .. N : f[i] = Step(f[i - 1], i)
  <2>1. ASSUME NEW i \in 1 .. N PROVE f[i] = Step(f[i - 1], i)
    <3> HIDE DEF Step, S
    <3>1. f[i - 1] \in S
      BY <1>1
    <3>2. f[i] = g[i][f[i - 1]]
      BY <1>7 DEF Follows
    <3> QED
      BY <3>1, <3>2, Zenon
  <2> QED
    BY <1>7, <2>1 DEF Follows
<1> HIDE DEF g
<1> DEFINE K == {k \in 0 .. N : Len(f[k]) = k}
<1>9. \A k \in 0 .. N : k \in K
  <2>1. 0 \in K
    BY <1>1, <1>5, <1>8
  <2>2. ASSUME NEW k \in 0 .. N - 1, k \in K PROVE k + 1 \in K
    <3>1. k + 1 \in 1 .. N /\ (k + 1) - 1 = k /\ f[k] \in S
      BY <1>1
    <3> HIDE DEF S
    <3>2. f[k + 1] = Append(f[k], NextWord(key, nk, f[k], k + 1))
      BY <1>8, <2>2, <3>1
    <3> QED
      BY <1>6, <2>2, <3>1, <3>2
  <2> HIDE DEF K
  <2> QED
    BY <1>1, <2>1, <2>2, Upwards
<1> HIDE DEF S
<1>10. Is(f)
  <2>1. ASSUME NEW i \in 0 .. N
        PROVE  f[i] = IF i = 0 THEN <<>>
                      ELSE Append(f[i - 1], NextWord(key, nk, f[i - 1], i))
    <3>1. CASE i = 0
      BY <1>8, <3>1
    <3>2. CASE i # 0
      <4>1. i \in 1 .. N /\ i - 1 \in 0 .. N
        BY <1>1, <3>2
      <4>2. Len(f[i - 1]) = i - 1
        BY <1>9, <4>1
      <4> QED
        BY <1>8, <3>2, <4>1, <4>2
    <3> QED
      BY <3>1, <3>2
  <2>2. f = [i \in 0 .. N |-> f[i]]
    OBVIOUS
  <2> QED
    BY <2>1, <2>2
<1>11. Is(RK)
  <2> HIDE DEF Is
  <2> QED
    BY <1>10
<1> HIDE DEF RK
<1> DEFINE L == {k \in 0 .. N : RK[k] = f[k]}
<1>12. \A k \in 0 .. N : k \in L
  <2>1. 0 \in L
    BY <1>1, <1>10, <1>11
  <2>2. ASSUME NEW k \in 0 .. N - 1, k \in L PROVE k + 1 \in L
    <3>1. k + 1 \in 0 .. N /\ k + 1 # 0 /\ (k + 1) - 1 = k
      BY <1>1
    <3>2. /\ RK[k + 1] = Append(RK[k], NextWord(key, nk, RK[k], k + 1))
          /\ f[k + 1] = Append(f[k], NextWord(key, nk, f[k], k + 1))
      BY <1>10, <1>11, <3>1
    <3> QED
      BY <2>2, <3>1, <3>2
  <2> HIDE DEF L
  <2> QED
    BY <1>1, <2>1, <2>2, Upwards
<1>13. RK[N] \in Seq(FourBytes) /\ Len(RK[N]) = N
  <2>1. N \in 0 .. N
    BY <1>1
  <2> QED
    BY <1>9, <1>12, <2>1 DEF S
<1>14. ASSUME NEW r \in 0 .. nk + 6
       PROVE  RoundKey(RK[N], r) \in FourWords
  <2> DEFINE m == 4 * r
  <2>1. m \in Nat /\ m + 4 <= Len(RK[N])
    BY <1>1, <1>13 DEF N
  <2> HIDE DEF m
  <2>2. SubSeq(RK[N], m + 1, m + 4) \in FourWords
    BY <1>13, <2>1, FourInARow DEF FourWords
  <2> QED
    BY <2>2 DEF m, RoundKey
<1> QED
  BY <1>3, <1>4, <1>14, Zenon DEF RoundKeys

\* AesEncrypt with the tables of AesGenTables and the keys of AesSetKey gives
\* what FIPS 197 gives, for every key of 16, 24 or 32 bytes and every block.
THEOREM CiphersAgree ==
  ASSUME NEW nk, NEW key, KeyOf(key, nk), tables.FT = FT, NEW input \in [1 .. 16 -> Byte]
  PROVE  /\ AesEncrypt(erk(key), Rounds(key), input) = Cipher(erk(key), Rounds(key), input)
         /\ AesEncrypt(erk(key), Rounds(key), input) \in [1 .. 16 -> Byte]
<1>1. nk + 6 \in Nat
  BY DEF KeyOf
<1>2. Rounds(key) = nk + 6 /\ RoundKeys(erk(key), nk + 6)
  BY KeysScheduled
<1> QED
  BY <1>1, <1>2, BlocksAgree

-----------------------------------------------------------------------------
(* The inverse of the S-box.                                               *)

\* Every bit of a byte is a sum of bits of its affine image.
LEMMA AffineInjective ==
  ASSUME NEW u \in Byte, NEW v \in Byte, AffineImage(u) = AffineImage(v)
  PROVE  u = v
<1> DEFINE Back(x, a) ==
      /\ On(x, 0) <=> On(a, 2) ## On(a, 5) ## On(a, 7) ## TRUE
      /\ On(x, 1) <=> On(a, 3) ## On(a, 6) ## On(a, 0)
      /\ On(x, 2) <=> On(a, 4) ## On(a, 7) ## On(a, 1) ## TRUE
      /\ On(x, 3) <=> On(a, 5) ## On(a, 0) ## On(a, 2)
      /\ On(x, 4) <=> On(a, 6) ## On(a, 1) ## On(a, 3)
      /\ On(x, 5) <=> On(a, 7) ## On(a, 2) ## On(a, 4)
      /\ On(x, 6) <=> On(a, 0) ## On(a, 3) ## On(a, 5)
      /\ On(x, 7) <=> On(a, 1) ## On(a, 4) ## On(a, 6)
<1>1. ASSUME NEW x \in Byte PROVE Back(x, AffineImage(x))
  BY AffineImageBits, Literals DEF ##
<1>2. Back(u, AffineImage(u)) /\ Back(v, AffineImage(u))
  BY <1>1
<1> QED
  BY <1>2, SameBits

\* What FSb takes the affine image of.
Inverse0(x) == IF x = 0 THEN 0 ELSE pow[255 - log[x]]

\* No power of 3 is 0, and the inverses of two bytes differ.
LEMMA InverseInjective ==
  ASSUME NEW x \in Byte, NEW y \in Byte, Inverse0(x) = Inverse0(y)
  PROVE  x = y
<1>1. ASSUME NEW z \in 1 .. 255
      PROVE  /\ log[z] \in 1 .. 255 /\ pow[log[z]] = z /\ 255 - log[z] \in 0 .. 254
             /\ Inverse0(z) = pow[255 - log[z]] /\ Inverse0(z) # 0
  <2>1. log[z] \in 1 .. 255 /\ pow[log[z]] = z
    BY Logarithms, ZenonT(60)
  <2>2. z # 0 /\ z \in Byte
    BY DEF Byte
  <2>3. Inverse0(z) = pow[255 - log[z]]
    BY <2>2, Zenon DEF Inverse0
  <2> DEFINE k == log[z]
  <2>4. k \in 0 .. 255 /\ 255 - k \in 0 .. 255 - k /\ k + (255 - k) = 255
    BY <2>1
  <2> HIDE DEF k
  <2>5. Product[pow[k]][pow[255 - k]] = pow[k + (255 - k)]
    <3>1. \A j \in 0 .. 255 - k : Product[pow[k]][pow[j]] = pow[k + j]
      <4>1. k \in 0 .. 255
        BY <2>4
      <4> QED
        BY <4>1, ProductOfPowers
    <3> QED
      BY <2>4, <3>1, Zenon
  <2>6. Product[z][pow[255 - k]] = 1
    BY <2>1, <2>4, <2>5, PowersOfThree DEF k
  <2>7. Product[z][0] = 0 /\ 0 # 1
    BY <2>2, ProductOfZero
  <2>8. 255 - log[z] \in 0 .. 254
    BY <2>1
  <2> QED
    BY <2>1, <2>3, <2>6, <2>7, <2>8, Zenon DEF k
<1>2. ASSUME NEW z \in Byte PROVE z = 0 \/ z \in 1 .. 255
  BY DEF Byte
<1>3. Inverse0(0) = 0
  BY DEF Inverse0
<1>4. CASE x = 0 \/ y = 0
  BY <1>1, <1>2, <1>3, <1>4, Zenon
<1>5. CASE x \in 1 .. 255 /\ y \in 1 .. 255
  <2> DEFINE a == 255 - log[x]
             b == 255 - log[y]
  <2>1. a \in 0 .. 254 /\ b \in 0 .. 254 /\ pow[a] = pow[b]
    <3>1. a \in 0 .. 254 /\ Inverse0(x) = pow[a]
      BY <1>1, <1>5, ZenonT(60)
    <3>2. b \in 0 .. 254 /\ Inverse0(y) = pow[b]
      BY <1>1, <1>5, ZenonT(60)
    <3> QED
      BY <3>1, <3>2, Zenon
  <2> HIDE DEF a, b
  <2>2. a = b
    <3> DEFINE c == IF a = 0 THEN 255 ELSE a
               d == IF b = 0 THEN 255 ELSE b
    <3>1. c \in 1 .. 255 /\ d \in 1 .. 255
      BY <2>1
    <3>2. pow[c] = pow[a] /\ pow[d] = pow[b]
      BY Powers, PowersOfThree
    <3>3. c = d => a = b
      BY <2>1
    <3> HIDE DEF c, d
    <3>4. c < d \/ d < c \/ c = d
      BY <3>1
    <3> QED
      BY <2>1, <3>1, <3>2, <3>3, <3>4, PowersDiffer
  <2>3. 255 - log[x] = 255 - log[y]
    BY <2>2 DEF a, b
  <2>4. log[x] \in 1 .. 255 /\ log[y] \in 1 .. 255 /\ pow[log[x]] = x /\ pow[log[y]] = y
    BY <1>1, <1>5, Zenon
  <2>5. log[x] = log[y]
    <3> DEFINE m == log[x]
               n == log[y]
    <3>1. m \in 1 .. 255 /\ n \in 1 .. 255 /\ 255 - m = 255 - n
      BY <2>3, <2>4, Zenon
    <3> HIDE DEF m, n
    <3>2. m = n
      BY <3>1
    <3> QED
      BY <3>2 DEF m, n
  <2> QED
    BY <2>4, <2>5, Zenon
<1> QED
  BY <1>2, <1>4, <1>5, Zenon

\* RSb undoes FSb.
LEMMA InverseSubstitution ==
  ASSUME NEW x \in Byte
  PROVE  RSb[FSb[x]] = x
<1>1. ASSUME NEW z \in Byte
      PROVE  FSb[z] = AffineImage(Inverse0(z)) /\ Inverse0(z) \in Byte
  <2>1. CASE z = 0
    <3>1. FSb[z] = 99 /\ Inverse0(z) = 0 /\ 99 \in Byte
      BY <2>1 DEF FSb, Inverse0, Byte
    <3>2. AffineImage(0) = 99
      BY <3>1, Constants, Literals, AffineImageBits, SameBits DEF ##
    <3> QED
      BY <3>1, <3>2, Constants
  <2>2. CASE z # 0
    <3>1. z \in 1 .. 255
      BY <2>2 DEF Byte
    <3>2. Inverse0(z) = pow[255 - log[z]] /\ FSb[z] = Affine[pow[255 - log[z]]]
      BY <2>2, Zenon DEF FSb, Inverse0
    <3>3. pow[255 - log[z]] \in Byte
      BY <3>1, Inverses, Zenon
    <3> QED
      BY <3>2, <3>3, AffineAgrees, Zenon
  <2> QED
    BY <2>1, <2>2
<1>2. FSb[x] \in Byte
  BY SubstitutionAgrees
<1>3. RSb[FSb[x]] = CHOOSE i \in Byte : FSb[i] = FSb[x]
  BY <1>2, Zenon DEF RSb
<1>4. \A i \in Byte : FSb[i] = FSb[x] => i = x
  <2> TAKE i \in Byte
  <2> HAVE FSb[i] = FSb[x]
  <2>1. Inverse0(i) = Inverse0(x)
    BY <1>1, AffineInjective, Zenon
  <2> QED
    BY <2>1, InverseInjective
<1> QED
  BY <1>3, <1>4, Zenon

-----------------------------------------------------------------------------
(* The factors of the inverse of MixColumns.                               *)

\* Logarithms are added modulo 255.
LEMMA ProductsByLogarithm ==
  ASSUME NEW i \in 0 .. 255, NEW j \in 1 .. 255
  PROVE  Product[pow[i]][pow[j]] = pow[(i + j) % 255]
<1> DEFINE K == {n \in 0 .. 255 : Product[pow[n]][pow[j]] = pow[(n + j) % 255]}
<1>1. \A n \in 0 .. 255 : pow[n] \in Byte
  BY Powers DEF Byte
<1>2. pow[0] = 1 /\ pow[255] = 1
  BY Powers, PowersOfThree
<1>3. 0 \in K
  <2>1. Product[pow[0]][pow[j]] = pow[j]
    BY <1>1, <1>2, ProductOfOne
  <2>2. (0 + j) % 255 = IF j = 255 THEN 0 ELSE j
    BY SMTT(60)
  <2>3. pow[(0 + j) % 255] = pow[j]
    BY <1>2, <2>2
  <2> QED
    BY <2>1, <2>3
<1>4. ASSUME NEW n \in 0 .. 255 - 1, n \in K PROVE n + 1 \in K
  <2> DEFINE m == (n + j) % 255
  <2>1. n \in 0 .. 255 /\ n \in 0 .. 254 /\ n + 1 \in 0 .. 255 /\ j \in 0 .. 255
    OBVIOUS
  <2>2. m \in 0 .. 254 /\ ((n + 1) + j) % 255 = IF m = 254 THEN 0 ELSE m + 1
    BY SMTT(60)
  <2>3. Product[pow[n]][pow[j]] = pow[m]
    BY <1>4
  <2> HIDE DEF m
  <2>4. pow[n + 1] = Times3[pow[n]] /\ pow[m + 1] = Times3[pow[m]]
    BY <2>1, <2>2, Powers
  <2>5. Product[Times3[pow[n]]][pow[j]] = Times3[Product[pow[n]][pow[j]]]
    BY <1>1, <2>1, ProductOfThree
  <2>6. Product[pow[n + 1]][pow[j]] = pow[m + 1]
    BY <2>3, <2>4, <2>5, Zenon
  <2>7. pow[((n + 1) + j) % 255] = pow[m + 1]
    BY <1>2, <2>2
  <2> QED
    BY <2>1, <2>6, <2>7
<1>5. \A n \in 0 .. 255 : n \in K
  <2> HIDE DEF K
  <2> QED
    BY <1>3, <1>4, Upwards, SMTT(60)
<1> QED
  BY <1>5

\* Zero times a byte is zero.
LEMMA ProductByZero ==
  ASSUME NEW y \in Byte
  PROVE  Product[0][y] = 0
<1>1. XTIME[0] = 0
  BY Constants, Literals, XtimeBits, SameBits DEF ##
<1>2. Multiples8(0, 0, 0, 0, 0, 0, 0, 0)
  BY <1>1 DEF Multiples8
<1>3. Product[0][y] = Tree(Part(y, 0, 0), Part(y, 1, 0), Part(y, 2, 0), Part(y, 3, 0),
                           Part(y, 4, 0), Part(y, 5, 0), Part(y, 6, 0), Part(y, 7, 0))
  BY <1>2, Constants, ProductParts
<1>4. \A i : Part(y, i, 0) = 0
  BY DEF Part
<1>5. 0 (+) 0 = 0
  BY Constants, XorLaws
<1> QED
  BY <1>3, <1>4, <1>5, Zenon DEF Tree

\* MUL multiplies, in either order.
LEMMA MultiplesAgree ==
  ASSUME NEW a \in 1 .. 255, NEW y \in Byte
  PROVE  MUL[a][y] = Product[y][a]
<1>1. a \in Byte /\ a # 0
  BY DEF Byte
<1>2. MUL[a][y] = IF a # 0 /\ y # 0 THEN pow[(log[a] + log[y]) % 255] ELSE 0
  BY <1>1, Zenon DEF MUL
<1>3. CASE y = 0
  BY <1>1, <1>2, <1>3, ProductByZero
<1>4. CASE y # 0
  <2>1. y \in 1 .. 255
    BY <1>4 DEF Byte
  <2> DEFINE i == log[y]
             j == log[a]
  <2>2. i \in 1 .. 255 /\ pow[i] = y /\ j \in 1 .. 255 /\ pow[j] = a
    BY <2>1, Logarithms, ZenonT(60)
  <2>3. MUL[a][y] = pow[(j + i) % 255]
    BY <1>1, <1>2, <1>4, Zenon
  <2> HIDE DEF i, j
  <2>4. j + i = i + j /\ i \in 0 .. 255
    BY <2>2
  <2>5. Product[pow[i]][pow[j]] = pow[(i + j) % 255]
    BY <2>2, <2>4, ProductsByLogarithm, ZenonT(60)
  <2> QED
    BY <2>2, <2>3, <2>4, <2>5, ZenonT(60)
<1> QED
  BY <1>3, <1>4

\* A bit of a sum, and bytes all whose bits agree.
LEMMA AnyBit ==
  /\ \A x, y \in Byte : x (+) y \in Byte
  /\ \A x, y \in Byte, i \in 0 .. 7 : On(x (+) y, i) <=> On(x, i) ## On(y, i)
  /\ \A x, y \in Byte : (\A i \in 0 .. 7 : On(x, i) <=> On(y, i)) => x = y
<1>1. ASSUME NEW x \in Byte, NEW y \in Byte, NEW i \in 0 .. 7
      PROVE  On(x (+) y, i) <=> On(x, i) ## On(y, i)
  <2>1. \/ i = 0 \/ i = 1 \/ i = 2 \/ i = 3 \/ i = 4 \/ i = 5 \/ i = 6 \/ i = 7
    OBVIOUS
  <2> QED
    BY <2>1, XorBits, Zenon
<1>2. ASSUME NEW x \in Byte, NEW y \in Byte, \A i \in 0 .. 7 : On(x, i) <=> On(y, i)
      PROVE  x = y
  <2>1. /\ 0 \in 0 .. 7 /\ 1 \in 0 .. 7 /\ 2 \in 0 .. 7 /\ 3 \in 0 .. 7
        /\ 4 \in 0 .. 7 /\ 5 \in 0 .. 7 /\ 6 \in 0 .. 7 /\ 7 \in 0 .. 7
    OBVIOUS
  <2>2. /\ On(x, 0) <=> On(y, 0)
        /\ On(x, 1) <=> On(y, 1)
        /\ On(x, 2) <=> On(y, 2)
        /\ On(x, 3) <=> On(y, 3)
        /\ On(x, 4) <=> On(y, 4)
        /\ On(x, 5) <=> On(y, 5)
        /\ On(x, 6) <=> On(y, 6)
        /\ On(x, 7) <=> On(y, 7)
    BY <1>2, <2>1, Zenon
  <2> QED
    BY <2>2, SameBits
<1>3. \A x, y \in Byte : x (+) y \in Byte
  BY XorLaws
<1> QED
  BY <1>1, <1>2, <1>3, Zenon

\* The factors of the inverse of MixColumns, by doubling.
LEMMA InverseFactors ==
  ASSUME NEW x \in Byte, NEW b, NEW c, NEW d,
         b = XTIME[x], c = XTIME[b], d = XTIME[c]
  PROVE  /\ b \in Byte /\ c \in Byte /\ d \in Byte
         /\ MUL[14][x] = b (+) (c (+) d)
         /\ MUL[11][x] = (x (+) b) (+) d
         /\ MUL[13][x] = x (+) (c (+) d)
         /\ MUL[9][x] = x (+) d
<1> DEFINE e == XTIME[d]
           f == XTIME[e]
           g == XTIME[f]
           h == XTIME[g]
<1>1. Multiples8(x, b, c, d, e, f, g, h)
  BY Zenon DEF Multiples8
<1> HIDE DEF e, f, g, h
<1>2. /\ 9 \in Byte /\ 11 \in Byte /\ 13 \in Byte /\ 14 \in Byte
      /\ 9 \in 1 .. 255 /\ 11 \in 1 .. 255 /\ 13 \in 1 .. 255 /\ 14 \in 1 .. 255
  BY DEF Byte
<1>3. /\ 9 = 1 + 2 * 0 + 4 * 0 + 8 * 1 + 16 * 0 + 32 * 0 + 64 * 0 + 128 * 0
      /\ 11 = 1 + 2 * 1 + 4 * 0 + 8 * 1 + 16 * 0 + 32 * 0 + 64 * 0 + 128 * 0
      /\ 13 = 1 + 2 * 0 + 4 * 1 + 8 * 1 + 16 * 0 + 32 * 0 + 64 * 0 + 128 * 0
      /\ 14 = 0 + 2 * 1 + 4 * 1 + 8 * 1 + 16 * 0 + 32 * 0 + 64 * 0 + 128 * 0
      /\ 0 \in {0, 1} /\ 1 \in {0, 1} /\ 0 # 1
  OBVIOUS
<1>4. Has(9, {0, 3})
  BY <1>3, SumOfBits DEF On, Has
<1>5. Has(11, {0, 1, 3})
  BY <1>3, SumOfBits DEF On, Has
<1>6. Has(13, {0, 2, 3})
  BY <1>3, SumOfBits DEF On, Has
<1>7. Has(14, {1, 2, 3})
  BY <1>3, SumOfBits DEF On, Has
<1>8. EightBytes(x, b, c, d, e, f, g, h)
  BY <1>1, <1>2, ProductParts
<1>9. x \in Byte /\ b \in Byte /\ c \in Byte /\ d \in Byte
  BY <1>8 DEF EightBytes
<1>10. ASSUME NEW y \in Byte
       PROVE  Product[x][y] = Tree(Part(y, 0, x), Part(y, 1, b), Part(y, 2, c), Part(y, 3, d),
                                   Part(y, 4, e), Part(y, 5, f), Part(y, 6, g), Part(y, 7, h))
  BY <1>1, ProductParts
<1>11. ASSUME NEW p \in Byte, NEW q \in Byte, NEW r \in Byte, NEW s \in Byte
       PROVE  Tree(p, q, r, s, 0, 0, 0, 0) = (p (+) q) (+) (r (+) s)
  <2>1. 0 (+) 0 = 0 /\ p (+) q \in Byte /\ r (+) s \in Byte
    BY Constants, XorLaws
  <2>2. (p (+) q) (+) (r (+) s) \in Byte
    BY <2>1, XorLaws
  <2>3. ((p (+) q) (+) (r (+) s)) (+) 0 = (p (+) q) (+) (r (+) s)
    BY <2>2, XorLaws
  <2> QED
    BY <2>1, <2>3, Zenon DEF Tree
<1>12. Product[x][9] = (x (+) 0) (+) (0 (+) d)
  <2>1. /\ Part(9, 0, x) = x /\ Part(9, 1, b) = 0 /\ Part(9, 2, c) = 0 /\ Part(9, 3, d) = d
        /\ Part(9, 4, e) = 0 /\ Part(9, 5, f) = 0 /\ Part(9, 6, g) = 0 /\ Part(9, 7, h) = 0
    BY <1>4 DEF Part, Has
  <2>2. Product[x][9] = Tree(x, 0, 0, d, 0, 0, 0, 0)
    BY <1>2, <1>10, <2>1
  <2> QED
    BY <1>9, <1>11, <2>2, Constants
<1>13. Product[x][11] = (x (+) b) (+) (0 (+) d)
  <2>1. /\ Part(11, 0, x) = x /\ Part(11, 1, b) = b /\ Part(11, 2, c) = 0 /\ Part(11, 3, d) = d
        /\ Part(11, 4, e) = 0 /\ Part(11, 5, f) = 0 /\ Part(11, 6, g) = 0 /\ Part(11, 7, h) = 0
    BY <1>5 DEF Part, Has
  <2>2. Product[x][11] = Tree(x, b, 0, d, 0, 0, 0, 0)
    BY <1>2, <1>10, <2>1
  <2> QED
    BY <1>9, <1>11, <2>2, Constants
<1>14. Product[x][13] = (x (+) 0) (+) (c (+) d)
  <2>1. /\ Part(13, 0, x) = x /\ Part(13, 1, b) = 0 /\ Part(13, 2, c) = c /\ Part(13, 3, d) = d
        /\ Part(13, 4, e) = 0 /\ Part(13, 5, f) = 0 /\ Part(13, 6, g) = 0 /\ Part(13, 7, h) = 0
    BY <1>6 DEF Part, Has
  <2>2. Product[x][13] = Tree(x, 0, c, d, 0, 0, 0, 0)
    BY <1>2, <1>10, <2>1
  <2> QED
    BY <1>9, <1>11, <2>2, Constants
<1>15. Product[x][14] = (0 (+) b) (+) (c (+) d)
  <2>1. /\ Part(14, 0, x) = 0 /\ Part(14, 1, b) = b /\ Part(14, 2, c) = c /\ Part(14, 3, d) = d
        /\ Part(14, 4, e) = 0 /\ Part(14, 5, f) = 0 /\ Part(14, 6, g) = 0 /\ Part(14, 7, h) = 0
    BY <1>7 DEF Part, Has
  <2>2. Product[x][14] = Tree(0, b, c, d, 0, 0, 0, 0)
    BY <1>2, <1>10, <2>1
  <2> QED
    BY <1>9, <1>11, <2>2, Constants
<1>16. x (+) 0 = x /\ 0 (+) b = b /\ 0 (+) d = d
  BY <1>9, Constants, XorLaws
<1>17. /\ MUL[9][x] = Product[x][9] /\ MUL[11][x] = Product[x][11]
       /\ MUL[13][x] = Product[x][13] /\ MUL[14][x] = Product[x][14]
  BY <1>2, MultiplesAgree
<1> QED
  BY <1>9, <1>12, <1>13, <1>14, <1>15, <1>16, <1>17, Zenon

\* Two sums of two bytes may be added crosswise.
LEMMA Crossed ==
  ASSUME NEW a \in Byte, NEW b \in Byte, NEW c \in Byte, NEW d \in Byte
  PROVE  (a (+) b) (+) (c (+) d) = (a (+) c) (+) (b (+) d)
<1>1. /\ a (+) b \in Byte /\ c (+) d \in Byte /\ a (+) c \in Byte /\ b (+) d \in Byte
      /\ b (+) c \in Byte /\ c (+) b \in Byte
  BY XorLaws
<1>2. (a (+) b) (+) (c (+) d) = a (+) (b (+) (c (+) d))
  BY <1>1, XorLaws
<1>3. b (+) (c (+) d) = (b (+) c) (+) d /\ b (+) c = c (+) b /\ (c (+) b) (+) d = c (+) (b (+) d)
  BY XorLaws
<1>4. (a (+) c) (+) (b (+) d) = a (+) (c (+) (b (+) d))
  BY <1>1, XorLaws
<1> QED
  BY <1>2, <1>3, <1>4, Zenon

\* These multiplications are linear.
LEMMA InverseFactorsLinear ==
  Linear(MUL[14]) /\ Linear(MUL[11]) /\ Linear(MUL[13]) /\ Linear(MUL[9])
<1>1. /\ 9 \in Byte /\ 11 \in Byte /\ 13 \in Byte /\ 14 \in Byte
  BY DEF Byte
<1>2. \A a \in Byte : MUL[a] = [y \in Byte |-> MUL[a][y]]
  BY ZenonT(60) DEF MUL
<1>3. ASSUME NEW x \in Byte
      PROVE  MUL[14][x] \in Byte /\ MUL[11][x] \in Byte /\ MUL[13][x] \in Byte /\ MUL[9][x] \in Byte
  <2> DEFINE b == XTIME[x]
             c == XTIME[b]
             d == XTIME[c]
  <2>1. /\ b \in Byte /\ c \in Byte /\ d \in Byte
        /\ MUL[14][x] = b (+) (c (+) d)
        /\ MUL[11][x] = (x (+) b) (+) d
        /\ MUL[13][x] = x (+) (c (+) d)
        /\ MUL[9][x] = x (+) d
    BY InverseFactors
  <2> HIDE DEF b, c, d
  <2>2. c (+) d \in Byte /\ x (+) b \in Byte
    BY <2>1, XorLaws
  <2> QED
    BY <2>1, <2>2, XorLaws
<1>4. /\ MUL[14] \in [Byte -> Byte] /\ MUL[11] \in [Byte -> Byte]
      /\ MUL[13] \in [Byte -> Byte] /\ MUL[9] \in [Byte -> Byte]
  <2>1. /\ MUL[14] = [y \in Byte |-> MUL[14][y]] /\ MUL[11] = [y \in Byte |-> MUL[11][y]]
        /\ MUL[13] = [y \in Byte |-> MUL[13][y]] /\ MUL[9] = [y \in Byte |-> MUL[9][y]]
    BY <1>1, <1>2, Zenon
  <2> QED
    BY <1>3, <2>1
<1>5. ASSUME NEW x \in Byte, NEW y \in Byte
      PROVE  /\ MUL[14][x (+) y] = MUL[14][x] (+) MUL[14][y]
             /\ MUL[11][x (+) y] = MUL[11][x] (+) MUL[11][y]
             /\ MUL[13][x (+) y] = MUL[13][x] (+) MUL[13][y]
             /\ MUL[9][x (+) y] = MUL[9][x] (+) MUL[9][y]
  <2> DEFINE b == XTIME[x]
             c == XTIME[b]
             d == XTIME[c]
             p == XTIME[y]
             q == XTIME[p]
             r == XTIME[q]
             z == x (+) y
  <2>1. /\ b \in Byte /\ c \in Byte /\ d \in Byte
        /\ MUL[14][x] = b (+) (c (+) d)
        /\ MUL[11][x] = (x (+) b) (+) d
        /\ MUL[13][x] = x (+) (c (+) d)
        /\ MUL[9][x] = x (+) d
    BY InverseFactors
  <2>2. /\ p \in Byte /\ q \in Byte /\ r \in Byte
        /\ MUL[14][y] = p (+) (q (+) r)
        /\ MUL[11][y] = (y (+) p) (+) r
        /\ MUL[13][y] = y (+) (q (+) r)
        /\ MUL[9][y] = y (+) r
    BY InverseFactors
  <2>3. z \in Byte /\ XTIME[z] = b (+) p
    BY XorLaws, XtimeLinear DEF Linear
  <2>4. b (+) p \in Byte /\ XTIME[b (+) p] = c (+) q
    <3> HIDE DEF b, p
    <3> QED
      BY <2>1, <2>2, XorLaws, XtimeLinear, ZenonT(60) DEF Linear
  <2>5. c (+) q \in Byte /\ XTIME[c (+) q] = d (+) r
    <3> HIDE DEF c, q
    <3> QED
      BY <2>1, <2>2, XorLaws, XtimeLinear, ZenonT(60) DEF Linear
  <2>6. d (+) r \in Byte
    <3> HIDE DEF d, r
    <3> QED
      BY <2>1, <2>2, XorLaws
  <2> HIDE DEF b, c, d, p, q, r
  <2>7. /\ MUL[14][z] = (b (+) p) (+) ((c (+) q) (+) (d (+) r))
        /\ MUL[11][z] = (z (+) (b (+) p)) (+) (d (+) r)
        /\ MUL[13][z] = z (+) ((c (+) q) (+) (d (+) r))
        /\ MUL[9][z] = z (+) (d (+) r)
    <3> HIDE DEF z
    <3> QED
      BY <2>3, <2>4, <2>5, InverseFactors
  <2>9. /\ c (+) d \in Byte /\ q (+) r \in Byte /\ x (+) b \in Byte /\ y (+) p \in Byte
    BY <2>1, <2>2, XorLaws
  <2>10. (c (+) q) (+) (d (+) r) = (c (+) d) (+) (q (+) r)
    BY <2>1, <2>2, Crossed
  <2>11. (b (+) p) (+) ((c (+) d) (+) (q (+) r)) = (b (+) (c (+) d)) (+) (p (+) (q (+) r))
    BY <2>1, <2>2, <2>9, Crossed
  <2>12. z (+) ((c (+) d) (+) (q (+) r)) = (x (+) (c (+) d)) (+) (y (+) (q (+) r))
    BY <2>9, Crossed
  <2>13. z (+) (b (+) p) = (x (+) b) (+) (y (+) p)
    BY <2>1, <2>2, Crossed
  <2>14. ((x (+) b) (+) (y (+) p)) (+) (d (+) r) = ((x (+) b) (+) d) (+) ((y (+) p) (+) r)
    BY <2>1, <2>2, <2>9, Crossed
  <2>15. z (+) (d (+) r) = (x (+) d) (+) (y (+) r)
    BY <2>1, <2>2, Crossed
  <2> QED
    BY <2>1, <2>2, <2>7, <2>10, <2>11, <2>12, <2>13, <2>14, <2>15, Zenon
<1> QED
  BY <1>4, <1>5, Zenon DEF Linear

-----------------------------------------------------------------------------
(* The inverse of MixColumns.                                              *)

\* A byte of a column that is a sum of linear images of four bytes.
Combined(f, g, h, i, s) == (f[s[1]] (+) g[s[2]]) (+) (h[s[3]] (+) i[s[4]])

\* Such a byte is a linear function of the column.
LEMMA CombinedLinear ==
  ASSUME NEW f, NEW g, NEW h, NEW i, Linear(f), Linear(g), Linear(h), Linear(i),
         NEW v \in FourBytes, NEW w \in FourBytes
  PROVE  /\ Combined(f, g, h, i, v) \in Byte
         /\ Combined(f, g, h, i, XorWords[v][w])
              = Combined(f, g, h, i, v) (+) Combined(f, g, h, i, w)
<1> DEFINE u == XorWords[v][w]
<1>1. /\ v[1] \in Byte /\ v[2] \in Byte /\ v[3] \in Byte /\ v[4] \in Byte
      /\ w[1] \in Byte /\ w[2] \in Byte /\ w[3] \in Byte /\ w[4] \in Byte
  BY BytesOfWord
<1>2. u[1] = v[1] (+) w[1] /\ u[2] = v[2] (+) w[2] /\ u[3] = v[3] (+) w[3] /\ u[4] = v[4] (+) w[4]
  <2>1. u = <<v[1] (+) w[1], v[2] (+) w[2], v[3] (+) w[3], v[4] (+) w[4]>>
    BY WordSums
  <2> HIDE DEF u
  <2> QED
    BY <2>1
<1> HIDE DEF u
<1> DEFINE p1 == f[v[1]]
           p2 == g[v[2]]
           p3 == h[v[3]]
           p4 == i[v[4]]
           q1 == f[w[1]]
           q2 == g[w[2]]
           q3 == h[w[3]]
           q4 == i[w[4]]
<1>3. /\ p1 \in Byte /\ p2 \in Byte /\ p3 \in Byte /\ p4 \in Byte
      /\ q1 \in Byte /\ q2 \in Byte /\ q3 \in Byte /\ q4 \in Byte
  BY <1>1 DEF Linear
<1>4. f[u[1]] = p1 (+) q1 /\ g[u[2]] = p2 (+) q2 /\ h[u[3]] = p3 (+) q3 /\ i[u[4]] = p4 (+) q4
  <2>1. \A l, y, z : Linear(l) /\ y \in Byte /\ z \in Byte => l[y (+) z] = l[y] (+) l[z]
    BY Zenon DEF Linear
  <2>2. /\ f[v[1] (+) w[1]] = p1 (+) q1 /\ g[v[2] (+) w[2]] = p2 (+) q2
        /\ h[v[3] (+) w[3]] = p3 (+) q3 /\ i[v[4] (+) w[4]] = p4 (+) q4
    <3>1. /\ f[v[1] (+) w[1]] = f[v[1]] (+) f[w[1]] /\ g[v[2] (+) w[2]] = g[v[2]] (+) g[w[2]]
          /\ h[v[3] (+) w[3]] = h[v[3]] (+) h[w[3]] /\ i[v[4] (+) w[4]] = i[v[4]] (+) i[w[4]]
      BY <1>1, <2>1
    <3> QED
      BY <3>1, Zenon
  <2> HIDE DEF p1, p2, p3, p4, q1, q2, q3, q4
  <2> QED
    BY <1>2, <2>2, Zenon
<1>5. /\ Combined(f, g, h, i, v) = (p1 (+) p2) (+) (p3 (+) p4)
      /\ Combined(f, g, h, i, w) = (q1 (+) q2) (+) (q3 (+) q4)
      /\ Combined(f, g, h, i, u) = (f[u[1]] (+) g[u[2]]) (+) (h[u[3]] (+) i[u[4]])
  BY Zenon DEF Combined
<1> HIDE DEF p1, p2, p3, p4, q1, q2, q3, q4
<1>6. /\ p1 (+) p2 \in Byte /\ p3 (+) p4 \in Byte /\ q1 (+) q2 \in Byte /\ q3 (+) q4 \in Byte
      /\ p1 (+) q1 \in Byte /\ p2 (+) q2 \in Byte /\ p3 (+) q3 \in Byte /\ p4 (+) q4 \in Byte
  BY <1>3, XorLaws
<1>7. (p1 (+) q1) (+) (p2 (+) q2) = (p1 (+) p2) (+) (q1 (+) q2)
  BY <1>3, Crossed
<1>8. (p3 (+) q3) (+) (p4 (+) q4) = (p3 (+) p4) (+) (q3 (+) q4)
  BY <1>3, Crossed
<1>9. ((p1 (+) p2) (+) (q1 (+) q2)) (+) ((p3 (+) p4) (+) (q3 (+) q4))
        = ((p1 (+) p2) (+) (p3 (+) p4)) (+) ((q1 (+) q2) (+) (q3 (+) q4))
  BY <1>6, Crossed
<1>10. (p1 (+) p2) (+) (p3 (+) p4) \in Byte
  BY <1>6, XorLaws
<1> QED
  BY <1>4, <1>5, <1>7, <1>8, <1>9, <1>10, Zenon DEF u

\* The four bytes of a column of which each is such a sum.
Rows(p, q, r, s, w) ==
  <<Combined(p, q, r, s, w), Combined(s, p, q, r, w),
    Combined(r, s, p, q, w), Combined(q, r, s, p, w)>>

\* A column of such sums is a linear function of the column.
LEMMA RowsLinear ==
  ASSUME NEW p, NEW q, NEW r, NEW s, Linear(p), Linear(q), Linear(r), Linear(s),
         NEW v \in FourBytes, NEW w \in FourBytes
  PROVE  /\ Rows(p, q, r, s, v) \in FourBytes
         /\ Rows(p, q, r, s, XorWords[v][w])
              = XorWords[Rows(p, q, r, s, v)][Rows(p, q, r, s, w)]
<1>1. \A u \in FourBytes : Rows(p, q, r, s, u) \in FourBytes
  <2> TAKE u \in FourBytes
  <2>1. /\ Combined(p, q, r, s, u) \in Byte /\ Combined(s, p, q, r, u) \in Byte
        /\ Combined(r, s, p, q, u) \in Byte /\ Combined(q, r, s, p, u) \in Byte
    BY CombinedLinear, Zenon
  <2> QED
    BY <2>1, FourOf, Zenon DEF Rows, FourBytes
<1> DEFINE x == XorWords[v][w]
           a == Rows(p, q, r, s, v)
           b == Rows(p, q, r, s, w)
<1>2. /\ Combined(p, q, r, s, x) = Combined(p, q, r, s, v) (+) Combined(p, q, r, s, w)
      /\ Combined(s, p, q, r, x) = Combined(s, p, q, r, v) (+) Combined(s, p, q, r, w)
      /\ Combined(r, s, p, q, x) = Combined(r, s, p, q, v) (+) Combined(r, s, p, q, w)
      /\ Combined(q, r, s, p, x) = Combined(q, r, s, p, v) (+) Combined(q, r, s, p, w)
  <2>1. \A f, g, h, i : Linear(f) /\ Linear(g) /\ Linear(h) /\ Linear(i) =>
          Combined(f, g, h, i, x) = Combined(f, g, h, i, v) (+) Combined(f, g, h, i, w)
    BY CombinedLinear
  <2> HIDE DEF x
  <2> QED
    BY <2>1, Zenon
<1>3. /\ a[1] = Combined(p, q, r, s, v) /\ a[2] = Combined(s, p, q, r, v)
      /\ a[3] = Combined(r, s, p, q, v) /\ a[4] = Combined(q, r, s, p, v)
      /\ b[1] = Combined(p, q, r, s, w) /\ b[2] = Combined(s, p, q, r, w)
      /\ b[3] = Combined(r, s, p, q, w) /\ b[4] = Combined(q, r, s, p, w)
  BY DEF Rows
<1>4. Rows(p, q, r, s, x) = <<Combined(p, q, r, s, x), Combined(s, p, q, r, x),
                              Combined(r, s, p, q, x), Combined(q, r, s, p, x)>>
  BY Zenon DEF Rows
<1>5. a \in FourBytes /\ b \in FourBytes
  BY <1>1
<1> HIDE DEF x, a, b
<1>6. XorWords[a][b] = <<a[1] (+) b[1], a[2] (+) b[2], a[3] (+) b[3], a[4] (+) b[4]>>
  BY <1>5, WordSums
<1>7. Rows(p, q, r, s, x) = XorWords[a][b]
  BY <1>2, <1>3, <1>4, <1>6, Zenon
<1> QED
  BY <1>1, <1>7 DEF x, a, b

\* The last byte of a word comes first.
Turn(w) == <<w[4], w[1], w[2], w[3]>>

\* A column whose bytes are turned gives turned sums.
LEMMA RowsTurned ==
  ASSUME NEW p, NEW q, NEW r, NEW s, Linear(p), Linear(q), Linear(r), Linear(s),
         NEW w \in FourBytes
  PROVE  /\ Turn(w) \in FourBytes
         /\ Rows(p, q, r, s, Turn(w)) = Turn(Rows(p, q, r, s, w))
<1> DEFINE t == Turn(w)
           a == Rows(p, q, r, s, w)
<1>1. w[1] \in Byte /\ w[2] \in Byte /\ w[3] \in Byte /\ w[4] \in Byte
  BY BytesOfWord
<1>2. t[1] = w[4] /\ t[2] = w[1] /\ t[3] = w[2] /\ t[4] = w[3]
  BY DEF Turn
<1>3. t \in FourBytes
  BY <1>1, FourOf, Zenon DEF Turn, FourBytes
<1> HIDE DEF t
<1>4. ASSUME NEW f, NEW g, NEW h, NEW i, Linear(f), Linear(g), Linear(h), Linear(i)
      PROVE  Combined(f, g, h, i, t) = Combined(g, h, i, f, w)
  <2> DEFINE k == f[w[4]]
             l == g[w[1]]
             m == h[w[2]]
             n == i[w[3]]
  <2>1. k \in Byte /\ l \in Byte /\ m \in Byte /\ n \in Byte
    BY <1>1, <1>4 DEF Linear
  <2>2. Combined(f, g, h, i, t) = (k (+) l) (+) (m (+) n)
    BY <1>2, Zenon DEF Combined
  <2>3. Combined(g, h, i, f, w) = (l (+) m) (+) (n (+) k)
    BY Zenon DEF Combined
  <2> HIDE DEF k, l, m, n
  <2> QED
    BY <2>1, <2>2, <2>3, AnyOrder
<1>5. Rows(p, q, r, s, t) = <<Combined(q, r, s, p, w), Combined(p, q, r, s, w),
                              Combined(s, p, q, r, w), Combined(r, s, p, q, w)>>
  BY <1>4, Zenon DEF Rows
<1>6. /\ a[1] = Combined(p, q, r, s, w) /\ a[2] = Combined(s, p, q, r, w)
      /\ a[3] = Combined(r, s, p, q, w) /\ a[4] = Combined(q, r, s, p, w)
  BY DEF Rows
<1> HIDE DEF a
<1>7. Rows(p, q, r, s, t) = Turn(a)
  BY <1>5, <1>6, Zenon DEF Turn
<1> QED
  BY <1>3, <1>7 DEF t, a

\* MixColumns as such sums, and its inverse.
Same == [x \in Byte |-> x]
InverseColumn(w) == Rows(MUL[14], MUL[11], MUL[13], MUL[9], w)

\* MixColumns is of that form.
LEMMA MixedRows ==
  /\ Linear(Same) /\ Linear(Plus(XTIME))
  /\ \A w \in FourBytes : MixedColumn(w) = Rows(XTIME, Plus(XTIME), Same, Same, w)
<1>1. Linear(Same)
  <2>1. \A x, y \in Byte : x (+) y \in Byte
    BY XorLaws
  <2> QED
    BY <2>1 DEF Linear, Same
<1>2. \A x \in Byte : Plus(XTIME)[x] = x (+) XTIME[x]
  BY Zenon DEF Plus
<1>3. Linear(Plus(XTIME))
  <2>1. ASSUME NEW x \in Byte PROVE x (+) XTIME[x] \in Byte
    BY XtimeBits, XorLaws
  <2>2. Plus(XTIME) \in [Byte -> Byte]
    BY <2>1 DEF Plus
  <2>3. ASSUME NEW x \in Byte, NEW y \in Byte
        PROVE  Plus(XTIME)[x (+) y] = Plus(XTIME)[x] (+) Plus(XTIME)[y]
    <3>1. x (+) y \in Byte
      BY XorLaws
    <3>2. XTIME[x (+) y] = XTIME[x] (+) XTIME[y] /\ XTIME[x] \in Byte /\ XTIME[y] \in Byte
      BY XtimeLinear DEF Linear
    <3>3. (x (+) y) (+) (XTIME[x] (+) XTIME[y]) = (x (+) XTIME[x]) (+) (y (+) XTIME[y])
      BY <3>2, Crossed
    <3> QED
      BY <1>2, <3>1, <3>2, <3>3, Zenon
  <2> QED
    BY <2>2, <2>3, Zenon DEF Linear
<1>4. ASSUME NEW w \in FourBytes
      PROVE  MixedColumn(w) = Rows(XTIME, Plus(XTIME), Same, Same, w)
  <2> DEFINE P == Plus(XTIME)
  <2>1. w[1] \in Byte /\ w[2] \in Byte /\ w[3] \in Byte /\ w[4] \in Byte
    BY BytesOfWord
  <2>2. /\ Same[w[1]] = w[1] /\ Same[w[2]] = w[2] /\ Same[w[3]] = w[3] /\ Same[w[4]] = w[4]
    BY <2>1 DEF Same
  <2>3. /\ P[w[1]] = w[1] (+) XTIME[w[1]] /\ P[w[2]] = w[2] (+) XTIME[w[2]]
        /\ P[w[3]] = w[3] (+) XTIME[w[3]] /\ P[w[4]] = w[4] (+) XTIME[w[4]]
    BY <1>2, <2>1
  <2>4. /\ P[w[1]] \in Byte /\ P[w[2]] \in Byte /\ P[w[3]] \in Byte /\ P[w[4]] \in Byte
        /\ XTIME[w[1]] \in Byte /\ XTIME[w[2]] \in Byte
        /\ XTIME[w[3]] \in Byte /\ XTIME[w[4]] \in Byte
    BY <1>3, <2>1, XtimeBits DEF Linear
  <2> HIDE DEF P
  <2>5. /\ Combined(XTIME, P, Same, Same, w) = (XTIME[w[1]] (+) P[w[2]]) (+) (w[3] (+) w[4])
        /\ Combined(Same, XTIME, P, Same, w) = (w[1] (+) XTIME[w[2]]) (+) (P[w[3]] (+) w[4])
        /\ Combined(Same, Same, XTIME, P, w) = (w[1] (+) w[2]) (+) (XTIME[w[3]] (+) P[w[4]])
        /\ Combined(P, Same, Same, XTIME, w) = (P[w[1]] (+) w[2]) (+) (w[3] (+) XTIME[w[4]])
    BY <2>2, Zenon DEF Combined
  <2>6. (w[1] (+) XTIME[w[2]]) (+) (P[w[3]] (+) w[4]) = (XTIME[w[2]] (+) P[w[3]]) (+) (w[4] (+) w[1])
    <3> DEFINE k == w[1]
               l == XTIME[w[2]]
               m == P[w[3]]
               n == w[4]
    <3>1. k \in Byte /\ l \in Byte /\ m \in Byte /\ n \in Byte
      BY <2>1, <2>4
    <3> HIDE DEF k, l, m, n
    <3>2. (k (+) l) (+) (m (+) n) = (l (+) m) (+) (n (+) k)
      BY <3>1, AnyOrder
    <3> QED
      BY <3>2 DEF k, l, m, n
  <2>7. (w[1] (+) w[2]) (+) (XTIME[w[3]] (+) P[w[4]]) = (XTIME[w[3]] (+) P[w[4]]) (+) (w[1] (+) w[2])
    <3> DEFINE k == w[1]
               l == w[2]
               m == XTIME[w[3]]
               n == P[w[4]]
    <3>1. k \in Byte /\ l \in Byte /\ m \in Byte /\ n \in Byte
      BY <2>1, <2>4
    <3> HIDE DEF k, l, m, n
    <3>2. (k (+) l) (+) (m (+) n) = (m (+) n) (+) (k (+) l)
      BY <3>1, AnyOrder
    <3> QED
      BY <3>2 DEF k, l, m, n
  <2>8. (XTIME[w[4]] (+) P[w[1]]) (+) (w[2] (+) w[3]) = (P[w[1]] (+) w[2]) (+) (w[3] (+) XTIME[w[4]])
    <3> DEFINE k == XTIME[w[4]]
               l == P[w[1]]
               m == w[2]
               n == w[3]
    <3>1. k \in Byte /\ l \in Byte /\ m \in Byte /\ n \in Byte
      BY <2>1, <2>4
    <3> HIDE DEF k, l, m, n
    <3>2. (k (+) l) (+) (m (+) n) = (l (+) m) (+) (n (+) k)
      BY <3>1, AnyOrder
    <3> QED
      BY <3>2 DEF k, l, m, n
  <2>9. MixedColumn(w) = << (XTIME[w[1]] (+) P[w[2]]) (+) (w[3] (+) w[4]),
                            (XTIME[w[2]] (+) P[w[3]]) (+) (w[4] (+) w[1]),
                            (XTIME[w[3]] (+) P[w[4]]) (+) (w[1] (+) w[2]),
                            (XTIME[w[4]] (+) P[w[1]]) (+) (w[2] (+) w[3]) >>
    BY <2>3, Zenon DEF MixedColumn
  <2>10. MixedColumn(w) = Rows(XTIME, P, Same, Same, w)
    BY <2>5, <2>6, <2>7, <2>8, <2>9, Zenon DEF Rows
  <2> QED
    BY <2>10, Zenon DEF P
<1> QED
  BY <1>1, <1>3, <1>4

\* The bits of sums of three and four bytes.
LEMMA MoreBits ==
  ASSUME NEW i \in 0 .. 7, NEW x \in Byte, NEW y \in Byte, NEW z \in Byte, NEW u \in Byte
  PROVE  /\ x (+) (y (+) z) \in Byte /\ (x (+) y) (+) z \in Byte
         /\ (x (+) y) (+) (z (+) u) \in Byte
         /\ On(x (+) (y (+) z), i) <=> On(x, i) ## On(y, i) ## On(z, i)
         /\ On((x (+) y) (+) z, i) <=> On(x, i) ## On(y, i) ## On(z, i)
         /\ On((x (+) y) (+) (z (+) u), i) <=> On(x, i) ## On(y, i) ## On(z, i) ## On(u, i)
<1>1. x (+) y \in Byte /\ y (+) z \in Byte /\ z (+) u \in Byte
  BY XorLaws
<1> DEFINE xy == x (+) y
           yz == y (+) z
           zu == z (+) u
<1>2. /\ On(xy, i) <=> On(x, i) ## On(y, i)
      /\ On(yz, i) <=> On(y, i) ## On(z, i)
      /\ On(zu, i) <=> On(z, i) ## On(u, i)
  BY AnyBit
<1> HIDE DEF xy, yz, zu
<1>3. xy \in Byte /\ yz \in Byte /\ zu \in Byte
  BY <1>1 DEF xy, yz, zu
<1>4. /\ x (+) yz \in Byte /\ xy (+) z \in Byte /\ xy (+) zu \in Byte
      /\ On(x (+) yz, i) <=> On(x, i) ## On(yz, i)
      /\ On(xy (+) z, i) <=> On(xy, i) ## On(z, i)
      /\ On(xy (+) zu, i) <=> On(xy, i) ## On(zu, i)
  BY <1>3, AnyBit
<1>5. /\ On(x (+) yz, i) <=> On(x, i) ## On(y, i) ## On(z, i)
      /\ On(xy (+) z, i) <=> On(x, i) ## On(y, i) ## On(z, i)
      /\ On(xy (+) zu, i) <=> On(x, i) ## On(y, i) ## On(z, i) ## On(u, i)
  BY <1>2, <1>4 DEF ##
<1> QED
  BY <1>4, <1>5 DEF xy, yz, zu

\* The bits of the products with the factors of the inverse.
LEMMA InverseFactorBits ==
  ASSUME NEW i \in 0 .. 7, NEW x \in Byte, NEW b, NEW c, NEW d,
         b = XTIME[x], c = XTIME[b], d = XTIME[c]
  PROVE  /\ b \in Byte /\ c \in Byte /\ d \in Byte
         /\ MUL[14][x] \in Byte /\ MUL[11][x] \in Byte /\ MUL[13][x] \in Byte /\ MUL[9][x] \in Byte
         /\ On(MUL[14][x], i) <=> On(b, i) ## On(c, i) ## On(d, i)
         /\ On(MUL[11][x], i) <=> On(x, i) ## On(b, i) ## On(d, i)
         /\ On(MUL[13][x], i) <=> On(x, i) ## On(c, i) ## On(d, i)
         /\ On(MUL[9][x], i) <=> On(x, i) ## On(d, i)
<1> DEFINE p == MUL[14][x]
           q == MUL[11][x]
           r == MUL[13][x]
           s == MUL[9][x]
<1>1. /\ b \in Byte /\ c \in Byte /\ d \in Byte
      /\ p = b (+) (c (+) d) /\ q = (x (+) b) (+) d /\ r = x (+) (c (+) d) /\ s = x (+) d
  BY InverseFactors
<1> HIDE DEF p, q, r, s
<1>2. p \in Byte /\ (On(p, i) <=> On(b, i) ## On(c, i) ## On(d, i))
  BY <1>1, MoreBits
<1>3. q \in Byte /\ (On(q, i) <=> On(x, i) ## On(b, i) ## On(d, i))
  BY <1>1, MoreBits
<1>4. r \in Byte /\ (On(r, i) <=> On(x, i) ## On(c, i) ## On(d, i))
  BY <1>1, MoreBits
<1>5. s \in Byte /\ (On(s, i) <=> On(x, i) ## On(d, i))
  BY <1>1, AnyBit
<1> QED
  BY <1>1, <1>2, <1>3, <1>4, <1>5 DEF p, q, r, s

\* The products of the first columns of the two matrices.
LEMMA MatrixProducts ==
  ASSUME NEW a \in Byte, NEW a2, NEW a3, a2 = XTIME[a], a3 = a (+) a2
  PROVE  InverseColumn(<<a2, a, a, a3>>) = <<a, 0, 0, 0>>
<1> DEFINE a4 == XTIME[a2]
           a8 == XTIME[a4]
           a16 == XTIME[a8]
           a6 == XTIME[a3]
           a12 == XTIME[a6]
           a24 == XTIME[a12]
           w == <<a2, a, a, a3>>
<1>1. a2 \in Byte /\ a3 \in Byte
  BY XtimeBits, XorLaws
<1>2. a4 \in Byte /\ a8 \in Byte /\ a16 \in Byte /\ a6 \in Byte /\ a12 \in Byte /\ a24 \in Byte
  <2>1. \A x \in Byte : XTIME[x] \in Byte
    BY XtimeBits
  <2> QED
    BY <1>1, <2>1
<1>3. a6 = a2 (+) a4
  BY <1>1, XtimeLinear DEF Linear
<1>4. a12 = a4 (+) a8
  <2> HIDE DEF a4, a6
  <2> QED
    BY <1>1, <1>2, <1>3, XtimeLinear DEF Linear, a4
<1>5. a24 = a8 (+) a16
  <2> HIDE DEF a8, a12, a4, a6
  <2> QED
    BY <1>2, <1>4, XtimeLinear DEF Linear, a8
<1>6. w[1] = a2 /\ w[2] = a /\ w[3] = a /\ w[4] = a3
  OBVIOUS
<1> HIDE DEF w
<1> DEFINE p1 == MUL[14][a]
           q1 == MUL[11][a]
           s1 == MUL[13][a]
           t1 == MUL[9][a]
           p2 == MUL[14][a2]
           q2 == MUL[11][a2]
           s2 == MUL[13][a2]
           t2 == MUL[9][a2]
           p3 == MUL[14][a3]
           q3 == MUL[11][a3]
           s3 == MUL[13][a3]
           t3 == MUL[9][a3]
           r1 == (p2 (+) q1) (+) (s1 (+) t3)
           r2 == (t2 (+) p1) (+) (q1 (+) s3)
           r3 == (s2 (+) t1) (+) (p1 (+) q3)
           r4 == (q2 (+) s1) (+) (t1 (+) p3)
<1>7. InverseColumn(w) = <<r1, r2, r3, r4>>
  BY <1>6, Zenon DEF InverseColumn, Rows, Combined
<1>11. /\ r1 = (p2 (+) q1) (+) (s1 (+) t3) /\ r2 = (t2 (+) p1) (+) (q1 (+) s3)
       /\ r3 = (s2 (+) t1) (+) (p1 (+) q3) /\ r4 = (q2 (+) s1) (+) (t1 (+) p3)
  BY Zenon
<1> HIDE DEF p1, q1, s1, t1, p2, q2, s2, t2, p3, q3, s3, t3, r1, r2, r3, r4
<1>8. ASSUME NEW i \in 0 .. 7
      PROVE  /\ r1 \in Byte /\ r2 \in Byte /\ r3 \in Byte /\ r4 \in Byte
             /\ On(r1, i) <=> On(a, i)
             /\ ~ On(r2, i) /\ ~ On(r3, i) /\ ~ On(r4, i)
  <2>1. /\ p1 \in Byte /\ q1 \in Byte /\ s1 \in Byte /\ t1 \in Byte
        /\ On(p1, i) <=> On(a2, i) ## On(a4, i) ## On(a8, i)
        /\ On(q1, i) <=> On(a, i) ## On(a2, i) ## On(a8, i)
        /\ On(s1, i) <=> On(a, i) ## On(a4, i) ## On(a8, i)
        /\ On(t1, i) <=> On(a, i) ## On(a8, i)
    BY InverseFactorBits DEF p1, q1, s1, t1
  <2>2. /\ p2 \in Byte /\ q2 \in Byte /\ s2 \in Byte /\ t2 \in Byte
        /\ On(p2, i) <=> On(a4, i) ## On(a8, i) ## On(a16, i)
        /\ On(q2, i) <=> On(a2, i) ## On(a4, i) ## On(a16, i)
        /\ On(s2, i) <=> On(a2, i) ## On(a8, i) ## On(a16, i)
        /\ On(t2, i) <=> On(a2, i) ## On(a16, i)
    BY <1>1, InverseFactorBits DEF p2, q2, s2, t2
  <2>3. /\ p3 \in Byte /\ q3 \in Byte /\ s3 \in Byte /\ t3 \in Byte
        /\ On(p3, i) <=> On(a6, i) ## On(a12, i) ## On(a24, i)
        /\ On(q3, i) <=> On(a3, i) ## On(a6, i) ## On(a24, i)
        /\ On(s3, i) <=> On(a3, i) ## On(a12, i) ## On(a24, i)
        /\ On(t3, i) <=> On(a3, i) ## On(a24, i)
    BY <1>1, InverseFactorBits DEF p3, q3, s3, t3
  <2> HIDE DEF a4, a6, a8, a12, a16, a24
  <2>4. /\ On(a3, i) <=> On(a, i) ## On(a2, i)
        /\ On(a6, i) <=> On(a2, i) ## On(a4, i)
        /\ On(a12, i) <=> On(a4, i) ## On(a8, i)
        /\ On(a24, i) <=> On(a8, i) ## On(a16, i)
    BY <1>1, <1>2, <1>3, <1>4, <1>5, AnyBit
  <2>13. ASSUME NEW x \in Byte, NEW y \in Byte, NEW z \in Byte, NEW u \in Byte,
                NEW t, t = (x (+) y) (+) (z (+) u)
         PROVE  t \in Byte /\ (On(t, i) <=> On(x, i) ## On(y, i) ## On(z, i) ## On(u, i))
    BY <2>13, MoreBits
  <2>14. /\ p1 \in Byte /\ q1 \in Byte /\ s1 \in Byte /\ t1 \in Byte
         /\ p2 \in Byte /\ q2 \in Byte /\ s2 \in Byte /\ t2 \in Byte
         /\ p3 \in Byte /\ q3 \in Byte /\ s3 \in Byte /\ t3 \in Byte
    BY <2>1, <2>2, <2>3
  <2>5. r1 \in Byte /\ (On(r1, i) <=> On(p2, i) ## On(q1, i) ## On(s1, i) ## On(t3, i))
    BY <1>11, <2>13, <2>14
  <2>6. r2 \in Byte /\ (On(r2, i) <=> On(t2, i) ## On(p1, i) ## On(q1, i) ## On(s3, i))
    BY <1>11, <2>13, <2>14
  <2>7. r3 \in Byte /\ (On(r3, i) <=> On(s2, i) ## On(t1, i) ## On(p1, i) ## On(q3, i))
    BY <1>11, <2>13, <2>14
  <2>8. r4 \in Byte /\ (On(r4, i) <=> On(q2, i) ## On(s1, i) ## On(t1, i) ## On(p3, i))
    BY <1>11, <2>13, <2>14
  <2>9. On(r1, i) <=> On(a, i)
    BY <2>1, <2>2, <2>3, <2>4, <2>5 DEF ##
  <2>10. ~ On(r2, i)
    BY <2>1, <2>2, <2>3, <2>4, <2>6 DEF ##
  <2>11. ~ On(r3, i)
    BY <2>1, <2>2, <2>3, <2>4, <2>7 DEF ##
  <2>12. ~ On(r4, i)
    BY <2>1, <2>2, <2>3, <2>4, <2>8 DEF ##
  <2> QED
    BY <2>5, <2>6, <2>7, <2>8, <2>9, <2>10, <2>11, <2>12
<1>9. \A i \in 0 .. 7 : ~ On(0, i)
  BY Literals, SMT
<1>10. r1 = a /\ r2 = 0 /\ r3 = 0 /\ r4 = 0
  <2>1. 0 \in 0 .. 7 /\ 0 \in Byte
    BY Constants
  <2>2. r1 \in Byte /\ r2 \in Byte /\ r3 \in Byte /\ r4 \in Byte
    BY <1>8, <2>1, Zenon
  <2>3. \A i \in 0 .. 7 : /\ On(r1, i) <=> On(a, i)
                          /\ On(r2, i) <=> On(0, i)
                          /\ On(r3, i) <=> On(0, i)
                          /\ On(r4, i) <=> On(0, i)
    BY <1>8, <1>9, Zenon
  <2> QED
    BY <2>1, <2>2, <2>3, AnyBit, Zenon
<1> QED
  BY <1>7, <1>10 DEF w

\* The inverse of MixColumns is linear, and turns with its column.
LEMMA InverseLinear ==
  ASSUME NEW v \in FourBytes, NEW w \in FourBytes
  PROVE  /\ InverseColumn(v) \in FourBytes
         /\ InverseColumn(XorWords[v][w]) = XorWords[InverseColumn(v)][InverseColumn(w)]
         /\ InverseColumn(Turn(v)) = Turn(InverseColumn(v))
<1> DEFINE p == MUL[14]
           q == MUL[11]
           r == MUL[13]
           s == MUL[9]
<1>1. Linear(p) /\ Linear(q) /\ Linear(r) /\ Linear(s)
  BY InverseFactorsLinear, Zenon
<1>2. \A w0 : InverseColumn(w0) = Rows(p, q, r, s, w0)
  BY Zenon DEF InverseColumn
<1> HIDE DEF p, q, r, s
<1>3. /\ Rows(p, q, r, s, v) \in FourBytes
      /\ Rows(p, q, r, s, XorWords[v][w]) = XorWords[Rows(p, q, r, s, v)][Rows(p, q, r, s, w)]
  BY <1>1, RowsLinear
<1>4. Rows(p, q, r, s, Turn(v)) = Turn(Rows(p, q, r, s, v))
  BY <1>1, RowsTurned
<1> QED
  BY <1>2, <1>3, <1>4, Zenon

\* It undoes MixColumns.
LEMMA InverseOfColumn ==
  ASSUME NEW w \in FourBytes
  PROVE  InverseColumn(MixedColumn(w)) = w
<1> DEFINE K == {v \in FourBytes : InverseColumn(MixedColumn(v)) = v}
<1>1. ASSUME NEW u \in FourBytes, NEW v \in FourBytes
      PROVE  /\ MixedColumn(u) \in FourBytes
             /\ MixedColumn(XorWords[u][v]) = XorWords[MixedColumn(u)][MixedColumn(v)]
             /\ MixedColumn(Turn(u)) = Turn(MixedColumn(u))
  <2> DEFINE p == XTIME
             q == Plus(XTIME)
             r == Same
  <2>1. XorWords[u][v] \in FourBytes /\ Turn(u) \in FourBytes
    BY WordSums, RowsTurned, XtimeLinear
  <2>2. Linear(p) /\ Linear(q) /\ Linear(r)
    BY XtimeLinear, MixedRows
  <2>3. \A x \in FourBytes : MixedColumn(x) = Rows(p, q, r, r, x)
    BY MixedRows, Zenon
  <2> HIDE DEF p, q, r
  <2>4. /\ Rows(p, q, r, r, u) \in FourBytes
        /\ Rows(p, q, r, r, XorWords[u][v])
             = XorWords[Rows(p, q, r, r, u)][Rows(p, q, r, r, v)]
    BY <2>2, RowsLinear
  <2>5. Rows(p, q, r, r, Turn(u)) = Turn(Rows(p, q, r, r, u))
    BY <2>2, RowsTurned
  <2> QED
    BY <2>1, <2>3, <2>4, <2>5, Zenon
<1>2. ASSUME NEW u \in K, NEW v \in K
      PROVE  XorWords[u][v] \in K
  <2> DEFINE x == MixedColumn(u)
             y == MixedColumn(v)
  <2>1. XorWords[u][v] \in FourBytes
    BY WordSums
  <2>2. x \in FourBytes /\ y \in FourBytes /\ MixedColumn(XorWords[u][v]) = XorWords[x][y]
    BY <1>1, Zenon
  <2>3. InverseColumn(x) = u /\ InverseColumn(y) = v
    BY <1>2, Zenon
  <2> HIDE DEF x, y
  <2>4. InverseColumn(XorWords[x][y]) = XorWords[u][v]
    BY <2>2, <2>3, InverseLinear
  <2> QED
    BY <2>1, <2>2, <2>4
<1>3. ASSUME NEW u \in K
      PROVE  Turn(u) \in K
  <2> DEFINE x == MixedColumn(u)
  <2>1. Turn(u) \in FourBytes
    BY RowsTurned, XtimeLinear
  <2>2. x \in FourBytes /\ MixedColumn(Turn(u)) = Turn(x)
    BY <1>1, Zenon
  <2>3. InverseColumn(x) = u
    BY <1>3, Zenon
  <2> HIDE DEF x
  <2>4. InverseColumn(Turn(x)) = Turn(u)
    BY <2>2, <2>3, InverseLinear
  <2> QED
    BY <2>1, <2>2, <2>4
<1>4. ASSUME NEW a \in Byte
      PROVE  <<a, 0, 0, 0>> \in K
  <2> DEFINE u == <<a, 0, 0, 0>>
             a2 == XTIME[a]
             a3 == a (+) a2
  <2>1. u \in FourBytes /\ u[1] = a /\ u[2] = 0 /\ u[3] = 0 /\ u[4] = 0
    <3>1. 0 \in Byte
      BY Constants
    <3> QED
      BY <3>1 DEF FourBytes
  <2>2. a2 \in Byte /\ a3 \in Byte /\ XTIME[0] = 0
    <3>1. XTIME[0] = 0
      BY Constants, Literals, XtimeBits, SameBits DEF ##
    <3>2. a2 \in Byte
      BY XtimeBits
    <3> HIDE DEF a2
    <3> QED
      BY <3>1, <3>2, XorLaws
  <2>3. InverseColumn(<<a2, a, a, a3>>) = u
    BY MatrixProducts, Zenon
  <2> HIDE DEF u, a2, a3
  <2>4. MixedColumn(u) = <<(a2 (+) (0 (+) 0)) (+) (0 (+) 0), (0 (+) (0 (+) 0)) (+) (0 (+) a),
                           (0 (+) (0 (+) 0)) (+) (a (+) 0), (0 (+) a3) (+) (0 (+) 0)>>
    BY <2>1, <2>2, Zenon DEF MixedColumn, a2, a3
  <2>5. /\ 0 (+) 0 = 0 /\ a2 (+) 0 = a2 /\ 0 (+) a = a /\ a (+) 0 = a /\ 0 (+) a3 = a3
        /\ a3 (+) 0 = a3
    BY <2>2, Constants, XorLaws
  <2>6. MixedColumn(u) = <<a2, a, a, a3>>
    BY <2>4, <2>5, Zenon
  <2> QED
    BY <2>1, <2>3, <2>6, Zenon DEF u
<1> HIDE DEF K
<1> DEFINE a == w[1]
           b == w[2]
           c == w[3]
           d == w[4]
           p == <<a, 0, 0, 0>>
           q == <<0, b, 0, 0>>
           r == <<0, 0, c, 0>>
           s == <<0, 0, 0, d>>
<1>5. a \in Byte /\ b \in Byte /\ c \in Byte /\ d \in Byte /\ w = <<a, b, c, d>>
  BY BytesOfWord
<1> HIDE DEF a, b, c, d
<1>6. p \in K
  BY <1>4, <1>5
<1>7. q \in K
  <2>1. Turn(<<b, 0, 0, 0>>) = q
    BY DEF Turn
  <2> HIDE DEF q
  <2> QED
    BY <1>3, <1>4, <1>5, <2>1, Zenon
<1>8. r \in K
  <2>1. Turn(<<c, 0, 0, 0>>) = <<0, c, 0, 0>> /\ Turn(<<0, c, 0, 0>>) = r
    BY DEF Turn
  <2>2. <<0, c, 0, 0>> \in K
    BY <1>3, <1>4, <1>5, <2>1, Zenon
  <2> HIDE DEF r
  <2> QED
    BY <1>3, <2>1, <2>2, Zenon
<1>9. s \in K
  <2>1. /\ Turn(<<d, 0, 0, 0>>) = <<0, d, 0, 0>> /\ Turn(<<0, d, 0, 0>>) = <<0, 0, d, 0>>
        /\ Turn(<<0, 0, d, 0>>) = s
    BY DEF Turn
  <2>2. <<0, d, 0, 0>> \in K
    BY <1>3, <1>4, <1>5, <2>1, Zenon
  <2>3. <<0, 0, d, 0>> \in K
    BY <1>3, <2>1, <2>2, Zenon
  <2> HIDE DEF s
  <2> QED
    BY <1>3, <2>1, <2>3, Zenon
<1>10. /\ p[1] = a /\ p[2] = 0 /\ p[3] = 0 /\ p[4] = 0
       /\ q[1] = 0 /\ q[2] = b /\ q[3] = 0 /\ q[4] = 0
       /\ r[1] = 0 /\ r[2] = 0 /\ r[3] = c /\ r[4] = 0
       /\ s[1] = 0 /\ s[2] = 0 /\ s[3] = 0 /\ s[4] = d
  OBVIOUS
<1> HIDE DEF p, q, r, s
<1>11. p \in FourBytes /\ q \in FourBytes /\ r \in FourBytes /\ s \in FourBytes
  BY <1>6, <1>7, <1>8, <1>9 DEF K
<1>12. /\ a (+) 0 = a /\ 0 (+) b = b /\ c (+) 0 = c /\ 0 (+) d = d /\ 0 (+) 0 = 0
       /\ b (+) 0 = b /\ 0 (+) c = c
  BY <1>5, Constants, XorLaws
<1> DEFINE pq == XorWords[p][q]
           rs == XorWords[r][s]
<1>13. /\ pq = <<a, b, 0, 0>> /\ rs = <<0, 0, c, d>>
  <2>1. pq = <<p[1] (+) q[1], p[2] (+) q[2], p[3] (+) q[3], p[4] (+) q[4]>>
    BY <1>11, WordSums
  <2>2. rs = <<r[1] (+) s[1], r[2] (+) s[2], r[3] (+) s[3], r[4] (+) s[4]>>
    BY <1>11, WordSums
  <2> HIDE DEF pq, rs
  <2> QED
    BY <1>10, <1>12, <2>1, <2>2, Zenon
<1>14. pq \in K /\ rs \in K
  BY <1>2, <1>6, <1>7, <1>8, <1>9
<1> HIDE DEF pq, rs
<1>15. XorWords[pq][rs] = <<a, b, c, d>>
  <2>1. pq \in FourBytes /\ rs \in FourBytes
    BY <1>14 DEF K
  <2>2. XorWords[pq][rs] = <<pq[1] (+) rs[1], pq[2] (+) rs[2], pq[3] (+) rs[3], pq[4] (+) rs[4]>>
    BY <2>1, WordSums
  <2>3. /\ pq[1] = a /\ pq[2] = b /\ pq[3] = 0 /\ pq[4] = 0
        /\ rs[1] = 0 /\ rs[2] = 0 /\ rs[3] = c /\ rs[4] = d
    BY <1>13
  <2> QED
    BY <1>12, <2>2, <2>3, Zenon
<1>16. w \in K
  BY <1>2, <1>5, <1>14, <1>15, Zenon
<1> QED
  BY <1>16 DEF K

\* A word added twice is gone.
LEMMA WordsCancel ==
  ASSUME NEW v \in FourBytes, NEW w \in FourBytes
  PROVE  XorWords[v][XorWords[v][w]] = w
<1> DEFINE u == XorWords[v][w]
<1>1. /\ v[1] \in Byte /\ v[2] \in Byte /\ v[3] \in Byte /\ v[4] \in Byte
      /\ w[1] \in Byte /\ w[2] \in Byte /\ w[3] \in Byte /\ w[4] \in Byte
      /\ w = <<w[1], w[2], w[3], w[4]>>
  BY BytesOfWord
<1>2. u \in FourBytes /\ u = <<v[1] (+) w[1], v[2] (+) w[2], v[3] (+) w[3], v[4] (+) w[4]>>
  BY WordSums
<1>3. ASSUME NEW x \in Byte, NEW y \in Byte PROVE x (+) (x (+) y) = y
  <2>1. (x (+) x) (+) y = x (+) (x (+) y) /\ x (+) x = 0
    BY XorLaws
  <2>2. 0 (+) y = y (+) 0 /\ y (+) 0 = y
    BY Constants, XorLaws
  <2> QED
    BY <2>1, <2>2, Zenon
<1> HIDE DEF u
<1>4. u[1] = v[1] (+) w[1] /\ u[2] = v[2] (+) w[2] /\ u[3] = v[3] (+) w[3] /\ u[4] = v[4] (+) w[4]
  BY <1>2
<1>5. XorWords[v][u] = <<v[1] (+) u[1], v[2] (+) u[2], v[3] (+) u[3], v[4] (+) u[4]>>
  BY <1>2, WordSums
<1>6. /\ v[1] (+) u[1] = w[1] /\ v[2] (+) u[2] = w[2] /\ v[3] (+) u[3] = w[3] /\ v[4] (+) u[4] = w[4]
  BY <1>1, <1>3, <1>4
<1> QED
  BY <1>1, <1>5, <1>6, Zenon DEF u

-----------------------------------------------------------------------------
(* The rounds of the decryption.                                           *)

\* A column by way of the tables of the decryption.
LEMMA InverseColumnAgrees ==
  ASSUME NEW s \in FourBytes
  PROVE  XorWords[XorWords[ROTR8(0, RT0[s[1]])][ROTR8(1, RT0[s[2]])]]
                 [XorWords[ROTR8(2, RT0[s[3]])][ROTR8(3, RT0[s[4]])]] = InverseColumn(s)
<1> DEFINE M == MUL[14]
           N == MUL[9]
           P == MUL[13]
           Q == MUL[11]
           a == s[1]
           b == s[2]
           c == s[3]
           d == s[4]
<1>1. a \in Byte /\ b \in Byte /\ c \in Byte /\ d \in Byte
  BY BytesOfWord
<1>2. \A x \in Byte : RT0[x] = <<M[x], N[x], P[x], Q[x]>>
  BY Zenon DEF RT0
<1>3. \A x \in Byte : M[x] \in Byte /\ N[x] \in Byte /\ P[x] \in Byte /\ Q[x] \in Byte
  BY InverseFactorsLinear DEF Linear
<1>4. InverseColumn(s) = << (M[a] (+) Q[b]) (+) (P[c] (+) N[d]), (N[a] (+) M[b]) (+) (Q[c] (+) P[d]),
                            (P[a] (+) N[b]) (+) (M[c] (+) Q[d]), (Q[a] (+) P[b]) (+) (N[c] (+) M[d]) >>
  BY Zenon DEF InverseColumn, Rows, Combined
<1> DEFINE f == ROTR8(0, RT0[a])
           g == ROTR8(1, RT0[b])
           h == ROTR8(2, RT0[c])
           i == ROTR8(3, RT0[d])
<1>5. XorWords[XorWords[ROTR8(0, RT0[s[1]])][ROTR8(1, RT0[s[2]])]]
              [XorWords[ROTR8(2, RT0[s[3]])][ROTR8(3, RT0[s[4]])]]
        = XorWords[XorWords[f][g]][XorWords[h][i]]
  BY Zenon
<1> HIDE DEF a, b, c, d, M, N, P, Q
<1>14. ASSUME NEW x \in Byte
       PROVE  /\ ROTR8(0, RT0[x]) = <<M[x], N[x], P[x], Q[x]>>
              /\ ROTR8(1, RT0[x]) = <<Q[x], M[x], N[x], P[x]>>
              /\ ROTR8(2, RT0[x]) = <<P[x], Q[x], M[x], N[x]>>
              /\ ROTR8(3, RT0[x]) = <<N[x], P[x], Q[x], M[x]>>
  <2> DEFINE m == M[x]
             n == N[x]
             p == P[x]
             q == Q[x]
  <2>1. RT0[x] = <<m, n, p, q>> /\ m \in Byte /\ n \in Byte /\ p \in Byte /\ q \in Byte
    BY <1>2, <1>3, Zenon
  <2> HIDE DEF m, n, p, q
  <2>2. /\ ROTR8(0, RT0[x]) = <<m, n, p, q>> /\ ROTR8(1, RT0[x]) = <<q, m, n, p>>
        /\ ROTR8(2, RT0[x]) = <<p, q, m, n>> /\ ROTR8(3, RT0[x]) = <<n, p, q, m>>
    BY <2>1, Turned
  <2> QED
    BY <2>2, Zenon DEF m, n, p, q
<1>6. f = <<M[a], N[a], P[a], Q[a]>>
  BY <1>1, <1>14, Zenon
<1>7. g = <<Q[b], M[b], N[b], P[b]>>
  BY <1>1, <1>14, Zenon
<1>8. h = <<P[c], Q[c], M[c], N[c]>>
  BY <1>1, <1>14, Zenon
<1>9. i = <<N[d], P[d], Q[d], M[d]>>
  BY <1>1, <1>14, Zenon
<1> HIDE DEF f, g, h, i
<1>10. f \in FourBytes /\ g \in FourBytes /\ h \in FourBytes /\ i \in FourBytes
  BY <1>1, <1>3, <1>6, <1>7, <1>8, <1>9, FourOf DEF FourBytes
<1> DEFINE fg == XorWords[f][g]
           hi == XorWords[h][i]
<1>11. /\ fg \in FourBytes
       /\ fg = <<M[a] (+) Q[b], N[a] (+) M[b], P[a] (+) N[b], Q[a] (+) P[b]>>
  <2>1. /\ f[1] = M[a] /\ f[2] = N[a] /\ f[3] = P[a] /\ f[4] = Q[a]
        /\ g[1] = Q[b] /\ g[2] = M[b] /\ g[3] = N[b] /\ g[4] = P[b]
    BY <1>6, <1>7
  <2> QED
    BY <1>10, <2>1, WordSums
<1>12. /\ hi \in FourBytes
       /\ hi = <<P[c] (+) N[d], Q[c] (+) P[d], M[c] (+) Q[d], N[c] (+) M[d]>>
  <2>1. /\ h[1] = P[c] /\ h[2] = Q[c] /\ h[3] = M[c] /\ h[4] = N[c]
        /\ i[1] = N[d] /\ i[2] = P[d] /\ i[3] = Q[d] /\ i[4] = M[d]
    BY <1>8, <1>9
  <2> QED
    BY <1>10, <2>1, WordSums
<1> HIDE DEF fg, hi
<1>13. XorWords[fg][hi] = InverseColumn(s)
  <2>1. /\ fg[1] = M[a] (+) Q[b] /\ fg[2] = N[a] (+) M[b]
        /\ fg[3] = P[a] (+) N[b] /\ fg[4] = Q[a] (+) P[b]
        /\ hi[1] = P[c] (+) N[d] /\ hi[2] = Q[c] (+) P[d]
        /\ hi[3] = M[c] (+) Q[d] /\ hi[4] = N[c] (+) M[d]
    BY <1>11, <1>12
  <2>2. XorWords[fg][hi] = <<fg[1] (+) hi[1], fg[2] (+) hi[2], fg[3] (+) hi[3], fg[4] (+) hi[4]>>
    BY <1>11, <1>12, WordSums
  <2> QED
    BY <1>4, <2>1, <2>2, Zenon
<1> QED
  BY <1>5, <1>13, Zenon DEF fg, hi

\* An entry of the tables for a byte that the S-box has taken.
LEMMA InverseEntries ==
  ASSUME NEW n \in 0 .. 3, NEW x \in Byte
  PROVE  RT[n][FSb[x]] = ROTR8(n, RT0[x]) /\ KT[n][x] = ROTR8(n, RT0[x])
<1>1. FSb[x] \in Byte /\ RSb[FSb[x]] = x
  BY SubstitutionAgrees, InverseSubstitution, Zenon
<1>2. RT[n][FSb[x]] = ROTR8(n, RT0[RSb[FSb[x]]])
  BY <1>1, Zenon DEF RT
<1>3. KT[n][x] = RT[n][FSb[x]]
  BY Zenon DEF KT
<1> QED
  BY <1>1, <1>2, <1>3, Zenon

\* The tables of the key schedule undo MixColumns on a word of a round key.
LEMMA MixedAgrees ==
  ASSUME NEW w \in FourBytes, tables.KT = KT
  PROVE  Mixed(w) = InverseColumn(w)
<1>1. w[1] \in Byte /\ w[2] \in Byte /\ w[3] \in Byte /\ w[4] \in Byte
  BY BytesOfWord
<1>2. 1 - 1 = 0 /\ 2 - 1 = 1 /\ 3 - 1 = 2 /\ 4 - 1 = 3
  OBVIOUS
<1>3. 0 \in 0 .. 3 /\ 1 \in 0 .. 3 /\ 2 \in 0 .. 3 /\ 3 \in 0 .. 3
  OBVIOUS
<1>4. Mixed(w) = XorWords[XorWords[KT[0][w[1]]][KT[1][w[2]]]][XorWords[KT[2][w[3]]][KT[3][w[4]]]]
  BY <1>2, Zenon DEF Mixed
<1>5. /\ KT[0][w[1]] = ROTR8(0, RT0[w[1]]) /\ KT[1][w[2]] = ROTR8(1, RT0[w[2]])
      /\ KT[2][w[3]] = ROTR8(2, RT0[w[3]]) /\ KT[3][w[4]] = ROTR8(3, RT0[w[4]])
  BY <1>1, <1>3, InverseEntries, Zenon
<1> QED
  BY <1>4, <1>5, InverseColumnAgrees, Zenon

\* The places that ShiftRows takes a byte from.
LEMMA PlacesBefore ==
  /\ Before(1, 0) = 1 /\ Before(1, 1) = 4 /\ Before(1, 2) = 3 /\ Before(1, 3) = 2
  /\ Before(2, 0) = 2 /\ Before(2, 1) = 1 /\ Before(2, 2) = 4 /\ Before(2, 3) = 3
  /\ Before(3, 0) = 3 /\ Before(3, 1) = 2 /\ Before(3, 2) = 1 /\ Before(3, 3) = 4
  /\ Before(4, 0) = 4 /\ Before(4, 1) = 3 /\ Before(4, 2) = 2 /\ Before(4, 3) = 1
BY DEF Before

\* The bytes of a block after SubBytes and ShiftRows.
LEMMA ShiftedBytes ==
  ASSUME NEW X \in FourWords, NEW Y, Y = ShiftedBlock(X)
  PROVE  /\ Y[1][1] = FSb[X[1][1]] /\ Y[4][2] = FSb[X[1][2]] /\ Y[3][3] = FSb[X[1][3]]
         /\ Y[2][4] = FSb[X[1][4]]
         /\ Y[2][1] = FSb[X[2][1]] /\ Y[1][2] = FSb[X[2][2]] /\ Y[4][3] = FSb[X[2][3]]
         /\ Y[3][4] = FSb[X[2][4]]
         /\ Y[3][1] = FSb[X[3][1]] /\ Y[2][2] = FSb[X[3][2]] /\ Y[1][3] = FSb[X[3][3]]
         /\ Y[4][4] = FSb[X[3][4]]
         /\ Y[4][1] = FSb[X[4][1]] /\ Y[3][2] = FSb[X[4][2]] /\ Y[2][3] = FSb[X[4][3]]
         /\ Y[1][4] = FSb[X[4][4]]
<1>1. /\ Y[1] = ShiftedColumn(X, 1, 2, 3, 4) /\ Y[2] = ShiftedColumn(X, 2, 3, 4, 1)
      /\ Y[3] = ShiftedColumn(X, 3, 4, 1, 2) /\ Y[4] = ShiftedColumn(X, 4, 1, 2, 3)
  BY DEF ShiftedBlock
<1>2. \A i, j, k, l : /\ ShiftedColumn(X, i, j, k, l)[1] = FSb[X[i][1]]
                      /\ ShiftedColumn(X, i, j, k, l)[2] = FSb[X[j][2]]
                      /\ ShiftedColumn(X, i, j, k, l)[3] = FSb[X[k][3]]
                      /\ ShiftedColumn(X, i, j, k, l)[4] = FSb[X[l][4]]
  BY DEF ShiftedColumn
<1> QED
  BY <1>1, <1>2

\* The inverse of MixColumns on a block.
InverseBlock(X) ==
  <<InverseColumn(X[1]), InverseColumn(X[2]), InverseColumn(X[3]), InverseColumn(X[4])>>

\* A round of the decryption undoes SubBytes and ShiftRows, then MixColumns,
\* and adds its key.
LEMMA InverseRound ==
  ASSUME NEW K \in FourWords, NEW X \in FourWords, tables.RT = RT
  PROVE  /\ AES_RROUND(K, ShiftedBlock(X)) = AddKey(K, InverseBlock(X))
         /\ InverseBlock(X) \in FourWords
<1> DEFINE Y == ShiftedBlock(X)
           Column(k, i, j, m, l) ==
             Xor5(k, RT[0][Y[i][1]], RT[1][Y[j][2]], RT[2][Y[m][3]], RT[3][Y[l][4]])
<1>1. 0 + 1 = 1 /\ 1 + 1 = 2 /\ 2 + 1 = 3 /\ 3 + 1 = 4
  OBVIOUS
<1>2. AES_RROUND(K, Y) =
        <<Column(K[1], Before(1, 0), Before(1, 1), Before(1, 2), Before(1, 3)),
          Column(K[2], Before(2, 0), Before(2, 1), Before(2, 2), Before(2, 3)),
          Column(K[3], Before(3, 0), Before(3, 1), Before(3, 2), Before(3, 3)),
          Column(K[4], Before(4, 0), Before(4, 1), Before(4, 2), Before(4, 3))>>
  BY <1>1, Zenon DEF AES_RROUND, Four
<1> DEFINE Whole(k, j) == Xor5(k, RT[0][FSb[X[j][1]]], RT[1][FSb[X[j][2]]],
                               RT[2][FSb[X[j][3]]], RT[3][FSb[X[j][4]]])
<1> HIDE DEF Y
<1>3. /\ \A k : Column(k, 1, 4, 3, 2) = Whole(k, 1)
      /\ \A k : Column(k, 2, 1, 4, 3) = Whole(k, 2)
      /\ \A k : Column(k, 3, 2, 1, 4) = Whole(k, 3)
      /\ \A k : Column(k, 4, 3, 2, 1) = Whole(k, 4)
  <2>1. /\ Y[1][1] = FSb[X[1][1]] /\ Y[4][2] = FSb[X[1][2]] /\ Y[3][3] = FSb[X[1][3]]
        /\ Y[2][4] = FSb[X[1][4]]
        /\ Y[2][1] = FSb[X[2][1]] /\ Y[1][2] = FSb[X[2][2]] /\ Y[4][3] = FSb[X[2][3]]
        /\ Y[3][4] = FSb[X[2][4]]
        /\ Y[3][1] = FSb[X[3][1]] /\ Y[2][2] = FSb[X[3][2]] /\ Y[1][3] = FSb[X[3][3]]
        /\ Y[4][4] = FSb[X[3][4]]
        /\ Y[4][1] = FSb[X[4][1]] /\ Y[3][2] = FSb[X[4][2]] /\ Y[2][3] = FSb[X[4][3]]
        /\ Y[1][4] = FSb[X[4][4]]
    BY ShiftedBytes DEF Y
  <2> QED
    BY <2>1, Zenon
<1> HIDE DEF Column
<1>4. AES_RROUND(K, Y) = <<Whole(K[1], 1), Whole(K[2], 2), Whole(K[3], 3), Whole(K[4], 4)>>
  BY <1>2, <1>3, PlacesBefore
<1>5. ASSUME NEW k, NEW j \in 1 .. 4
      PROVE  Whole(k, j) = XorWords[k][InverseColumn(X[j])]
  <2>1. X[j] \in FourBytes
    BY DEF FourWords
  <2>2. X[j][1] \in Byte /\ X[j][2] \in Byte /\ X[j][3] \in Byte /\ X[j][4] \in Byte
    BY <2>1, BytesOfWord
  <2>3. 0 \in 0 .. 3 /\ 1 \in 0 .. 3 /\ 2 \in 0 .. 3 /\ 3 \in 0 .. 3
    OBVIOUS
  <2>4. /\ RT[0][FSb[X[j][1]]] = ROTR8(0, RT0[X[j][1]])
        /\ RT[1][FSb[X[j][2]]] = ROTR8(1, RT0[X[j][2]])
        /\ RT[2][FSb[X[j][3]]] = ROTR8(2, RT0[X[j][3]])
        /\ RT[3][FSb[X[j][4]]] = ROTR8(3, RT0[X[j][4]])
    BY <2>2, <2>3, InverseEntries, Zenon
  <2>5. Whole(k, j) = XorWords[k][XorWords[XorWords[ROTR8(0, RT0[X[j][1]])][ROTR8(1, RT0[X[j][2]])]]
                                          [XorWords[ROTR8(2, RT0[X[j][3]])][ROTR8(3, RT0[X[j][4]])]]]
    BY <2>4, Zenon DEF Xor5
  <2> QED
    BY <2>1, <2>5, InverseColumnAgrees, Zenon
<1> HIDE DEF Whole
<1>6. X[1] \in FourBytes /\ X[2] \in FourBytes /\ X[3] \in FourBytes /\ X[4] \in FourBytes
  BY WordsOfBlock
<1>7. InverseBlock(X) \in FourWords
  <2>1. /\ InverseColumn(X[1]) \in FourBytes /\ InverseColumn(X[2]) \in FourBytes
        /\ InverseColumn(X[3]) \in FourBytes /\ InverseColumn(X[4]) \in FourBytes
    BY <1>6, InverseLinear, Zenon
  <2> QED
    BY <2>1, FourOf, Zenon DEF InverseBlock, FourWords
<1> DEFINE I == InverseBlock(X)
<1>8. /\ I[1] = InverseColumn(X[1]) /\ I[2] = InverseColumn(X[2])
      /\ I[3] = InverseColumn(X[3]) /\ I[4] = InverseColumn(X[4])
  BY DEF InverseBlock
<1> HIDE DEF I
<1>9. AddKey(K, I) = <<XorWords[K[1]][I[1]], XorWords[K[2]][I[2]],
                       XorWords[K[3]][I[3]], XorWords[K[4]][I[4]]>>
  BY <1>7, KeyAdded DEF I
<1>10. /\ Whole(K[1], 1) = XorWords[K[1]][I[1]] /\ Whole(K[2], 2) = XorWords[K[2]][I[2]]
       /\ Whole(K[3], 3) = XorWords[K[3]][I[3]] /\ Whole(K[4], 4) = XorWords[K[4]][I[4]]
  BY <1>5, <1>8
<1> QED
  BY <1>4, <1>7, <1>9, <1>10, Zenon DEF I, Y

\* The inverse of MixColumns on sums of blocks and on MixColumns itself.
LEMMA InverseBlocks ==
  ASSUME NEW K \in FourWords, NEW X \in FourWords
  PROVE  /\ InverseBlock(X) \in FourWords
         /\ InverseBlock(AddKey(K, X)) = AddKey(InverseBlock(K), InverseBlock(X))
         /\ InverseBlock(MixColumns(X)) = X
         /\ AddKey(K, AddKey(K, X)) = X
<1>1. /\ K[1] \in FourBytes /\ K[2] \in FourBytes /\ K[3] \in FourBytes /\ K[4] \in FourBytes
      /\ X[1] \in FourBytes /\ X[2] \in FourBytes /\ X[3] \in FourBytes /\ X[4] \in FourBytes
  BY WordsOfBlock
<1>2. X = <<X[1], X[2], X[3], X[4]>>
  BY DEF FourWords
<1>3. ASSUME NEW Y \in FourWords PROVE InverseBlock(Y) \in FourWords
  <2>1. /\ InverseColumn(Y[1]) \in FourBytes /\ InverseColumn(Y[2]) \in FourBytes
        /\ InverseColumn(Y[3]) \in FourBytes /\ InverseColumn(Y[4]) \in FourBytes
    BY WordsOfBlock, InverseLinear, Zenon
  <2> QED
    BY <2>1, FourOf, Zenon DEF InverseBlock, FourWords
<1> DEFINE A == AddKey(K, X)
           M == MixColumns(X)
           IK == InverseBlock(K)
           IX == InverseBlock(X)
<1>4. /\ A \in FourWords
      /\ A[1] = XorWords[K[1]][X[1]] /\ A[2] = XorWords[K[2]][X[2]]
      /\ A[3] = XorWords[K[3]][X[3]] /\ A[4] = XorWords[K[4]][X[4]]
  <2>1. A \in FourWords /\ A = <<XorWords[K[1]][X[1]], XorWords[K[2]][X[2]],
                                 XorWords[K[3]][X[3]], XorWords[K[4]][X[4]]>>
    BY KeyAdded
  <2> HIDE DEF A
  <2> QED
    BY <2>1
<1>5. /\ M[1] = MixedColumn(X[1]) /\ M[2] = MixedColumn(X[2])
      /\ M[3] = MixedColumn(X[3]) /\ M[4] = MixedColumn(X[4])
  <2>1. M = <<MixedColumn(X[1]), MixedColumn(X[2]), MixedColumn(X[3]), MixedColumn(X[4])>>
    BY MixedColumns
  <2> HIDE DEF M
  <2> QED
    BY <2>1
<1>6. /\ IK[1] = InverseColumn(K[1]) /\ IK[2] = InverseColumn(K[2])
      /\ IK[3] = InverseColumn(K[3]) /\ IK[4] = InverseColumn(K[4])
      /\ IX[1] = InverseColumn(X[1]) /\ IX[2] = InverseColumn(X[2])
      /\ IX[3] = InverseColumn(X[3]) /\ IX[4] = InverseColumn(X[4])
  BY DEF InverseBlock
<1> HIDE DEF A, M, IK, IX
<1>7. InverseBlock(A) = AddKey(IK, IX)
  <2>1. IK \in FourWords /\ IX \in FourWords
    BY <1>3 DEF IK, IX
  <2>2. AddKey(IK, IX) = <<XorWords[IK[1]][IX[1]], XorWords[IK[2]][IX[2]],
                           XorWords[IK[3]][IX[3]], XorWords[IK[4]][IX[4]]>>
    BY <2>1, KeyAdded
  <2>3. /\ InverseColumn(A[1]) = XorWords[IK[1]][IX[1]]
        /\ InverseColumn(A[2]) = XorWords[IK[2]][IX[2]]
        /\ InverseColumn(A[3]) = XorWords[IK[3]][IX[3]]
        /\ InverseColumn(A[4]) = XorWords[IK[4]][IX[4]]
    <3>1. ASSUME NEW v \in FourBytes, NEW w \in FourBytes
          PROVE  InverseColumn(XorWords[v][w]) = XorWords[InverseColumn(v)][InverseColumn(w)]
      BY InverseLinear
    <3> QED
      BY <1>1, <1>4, <1>6, <3>1
  <2> QED
    BY <2>2, <2>3, Zenon DEF InverseBlock
<1>8. InverseBlock(M) = X
  <2>1. /\ InverseColumn(M[1]) = X[1] /\ InverseColumn(M[2]) = X[2]
        /\ InverseColumn(M[3]) = X[3] /\ InverseColumn(M[4]) = X[4]
    BY <1>1, <1>5, InverseOfColumn, Zenon
  <2> QED
    BY <1>2, <2>1, Zenon DEF InverseBlock
<1>9. AddKey(K, A) = X
  <2>1. AddKey(K, A) = <<XorWords[K[1]][A[1]], XorWords[K[2]][A[2]],
                         XorWords[K[3]][A[3]], XorWords[K[4]][A[4]]>>
    BY <1>4, KeyAdded
  <2>2. /\ XorWords[K[1]][A[1]] = X[1] /\ XorWords[K[2]][A[2]] = X[2]
        /\ XorWords[K[3]][A[3]] = X[3] /\ XorWords[K[4]][A[4]] = X[4]
    BY <1>1, <1>4, WordsCancel
  <2> QED
    BY <1>2, <2>1, <2>2, Zenon
<1> QED
  BY <1>3, <1>7, <1>8, <1>9, Zenon DEF A, M, IK, IX

\* u holds the items of v and then the four of w.
Joins(u, v, w, m) == /\ u \in Seq(Byte) /\ Len(u) = m + 4
                     /\ \A i \in 1 .. m : u[i] = v[i]
                     /\ u[m + 1] = w[1] /\ u[m + 2] = w[2] /\ u[m + 3] = w[3] /\ u[m + 4] = w[4]

\* The items of two sequences, one after the other.
LEMMA JoinedBytes ==
  ASSUME NEW m \in Nat, NEW v \in Seq(Byte), NEW w \in Seq(Byte), Len(v) = m, Len(w) = 4
  PROVE  Joins(v \o w, v, w, m)
<1> DEFINE u == v \o w
<1>1. /\ u \in Seq(Byte) /\ Len(u) = Len(v) + Len(w)
      /\ \A i \in 1 .. Len(v) + Len(w) : u[i] = IF i <= Len(v) THEN v[i] ELSE w[i - Len(v)]
  BY ConcatProperties
<1>2. Len(v) + Len(w) = m + 4
  OBVIOUS
<1>3. \A i \in 1 .. m + 4 : u[i] = IF i <= m THEN v[i] ELSE w[i - m]
  BY <1>1, <1>2, Zenon
<1>4. /\ m + 1 \in 1 .. m + 4 /\ m + 2 \in 1 .. m + 4 /\ m + 3 \in 1 .. m + 4 /\ m + 4 \in 1 .. m + 4
      /\ (m + 1) - m = 1 /\ (m + 2) - m = 2 /\ (m + 3) - m = 3 /\ (m + 4) - m = 4
      /\ ~ (m + 1 <= m) /\ ~ (m + 2 <= m) /\ ~ (m + 3 <= m) /\ ~ (m + 4 <= m)
  OBVIOUS
<1>5. \A i \in 1 .. m : i \in 1 .. m + 4 /\ i <= m
  OBVIOUS
<1> HIDE DEF u
<1>6. Joins(u, v, w, m)
  BY <1>1, <1>2, <1>3, <1>4, <1>5, Zenon DEF Joins
<1> QED
  BY <1>6 DEF u

\* A block is put together from its words and taken apart into them.
LEMMA WordsAndBytes ==
  /\ \A X \in FourWords : ToWords(PutWords(X)) = X
  /\ \A input \in [1 .. 16 -> Byte] : PutWords(ToWords(input)) = input
<1>1. ASSUME NEW s \in Seq(Byte), Len(s) = 16
      PROVE  ToWords(s) = <<<<s[1], s[2], s[3], s[4]>>, <<s[5], s[6], s[7], s[8]>>,
                            <<s[9], s[10], s[11], s[12]>>, <<s[13], s[14], s[15], s[16]>>>>
  <2>1. ASSUME NEW m \in {0, 4, 8, 12}
        PROVE  SubSeq(s, m + 1, m + 4) = <<s[m + 1], s[m + 2], s[m + 3], s[m + 4]>>
    <3>1. m \in Nat /\ m + 4 <= Len(s)
      BY <1>1
    <3> QED
      BY <3>1, FourInARow
  <2>2. /\ SubSeq(s, 1, 4) = <<s[1], s[2], s[3], s[4]>>
        /\ SubSeq(s, 5, 8) = <<s[5], s[6], s[7], s[8]>>
        /\ SubSeq(s, 9, 12) = <<s[9], s[10], s[11], s[12]>>
        /\ SubSeq(s, 13, 16) = <<s[13], s[14], s[15], s[16]>>
    <3>1. SubSeq(s, 0 + 1, 0 + 4) = <<s[0 + 1], s[0 + 2], s[0 + 3], s[0 + 4]>>
      BY <2>1
    <3>2. SubSeq(s, 4 + 1, 4 + 4) = <<s[4 + 1], s[4 + 2], s[4 + 3], s[4 + 4]>>
      BY <2>1
    <3>3. SubSeq(s, 8 + 1, 8 + 4) = <<s[8 + 1], s[8 + 2], s[8 + 3], s[8 + 4]>>
      BY <2>1
    <3>4. SubSeq(s, 12 + 1, 12 + 4) = <<s[12 + 1], s[12 + 2], s[12 + 3], s[12 + 4]>>
      BY <2>1
    <3>5. /\ 0 + 1 = 1 /\ 0 + 2 = 2 /\ 0 + 3 = 3 /\ 0 + 4 = 4
          /\ 4 + 1 = 5 /\ 4 + 2 = 6 /\ 4 + 3 = 7 /\ 4 + 4 = 8
          /\ 8 + 1 = 9 /\ 8 + 2 = 10 /\ 8 + 3 = 11 /\ 8 + 4 = 12
          /\ 12 + 1 = 13 /\ 12 + 2 = 14 /\ 12 + 3 = 15 /\ 12 + 4 = 16
      OBVIOUS
    <3> QED
      BY <3>1, <3>2, <3>3, <3>4, <3>5, Zenon
  <2>3. /\ GET_UINT32(s, 1) = SubSeq(s, 1, 4) /\ GET_UINT32(s, 2) = SubSeq(s, 5, 8)
        /\ GET_UINT32(s, 3) = SubSeq(s, 9, 12) /\ GET_UINT32(s, 4) = SubSeq(s, 13, 16)
    <3>1. /\ 4 * 1 - 3 = 1 /\ 4 * 1 = 4 /\ 4 * 2 - 3 = 5 /\ 4 * 2 = 8
          /\ 4 * 3 - 3 = 9 /\ 4 * 3 = 12 /\ 4 * 4 - 3 = 13 /\ 4 * 4 = 16
      OBVIOUS
    <3> QED
      BY <3>1, Zenon DEF GET_UINT32
  <2> QED
    BY <2>2, <2>3, Zenon DEF ToWords, Four
<1>2. ASSUME NEW X \in FourWords, NEW s, s = PutWords(X)
      PROVE  /\ s \in Seq(Byte) /\ Len(s) = 16
             /\ s[1] = X[1][1] /\ s[2] = X[1][2] /\ s[3] = X[1][3] /\ s[4] = X[1][4]
             /\ s[5] = X[2][1] /\ s[6] = X[2][2] /\ s[7] = X[2][3] /\ s[8] = X[2][4]
             /\ s[9] = X[3][1] /\ s[10] = X[3][2] /\ s[11] = X[3][3] /\ s[12] = X[3][4]
             /\ s[13] = X[4][1] /\ s[14] = X[4][2] /\ s[15] = X[4][3] /\ s[16] = X[4][4]
  <2> DEFINE a == X[1]
             b == X[2]
             c == X[3]
             d == X[4]
             p == a \o b
             q == p \o c
  <2>1. /\ a \in Seq(Byte) /\ b \in Seq(Byte) /\ c \in Seq(Byte) /\ d \in Seq(Byte)
        /\ Len(a) = 4 /\ Len(b) = 4 /\ Len(c) = 4 /\ Len(d) = 4
    <3>1. a \in FourBytes /\ b \in FourBytes /\ c \in FourBytes /\ d \in FourBytes
      BY WordsOfBlock
    <3> QED
      BY <3>1, BytesOfWord DEF Word
  <2>2. s = q \o d
    BY <1>2, Zenon DEF PutWords
  <2> HIDE DEF a, b, c, d
  <2>3. p = a \o b /\ q = p \o c
    BY Zenon
  <2> HIDE DEF p, q
  <2>4. /\ p \in Seq(Byte) /\ Len(p) = 8
        /\ \A i \in 1 .. 4 : p[i] = a[i]
        /\ p[5] = b[1] /\ p[6] = b[2] /\ p[7] = b[3] /\ p[8] = b[4]
    <3>1. 4 + 4 = 8 /\ 4 + 1 = 5 /\ 4 + 2 = 6 /\ 4 + 3 = 7 /\ 4 \in Nat
      OBVIOUS
    <3>2. PICK m \in Nat : m = 4
      BY <3>1, Zenon
    <3>3. /\ a \in Seq(Byte) /\ b \in Seq(Byte) /\ Len(a) = m /\ Len(b) = 4
          /\ p = a \o b
      BY <2>1, <2>3, <3>2, Zenon
    <3>4. Joins(a \o b, a, b, m)
      BY <3>3, JoinedBytes, Zenon
    <3>5. Joins(p, a, b, m)
      BY <3>3, <3>4, Zenon
    <3> QED
      BY <3>2, <3>5 DEF Joins
  <2>5. /\ q \in Seq(Byte) /\ Len(q) = 12
        /\ \A i \in 1 .. 8 : q[i] = p[i]
        /\ q[9] = c[1] /\ q[10] = c[2] /\ q[11] = c[3] /\ q[12] = c[4]
    <3>1. 8 + 4 = 12 /\ 8 + 1 = 9 /\ 8 + 2 = 10 /\ 8 + 3 = 11 /\ 8 \in Nat
      OBVIOUS
    <3>2. PICK m \in Nat : m = 8
      BY <3>1, Zenon
    <3>3. /\ p \in Seq(Byte) /\ c \in Seq(Byte) /\ Len(p) = m /\ Len(c) = 4
          /\ q = p \o c
      BY <2>1, <2>3, <2>4, <3>2, Zenon
    <3>4. Joins(p \o c, p, c, m)
      BY <3>3, JoinedBytes, Zenon
    <3>5. Joins(q, p, c, m)
      BY <3>3, <3>4, Zenon
    <3> QED
      BY <3>2, <3>5 DEF Joins
  <2>6. /\ s \in Seq(Byte) /\ Len(s) = 16
        /\ \A i \in 1 .. 12 : s[i] = q[i]
        /\ s[13] = d[1] /\ s[14] = d[2] /\ s[15] = d[3] /\ s[16] = d[4]
    <3>1. 12 + 4 = 16 /\ 12 + 1 = 13 /\ 12 + 2 = 14 /\ 12 + 3 = 15 /\ 12 \in Nat
      OBVIOUS
    <3>2. PICK m \in Nat : m = 12
      BY <3>1, Zenon
    <3>3. /\ q \in Seq(Byte) /\ d \in Seq(Byte) /\ Len(q) = m /\ Len(d) = 4
          /\ s = q \o d
      BY <2>1, <2>2, <2>5, <3>2, Zenon
    <3>4. Joins(q \o d, q, d, m)
      BY <3>3, JoinedBytes, Zenon
    <3>5. Joins(s, q, d, m)
      BY <3>3, <3>4, Zenon
    <3> QED
      BY <3>2, <3>5 DEF Joins
  <2>7. /\ s[1] = a[1] /\ s[2] = a[2] /\ s[3] = a[3] /\ s[4] = a[4]
        /\ s[5] = b[1] /\ s[6] = b[2] /\ s[7] = b[3] /\ s[8] = b[4]
    BY <2>4, <2>5, <2>6
  <2>8. s[9] = c[1] /\ s[10] = c[2] /\ s[11] = c[3] /\ s[12] = c[4]
    BY <2>5, <2>6
  <2> QED
    BY <2>6, <2>7, <2>8 DEF a, b, c, d
<1>3. ASSUME NEW X \in FourWords PROVE ToWords(PutWords(X)) = X
  <2> DEFINE s == PutWords(X)
  <2>1. ToWords(s) = <<<<X[1][1], X[1][2], X[1][3], X[1][4]>>, <<X[2][1], X[2][2], X[2][3], X[2][4]>>,
                       <<X[3][1], X[3][2], X[3][3], X[3][4]>>, <<X[4][1], X[4][2], X[4][3], X[4][4]>>>>
    <3>1. /\ s \in Seq(Byte) /\ Len(s) = 16
          /\ s[1] = X[1][1] /\ s[2] = X[1][2] /\ s[3] = X[1][3] /\ s[4] = X[1][4]
          /\ s[5] = X[2][1] /\ s[6] = X[2][2] /\ s[7] = X[2][3] /\ s[8] = X[2][4]
          /\ s[9] = X[3][1] /\ s[10] = X[3][2] /\ s[11] = X[3][3] /\ s[12] = X[3][4]
          /\ s[13] = X[4][1] /\ s[14] = X[4][2] /\ s[15] = X[4][3] /\ s[16] = X[4][4]
      BY <1>2
    <3> HIDE DEF s
    <3>2. ToWords(s) = <<<<s[1], s[2], s[3], s[4]>>, <<s[5], s[6], s[7], s[8]>>,
                         <<s[9], s[10], s[11], s[12]>>, <<s[13], s[14], s[15], s[16]>>>>
      BY <1>1, <3>1
    <3> QED
      BY <3>1, <3>2, Zenon
  <2>2. /\ X[1] = <<X[1][1], X[1][2], X[1][3], X[1][4]>> /\ X[2] = <<X[2][1], X[2][2], X[2][3], X[2][4]>>
        /\ X[3] = <<X[3][1], X[3][2], X[3][3], X[3][4]>> /\ X[4] = <<X[4][1], X[4][2], X[4][3], X[4][4]>>
    BY WordsOfBlock, BytesOfWord, Zenon
  <2>3. X = <<X[1], X[2], X[3], X[4]>>
    BY DEF FourWords
  <2> QED
    BY <2>1, <2>2, <2>3, Zenon
<1>4. ASSUME NEW input \in [1 .. 16 -> Byte] PROVE PutWords(ToWords(input)) = input
  <2> DEFINE X == ToWords(input)
             s == PutWords(X)
  <2>1. input \in Seq(Byte) /\ Len(input) = 16
    <3>1. input \in Seq(Byte)
      BY SeqDef
    <3> QED
      BY <3>1, LenProperties
  <2>2. X \in FourWords
    BY WordsOfInput
  <2>3. X = <<<<input[1], input[2], input[3], input[4]>>, <<input[5], input[6], input[7], input[8]>>,
              <<input[9], input[10], input[11], input[12]>>,
              <<input[13], input[14], input[15], input[16]>>>>
    BY <1>1, <2>1
  <2> HIDE DEF X
  <2>4. /\ X[1] = <<input[1], input[2], input[3], input[4]>>
        /\ X[2] = <<input[5], input[6], input[7], input[8]>>
        /\ X[3] = <<input[9], input[10], input[11], input[12]>>
        /\ X[4] = <<input[13], input[14], input[15], input[16]>>
    BY <2>3
  <2>5. /\ s \in Seq(Byte) /\ Len(s) = 16
        /\ s[1] = X[1][1] /\ s[2] = X[1][2] /\ s[3] = X[1][3] /\ s[4] = X[1][4]
        /\ s[5] = X[2][1] /\ s[6] = X[2][2] /\ s[7] = X[2][3] /\ s[8] = X[2][4]
        /\ s[9] = X[3][1] /\ s[10] = X[3][2] /\ s[11] = X[3][3] /\ s[12] = X[3][4]
        /\ s[13] = X[4][1] /\ s[14] = X[4][2] /\ s[15] = X[4][3] /\ s[16] = X[4][4]
    BY <1>2, <2>2
  <2> HIDE DEF s
  <2>6. /\ s[1] = input[1] /\ s[2] = input[2] /\ s[3] = input[3] /\ s[4] = input[4]
        /\ s[5] = input[5] /\ s[6] = input[6] /\ s[7] = input[7] /\ s[8] = input[8]
    BY <2>4, <2>5
  <2>7. /\ s[9] = input[9] /\ s[10] = input[10] /\ s[11] = input[11] /\ s[12] = input[12]
        /\ s[13] = input[13] /\ s[14] = input[14] /\ s[15] = input[15] /\ s[16] = input[16]
    BY <2>4, <2>5
  <2>8. \A i \in 1 .. 16 : s[i] = input[i]
    BY <2>6, <2>7
  <2>9. s = input
    BY <2>1, <2>5, <2>8, SeqEqual
  <2> QED
    BY <2>9 DEF s, X
<1> QED
  BY <1>3, <1>4

-----------------------------------------------------------------------------
(* The decryption.                                                         *)

\* The keys of the decryption: the outer two are round keys, the others go
\* through the inverse of MixColumns.
LEMMA DecryptionKeys ==
  ASSUME NEW nr \in Nat, NEW RK, RoundKeys(RK, nr), tables.KT = KT, NEW r \in 0 .. nr
  PROVE  drk(RK, nr, r) = IF r \in 1 .. nr - 1 THEN InverseBlock(RoundKey(RK, nr - r))
                          ELSE RoundKey(RK, nr - r)
<1> DEFINE key == RoundKey(RK, nr - r)
<1>1. key \in FourWords
  <2>1. nr - r \in 0 .. nr
    OBVIOUS
  <2> QED
    BY <2>1 DEF RoundKeys
<1>2. CASE r \in 1 .. nr - 1
  <2>1. drk(RK, nr, r) = <<Mixed(key[1]), Mixed(key[2]), Mixed(key[3]), Mixed(key[4])>>
    BY <1>2, Zenon DEF drk, Four
  <2> HIDE DEF key
  <2>2. /\ Mixed(key[1]) = InverseColumn(key[1]) /\ Mixed(key[2]) = InverseColumn(key[2])
        /\ Mixed(key[3]) = InverseColumn(key[3]) /\ Mixed(key[4]) = InverseColumn(key[4])
    BY <1>1, WordsOfBlock, MixedAgrees, Zenon
  <2>3. drk(RK, nr, r) = InverseBlock(key)
    BY <2>1, <2>2, Zenon DEF InverseBlock
  <2> QED
    BY <1>2, <2>3, Zenon DEF key
<1>3. CASE r \notin 1 .. nr - 1
  <2>1. drk(RK, nr, r) = <<key[1], key[2], key[3], key[4]>>
    BY <1>3, Zenon DEF drk, Four
  <2> HIDE DEF key
  <2>2. key = <<key[1], key[2], key[3], key[4]>>
    BY <1>1 DEF FourWords
  <2> QED
    BY <1>3, <2>1, <2>2, Zenon DEF key
<1> QED
  BY <1>2, <1>3

\* A round of AesDecrypt.
DecryptRound(RK, nr, r, Y) ==
  LET Last(j) == LET Item(b) == RSb[Y[Before(j, b - 1)][b]] IN Four(Item)
  IN IF r < nr THEN AES_RROUND(drk(RK, nr, r), Y)
     ELSE AddKey(drk(RK, nr, nr), Four(Last))

\* The last round undoes SubBytes and ShiftRows.
LEMMA LastRound ==
  ASSUME NEW nr, NEW RK, NEW r, ~ (r < nr), NEW X \in FourWords
  PROVE  DecryptRound(RK, nr, r, ShiftedBlock(X)) = AddKey(drk(RK, nr, nr), X)
<1> DEFINE Y == ShiftedBlock(X)
           Column(i, j, k, l) == <<RSb[Y[i][1]], RSb[Y[j][2]], RSb[Y[k][3]], RSb[Y[l][4]]>>
           Last == <<Column(Before(1, 0), Before(1, 1), Before(1, 2), Before(1, 3)),
                     Column(Before(2, 0), Before(2, 1), Before(2, 2), Before(2, 3)),
                     Column(Before(3, 0), Before(3, 1), Before(3, 2), Before(3, 3)),
                     Column(Before(4, 0), Before(4, 1), Before(4, 2), Before(4, 3))>>
<1>1. 1 - 1 = 0 /\ 2 - 1 = 1 /\ 3 - 1 = 2 /\ 4 - 1 = 3
  OBVIOUS
<1>2. DecryptRound(RK, nr, r, Y) = AddKey(drk(RK, nr, nr), Last)
  BY <1>1, Zenon DEF DecryptRound, Four
<1>3. Last = <<Column(1, 4, 3, 2), Column(2, 1, 4, 3), Column(3, 2, 1, 4), Column(4, 3, 2, 1)>>
  BY PlacesBefore, Zenon
<1>4. \A j, b \in 1 .. 4 : RSb[FSb[X[j][b]]] = X[j][b]
  BY WordsOfBlock, InverseSubstitution, Zenon
<1>5. 1 \in 1 .. 4 /\ 2 \in 1 .. 4 /\ 3 \in 1 .. 4 /\ 4 \in 1 .. 4
  OBVIOUS
<1>6. \A j \in 1 .. 4 : <<RSb[FSb[X[j][1]]], RSb[FSb[X[j][2]]], RSb[FSb[X[j][3]]],
                          RSb[FSb[X[j][4]]]>> = X[j]
  <2> TAKE j \in 1 .. 4
  <2>1. X[j] \in FourBytes
    BY DEF FourWords
  <2>2. X[j] = <<X[j][1], X[j][2], X[j][3], X[j][4]>>
    BY <2>1, BytesOfWord
  <2> QED
    BY <1>4, <1>5, <2>2, Zenon
<1> HIDE DEF Y
<1>13. /\ Y[1][1] = FSb[X[1][1]] /\ Y[4][2] = FSb[X[1][2]] /\ Y[3][3] = FSb[X[1][3]]
       /\ Y[2][4] = FSb[X[1][4]]
       /\ Y[2][1] = FSb[X[2][1]] /\ Y[1][2] = FSb[X[2][2]] /\ Y[4][3] = FSb[X[2][3]]
       /\ Y[3][4] = FSb[X[2][4]]
       /\ Y[3][1] = FSb[X[3][1]] /\ Y[2][2] = FSb[X[3][2]] /\ Y[1][3] = FSb[X[3][3]]
       /\ Y[4][4] = FSb[X[3][4]]
       /\ Y[4][1] = FSb[X[4][1]] /\ Y[3][2] = FSb[X[4][2]] /\ Y[2][3] = FSb[X[4][3]]
       /\ Y[1][4] = FSb[X[4][4]]
  BY ShiftedBytes DEF Y
<1>7. Column(1, 4, 3, 2) = X[1]
  BY <1>5, <1>6, <1>13
<1>8. Column(2, 1, 4, 3) = X[2]
  BY <1>5, <1>6, <1>13
<1>9. Column(3, 2, 1, 4) = X[3]
  BY <1>5, <1>6, <1>13
<1>10. Column(4, 3, 2, 1) = X[4]
  BY <1>5, <1>6, <1>13
<1>11. X = <<X[1], X[2], X[3], X[4]>>
  BY DEF FourWords
<1> HIDE DEF Column
<1>12. Last = X
  BY <1>3, <1>7, <1>8, <1>9, <1>10, <1>11, Zenon
<1> QED
  BY <1>2, <1>12, Zenon DEF Y

\* The states of an encryption, as StatesAgree finds them.
Encrypted(RK, nr, input) ==
  \E X \in [0 .. nr -> FourWords] :
    /\ X[0] = AddKey(RoundKey(RK, 0), ToWords(input))
    /\ \A r \in 1 .. nr : X[r] = CipherRound(RK, nr, r, X[r - 1])
    /\ AesEncrypt(RK, nr, input) = PutWords(X[nr])

\* Every encryption goes through such states.
LEMMA EncryptionStates ==
  ASSUME NEW nr \in Nat, NEW RK, RoundKeys(RK, nr), tables.FT = FT,
         NEW input \in [1 .. 16 -> Byte]
  PROVE  Encrypted(RK, nr, input)
  BY StatesAgree, ZenonT(60) DEF Encrypted

\* AesDecrypt undoes AesEncrypt, whatever the round keys: after each of its
\* rounds it holds what the encryption held before the round that it undoes,
\* its bytes substituted and its rows shifted.
LEMMA BlocksInverted ==
  ASSUME NEW nr \in Nat \ {0}, NEW RK, RoundKeys(RK, nr),
         tables.FT = FT, tables.RT = RT, tables.KT = KT, NEW input \in [1 .. 16 -> Byte]
  PROVE  AesDecrypt(RK, nr, AesEncrypt(RK, nr, input)) = input
<1>a. Encrypted(RK, nr, input)
  <2>1. nr \in Nat
    OBVIOUS
  <2> QED
    BY <2>1, EncryptionStates, Zenon
<1> DEFINE K(r) == RoundKey(RK, r)
           first == ToWords(input)
<1>1. PICK E \in [0 .. nr -> FourWords] :
        /\ E[0] = AddKey(K(0), first)
        /\ \A r \in 1 .. nr : E[r] = CipherRound(RK, nr, r, E[r - 1])
        /\ AesEncrypt(RK, nr, input) = PutWords(E[nr])
  BY <1>a, Zenon DEF Encrypted
<1>2. first \in FourWords
  BY WordsOfInput
<1>3. \A r \in 0 .. nr : K(r) \in FourWords
  BY DEF RoundKeys
<1>4. nr \in Nat /\ nr >= 1 /\ 0 \in 0 .. nr /\ nr \in 0 .. nr
  OBVIOUS
<1> DEFINE block == ToWords(PutWords(E[nr]))
           a == AddKey(drk(RK, nr, 0), block)
           Is(X) == X = [r \in 0 .. nr |->
                          IF r = 0 THEN a ELSE DecryptRound(RK, nr, r, X[r - 1])]
           D == CHOOSE X : Is(X)
           S(r) == ShiftedBlock(E[r])
           f == [r \in 0 .. nr |-> IF r < nr THEN S((nr - 1) - r) ELSE first]
<1>5. AesDecrypt(RK, nr, AesEncrypt(RK, nr, input)) = PutWords(D[nr])
  <2>1. AesDecrypt(RK, nr, PutWords(E[nr])) = PutWords(D[nr])
    BY Zenon DEF AesDecrypt, DecryptRound
  <2> QED
    BY <1>1, <2>1, Zenon
<1>6. \A r \in 0 .. nr : E[r] \in FourWords /\ S(r) \in FourWords /\ Shifted(E[r]) = S(r)
  <2> TAKE r \in 0 .. nr
  <2>1. E[r] \in FourWords
    OBVIOUS
  <2> QED
    BY <2>1, ShiftedColumns
<1>7. block = E[nr]
  BY <1>4, <1>6, WordsAndBytes, Zenon
<1>8. /\ drk(RK, nr, 0) = K(nr) /\ drk(RK, nr, nr) = K(0)
      /\ \A r \in 1 .. nr - 1 : drk(RK, nr, r) = InverseBlock(K(nr - r))
  <2>1. /\ 0 \notin 1 .. nr - 1 /\ nr \notin 1 .. nr - 1 /\ nr - 0 = nr /\ nr - nr = 0
        /\ \A r \in 1 .. nr - 1 : r \in 0 .. nr
    OBVIOUS
  <2> QED
    BY <1>4, <2>1, DecryptionKeys, ZenonT(60)
<1> HIDE DEF K, S, block, first
<1>9. E[nr] = AddKey(K(nr), S(nr - 1))
  <2>1. nr \in 1 .. nr /\ nr - 1 \in 0 .. nr /\ ~ (nr < nr)
    OBVIOUS
  <2>2. E[nr] = CipherRound(RK, nr, nr, E[nr - 1])
    BY <1>1, <2>1
  <2> QED
    BY <1>6, <2>1, <2>2, Zenon DEF CipherRound, K
<1>10. ASSUME NEW r \in 1 .. nr - 1
       PROVE  E[r] = AddKey(K(r), MixColumns(S(r - 1)))
  <2>1. r \in 1 .. nr /\ r - 1 \in 0 .. nr /\ r < nr
    OBVIOUS
  <2>2. E[r] = CipherRound(RK, nr, r, E[r - 1])
    BY <1>1, <2>1
  <2> QED
    BY <1>6, <2>1, <2>2, Zenon DEF CipherRound, K
<1>11. a = S(nr - 1)
  <2>1. nr - 1 \in 0 .. nr
    OBVIOUS
  <2>2. AddKey(K(nr), AddKey(K(nr), S(nr - 1))) = S(nr - 1)
    BY <1>3, <1>4, <1>6, <2>1, InverseBlocks, Zenon
  <2> QED
    BY <1>7, <1>8, <1>9, <2>2, Zenon
<1> HIDE DEF a
<1>12. ASSUME NEW r \in 1 .. nr - 1
       PROVE  DecryptRound(RK, nr, r, S(nr - r)) = S((nr - r) - 1)
  <2> DEFINE k == nr - r
  <2>1. k \in 1 .. nr - 1 /\ k \in 0 .. nr /\ k - 1 \in 0 .. nr /\ r < nr
    OBVIOUS
  <2> HIDE DEF k
  <2>2. DecryptRound(RK, nr, r, S(k)) = AES_RROUND(InverseBlock(K(k)), S(k))
    BY <1>8, <2>1, Zenon DEF DecryptRound, k
  <2>3. InverseBlock(K(k)) \in FourWords
    BY <1>3, <2>1, InverseBlocks, Zenon
  <2>4. E[k] \in FourWords /\ K(k) \in FourWords /\ S(k - 1) \in FourWords
    BY <1>3, <1>6, <2>1
  <2>5. AES_RROUND(InverseBlock(K(k)), S(k)) = AddKey(InverseBlock(K(k)), InverseBlock(E[k]))
    BY <2>3, <2>4, InverseRound, Zenon DEF S
  <2> DEFINE M == MixColumns(S(k - 1))
  <2>6. M \in FourWords /\ InverseBlock(M) = S(k - 1)
    BY <2>4, MixedColumns, InverseBlocks, Zenon
  <2>7. E[k] = AddKey(K(k), M)
    BY <1>10, <2>1
  <2> HIDE DEF M
  <2>8. InverseBlock(E[k]) = AddKey(InverseBlock(K(k)), S(k - 1))
    <3>1. InverseBlock(AddKey(K(k), M)) = AddKey(InverseBlock(K(k)), InverseBlock(M))
      BY <2>4, <2>6, InverseBlocks
    <3> QED
      BY <2>6, <2>7, <3>1, Zenon
  <2>9. AddKey(InverseBlock(K(k)), InverseBlock(E[k])) = S(k - 1)
    <3>1. AddKey(InverseBlock(K(k)), AddKey(InverseBlock(K(k)), S(k - 1))) = S(k - 1)
      BY <2>3, <2>4, InverseBlocks
    <3> QED
      BY <2>8, <3>1, Zenon
  <2> QED
    BY <2>2, <2>5, <2>9, Zenon DEF k
<1>13. DecryptRound(RK, nr, nr, S(0)) = first
  <2>1. DecryptRound(RK, nr, nr, S(0)) = AddKey(drk(RK, nr, nr), E[0])
    <3>1. ~ (nr < nr)
      OBVIOUS
    <3> QED
      BY <1>4, <1>6, <3>1, LastRound, Zenon DEF S
  <2>2. AddKey(K(0), AddKey(K(0), first)) = first
    BY <1>2, <1>3, <1>4, InverseBlocks, Zenon DEF first
  <2> QED
    BY <1>1, <1>8, <2>1, <2>2, Zenon DEF K, first
<1>14. f[0] = a /\ f[nr] = first
  <2>1. (nr - 1) - 0 = nr - 1 /\ 0 < nr /\ ~ (nr < nr)
    OBVIOUS
  <2> QED
    BY <1>4, <1>11, <2>1
<1>15. ASSUME NEW r \in 1 .. nr
       PROVE  f[r] = DecryptRound(RK, nr, r, f[r - 1])
  <2>1. r - 1 \in 0 .. nr /\ r - 1 < nr /\ (nr - 1) - (r - 1) = nr - r /\ r \in 0 .. nr
    OBVIOUS
  <2>2. f[r - 1] = S(nr - r)
    BY <2>1
  <2>3. CASE r = nr
    <3>1. nr - r = 0
      BY <2>3
    <3> QED
      BY <1>13, <1>14, <2>2, <2>3, <3>1
  <2>4. CASE r # nr
    <3>1. r \in 1 .. nr - 1 /\ (nr - r) - 1 = (nr - 1) - r /\ r < nr
      BY <2>4
    <3>2. f[r] = S((nr - 1) - r)
      BY <2>1, <3>1
    <3> HIDE DEF f
    <3> QED
      BY <1>12, <2>2, <3>1, <3>2
  <2> QED
    BY <2>3, <2>4
<1>16. f = [r \in 0 .. nr |-> f[r]]
  BY Zenon
<1> HIDE DEF f
<1>17. Is(D)
  <2>1. \A r \in 0 .. nr : f[r] = IF r = 0 THEN a ELSE DecryptRound(RK, nr, r, f[r - 1])
    BY <1>14, <1>15
  <2>2. Is(f)
    BY <1>16, <2>1
  <2> HIDE DEF Is
  <2> QED
    BY <2>2
<1>18. D[0] = a /\ \A r \in 1 .. nr : D[r] = DecryptRound(RK, nr, r, D[r - 1])
  <2> HIDE DEF D
  <2> QED
    BY <1>17
<1> HIDE DEF D
<1> DEFINE L == {k \in 0 .. nr : D[k] = f[k]}
<1>19. \A k \in 0 .. nr : k \in L
  <2>1. 0 \in L
    BY <1>14, <1>18
  <2>2. ASSUME NEW k \in 0 .. nr - 1, k \in L PROVE k + 1 \in L
    <3>1. k + 1 \in 1 .. nr /\ (k + 1) - 1 = k
      OBVIOUS
    <3> QED
      BY <1>15, <1>18, <2>2, <3>1
  <2> HIDE DEF L
  <2> QED
    BY <1>4, <2>1, <2>2, Upwards
<1>20. D[nr] = first
  BY <1>4, <1>14, <1>19
<1>21. PutWords(first) = input
  BY WordsAndBytes, Zenon DEF first
<1> QED
  BY <1>5, <1>20, <1>21, Zenon

\* What AesEncrypt makes of a block, AesDecrypt with the same key gives back,
\* for every key of 16, 24 or 32 bytes and every block.
THEOREM DecryptionInverts ==
  ASSUME NEW nk, NEW key, KeyOf(key, nk),
         tables = [FT |-> FT, RT |-> RT, KT |-> KT], NEW input \in [1 .. 16 -> Byte]
  PROVE  AesDecrypt(erk(key), Rounds(key), AesEncrypt(erk(key), Rounds(key), input)) = input
<1>1. nk + 6 \in Nat \ {0}
  BY DEF KeyOf
<1>2. Rounds(key) = nk + 6 /\ RoundKeys(erk(key), nk + 6)
  BY KeysScheduled
<1>3. tables.FT = FT /\ tables.RT = RT /\ tables.KT = KT
  <2> HIDE DEF FT, RT, KT
  <2> QED
    OBVIOUS
<1> QED
  BY <1>1, <1>2, <1>3, BlocksInverted, Zenon
=============================================================================
