--------------------------------- MODULE Aes ---------------------------------
(***************************************************************************)
(* The block cipher of RAOPClient.cpp: tables over GF(2^8), the key        *)
(* schedules, encryption and decryption of a block of 16 bytes, for keys   *)
(* of 128, 192 and 256 bits; and, for comparison, the cipher as FIPS 197   *)
(* defines it, one transformation after the other.                         *)
(*                                                                         *)
(* A byte is a number below 256, a uint32 the sequence of its four bytes,  *)
(* most significant first, a block or a round key four words.              *)
(***************************************************************************)
EXTENDS Integers, Sequences

VARIABLE tables   \* FT, RT and KT, once they are made

Byte == 0 .. 255

Bit(x, i) == (x \div 2^i) % 2

\* x ^ y for bytes.
Xored ==
  LET Sum(b) == b[0] + 2 * b[1] + 4 * b[2] + 8 * b[3] + 16 * b[4] + 32 * b[5] + 64 * b[6]
                + 128 * b[7]
  IN [x \in Byte |-> [y \in Byte |-> Sum([i \in 0 .. 7 |-> (Bit(x, i) + Bit(y, i)) % 2])]]

Four(Item(_)) == <<Item(1), Item(2), Item(3), Item(4)>>
Word == Seq(Byte)
XorWords == [v \in Word |-> [w \in Word |-> LET Item(b) == Xored[v[b]][w[b]] IN Four(Item)]]
Xor5(v, w, x, y, z) == XorWords[v][XorWords[XorWords[w][x]][XorWords[y][z]]]

-----------------------------------------------------------------------------
(* AesGenTables.                                                           *)

XTIME[x \in Byte] == Xored[(2 * x) % 256][IF x >= 128 THEN 27 ELSE 0]

\* One turn of the loop over i, and sixteen (so that the recursion stays
\* shallow).
Times3[x \in Byte] == Xored[x][XTIME[x]]
FourTimes[x \in Byte] == Times3[Times3[Times3[Times3[x]]]]
SixteenTimes[x \in Byte] == FourTimes[FourTimes[FourTimes[FourTimes[x]]]]

\* Powers of 3, and their logarithms: the loop writes log[1] twice, last 255.
pow ==
  LET power[i \in Byte] ==
        IF i = 0 THEN 1
        ELSE IF i % 16 = 0 THEN SixteenTimes[power[i - 16]] ELSE Times3[power[i - 1]]
  IN power
log == [x \in 1 .. 255 |-> CHOOSE i \in 1 .. 255 : pow[i] = x]

MUL == [x \in Byte |-> [y \in Byte |->
  IF x # 0 /\ y # 0 THEN pow[(log[x] + log[y]) % 255] ELSE 0]]

RCON[i \in 0 .. 9] == IF i = 0 THEN 1 ELSE XTIME[RCON[i - 1]]

RotateLeft[x \in Byte] == ((2 * x) % 256) + (x \div 128)

\* The entry of FSb for an inverse x.
Affine[x \in Byte] ==
  LET x1 == RotateLeft[x]   x2 == RotateLeft[x1]
      x3 == RotateLeft[x2]  x4 == RotateLeft[x3]
  IN Xored[Xored[x][Xored[x1][x2]]][Xored[Xored[x3][x4]][99]]
FSb == [i \in Byte |-> IF i = 0 THEN 99 ELSE Affine[pow[255 - log[i]]]]
RSb == [x \in Byte |-> CHOOSE i \in Byte : FSb[i] = x]

\* The entries of FT0 and RT0, for entries x of FSb and y of RSb, and of
\* the n-th table after, each a rotation of the one before.
FT0[x \in Byte] == <<XTIME[x], x, x, Xored[x][XTIME[x]]>>
RT0[y \in Byte] == <<MUL[14][y], MUL[9][y], MUL[13][y], MUL[11][y]>>
ROTR8(n, w) == SubSeq(w \o w, 5 - n, 8 - n)

FT == [n \in 0 .. 3 |-> [i \in Byte |-> ROTR8(n, FT0[FSb[i]])]]
RT == [n \in 0 .. 3 |-> [i \in Byte |-> ROTR8(n, RT0[RSb[i]])]]

-----------------------------------------------------------------------------
(* AesSetKey, for a key of 16, 24 or 32 bytes.                             *)

\* Tables for the round keys of the decryption.
KT == [n \in 0 .. 3 |-> [i \in Byte |-> RT[n][FSb[i]]]]

\* The tables are made for the first key.
MakeTables ==
  tables' = IF tables = <<>> THEN [FT |-> FT, RT |-> RT, KT |-> KT] ELSE tables

GET_UINT32(b, j) == SubSeq(b, 4 * j - 3, 4 * j)

Rounds(key) == (Len(key) \div 4) + 6

SubWord(w) == LET Item(b) == FSb[w[b]] IN Four(Item)

\* Encryption round keys: the words of the key, then every word from the
\* one before and the one a key's length before.
erk(key) ==
  LET nk == Len(key) \div 4
      RK[i \in 0 .. 4 * Rounds(key) + 4] ==   \* the first i words
        IF i = 0 THEN <<>>
        ELSE LET known == RK[i - 1]
                 w == known[i - 1]
             IN Append(known,
                  IF i <= nk THEN GET_UINT32(key, i)
                  ELSE XorWords[known[i - nk]][
                    IF i % nk = 1
                    THEN XorWords[<<RCON[(i \div nk) - 1], 0, 0, 0>>][
                                  SubWord(<<w[2], w[3], w[4], w[1]>>)]
                    ELSE IF nk = 8 /\ i % nk = 5 THEN SubWord(w) ELSE w])
  IN RK[4 * Rounds(key) + 4]

\* The four words of round r.
RoundKey(RK, r) == SubSeq(RK, 4 * r + 1, 4 * r + 4)

\* Decryption round keys of round r, last round first: all but the outer
\* two go through the tables of KT.
Mixed(w) ==
  LET Item(b) == tables.KT[b - 1][w[b]] IN
  XorWords[XorWords[Item(1)][Item(2)]][XorWords[Item(3)][Item(4)]]
drk(RK, nr, r) ==
  LET key == RoundKey(RK, nr - r)
      Item(j) == IF r \in 1 .. nr - 1 THEN Mixed(key[j]) ELSE key[j]
  IN Four(Item)

-----------------------------------------------------------------------------
(* AesEncrypt and AesDecrypt.                                              *)

ToWords(input) == LET Item(j) == GET_UINT32(input, j) IN Four(Item)
PutWords(X) == X[1] \o X[2] \o X[3] \o X[4]
AddKey(K, Y) == LET Item(j) == XorWords[K[j]][Y[j]] IN Four(Item)

\* The b-th word after, and before, word j of a block.
After(j, b) == ((j + b - 1) % 4) + 1
Before(j, b) == ((j + 3 - b) % 4) + 1

AES_FROUND(K, Y) ==
  LET Entry(j, n) == tables.FT[n][Y[After(j, n)][n + 1]]
      Item(j) == Xor5(K[j], Entry(j, 0), Entry(j, 1), Entry(j, 2), Entry(j, 3))
  IN Four(Item)

AES_RROUND(K, Y) ==
  LET Entry(j, n) == tables.RT[n][Y[Before(j, n)][n + 1]]
      Item(j) == Xor5(K[j], Entry(j, 0), Entry(j, 1), Entry(j, 2), Entry(j, 3))
  IN Four(Item)

AesEncrypt(RK, nr, input) ==
  LET X[r \in 0 .. nr] ==
        IF r = 0 THEN AddKey(RoundKey(RK, 0), ToWords(input))
        ELSE LET Y == X[r - 1]
                 Last(j) == SubWord(<<Y[j][1], Y[After(j, 1)][2],
                                      Y[After(j, 2)][3], Y[After(j, 3)][4]>>)
             IN IF r < nr THEN AES_FROUND(RoundKey(RK, r), Y)
                ELSE AddKey(RoundKey(RK, nr), Four(Last))
  IN PutWords(X[nr])

AesDecrypt(RK, nr, input) ==
  LET X[r \in 0 .. nr] ==
        IF r = 0 THEN AddKey(drk(RK, nr, 0), ToWords(input))
        ELSE LET Y == X[r - 1]
                 Last(j) == LET Item(b) == RSb[Y[Before(j, b - 1)][b]]
                            IN Four(Item)
             IN IF r < nr THEN AES_RROUND(drk(RK, nr, r), Y)
                ELSE AddKey(drk(RK, nr, nr), Four(Last))
  IN PutWords(X[nr])

-----------------------------------------------------------------------------
(* The cipher of FIPS 197, with its own arithmetic and S-box.              *)

\* The product in GF(2^8) modulo x^8 + x^4 + x^3 + x + 1.
Product == [x \in Byte |-> [y \in Byte |->
  LET x1 == XTIME[x]   x2 == XTIME[x1]  x3 == XTIME[x2]  x4 == XTIME[x3]
      x5 == XTIME[x4]  x6 == XTIME[x5]  x7 == XTIME[x6]
      At(i, z) == IF Bit(y, i) = 1 THEN z ELSE 0
  IN Xored[Xored[Xored[At(0, x)][At(1, x1)]][Xored[At(2, x2)][At(3, x3)]]]
          [Xored[Xored[At(4, x4)][At(5, x5)]][Xored[At(6, x6)][At(7, x7)]]]]]

\* The affine image: bit i is the sum of five bits and of bit i of 99.
AffineBit(v, i) ==
  (Bit(v, i % 8) + Bit(v, (i + 4) % 8) + Bit(v, (i + 5) % 8) + Bit(v, (i + 6) % 8)
   + Bit(v, (i + 7) % 8) + Bit(99, i)) % 2
AffineImage(v) ==
  AffineBit(v, 0) + 2 * AffineBit(v, 1) + 4 * AffineBit(v, 2) + 8 * AffineBit(v, 3)
  + 16 * AffineBit(v, 4) + 32 * AffineBit(v, 5) + 64 * AffineBit(v, 6) + 128 * AffineBit(v, 7)

\* The images of the inverses, a sequence from the image of 0 on.
SBox ==
  LET inverse(i) == IF i = 0 THEN 0 ELSE CHOOSE y \in 1 .. 255 : Product[i][y] = 1
  IN <<>> \o [i \in 1 .. 256 |-> AffineImage(inverse(i - 1))]

\* SubBytes and ShiftRows: row b of column j comes from b - 1 columns after.
Shifted(X) ==
  LET Column(j) == LET Item(b) == SBox[X[After(j, b - 1)][b] + 1] IN Four(Item)
  IN Four(Column)

MixColumns(X) ==
  LET Column(j) ==
        LET Item(b) ==
              LET At(i) == X[j][After(b, i)] IN
              Xored[Xored[Product[At(0)][2]][Product[At(1)][3]]][Xored[At(2)][At(3)]]
        IN Four(Item)
  IN Four(Column)

Cipher(RK, nr, input) ==
  LET X[r \in 0 .. nr] ==
        IF r = 0 THEN AddKey(RoundKey(RK, 0), ToWords(input))
        ELSE LET S == Shifted(X[r - 1]) IN
             AddKey(RoundKey(RK, r), IF r < nr THEN MixColumns(S) ELSE S)
  IN PutWords(X[nr])
=============================================================================
