------------------------------ MODULE MCPackets ------------------------------
(* Instance of Packets for TLC: the key and the block of the examples of   *)
(* FIPS 197 and another pair; two sounds, of 0 to 2 chunks of 8 frames and *)
(* a chunk that is cut short by 1, 4 or 7 frames.                          *)
EXTENDS Packets

\* The examples of FIPS 197 for keys of 16, 24 and 32 bytes 0, 1, 2, ...
ExampleText == [i \in 1 .. 16 |-> 17 * (i - 1)]
Example(n) ==
  CASE n = 16 -> <<105, 196, 224, 216, 106, 123, 4, 48, 216, 205, 183, 128, 112, 180, 197, 90>>
    [] n = 24 -> <<221, 169, 124, 164, 134, 76, 223, 224, 110, 175, 112, 160, 236, 13, 113, 145>>
    [] n = 32 -> <<142, 162, 183, 202, 81, 103, 69, 191, 234, 252, 73, 144, 75, 73, 96, 137>>

\* Cipher and the key schedule are the standard's.
ASSUME Fips197 ==
  \A n \in {16, 24, 32} :
    Cipher(erk([i \in 1 .. n |-> i - 1]), (n \div 4) + 6, ExampleText) = Example(n)

MCSessions == {<<[i \in 1 .. 16 |-> i - 1], ExampleText>>,
               <<[i \in 1 .. 16 |-> (201 * i) % 256], [i \in 1 .. 16 |-> 256 - i]>>}

Sound(s, n) ==
  [f \in 1 .. n |-> [b \in 1 .. 4 |-> (151 * s + 116 * f + 29 * b) % 256]]
MCSongs == {Sound(s, n) : s \in {1, 2}, n \in {0, 1, 4, 8, 12, 17}}
=============================================================================
