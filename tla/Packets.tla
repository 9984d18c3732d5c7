------------------------------- MODULE Packets -------------------------------
(***************************************************************************)
(* What the player puts into the packets of a song: WritePCM of            *)
(* AudioStream packs the decoder's samples into a chunk of Apple Lossless  *)
(* audio, bit by bit and in a buffer that is used again and again;         *)
(* SendSample and Encrypt of RAOPClient make a packet of it; the AirPort   *)
(* knows the initialization vector from the Base64 text of the session's   *)
(* description. When packets are sent is RAOPSender's, the session         *)
(* RTSPClient's subject.                                                   *)
(*                                                                         *)
(* A byte is a number below 256; a character of base64_chars is its index, *)
(* the padding character the number 64. A frame is the four bytes of a     *)
(* left and a right sample, as the decoder writes them.                    *)
(***************************************************************************)
EXTENDS Aes, FiniteSets

CONSTANTS
  FullChunk,     \* MAX_SAMPLES_IN_CHUNK, chunk_size of a 44100 Hz stream
  SmallChunk,    \* MINIMUM_SAMPLE_SIZE
  Sessions,      \* pairs of a key and an initialization vector, of 16 bytes
  Songs          \* sequences of frames

Frame == [1 .. 4 -> Byte]

\* The lengths that two bytes can state.
MaxLength == 65535
Lengths == 0 .. MaxLength

ASSUME ConstantsAssumption ==
  /\ FullChunk \in Nat \ {0}
  /\ 4 * FullChunk + 15 \in Lengths   \* a chunk and twelve bytes of its header
  /\ SmallChunk \in 1 .. 2^30 - 1
  /\ Sessions \subseteq [1 .. 16 -> Byte] \X [1 .. 16 -> Byte]
  /\ Songs \subseteq Seq(Frame)

VARIABLES
  pc,      \* "closed"; a session "opened" and "connected"; a song "started";
           \* a packet of it "sent", the last one "ended"
  key, iv, nv, ctx, \* of RAOPClient; its tables are in Aes
  silence, \* min_sdata, min_sdata_size
  aesiv,   \* a=aesiv of the session description
  song,    \* what the decoder has left to write
  buffer,  \* of MP3Stream
  frames,  \* the frames of the last chunk
  chunk,   \* what GetNextSample returned
  packet   \* data of RAOPClient

vars == <<pc, tables, key, iv, nv, ctx, silence, aesiv, song, buffer, frames, chunk,
          packet>>
session == <<tables, key, iv, ctx, silence, aesiv>>

-----------------------------------------------------------------------------
(* Chunks.                                                                 *)

\* x | y for bytes.
Ored ==
  LET or(x, y) ==
        LET At(i) == IF Bit(x, i) = 1 \/ Bit(y, i) = 1 THEN 2^i ELSE 0
        IN At(0) + At(1) + At(2) + At(3) + At(4) + At(5) + At(6) + At(7)
  IN [x \in Byte |-> [y \in Byte |-> or(x, y)]]

\* The variant that leaves what the buffer held in the next byte.
OrNextByte(w, d, blen) ==
  LET rb == 8 - w.bpos - blen IN
  IF rb >= 0
  THEN [w EXCEPT !.buf[w.bp] = IF w.bpos # 0 THEN Ored[@][d * 2^rb] ELSE d * 2^rb,
                 !.bpos = @ + blen]
  ELSE [w EXCEPT !.buf[w.bp] = Ored[@][d \div 2^(-rb)],
                 !.buf[w.bp + 1] = Ored[@][(d * 2^(8 + rb)) % 256],
                 !.bp = @ + 1,
                 !.bpos = -rb]

\* A field of blen bits, d, after what w holds: w.bpos bits of the byte at
\* w.bp are written.
bits_write(w, d, blen) ==
  LET rb == 8 - w.bpos - blen IN
  IF rb >= 0
  THEN [w EXCEPT !.buf[w.bp] = IF w.bpos # 0 THEN Ored[@][d * 2^rb] ELSE d * 2^rb,
                 !.bpos = @ + blen]
  ELSE [w EXCEPT !.buf[w.bp] = Ored[@][d \div 2^(-rb)],
                 !.buf[w.bp + 1] = (d * 2^(8 + rb)) % 256,
                 !.bp = @ + 1,
                 !.bpos = -rb]

\* The fields of a chunk of bsize frames made of input, header first.
Header(bsize) ==
  LET sized == bsize # FullChunk
      Byte4(k) == <<(bsize \div 256^(4 - k)) % 256, 8>>
  IN << <<1, 3>>, <<0, 4>>, <<0, 8>>, <<0, 4>>, <<IF sized THEN 1 ELSE 0, 1>>,
        <<0, 2>>, <<1, 1>> >>
     \o IF sized THEN Four(Byte4) ELSE <<>>
Fields(input, bsize) ==
  LET count == Len(input)
      \* The bytes one[1], one[0], one[3], one[2] of every frame, then zeros.
      Sample(k) == LET f == (k + 3) \div 4  b == ((k + 3) % 4) + 1 IN
                   <<IF f <= count THEN input[f][<<2, 1, 4, 3>>[b]] ELSE 0, 8>>
  IN Header(bsize) \o IF count = 0 THEN <<>> ELSE [k \in 1 .. 4 * bsize |-> Sample(k)]

\* The fields, written one after the other from the start of buf.
Written(buf, fields) ==
  LET W[i \in 0 .. Len(fields)] ==
        IF i = 0 THEN [buf |-> buf, bp |-> 1, bpos |-> 0]
        ELSE LET w == W[i - 1] IN bits_write(w, fields[i][1], fields[i][2])
  IN W[Len(fields)]

\* Reads at most bsize frames of the input into buf; rval is -1 when there
\* were none.
WritePCM(buf, bsize, input) ==
  LET read == SubSeq(input, 1, IF Len(input) < bsize THEN Len(input) ELSE bsize)
      end == Written(buf, Fields(read, bsize))
  IN [rval |-> IF read = <<>> THEN -1 ELSE 0,
      read |-> read,
      buf |-> end.buf,
      data |-> SubSeq(end.buf, 1, IF end.bpos # 0 THEN end.bp ELSE end.bp - 1)]

-----------------------------------------------------------------------------
(* Packets.                                                                *)

XorBytes(a, b) == [i \in 1 .. 16 |-> Xored[a[i]][b[i]]]
Block(data, i) == SubSeq(data, 16 * i - 15, 16 * i)

\* A vector and the whole blocks of data, each encrypted after the block
\* before it.
Chained(vector, data) ==
  LET E[i \in 0 .. Len(data) \div 16] ==
        IF i = 0 THEN vector
        ELSE LET done == E[i - 1] IN
             done \o AesEncrypt(ctx.erk, ctx.nr, XorBytes(Block(data, i), Block(done, i)))
  IN E[Len(data) \div 16]

\* The variant that goes on from the packet before.
LastVector == nv

\* What Encrypt chains the first block after: it sets nv to iv first.
Vector == iv

\* SendSample, Encrypt and AesEncrypt; less than a block at the end of the
\* sample stays as it is.
SendSample(sample) ==
  LET length == (Len(sample) + 12) % 65536
      blocks == Chained(Vector, sample)
      header == <<36, 0, length \div 256, length % 256, 240, 255>> \o [i \in 1 .. 10 |-> 0]
  IN /\ nv' = SubSeq(blocks, Len(blocks) - 15, Len(blocks))
     /\ packet' = header \o SubSeq(blocks, 17, Len(blocks))
                         \o SubSeq(sample, Len(blocks) - 15, Len(sample))

-----------------------------------------------------------------------------
(* Text.                                                                   *)

Pad == 64

\* The variant that pads one character too few of the last group.
EncodesLastZero(data) ==
  LET size == Len(data)
      At(i) == IF i <= size THEN data[i] ELSE 0
      Char(k) ==
        LET i == 3 * ((k - 1) \div 4)
            p == (k - 1) % 4
            c == 65536 * At(i + 1) + 256 * At(i + 2) + At(i + 3)
        IN IF p = 3 /\ i + 3 > size THEN Pad ELSE (c \div 64^(3 - p)) % 64
  IN [k \in 1 .. 4 * ((size + 2) \div 3) |-> Char(k)]

Base64Encode(data) ==
  LET size == Len(data)
      At(i) == IF i <= size THEN data[i] ELSE 0
      \* The t-th group of four characters, for the three bytes after i.
      Char(k) ==
        LET i == 3 * ((k - 1) \div 4)
            p == (k - 1) % 4
            c == 65536 * At(i + 1) + 256 * At(i + 2) + At(i + 3)
        IN IF (p = 3 /\ i + 3 > size) \/ (p = 2 /\ i + 2 > size) THEN Pad
           ELSE (c \div 64^(3 - p)) % 64
  IN [k \in 1 .. 4 * ((size + 2) \div 3) |-> Char(k)]

RemoveCharFromString(str, rc) ==
  LET Kept[i \in 0 .. Len(str)] ==   \* of the first i characters
        IF i = 0 THEN <<>>
        ELSE IF str[i] = rc THEN Kept[i - 1] ELSE Append(Kept[i - 1], str[i])
  IN Kept[Len(str)]

\* TokenDecode: the number of padding characters and the value of a group,
\* or {} for a group that is none.
TokenDecode(token) ==
  LET marks == Cardinality({i \in 1 .. Len(token) : token[i] = Pad})
      At(i) == IF token[i] = Pad THEN 0 ELSE token[i]
  IN IF Len(token) < 4 \/ marks > 2 \/ \E i \in 5 - marks .. 4 : token[i] # Pad
     THEN {}
     ELSE {[marker |-> marks,
            val |-> 64 * (64 * (64 * At(1) + At(2)) + At(3)) + At(4)]}

\* The bytes of such a value that are not for padding.
TokenBytes(t) ==
  SubSeq(<<t.val \div 65536, (t.val \div 256) % 256, t.val % 256>>, 1, 3 - t.marker)

\* The bytes of a text, or {} when a group of it is none.
Base64Decode(str) ==
  LET D[i \in 0 .. (Len(str) + 3) \div 4] ==   \* after i groups
        IF i = 0 THEN {<<>>}
        ELSE {known \o TokenBytes(t) :
                known \in D[i - 1],
                t \in TokenDecode(SubSeq(str, 4 * i - 3,
                                         IF 4 * i < Len(str) THEN 4 * i ELSE Len(str)))}
  IN D[(Len(str) + 3) \div 4]

-----------------------------------------------------------------------------

Init ==
  /\ pc = "closed" /\ tables = <<>>
  /\ key = <<>> /\ iv = <<>> /\ nv = <<>> /\ ctx = <<>> /\ silence = <<>>
  /\ aesiv = <<>>
  /\ song = <<>> /\ frames = <<>> /\ chunk = <<>> /\ packet = <<>>
  /\ buffer = [i \in 1 .. 4 * FullChunk + 16 |-> 0]

\* RAOPClient::Open: a new key and vector, and the chunk of silence. main
\* calls it again when the connection fails, and after any song.
Open ==
  /\ \E s \in Sessions :
       /\ key' = s[1]
       /\ iv' = s[2]
       /\ nv' = s[2]
       /\ MakeTables
       /\ ctx' = [nr |-> Rounds(s[1]), erk |-> erk(s[1])]
  /\ silence' = WritePCM([i \in 1 .. 4 * SmallChunk + 16 |-> 0], SmallChunk,
                         [f \in 1 .. SmallChunk |-> <<0, 0, 0, 0>>]).data
  /\ pc' = "opened"
  /\ UNCHANGED <<aesiv, song, buffer, frames, chunk, packet>>

\* RAOPClient::Connect: the part that describes the session.
Connect ==
  /\ pc = "opened"
  /\ aesiv' = RemoveCharFromString(Base64Encode(iv), Pad)
  /\ pc' = "connected"
  /\ UNCHANGED <<tables, key, iv, nv, ctx, silence, song, buffer, frames, chunk, packet>>

\* The decoder of a song starts; the song before may have been cut.
Start ==
  /\ pc \in {"connected", "started", "sent", "ended"}
  /\ song' \in Songs
  /\ pc' = "started"
  /\ UNCHANGED <<session, nv, buffer, frames, chunk, packet>>

\* A chunk of the next frames; one that has none is a header, and the last.
GetNextSample ==
  LET w == WritePCM(buffer, FullChunk, song) IN
  /\ buffer' = w.buf
  /\ frames' = w.read
  /\ chunk' = w.data
  /\ song' = SubSeq(song, Len(w.read) + 1, Len(song))
  /\ pc' = IF w.rval = 0 THEN "sent" ELSE "ended"

\* While bytes of a packet wait PlaySong makes it anew of the same chunk.
SameSample == pc = "sent" /\ UNCHANGED <<pc, song, buffer, frames, chunk>>

\* A turn of the loop over a song.
SendChunk ==
  /\ pc \in {"started", "sent"}
  /\ GetNextSample \/ SameSample
  /\ SendSample(chunk')
  /\ UNCHANGED session

Next == Open \/ Connect \/ Start \/ SendChunk

Spec == Init /\ [][Next]_vars

-----------------------------------------------------------------------------
(* Properties.                                                             *)

\* The bytes of a sequence of bits, the last byte filled with zeros.
Octets(bits) ==
  LET At(i) == IF i <= Len(bits) THEN bits[i] ELSE 0
      Octet(k) == 128 * At(8*k - 7) + 64 * At(8*k - 6) + 32 * At(8*k - 5) + 16 * At(8*k - 4)
                  + 8 * At(8*k - 3) + 4 * At(8*k - 2) + 2 * At(8*k - 1) + At(8*k)
  IN [k \in 1 .. (Len(bits) + 7) \div 8 |-> Octet(k)]

\* The n bits of every number of a sequence.
Bits(numbers, n) ==
  [i \in 1 .. n * Len(numbers) |->
     Bit(numbers[((i - 1) \div n) + 1], n - 1 - ((i - 1) % n))]

\* The chunk of bsize frames that begins with the given ones, as an Apple
\* Lossless decoder reads it: three bits for stereo, sixteen unused, one for
\* an explicit number of frames, two unused, one for uncompressed audio, the
\* number, then samples of sixteen bits.
Layout(input, bsize) ==
  LET sized == bsize # FullChunk
      Sample(k) ==
        LET f == (k + 1) \div 2  c == 2 * ((k + 1) % 2) IN
        IF f <= Len(input) THEN 256 * input[f][c + 2] + input[f][c + 1] ELSE 0
  IN Octets(<<0, 0, 1>> \o [i \in 1 .. 16 |-> 0]
            \o <<IF sized THEN 1 ELSE 0, 0, 0, 1>>
            \o (IF sized THEN <<0, 0>> \o Bits(<<bsize>>, 30) ELSE <<>>)
            \o IF input = <<>> THEN <<>>
               ELSE Bits([k \in 1 .. 2 * bsize |-> Sample(k)], 16))

\* A chunk is what an Apple Lossless decoder expects, whatever the buffer
\* held before: the frames read and silence up to the number announced, or a
\* bare header at the end of a song; so is the silence made by Open.
ChunkLayout ==
  /\ pc # "closed" =>
       silence = Layout([f \in 1 .. SmallChunk |-> <<0, 0, 0, 0>>], SmallChunk)
  /\ pc \in {"sent", "ended"} => chunk = Layout(frames, FullChunk)

\* An AirPort that knows the key, reads the vector from the description of
\* the session, and takes every packet by itself gets the chunk back: the
\* packet states its length, and every whole block is what AES makes of the
\* block of the chunk and the block before it.
PacketDecodes ==
  pc \in {"sent", "ended"} =>
    LET payload == SubSeq(packet, 17, Len(packet))
        n == Len(chunk) \div 16
        chain == SubSeq(Octets(Bits(aesiv, 6)), 1, 16) \o payload
    IN /\ packet[1] = 36
       /\ 256 * packet[3] + packet[4] + 4 = Len(packet)
       /\ Len(payload) = Len(chunk)
       /\ \A i \in 1 .. n :
            Block(payload, i) = Cipher(ctx.erk, ctx.nr, XorBytes(Block(chunk, i), Block(chain, i)))
       /\ SubSeq(payload, 16 * n + 1, Len(chunk)) = SubSeq(chunk, 16 * n + 1, Len(chunk))

\* The key of n bytes that goes on from the session's.
LongKey(n) == [i \in 1 .. n |-> (key[((i - 1) % 16) + 1] + 16 * ((i - 1) \div 16)) % 256]

\* What the program encodes and encrypts, its own functions decode and
\* decrypt: texts of every length, blocks under keys of every length; and
\* what it encrypts with the tables is what FIPS 197 makes of the block.
CodecsAgree ==
  pc = "opened" =>
    /\ \A n \in 0 .. 16 : Base64Decode(Base64Encode(SubSeq(iv, 1, n))) = {SubSeq(iv, 1, n)}
    /\ \A n \in {16, 24, 32} :
         LET nr == (n \div 4) + 6 IN
         \E RK \in {erk(LongKey(n))} : \E block \in {AesEncrypt(RK, nr, iv)} :
           /\ block = Cipher(RK, nr, iv)
           /\ AesDecrypt(RK, nr, block) = iv
=============================================================================
