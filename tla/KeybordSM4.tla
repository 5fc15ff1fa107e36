----------------------------- MODULE KeybordSM4 -----------------------------
(***************************************************************************)
(* The cipher of the custom keyboard: HGBKeybordSM4.c (SM4 in its ECB and  *)
(* CBC modes), HGBKeybordPading.c and their caller                         *)
(* HGBKeybordTTAlgorithmSM4.  The model encrypts a text and decrypts the   *)
(* result again, each under a context and buffers of its own, with one     *)
(* step for each iteration of the loops over rounds and blocks.            *)
(*                                                                         *)
(* A string of bits is the set of the positions that are 1, so that a byte *)
(* is a subset of 0..7 and an unsigned long one of 0..LongBits - 1.  Base  *)
(* 64 stands between the two calls and gives the bytes back as they were.  *)
(***************************************************************************)
EXTENDS Integers, Sequences

CONSTANTS
  LongBits,    \* width of an unsigned long: 64 (32 on the older devices)
  SboxTable,   \* the substitution of a byte
  FK, CK,      \* parameters of the key schedule
  Texts,       \* texts to encrypt: sequences of bytes that are not empty
  Keys, Ivs    \* keys and initialization vectors: 16 bytes

Byte == SUBSET (0..7)
Long == SUBSET (0..(LongBits - 1))
Block == [0..15 -> Byte]
NUL == {}

ASSUME KeybordAssumption ==
  /\ LongBits \in Nat /\ LongBits >= 32
  /\ SboxTable \in [Byte -> Byte]
  /\ FK \in [0..3 -> Long] /\ CK \in [0..31 -> Long]
  /\ \A text \in Texts : text \in Seq(Byte) /\ Len(text) > 0
  /\ Keys \subseteq Block /\ Ivs \subseteq Block

VARIABLES
  job,     \* the text, the mode, the key and the iv of the call
  dir,     \* which of the two calls runs
  at,      \* its loop: over the subkeys, or over blocks and their rounds
  i,       \* iterations of the loop over subkeys or rounds
  n,       \* blocks done
  k,       \* the key schedule
  sk,      \* ctx->sk, the subkeys
  ulbuf,   \* the words of the block at work
  iv,      \* the iv buffer of the call
  input,   \* its input buffer
  output,  \* its output buffer
  result,  \* the text decrypted
  plain, cipher, \* history: the padded text and its encryption
  schedule,      \* history: the key schedule of the encryption
  trace    \* history: the words of each block that was encrypted

vars == <<job, dir, at, i, n, k, sk, ulbuf, iv, input, output, result, plain,
          cipher, schedule, trace>>

-----------------------------------------------------------------------------
(* Words.                                                                  *)

Xor(a, b) == (a \ b) \cup (b \ a)
XorBlock(a, b) == [j \in 0..15 |-> Xor(a[j], b[j])]

\* The 32 bits of a long that PUT_ULONG_BE writes: no operation on longs but SHL
\* masks the bits above them.
Low(x) == x \cap 0..31

GET_ULONG_BE(b, j) == {m \in 0..31 : (m % 8) \in b[j + 3 - (m \div 8)]}
PUT_ULONG_BE(x) == [j \in 0..3 |-> {m \in 0..7 : 8 * (3 - j) + m \in x}]

SHL(x, s) == {m \in 0..(LongBits - 1) : m - s \in Low(x)}
ROTL(x, s) == SHL(x, s) \cup {m \in 0..(LongBits - 1) : m + (32 - s) \in x}

\* The four bytes of a long through sm4Sbox, as a long again.
Substituted(ka) ==
  LET a == PUT_ULONG_BE(ka)
  IN  GET_ULONG_BE([j \in 0..3 |-> SboxTable[a[j]]], 0)

\* (Here and below, a definition placed before another one with the same
\* parameters is a mutant of it: the bug a property of the run must catch.)
sm4LtShort(ka) ==
  LET bb == Substituted(ka)
  IN  Xor(Xor(Xor(bb, ROTL(bb, 2)), ROTL(bb, 10)), ROTL(bb, 18))
sm4Lt(ka) ==
  LET bb == Substituted(ka)
  IN  Xor(Xor(Xor(Xor(bb, ROTL(bb, 2)), ROTL(bb, 10)), ROTL(bb, 18)), ROTL(bb, 24))

sm4CalciRKFactored(ka) ==
  LET bb == Substituted(ka) IN Xor(bb, ROTL(Xor(bb, ROTL(bb, 10)), 13))
sm4CalciRK(ka) ==
  LET bb == Substituted(ka) IN Xor(Xor(bb, ROTL(bb, 13)), ROTL(bb, 23))

sm4F(x0, x1, x2, x3, rk) == Xor(x0, sm4Lt(Xor(Xor(Xor(x1, x2), x3), rk)))

-----------------------------------------------------------------------------
(* Padding.  A C string ends at its first NUL.                             *)

CLength(s) ==
  CHOOSE c \in 0..Len(s) :
    (\A j \in 1..c : s[j] # NUL) /\ (c < Len(s) => s[c + 1] = NUL)
CString(s) == SubSeq(s, 1, CLength(s))

Weight == <<1, 2, 4, 8, 16, 32, 64, 128>>
ToByte(x) == {m \in 0..7 : (x \div Weight[m + 1]) % 2 = 1}
ToNumber(b) ==
  LET Bit(m) == IF m \in b THEN Weight[m + 1] ELSE 0
  IN  Bit(0) + Bit(1) + Bit(2) + Bit(3) + Bit(4) + Bit(5) + Bit(6) + Bit(7)

\* Both loops of the copy stop at a NUL; the rest of the buffer stays zero.
padWhenNeeded(text) ==
  LET mod == (16 - (Len(text) % 16)) % 16
      c == CLength(text)
  IN  [j \in 1..(Len(text) + mod) |->
         IF j <= c THEN text[j] ELSE IF j <= c + mod THEN ToByte(mod) ELSE NUL]
padShort(text) ==
  LET mod == 15 - (Len(text) % 16)
      c == CLength(text)
  IN  [j \in 1..(Len(text) + mod) |->
         IF j <= c THEN text[j] ELSE IF j <= c + mod THEN ToByte(mod) ELSE NUL]
paddingForEncryption(text) ==
  LET mod == 16 - (Len(text) % 16)
      c == CLength(text)
  IN  [j \in 1..(Len(text) + mod) |->
         IF j <= c THEN text[j] ELSE IF j <= c + mod THEN ToByte(mod) ELSE NUL]

\* The last byte before the first NUL tells how many to take away.
unpaddingForDecryption(s) ==
  LET c == CLength(s) IN SubSeq(s, 1, c - ToNumber(s[c]))

-----------------------------------------------------------------------------
(* The calls.                                                              *)

BlockAt(s, m) == [j \in 0..15 |-> s[16 * m + j + 1]]
PutBlock(s, m, b) ==
  [j \in DOMAIN s |-> IF (j - 1) \div 16 = m THEN b[(j - 1) % 16] ELSE s[j]]
Zeros(s) == [j \in DOMAIN s |-> NUL]

\* sm4_setkey before its loop.
FirstKeys(key) ==
  [j \in 0..35 |-> IF j < 4 THEN Xor(GET_ULONG_BE(key, 4 * j), FK[j]) ELSE {}]

Init ==
  /\ job \in [text : Texts, mode : {"ECB", "CBC"}, key : Keys, iv : Ivs]
  /\ plain = paddingForEncryption(job.text)
  /\ dir = "encrypt" /\ at = "subkeys" /\ i = 0 /\ n = 0
  /\ k = FirstKeys(job.key)
  /\ sk = [j \in 0..31 |-> {}] /\ ulbuf = [j \in 0..35 |-> {}]
  /\ iv = job.iv
  /\ input = plain /\ output = Zeros(plain)
  /\ result = <<>> /\ cipher = <<>> /\ schedule = k
  /\ trace = [m \in {} |-> ulbuf]

Subkey ==
  /\ at = "subkeys" /\ i < 32
  /\ LET next == Xor(k[i], sm4CalciRK(Xor(Xor(Xor(k[i + 1], k[i + 2]), k[i + 3]), CK[i])))
     IN  /\ k' = [k EXCEPT ![i + 4] = next]
         /\ sk' = [sk EXCEPT ![i] = next]
  /\ i' = i + 1
  /\ UNCHANGED <<job, dir, at, n, ulbuf, iv, input, output, result, plain, cipher,
                 schedule, trace>>

\* The end of sm4_setkey, after which setkey_dec swaps the subkeys.
ReversedHalf == [j \in 0..31 |-> IF j \in {15, 16} THEN sk[j] ELSE sk[31 - j]]
Reversed == [j \in 0..31 |-> sk[31 - j]]
setkeyEnds ==
  /\ at = "subkeys" /\ i = 32
  /\ at' = "blocks"
  /\ sk' = IF dir = "decrypt" THEN Reversed ELSE sk
  /\ UNCHANGED <<job, dir, i, n, k, ulbuf, iv, input, output, result, plain, cipher,
                 schedule, trace>>

More == 16 * n < Len(input)
Chained == job.mode = "CBC"

\* The head of the loop over blocks and the four words sm4_one_round reads: with
\* CBC a block is combined with the iv before it is encrypted.
Begin ==
  /\ at = "blocks" /\ More
  /\ LET b == IF Chained /\ dir = "encrypt" THEN XorBlock(BlockAt(input, n), iv)
              ELSE BlockAt(input, n)
     IN  ulbuf' = [j \in 0..35 |-> IF j < 4 THEN GET_ULONG_BE(b, 4 * j) ELSE {}]
  /\ i' = 0 /\ at' = "rounds"
  /\ UNCHANGED <<job, dir, n, k, sk, iv, input, output, result, plain, cipher,
                 schedule, trace>>

Round ==
  /\ at = "rounds" /\ i < 32
  /\ ulbuf' = [ulbuf EXCEPT ![i + 4] =
                 sm4F(ulbuf[i], ulbuf[i + 1], ulbuf[i + 2], ulbuf[i + 3], sk[i])]
  /\ i' = i + 1
  /\ UNCHANGED <<job, dir, at, n, k, sk, iv, input, output, result, plain, cipher,
                 schedule, trace>>

\* What sm4_one_round writes: the last four words, in reverse.
Outcome == [j \in 0..15 |-> PUT_ULONG_BE(ulbuf[35 - j \div 4])[j % 4]]

\* The iv of the next block is the block of the cipher text, which for the
\* decryption is the one that was read.
IvKept == iv
IvFromOutput ==
  IF ~Chained THEN iv
  ELSE IF dir = "decrypt" THEN XorBlock(Outcome, iv) ELSE Outcome
NextIv ==
  IF ~Chained THEN iv
  ELSE IF dir = "encrypt" THEN Outcome ELSE BlockAt(input, n)

\* The tail of the loop: the block is written and the iv replaced.
End ==
  /\ at = "rounds" /\ i = 32
  /\ output' = PutBlock(output, n, IF Chained /\ dir = "decrypt" THEN XorBlock(Outcome, iv)
                                   ELSE Outcome)
  /\ iv' = NextIv
  /\ trace' = IF dir = "encrypt" THEN [m \in 0..n |-> IF m = n THEN ulbuf ELSE trace[m]]
              ELSE trace
  /\ n' = n + 1 /\ at' = "blocks"
  /\ UNCHANGED <<job, dir, i, k, sk, ulbuf, input, result, plain, cipher,
                 schedule>>

\* The text is encrypted and the second call begins with what the first returned.
encryptionReturns ==
  /\ at = "blocks" /\ ~More /\ dir = "encrypt"
  /\ cipher' = output /\ schedule' = k
  /\ dir' = "decrypt" /\ at' = "subkeys" /\ i' = 0 /\ n' = 0
  /\ k' = FirstKeys(job.key)
  /\ iv' = job.iv
  /\ input' = output /\ output' = Zeros(output)
  /\ UNCHANGED <<job, sk, ulbuf, result, plain, trace>>

decryptionReturns ==
  /\ at = "blocks" /\ ~More /\ dir = "decrypt"
  /\ result' = unpaddingForDecryption(output)
  /\ dir' = "done"
  /\ UNCHANGED <<job, at, i, n, k, sk, ulbuf, iv, input, output, plain, cipher,
                 schedule, trace>>

Next ==
  \/ Subkey \/ setkeyEnds \/ Begin \/ Round \/ End
  \/ encryptionReturns \/ decryptionReturns

Spec == Init /\ [][Next]_vars

-----------------------------------------------------------------------------
(* Properties.                                                             *)

\* The indices stay within the arrays of the code, and its buffers have the size
\* that malloc was asked for.
KeybordTypeOK ==
  /\ i \in 0..32 /\ n \in Nat /\ 16 * n <= Len(input)
  /\ Len(input) % 16 = 0 /\ DOMAIN output = DOMAIN input
  /\ k \in [0..35 -> Long] /\ ulbuf \in [0..35 -> Long]
  /\ sk \in [0..31 -> Long]
  /\ iv \in Block
  /\ input \in Seq(Byte) /\ output \in Seq(Byte) /\ result \in Seq(Byte)

\* A decryption meets, on its way through the rounds of a block, the words of the
\* encryption in reverse, although the bits above the 32nd differ.
RoundsAreRetraced ==
  dir = "decrypt" /\ at = "rounds" =>
    \A j \in 0..(i + 3) : Low(ulbuf[j]) = Low(trace[n][35 - j])

\* The blocks decrypted so far are those of the padded text.
BlocksSurvive ==
  dir = "decrypt" => \A m \in 0..(n - 1) : BlockAt(output, m) = BlockAt(plain, m)

\* Two blocks of the cipher text are equal exactly if what was enciphered is:
\* with CBC the block of the text combined with the block of the cipher text
\* before it, so that equal blocks of a text do not show.  (A mode that never
\* replaced its iv, on either side, would decrypt every text all the same.)
Enciphered(m) ==
  IF Chained
  THEN XorBlock(BlockAt(plain, m), IF m = 0 THEN job.iv ELSE BlockAt(output, m - 1))
  ELSE BlockAt(plain, m)
CipherIsOneToOne ==
  dir = "encrypt" =>
    \A a, b \in 0..(n - 1) :
      BlockAt(output, a) = BlockAt(output, b) <=> Enciphered(a) = Enciphered(b)

\* A text comes back from its encryption, up to the first NUL it contains,
\* whatever its length is to the size of a block.
TextSurvives == dir = "done" => result = CString(job.text)

=============================================================================
