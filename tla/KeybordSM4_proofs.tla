------------------------- MODULE KeybordSM4_proofs -------------------------
(***************************************************************************)
(* Whatever the tables, the key, the iv and the text are, the decryption   *)
(* of KeybordSM4 undoes the encryption.  The invariant describes what the  *)
(* encryption leaves for the decryption to find: the words of every block  *)
(* it enciphered are kept in trace, and follow from each other by rounds   *)
(* under the subkeys of the key schedule.  The decryption computes the     *)
(* same schedule and takes the rounds in the reverse order.  The width of  *)
(* the words does not matter either: the program with words of 64 bits     *)
(* implements the one with words of 32.                                    *)
(***************************************************************************)
EXTENDS KeybordWords_proofs

-----------------------------------------------------------------------------
(* The inductive invariant.                                                *)

Jobs == [text : Texts, mode : {"ECB", "CBC"}, key : Keys, iv : Ivs]

TypeInv ==
  /\ job \in Jobs
  /\ dir \in {"encrypt", "decrypt", "done"} /\ at \in {"subkeys", "blocks", "rounds"}
  /\ i \in 0..32 /\ n \in Nat /\ 16 * n <= Len(plain)
  /\ plain = paddingForEncryption(job.text)
  /\ plain \in Seq(Byte) /\ Len(plain) % 16 = 0
  /\ input \in Seq(Byte) /\ Len(input) = Len(plain)
  /\ output \in Seq(Byte) /\ Len(output) = Len(plain)
  /\ k \in [0..35 -> Long] /\ ulbuf \in [0..35 -> Long] /\ sk \in [0..31 -> Long]
  /\ iv \in Block

\* Where the calls stand.
PlaceInv ==
  /\ at = "subkeys" => n = 0 /\ dir # "done"
  /\ at = "rounds" => 16 * n < Len(plain) /\ dir # "done"
  /\ dir = "done" => at = "blocks" /\ ~ (16 * n < Len(plain))
  /\ input = IF dir = "encrypt" THEN plain ELSE cipher
  /\ dir = "encrypt" => DOMAIN trace = 0..(n - 1)

\* The first c keys of a key schedule after its first four.
Scheduled(kk, c) ==
  /\ \A j \in 0..3 : kk[j] = FirstKeys(job.key)[j]
  /\ \A j \in 0..(c - 1) :
       kk[j + 4] = Xor(kk[j], sm4CalciRK(Xor(Xor(Xor(kk[j + 1], kk[j + 2]), kk[j + 3]), CK[j])))

\* The decryption computes the keys of the encryption, and takes them in reverse.
KeyInv ==
  /\ Scheduled(k, IF at = "subkeys" THEN i ELSE 32)
  /\ at = "subkeys" => \A j \in 0..(i - 1) : sk[j] = k[j + 4]
  /\ at # "subkeys" => \A j \in 0..31 : sk[j] = IF dir = "encrypt" THEN k[j + 4] ELSE k[35 - j]
  /\ dir # "encrypt" =>
       /\ Scheduled(schedule, 32)
       /\ \A j \in 0..(IF at = "subkeys" THEN i + 3 ELSE 35) : k[j] = schedule[j]

\* What block m is combined with, and what is enciphered, given the blocks c so far.
Previous(c, m) == IF m = 0 THEN job.iv ELSE BlockAt(c, m - 1)
Source(c, m) ==
  IF Chained THEN XorBlock(BlockAt(plain, m), Previous(c, m)) ELSE BlockAt(plain, m)

StartsWith(u, b) == \A j \in 0..3 : u[j] = GET_ULONG_BE(b, 4 * j)
Rounds(u, c, kk) ==
  \A j \in 0..(c - 1) : u[j + 4] = sm4F(u[j], u[j + 1], u[j + 2], u[j + 3], kk[j + 4])

\* The words u tell how block m became the one in c.
Traced(u, c, kk, m) ==
  /\ StartsWith(u, Source(c, m))
  /\ Rounds(u, 32, kk)
  /\ BlockAt(c, m) = OutcomeOf(u)

ChainInv == Chained => iv = Previous(IF dir = "encrypt" THEN output ELSE cipher, n)

TraceInv ==
  /\ dir = "encrypt" => \A m \in 0..(n - 1) : Traced(trace[m], output, k, m)
  /\ dir # "encrypt" => \A m \in Nat : 16 * m < Len(plain) => Traced(trace[m], cipher, schedule, m)
  /\ dir = "encrypt" /\ at = "rounds" =>
       StartsWith(ulbuf, Source(output, n)) /\ Rounds(ulbuf, i, k)

IInv ==
  /\ TypeInv /\ PlaceInv /\ KeyInv /\ ChainInv /\ TraceInv
  /\ RoundsAreRetraced /\ BlocksSurvive
  /\ TextSurvives /\ result \in Seq(Byte)

-----------------------------------------------------------------------------
(* Facts about one state.                                                  *)

LEMMA JobType ==
  ASSUME job \in Jobs
  PROVE  /\ job.text \in Seq(Byte) /\ job.key \in Block /\ job.iv \in Block
BY KeybordAssumption DEF KeybordAssumption, Jobs

LEMMA FirstKeysType == ASSUME NEW key PROVE FirstKeys(key) \in [0..35 -> Long]
<1>1. \A j \in 0..3 : Xor(GET_ULONG_BE(key, 4 * j), FK[j]) \in Long
  BY GetType, XorLong, KeybordAssumption DEF KeybordAssumption
<1>2. {} \in Long
  BY DEF Long
<1> QED BY <1>1, <1>2 DEF FirstKeys

LEMMA LengthType == ASSUME TypeInv PROVE i \in 0..32 /\ Len(plain) \in Nat /\ n \in Nat
<1>1. plain \in Seq(Byte) /\ i \in 0..32 /\ n \in Nat
  BY DEF TypeInv
<1> QED BY <1>1

\* A block that remains lies within the buffers.
LEMMA BlockWithin ==
  ASSUME TypeInv, NEW m \in Nat, 16 * m < Len(plain)
  PROVE  /\ 16 * m + 16 <= Len(plain)
         /\ BlockAt(plain, m) \in Block /\ BlockAt(input, m) \in Block
         /\ BlockAt(output, m) \in Block
<1>1. 16 * m + 16 <= Len(plain)
  <2>0. plain \in Seq(Byte) /\ Len(plain) % 16 = 0
    BY DEF TypeInv
  <2>1. Len(plain) \in Nat /\ Len(plain) % 16 = 0
    BY <2>0
  <2>2. PICK q \in Nat : Len(plain) = 16 * q
    BY <2>1
  <2> QED BY <2>2
<1> QED BY <1>1, BlockAtType DEF TypeInv

\* What is enciphered is a block, if what precedes it is one.
LEMMA SourceType ==
  ASSUME TypeInv, NEW c, NEW m \in Nat, 16 * m < Len(plain), Previous(c, m) \in Block
  PROVE  Source(c, m) \in Block
BY BlockWithin, XorBlockType DEF Source

\* The blocks so far tell what precedes a block.
LEMMA PreviousType ==
  ASSUME TypeInv, NEW c \in Seq(Byte), Len(c) = Len(plain), NEW m \in Nat,
         16 * m <= Len(plain)
  PROVE  Previous(c, m) \in Block
<1>1. CASE m = 0
  BY <1>1, JobType DEF Previous, TypeInv
<1>2. CASE m # 0
  <2>1. m - 1 \in Nat /\ 16 * (m - 1) + 16 <= Len(c)
    BY <1>2
  <2> QED BY <1>2, <2>1, BlockAtType DEF Previous
<1> QED BY <1>1, <1>2

LEMMA OutcomeIs == Outcome = OutcomeOf(ulbuf)
BY DEF Outcome, OutcomeOf

-----------------------------------------------------------------------------
(* The initial states.                                                     *)

LEMMA InitHolds == Init => IInv
<1> SUFFICES ASSUME Init PROVE IInv
  OBVIOUS
<1> USE DEF Init
<1>1. job \in Jobs
  BY DEF Jobs
<1>2. plain \in Seq(Byte) /\ Len(plain) % 16 = 0
  BY <1>1, JobType, PaddedText
<1>3. output \in Seq(Byte) /\ Len(output) = Len(plain)
  BY <1>2, ZerosType
<1>4. k \in [0..35 -> Long] /\ ulbuf \in [0..35 -> Long] /\ sk \in [0..31 -> Long]
  BY FirstKeysType DEF Long
<1>5. TypeInv
  <2>1. Len(plain) \in Nat
    BY ONLY <1>2
  <2>2. i \in 0..32 /\ n \in Nat /\ 16 * n <= Len(plain)
    BY <2>1
  <2>3. iv \in Block
    BY <1>1, JobType
  <2>4. plain = paddingForEncryption(job.text) /\ input = plain
    OBVIOUS
  <2>5. dir \in {"encrypt", "decrypt", "done"} /\ at \in {"subkeys", "blocks", "rounds"}
    OBVIOUS
  <2> QED BY ONLY <1>1, <1>2, <1>3, <1>4, <2>2, <2>3, <2>4, <2>5 DEF TypeInv
<1>6. PlaceInv
  BY DEF PlaceInv
<1>7. KeyInv
  BY DEF KeyInv, Scheduled
<1>8. ChainInv
  BY DEF ChainInv, Previous
<1>9. TraceInv
  BY DEF TraceInv
<1>10. RoundsAreRetraced /\ BlocksSurvive /\ TextSurvives /\ result \in Seq(Byte)
  BY DEF RoundsAreRetraced, BlocksSurvive, TextSurvives
<1> QED BY <1>5, <1>6, <1>7, <1>8, <1>9, <1>10 DEF IInv

-----------------------------------------------------------------------------
(* The types, one action after the other.                                  *)

LEMMA TypeStep == TypeInv /\ PlaceInv /\ [Next]_vars => TypeInv'
<1> SUFFICES ASSUME TypeInv, PlaceInv, [Next]_vars PROVE TypeInv'
  OBVIOUS
<1>0. i \in 0..32 /\ Len(plain) \in Nat
  BY LengthType
<1> USE DEF TypeInv
<1>1. CASE Subkey
  <2>1. k' \in [0..35 -> Long] /\ sk' \in [0..31 -> Long]
    <3> DEFINE next == Xor(k[i], sm4CalciRK(Xor(Xor(Xor(k[i + 1], k[i + 2]), k[i + 3]), CK[i])))
    <3>0. i \in 0..31
      <4>1. i < 32
        BY <1>1 DEF Subkey
      <4> QED BY ONLY <1>0, <4>1
    <3>1. i \in 0..31 /\ k[i] \in Long
      <4>1. k \in [0..35 -> Long]
        OBVIOUS
      <4> QED BY ONLY <3>0, <4>1
    <3>2. next \in Long
      BY <3>1, RKType, XorLong
    <3>3. k' = [k EXCEPT ![i + 4] = next] /\ sk' = [sk EXCEPT ![i] = next]
      BY <1>1 DEF Subkey
    <3> HIDE DEF next
    <3> QED BY <3>1, <3>2, <3>3
  <2>2. i' \in 0..32
    BY <1>1 DEF Subkey
  <2> QED BY <1>1, <2>1, <2>2 DEF Subkey
<1>2. CASE setkeyEnds
  <2>1. sk' \in [0..31 -> Long]
    <3>1. Reversed \in [0..31 -> Long]
      BY DEF Reversed
    <3> QED BY <1>2, <3>1 DEF setkeyEnds
  <2> QED BY <1>2, <2>1 DEF setkeyEnds
<1>3. CASE Begin
  <2>1. ulbuf' \in [0..35 -> Long]
    <3>1. {} \in Long
      BY DEF Long
    <3> QED BY <1>3, <3>1, GetType DEF Begin
  <2> QED BY <1>3, <2>1 DEF Begin
<1>4. CASE Round
  <2>1. ulbuf' \in [0..35 -> Long]
    <3>0. i \in 0..31
      <4>1. i < 32
        BY <1>4 DEF Round
      <4> QED BY ONLY <1>0, <4>1
    <3>1. i \in 0..31 /\ ulbuf[i] \in Long
      <4>1. ulbuf \in [0..35 -> Long]
        OBVIOUS
      <4> QED BY ONLY <3>0, <4>1
    <3>2. sm4F(ulbuf[i], ulbuf[i + 1], ulbuf[i + 2], ulbuf[i + 3], sk[i]) \in Long
      BY <3>1, FType
    <3> QED BY <1>4, <3>1, <3>2 DEF Round
  <2>2. i' \in 0..32
    BY <1>4 DEF Round
  <2> QED BY <1>4, <2>1, <2>2 DEF Round
<1>5. CASE End
  <2>1. 16 * n < Len(plain) /\ n \in Nat
    BY <1>5 DEF End, PlaceInv
  <2>2. Outcome \in Block /\ BlockAt(input, n) \in Block
    BY <2>1, BlockWithin, OutcomeIs, OutcomeType
  <2>3. XorBlock(Outcome, iv) \in Block
    BY <2>2, XorBlockType
  <2>4. output' \in Seq(Byte) /\ Len(output') = Len(output)
    BY <1>5, <2>1, <2>2, <2>3, PutBlockType DEF End
  <2>5. iv' \in Block
    BY <1>5, <2>2 DEF End, NextIv, TypeInv
  <2>6. n' \in Nat /\ 16 * n' <= Len(plain)
    <3>1. 16 * n + 16 <= Len(plain) /\ n' = n + 1
      BY <1>5, <2>1, BlockWithin DEF End
    <3> QED BY <2>1, <3>1
  <2> QED BY <1>5, <2>4, <2>5, <2>6 DEF End
<1>6. CASE encryptionReturns
  <2>1. output' \in Seq(Byte) /\ Len(output') = Len(output)
    <3>1. output \in Seq(Byte) /\ output' = Zeros(output)
      BY <1>6 DEF encryptionReturns
    <3> QED BY <3>1, ZerosType
  <2>2. k' \in [0..35 -> Long] /\ iv' \in Block
    BY <1>6, FirstKeysType, JobType DEF encryptionReturns
  <2>3. n' \in Nat /\ 16 * n' <= Len(plain) /\ i' \in 0..32
    <3>1. n' = 0 /\ i' = 0
      BY <1>6 DEF encryptionReturns
    <3> QED BY ONLY <1>0, <3>1
  <2> QED BY <1>6, <2>1, <2>2, <2>3 DEF encryptionReturns
<1>7. CASE decryptionReturns
  BY <1>7 DEF decryptionReturns
<1>8. CASE UNCHANGED vars
  BY <1>8 DEF vars
<1> QED BY <1>1, <1>2, <1>3, <1>4, <1>5, <1>6, <1>7, <1>8 DEF Next

\* The calls stand where they should.
LEMMA PlaceStep == TypeInv /\ PlaceInv /\ [Next]_vars => PlaceInv'
<1> SUFFICES ASSUME TypeInv, PlaceInv, [Next]_vars PROVE PlaceInv'
  OBVIOUS
<1>0. Len(input) = Len(plain) /\ dir \in {"encrypt", "decrypt", "done"} /\ n \in Nat
  BY DEF TypeInv
<1> USE DEF PlaceInv
<1>1. CASE Subkey
  BY <1>1 DEF Subkey
<1>2. CASE setkeyEnds
  BY <1>2 DEF setkeyEnds
<1>3. CASE Begin
  BY <1>0, <1>3 DEF Begin, More
<1>4. CASE Round
  BY <1>4 DEF Round
<1>5. CASE End
  BY <1>0, <1>5 DEF End
<1>6. CASE encryptionReturns
  BY <1>6 DEF encryptionReturns
<1>7. CASE decryptionReturns
  BY <1>0, <1>7 DEF decryptionReturns, More
<1>8. CASE UNCHANGED vars
  BY <1>8 DEF vars
<1> QED BY <1>1, <1>2, <1>3, <1>4, <1>5, <1>6, <1>7, <1>8 DEF Next

\* The decryption computes the key schedule of the encryption.
LEMMA KeyStep == TypeInv /\ PlaceInv /\ KeyInv /\ [Next]_vars => KeyInv'
<1> SUFFICES ASSUME TypeInv, PlaceInv, KeyInv, [Next]_vars PROVE KeyInv'
  OBVIOUS
<1>0. i \in 0..32 /\ k \in [0..35 -> Long] /\ sk \in [0..31 -> Long]
  BY DEF TypeInv
<1>1. CASE Subkey
  <2> DEFINE next == Xor(k[i], sm4CalciRK(Xor(Xor(Xor(k[i + 1], k[i + 2]), k[i + 3]), CK[i])))
  <2>1. /\ at = "subkeys" /\ i < 32 /\ i' = i + 1
        /\ k' = [k EXCEPT ![i + 4] = next] /\ sk' = [sk EXCEPT ![i] = next]
        /\ UNCHANGED <<job, at, dir, schedule>>
    BY <1>1 DEF Subkey
  <2>2. i \in 0..31
    BY ONLY <1>0, <2>1
  <2> HIDE DEF next
  <2>3. /\ k'[i + 4] = next /\ \A j \in 0..(i + 3) : k'[j] = k[j]
        /\ sk'[i] = next /\ \A j \in 0..(i - 1) : sk'[j] = sk[j]
    BY ONLY <1>0, <2>1, <2>2
  <2>4. Scheduled(k, i) /\ \A j \in 0..(i - 1) : sk[j] = k[j + 4]
    BY <2>1 DEF KeyInv
  <2>5. Scheduled(k, i)'
    <3>1. \A j \in 0..3 : k'[j] = FirstKeys(job.key)[j]
      BY <2>2, <2>3, <2>4 DEF Scheduled
    <3>2. \A j \in 0..i :
            k'[j + 4] = Xor(k'[j], sm4CalciRK(Xor(Xor(Xor(k'[j + 1], k'[j + 2]), k'[j + 3]), CK[j])))
      <4> TAKE j \in 0..i
      <4>1. k'[j] = k[j] /\ k'[j + 1] = k[j + 1] /\ k'[j + 2] = k[j + 2] /\ k'[j + 3] = k[j + 3]
        BY <2>2, <2>3
      <4>2. CASE j = i
        BY <2>3, <4>1, <4>2 DEF next
      <4>3. CASE j # i
        <5>1. j \in 0..(i - 1) /\ j + 4 \in 0..(i + 3)
          BY <2>2, <4>3
        <5> QED BY <2>3, <2>4, <4>1, <5>1 DEF Scheduled
      <4> QED BY <4>2, <4>3
    <3> QED BY <2>1, <2>2, <3>1, <3>2 DEF Scheduled
  <2>6. \A j \in 0..(i' - 1) : sk'[j] = k'[j + 4]
    BY <2>1, <2>2, <2>3, <2>4
  <2>7. ASSUME dir # "encrypt"
        PROVE  Scheduled(schedule, 32)' /\ \A j \in 0..(i' + 3) : k'[j] = schedule'[j]
    <3>1. Scheduled(schedule, 32) /\ \A j \in 0..(i + 3) : k[j] = schedule[j]
      BY <2>1, <2>7 DEF KeyInv
    <3>2. schedule[i + 4] = next
      <4>1. k[i] = schedule[i] /\ k[i + 1] = schedule[i + 1] /\ k[i + 2] = schedule[i + 2]
            /\ k[i + 3] = schedule[i + 3]
        BY <2>2, <3>1
      <4> QED BY <2>2, <3>1, <4>1 DEF Scheduled, next
    <3>3. \A j \in 0..(i + 4) : k'[j] = schedule[j]
      BY <2>2, <2>3, <3>1, <3>2
    <3> QED BY <2>1, <2>2, <3>1, <3>3 DEF Scheduled
  <2> QED BY <2>1, <2>5, <2>6, <2>7 DEF KeyInv
<1>2. CASE setkeyEnds
  <2>1. /\ at = "subkeys" /\ i = 32 /\ at' = "blocks" /\ UNCHANGED <<job, dir, i, k, schedule>>
        /\ dir \in {"encrypt", "decrypt"}
        /\ sk' = IF dir = "decrypt" THEN Reversed ELSE sk
    BY <1>2 DEF setkeyEnds, PlaceInv, TypeInv
  <2>2. Scheduled(k, 32) /\ \A j \in 0..31 : sk[j] = k[j + 4]
    BY <2>1 DEF KeyInv
  <2>3. \A j \in 0..31 : Reversed[j] = k[35 - j]
    <3> TAKE j \in 0..31
    <3>1. 31 - j \in 0..31 /\ (31 - j) + 4 = 35 - j
      OBVIOUS
    <3>2. Reversed[j] = sk[31 - j]
      BY DEF Reversed
    <3> QED BY <2>2, <3>1, <3>2
  <2>4. dir # "encrypt" => Scheduled(schedule, 32) /\ \A j \in 0..35 : k[j] = schedule[j]
    BY <2>1 DEF KeyInv
  <2> QED BY <2>1, <2>2, <2>3, <2>4 DEF KeyInv, Scheduled
<1>3. CASE Begin
  BY <1>3 DEF Begin, KeyInv, Scheduled
<1>4. CASE Round
  BY <1>4 DEF Round, KeyInv, Scheduled
<1>5. CASE End
  BY <1>5 DEF End, KeyInv, Scheduled
<1>6. CASE encryptionReturns
  <2>1. /\ at = "blocks" /\ dir = "encrypt" /\ schedule' = k /\ k' = FirstKeys(job.key)
        /\ dir' = "decrypt" /\ at' = "subkeys" /\ i' = 0 /\ job' = job
    BY <1>6 DEF encryptionReturns
  <2>2. Scheduled(k, 32)
    BY <2>1 DEF KeyInv
  <2> QED BY <2>1, <2>2 DEF KeyInv, Scheduled
<1>7. CASE decryptionReturns
  BY <1>7 DEF decryptionReturns, KeyInv, Scheduled
<1>8. CASE UNCHANGED vars
  BY <1>8 DEF vars, KeyInv, Scheduled
<1> QED BY <1>1, <1>2, <1>3, <1>4, <1>5, <1>6, <1>7, <1>8 DEF Next

\* What the end of a block leaves in the output buffer.
LEMMA EndPuts ==
  ASSUME TypeInv, PlaceInv, End
  PROVE  \E b \in Block :
           /\ 16 * n < Len(plain) /\ n \in Nat
           /\ b = IF Chained /\ dir = "decrypt" THEN XorBlock(OutcomeOf(ulbuf), iv)
                  ELSE OutcomeOf(ulbuf)
           /\ BlockAt(output', n) = b
           /\ \A m \in 0..(n - 1) : BlockAt(output', m) = BlockAt(output, m)
<1> DEFINE b == IF Chained /\ dir = "decrypt" THEN XorBlock(OutcomeOf(ulbuf), iv)
                ELSE OutcomeOf(ulbuf)
<1>1. 16 * n < Len(plain) /\ n \in Nat /\ output' = PutBlock(output, n, b)
  BY OutcomeIs DEF End, PlaceInv, TypeInv
<1>2. b \in Block
  BY OutcomeType, XorBlockType DEF TypeInv
<1>3. 16 * n + 16 <= Len(output) /\ output \in Seq(Byte)
  BY <1>1, BlockWithin DEF TypeInv
<1> HIDE DEF b
<1>4. BlockAt(output', n) = b
  BY <1>1, <1>2, <1>3, BlockPut
<1>5. \A m \in 0..(n - 1) : BlockAt(output', m) = BlockAt(output, m)
  <2> TAKE m \in 0..(n - 1)
  <2>1. m \in Nat /\ m # n /\ 16 * m + 16 <= Len(output)
    BY ONLY <1>1, <1>3
  <2> QED BY <1>1, <1>2, <1>3, <2>1, BlockPut
<1> QED BY <1>1, <1>2, <1>4, <1>5 DEF b

\* The iv buffer holds what the next block is combined with.
LEMMA ChainStep == TypeInv /\ PlaceInv /\ ChainInv /\ [Next]_vars => ChainInv'
<1> SUFFICES ASSUME TypeInv, PlaceInv, ChainInv, [Next]_vars PROVE ChainInv'
  OBVIOUS
<1> USE DEF ChainInv, Chained, Previous
<1>1. CASE Subkey
  BY <1>1 DEF Subkey
<1>2. CASE setkeyEnds
  BY <1>2 DEF setkeyEnds
<1>3. CASE Begin
  BY <1>3 DEF Begin
<1>4. CASE Round
  BY <1>4 DEF Round
<1>5. CASE End
  <2>1. PICK b \in Block :
          /\ b = IF Chained /\ dir = "decrypt" THEN XorBlock(OutcomeOf(ulbuf), iv)
                 ELSE OutcomeOf(ulbuf)
          /\ BlockAt(output', n) = b
    BY <1>5, EndPuts
  <2>2. n \in Nat /\ n' = n + 1 /\ n' # 0 /\ n' - 1 = n
    BY <1>5, LengthType DEF End
  <2>3. dir \in {"encrypt", "decrypt"} /\ input = IF dir = "encrypt" THEN plain ELSE cipher
    BY <1>5 DEF End, PlaceInv, TypeInv
  <2>4. /\ iv' = IF ~Chained THEN iv
                 ELSE IF dir = "encrypt" THEN OutcomeOf(ulbuf) ELSE BlockAt(input, n)
        /\ UNCHANGED <<job, dir, cipher>>
    BY <1>5, OutcomeIs DEF End, NextIv
  <2> QED BY <2>1, <2>2, <2>3, <2>4
<1>6. CASE encryptionReturns
  BY <1>6 DEF encryptionReturns
<1>7. CASE decryptionReturns
  BY <1>7 DEF decryptionReturns
<1>8. CASE UNCHANGED vars
  BY <1>8 DEF vars
<1> QED BY <1>1, <1>2, <1>3, <1>4, <1>5, <1>6, <1>7, <1>8 DEF Next

-----------------------------------------------------------------------------
(* What the encryption leaves.                                             *)

\* What is known of a block does not change with the blocks put after it.
LEMMA SourceKept ==
  ASSUME NEW c, NEW d, NEW m \in Nat, \A o \in 0..(m - 1) : BlockAt(d, o) = BlockAt(c, o)
  PROVE  Source(d, m) = Source(c, m)
<1>1. m # 0 => m - 1 \in 0..(m - 1)
  OBVIOUS
<1> QED BY <1>1 DEF Source, Previous

LEMMA TracedKept ==
  ASSUME NEW u, NEW c, NEW d, NEW kk, NEW m \in Nat, Traced(u, c, kk, m),
         \A o \in 0..m : BlockAt(d, o) = BlockAt(c, o)
  PROVE  Traced(u, d, kk, m)
<1>1. m \in 0..m /\ 0..(m - 1) \subseteq 0..m
  OBVIOUS
<1>2. Source(d, m) = Source(c, m)
  BY <1>1, SourceKept
<1> QED BY <1>1, <1>2 DEF Traced

\* While the job and the padded text stay, these are facts about the buffers.
LEMMA StaysTraced ==
  ASSUME job' = job, plain' = plain
  PROVE  /\ \A m : Traced(trace[m], output, k, m)' <=> Traced(trace'[m], output', k', m)
         /\ \A m : Traced(trace[m], cipher, schedule, m)'
                     <=> Traced(trace'[m], cipher', schedule', m)
         /\ (StartsWith(ulbuf, Source(output, n)) /\ Rounds(ulbuf, i, k))'
              <=> StartsWith(ulbuf', Source(output', n')) /\ Rounds(ulbuf', i', k')
BY DEF Traced, Source, Previous, Chained, StartsWith, Rounds

\* The words of the blocks enciphered so far are kept, and tell how they became what
\* the output holds.
LEMMA TraceStep ==
  TypeInv /\ PlaceInv /\ KeyInv /\ ChainInv /\ TraceInv /\ [Next]_vars => TraceInv'
<1> SUFFICES ASSUME TypeInv, PlaceInv, KeyInv, ChainInv, TraceInv, [Next]_vars
             PROVE  TraceInv'
  OBVIOUS
<1>0. job' = job /\ plain' = plain
  BY DEF Next, vars, Subkey, setkeyEnds, Begin, Round, End, encryptionReturns,
         decryptionReturns
<1> DEFINE Ciphering == \A m \in 0..(n' - 1) : Traced(trace'[m], output', k', m)
           Ciphered == \A m \in Nat : 16 * m < Len(plain) =>
                         Traced(trace'[m], cipher', schedule', m)
           Turning == StartsWith(ulbuf', Source(output', n')) /\ Rounds(ulbuf', i', k')
<1> SUFFICES /\ dir' = "encrypt" => Ciphering
             /\ dir' # "encrypt" => Ciphered
             /\ dir' = "encrypt" /\ at' = "rounds" => Turning
  BY <1>0, StaysTraced DEF TraceInv
<1>t. i \in 0..32 /\ n \in Nat /\ Len(plain) \in Nat
  BY LengthType
<1>1. CASE Subkey
  <2>1. dir' = dir /\ n' = 0 /\ at' # "rounds" /\ UNCHANGED <<trace, cipher, schedule>>
    BY <1>1 DEF Subkey, PlaceInv
  <2> QED BY <2>1 DEF TraceInv
<1>2. CASE setkeyEnds
  BY <1>2 DEF setkeyEnds, TraceInv
<1>3. CASE Begin
  <2>1. /\ at' = "rounds" /\ i' = 0
        /\ UNCHANGED <<dir, n, output, k, trace, cipher, schedule>>
    BY <1>3 DEF Begin
  <2>2. ASSUME dir = "encrypt"
        PROVE  Turning
    <3>1. input = plain /\ (Chained => iv = Previous(output, n))
      BY <2>2 DEF PlaceInv, ChainInv
    <3>2. ulbuf' = [j \in 0..35 |-> IF j < 4 THEN GET_ULONG_BE(Source(output, n), 4 * j) ELSE {}]
      BY <1>3, <2>2, <3>1 DEF Begin, Source
    <3> QED BY <2>1, <3>2 DEF StartsWith, Rounds
  <2> QED BY <2>1, <2>2 DEF TraceInv
<1>4. CASE Round
  <2>1. /\ at = "rounds" /\ at' = "rounds" /\ i' = i + 1 /\ i < 32
        /\ UNCHANGED <<dir, n, output, k, trace, cipher, schedule>>
    BY <1>4 DEF Round
  <2>2. i \in 0..31
    BY ONLY <1>t, <2>1
  <2>3. ASSUME dir = "encrypt"
        PROVE  Turning
    <3> DEFINE next == sm4F(ulbuf[i], ulbuf[i + 1], ulbuf[i + 2], ulbuf[i + 3], sk[i])
    <3>1. StartsWith(ulbuf, Source(output, n)) /\ Rounds(ulbuf, i, k)
      BY <2>1, <2>3 DEF TraceInv
    <3>2. sk[i] = k[i + 4]
      BY <2>1, <2>2, <2>3 DEF KeyInv
    <3>3. ulbuf \in [0..35 -> Long] /\ ulbuf' = [ulbuf EXCEPT ![i + 4] = next]
      BY <1>4 DEF Round, TypeInv
    <3> HIDE DEF next
    <3>4. ulbuf'[i + 4] = next /\ \A j \in 0..(i + 3) : ulbuf'[j] = ulbuf[j]
      BY ONLY <2>2, <3>3
    <3>5. StartsWith(ulbuf', Source(output, n))
      BY <2>2, <3>1, <3>4 DEF StartsWith
    <3>6. Rounds(ulbuf', i + 1, k)
      <4> SUFFICES ASSUME NEW j \in 0..i
                   PROVE  ulbuf'[j + 4] = sm4F(ulbuf'[j], ulbuf'[j + 1], ulbuf'[j + 2],
                                               ulbuf'[j + 3], k[j + 4])
        BY <2>2 DEF Rounds
      <4>1. /\ ulbuf'[j] = ulbuf[j] /\ ulbuf'[j + 1] = ulbuf[j + 1]
            /\ ulbuf'[j + 2] = ulbuf[j + 2] /\ ulbuf'[j + 3] = ulbuf[j + 3]
        BY <2>2, <3>4
      <4>2. CASE j = i
        BY <3>2, <3>4, <4>1, <4>2 DEF next
      <4>3. CASE j # i
        <5>1. j \in 0..(i - 1) /\ j + 4 \in 0..(i + 3)
          BY <2>2, <4>3
        <5> QED BY <3>1, <3>4, <4>1, <5>1 DEF Rounds
      <4> QED BY <4>2, <4>3
    <3> QED BY <2>1, <3>5, <3>6
  <2> QED BY <2>1, <2>3 DEF TraceInv
<1>5. CASE End
  <2>1. /\ at = "rounds" /\ i = 32 /\ at' = "blocks" /\ n' = n + 1
        /\ trace' = IF dir = "encrypt" THEN [m \in 0..n |-> IF m = n THEN ulbuf ELSE trace[m]]
                    ELSE trace
        /\ UNCHANGED <<dir, k, cipher, schedule>>
    BY <1>5 DEF End
  <2>2. ASSUME dir = "encrypt"
        PROVE  Ciphering
    <3>1. /\ BlockAt(output', n) = OutcomeOf(ulbuf)
          /\ \A m \in 0..(n - 1) : BlockAt(output', m) = BlockAt(output, m)
      BY <1>5, <2>2, EndPuts
    <3>2. /\ \A m \in 0..(n - 1) : Traced(trace[m], output, k, m)
          /\ StartsWith(ulbuf, Source(output, n)) /\ Rounds(ulbuf, 32, k)
      BY <2>1, <2>2 DEF TraceInv
    <3>3. trace'[n] = ulbuf /\ \A m \in 0..(n - 1) : trace'[m] = trace[m]
      <4>1. trace' = [m \in 0..n |-> IF m = n THEN ulbuf ELSE trace[m]]
        BY <2>1, <2>2
      <4> QED BY ONLY <1>t, <4>1
    <3>4. Traced(trace'[n], output', k, n)
      <4>1. Source(output', n) = Source(output, n)
        BY <1>t, <3>1, SourceKept
      <4> QED BY <3>1, <3>2, <3>3, <4>1 DEF Traced
    <3>5. ASSUME NEW m \in 0..(n - 1)
          PROVE  Traced(trace'[m], output', k, m)
      <4>1. m \in Nat /\ 0..m \subseteq 0..(n - 1)
        BY <1>t
      <4>2. Traced(trace'[m], output, k, m)
        BY <3>2, <3>3
      <4> QED BY <3>1, <4>1, <4>2, TracedKept
    <3>6. \A m \in 0..(n' - 1) : m = n \/ m \in 0..(n - 1)
      BY <1>t, <2>1
    <3> QED BY <2>1, <3>4, <3>5, <3>6
  <2> QED BY <2>1, <2>2 DEF TraceInv
<1>6. CASE encryptionReturns
  <2>1. /\ dir = "encrypt" /\ ~ (16 * n < Len(plain)) /\ dir' = "decrypt"
        /\ cipher' = output /\ schedule' = k /\ trace' = trace
    BY <1>6 DEF encryptionReturns, More, TypeInv
  <2>2. ASSUME NEW m \in Nat, 16 * m < Len(plain)
        PROVE  m \in 0..(n - 1)
    BY ONLY <1>t, <2>1, <2>2
  <2> QED BY <2>1, <2>2 DEF TraceInv
<1>7. CASE decryptionReturns
  BY <1>7 DEF decryptionReturns, TraceInv
<1>8. CASE UNCHANGED vars
  BY <1>8 DEF vars, TraceInv
<1> QED BY <1>1, <1>2, <1>3, <1>4, <1>5, <1>6, <1>7, <1>8 DEF Next

-----------------------------------------------------------------------------
(* What the decryption finds.                                              *)

\* The rounds of the decryption meet the words of the encryption in reverse.
LEMMA RetraceStep ==
  TypeInv /\ PlaceInv /\ KeyInv /\ TraceInv /\ RoundsAreRetraced /\ [Next]_vars
    => RoundsAreRetraced'
<1> SUFFICES ASSUME TypeInv, PlaceInv, KeyInv, TraceInv, RoundsAreRetraced, [Next]_vars,
                    dir' = "decrypt", at' = "rounds"
             PROVE  \A j \in 0..(i' + 3) : Low(ulbuf'[j]) = Low(trace'[n'][35 - j])
  BY DEF RoundsAreRetraced
<1>t. i \in 0..32 /\ n \in Nat /\ ulbuf \in [0..35 -> Long]
  BY LengthType DEF TypeInv
<1>1. CASE Begin
  <2>1. /\ i' = 0 /\ UNCHANGED <<dir, n, trace>> /\ 16 * n < Len(plain) /\ input = cipher
        /\ ulbuf' = [j \in 0..35 |-> IF j < 4 THEN GET_ULONG_BE(BlockAt(input, n), 4 * j) ELSE {}]
    BY <1>1 DEF Begin, More, PlaceInv, TypeInv
  <2>2. BlockAt(cipher, n) = OutcomeOf(trace[n])
    BY <1>t, <2>1 DEF TraceInv, Traced
  <2>3. \A j \in 0..3 : ulbuf'[j] = GET_ULONG_BE(OutcomeOf(trace[n]), 4 * j)
    BY <2>1, <2>2
  <2>4. \A j \in 0..3 : ulbuf'[j] = Low(trace[n][35 - j])
    BY <2>3, GetOutcome
  <2>5. \A x : Low(Low(x)) = Low(x)
    BY DEF Low
  <2> QED BY <2>1, <2>4, <2>5
<1>2. CASE Round
  <2> DEFINE next == sm4F(ulbuf[i], ulbuf[i + 1], ulbuf[i + 2], ulbuf[i + 3], sk[i])
             t == trace[n]
             q == 31 - i
  <2>1. /\ at = "rounds" /\ dir = "decrypt" /\ i < 32 /\ i' = i + 1
        /\ ulbuf' = [ulbuf EXCEPT ![i + 4] = next] /\ UNCHANGED <<n, trace>>
    BY <1>2 DEF Round
  <2>2. i \in 0..31
    BY ONLY <1>t, <2>1
  <2>3. q \in 0..31 /\ q + 4 = 35 - i /\ q + 3 = 35 - (i + 1) /\ q + 2 = 35 - (i + 2)
        /\ q + 1 = 35 - (i + 3) /\ q = 35 - (i + 4) /\ 35 - i \in 0..35
    BY <2>2
  <2>4. sk[i] = schedule[q + 4]
    <3>1. sk[i] = k[35 - i] /\ k[35 - i] = schedule[35 - i]
      BY <2>1, <2>2, <2>3 DEF KeyInv
    <3> QED BY <2>3, <3>1
  <2>5. t[q + 4] = sm4F(t[q], t[q + 1], t[q + 2], t[q + 3], sk[i])
    <3>1. Traced(t, cipher, schedule, n)
      BY <1>t, <2>1 DEF TraceInv, PlaceInv
    <3> QED BY <2>3, <2>4, <3>1 DEF Traced, Rounds
  <2>6. \A j \in 0..(i + 3) : Low(ulbuf[j]) = Low(t[35 - j])
    BY <2>1 DEF RoundsAreRetraced
  <2>7. /\ Low(ulbuf[i]) = Low(t[q + 4]) /\ Low(ulbuf[i + 1]) = Low(t[q + 3])
        /\ Low(ulbuf[i + 2]) = Low(t[q + 2]) /\ Low(ulbuf[i + 3]) = Low(t[q + 1])
    BY <2>2, <2>3, <2>6
  <2> HIDE DEF t, q
  <2>8. Low(next) = Low(t[q])
    BY <2>5, <2>7, RoundUndone
  <2> HIDE DEF next
  <2>9. ulbuf'[i + 4] = next /\ \A j \in 0..(i + 3) : ulbuf'[j] = ulbuf[j]
    BY ONLY <1>t, <2>1, <2>2
  <2>10. \A j \in 0..(i' + 3) : Low(ulbuf'[j]) = Low(t[35 - j])
    BY <2>1, <2>2, <2>3, <2>6, <2>8, <2>9
  <2> QED BY <2>1, <2>10 DEF t
<1>3. CASE ~ (Begin \/ Round)
  <2>1. CASE UNCHANGED vars
    BY <2>1 DEF vars, RoundsAreRetraced
  <2>2. CASE ~ UNCHANGED vars
    BY <1>3, <2>2 DEF Next, Subkey, setkeyEnds, End, encryptionReturns, decryptionReturns
  <2> QED BY <2>1, <2>2
<1> QED BY <1>1, <1>2, <1>3

\* A block decrypted is the block of the padded text.
LEMMA BlocksStep == IInv /\ [Next]_vars => BlocksSurvive'
<1> SUFFICES ASSUME IInv, [Next]_vars, dir' = "decrypt"
             PROVE  \A m \in 0..(n' - 1) : BlockAt(output', m) = BlockAt(plain', m)
  BY DEF BlocksSurvive
<1>t. n \in Nat /\ TypeInv /\ PlaceInv
  BY LengthType DEF IInv
<1>1. CASE End
  <2>1. /\ at = "rounds" /\ i = 32 /\ dir = "decrypt" /\ n' = n + 1 /\ plain' = plain
    BY <1>1 DEF End
  <2>2. 16 * n < Len(plain) /\ Traced(trace[n], cipher, schedule, n)
    BY <1>t, <2>1 DEF IInv, TraceInv, PlaceInv
  <2>3. /\ BlockAt(output', n) = IF Chained THEN XorBlock(OutcomeOf(ulbuf), iv)
                                ELSE OutcomeOf(ulbuf)
        /\ \A m \in 0..(n - 1) : BlockAt(output', m) = BlockAt(output, m)
    BY <1>t, <1>1, <2>1, EndPuts
  <2>4. BlockAt(plain, n) \in Block /\ iv \in Block
    BY <1>t, <2>2, BlockWithin DEF TypeInv
  <2>5. Source(cipher, n) = IF Chained THEN XorBlock(BlockAt(plain, n), iv)
                            ELSE BlockAt(plain, n)
    BY <2>1 DEF Source, IInv, ChainInv
  <2>6. Source(cipher, n) \in Block
    BY <2>4, <2>5, XorBlockType
  <2>7. OutcomeOf(ulbuf) = Source(cipher, n)
    <3>1. \A q \in 0..3 : Low(ulbuf[35 - q]) = Low(trace[n][q])
      <4> TAKE q \in 0..3
      <4>1. 35 - q \in 0..(i + 3) /\ 35 - (35 - q) = q
        BY <2>1
      <4>2. \A j \in 0..(i + 3) : Low(ulbuf[j]) = Low(trace[n][35 - j])
        BY <2>1 DEF IInv, RoundsAreRetraced
      <4> QED BY <4>1, <4>2
    <3>2. \A q \in 0..3 : trace[n][q] = GET_ULONG_BE(Source(cipher, n), 4 * q)
      BY <2>2 DEF Traced, StartsWith
    <3> QED BY <2>6, <3>1, <3>2, OutcomeOfWords
  <2>8. BlockAt(output', n) = BlockAt(plain, n)
    BY <2>3, <2>4, <2>5, <2>7, XorBlockTwice
  <2>9. \A m \in 0..(n - 1) : BlockAt(output', m) = BlockAt(plain, m)
    BY <2>1, <2>3 DEF IInv, BlocksSurvive
  <2>10. \A m \in 0..(n' - 1) : m = n \/ m \in 0..(n - 1)
    BY ONLY <1>t, <2>1
  <2> QED BY <2>1, <2>8, <2>9, <2>10
<1>2. CASE encryptionReturns
  BY <1>2 DEF encryptionReturns
<1>3. CASE Subkey \/ setkeyEnds \/ Begin \/ Round \/ UNCHANGED vars
  BY <1>3 DEF Subkey, setkeyEnds, Begin, Round, vars, IInv, BlocksSurvive
<1>4. CASE decryptionReturns
  BY <1>4 DEF decryptionReturns
<1> QED BY <1>1, <1>2, <1>3, <1>4 DEF Next

\* The text returned is the text given, up to its first NUL.
LEMMA TextStep == IInv /\ [Next]_vars => (TextSurvives /\ result \in Seq(Byte))'
<1> SUFFICES ASSUME IInv, [Next]_vars PROVE (TextSurvives /\ result \in Seq(Byte))'
  OBVIOUS
<1>1. CASE decryptionReturns
  <2>1. /\ dir = "decrypt" /\ ~ (16 * n < Len(plain)) /\ job' = job
        /\ result' = unpaddingForDecryption(output)
    BY <1>1 DEF decryptionReturns, More, IInv, TypeInv
  <2>2. n \in Nat /\ Len(plain) \in Nat
    BY LengthType DEF IInv
  <2>3. /\ output \in Seq(Byte) /\ plain \in Seq(Byte) /\ Len(output) = Len(plain)
        /\ Len(plain) % 16 = 0 /\ plain = paddingForEncryption(job.text) /\ job \in Jobs
    BY DEF IInv, TypeInv
  <2>4. \A m \in Nat : 16 * m < Len(output) => BlockAt(output, m) = BlockAt(plain, m)
    <3>1. \A m \in Nat : 16 * m < Len(output) => m \in 0..(n - 1)
      BY ONLY <2>1, <2>2, <2>3
    <3>2. \A m \in 0..(n - 1) : BlockAt(output, m) = BlockAt(plain, m)
      BY <2>1 DEF IInv, BlocksSurvive
    <3> QED BY <3>1, <3>2
  <2>5. output = plain
    BY <2>3, <2>4, SameBlocks
  <2>6. job.text \in Seq(Byte)
    BY <2>3, JobType
  <2>7. result' = CString(job.text)
    BY <2>1, <2>3, <2>5, <2>6, PaddingUndone
  <2>8. CString(job.text) \in Seq(Byte)
    <3>1. CLength(job.text) \in 0..Len(job.text)
      BY <2>6, CLengthEnds DEF EndsAt
    <3> QED BY <2>6, <3>1 DEF CString
  <2> QED BY <2>1, <2>7, <2>8 DEF TextSurvives
<1>2. CASE ~ decryptionReturns
  <2>1. UNCHANGED <<job, result>> /\ (dir' = "done" => dir = "done")
    BY <1>2 DEF Next, vars, Subkey, setkeyEnds, Begin, Round, End, encryptionReturns
  <2> QED BY <2>1 DEF IInv, TextSurvives
<1> QED BY <1>1, <1>2

-----------------------------------------------------------------------------
(* Equal blocks of the cipher text.                                        *)

\* Rounds that start with the same words go on with the same words.
LEMMA SameWords ==
  ASSUME NEW u, NEW v, NEW kk, Rounds(u, 32, kk), Rounds(v, 32, kk),
         \A j \in 0..3 : u[j] = v[j]
  PROVE  \A j \in 0..35 : u[j] = v[j]
<1> DEFINE D == {j \in 0..35 : u[j] # v[j]}
<1> SUFFICES ASSUME D # {} PROVE FALSE
  OBVIOUS
<1>1. PICK x \in D : \A y \in D : x <= y
  <2>1. D \subseteq Nat
    OBVIOUS
  <2> HIDE DEF D
  <2> QED BY <2>1, Least
<1>2. x \in 0..35 /\ u[x] # v[x] /\ x \notin 0..3
  OBVIOUS
<1>3. \A y \in 0..35 : y < x => u[y] = v[y]
  BY <1>1, <1>2
<1> DEFINE q == x - 4
<1>4. q \in 0..31 /\ q + 4 = x
  BY ONLY <1>2
<1>5. u[q] = v[q] /\ u[q + 1] = v[q + 1] /\ u[q + 2] = v[q + 2] /\ u[q + 3] = v[q + 3]
  <2>1. \A d \in 0..3 : q + d \in 0..35 /\ q + d < x
    BY ONLY <1>4
  <2>2. q + 0 = q
    BY ONLY <1>4
  <2> QED BY <1>3, <2>1, <2>2
<1> HIDE DEF q, D
<1>6. /\ u[q + 4] = sm4F(u[q], u[q + 1], u[q + 2], u[q + 3], kk[q + 4])
      /\ v[q + 4] = sm4F(v[q], v[q + 1], v[q + 2], v[q + 3], kk[q + 4])
  BY <1>4 DEF Rounds
<1> QED BY <1>2, <1>4, <1>5, <1>6

\* Rounds that end with the same words, as far as the low bits go, had the same before.
LEMMA SameLows ==
  ASSUME NEW u, NEW v, NEW kk, Rounds(u, 32, kk), Rounds(v, 32, kk),
         \A q \in 0..3 : Low(u[35 - q]) = Low(v[35 - q])
  PROVE  \A j \in 0..35 : Low(u[j]) = Low(v[j])
<1> DEFINE D == {j \in 0..35 : Low(u[35 - j]) # Low(v[35 - j])}
<1> SUFFICES ASSUME D # {} PROVE FALSE
  <2>1. \A j \in 0..35 : 35 - j \in 0..35 /\ 35 - (35 - j) = j
    OBVIOUS
  <2>2. D = {} => \A j \in 0..35 : Low(u[35 - j]) = Low(v[35 - j])
    OBVIOUS
  <2> QED BY <2>1, <2>2
<1>1. PICK x \in D : \A y \in D : x <= y
  <2>1. D \subseteq Nat
    OBVIOUS
  <2> HIDE DEF D
  <2> QED BY <2>1, Least
<1>2. x \in 0..35 /\ Low(u[35 - x]) # Low(v[35 - x]) /\ x \notin 0..3
  OBVIOUS
<1>3. \A y \in 0..35 : y < x => Low(u[35 - y]) = Low(v[35 - y])
  BY <1>1, <1>2
<1> DEFINE q == 35 - x
<1>4. q \in 0..31
  BY ONLY <1>2
<1>5. /\ Low(u[q + 1]) = Low(v[q + 1]) /\ Low(u[q + 2]) = Low(v[q + 2])
      /\ Low(u[q + 3]) = Low(v[q + 3]) /\ Low(u[q + 4]) = Low(v[q + 4])
  <2>1. \A d \in 1..4 : x - d \in 0..35 /\ x - d < x /\ 35 - (x - d) = q + d
    BY ONLY <1>2
  <2>2. \A d \in 1..4 : Low(u[q + d]) = Low(v[q + d])
    BY <1>3, <2>1
  <2> QED BY <2>2
<1> HIDE DEF q, D
<1>6. /\ u[q + 4] = sm4F(u[q], u[q + 1], u[q + 2], u[q + 3], kk[q + 4])
      /\ v[q + 4] = sm4F(v[q], v[q + 1], v[q + 2], v[q + 3], kk[q + 4])
  BY <1>4 DEF Rounds
<1>7. Low(sm4F(v[q + 4], v[q + 3], v[q + 2], v[q + 1], kk[q + 4])) = Low(u[q])
  BY <1>5, <1>6, RoundUndone
<1>8. Low(sm4F(v[q + 4], v[q + 3], v[q + 2], v[q + 1], kk[q + 4])) = Low(v[q])
  BY <1>6, RoundUndone
<1> QED BY <1>2, <1>7, <1>8 DEF q

\* A block is known by the low bits of its words.
LEMMA SameStart ==
  ASSUME NEW u, NEW v, NEW a \in Block, NEW b \in Block, StartsWith(u, a), StartsWith(v, b),
         \A j \in 0..3 : Low(u[j]) = Low(v[j])
  PROVE  a = b
<1> DEFINE w == [j \in 0..35 |-> u[35 - j]]
<1>1. \A q \in 0..3 : w[35 - q] = u[q]
  <2> TAKE q \in 0..3
  <2>1. 35 - q \in 0..35 /\ 35 - (35 - q) = q
    OBVIOUS
  <2> QED BY <2>1
<1> HIDE DEF w
<1>2. OutcomeOf(w) = a
  BY <1>1, OutcomeOfWords DEF StartsWith
<1>3. OutcomeOf(w) = b
  BY <1>1, OutcomeOfWords DEF StartsWith
<1> QED BY <1>2, <1>3

\* Blocks that the same subkeys made are equal exactly if what was enciphered is.
LEMMA TracedOneToOne ==
  ASSUME NEW u, NEW v, NEW c, NEW kk, NEW a, NEW b,
         Traced(u, c, kk, a), Traced(v, c, kk, b),
         Source(c, a) \in Block, Source(c, b) \in Block
  PROVE  BlockAt(c, a) = BlockAt(c, b) <=> Source(c, a) = Source(c, b)
<1>0. /\ Rounds(u, 32, kk) /\ StartsWith(u, Source(c, a)) /\ BlockAt(c, a) = OutcomeOf(u)
      /\ Rounds(v, 32, kk) /\ StartsWith(v, Source(c, b)) /\ BlockAt(c, b) = OutcomeOf(v)
  BY DEF Traced
<1>1. ASSUME Source(c, a) = Source(c, b)
      PROVE  OutcomeOf(u) = OutcomeOf(v)
  <2>1. \A j \in 0..3 : u[j] = v[j]
    BY <1>0, <1>1 DEF StartsWith
  <2>2. \A j \in 0..35 : u[j] = v[j]
    BY <1>0, <2>1, SameWords
  <2>3. \A j \in 0..15 : 35 - j \div 4 \in 0..35
    OBVIOUS
  <2> QED BY <2>2, <2>3 DEF OutcomeOf
<1>2. ASSUME OutcomeOf(u) = OutcomeOf(v)
      PROVE  Source(c, a) = Source(c, b)
  <2>1. \A q \in 0..3 : Low(u[35 - q]) = Low(v[35 - q])
    <3> TAKE q \in 0..3
    <3>1. /\ GET_ULONG_BE(OutcomeOf(u), 4 * q) = Low(u[35 - q])
          /\ GET_ULONG_BE(OutcomeOf(v), 4 * q) = Low(v[35 - q])
      BY GetOutcome
    <3> QED BY <1>2, <3>1
  <2>2. \A j \in 0..3 : Low(u[j]) = Low(v[j])
    <3>1. \A j \in 0..35 : Low(u[j]) = Low(v[j])
      BY <1>0, <2>1, SameLows
    <3>2. \A j \in 0..3 : j \in 0..35
      OBVIOUS
    <3> QED BY <3>1, <3>2
  <2> QED BY <1>0, <2>2, SameStart
<1> QED BY <1>0, <1>1, <1>2

-----------------------------------------------------------------------------
(* The theorems.                                                           *)

\* The invariant is one: this is the whole of the argument.
THEOREM KeybordInvariant == Spec => []IInv
<1>1. IInv /\ [Next]_vars => IInv'
  <2> SUFFICES ASSUME IInv, [Next]_vars PROVE IInv'
    OBVIOUS
  <2>1. TypeInv' /\ PlaceInv' /\ KeyInv' /\ ChainInv' /\ TraceInv' /\ RoundsAreRetraced'
    BY TypeStep, PlaceStep, KeyStep, ChainStep, TraceStep, RetraceStep DEF IInv
  <2>2. BlocksSurvive' /\ (TextSurvives /\ result \in Seq(Byte))'
    BY BlocksStep, TextStep
  <2> QED BY <2>1, <2>2 DEF IInv
<1> QED BY InitHolds, <1>1, PTL DEF Spec

\* The indices of the cipher's loops stay within its arrays, and its buffers are as
\* long as what is written to them, for any text, key and iv.
THEOREM TypeCorrect == Spec => []KeybordTypeOK
<1>1. IInv => KeybordTypeOK
  <2> SUFFICES ASSUME IInv PROVE KeybordTypeOK
    OBVIOUS
  <2>1. TypeInv /\ result \in Seq(Byte)
    BY DEF IInv
  <2>2. DOMAIN output = DOMAIN input
    <3>1. input \in Seq(Byte) /\ output \in Seq(Byte) /\ Len(input) = Len(output)
      BY <2>1 DEF TypeInv
    <3> QED BY ONLY <3>1
  <2> QED BY <2>1, <2>2 DEF TypeInv, KeybordTypeOK
<1> QED BY <1>1, KeybordInvariant, PTL

\* The rounds of hgbkeybordsm4_setkey_dec undo those of hgbkeybordsm4_setkey_enc, for
\* any tables, whatever the bits above the 32nd hold.
THEOREM RoundsCorrect == Spec => []RoundsAreRetraced
<1>1. IInv => RoundsAreRetraced
  BY DEF IInv
<1> QED BY <1>1, KeybordInvariant, PTL

\* The blocks survive their encryption in both modes.
THEOREM BlocksCorrect == Spec => []BlocksSurvive
<1>1. IInv => BlocksSurvive
  BY DEF IInv
<1> QED BY <1>1, KeybordInvariant, PTL

\* The cipher text of a call shows of its text which of the blocks enciphered were
\* equal, and no equality more, for any tables, key and iv: with CBC, what was
\* enciphered is the block of the text combined with the cipher text before it.
THEOREM OneToOneCorrect == Spec => []CipherIsOneToOne
<1>1. IInv => CipherIsOneToOne
  <2> SUFFICES ASSUME IInv, dir = "encrypt", NEW a \in 0..(n - 1), NEW b \in 0..(n - 1)
               PROVE  BlockAt(output, a) = BlockAt(output, b) <=> Enciphered(a) = Enciphered(b)
    BY DEF CipherIsOneToOne
  <2>1. /\ n \in Nat /\ Len(plain) \in Nat /\ 16 * n <= Len(plain) /\ TypeInv
        /\ output \in Seq(Byte) /\ Len(output) = Len(plain)
    BY LengthType DEF IInv, TypeInv
  <2>2. \A m \in 0..(n - 1) : m \in Nat /\ 16 * m < Len(plain)
    BY ONLY <2>1
  <2>3. \A m \in 0..(n - 1) : Source(output, m) \in Block
    <3> TAKE m \in 0..(n - 1)
    <3>1. m \in Nat /\ 16 * m < Len(plain)
      BY <2>2
    <3>2. 16 * m <= Len(plain)
      BY ONLY <2>1, <3>1
    <3>3. Previous(output, m) \in Block
      BY <2>1, <3>1, <3>2, PreviousType
    <3> QED BY <2>1, <3>1, <3>3, SourceType
  <2>4. Traced(trace[a], output, k, a) /\ Traced(trace[b], output, k, b)
    BY DEF IInv, TraceInv
  <2>5. Enciphered(a) = Source(output, a) /\ Enciphered(b) = Source(output, b)
    BY DEF Enciphered, Source, Previous
  <2> QED BY <2>3, <2>4, <2>5, TracedOneToOne
<1> QED BY <1>1, KeybordInvariant, PTL

\* A text of any length comes back, up to its first NUL.
THEOREM TextCorrect == Spec => []TextSurvives
<1>1. IInv => TextSurvives
  BY DEF IInv
<1> QED BY <1>1, KeybordInvariant, PTL

-----------------------------------------------------------------------------
(* The program with long words implements the one with words of 32 bits.   *)

\* KeybordSM4 may be instantiated so: KeybordAssumption holds of words of 32 bits and
\* the low bits of the parameters.
LEMMA NarrowAssumption ==
  /\ 32 \in Nat /\ 32 >= 32
  /\ SboxTable \in [Narrow!Byte -> Narrow!Byte]
  /\ LowWords(FK) \in [0..3 -> Narrow!Long] /\ LowWords(CK) \in [0..31 -> Narrow!Long]
  /\ \A text \in Texts : text \in Seq(Narrow!Byte) /\ Len(text) > 0
  /\ Keys \subseteq Narrow!Block /\ Ivs \subseteq Narrow!Block
<1>1. \A x : Low(x) \in Narrow!Long
  BY DEF Low, Narrow!Long
<1>2. LowWords(FK) \in [0..3 -> Narrow!Long] /\ LowWords(CK) \in [0..31 -> Narrow!Long]
  BY <1>1, KeybordAssumption DEF KeybordAssumption, LowWords
<1>3. Narrow!Byte = Byte /\ Narrow!Block = Block
  BY DEF Narrow!Byte, Byte, Narrow!Block, Block
<1>4. /\ SboxTable \in [Narrow!Byte -> Narrow!Byte]
      /\ \A text \in Texts : text \in Seq(Narrow!Byte) /\ Len(text) > 0
      /\ Keys \subseteq Narrow!Block /\ Ivs \subseteq Narrow!Block
  <2>1. /\ SboxTable \in [Byte -> Byte]
        /\ \A text \in Texts : text \in Seq(Byte) /\ Len(text) > 0
        /\ Keys \subseteq Block /\ Ivs \subseteq Block
    BY KeybordAssumption DEF KeybordAssumption
  <2> QED BY ONLY <1>3, <2>1, Zenon
<1>5. 32 \in Nat /\ 32 >= 32
  OBVIOUS
<1> QED BY ONLY <1>2, <1>4, <1>5, Zenon

LEMMA NarrowInit == Init => Narrow!Init
<1> SUFFICES ASSUME Init PROVE Narrow!Init
  OBVIOUS
<1> USE DEF Init
<1>1. plain = Narrow!paddingForEncryption(job.text) /\ output = Narrow!Zeros(plain)
  BY NarrowPadding, NarrowBlocks
<1>2. LowWords(k) = Narrow!FirstKeys(job.key) /\ LowWords(schedule) = LowWords(k)
  BY NarrowFirstKeys
<1>3. /\ LowWords(sk) = [j \in 0..31 |-> {}]
      /\ LowWords(ulbuf) = [j \in 0..35 |-> {}]
  BY DEF LowWords, Low
<1>4. [m \in DOMAIN trace |-> LowWords(trace[m])] = [m \in {} |-> LowWords(ulbuf)]
  OBVIOUS
<1> QED BY <1>1, <1>2, <1>3, <1>4 DEF Narrow!Init

LEMMA NarrowStep == TypeInv /\ PlaceInv /\ [Next]_vars => [Narrow!Next]_(Narrow!vars)
<1> SUFFICES ASSUME TypeInv, PlaceInv, [Next]_vars PROVE [Narrow!Next]_(Narrow!vars)
  OBVIOUS
<1>0. /\ k \in [0..35 -> Long] /\ ulbuf \in [0..35 -> Long] /\ sk \in [0..31 -> Long]
      /\ i \in 0..32
  BY DEF TypeInv
<1>k. CK \in [0..31 -> Long]
  BY KeybordAssumption DEF KeybordAssumption
<1>1. CASE Subkey
  <2> DEFINE next == Xor(k[i], sm4CalciRK(Xor(Xor(Xor(k[i + 1], k[i + 2]), k[i + 3]), CK[i])))
  <2>1. /\ at = "subkeys" /\ i < 32 /\ i' = i + 1
        /\ k' = [k EXCEPT ![i + 4] = next] /\ sk' = [sk EXCEPT ![i] = next]
        /\ UNCHANGED <<job, dir, at, n, ulbuf, iv, input, output, result, plain, cipher,
                       schedule, trace>>
    BY <1>1 DEF Subkey
  <2>2. i \in 0..31
    BY ONLY <1>0, <2>1
  <2>3. Low(next) = Narrow!Xor(LowWords(k)[i],
          Narrow!sm4CalciRK(Narrow!Xor(Narrow!Xor(Narrow!Xor(
            LowWords(k)[i + 1], LowWords(k)[i + 2]), LowWords(k)[i + 3]), LowWords(CK)[i])))
    <3> DEFINE x == Xor(Xor(Xor(k[i + 1], k[i + 2]), k[i + 3]), CK[i])
    <3>1. /\ LowWords(k)[i] = Low(k[i]) /\ LowWords(k)[i + 1] = Low(k[i + 1])
          /\ LowWords(k)[i + 2] = Low(k[i + 2]) /\ LowWords(k)[i + 3] = Low(k[i + 3])
          /\ LowWords(CK)[i] = Low(CK[i])
      BY <1>0, <1>k, <2>2 DEF LowWords
    <3>2. Low(x) = Xor(Xor(Xor(Low(k[i + 1]), Low(k[i + 2])), Low(k[i + 3])), Low(CK[i]))
      BY LowXor
    <3>3. Low(next) = Xor(Low(k[i]), Low(sm4CalciRK(x)))
      BY LowXor
    <3> HIDE DEF next, x
    <3>4. Low(sm4CalciRK(x)) = Narrow!sm4CalciRK(Low(x))
      BY NarrowRK
    <3> QED BY <3>1, <3>2, <3>3, <3>4, NarrowXor
  <2> HIDE DEF next
  <2>4. /\ LowWords(k') = [LowWords(k) EXCEPT ![i + 4] = Low(next)]
        /\ LowWords(sk') = [LowWords(sk) EXCEPT ![i] = Low(next)]
    <3>1. i + 4 \in 0..35
      BY <2>2
    <3>2. LowWords([k EXCEPT ![i + 4] = next]) = [LowWords(k) EXCEPT ![i + 4] = Low(next)]
      BY ONLY <1>0, <3>1 DEF LowWords
    <3>3. LowWords([sk EXCEPT ![i] = next]) = [LowWords(sk) EXCEPT ![i] = Low(next)]
      BY ONLY <1>0, <2>2 DEF LowWords
    <3> QED BY <2>1, <3>2, <3>3
  <2>5. Narrow!Subkey
    BY <2>1, <2>3, <2>4 DEF Narrow!Subkey
  <2> QED BY <2>5 DEF Narrow!Next
<1>2. CASE setkeyEnds
  <2>1. LowWords(Reversed) = Narrow!Reversed
    <3>1. \A j \in 0..31 : 31 - j \in 0..31
      OBVIOUS
    <3> QED BY <1>0, <3>1 DEF Reversed, Narrow!Reversed, LowWords
  <2>2. LowWords(sk') = IF dir = "decrypt" THEN Narrow!Reversed ELSE LowWords(sk)
    BY <1>2, <2>1 DEF setkeyEnds
  <2>3. Narrow!setkeyEnds
    BY <1>2, <2>2 DEF setkeyEnds, Narrow!setkeyEnds
  <2> QED BY <2>3 DEF Narrow!Next
<1>3. CASE Begin
  <2> DEFINE b == IF Chained /\ dir = "encrypt" THEN XorBlock(BlockAt(input, n), iv)
                  ELSE BlockAt(input, n)
  <2>1. ulbuf' = [j \in 0..35 |-> IF j < 4 THEN GET_ULONG_BE(b, 4 * j) ELSE {}]
    BY <1>3 DEF Begin
  <2>2. b = IF Narrow!Chained /\ dir = "encrypt"
            THEN Narrow!XorBlock(Narrow!BlockAt(input, n), iv) ELSE Narrow!BlockAt(input, n)
    BY NarrowBlocks DEF Narrow!Chained, Chained
  <2> HIDE DEF b
  <2>3. LowWords(ulbuf') = [j \in 0..35 |-> IF j < 4 THEN Narrow!GET_ULONG_BE(b, 4 * j) ELSE {}]
    <3>1. \A j \in 0..35 : Low(GET_ULONG_BE(b, 4 * j)) = Narrow!GET_ULONG_BE(b, 4 * j)
      BY GetType, NarrowGet DEF Low
    <3>2. Low({}) = {}
      BY DEF Low
    <3> QED BY <2>1, <3>1, <3>2 DEF LowWords
  <2>4. Narrow!Begin
    BY <1>3, <2>2, <2>3 DEF Begin, Narrow!Begin, More, Narrow!More
  <2> QED BY <2>4 DEF Narrow!Next
<1>4. CASE Round
  <2> DEFINE next == sm4F(ulbuf[i], ulbuf[i + 1], ulbuf[i + 2], ulbuf[i + 3], sk[i])
  <2>1. /\ at = "rounds" /\ i < 32 /\ i' = i + 1
        /\ ulbuf' = [ulbuf EXCEPT ![i + 4] = next]
        /\ UNCHANGED <<job, dir, at, n, k, sk, iv, input, output, result, plain, cipher,
                       schedule, trace>>
    BY <1>4 DEF Round
  <2>2. i \in 0..31
    BY ONLY <1>0, <2>1
  <2>3. Low(next) = Narrow!sm4F(LowWords(ulbuf)[i], LowWords(ulbuf)[i + 1],
                      LowWords(ulbuf)[i + 2], LowWords(ulbuf)[i + 3], LowWords(sk)[i])
    <3>1. /\ LowWords(ulbuf)[i] = Low(ulbuf[i]) /\ LowWords(ulbuf)[i + 1] = Low(ulbuf[i + 1])
          /\ LowWords(ulbuf)[i + 2] = Low(ulbuf[i + 2])
          /\ LowWords(ulbuf)[i + 3] = Low(ulbuf[i + 3])
          /\ LowWords(sk)[i] = Low(sk[i])
      BY <1>0, <2>2 DEF LowWords
    <3> QED BY <3>1, NarrowF
  <2> HIDE DEF next
  <2>4. LowWords(ulbuf') = [LowWords(ulbuf) EXCEPT ![i + 4] = Low(next)]
    <3>1. i + 4 \in 0..35
      BY <2>2
    <3>2. LowWords([ulbuf EXCEPT ![i + 4] = next]) = [LowWords(ulbuf) EXCEPT ![i + 4] = Low(next)]
      BY ONLY <1>0, <3>1 DEF LowWords
    <3> QED BY <2>1, <3>2
  <2>5. Narrow!Round
    BY <2>1, <2>3, <2>4 DEF Narrow!Round
  <2> QED BY <2>5 DEF Narrow!Next
<1>5. CASE End
  <2>1. Narrow!Outcome = Outcome
    <3>1. \A j \in 0..15 : Narrow!PUT_ULONG_BE(LowWords(ulbuf)[35 - j \div 4])
                             = PUT_ULONG_BE(ulbuf[35 - j \div 4])
      <4> TAKE j \in 0..15
      <4>1. 35 - j \div 4 \in 0..35
        OBVIOUS
      <4>2. LowWords(ulbuf)[35 - j \div 4] = Low(ulbuf[35 - j \div 4])
        BY <1>0, <4>1 DEF LowWords
      <4> QED BY <4>2, NarrowPut
    <3> QED BY <3>1 DEF Narrow!Outcome, Outcome
  <2>2. output' = Narrow!PutBlock(output, n,
          IF Narrow!Chained /\ dir = "decrypt" THEN Narrow!XorBlock(Narrow!Outcome, iv)
          ELSE Narrow!Outcome)
    BY <1>5, <2>1, NarrowBlocks DEF End, Narrow!Chained, Chained
  <2>3. iv' = Narrow!NextIv
    BY <1>5, <2>1, NarrowBlocks DEF End, NextIv, Narrow!NextIv, Narrow!Chained, Chained
  <2> DEFINE LowTrace(tr) == [m \in DOMAIN tr |-> LowWords(tr[m])]
  <2>4. LowTrace(trace') =
          IF dir = "encrypt"
          THEN [m \in 0..n |-> IF m = n THEN LowWords(ulbuf) ELSE LowTrace(trace)[m]]
          ELSE LowTrace(trace)
    <3>1. CASE dir = "encrypt"
      <4>1. /\ trace' = [m \in 0..n |-> IF m = n THEN ulbuf ELSE trace[m]]
            /\ DOMAIN trace = 0..(n - 1) /\ n \in Nat
        BY <1>5, <3>1 DEF End, PlaceInv, TypeInv
      <4>2. \A m \in 0..n : m # n => m \in DOMAIN trace
        BY <4>1
      <4>3. \A m \in 0..n : LowWords(trace'[m])
                              = IF m = n THEN LowWords(ulbuf) ELSE LowTrace(trace)[m]
        BY <4>1, <4>2
      <4> QED BY <3>1, <4>1, <4>3
    <3>2. CASE dir # "encrypt"
      BY <1>5, <3>2 DEF End
    <3> QED BY <3>1, <3>2
  <2>5. Narrow!End
    BY <1>5, <2>2, <2>3, <2>4 DEF End, Narrow!End
  <2> QED BY <2>5 DEF Narrow!Next
<1>6. CASE encryptionReturns
  <2>1. LowWords(k') = Narrow!FirstKeys(job.key) /\ LowWords(schedule') = LowWords(k)
    BY <1>6, NarrowFirstKeys DEF encryptionReturns
  <2>2. output' = Narrow!Zeros(output)
    BY <1>6, NarrowBlocks DEF encryptionReturns
  <2>3. Narrow!encryptionReturns
    BY <1>6, <2>1, <2>2 DEF encryptionReturns, Narrow!encryptionReturns, More, Narrow!More
  <2> QED BY <2>3 DEF Narrow!Next
<1>7. CASE decryptionReturns
  <2>1. Narrow!decryptionReturns
    BY <1>7, NarrowPadding DEF decryptionReturns, Narrow!decryptionReturns, More, Narrow!More
  <2> QED BY <2>1 DEF Narrow!Next
<1>8. CASE UNCHANGED vars
  BY <1>8 DEF vars, Narrow!vars
<1> QED BY <1>1, <1>2, <1>3, <1>4, <1>5, <1>6, <1>7, <1>8 DEF Next

\* A cipher computed with longs of more than 32 bits is the one computed with words
\* of 32 bits, step by step, for any tables, keys and texts.
THEOREM WidthImplemented == Spec => LongsAreWords
<1>1. IInv /\ [Next]_vars => [Narrow!Next]_(Narrow!vars)
  BY NarrowStep DEF IInv
<1> QED BY NarrowInit, <1>1, KeybordInvariant, PTL DEF Spec, LongsAreWords, Narrow!Spec

=============================================================================
