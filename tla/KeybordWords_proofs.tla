------------------------ MODULE KeybordWords_proofs ------------------------
(***************************************************************************)
(* What the operators of KeybordSM4 on words, blocks, C strings and padded *)
(* texts return: the facts that KeybordSM4_proofs rests on.                *)
(***************************************************************************)
EXTENDS KeybordWidth, WellFoundedInduction, TLAPS

-----------------------------------------------------------------------------
(* Words.                                                                  *)

\* The exclusive or of two strings of bits of one width has that width.
LEMMA XorType == ASSUME NEW S, NEW a \in SUBSET S, NEW b \in SUBSET S
                 PROVE  Xor(a, b) \in SUBSET S
BY DEF Xor

LEMMA XorLong == \A a, b \in Long : Xor(a, b) \in Long
BY DEF Xor, Long

\* An exclusive or taken twice changes nothing.
LEMMA XorTwice == \A a, b : Xor(Xor(a, b), b) = a
BY DEF Xor

\* The low bits of an exclusive or come from the low bits.
LEMMA LowXor == \A a, b : Low(Xor(a, b)) = Xor(Low(a), Low(b))
BY DEF Low, Xor

LEMMA XorBlockType == ASSUME NEW a \in Block, NEW b \in Block
                      PROVE  XorBlock(a, b) \in Block
BY XorType DEF XorBlock, Block, Byte

LEMMA XorBlockTwice == ASSUME NEW a \in Block, NEW b \in Block
                       PROVE  XorBlock(XorBlock(a, b), b) = a
<1>1. \A j \in 0..15 : Xor(Xor(a[j], b[j]), b[j]) = a[j]
  BY XorTwice
<1> QED BY <1>1 DEF XorBlock, Block

LEMMA GetType == ASSUME NEW b, NEW j
                 PROVE  GET_ULONG_BE(b, j) \in Long /\ GET_ULONG_BE(b, j) \subseteq 0..31
<1>1. 0..31 \subseteq 0..(LongBits - 1)
  BY KeybordAssumption DEF KeybordAssumption
<1>2. GET_ULONG_BE(b, j) \subseteq 0..31
  BY DEF GET_ULONG_BE
<1> QED BY <1>1, <1>2 DEF Long

LEMMA PutType == \A x : PUT_ULONG_BE(x) \in [0..3 -> Byte]
BY DEF PUT_ULONG_BE, Byte

\* PUT_ULONG_BE reads no bit above the 32nd.
LEMMA PutLow == ASSUME NEW x, NEW y, Low(x) = Low(y)
                PROVE  PUT_ULONG_BE(x) = PUT_ULONG_BE(y)
<1>1. \A j \in 0..3, m \in 0..7 : 8 * (3 - j) + m \in 0..31
  OBVIOUS
<1>2. \A p \in 0..31 : p \in x <=> p \in y
  BY DEF Low
<1>3. \A j \in 0..3 : {m \in 0..7 : 8 * (3 - j) + m \in x} = {m \in 0..7 : 8 * (3 - j) + m \in y}
  BY <1>1, <1>2
<1> QED BY <1>3 DEF PUT_ULONG_BE

\* PUT_ULONG_BE gives back the bytes that GET_ULONG_BE read.
LEMMA PutGet ==
  ASSUME NEW b \in Block, NEW q \in 0..3, NEW r \in 0..3
  PROVE  PUT_ULONG_BE(GET_ULONG_BE(b, 4 * q))[r] = b[4 * q + r]
<1>1. \A m \in 0..7 : /\ 8 * (3 - r) + m \in 0..31
                      /\ (8 * (3 - r) + m) % 8 = m
                      /\ (8 * (3 - r) + m) \div 8 = 3 - r
  OBVIOUS
<1>2. \A m \in 0..7 : 8 * (3 - r) + m \in GET_ULONG_BE(b, 4 * q) <=> m \in b[4 * q + r]
  <2> TAKE m \in 0..7
  <2>1. 4 * q + 3 - (3 - r) = 4 * q + r
    OBVIOUS
  <2> QED BY <1>1, <2>1 DEF GET_ULONG_BE
<1>3. b[4 * q + r] \in SUBSET (0..7)
  BY DEF Block, Byte
<1>4. PUT_ULONG_BE(GET_ULONG_BE(b, 4 * q))[r]
        = {m \in 0..7 : 8 * (3 - r) + m \in GET_ULONG_BE(b, 4 * q)}
  BY DEF PUT_ULONG_BE
<1> QED BY <1>2, <1>3, <1>4

\* The block that a list of words leaves: Outcome for any list.
OutcomeOf(u) == [j \in 0..15 |-> PUT_ULONG_BE(u[35 - j \div 4])[j % 4]]

LEMMA OutcomeType == ASSUME NEW u PROVE OutcomeOf(u) \in Block
<1>1. \A j \in 0..15 : j % 4 \in 0..3
  OBVIOUS
<1> QED BY <1>1, PutType DEF OutcomeOf, Block

\* The words read from the block that a list of words leaves are its last ones.
LEMMA GetOutcome ==
  ASSUME NEW u, NEW q \in 0..3
  PROVE  GET_ULONG_BE(OutcomeOf(u), 4 * q) = Low(u[35 - q])
<1>1. \A m \in 0..31 :
        /\ 4 * q + 3 - (m \div 8) \in 0..15
        /\ (4 * q + 3 - (m \div 8)) \div 4 = q
        /\ (4 * q + 3 - (m \div 8)) % 4 = 3 - (m \div 8)
        /\ 3 - (m \div 8) \in 0..3 /\ m % 8 \in 0..7
        /\ 8 * (3 - (3 - (m \div 8))) + (m % 8) = m
  OBVIOUS
<1>2. \A m \in 0..31 : OutcomeOf(u)[4 * q + 3 - (m \div 8)]
                         = PUT_ULONG_BE(u[35 - q])[3 - (m \div 8)]
  BY <1>1 DEF OutcomeOf
<1>3. \A m \in 0..31 : (m % 8) \in PUT_ULONG_BE(u[35 - q])[3 - (m \div 8)] <=> m \in u[35 - q]
  BY <1>1 DEF PUT_ULONG_BE
<1> QED BY <1>2, <1>3 DEF GET_ULONG_BE, Low

\* Blocks are made by words: lists whose last words have the low bits of the words of a
\* block leave that block.
LEMMA OutcomeOfWords ==
  ASSUME NEW u, NEW b \in Block,
         \A q \in 0..3 : Low(u[35 - q]) = Low(GET_ULONG_BE(b, 4 * q))
  PROVE  OutcomeOf(u) = b
<1>1. \A j \in 0..15 : /\ j \div 4 \in 0..3 /\ j % 4 \in 0..3
                       /\ 4 * (j \div 4) + (j % 4) = j
  OBVIOUS
<1>2. \A j \in 0..15 : PUT_ULONG_BE(u[35 - j \div 4])[j % 4] = b[j]
  <2> TAKE j \in 0..15
  <2>1. PICK q \in 0..3, r \in 0..3 : q = j \div 4 /\ r = j % 4 /\ 4 * q + r = j
    BY <1>1
  <2>2. PUT_ULONG_BE(u[35 - q]) = PUT_ULONG_BE(GET_ULONG_BE(b, 4 * q))
    BY PutLow
  <2>3. PUT_ULONG_BE(u[35 - q])[r] = b[4 * q + r]
    BY <2>2, PutGet
  <2> QED BY <2>1, <2>3
<1> QED BY <1>2 DEF OutcomeOf, Block

LEMMA ShlType == ASSUME NEW x, NEW s PROVE SHL(x, s) \in Long
BY DEF SHL, Long

LEMMA RotlType == ASSUME NEW x, NEW s PROVE ROTL(x, s) \in Long
BY DEF SHL, ROTL, Long

LEMMA SubstitutedType == \A x : Substituted(x) \in Long
BY GetType DEF Substituted

LEMMA LtType == ASSUME NEW x PROVE sm4Lt(x) \in Long
<1> DEFINE bb == Substituted(x)
<1>1. bb \in Long /\ \A s : ROTL(bb, s) \in Long
  BY SubstitutedType, RotlType
<1> HIDE DEF bb
<1>2. Xor(bb, ROTL(bb, 2)) \in Long
  BY <1>1, XorLong
<1>3. Xor(Xor(bb, ROTL(bb, 2)), ROTL(bb, 10)) \in Long
  BY <1>1, <1>2, XorLong
<1>4. Xor(Xor(Xor(bb, ROTL(bb, 2)), ROTL(bb, 10)), ROTL(bb, 18)) \in Long
  BY <1>1, <1>3, XorLong
<1>5. Xor(Xor(Xor(Xor(bb, ROTL(bb, 2)), ROTL(bb, 10)), ROTL(bb, 18)), ROTL(bb, 24)) \in Long
  BY <1>1, <1>4, XorLong
<1> QED BY <1>5 DEF sm4Lt, bb

\* sm4Lt reads no bit above the 32nd.
LEMMA LtLow == ASSUME NEW x, NEW y, Low(x) = Low(y)
               PROVE  sm4Lt(x) = sm4Lt(y)
<1>1. Substituted(x) = Substituted(y)
  BY PutLow DEF Substituted
<1> QED BY <1>1 DEF sm4Lt

LEMMA RKType == ASSUME NEW x PROVE sm4CalciRK(x) \in Long
<1> DEFINE bb == Substituted(x)
<1>1. bb \in Long /\ \A s : ROTL(bb, s) \in Long
  BY SubstitutedType, RotlType
<1> HIDE DEF bb
<1>2. Xor(bb, ROTL(bb, 13)) \in Long
  BY <1>1, XorLong
<1>3. Xor(Xor(bb, ROTL(bb, 13)), ROTL(bb, 23)) \in Long
  BY <1>1, <1>2, XorLong
<1> QED BY <1>3 DEF sm4CalciRK, bb

LEMMA FType == ASSUME NEW x0 \in Long, NEW x1, NEW x2, NEW x3, NEW rk
               PROVE  sm4F(x0, x1, x2, x3, rk) \in Long
BY LtType, XorLong DEF sm4F

\* A round taken on the words of another round in reverse, with the same subkey,
\* undoes it as far as the low bits go.
LEMMA RoundUndone ==
  ASSUME NEW x0, NEW x1, NEW x2, NEW x3, NEW x4, NEW y1, NEW y2, NEW y3, NEW y4, NEW rk,
         x4 = sm4F(x0, x1, x2, x3, rk),
         Low(y1) = Low(x1), Low(y2) = Low(x2), Low(y3) = Low(x3), Low(y4) = Low(x4)
  PROVE  Low(sm4F(y4, y3, y2, y1, rk)) = Low(x0)
<1> DEFINE x == Xor(Xor(Xor(x1, x2), x3), rk)
           y == Xor(Xor(Xor(y3, y2), y1), rk)
<1>1. Low(x) = Xor(Xor(Xor(Low(x1), Low(x2)), Low(x3)), Low(rk))
  BY LowXor
<1>2. Low(y) = Xor(Xor(Xor(Low(x3), Low(x2)), Low(x1)), Low(rk))
  BY LowXor
<1>3. Xor(Xor(Low(x3), Low(x2)), Low(x1)) = Xor(Xor(Low(x1), Low(x2)), Low(x3))
  BY DEF Xor
<1>4. sm4Lt(y) = sm4Lt(x)
  <2>1. Low(x) = Low(y)
    BY <1>1, <1>2, <1>3
  <2> HIDE DEF x, y
  <2> QED BY <2>1, LtLow
<1>5. x4 = Xor(x0, sm4Lt(x)) /\ sm4F(y4, y3, y2, y1, rk) = Xor(y4, sm4Lt(y))
  BY DEF sm4F
<1> HIDE DEF x, y
<1>6. Low(Xor(y4, sm4Lt(y))) = Xor(Xor(Low(x0), Low(sm4Lt(x))), Low(sm4Lt(x)))
  BY <1>4, <1>5, LowXor
<1> QED BY <1>5, <1>6, XorTwice

-----------------------------------------------------------------------------
(* C strings and padding.                                                  *)

\* A set of natural numbers that is not empty has a least one.
LEMMA Least ==
  ASSUME NEW T, T \subseteq Nat, T # {}
  PROVE  \E x \in T : \A y \in T : x <= y
<1> DEFINE R == {ss \in Nat \X Nat : ss[1] < ss[2]}
<1>1. IsWellFoundedOn(R, Nat)
  BY NatLessThanWellFounded DEF OpToRel
<1>2. PICK x \in T : \A y \in T : ~ (<<y, x>> \in R)
  <2> HIDE DEF R
  <2> QED BY <1>1, WFMin
<1>3. \A y \in T : x <= y
  <2> TAKE y \in T
  <2>1. x \in Nat /\ y \in Nat
    OBVIOUS
  <2>2. ~ (y < x)
    BY <1>2, <2>1
  <2> QED BY <2>1, <2>2
<1> QED BY <1>3

\* c is the length of the C string at the beginning of s.
EndsAt(s, c) ==
  /\ c \in 0..Len(s)
  /\ \A j \in 1..c : s[j] # NUL
  /\ c < Len(s) => s[c + 1] = NUL

\* Every sequence begins with a C string, of the length that CLength tells.
LEMMA CLengthEnds == ASSUME NEW S, NEW s \in Seq(S) PROVE EndsAt(s, CLength(s))
<1>1. \E c \in 0..Len(s) : EndsAt(s, c)
  <2> DEFINE T == {j \in 1..Len(s) : s[j] = NUL}
  <2>1. CASE T = {}
    BY <2>1 DEF EndsAt
  <2>2. CASE T # {}
    <3>1. PICK x \in T : \A y \in T : x <= y
      <4>1. T \subseteq Nat
        OBVIOUS
      <4> HIDE DEF T
      <4> QED BY <2>2, <4>1, Least
    <3>2. EndsAt(s, x - 1)
      BY <3>1 DEF EndsAt
    <3>3. x - 1 \in 0..Len(s)
      OBVIOUS
    <3> QED BY <3>2, <3>3
  <2> QED BY <2>1, <2>2
<1> QED BY <1>1 DEF CLength, EndsAt

LEMMA CLengthUnique == ASSUME NEW S, NEW s \in Seq(S), NEW c, EndsAt(s, c)
                       PROVE  CLength(s) = c
<1>1. EndsAt(s, CLength(s))
  BY CLengthEnds
<1> QED BY <1>1 DEF EndsAt

\* The padding is between 1 and 16, and a byte tells it.
LEMMA PaddingByte ==
  ASSUME NEW x \in 1..16
  PROVE  ToByte(x) \in Byte /\ ToByte(x) # NUL /\ ToNumber(ToByte(x)) = x
<1>1. ToByte(x) \in Byte
  BY DEF ToByte, Byte
<1>2. /\ Weight[1] = 1 /\ Weight[2] = 2 /\ Weight[3] = 4 /\ Weight[4] = 8
      /\ Weight[5] = 16 /\ Weight[6] = 32 /\ Weight[7] = 64 /\ Weight[8] = 128
  BY DEF Weight
<1>3. /\ 0 \in ToByte(x) <=> x % 2 = 1
      /\ 1 \in ToByte(x) <=> (x \div 2) % 2 = 1
      /\ 2 \in ToByte(x) <=> (x \div 4) % 2 = 1
      /\ 3 \in ToByte(x) <=> (x \div 8) % 2 = 1
      /\ 4 \in ToByte(x) <=> (x \div 16) % 2 = 1
  BY <1>2 DEF ToByte
<1>4. 5 \notin ToByte(x) /\ 6 \notin ToByte(x) /\ 7 \notin ToByte(x)
  BY <1>2 DEF ToByte
<1>5. ToNumber(ToByte(x)) = x
  BY <1>2, <1>3, <1>4 DEF ToNumber
<1>6. x # 0 /\ ToNumber(NUL) = 0
  BY <1>2 DEF ToNumber, NUL
<1> QED BY <1>1, <1>5, <1>6

\* The padded text of a text: whole blocks, the C string of the text, the padding.
LEMMA PaddedText ==
  ASSUME NEW text \in Seq(Byte)
  PROVE  \E mod \in 1..16 :
           LET s == paddingForEncryption(text)
               c == CLength(text)
           IN  /\ s \in Seq(Byte) /\ Len(s) = Len(text) + mod /\ Len(s) % 16 = 0
               /\ c \in 0..Len(text)
               /\ CLength(s) = c + mod
               /\ \A j \in 1..c : s[j] = text[j]
               /\ s[c + mod] = ToByte(mod)
<1> DEFINE mod == 16 - (Len(text) % 16)
           s == paddingForEncryption(text)
           c == CLength(text)
<1>1. mod \in 1..16 /\ (Len(text) + mod) % 16 = 0 /\ Len(text) \in Nat
  OBVIOUS
<1>2. EndsAt(text, c)
  BY CLengthEnds
<1>3. ToByte(mod) \in Byte /\ ToByte(mod) # NUL /\ NUL \in Byte
  BY <1>1, PaddingByte DEF NUL, Byte
<1>4. s = [j \in 1..(Len(text) + mod) |->
             IF j <= c THEN text[j] ELSE IF j <= c + mod THEN ToByte(mod) ELSE NUL]
  BY DEF paddingForEncryption
<1> HIDE DEF mod, s, c
<1>5. s \in Seq(Byte) /\ Len(s) = Len(text) + mod
  <2>1. s \in [1..(Len(text) + mod) -> Byte]
    BY <1>1, <1>2, <1>3, <1>4 DEF EndsAt
  <2> QED BY <1>1, <2>1
<1>6. /\ \A j \in 1..c : s[j] = text[j]
      /\ \A j \in (c + 1)..(c + mod) : s[j] = ToByte(mod)
      /\ \A j \in (c + mod + 1)..Len(s) : s[j] = NUL
  BY <1>1, <1>2, <1>4, <1>5 DEF EndsAt
<1>7. EndsAt(s, c + mod)
  BY <1>1, <1>2, <1>3, <1>5, <1>6 DEF EndsAt
<1>8. CLength(s) = c + mod
  BY <1>5, <1>7, CLengthUnique
<1>9. /\ c \in 0..Len(text) /\ \A j \in 1..c : s[j] = text[j]
      /\ s[c + mod] = ToByte(mod) /\ Len(s) % 16 = 0
  <2>1. c \in 0..Len(text)
    BY <1>2 DEF EndsAt
  <2>2. c + mod \in (c + 1)..(c + mod)
    BY <1>1, <2>1
  <2> QED BY <1>1, <1>5, <1>6, <2>1, <2>2
<1> QED BY <1>1, <1>5, <1>8, <1>9 DEF s, c

\* Unpadding a padded text gives the C string of the text.
LEMMA PaddingUndone ==
  ASSUME NEW text \in Seq(Byte)
  PROVE  unpaddingForDecryption(paddingForEncryption(text)) = CString(text)
<1> DEFINE s == paddingForEncryption(text)
           c == CLength(text)
<1>1. PICK mod \in 1..16 :
        /\ s \in Seq(Byte) /\ Len(s) = Len(text) + mod
        /\ c \in 0..Len(text)
        /\ CLength(s) = c + mod
        /\ \A j \in 1..c : s[j] = text[j]
        /\ s[c + mod] = ToByte(mod)
  BY PaddedText
<1>2. ToNumber(s[c + mod]) = mod
  BY <1>1, PaddingByte
<1> HIDE DEF s, c
<1>3. unpaddingForDecryption(s) = SubSeq(s, 1, c)
  BY <1>1, <1>2 DEF unpaddingForDecryption
<1>4. SubSeq(s, 1, c) = SubSeq(text, 1, c)
  BY <1>1
<1> QED BY <1>3, <1>4 DEF CString, s, c

-----------------------------------------------------------------------------
(* Blocks of a buffer.                                                     *)

LEMMA BlockAtType ==
  ASSUME NEW s \in Seq(Byte), NEW m \in Nat, 16 * m + 16 <= Len(s)
  PROVE  BlockAt(s, m) \in Block
BY DEF BlockAt, Block

LEMMA PutBlockType ==
  ASSUME NEW s \in Seq(Byte), NEW m \in Nat, NEW b \in Block
  PROVE  /\ PutBlock(s, m, b) \in Seq(Byte)
         /\ Len(PutBlock(s, m, b)) = Len(s)
<1>1. \A j \in 1..Len(s) : (j - 1) % 16 \in 0..15
  OBVIOUS
<1>2. PutBlock(s, m, b) \in [1..Len(s) -> Byte]
  <2>1. DOMAIN s = 1..Len(s) /\ \A j \in 1..Len(s) : s[j] \in Byte
    OBVIOUS
  <2>2. \A r \in 0..15 : b[r] \in Byte
    BY DEF Block
  <2>3. \A j \in 1..Len(s) : b[(j - 1) % 16] \in Byte
    BY <1>1, <2>2
  <2> QED BY <2>1, <2>3 DEF PutBlock
<1> QED BY <1>2

LEMMA ZerosType ==
  ASSUME NEW s \in Seq(Byte)
  PROVE  Zeros(s) \in Seq(Byte) /\ Len(Zeros(s)) = Len(s)
<1>1. Zeros(s) = [j \in 1..Len(s) |-> NUL] /\ Len(s) \in Nat
  BY DEF Zeros
<1>2. NUL \in Byte
  BY DEF NUL, Byte
<1> QED BY <1>1, <1>2

\* The block put is the one found, and no other changes.
LEMMA BlockPut ==
  ASSUME NEW s \in Seq(Byte), NEW m \in Nat, NEW b \in Block, 16 * m + 16 <= Len(s)
  PROVE  /\ BlockAt(PutBlock(s, m, b), m) = b
         /\ \A o \in Nat : o # m /\ 16 * o + 16 <= Len(s) =>
              BlockAt(PutBlock(s, m, b), o) = BlockAt(s, o)
<1>1. \A o \in Nat, j \in 0..15 : /\ (16 * o + j + 1 - 1) \div 16 = o
                                  /\ (16 * o + j + 1 - 1) % 16 = j
  OBVIOUS
<1>2. \A o \in Nat, j \in 0..15 : 16 * o + 16 <= Len(s) => 16 * o + j + 1 \in 1..Len(s)
  OBVIOUS
<1>3. \A o \in Nat, j \in 0..15 : 16 * o + 16 <= Len(s) =>
        PutBlock(s, m, b)[16 * o + j + 1] = IF o = m THEN b[j] ELSE s[16 * o + j + 1]
  <2> TAKE o \in Nat, j \in 0..15
  <2> HAVE 16 * o + 16 <= Len(s)
  <2> DEFINE p == 16 * o + j + 1
  <2>1. p \in DOMAIN s /\ (p - 1) \div 16 = o /\ (p - 1) % 16 = j
    BY <1>1, <1>2
  <2> HIDE DEF p
  <2>2. PutBlock(s, m, b)[p] = IF o = m THEN b[j] ELSE s[p]
    BY <2>1 DEF PutBlock
  <2> QED BY <2>2 DEF p
<1>4. BlockAt(PutBlock(s, m, b), m) = b
  <2>1. \A j \in 0..15 : PutBlock(s, m, b)[16 * m + j + 1] = b[j]
    BY <1>3
  <2> QED BY <2>1 DEF BlockAt, Block
<1>5. ASSUME NEW o \in Nat, o # m, 16 * o + 16 <= Len(s)
      PROVE  BlockAt(PutBlock(s, m, b), o) = BlockAt(s, o)
  BY <1>3, <1>5 DEF BlockAt
<1> QED BY <1>4, <1>5

\* Buffers of whole blocks are equal when their blocks are.
LEMMA SameBlocks ==
  ASSUME NEW s \in Seq(Byte), NEW o \in Seq(Byte), Len(s) = Len(o), Len(s) % 16 = 0,
         \A m \in Nat : 16 * m < Len(s) => BlockAt(s, m) = BlockAt(o, m)
  PROVE  s = o
<1>1. \A j \in 1..Len(s) : s[j] = o[j]
  <2> TAKE j \in 1..Len(s)
  <2>1. PICK m \in Nat, r \in 0..15 : j = 16 * m + r + 1
    <3>1. (j - 1) \div 16 \in Nat /\ (j - 1) % 16 \in 0..15
          /\ j = 16 * ((j - 1) \div 16) + ((j - 1) % 16) + 1
      OBVIOUS
    <3> QED BY <3>1
  <2>2. BlockAt(s, m)[r] = BlockAt(o, m)[r]
    BY <2>1
  <2> QED BY <2>1, <2>2 DEF BlockAt
<1> QED BY <1>1

-----------------------------------------------------------------------------
(* The operators of the program with words of 32 bits, on the low bits.    *)

\* Neither ^ nor the reading and writing of bytes depends on the width of a word.
LEMMA NarrowXor == \A a, b : Narrow!Xor(a, b) = Xor(a, b)
BY DEF Narrow!Xor, Xor

LEMMA NarrowGet == \A b, j : Narrow!GET_ULONG_BE(b, j) = GET_ULONG_BE(b, j)
BY DEF Narrow!GET_ULONG_BE, GET_ULONG_BE

LEMMA NarrowPut == \A x : Narrow!PUT_ULONG_BE(Low(x)) = PUT_ULONG_BE(x)
<1>1. ASSUME NEW x PROVE PUT_ULONG_BE(Low(x)) = PUT_ULONG_BE(x)
  <2>1. Low(Low(x)) = Low(x)
    BY DEF Low
  <2> QED BY <2>1, PutLow
<1>2. \A x : Narrow!PUT_ULONG_BE(x) = PUT_ULONG_BE(x)
  BY DEF Narrow!PUT_ULONG_BE, PUT_ULONG_BE
<1> QED BY <1>1, <1>2

\* The low bits of a rotated long are the rotation of the word of 32 bits, whatever SHL
\* leaves above them.
LEMMA NarrowRotl == ASSUME NEW x, NEW s PROVE Narrow!ROTL(x, s) = Low(ROTL(x, s))
<1>1. 0..(32 - 1) = 0..31 /\ 0..31 \subseteq 0..(LongBits - 1)
  BY KeybordAssumption DEF KeybordAssumption
<1>2. Narrow!SHL(x, s) = Low(SHL(x, s))
  BY <1>1 DEF Narrow!SHL, SHL, Narrow!Low, Low
<1>3. {m \in 0..(32 - 1) : m + (32 - s) \in x} = Low({m \in 0..(LongBits - 1) : m + (32 - s) \in x})
  BY <1>1 DEF Low
<1> QED BY <1>2, <1>3 DEF Narrow!ROTL, ROTL, Low

\* The substitution reads the low bits and leaves none above them.
LEMMA NarrowSubstituted ==
  \A x : /\ Narrow!Substituted(Low(x)) = Substituted(x)
         /\ Low(Substituted(x)) = Substituted(x)
<1> TAKE x
<1>1. Narrow!Substituted(Low(x)) = Substituted(x)
  BY NarrowPut, NarrowGet DEF Narrow!Substituted, Substituted
<1>2. Substituted(x) \subseteq 0..31
  BY GetType DEF Substituted
<1> QED BY <1>1, <1>2 DEF Low

\* The three functions of the rounds commute with taking the low bits.
LEMMA NarrowLt == ASSUME NEW x PROVE Narrow!sm4Lt(Low(x)) = Low(sm4Lt(x))
<1> DEFINE bb == Substituted(x)
<1>1. Narrow!Substituted(Low(x)) = bb /\ Low(bb) = bb
  BY NarrowSubstituted
<1>2. \A s : Narrow!ROTL(bb, s) = Low(ROTL(bb, s))
  BY NarrowRotl
<1>3. Narrow!sm4Lt(Low(x))
        = Xor(Xor(Xor(Xor(bb, Narrow!ROTL(bb, 2)), Narrow!ROTL(bb, 10)), Narrow!ROTL(bb, 18)),
              Narrow!ROTL(bb, 24))
  BY <1>1, NarrowXor DEF Narrow!sm4Lt
<1>4. sm4Lt(x) = Xor(Xor(Xor(Xor(bb, ROTL(bb, 2)), ROTL(bb, 10)), ROTL(bb, 18)), ROTL(bb, 24))
  BY DEF sm4Lt
<1> HIDE DEF bb
<1> QED BY <1>1, <1>2, <1>3, <1>4, LowXor

LEMMA NarrowRK == ASSUME NEW x PROVE Narrow!sm4CalciRK(Low(x)) = Low(sm4CalciRK(x))
<1> DEFINE bb == Substituted(x)
<1>1. Narrow!Substituted(Low(x)) = bb /\ Low(bb) = bb
  BY NarrowSubstituted
<1>2. \A s : Narrow!ROTL(bb, s) = Low(ROTL(bb, s))
  BY NarrowRotl
<1>3. Narrow!sm4CalciRK(Low(x))
        = Xor(Xor(bb, Narrow!ROTL(bb, 13)), Narrow!ROTL(bb, 23))
  BY <1>1, NarrowXor DEF Narrow!sm4CalciRK
<1>4. sm4CalciRK(x) = Xor(Xor(bb, ROTL(bb, 13)), ROTL(bb, 23))
  BY DEF sm4CalciRK
<1> HIDE DEF bb
<1> QED BY <1>1, <1>2, <1>3, <1>4, LowXor

LEMMA NarrowF ==
  ASSUME NEW x0, NEW x1, NEW x2, NEW x3, NEW rk
  PROVE  Narrow!sm4F(Low(x0), Low(x1), Low(x2), Low(x3), Low(rk)) = Low(sm4F(x0, x1, x2, x3, rk))
<1> DEFINE x == Xor(Xor(Xor(x1, x2), x3), rk)
<1>1. Low(x) = Xor(Xor(Xor(Low(x1), Low(x2)), Low(x3)), Low(rk))
  BY LowXor
<1>2. Narrow!sm4F(Low(x0), Low(x1), Low(x2), Low(x3), Low(rk)) = Xor(Low(x0), Narrow!sm4Lt(Low(x)))
  BY <1>1, NarrowXor DEF Narrow!sm4F
<1>3. sm4F(x0, x1, x2, x3, rk) = Xor(x0, sm4Lt(x))
  BY DEF sm4F
<1> HIDE DEF x
<1> QED BY <1>2, <1>3, NarrowLt, LowXor

\* What deals with bytes only is the same for both programs.
LEMMA NarrowPadding ==
  /\ \A s : Narrow!paddingForEncryption(s) = paddingForEncryption(s)
  /\ \A s : Narrow!unpaddingForDecryption(s) = unpaddingForDecryption(s)
BY DEF Narrow!paddingForEncryption, paddingForEncryption,
       Narrow!unpaddingForDecryption, unpaddingForDecryption, Narrow!CLength, CLength,
       Narrow!ToByte, ToByte, Narrow!ToNumber, ToNumber, Narrow!Weight, Weight, Narrow!NUL, NUL

LEMMA NarrowBlocks ==
  /\ \A s, m : Narrow!BlockAt(s, m) = BlockAt(s, m)
  /\ \A s, m, b : Narrow!PutBlock(s, m, b) = PutBlock(s, m, b)
  /\ \A s : Narrow!Zeros(s) = Zeros(s)
  /\ \A a, b : Narrow!XorBlock(a, b) = XorBlock(a, b)
BY DEF Narrow!BlockAt, BlockAt, Narrow!PutBlock, PutBlock, Narrow!Zeros, Zeros, Narrow!NUL, NUL,
       Narrow!XorBlock, XorBlock, Narrow!Xor, Xor

\* The first four words of the key schedule.
LEMMA NarrowFirstKeys ==
  ASSUME NEW key PROVE Narrow!FirstKeys(key) = LowWords(FirstKeys(key))
<1>1. DOMAIN FK = 0..3
  BY KeybordAssumption DEF KeybordAssumption
<1>2. \A j \in 0..3 : Narrow!Xor(Narrow!GET_ULONG_BE(key, 4 * j), LowWords(FK)[j])
                        = Low(Xor(GET_ULONG_BE(key, 4 * j), FK[j]))
  <2> TAKE j \in 0..3
  <2>1. LowWords(FK)[j] = Low(FK[j])
    BY <1>1 DEF LowWords
  <2>2. Low(GET_ULONG_BE(key, 4 * j)) = GET_ULONG_BE(key, 4 * j)
    BY GetType DEF Low
  <2> QED BY <2>1, <2>2, NarrowXor, NarrowGet, LowXor
<1>3. Low({}) = {}
  BY DEF Low
<1> QED BY <1>2, <1>3 DEF Narrow!FirstKeys, FirstKeys, LowWords

=============================================================================
