---------------------------- MODULE MCKeybordSM4 ----------------------------
(***************************************************************************)
(* The tables of HGBKeybordSM4.c, the example of the SM4 standard, and     *)
(* texts around the size of a block.                                       *)
(***************************************************************************)
EXTENDS KeybordWidth

Bytes(numbers) == [j \in DOMAIN numbers |-> ToByte(numbers[j])]
Word(numbers) == LET b == Bytes(numbers) IN GET_ULONG_BE([j \in 0..3 |-> b[j + 1]], 0)
Sixteen(numbers) == [j \in 0..15 |-> ToByte(numbers[j + 1])]

\* SboxTable, row by row.
Table == <<
 214, 144, 233, 254, 204, 225,  61, 183,  22, 182,  20, 194,  40, 251,  44,   5,
  43, 103, 154, 118,  42, 190,   4, 195, 170,  68,  19,  38,  73, 134,   6, 153,
 156,  66,  80, 244, 145, 239, 152, 122,  51,  84,  11,  67, 237, 207, 172,  98,
 228, 179,  28, 169, 201,   8, 232, 149, 128, 223, 148, 250, 117, 143,  63, 166,
  71,   7, 167, 252, 243, 115,  23, 186, 131,  89,  60,  25, 230, 133,  79, 168,
 104, 107, 129, 178, 113, 100, 218, 139, 248, 235,  15,  75, 112,  86, 157,  53,
  30,  36,  14,  94,  99,  88, 209, 162,  37,  34, 124,  59,   1,  33, 120, 135,
 212,   0,  70,  87, 159, 211,  39,  82,  76,  54,   2, 231, 160, 196, 200, 158,
 234, 191, 138, 210,  64, 199,  56, 181, 163, 247, 242, 206, 249,  97,  21, 161,
 224, 174,  93, 164, 155,  52,  26,  85, 173, 147,  50,  48, 245, 140, 177, 227,
  29, 246, 226,  46, 130, 102, 202,  96, 192,  41,  35, 171,  13,  83,  78, 111,
 213, 219,  55,  69, 222, 253, 142,  47,   3, 255, 106, 114, 109, 108,  91,  81,
 141,  27, 175, 146, 187, 221, 188, 127,  17, 217,  92,  65,  31,  16,  90, 216,
  10, 193,  49, 136, 165, 205, 123, 189,  45, 116, 208,  18, 184, 229, 180, 176,
 137, 105, 151,  74,  12, 150, 119, 126, 101, 185, 241,   9, 197, 110, 198, 132,
  24, 240, 125, 236,  58, 220,  77,  32, 121, 238,  95,  62, 215, 203,  57,  72>>
MCSboxTable == [b \in Byte |-> ToByte(Table[ToNumber(b) + 1])]

MCFK == [j \in 0..3 |-> Word(<<<<163, 177, 186, 198>>, <<86, 170, 51, 80>>, <<103, 125, 145, 151>>, <<178, 112, 34, 220>>>>[j + 1])]

\* Byte j of the word CK[m] is (4m + j) * 7 modulo 256.
MCCK == [m \in 0..31 |-> Word([j \in 1..4 |-> ((4 * m + j - 1) * 7) % 256])]

-----------------------------------------------------------------------------

\* The example of the standard: its key is its plain text too.
Example == <<1, 35, 69, 103, 137, 171, 205, 239, 254, 220, 186, 152, 118, 84, 50, 16>>
ExampleCipher ==
  <<104, 30, 223, 52, 210, 6, 150, 94, 134, 179, 233, 79, 83, 110, 66, 70>>

Letters(length) == [j \in 1..length |-> ToByte(96 + j)]

\* One byte, the last length before a block, a block, the next length, two equal
\* blocks, and a NUL at the end, in the middle and at the beginning of a text.
MCTexts ==
  {Bytes(Example), Letters(1), Letters(15), Letters(17),
   Letters(16) \o Letters(16), Letters(3) \o <<NUL>>,
   Letters(5) \o <<NUL>> \o Letters(20), <<NUL>> \o Letters(16)}
MCKeys == {Sixteen(Example)}
MCIvs == {[j \in 0..15 |-> ToByte(255 - 17 * j)]}

\* The cipher is SM4, as HGBKeybordSM4.h says: the standard's example gives the
\* standard's result.
IsSM4 ==
  job.text = Bytes(Example) /\ job.mode = "ECB" /\ dir # "encrypt" =>
    SubSeq(cipher, 1, 16) = Bytes(ExampleCipher)
=============================================================================
