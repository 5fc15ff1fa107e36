-------------------------- MODULE DownLoadTask_proofs --------------------------
(***************************************************************************)
(* Theorems about DownLoadTask, for any addresses, any largest size and    *)
(* any precision of a float: what a restart preserves of a task, and how   *)
(* far it moves the sizes.                                                 *)
(***************************************************************************)
EXTENDS DownLoadTask, WellFoundedInduction, TLAPS

-----------------------------------------------------------------------------
(* Arithmetic.                                                             *)

LEMMA TimesMonotone ==
  ASSUME NEW a \in Nat, NEW b \in Nat, NEW c \in Nat, a <= b
  PROVE  a * c <= b * c /\ c * a <= c * b
<1>1. PICK d \in Nat : b = a + d
  <2>1. b - a \in Nat /\ b = a + (b - a)
    OBVIOUS
  <2>2. QED
    BY <2>1
<1>2. b * c = a * c + d * c /\ d * c \in Nat /\ a * c \in Nat
  BY <1>1
<1>3. c * b = b * c /\ c * a = a * c
  OBVIOUS
<1>4. QED
  BY <1>2, <1>3

\* Quotient and remainder.
LEMMA Division ==
  ASSUME NEW x \in Nat, NEW p \in Nat \ {0}
  PROVE  /\ x \div p \in Nat
         /\ x % p \in 0..(p - 1)
         /\ x = (x \div p) * p + (x % p)
OBVIOUS

LEMMA DivisionMonotone ==
  ASSUME NEW x \in Nat, NEW y \in Nat, NEW p \in Nat \ {0}, x <= y
  PROVE  x \div p <= y \div p
<1>1. CASE y \div p + 1 <= x \div p
  <2>1. (y \div p + 1) * p <= (x \div p) * p
    BY <1>1, TimesMonotone, Division
  <2>2. (y \div p + 1) * p = (y \div p) * p + p
    BY Division
  <2>3. QED
    BY <2>1, <2>2, Division
<1>2. QED
  BY <1>1, Division

-----------------------------------------------------------------------------
(* Floats.                                                                 *)

LEMMA UlpsPositive == Ulps \subseteq Nat \ {0}
BY TaskAssumption DEF TaskAssumption

LEMMA SizesAreNumbers == 0..MaxSize \subseteq Nat
BY TaskAssumption DEF TaskAssumption

LEMMA HalfPrecision == \E h \in Nat \ {0} : Precision = 2 * h
<1>1. Precision \in Nat \ {0} /\ Precision % 2 = 0
  BY TaskAssumption DEF TaskAssumption
<1>2. Precision = 2 * (Precision \div 2) /\ Precision \div 2 \in Nat \ {0}
  BY <1>1
<1>3. QED
  BY <1>2

\* A nonempty set of natural numbers has a least element.
LEMMA LeastNumber ==
  ASSUME NEW S \in SUBSET Nat, S # {}
  PROVE  \E m \in S : \A x \in S : m <= x
<1>1. PICK m \in S : \A x \in S : ~ (<<x, m>> \in OpToRel(<, Nat))
  BY NatLessThanWellFounded, WFMin
<1>2. ASSUME NEW x \in S PROVE m <= x
  <2>1. x \in Nat /\ m \in Nat /\ ~ (x < m)
    BY <1>1 DEF OpToRel
  <2>2. QED
    BY <2>1
<1>3. QED
  BY <1>2

\* Spacings are powers of two: of two, the larger is at least the smaller doubled.
LEMMA UlpsDouble ==
  ASSUME NEW p \in Ulps, NEW q \in Ulps, q < p
  PROVE  2 * q <= p
<1> DEFINE Bad == {a \in Ulps : \E b \in Ulps : b < a /\ ~ (2 * b <= a)}
<1>1. SUFFICES Bad = {}
  OBVIOUS
<1>2. SUFFICES ASSUME Bad # {} PROVE FALSE
  OBVIOUS
<1>3. PICK a \in Bad : \A x \in Bad : a <= x
  BY <1>2, UlpsPositive, LeastNumber
<1>4. PICK b \in Ulps : b < a /\ ~ (2 * b <= a)
  OBVIOUS
<1>5. a \in Nat \ {0} /\ b \in Nat \ {0}
  BY UlpsPositive
<1>6. PICK c \in Ulps : a = 2 * c
  BY <1>4, <1>5, TaskAssumption DEF TaskAssumption
<1>7. c \in Nat \ {0} /\ c < a /\ c < b
  BY <1>4, <1>5, <1>6, UlpsPositive
<1>8. PICK d \in Ulps : b = 2 * d
  BY <1>5, <1>7, TaskAssumption DEF TaskAssumption
<1>9. d \in Nat \ {0} /\ d < c /\ ~ (2 * d <= c)
  BY <1>4, <1>5, <1>6, <1>7, <1>8, UlpsPositive
<1>10. c \in Bad
  BY <1>9
<1>11. QED
  BY <1>3, <1>5, <1>7, <1>10

\* The spacing of the floats around a size.
LEMMA UlpOf ==
  ASSUME NEW x \in 0..MaxSize
  PROVE  /\ Ulp(x) \in Ulps
         /\ x < Ulp(x) * Precision
         /\ Ulp(x) = 1 \/ 2 * x >= Ulp(x) * Precision
<1> DEFINE S == {p \in Ulps : x < p * Precision}
<1>1. S # {}
  <2>1. PICK p \in Ulps : MaxSize < p * Precision
    BY TaskAssumption DEF TaskAssumption
  <2>2. MaxSize \in Nat /\ p \in Nat /\ Precision \in Nat
    BY TaskAssumption, UlpsPositive DEF TaskAssumption
  <2>3. p * Precision \in Nat
    BY <2>2
  <2>4. x < p * Precision
    BY <2>1, <2>2, <2>3
  <2>5. QED
    BY <2>4
<1>2. PICK p \in S : \A q \in S : p <= q
  BY <1>1, UlpsPositive, LeastNumber
<1>3. p = 1 \/ 2 * x >= p * Precision
  <2>1. SUFFICES ASSUME p # 1 PROVE 2 * x >= p * Precision
    OBVIOUS
  <2>2. PICK q \in Ulps : p = 2 * q
    BY <2>1, TaskAssumption DEF TaskAssumption
  <2>3. q \in Nat \ {0} /\ Precision \in Nat /\ x \in Nat
    BY UlpsPositive, SizesAreNumbers, TaskAssumption DEF TaskAssumption
  <2>4. q \notin S
    BY <1>2, <2>2, <2>3
  <2>5. q * Precision <= x /\ q * Precision \in Nat
    BY <2>3, <2>4
  <2>6. p * Precision = 2 * (q * Precision)
    BY <2>2, <2>3
  <2>7. QED
    BY <2>3, <2>5, <2>6
<1>4. \E q \in Ulps : x < q * Precision /\ (q = 1 \/ 2 * x >= q * Precision)
  BY <1>3
<1>5. QED
  BY <1>4 DEF Ulp

\* A multiple of p next to x, no further from it than half of p.
LEMMA RoundedNear ==
  ASSUME NEW x \in Nat, NEW p \in Nat \ {0}
  PROVE  /\ Rounded(x, p) \in Nat
         /\ (x \div p) * p <= Rounded(x, p)
         /\ Rounded(x, p) <= (x \div p + 1) * p
         /\ 2 * (Rounded(x, p) - x) <= p
         /\ 2 * (x - Rounded(x, p)) <= p
<1> DEFINE a == x \div p
           r == x % p
<1>1. a \in Nat /\ r \in 0..(p - 1) /\ x = a * p + r
  OBVIOUS
<1>2. (a + 1) * p = a * p + p /\ a * p \in Nat
  BY <1>1
<1>3. CASE RoundsUp(x, p)
  <2>1. 2 * r >= p
    BY <1>1, <1>3 DEF RoundsUp
  <2>2. Rounded(x, p) = (a + 1) * p
    BY <1>3 DEF Rounded
  <2> HIDE DEF a, r
  <2>3. QED
    BY <1>1, <1>2, <2>1, <2>2
<1>4. CASE ~RoundsUp(x, p)
  <2>1. 2 * r <= p
    BY <1>1, <1>4 DEF RoundsUp
  <2>2. Rounded(x, p) = a * p
    BY <1>4 DEF Rounded
  <2> HIDE DEF a, r
  <2>3. QED
    BY <1>1, <1>2, <2>1, <2>2
<1>5. QED
  BY <1>3, <1>4

\* On one grid, a larger number is not rounded to a smaller one.
LEMMA RoundedMonotone ==
  ASSUME NEW x \in Nat, NEW y \in Nat, NEW p \in Nat \ {0}, x <= y
  PROVE  Rounded(x, p) <= Rounded(y, p)
<1>1. /\ x \div p \in Nat /\ y \div p \in Nat /\ x \div p <= y \div p
      /\ x % p \in Nat /\ y % p \in Nat
  BY Division, DivisionMonotone
<1>2. CASE x \div p < y \div p
  <2>1. (x \div p + 1) * p <= (y \div p) * p
    BY <1>1, <1>2, TimesMonotone
  <2>2. /\ Rounded(x, p) \in Nat /\ Rounded(x, p) <= (x \div p + 1) * p
        /\ Rounded(y, p) \in Nat /\ (y \div p) * p <= Rounded(y, p)
    BY RoundedNear
  <2>3. /\ (x \div p + 1) * p \in Nat /\ (y \div p) * p \in Nat
    BY <1>1
  <2>4. QED
    BY <2>1, <2>2, <2>3
<1>3. CASE x \div p = y \div p
  <2>1. x % p <= y % p
    <3>1. (x \div p) * p \in Nat
      BY <1>1
    <3>2. /\ x = (x \div p) * p + (x % p)
          /\ y = (x \div p) * p + (y % p)
      BY <1>3, Division
    <3>3. QED
      BY <1>1, <3>1, <3>2
  <2>2. RoundsUp(x, p) => RoundsUp(y, p)
    BY <1>1, <1>3, <2>1 DEF RoundsUp
  <2>3. x \div p + 1 \in Nat /\ x \div p <= x \div p + 1
    BY <1>1
  <2>4. (x \div p) * p <= (x \div p + 1) * p
    BY <1>1, <2>3, TimesMonotone
  <2>5. (x \div p) * p \in Nat /\ (x \div p + 1) * p \in Nat
    BY <1>1, <2>3
  <2>6. QED
    BY <1>3, <2>2, <2>4, <2>5 DEF Rounded
<1>4. QED
  BY <1>1, <1>2, <1>3

LEMMA FloatOfSize ==
  ASSUME NEW x \in 0..MaxSize
  PROVE  floatValue(x) = Rounded(x, Ulp(x)) /\ floatValue(x) \in Nat
<1>1. Ulp(x) \in Nat \ {0} /\ x \in Nat
  BY UlpOf, UlpsPositive, SizesAreNumbers
<1>2. floatValue(x) = Rounded(x, Ulp(x))
  BY <1>1 DEF floatValue
<1>3. QED
  BY <1>1, <1>2, RoundedNear

\* The larger of two sizes has the wider spacing.
LEMMA UlpMonotone ==
  ASSUME NEW x \in 0..MaxSize, NEW y \in 0..MaxSize, x <= y
  PROVE  Ulp(x) <= Ulp(y)
<1> DEFINE p == Ulp(x)
           q == Ulp(y)
<1>1. /\ p \in Ulps /\ p \in Nat \ {0} /\ q \in Ulps /\ q \in Nat \ {0}
      /\ p = 1 \/ 2 * x >= p * Precision
      /\ y < q * Precision
  BY UlpOf, UlpsPositive
<1> HIDE DEF p, q
<1>2. SUFFICES ASSUME q < p PROVE FALSE
  BY <1>1 DEF p, q
<1>3. 2 * q <= p
  BY <1>1, <1>2, UlpsDouble
<1>4. Precision \in Nat /\ 2 * q \in Nat
  BY <1>1, TaskAssumption DEF TaskAssumption
<1>5. (2 * q) * Precision <= p * Precision
  BY <1>1, <1>3, <1>4, TimesMonotone
<1>6. (2 * q) * Precision = 2 * (q * Precision) /\ q * Precision \in Nat /\ p * Precision \in Nat
  BY <1>1, <1>4
<1>7. x \in Nat /\ y \in Nat
  BY SizesAreNumbers
<1>8. QED
  BY <1>1, <1>2, <1>5, <1>6, <1>7

\* A larger size is not read back as a smaller one.
LEMMA FloatMonotone ==
  ASSUME NEW x \in 0..MaxSize, NEW y \in 0..MaxSize, x <= y
  PROVE  floatValue(x) <= floatValue(y)
<1> DEFINE p == Ulp(x)
           q == Ulp(y)
<1>1. /\ p \in Ulps /\ p \in Nat \ {0} /\ q \in Ulps /\ q \in Nat \ {0}
      /\ x < p * Precision
      /\ q = 1 \/ 2 * y >= q * Precision
      /\ p <= q
  BY UlpOf, UlpsPositive, UlpMonotone
<1>2. /\ floatValue(x) = Rounded(x, p) /\ floatValue(y) = Rounded(y, q)
      /\ x \in Nat /\ y \in Nat
  BY FloatOfSize, SizesAreNumbers
<1> HIDE DEF p, q
<1>0. /\ x \div p \in Nat /\ x % p \in Nat
      /\ x = (x \div p) * p + (x % p)
      /\ y \div q \in Nat /\ y % q \in 0..(q - 1)
      /\ y = (y \div q) * q + (y % q)
  <2>1. x \in Nat /\ y \in Nat /\ p \in Nat \ {0} /\ q \in Nat \ {0}
    BY <1>1, <1>2
  <2>2. /\ x \div p \in Nat /\ x % p \in Nat
        /\ x = (x \div p) * p + (x % p)
    BY ONLY <2>1
  <2>3. /\ y \div q \in Nat /\ y % q \in 0..(q - 1)
        /\ y = (y \div q) * q + (y % q)
    BY ONLY <2>1
  <2>4. QED
    BY <2>2, <2>3
<1>3. CASE p = q
  BY <1>1, <1>2, <1>3, RoundedMonotone
<1>4. CASE p < q
  <2>1. PICK h \in Nat \ {0} : Precision = 2 * h
    BY HalfPrecision
  <2>2. 2 * p <= q /\ 2 * p \in Nat
    BY <1>1, <1>4, UlpsDouble
  <2>3. (2 * p) * h <= q * h
    BY <1>1, <2>1, <2>2, TimesMonotone
  <2>4. /\ (2 * p) * h = p * Precision /\ 2 * (q * h) = q * Precision
        /\ q * h \in Nat /\ p * Precision \in Nat
    BY <1>1, <2>1
  <2>5. Rounded(x, p) <= p * Precision
    <3>1. x \div p + 1 <= Precision
      <4>2. CASE Precision <= x \div p
        <5>1. Precision * p <= (x \div p) * p
          BY <1>1, <2>1, <1>0, <4>2, TimesMonotone
        <5>2. Precision * p = p * Precision /\ (x \div p) * p \in Nat
          BY <1>1, <2>1, <1>0
        <5>3. QED
          BY <1>1, <1>2, <2>4, <1>0, <5>1, <5>2
      <4>3. QED
        BY <2>1, <1>0, <4>2
    <3>2. x \div p + 1 \in Nat
      BY <1>0
    <3>3. (x \div p + 1) * p <= Precision * p
      BY <1>1, <2>1, <3>1, <3>2, TimesMonotone
    <3>4. Precision * p = p * Precision /\ (x \div p + 1) * p \in Nat
      BY <1>1, <2>1, <3>2
    <3>5. Rounded(x, p) \in Nat /\ Rounded(x, p) <= (x \div p + 1) * p
      BY <1>1, <1>2, RoundedNear
    <3>6. QED
      BY <2>4, <3>3, <3>4, <3>5
  <2>6. q * h <= Rounded(y, q)
    <3>1. q * h <= y
      BY <1>1, <1>2, <1>4, <2>4
    <3>2. h <= y \div q
      <4>2. CASE y \div q + 1 <= h
        <5>1. (y \div q + 1) * q <= h * q
          BY <1>1, <2>1, <1>0, <4>2, TimesMonotone
        <5>2. h * q = q * h /\ (y \div q + 1) * q = (y \div q) * q + q /\ (y \div q) * q \in Nat
          BY <1>1, <2>1, <1>0
        <5>3. QED
          BY <1>1, <1>2, <2>4, <3>1, <1>0, <5>1, <5>2
      <4>3. QED
        BY <2>1, <1>0, <4>2
    <3>3. y \div q \in Nat
      BY <1>0
    <3>4. h * q <= (y \div q) * q
      BY <1>1, <2>1, <3>2, <3>3, TimesMonotone
    <3>5. h * q = q * h /\ (y \div q) * q \in Nat
      BY <1>1, <2>1, <3>3
    <3>6. Rounded(y, q) \in Nat /\ (y \div q) * q <= Rounded(y, q)
      BY <1>1, <1>2, RoundedNear
    <3>7. QED
      BY <2>4, <3>4, <3>5, <3>6
  <2>7. Rounded(x, p) \in Nat /\ Rounded(y, q) \in Nat
    BY <1>1, <1>2, RoundedNear
  <2>8. QED
    BY <1>2, <2>3, <2>4, <2>5, <2>6, <2>7
<1>5. QED
  BY <1>1, <1>3, <1>4

\* Rounding stays within the sizes of the model.
LEMMA FloatIsSize ==
  ASSUME NEW x \in 0..MaxSize
  PROVE  floatValue(x) \in 0..MaxSize
<1>1. MaxSize \in Nat /\ MaxSize \in 0..MaxSize /\ x <= MaxSize
  BY TaskAssumption DEF TaskAssumption
<1>2. floatValue(x) <= floatValue(MaxSize) /\ floatValue(x) \in Nat
  BY <1>1, FloatMonotone, FloatOfSize
<1>3. QED
  BY <1>1, <1>2, MaxSizeAssumption DEF MaxSizeAssumption

\* What SizesSurvive says of one size.
Near(x, y) ==
  LET off == IF y > x THEN y - x ELSE x - y
  IN  IF x <= Precision THEN y = x ELSE off * Precision <= x

\* The nearest float is within half a spacing, and a spacing is at most two parts
\* in Precision of the size.
LEMMA FloatNear ==
  ASSUME NEW x \in 0..MaxSize
  PROVE  Near(x, floatValue(x))
<1> DEFINE p == Ulp(x)
           y == floatValue(x)
           off == IF y > x THEN y - x ELSE x - y
<1>1. /\ p \in Nat \ {0}
      /\ p = 1 \/ 2 * x >= p * Precision
      /\ x \in Nat
  BY UlpOf, UlpsPositive, SizesAreNumbers
<1>2. y = Rounded(x, p)
  BY FloatOfSize
<1>3. y \in Nat /\ 2 * (y - x) <= p /\ 2 * (x - y) <= p
  BY <1>1, <1>2, RoundedNear
<1> HIDE DEF p, y
<1>4. off \in Nat /\ 2 * off <= p
  BY <1>1, <1>3
<1>5. Precision \in Nat \ {0}
  BY TaskAssumption DEF TaskAssumption
<1>6. CASE p = 1
  <2>1. y = x
    BY <1>1, <1>3, <1>6
  <2>2. off * Precision = 0
    BY <1>1, <1>5, <2>1
  <2>3. QED
    BY <1>1, <2>1, <2>2 DEF Near, y
<1>7. CASE 2 * x >= p * Precision
  <2>1. (2 * off) * Precision <= p * Precision /\ 2 * off \in Nat
    BY <1>1, <1>4, <1>5, TimesMonotone
  <2>2. /\ (2 * off) * Precision = 2 * (off * Precision)
        /\ off * Precision \in Nat /\ p * Precision \in Nat
    BY <1>1, <1>4, <1>5
  <2>3. off * Precision <= x
    BY <1>1, <1>7, <2>1, <2>2
  <2>4. ASSUME x <= Precision, p # 1 PROVE y = x
    <3>1. CASE p <= 2
      <4>1. p = 2 /\ x = Precision
        BY <1>1, <1>5, <1>7, <2>4, <3>1
      <4>2. x % p = 0 /\ (x \div p) * p = x
        BY <4>1, TaskAssumption DEF TaskAssumption
      <4>3. ~RoundsUp(x, p)
        BY <1>1, <4>2 DEF RoundsUp
      <4>4. QED
        BY <1>2, <4>2, <4>3 DEF Rounded
    <3>2. CASE 3 <= p
      <4>1. 3 * Precision <= p * Precision
        BY <1>1, <1>5, <3>2, TimesMonotone
      <4>2. QED
        BY <1>1, <1>5, <1>7, <2>2, <2>4, <4>1
    <3>3. QED
      BY <1>1, <3>1, <3>2
  <2>5. QED
    BY <1>6, <2>3, <2>4 DEF Near, y
<1>8. QED
  BY <1>1, <1>6, <1>7

-----------------------------------------------------------------------------
(* To the dictionary and back.                                             *)

\* A model whose address was set, as every one that is written to the plist.
Addressed(m) ==
  /\ m \in Model
  /\ m.url # Nil => m.name # Nil /\ m.path # Nil

LEMMA SavedField ==
  ASSUME NEW m, NEW f \in Fields, NEW default
  PROVE  Get(dictionaryFromTaskModel(m), f, default)
           = IF m[f] # Nil THEN m[f] ELSE default
BY DEF Get, dictionaryFromTaskModel

LEMMA NewIsModel == ASSUME NEW i \in Ids PROVE New(i) \in Model
BY TaskAssumption DEF TaskAssumption, New, Model, State

LEMMA LastNameType == ASSUME NEW u \in Urls PROVE LastName[u] \in Names
BY DEF Names

LEMMA WithUrlType ==
  ASSUME NEW m \in Model, NEW u \in Urls
  PROVE  WithUrl(m, u) \in Model
<1>1. LastName[u] \in Names /\ <<m.id, LastName[u]>> \in Ids \X Names
  BY LastNameType DEF Model
<1>2. QED
  BY <1>1 DEF WithUrl, Model

\* A size read back: unknown stays unknown.
LEMMA FloatTypes ==
  /\ \A x \in 0..MaxSize : floatValue(x) \in 0..MaxSize
  /\ floatValue(SizeUnknown) = SizeUnknown
BY FloatIsSize DEF floatValue, SizeUnknown

\* taskModelFormDictionary undoes dictionaryFromTaskModel but for the progress,
\* whose key it misspells, and the precision of the sizes.
THEOREM RoundTrip ==
  ASSUME NEW m, Addressed(m), m.url # Nil, NEW i \in Ids
  PROVE  taskModelFormDictionary(dictionaryFromTaskModel(m), i)
           = [m EXCEPT !.progress = 0,
                       !.downloadSize = floatValue(m.downloadSize),
                       !.totalSize = floatValue(m.totalSize)]
<1> DEFINE d == dictionaryFromTaskModel(m)
<1>1. /\ m.id # Nil /\ m.name # Nil /\ m.groupId # Nil /\ m.groupId = "common"
      /\ m.path # Nil /\ m.status # Nil
      /\ m.downloadSize # Nil /\ m.totalSize # Nil
  <2>1. m.downloadSize \in Int /\ m.totalSize \in Int
    BY TaskAssumption DEF Addressed, Model, TaskAssumption, SizeUnknown
  <2>2. QED
    BY <2>1, NilAssumption DEF Addressed, Model, NilAssumption
<1>2. /\ Get(d, "id", i) = m.id
      /\ Get(d, "name", Nil) = m.name
      /\ Get(d, "groupId", "common") = m.groupId
      /\ Get(d, "data", Nil) = m.data
      /\ Get(d, "downloadSize", 0) = m.downloadSize
      /\ Get(d, "totalSize", 0) = m.totalSize
      /\ \A s : Get(d, "path", s) = m.path
      /\ \A s : Get(d, "status", s) = m.status
  BY <1>1, SavedField DEF Fields
<1>3. "url" \in DOMAIN d /\ d["url"] = m.url /\ "progross" \notin DOMAIN d
  BY DEF dictionaryFromTaskModel, Fields
<1>4. m \in Model /\ m.url \in Urls
  BY DEF Addressed, Model
<1> HIDE DEF d
<1> DEFINE new == New(i)
           named == [new EXCEPT !.id = Get(d, "id", i),
                                !.name = Get(d, "name", Nil),
                                !.groupId = Get(d, "groupId", "common")]
           addressed == WithUrl(named, d["url"])
           read == [addressed EXCEPT
                      !.path = m.path, !.data = m.data, !.status = m.status,
                      !.progress = @,
                      !.downloadSize = floatValue(m.downloadSize),
                      !.totalSize = floatValue(m.totalSize)]
<1>5. taskModelFormDictionary(d, i) = read
  BY <1>2, <1>3 DEF taskModelFormDictionary
<1>6. new \in Model /\ new.progress = 0
  BY NewIsModel DEF New
<1> HIDE DEF new
<1>7. /\ named \in Model
      /\ named.id = m.id /\ named.name = m.name /\ named.progress = 0
  BY <1>1, <1>2, <1>4, <1>6 DEF Model
<1> HIDE DEF named
<1>8. /\ addressed \in Model
      /\ addressed.id = m.id /\ addressed.name = m.name /\ addressed.url = m.url
      /\ addressed.progress = 0
  <2>1. addressed \in Model
    BY <1>3, <1>4, <1>7, WithUrlType
  <2>2. QED
    BY <1>1, <1>3, <1>7, <2>1 DEF WithUrl, Model
<1> HIDE DEF addressed
<1>9. /\ floatValue(m.downloadSize) \in 0..MaxSize
      /\ floatValue(m.totalSize) \in 0..MaxSize \cup {SizeUnknown}
  BY <1>4, FloatTypes DEF Model
<1>10. /\ read \in Model
       /\ read.id = m.id /\ read.name = m.name /\ read.groupId = m.groupId
       /\ read.url = m.url /\ read.path = m.path /\ read.data = m.data
       /\ read.status = m.status /\ read.progress = 0
       /\ read.downloadSize = floatValue(m.downloadSize)
       /\ read.totalSize = floatValue(m.totalSize)
  BY <1>1, <1>4, <1>8, <1>9 DEF Model
<1> HIDE DEF read
<1> DEFINE kept == [m EXCEPT !.progress = 0,
                             !.downloadSize = floatValue(m.downloadSize),
                             !.totalSize = floatValue(m.totalSize)]
<1>11. /\ kept \in Model
       /\ kept.id = m.id /\ kept.name = m.name /\ kept.groupId = m.groupId
       /\ kept.url = m.url /\ kept.path = m.path /\ kept.data = m.data
       /\ kept.status = m.status /\ kept.progress = 0
       /\ kept.downloadSize = floatValue(m.downloadSize)
       /\ kept.totalSize = floatValue(m.totalSize)
  <2>1. ASSUME NEW x \in 0..MaxSize, NEW y \in 0..MaxSize \cup {SizeUnknown}
        PROVE  [m EXCEPT !.progress = 0, !.downloadSize = x, !.totalSize = y]
                 \in Model
    BY ONLY <1>4, <2>1, 0 \in Int DEF Model
  <2>2. kept \in Model
    BY <1>9, <2>1
  <2>3. QED
    BY <1>4, <2>2 DEF Model
<1> HIDE DEF kept
<1>12. read = kept
  BY <1>10, <1>11 DEF Model
<1>13. QED
  BY <1>5, <1>12 DEF d, kept

-----------------------------------------------------------------------------
(* A task and its dictionary.                                              *)

Kept == {"id", "name", "groupId", "path", "data", "status"}
Sizes == {"downloadSize", "totalSize"}

WithinTotal(m) == m.totalSize # SizeUnknown => m.downloadSize <= m.totalSize

\* The dictionary is that of model m, and the task is still m, but for an address
\* set since, the progress, and a rounding of the sizes by an earlier restart.
SavedAs(m) ==
  /\ Addressed(m)
  /\ m.url # Nil
  /\ WithinTotal(m)
  /\ dic = dictionaryFromTaskModel(m)
  /\ \A f \in Kept : task[f] = m[f]
  /\ \A f \in Sizes : task[f] = m[f] \/ task[f] = floatValue(m[f])

TaskInv ==
  /\ Addressed(task)
  /\ WithinTotal(task)
  /\ dic # Nil => \E m \in Model : SavedAs(m)

LEMMA InitTaskInv == Init => TaskInv
<1> SUFFICES ASSUME Init PROVE TaskInv
  OBVIOUS
<1>1. PICK i \in Ids : task = New(i)
  BY DEF Init
<1>2. task \in Model
  BY <1>1, NewIsModel
<1>3. task.url = Nil /\ task.downloadSize = 0 /\ task.totalSize = 0
  BY <1>1 DEF New
<1>4. QED
  BY <1>2, <1>3 DEF Init, TaskInv, Addressed, WithinTotal

LEMMA SetUrlInv == ASSUME TaskInv, setUrl PROVE TaskInv'
<1>1. PICK u \in Urls : task' = WithUrl(task, u)
  BY DEF setUrl
<1>2. task \in Model /\ task' \in Model
  BY <1>1, WithUrlType DEF TaskInv, Addressed
<1>3. LastName[u] # Nil /\ <<task.id, LastName[u]>> # Nil
  BY <1>2, LastNameType, NilAssumption DEF NilAssumption, Model
<1>4. /\ task'.path = IF task.path = Nil THEN <<task.id, LastName[u]>> ELSE task.path
      /\ task'.name = IF task.name = Nil THEN LastName[u] ELSE task.name
      /\ task'.id = task.id /\ task'.groupId = task.groupId
      /\ task'.data = task.data /\ task'.status = task.status
      /\ task'.downloadSize = task.downloadSize
      /\ task'.totalSize = task.totalSize
  BY <1>1, <1>2 DEF WithUrl, Model
<1>5. Addressed(task') /\ WithinTotal(task')
  BY <1>2, <1>3, <1>4 DEF Addressed, WithinTotal, TaskInv
<1>6. ASSUME NEW m \in Model, SavedAs(m)
      PROVE  SavedAs(m)'
  <2>1. task.path # Nil /\ task.name # Nil
    BY <1>6 DEF SavedAs, Addressed, Kept
  <2>2. /\ \A f \in Kept : task'[f] = task[f]
        /\ \A f \in Sizes : task'[f] = task[f]
    BY <1>4, <2>1 DEF Kept, Sizes
  <2>3. QED
    BY <1>6, <2>2 DEF SavedAs, setUrl
<1>7. QED
  BY <1>5, <1>6 DEF TaskInv, setUrl

\* A callback that stores consistent sizes saves the model it leaves.
LEMMA UpdateInv ==
  ASSUME TaskInv, NEW m \in Model, Update(m), WithinTotal(m),
         m.name = task.name, m.path = task.path, m.url = task.url
  PROVE  TaskInv'
<1>1. task' = m /\ dic' = dictionaryFromTaskModel(m) /\ task.url # Nil
  BY DEF Update
<1>2. Addressed(m)
  BY DEF TaskInv, Addressed
<1>3. SavedAs(m)'
  BY <1>1, <1>2 DEF SavedAs
<1>4. QED
  BY <1>1, <1>2, <1>3 DEF TaskInv

LEMMA WriteInv == ASSUME TaskInv, didWriteData PROVE TaskInv'
<1>1. PICK total \in 1..MaxSize \cup {SizeUnknown} :
        \E written \in IF total = SizeUnknown THEN {MaxSize}
                       ELSE {total \div 2, total - 1, total} :
          Update([task EXCEPT !.status = "Runing", !.totalSize = total,
                              !.downloadSize = written,
                              !.progress = Progress(written, total)])
  BY DEF didWriteData
<1>2. PICK written \in IF total = SizeUnknown THEN {MaxSize}
                       ELSE {total \div 2, total - 1, total} :
        Update([task EXCEPT !.status = "Runing", !.totalSize = total,
                            !.downloadSize = written,
                            !.progress = Progress(written, total)])
  BY <1>1
<1>3. /\ total \in 0..MaxSize \cup {SizeUnknown}
      /\ written \in 0..MaxSize
      /\ total # SizeUnknown => written <= total
      /\ Progress(written, total) \in Int
  <2>1. MaxSize \in Nat
    BY TaskAssumption DEF TaskAssumption
  <2>2. CASE total = SizeUnknown
    BY <2>1, <2>2 DEF Progress, SizeUnknown
  <2>3. CASE total \in 1..MaxSize
    <3>1. total \in Nat \ {0} /\ total <= MaxSize
      BY <2>1, <2>3
    <3>2. total # SizeUnknown
      BY <3>1 DEF SizeUnknown
    <3>3. total \div 2 \in 0..total /\ total - 1 \in 0..total /\ total \in 0..total
      BY <3>1
    <3>4. written \in 0..total
      BY <3>2, <3>3
    <3>5. (100 * written) \div total \in Int
      BY <3>1, <3>4
    <3>6. QED
      BY <2>1, <3>1, <3>2, <3>4, <3>5 DEF Progress
  <2>4. QED
    BY <2>2, <2>3
<1> DEFINE percent == Progress(written, total)
           m == [task EXCEPT !.status = "Runing", !.totalSize = total,
                             !.downloadSize = written, !.progress = percent]
<1>4. percent \in Int
  BY <1>3
<1> HIDE DEF percent
<1>5. task \in Model /\ "Runing" \in State
  BY DEF TaskInv, Addressed, State
<1>6. m \in Model
  BY <1>3, <1>4, <1>5 DEF Model
<1>7. /\ m.totalSize = total /\ m.downloadSize = written
      /\ m.name = task.name /\ m.path = task.path /\ m.url = task.url
  BY <1>5 DEF Model
<1>8. Update(m)
  BY <1>2 DEF percent
<1> HIDE DEF m
<1>9. QED
  BY <1>3, <1>6, <1>7, <1>8, UpdateInv DEF WithinTotal

LEMMA FinishInv == ASSUME TaskInv, didFinishDownloading PROVE TaskInv'
<1>1. PICK total \in 1..MaxSize :
        Update([task EXCEPT !.status = "Completed", !.totalSize = total,
                            !.downloadSize = total, !.progress = 100])
  BY DEF didFinishDownloading
<1> DEFINE m == [task EXCEPT !.status = "Completed", !.totalSize = total,
                             !.downloadSize = total, !.progress = 100]
<1>2. total \in 0..MaxSize /\ total <= total /\ total \in Int
  BY TaskAssumption DEF TaskAssumption
<1>3. task \in Model /\ "Completed" \in State
  BY DEF TaskInv, Addressed, State
<1>4. m \in Model
  <2>1. total \in 0..MaxSize \cup {SizeUnknown}
    BY <1>2
  <2>2. QED
    BY ONLY <1>2, <1>3, <2>1, 100 \in Int DEF Model
<1>5. /\ m.totalSize = total /\ m.downloadSize = total
      /\ m.name = task.name /\ m.path = task.path /\ m.url = task.url
  BY <1>3 DEF Model
<1>6. Update(m)
  BY <1>1
<1> HIDE DEF m
<1>7. QED
  BY <1>2, <1>4, <1>5, <1>6, UpdateInv DEF WithinTotal

LEMMA CancelInv == ASSUME TaskInv, cancelCompletes PROVE TaskInv'
<1>1. PICK d \in {"data", Nil}, s \in {"Cancel", "UnExpectedCancel"} :
        Update([task EXCEPT !.status = s, !.data = d])
  BY DEF cancelCompletes
<1> DEFINE m == [task EXCEPT !.status = s, !.data = d]
<1>2. task \in Model /\ s \in State
  BY DEF TaskInv, Addressed, State
<1>3. m \in Model
  BY <1>2 DEF Model
<1>4. /\ m.totalSize = task.totalSize /\ m.downloadSize = task.downloadSize
      /\ m.name = task.name /\ m.path = task.path /\ m.url = task.url
  BY <1>2 DEF Model
<1>5. Update(m)
  BY <1>1
<1> HIDE DEF m
<1>6. QED
  BY <1>3, <1>4, <1>5, UpdateInv DEF WithinTotal, TaskInv

\* What a new process makes of a saved model: the two sizes are rounded.
LEMMA RelaunchReads ==
  ASSUME TaskInv, Relaunch
  PROVE  \E m \in Model :
           /\ SavedAs(m)
           /\ task' \in Model
           /\ task'.url = m.url
           /\ \A f \in Kept : task'[f] = m[f]
           /\ \A f \in Sizes : task'[f] = floatValue(m[f])
<1>1. PICK m \in Model : SavedAs(m)
  BY DEF TaskInv, Relaunch
<1>2. PICK i \in Ids : task' = taskModelFormDictionary(dictionaryFromTaskModel(m), i)
  BY <1>1 DEF Relaunch, SavedAs
<1>3. task' = [m EXCEPT !.progress = 0,
                        !.downloadSize = floatValue(m.downloadSize),
                        !.totalSize = floatValue(m.totalSize)]
  BY <1>1, <1>2, RoundTrip DEF SavedAs
<1>4. /\ floatValue(m.downloadSize) \in 0..MaxSize
      /\ floatValue(m.totalSize) \in 0..MaxSize \cup {SizeUnknown}
  BY FloatTypes DEF Model
<1>5. ASSUME NEW x \in 0..MaxSize, NEW y \in 0..MaxSize \cup {SizeUnknown},
             task' = [m EXCEPT !.progress = 0, !.downloadSize = x, !.totalSize = y]
      PROVE  /\ task' \in Model
             /\ task'.url = m.url
             /\ \A f \in Kept : task'[f] = m[f]
             /\ task'.downloadSize = x /\ task'.totalSize = y
  <2>1. task' \in Model
    BY ONLY <1>5, m \in Model, 0 \in Int DEF Model
  <2>2. task'.url = m.url /\ task'.downloadSize = x /\ task'.totalSize = y
    BY <1>5 DEF Model
  <2>3. \A f \in Kept : task'[f] = m[f]
    BY <1>5 DEF Model, Kept
  <2>4. QED
    BY <2>1, <2>2, <2>3
<1>6. QED
  BY <1>1, <1>3, <1>4, <1>5 DEF Sizes

\* Both sizes are rounded the same way, so that the one does not overtake the
\* other.
LEMMA RelaunchInv == ASSUME TaskInv, Relaunch PROVE TaskInv'
<1>1. PICK m \in Model :
        /\ SavedAs(m)
        /\ task' \in Model
        /\ task'.url = m.url
        /\ \A f \in Kept : task'[f] = m[f]
        /\ \A f \in Sizes : task'[f] = floatValue(m[f])
  BY RelaunchReads
<1>2. Addressed(task')
  BY <1>1 DEF SavedAs, Addressed, Kept
<1>3. WithinTotal(task')
  <2>1. CASE m.totalSize = SizeUnknown
    BY <1>1, <2>1, FloatTypes DEF WithinTotal, Sizes
  <2>2. CASE m.totalSize # SizeUnknown
    <3>1. m.totalSize \in 0..MaxSize /\ m.downloadSize \in 0..MaxSize
      BY <2>2 DEF Model
    <3>2. m.downloadSize <= m.totalSize
      BY <1>1, <2>2 DEF SavedAs, WithinTotal
    <3>3. floatValue(m.downloadSize) <= floatValue(m.totalSize)
      BY <3>1, <3>2, FloatMonotone
    <3>4. QED
      BY <1>1, <3>3 DEF WithinTotal, Sizes
  <2>3. QED
    BY <2>1, <2>2
<1>4. SavedAs(m)'
  BY <1>1 DEF SavedAs, Relaunch
<1>5. QED
  BY <1>2, <1>3, <1>4 DEF TaskInv

LEMMA TaskInvCorrect == Spec => []TaskInv
<1>1. TaskInv /\ UNCHANGED taskVars => TaskInv'
  BY DEF TaskInv, SavedAs, taskVars
<1>2. TaskInv /\ [Next]_taskVars => TaskInv'
  BY <1>1, SetUrlInv, WriteInv, FinishInv, CancelInv, RelaunchInv DEF Next
<1>3. QED
  BY <1>2, InitTaskInv, PTL DEF Spec

-----------------------------------------------------------------------------
(* The theorems.                                                           *)

\* Whatever is set, saved and read back, the object stays a task: a name and a
\* path of their kinds, a group, sizes that a rounding keeps among the sizes.
THEOREM TaskTypeCorrect == Spec => []TaskTypeOK
<1>1. TaskInv => TaskTypeOK
  BY DEF TaskInv, Addressed, TaskTypeOK
<1>2. QED
  BY <1>1, TaskInvCorrect, PTL

\* The bytes downloaded never exceed the size of the file, for any precision and
\* any number of restarts: floatValue is monotone.
THEOREM WithinTotalCorrect == Spec => []DownloadedWithinTotal
<1>1. TaskInv => DownloadedWithinTotal
  BY DEF TaskInv, WithinTotal, DownloadedWithinTotal
<1>2. QED
  BY <1>1, TaskInvCorrect, PTL

\* A restart keeps the id, name, group, path, resume data and status of a task
\* (dictionaryFromTaskModel, taskModelFormDictionary), also when its address was
\* changed after it was saved.
THEOREM IdentityCorrect == Spec => IdentitySurvives
<1>1. TaskInv /\ [Next]_taskVars =>
        [Relaunch => \A f \in {"id", "name", "groupId", "path", "data", "status"} :
                       task'[f] = task[f]]_taskVars
  BY RelaunchReads DEF SavedAs, Kept
<1>2. QED
  BY <1>1, TaskInvCorrect, PTL DEF Spec, IdentitySurvives

LEMMA RelaunchNear ==
  ASSUME TaskInv, Relaunch, NEW f \in Sizes
  PROVE  Near(task[f], task'[f])
<1>1. PICK m \in Model : SavedAs(m) /\ task'[f] = floatValue(m[f])
  BY RelaunchReads
<1>2. m[f] \in 0..MaxSize \cup {SizeUnknown}
  BY DEF Model, Sizes
<1>3. Precision \in Nat \ {0}
  BY TaskAssumption DEF TaskAssumption
<1>4. ASSUME NEW x \in Int PROVE Near(x, x)
  <2>1. x - x = 0 /\ 0 * Precision = 0
    BY <1>3
  <2>2. QED
    BY <1>3, <2>1 DEF Near
<1>5. CASE task[f] = floatValue(m[f])
  BY <1>1, <1>2, <1>4, <1>5, FloatTypes, TaskAssumption DEF TaskAssumption, SizeUnknown
<1>6. CASE task[f] = m[f]
  BY <1>1, <1>2, <1>4, <1>6, FloatTypes, FloatNear DEF SizeUnknown
<1>7. QED
  BY <1>1, <1>5, <1>6 DEF SavedAs

\* A size that a restart reads back through floatValue is the size saved, up to one
\* part in Precision, and exactly that for a file no larger than Precision.
THEOREM SizesCorrect == Spec => SizesSurvive
<1>1. TaskInv /\ [Next]_taskVars =>
        [Relaunch =>
           \A f \in {"downloadSize", "totalSize"} :
             LET x == task[f]
                 y == task'[f]
                 off == IF y > x THEN y - x ELSE x - y
             IN  IF x <= Precision THEN y = x
                                   ELSE off * Precision <= x]_taskVars
  BY RelaunchNear DEF Near, Sizes
<1>2. QED
  BY <1>1, TaskInvCorrect, PTL DEF Spec, SizesSurvive
=============================================================================
