--------------------------- MODULE WorkloadProofs ---------------------------
(* The calls that write known data, for every size of a page, every width   *)
(* of the numbers that is whole pages, and every range.  First remainders,  *)
(* then what the rounding of the code yields, then the loops.               *)
EXTENDS Workload, TLAPS

LEMMA DivMod ==
    ASSUME NEW a \in Int, NEW P \in Nat \ {0}
    PROVE  /\ a \div P \in Int /\ a % P \in 0..(P - 1)
           /\ a = P * (a \div P) + (a % P)
BY SMT

\* A multiple of P that is less than P away from 0 is 0.
LEMMA Multiple ==
    ASSUME NEW q \in Int, NEW P \in Nat \ {0}, NEW s \in Int, -P < s, s < P, s = P * q
    PROVE  q = 0
<1>1. CASE q >= 1
  <2>1. P * q >= P
    BY <1>1
  <2>. QED
    BY <2>1
<1>2. CASE q <= -1
  <2>1. P * q <= -P
    BY <1>2
  <2>. QED
    BY <2>1
<1>. QED
  BY <1>1, <1>2

LEMMA ModUnique ==
    ASSUME NEW a \in Int, NEW P \in Nat \ {0}, NEW q \in Int, NEW r \in 0..(P - 1),
           a = P * q + r
    PROVE  a % P = r
<1> DEFINE d == a \div P
<1>1. d \in Int /\ a % P \in 0..(P - 1) /\ a = P * d + (a % P)
  BY DivMod
<1>2. P * (q - d) = (a % P) - r
  BY <1>1
<1>3. q - d = 0
  <2> DEFINE s == (a % P) - r
  <2>1. s \in Int /\ -P < s /\ s < P /\ q - d \in Int /\ s = P * (q - d)
    BY <1>1, <1>2
  <2> HIDE DEF s, d
  <2>. QED
    BY <2>1, Multiple
<1>. QED
  BY <1>1, <1>3

\* Steps within a page, over the end of one, and from the start of one.
LEMMA ModStep ==
    ASSUME NEW a \in Int, NEW P \in Nat \ {0}, NEW n \in Int
    PROVE  /\ (a % P) \in 0..(P - 1)
           /\ (a % P) + n \in 0..(P - 1) => (a + n) % P = (a % P) + n
           /\ (a % P) + n \in P..(2*P - 1) => (a + n) % P = (a % P) + n - P
           /\ a % P = 0 => (a + n) % P = n % P
<1> DEFINE d == a \div P
           r == a % P
<1>1. d \in Int /\ r \in 0..(P - 1) /\ a = P * d + r
  BY DivMod
<1> HIDE DEF d
<1>2. ASSUME r + n \in 0..(P - 1) PROVE (a + n) % P = r + n
  <2>1. a + n = P * d + (r + n)
    BY <1>1
  <2> DEFINE b == a + n
             s == r + n
  <2>2. b \in Int /\ s \in 0..(P - 1) /\ b = P * d + s
    BY <2>1, <1>1, <1>2
  <2> HIDE DEF b, s
  <2>3. b % P = s
    BY <1>1, <2>2, ModUnique
  <2>. QED
    BY <2>3 DEF b, s
<1>3. ASSUME r + n \in P..(2*P - 1) PROVE (a + n) % P = r + n - P
  <2> DEFINE b == a + n
             s == r + n - P
             e == d + 1
  <2>1. P * (d + 1) = P * d + P
    BY <1>1
  <2>2. b \in Int /\ s \in 0..(P - 1) /\ b = P * e + s /\ e \in Int
    BY <2>1, <1>1, <1>3
  <2> HIDE DEF b, s, e
  <2>3. b % P = s
    BY <2>2, ModUnique
  <2>. QED
    BY <2>3 DEF b, s
<1>4. ASSUME r = 0 PROVE (a + n) % P = n % P
  <2> DEFINE b == a + n
             s == n % P
             f == n \div P
             e == d + f
  <2>1. f \in Int /\ s \in 0..(P - 1) /\ n = P * f + s
    BY DivMod
  <2> HIDE DEF f, s
  <2>2. P * (d + f) = P * d + P * f
    BY <1>1, <2>1
  <2>3. b \in Int /\ b = P * e + s /\ e \in Int
    BY <2>1, <2>2, <1>1, <1>4
  <2> HIDE DEF b, e
  <2>4. b % P = s
    BY <2>1, <2>3, ModUnique
  <2>. QED
    BY <2>4 DEF b, s
<1>. QED
  BY <1>1, <1>2, <1>3, <1>4 DEF r

LEMMA ModSmall ==
    ASSUME NEW P \in Nat \ {0}, NEW a \in 0..(P - 1)
    PROVE  a % P = a
<1>1. a = P * 0 + a
  OBVIOUS
<1>. QED
  BY <1>1, ModUnique

\* Below the start of a page there is room for a page.
LEMMA PageFits ==
    ASSUME NEW P \in Nat \ {0}, NEW a \in Int, a % P = 0,
           NEW b \in Int, b < a
    PROVE  b - (b % P) + P <= a
<1> DEFINE d == a \div P
           e == b \div P
           r == b % P
<1>1. d \in Int /\ a = P * d
  BY DivMod
<1>2. e \in Int /\ r \in 0..(P - 1) /\ b = P * e + r
  BY DivMod
<1> HIDE DEF d, e, r
<1>3. CASE e >= d
  <2>1. P * e >= P * d
    BY <1>1, <1>2, <1>3
  <2>. QED
    BY <2>1, <1>1, <1>2
<1>4. CASE e + 1 <= d
  <2>1. P * (e + 1) <= P * d /\ P * (e + 1) = P * e + P
    BY <1>1, <1>2, <1>4
  <2>. QED
    BY <2>1, <1>1, <1>2 DEF r
<1>. QED
  BY <1>1, <1>2, <1>3, <1>4

\* The masks of the code.
LEMMA RoundDownFacts ==
    ASSUME NEW x \in Nat
    PROVE  /\ InPage(x) \in 0..(Page - 1) /\ InPage(x) <= x
           /\ RoundDown(x) \in Nat /\ RoundDown(x) % Page = 0
           /\ RoundDown(x) + InPage(x) = x
<1>1. Page \in Nat \ {0}
  BY WorkloadAssumption
<1> DEFINE r == x % Page
           d == x \div Page
<1>2. d \in Int /\ r \in 0..(Page - 1) /\ x = Page * d + r
  BY <1>1, DivMod
<1>3. r <= x
  <2>1. CASE d >= 0
    <3>1. Page * d >= 0
      BY <1>1, <1>2, <2>1
    <3> HIDE DEF r, d
    <3>. QED
      BY <3>1, <1>1, <1>2
  <2>2. CASE d <= -1
    <3>1. Page * d <= -Page
      BY <1>1, <1>2, <2>2
    <3> HIDE DEF r, d
    <3>. QED
      BY <3>1, <1>1, <1>2
  <2>. QED
    BY <1>2, <2>1, <2>2
<1>4. (x - r) % Page = 0
  <2> DEFINE n == -r
  <2>1. r + n \in 0..(Page - 1) => (x + n) % Page = r + n
    <3>1. n \in Int /\ x \in Int
      BY <1>2
    <3>. QED
      BY <1>1, <3>1, ModStep, Zenon
  <2>2. (x + n) % Page = 0
    <3> HIDE DEF r
    <3>. QED
      BY <1>1, <1>2, <2>1
  <2>3. x + n = x - r
    BY <1>2
  <2>. QED
    BY <2>2, <2>3
<1>. QED
  BY <1>1, <1>2, <1>3, <1>4 DEF InPage, RoundDown

\* Unsigned numbers: a sum that does not overflow, one that does, a difference
\* below zero.
LEMMA Wrap ==
    ASSUME NEW x \in Int
    PROVE  /\ x % Word \in Byte
           /\ x \in 0..(Word - 1) => x % Word = x
           /\ x \in Word..(2*Word - 1) => x % Word = x - Word
           /\ x \in (-Word)..(-1) => x % Word = x + Word
<1>0. Word \in Nat \ {0}
  BY WorkloadAssumption
<1>1. x % Word \in Byte
  BY <1>0, DivMod DEF Byte
<1>2. ASSUME x \in 0..(Word - 1) PROVE x % Word = x
  BY <1>0, <1>2, ModSmall
<1>3. ASSUME x \in Word..(2*Word - 1) PROVE x % Word = x - Word
  <2> DEFINE s == x - Word
  <2>1. s \in 0..(Word - 1) /\ x = Word * 1 + s
    BY <1>0, <1>3
  <2> HIDE DEF s
  <2>. QED
    BY <1>0, <2>1, ModUnique DEF s
<1>4. ASSUME x \in (-Word)..(-1) PROVE x % Word = x + Word
  <2> DEFINE s == x + Word
  <2>1. s \in 0..(Word - 1) /\ x = Word * (-1) + s
    BY <1>0, <1>4
  <2> HIDE DEF s
  <2>2. -1 \in Int
    OBVIOUS
  <2>. QED
    BY <1>0, <2>1, <2>2, ModUnique DEF s
<1>. QED
  BY <1>1, <1>2, <1>3, <1>4

\* The bytes up to the next page, also on the last page of the numbers, where
\* the rounded offset wraps to 0.
LEMMA HeadLenFacts ==
    ASSUME offset \in Byte
    PROVE  /\ HeadLen = IF InPage(offset) = 0 THEN 0 ELSE Page - InPage(offset)
           /\ HeadLen \in 0..(Page - 1)
           /\ (offset + HeadLen) % Page = 0
           /\ offset + HeadLen <= Word
<1> DEFINE r == InPage(offset)
           x == offset + (Page - 1)
<1>1. Page \in Nat \ {0} /\ Word \in Nat \ {0} /\ Word % Page = 0 /\ offset \in 0..(Word - 1)
  BY WorkloadAssumption DEF Byte
<1>2. r \in 0..(Page - 1) /\ r <= offset
  BY <1>1, RoundDownFacts
<1>3. offset - r + Page <= Word
  <2>1. offset - (offset % Page) + Page <= Word
    <3>1. offset \in Int /\ offset < Word /\ Word \in Int
      BY <1>1
    <3>. QED
      BY <1>1, <3>1, PageFits
  <2>. QED
    BY <2>1 DEF InPage
<1>4. /\ r = 0 => x % Page = Page - 1
      /\ r # 0 => x % Page = r - 1
      /\ x \in Nat
  <2> DEFINE n == Page - 1
  <2>1. n \in Int /\ offset \in Int
    BY <1>1
  <2>2. /\ r + n \in 0..(Page - 1) => (offset + n) % Page = r + n
        /\ r + n \in Page..(2*Page - 1) => (offset + n) % Page = r + n - Page
    BY <2>1, <1>1, ModStep, ZenonT(60) DEF InPage
  <2>3. x \in Nat
    BY <1>1
  <2> HIDE DEF r
  <2>4. r = 0 => r + n \in 0..(Page - 1) /\ r + n = Page - 1
    BY <1>1
  <2>5. r # 0 => r + n \in Page..(2*Page - 1) /\ r + n - Page = r - 1
    BY <1>1, <1>2
  <2>. QED
    BY <2>2, <2>3, <2>4, <2>5
<1>5. HeadLen = IF r = 0 THEN 0 ELSE Page - r
  <2>1. CASE r = 0
    <3>1. x \in 0..(Word - 1)
      <4> HIDE DEF r
      <4>. QED
        BY <2>1, <1>1, <1>3
    <3>2. x % Word = x
      <4> HIDE DEF x
      <4>. QED
        BY <3>1, Wrap
    <3>3. rounded_offset = offset
      <4>1. rounded_offset = RoundDown(x)
        BY <3>2 DEF rounded_offset
      <4>2. RoundDown(x) = x - (Page - 1)
        BY <2>1, <1>4 DEF RoundDown
      <4>. QED
        BY <4>1, <4>2, <1>1
    <3>4. HeadLen = 0 % Word /\ 0 % Word = 0
      <4>1. 0 \in 0..(Word - 1)
        BY <1>1
      <4>2. HeadLen = 0 % Word
        BY <3>3, <1>1 DEF HeadLen
      <4>. QED
        BY <4>1, <4>2, Wrap
    <3>. QED
      BY <2>1, <3>4
  <2>2. CASE r # 0 /\ x < Word
    <3>1. x \in 0..(Word - 1)
      <4> HIDE DEF x
      <4>. QED
        BY <1>1, <1>4, <2>2
    <3>2. x % Word = x
      <4> HIDE DEF x
      <4>. QED
        BY <3>1, Wrap
    <3>3. rounded_offset = offset + (Page - r)
      <4>1. rounded_offset = RoundDown(x)
        BY <3>2 DEF rounded_offset
      <4>2. RoundDown(x) = x - (r - 1)
        BY <2>2, <1>4 DEF RoundDown
      <4> HIDE DEF r
      <4>. QED
        BY <4>1, <4>2, <1>1, <1>2
    <3>4. Page - r \in 0..(Word - 1)
      <4> HIDE DEF r
      <4>. QED
        BY <1>1, <1>2, <1>3, <2>2
    <3>5. rounded_offset - offset = Page - r
      <4> HIDE DEF r
      <4>. QED
        BY <3>3, <1>1, <1>2
    <3>6. HeadLen = Page - r
      <4> DEFINE k == Page - r
      <4>1. k \in 0..(Word - 1) /\ HeadLen = k % Word
        BY <3>4, <3>5 DEF HeadLen
      <4> HIDE DEF k
      <4>2. k % Word = k
        BY <4>1, Wrap
      <4>. QED
        BY <4>1, <4>2 DEF k
    <3>. QED
      BY <3>6, <2>2
  <2>3. CASE r # 0 /\ x >= Word
    <3> DEFINE y == x - Word
    <3>1. x \in Word..(2*Word - 1) /\ y \in Nat
      <4> HIDE DEF r
      <4>. QED
        BY <1>1, <1>2, <1>3, <2>3
    <3>2. x % Word = y
      <4> HIDE DEF x
      <4>. QED
        BY <3>1, Wrap DEF y
    <3>3. y % Page = r - 1
      <4>1. y \in Int /\ Word \in Int /\ Word + y = x
        BY <3>1, <1>1
      <4> HIDE DEF x, y
      <4>2. (Word + y) % Page = y % Page
        BY <4>1, <1>1, ModStep
      <4>. QED
        BY <4>1, <4>2, <1>4, <2>3
    <3>4. rounded_offset = y - (r - 1) /\ rounded_offset \in Nat
      <4> HIDE DEF x, y, r
      <4>1. rounded_offset = RoundDown(y) /\ RoundDown(y) = y - (r - 1)
        BY <3>2, <3>3 DEF rounded_offset, RoundDown, x
      <4>. QED
        BY <4>1, <3>1, RoundDownFacts
    <3>5. rounded_offset = 0 /\ Page - r = Word - offset
      <4> HIDE DEF r
      <4>. QED
        BY <3>4, <1>1, <1>2, <1>3
    <3>6. HeadLen = Word - offset
      <4> DEFINE k == 0 - offset
      <4>1. k \in (-Word)..(-1) /\ HeadLen = k % Word
        <5> HIDE DEF r
        <5>. QED
          BY <3>5, <1>1, <1>2, <2>3 DEF HeadLen
      <4> HIDE DEF k
      <4>2. k % Word = k + Word
        BY <4>1, Wrap
      <4>. QED
        BY <4>1, <4>2, <1>1 DEF k
    <3>. QED
      BY <3>5, <3>6, <2>3
  <2> HIDE DEF r, x
  <2>. QED
    BY <2>1, <2>2, <2>3, <1>4, <1>1
<1>6. (offset + HeadLen) % Page = 0
  <2> HIDE DEF r
  <2>1. offset \in Int /\ HeadLen \in Int /\ r = offset % Page
    BY <1>1, <1>2, <1>5 DEF r, InPage
  <2>2. /\ r + HeadLen \in 0..(Page - 1) => (offset + HeadLen) % Page = r + HeadLen
        /\ r + HeadLen \in Page..(2*Page - 1) => (offset + HeadLen) % Page = r + HeadLen - Page
    BY <2>1, <1>1, ModStep, ZenonT(60)
  <2>3. CASE r = 0
    BY <2>2, <2>3, <1>1, <1>5
  <2>4. CASE r # 0
    BY <2>2, <2>4, <1>1, <1>2, <1>5
  <2>. QED
    BY <2>3, <2>4
<1>. HIDE DEF r
<1>7. HeadLen \in 0..(Page - 1) /\ offset + HeadLen <= Word
  BY <1>1, <1>2, <1>3, <1>5
<1>. QED
  BY <1>5, <1>6, <1>7 DEF r

\* The three parts of a call of WriteData: the second starts on a page and is
\* whole pages, the third is less than a page, and there is none after a first
\* part that ends before its page does.
LEMMA Parts ==
    ASSUME offset \in Byte, size \in Byte, offset + size <= Word
    PROVE  /\ head_size \in 0..size /\ head_size <= HeadLen
           /\ aligned_size \in 0..size /\ aligned_size % Page = 0
           /\ size - head_size - aligned_size \in 0..(Page - 1)
           /\ head_size = HeadLen \/ (aligned_size = 0 /\ head_size = size)
<1>1. Page \in Nat \ {0} /\ Word \in Nat \ {0} /\ size \in 0..(Word - 1)
  BY WorkloadAssumption DEF Byte
<1>2. HeadLen \in 0..(Page - 1)
  BY HeadLenFacts
<1>3. 0 % Page = 0
  <2>1. 0 \in 0..(Page - 1)
    BY <1>1
  <2>. QED
    BY <2>1, <1>1, ModSmall
<1>4. CASE size < HeadLen
  <2>1. head_size = size /\ aligned_size = 0
    BY <1>1, <1>2, <1>4 DEF head_size, aligned_size
  <2>. QED
    BY <2>1, <1>1, <1>2, <1>3, <1>4
<1>5. CASE size >= HeadLen /\ size < Page
  <2>1. head_size = HeadLen /\ aligned_size = 0
    BY <1>1, <1>2, <1>5 DEF head_size, aligned_size
  <2>. QED
    BY <2>1, <1>1, <1>2, <1>3, <1>5
<1>6. CASE size >= HeadLen /\ size >= Page
  <2> DEFINE k == size - HeadLen
  <2>1. head_size = HeadLen
    BY <1>1, <1>2, <1>6 DEF head_size
  <2>2. k \in 0..(Word - 1) /\ k \in Nat /\ k <= size
    BY <1>1, <1>2, <1>6
  <2>3. aligned_size = RoundDown(k)
    <3>1. aligned_size = RoundDown(k % Word)
      BY <1>6 DEF aligned_size
    <3> HIDE DEF k
    <3>. QED
      BY <3>1, <2>2, Wrap
  <2>4. /\ InPage(k) \in 0..(Page - 1)
        /\ RoundDown(k) \in Nat /\ RoundDown(k) % Page = 0
        /\ RoundDown(k) + InPage(k) = k
    <3> HIDE DEF k
    <3>. QED
      BY <2>2, RoundDownFacts
  <2>5. aligned_size \in 0..size /\ k - aligned_size \in 0..(Page - 1)
    <3> HIDE DEF k
    <3>. QED
      BY <1>1, <2>2, <2>3, <2>4
  <2>. QED
    BY <2>1, <2>3, <2>4, <2>5, <1>1, <1>2, <1>6
<1>. QED
  BY <1>1, <1>2, <1>4, <1>5, <1>6

\* n bytes that belong where they arrive, behind the ones that are there.
LEMMA PutKnown ==
    ASSUME offset \in Byte, num_written \in Nat, file \in [Byte -> {Old} \cup 0..(Page - 1)],
           Written, NEW from \in 0..(Page - 1), NEW n \in Nat, from + n <= Page,
           from = (offset + num_written) % Page, offset + num_written + n <= Word,
           Put(offset + num_written, from, n)
    PROVE  /\ file' \in [Byte -> {Old} \cup 0..(Page - 1)]
           /\ \A p \in Byte : file'[p] = IF p \in offset..(offset + (num_written + n) - 1)
                                        THEN InPage(p) ELSE Old
<1> DEFINE at == offset + num_written
<1>1. Page \in Nat \ {0} /\ Word \in Nat \ {0} /\ Byte = 0..(Word - 1)
  BY WorkloadAssumption DEF Byte
<1>2. at \in Nat /\ offset \in Nat
  BY <1>1
<1>3. ASSUME NEW p \in Byte, p \in at..(at + n - 1)
      PROVE  kTestDataBlock(from + (p - at)) = InPage(p) /\ InPage(p) \in 0..(Page - 1)
  <2> DEFINE k == p - at
  <2>1. k \in 0..(n - 1) /\ from + k \in 0..(Page - 1) /\ p = at + k /\ k \in Int /\ at \in Int
    BY <1>1, <1>2, <1>3
  <2> HIDE DEF k, at
  <2>2. (at % Page) + k \in 0..(Page - 1) => (at + k) % Page = (at % Page) + k
    BY <1>1, <2>1, ModStep
  <2>3. from = at % Page
    BY DEF at
  <2>4. p % Page = from + k
    BY <2>1, <2>2, <2>3
  <2>5. kTestDataBlock(from + k) = from + k
    BY <2>1, <1>1 DEF kTestDataBlock
  <2>. QED
    BY <2>1, <2>4, <2>5 DEF InPage, k
<1>4. file' = [p \in Byte |-> IF p \in at..(at + n - 1)
                             THEN kTestDataBlock(from + (p - at)) ELSE file[p]]
  BY DEF Put
<1>5. ASSUME NEW p \in Byte
      PROVE  /\ file'[p] \in {Old} \cup 0..(Page - 1)
             /\ file'[p] = IF p \in offset..(offset + (num_written + n) - 1)
                           THEN InPage(p) ELSE Old
  <2>1. file'[p] = IF p \in at..(at + n - 1) THEN kTestDataBlock(from + (p - at)) ELSE file[p]
    BY <1>4
  <2>2. file[p] = IF p \in offset..(at - 1) THEN InPage(p) ELSE Old
    <3>1. offset + num_written - 1 = at - 1
      BY <1>2
    <3> HIDE DEF at
    <3>. QED
      BY <3>1, Zenon DEF Written
  <2>3. p \in offset..(offset + (num_written + n) - 1) <=>
            p \in at..(at + n - 1) \/ p \in offset..(at - 1)
    BY <1>1, <1>2
  <2>4. file[p] \in {Old} \cup 0..(Page - 1)
    OBVIOUS
  <2>5. p \in offset..(at - 1) => p \notin at..(at + n - 1)
    BY <1>1, <1>2
  <2> HIDE DEF at
  <2>6. CASE p \in at..(at + n - 1)
    BY <2>1, <2>3, <2>6, <1>3
  <2>7. CASE p \notin at..(at + n - 1)
    BY <2>1, <2>2, <2>3, <2>4, <2>7
  <2>. QED
    BY <2>6, <2>7
<1>. QED
  BY <1>4, <1>5

LEMMA InitWorkload == Init => WorkloadInv
<1> SUFFICES ASSUME Init PROVE WorkloadInv
  OBVIOUS
<1>1. Page \in Nat \ {0} /\ Word \in Nat \ {0} /\ Byte = 0..(Word - 1) /\ 0 \in Byte
  BY WorkloadAssumption DEF Byte
<1>2. fn = "WriteData" \/ fn = "WriteDataMmap"
  BY WorkloadAssumption DEF Init
<1>3. TypeOK
  BY <1>1, <1>2 DEF Init, TypeOK
<1>4. Written
  <2>1. \A p \in Byte : p \notin offset..(offset + num_written - 1)
    BY <1>1 DEF Init
  <2>. QED
    BY <2>1 DEF Written, Init
<1>5. fn = "WriteData" => Loops
  <2>1. 0 <= head_size /\ 0 <= size
    BY Parts, <1>1 DEF Init
  <2>. QED
    BY <2>1, <1>4, <1>1 DEF Init, Loops
<1>6. fn = "WriteDataMmap" => Copies
  <2>1. rest_size \in Byte
    <3> DEFINE k == size - HeadLen
    <3>1. k \in Int
      BY HeadLenFacts, <1>1 DEF Init
    <3> HIDE DEF k
    <3>2. k % Word \in Byte
      BY <3>1, Wrap
    <3>. QED
      BY <3>2 DEF rest_size, k
  <2>2. InPage(0) = 0
    BY <1>1, ModSmall DEF InPage
  <2>. QED
    BY <2>1, <2>2, <1>4, <1>1 DEF Init, Copies
<1>. QED
  BY <1>3, <1>5, <1>6 DEF WorkloadInv, Init
-----------------------------------------------------------------------------
(* WriteData *)

\* A pwrite whose bytes belong where the file offset stands.
LEMMA PwriteKnown ==
    ASSUME WorkloadInv, Written, UNCHANGED call,
           NEW from \in 0..(Page - 1), from = (offset + num_written) % Page,
           NEW n \in Nat \ {0}, from + n <= Page, num_written + n <= size,
           Put((offset + num_written) % Word, from, n), num_written' = num_written + n
    PROVE  Written' /\ file' \in [Byte -> {Old} \cup 0..(Page - 1)] /\ num_written' \in Byte
<1>1. Page \in Nat \ {0} /\ Word \in Nat \ {0} /\ Byte = 0..(Word - 1)
  BY WorkloadAssumption DEF Byte
<1>2. /\ offset \in Byte /\ size \in Byte /\ num_written \in Byte /\ offset + size <= Word
      /\ file \in [Byte -> {Old} \cup 0..(Page - 1)]
  BY DEF WorkloadInv, TypeOK
<1>3. offset + num_written \in 0..(Word - 1) /\ offset + num_written + n <= Word
  BY <1>1, <1>2
<1>4. (offset + num_written) % Word = offset + num_written
  <2> DEFINE at == offset + num_written
  <2>1. at \in 0..(Word - 1) /\ at \in Int
    BY <1>3
  <2> HIDE DEF at
  <2>2. at % Word = at
    BY <2>1, Wrap
  <2>. QED
    BY <2>2 DEF at
<1>5. num_written \in Nat /\ n \in Nat /\ Put(offset + num_written, from, n)
  BY <1>1, <1>2, <1>4
<1>6. /\ file' \in [Byte -> {Old} \cup 0..(Page - 1)]
      /\ \A p \in Byte : file'[p] = IF p \in offset..(offset + (num_written + n) - 1)
                                   THEN InPage(p) ELSE Old
  BY <1>2, <1>3, <1>5, PutKnown
<1>7. offset' = offset
  BY DEF call
<1>8. Written'
  <2>1. offset + (num_written + n) - 1 = offset' + num_written' - 1
    BY <1>7
  <2>. QED
    BY <1>6, <1>7, <2>1, Zenon DEF Written, InPage
<1>9. num_written' \in Byte
  BY <1>1, <1>2
<1>. QED
  BY <1>6, <1>8, <1>9

\* What the steps of WriteData need of the invariant.
LEMMA LoopFacts ==
    ASSUME WorkloadInv, fn = "WriteData"
    PROVE  /\ Page \in Nat \ {0} /\ Word \in Nat \ {0} /\ Byte = 0..(Word - 1)
           /\ offset \in 0..(Word - 1) /\ size \in 0..(Word - 1) /\ offset + size <= Word
           /\ num_written \in Nat /\ block_written \in Nat
           /\ Loops
<1>1. Page \in Nat \ {0} /\ Word \in Nat \ {0} /\ Byte = 0..(Word - 1)
  BY WorkloadAssumption DEF Byte
<1>2. offset \in Byte /\ size \in Byte /\ num_written \in Byte /\ block_written \in Byte
  BY DEF WorkloadInv, TypeOK
<1>. QED
  BY <1>1, <1>2 DEF WorkloadInv

LEMMA SameCall ==
    ASSUME UNCHANGED call
    PROVE  /\ fn' = fn /\ offset' = offset /\ size' = size
           /\ HeadLen' = HeadLen /\ head_size' = head_size /\ aligned_size' = aligned_size
           /\ rest_size' = rest_size /\ Sound' = Sound
<1>1. fn' = fn /\ offset' = offset /\ size' = size
  BY DEF call
<1>2. HeadLen' = HeadLen
  BY <1>1 DEF HeadLen, rounded_offset, RoundDown
<1>. QED
  BY <1>1, <1>2 DEF head_size, aligned_size, rest_size, Sound, InPage, RoundDown

LEMMA HeadStepInv == WorkloadInv /\ fn = "WriteData" /\ HeadStep => WorkloadInv'
<1> SUFFICES ASSUME WorkloadInv, fn = "WriteData", HeadStep PROVE WorkloadInv'
  OBVIOUS
<1> DEFINE from == InPage(num_written + offset)
           r == InPage(offset)
<1>1. /\ Page \in Nat \ {0} /\ Word \in Nat \ {0} /\ Byte = 0..(Word - 1)
      /\ offset \in 0..(Word - 1) /\ size \in 0..(Word - 1) /\ offset + size <= Word
      /\ num_written \in Nat /\ block_written \in Nat /\ Loops
  BY LoopFacts
<1>2. /\ offset' = offset /\ size' = size /\ fn' = fn /\ pc' = pc /\ pc = "head"
      /\ head_size' = head_size /\ UNCHANGED call
  BY SameCall DEF HeadStep
<1>3. PICK n \in 1..(head_size - num_written) :
          /\ Put((offset + num_written) % Word, from, n)
          /\ num_written' = num_written + n /\ block_written' = 0
  BY <1>2 DEF HeadStep, Pwrite
<1>4. num_written < head_size /\ head_size \in 0..size /\ head_size <= HeadLen
      /\ HeadLen \in 0..(Page - 1) /\ HeadLen = IF r = 0 THEN 0 ELSE Page - r
  BY <1>1, Parts, HeadLenFacts DEF HeadStep
<1>5. r \in 0..(Page - 1)
  <2>1. offset \in Nat
    BY <1>1
  <2>. QED
    BY <2>1, RoundDownFacts
<1>6. n \in Nat \ {0} /\ num_written + n <= head_size
  BY <1>1, <1>3, <1>4
<1> HIDE DEF r
<1>7. r # 0 /\ r + HeadLen = Page /\ r + num_written \in 0..(Page - 1)
  BY <1>1, <1>4, <1>5
<1>8. from = (offset + num_written) % Page /\ from = r + num_written
  <2>1. num_written + offset = offset + num_written
    BY <1>1
  <2>2. num_written \in Int /\ offset \in Int /\ (offset % Page) + num_written \in 0..(Page - 1)
    BY <1>1, <1>7 DEF r, InPage
  <2>3. (offset + num_written) % Page = (offset % Page) + num_written
    BY <2>2, <1>1, ModStep
  <2>. QED
    BY <2>1, <2>3 DEF InPage, r
<1> HIDE DEF from
<1>9. from \in 0..(Page - 1) /\ from + n <= Page /\ num_written + n <= size
  BY <1>1, <1>4, <1>5, <1>6, <1>7, <1>8
<1>10. Written' /\ file' \in [Byte -> {Old} \cup 0..(Page - 1)] /\ num_written' \in Byte
  BY <1>1, <1>2, <1>3, <1>6, <1>8, <1>9, PwriteKnown DEF Loops
<1>11. TypeOK'
  <2>1. 0 \in Byte
    BY <1>1
  <2>. QED
    BY <2>1, <1>2, <1>3, <1>10 DEF WorkloadInv, TypeOK, Byte
<1>12. Loops'
  <2>1. block_written' <= num_written' /\ num_written' <= size' /\ num_written' <= head_size'
    BY <1>1, <1>2, <1>3, <1>4, <1>6
  <2>. QED
    BY <2>1, <1>1, <1>2, <1>3, <1>10 DEF Loops
<1>. QED
  BY <1>1, <1>2, <1>11, <1>12 DEF WorkloadInv

LEMMA PagesStepInv == WorkloadInv /\ fn = "WriteData" /\ PagesStep => WorkloadInv'
<1> SUFFICES ASSUME WorkloadInv, fn = "WriteData", PagesStep PROVE WorkloadInv'
  OBVIOUS
<1> DEFINE from == InPage(block_written)
<1>1. /\ Page \in Nat \ {0} /\ Word \in Nat \ {0} /\ Byte = 0..(Word - 1)
      /\ offset \in 0..(Word - 1) /\ size \in 0..(Word - 1) /\ offset + size <= Word
      /\ num_written \in Nat /\ block_written \in Nat /\ Loops
  BY LoopFacts
<1>2. /\ offset' = offset /\ size' = size /\ fn' = fn /\ pc' = pc /\ pc = "pages"
      /\ head_size' = head_size /\ aligned_size' = aligned_size /\ UNCHANGED call
  BY SameCall DEF PagesStep
<1>3. PICK n \in 1..(Page - from) :
          /\ Put((offset + num_written) % Word, from, n)
          /\ num_written' = num_written + n /\ block_written' = block_written + n
  BY <1>2 DEF PagesStep, Pwrite
<1>4. /\ num_written = head_size + block_written /\ block_written < aligned_size
      /\ head_size \in 0..size /\ head_size = HeadLen
      /\ aligned_size \in 0..size /\ aligned_size % Page = 0
      /\ head_size + aligned_size <= size
      /\ HeadLen \in 0..(Page - 1) /\ (offset + HeadLen) % Page = 0
  <2>1. num_written = head_size + block_written /\ block_written < aligned_size
    BY <1>1, <1>2 DEF PagesStep, Loops
  <2>2. /\ head_size \in 0..size /\ aligned_size \in 0..size /\ aligned_size % Page = 0
        /\ size - head_size - aligned_size \in 0..(Page - 1)
        /\ head_size = HeadLen \/ (aligned_size = 0 /\ head_size = size)
    BY <1>1, Parts
  <2>3. HeadLen \in 0..(Page - 1) /\ (offset + HeadLen) % Page = 0
    BY <1>1, HeadLenFacts
  <2>4. head_size = HeadLen
    BY <2>1, <2>2, <1>1
  <2>5. head_size + aligned_size <= size
    BY <2>2, <1>1
  <2>. QED
    BY <2>1, <2>2, <2>3, <2>4, <2>5
<1>5. from \in 0..(Page - 1)
  BY <1>1, RoundDownFacts
<1>6. n \in Nat \ {0} /\ from + n <= Page
  <2> HIDE DEF from
  <2>. QED
    BY <1>1, <1>3, <1>5
<1>7. block_written + n <= aligned_size
  <2>1. block_written \in Int /\ aligned_size \in Int
    BY <1>1, <1>4
  <2>2. block_written - from + Page <= aligned_size
    BY <2>1, <1>1, <1>4, PageFits DEF InPage
  <2> HIDE DEF from
  <2>. QED
    BY <2>1, <2>2, <1>1, <1>5, <1>6
<1>8. from = (offset + num_written) % Page
  <2> DEFINE a == offset + HeadLen
  <2>1. a \in Int /\ block_written \in Int /\ a % Page = 0 /\ offset + num_written = a + block_written
    BY <1>1, <1>4
  <2> HIDE DEF a
  <2>2. (a + block_written) % Page = block_written % Page
    BY <2>1, <1>1, ModStep, ZenonT(60)
  <2>. QED
    BY <2>1, <2>2 DEF InPage
<1> HIDE DEF from
<1>9. num_written + n <= size
  BY <1>1, <1>4, <1>6, <1>7
<1>10. Written' /\ file' \in [Byte -> {Old} \cup 0..(Page - 1)] /\ num_written' \in Byte
  BY <1>1, <1>2, <1>3, <1>5, <1>6, <1>8, <1>9, PwriteKnown DEF Loops
<1>11. TypeOK'
  <2>1. block_written' \in Byte
    BY <1>1, <1>3, <1>4, <1>6, <1>7
  <2>. QED
    BY <2>1, <1>2, <1>10 DEF WorkloadInv, TypeOK, Byte
<1>12. Loops'
  <2>1. /\ block_written' <= num_written' /\ num_written' <= size'
        /\ num_written' = head_size' + block_written' /\ block_written' <= aligned_size'
    BY <1>1, <1>2, <1>3, <1>4, <1>6, <1>7
  <2>. QED
    BY <2>1, <1>1, <1>2, <1>3, <1>10 DEF Loops
<1>. QED
  BY <1>1, <1>2, <1>11, <1>12 DEF WorkloadInv

LEMMA TailStepInv == WorkloadInv /\ fn = "WriteData" /\ TailStep => WorkloadInv'
<1> SUFFICES ASSUME WorkloadInv, fn = "WriteData", TailStep PROVE WorkloadInv'
  OBVIOUS
<1> DEFINE from == InPage(block_written)
<1>1. /\ Page \in Nat \ {0} /\ Word \in Nat \ {0} /\ Byte = 0..(Word - 1)
      /\ offset \in 0..(Word - 1) /\ size \in 0..(Word - 1) /\ offset + size <= Word
      /\ num_written \in Nat /\ block_written \in Nat /\ Loops
  BY LoopFacts
<1>2. /\ offset' = offset /\ size' = size /\ fn' = fn /\ pc' = pc /\ pc = "tail"
      /\ head_size' = head_size /\ aligned_size' = aligned_size /\ UNCHANGED call
  BY SameCall DEF TailStep
<1>3. PICK n \in 1..(size - num_written) :
          /\ Put((offset + num_written) % Word, from, n)
          /\ num_written' = num_written + n /\ block_written' = block_written + n
  BY <1>2 DEF TailStep, Pwrite
<1>4. /\ num_written = head_size + aligned_size + block_written /\ num_written < size
      /\ head_size \in 0..size /\ aligned_size \in 0..size /\ aligned_size % Page = 0
      /\ size - head_size - aligned_size \in 0..(Page - 1)
      /\ HeadLen \in 0..(Page - 1) /\ (offset + HeadLen) % Page = 0
  BY <1>1, <1>2, Parts, HeadLenFacts DEF TailStep, Loops
<1>5. head_size = HeadLen
  <2>1. head_size = HeadLen \/ (aligned_size = 0 /\ head_size = size)
    BY <1>1, Parts
  <2>. QED
    BY <2>1, <1>1, <1>4
<1>6. n \in Nat \ {0} /\ num_written + n <= size /\ block_written + n < Page
      /\ block_written \in 0..(Page - 1)
  BY <1>1, <1>3, <1>4
<1>7. from = block_written
  BY <1>1, <1>6, ModSmall DEF InPage
<1>8. from = (offset + num_written) % Page
  <2> DEFINE a == offset + HeadLen
             b == aligned_size + block_written
  <2>1. /\ a \in Int /\ b \in Int /\ block_written \in Int /\ aligned_size \in Int
        /\ a % Page = 0 /\ offset + num_written = a + b
    BY <1>1, <1>4, <1>5
  <2>2. b % Page = block_written % Page
    BY <2>1, <1>1, <1>4, ModStep
  <2>3. Page \in Nat \ {0} /\ a \in Int /\ b \in Int /\ a % Page = 0
    BY <2>1, <1>1
  <2> HIDE DEF a, b
  <2>4. (a + b) % Page = b % Page
    BY <2>3, ModStep
  <2>. QED
    BY <2>1, <2>2, <2>4 DEF InPage
<1> HIDE DEF from
<1>9. from \in 0..(Page - 1) /\ from + n <= Page
  BY <1>1, <1>6, <1>7
<1>10. Written' /\ file' \in [Byte -> {Old} \cup 0..(Page - 1)] /\ num_written' \in Byte
  BY <1>1, <1>2, <1>3, <1>6, <1>8, <1>9, PwriteKnown DEF Loops
<1>11. TypeOK'
  <2>1. block_written' \in Byte
    BY <1>1, <1>3, <1>4, <1>6
  <2>. QED
    BY <2>1, <1>2, <1>10 DEF WorkloadInv, TypeOK, Byte
<1>12. Loops'
  <2>1. /\ block_written' <= num_written' /\ num_written' <= size'
        /\ num_written' = head_size' + aligned_size' + block_written'
    BY <1>1, <1>2, <1>3, <1>4, <1>6
  <2>. QED
    BY <2>1, <1>1, <1>2, <1>3, <1>10 DEF Loops
<1>. QED
  BY <1>1, <1>2, <1>11, <1>12 DEF WorkloadInv

\* The steps between the loops, and the one that gives up.
LEMMA WriteDataEnds ==
    WorkloadInv /\ fn = "WriteData" /\ (HeadEnds \/ PagesEnd \/ TailEnds \/ PwriteFails)
        => WorkloadInv'
<1> SUFFICES ASSUME WorkloadInv, fn = "WriteData", HeadEnds \/ PagesEnd \/ TailEnds \/ PwriteFails
             PROVE  WorkloadInv'
  OBVIOUS
<1>1. /\ Page \in Nat \ {0} /\ Word \in Nat \ {0} /\ Byte = 0..(Word - 1)
      /\ offset \in 0..(Word - 1) /\ size \in 0..(Word - 1) /\ offset + size <= Word
      /\ num_written \in Nat /\ block_written \in Nat /\ Loops
  BY LoopFacts
<1>2. UNCHANGED <<call, num_written, file>> /\ block_written' \in {0, block_written}
  BY Zenon DEF HeadEnds, PagesEnd, TailEnds, PwriteFails
<1>3. /\ offset' = offset /\ size' = size /\ fn' = fn
      /\ head_size' = head_size /\ aligned_size' = aligned_size
  BY <1>2, SameCall
<1>4. Written' <=> Written
  BY <1>2, <1>3 DEF Written, InPage
<1>5. /\ head_size \in 0..size /\ aligned_size \in 0..size
      /\ size - head_size - aligned_size \in 0..(Page - 1)
  BY <1>1, Parts
<1>6. /\ pc' \in {"pages", "tail", "success", "error"}
      /\ block_written' <= num_written'
      /\ pc' = "pages" => num_written' = head_size + block_written' /\ block_written' <= aligned_size
      /\ pc' = "tail" => num_written' = head_size + aligned_size + block_written'
      /\ pc' = "success" => num_written' = size
  <2>1. CASE HeadEnds
    BY <2>1, <1>1, <1>2, <1>5 DEF HeadEnds, Loops
  <2>2. CASE PagesEnd
    BY <2>2, <1>1, <1>2, <1>5 DEF PagesEnd, Loops
  <2>3. CASE TailEnds
    BY <2>3, <1>1, <1>2, <1>5 DEF TailEnds, Loops
  <2>4. CASE PwriteFails
    BY <2>4, <1>1, <1>2, <1>5 DEF PwriteFails, Loops
  <2>. QED
    BY <2>1, <2>2, <2>3, <2>4
<1>7. TypeOK'
  <2>1. 0 \in Byte
    BY <1>1
  <2>2. block_written' \in Byte
    BY <2>1, <1>2 DEF WorkloadInv, TypeOK
  <2>. QED
    BY <2>2, <1>2, <1>3, <1>6 DEF WorkloadInv, TypeOK, Byte, Returned
<1>8. Loops'
  BY <1>1, <1>2, <1>3, <1>4, <1>6 DEF Loops, Returned
<1>. QED
  BY <1>1, <1>3, <1>7, <1>8 DEF WorkloadInv
-----------------------------------------------------------------------------
(* WriteDataMmap *)

LEMMA CopyFacts ==
    ASSUME WorkloadInv, fn = "WriteDataMmap"
    PROVE  /\ Page \in Nat \ {0} /\ Word \in Nat \ {0} /\ Byte = 0..(Word - 1)
           /\ offset \in 0..(Word - 1) /\ size \in 0..(Word - 1) /\ offset + size <= Word
           /\ num_written \in 0..(Word - 1) /\ rest_size \in 0..(Word - 1)
           /\ file \in [Byte -> {Old} \cup 0..(Page - 1)]
           /\ Copies
           /\ Sound => /\ InPage(offset) = 0 /\ size <= Word - Page
                      /\ HeadLen = 0 /\ rest_size = size /\ filep = offset
                      /\ \A k \in offset..(offset + size - 1) : k \in Mapped
<1>1. Page \in Nat \ {0} /\ Word \in Nat \ {0} /\ Byte = 0..(Word - 1)
  BY WorkloadAssumption DEF Byte
<1>2. /\ offset \in 0..(Word - 1) /\ size \in 0..(Word - 1) /\ offset + size <= Word
      /\ num_written \in 0..(Word - 1)
      /\ file \in [Byte -> {Old} \cup 0..(Page - 1)] /\ Copies
  BY <1>1 DEF WorkloadInv, TypeOK
<1>3. HeadLen \in 0..(Page - 1) /\ (InPage(offset) = 0 => HeadLen = 0)
  BY <1>1, <1>2, HeadLenFacts
<1>4. rest_size \in 0..(Word - 1)
  <2> DEFINE k == size - HeadLen
  <2>1. k \in Int
    BY <1>2, <1>3
  <2> HIDE DEF k
  <2>2. k % Word \in Byte
    BY <2>1, Wrap
  <2>. QED
    BY <2>2, <1>1 DEF rest_size, k
<1>5. ASSUME Sound
      PROVE  /\ InPage(offset) = 0 /\ size <= Word - Page
             /\ HeadLen = 0 /\ rest_size = size /\ filep = offset
             /\ \A k \in offset..(offset + size - 1) : k \in Mapped
  <2>1. InPage(offset) = 0 /\ size <= Word - Page
    BY <1>5 DEF Sound
  <2>2. HeadLen = 0
    BY <2>1, <1>3
  <2>3. rest_size = size
    <3>1. size % Word = size
      BY <1>2, Wrap
    <3>. QED
      BY <3>1, <2>2, <1>2 DEF rest_size
  <2>4. filep = offset
    BY <2>1, <1>2 DEF filep, RoundDown, InPage
  <2>5. RoundDown(size + (Page - 1)) \in Nat /\ RoundDown(size + (Page - 1)) >= size
    <3> DEFINE x == size + (Page - 1)
    <3>1. x \in Nat
      BY <1>1, <1>2
    <3> HIDE DEF x
    <3>2. /\ InPage(x) \in 0..(Page - 1)
          /\ RoundDown(x) \in Nat /\ RoundDown(x) + InPage(x) = x
      BY <3>1, RoundDownFacts
    <3>3. RoundDown(x) >= size
      BY <3>1, <3>2, <1>1, <1>2 DEF x
    <3>. QED
      BY <3>2, <3>3 DEF x
  <2>6. ASSUME NEW k \in offset..(offset + size - 1) PROVE k \in Mapped
    BY <2>4, <2>5, <1>1, <1>2 DEF Mapped
  <2>. QED
    BY <2>1, <2>2, <2>3, <2>4, <2>6
<1>. QED
  BY <1>1, <1>2, <1>4, <1>5

\* What a copy of known data leaves has its type, wherever it goes.
LEMMA PutType ==
    ASSUME file \in [Byte -> {Old} \cup 0..(Page - 1)], NEW at \in Int,
           NEW from \in 0..(Page - 1), NEW n \in Nat, from + n <= Page, Put(at, from, n)
    PROVE  file' \in [Byte -> {Old} \cup 0..(Page - 1)]
<1>1. Page \in Nat \ {0} /\ Byte \subseteq Int
  BY WorkloadAssumption DEF Byte
<1>2. ASSUME NEW p \in Byte, p \in at..(at + n - 1)
      PROVE  kTestDataBlock(from + (p - at)) \in 0..(Page - 1)
  <2> DEFINE k == from + (p - at)
  <2>1. k \in 0..(Page - 1)
    BY <1>1, <1>2
  <2> HIDE DEF k
  <2>2. kTestDataBlock(k) = k
    BY <2>1, <1>1 DEF kTestDataBlock
  <2>. QED
    BY <2>1, <2>2 DEF k
<1>. QED
  BY <1>2 DEF Put

LEMMA MmapInv == WorkloadInv /\ fn = "WriteDataMmap" /\ (Mmap \/ MapPagesEnd \/ Msync)
                     => WorkloadInv'
<1> SUFFICES ASSUME WorkloadInv, fn = "WriteDataMmap", Mmap \/ MapPagesEnd \/ Msync
             PROVE  WorkloadInv'
  OBVIOUS
<1>1. UNCHANGED <<call, num_written, block_written, file>>
  BY DEF Mmap, MapPagesEnd, Msync
<1>2. fn' = fn /\ offset' = offset /\ size' = size /\ rest_size' = rest_size /\ Sound' = Sound
  BY <1>1, SameCall
<1>3. Written' <=> Written
  BY <1>1, <1>2 DEF Written, InPage
<1>4. /\ pc' \in {"map_head", "msync", "success", "error"}
      /\ pc' = "map_head" => num_written = 0
      /\ pc' \in {"msync", "success"} => num_written = rest_size
  <2>1. CASE Mmap
    BY <2>1 DEF Mmap, WorkloadInv, Copies
  <2>2. CASE MapPagesEnd
    BY <2>2 DEF MapPagesEnd
  <2>3. CASE Msync
    BY <2>3 DEF Msync, Returned, WorkloadInv, Copies
  <2>. QED
    BY <2>1, <2>2, <2>3
<1>5. TypeOK'
  BY <1>1, <1>2, <1>4 DEF WorkloadInv, TypeOK, Byte, Returned
<1>6. Copies'
  BY <1>1, <1>2, <1>3, <1>4 DEF WorkloadInv, Copies, InPage, Returned
<1>. QED
  BY <1>2, <1>5, <1>6 DEF WorkloadInv

LEMMA MapHeadInv == WorkloadInv /\ fn = "WriteDataMmap" /\ MapHead => WorkloadInv'
<1> SUFFICES ASSUME WorkloadInv, fn = "WriteDataMmap", MapHead PROVE WorkloadInv'
  OBVIOUS
<1>1. UNCHANGED <<call, num_written, block_written>> /\ pc = "map_head"
  BY DEF MapHead
<1>2. fn' = fn /\ offset' = offset /\ size' = size /\ rest_size' = rest_size /\ Sound' = Sound
  BY <1>1, SameCall
<1>3. /\ Page \in Nat \ {0} /\ Byte = 0..(Word - 1) /\ offset \in 0..(Word - 1)
      /\ file \in [Byte -> {Old} \cup 0..(Page - 1)] /\ Copies /\ (Sound => HeadLen = 0)
  BY CopyFacts
<1>4. CASE HeadLen = 0
  <2>1. file' = file /\ pc' = "map_pages"
    BY <1>4 DEF MapHead
  <2>2. Written' <=> Written
    BY <1>1, <1>2, <2>1 DEF Written, InPage
  <2>3. TypeOK'
    BY <1>1, <1>2, <2>1 DEF WorkloadInv, TypeOK, Byte
  <2>4. Copies'
    BY <1>1, <1>2, <1>3, <2>1, <2>2 DEF Copies, InPage, Returned
  <2>. QED
    BY <1>2, <2>3, <2>4 DEF WorkloadInv
<1>5. CASE HeadLen # 0
  <2> DEFINE r == InPage(offset)
  <2>1. Memcpy(offset, r, Page - r, "map_pages") /\ ~Sound
    BY <1>3, <1>5 DEF MapHead
  <2>2. r \in 0..(Page - 1) /\ offset \in Int
    <3>1. offset \in Nat
      BY <1>3
    <3>. QED
      BY <3>1, RoundDownFacts
  <2> HIDE DEF r
  <2>3. pc' \in {"map_pages", "crashed"} /\ file' \in [Byte -> {Old} \cup 0..(Page - 1)]
    <3>1. CASE Put(offset, r, Page - r) /\ pc' = "map_pages"
      <4>1. Page - r \in Nat /\ r + (Page - r) <= Page
        BY <2>2, <1>3
      <4>. QED
        BY <3>1, <4>1, <2>2, <1>3, PutType
    <3>2. CASE file' = file /\ pc' = "crashed"
      BY <3>2, <1>3
    <3>. QED
      BY <2>1, <3>1, <3>2 DEF Memcpy
  <2>4. TypeOK'
    BY <1>1, <1>2, <2>3 DEF WorkloadInv, TypeOK, Byte
  <2>5. Copies'
    BY <1>1, <1>2, <1>3, <2>1, <2>3 DEF Copies, InPage, Returned
  <2>. QED
    BY <1>2, <2>4, <2>5 DEF WorkloadInv
<1>. QED
  BY <1>4, <1>5

LEMMA MapPagesInv == WorkloadInv /\ fn = "WriteDataMmap" /\ MapPages => WorkloadInv'
<1> SUFFICES ASSUME WorkloadInv, fn = "WriteDataMmap", MapPages PROVE WorkloadInv'
  OBVIOUS
<1> DEFINE at == filep + HeadLen + num_written
           n == IF (num_written + Page) % Word > rest_size
                THEN (rest_size - num_written) % Word ELSE Page
<1>1. /\ UNCHANGED <<call, block_written>> /\ pc = "map_pages" /\ num_written # rest_size
      /\ Memcpy(at, 0, n, "map_pages") /\ num_written' = (num_written + n) % Word
  BY DEF MapPages
<1>2. fn' = fn /\ offset' = offset /\ size' = size /\ rest_size' = rest_size /\ Sound' = Sound
  BY <1>1, SameCall
<1>3. /\ Page \in Nat \ {0} /\ Word \in Nat \ {0} /\ Byte = 0..(Word - 1)
      /\ offset \in 0..(Word - 1) /\ size \in 0..(Word - 1) /\ offset + size <= Word
      /\ num_written \in 0..(Word - 1) /\ rest_size \in 0..(Word - 1)
      /\ file \in [Byte -> {Old} \cup 0..(Page - 1)]
      /\ Copies
  BY CopyFacts
<1>4. num_written < rest_size /\ num_written % Page = 0
  BY <1>1, <1>3 DEF Copies, InPage
<1>5. num_written + Page <= Word
  <2>1. num_written \in Int /\ Word \in Int /\ num_written < Word /\ Word % Page = 0
    BY <1>3, WorkloadAssumption
  <2>2. num_written - (num_written % Page) + Page <= Word
    BY <2>1, <1>3, PageFits
  <2>. QED
    BY <2>2, <1>3, <1>4
\* A whole page, or the rest; past the last page of the numbers the count wraps.
<1>6. /\ n \in 1..Page
      /\ \/ num_written' = num_written + n /\ num_written + n <= rest_size
            /\ (n = Page \/ num_written' = rest_size)
         \/ num_written' = 0 /\ num_written + Page = Word
  <2> DEFINE x == num_written + Page
             d == rest_size - num_written
  <2>1. CASE num_written + Page = Word
    <3>1. x % Word = 0
      <4>1. x \in Word..(2*Word - 1) /\ x - Word = 0 /\ x \in Int
        BY <2>1, <1>3
      <4> HIDE DEF x
      <4>. QED
        BY <4>1, Wrap
    <3>2. n = Page
      BY <3>1, <1>3
    <3>. QED
      BY <3>1, <3>2, <2>1, <1>1, <1>3
  <2>2. CASE num_written + Page < Word
    <3>1. x % Word = x
      <4>1. x \in 0..(Word - 1)
        BY <2>2, <1>3
      <4> HIDE DEF x
      <4>. QED
        BY <4>1, Wrap
    <3>2. d % Word = d
      <4>1. d \in 0..(Word - 1)
        BY <1>3, <1>4
      <4> HIDE DEF d
      <4>. QED
        BY <4>1, Wrap
    <3>3. n = IF x > rest_size THEN d ELSE Page
      BY <3>1, <3>2
    <3>4. n \in 1..Page /\ num_written + n <= rest_size
          /\ (n = Page \/ num_written + n = rest_size)
      <4> HIDE DEF n
      <4>. QED
        BY <3>3, <1>3, <1>4
    <3>5. (num_written + n) % Word = num_written + n
      <4> DEFINE y == num_written + n
      <4>1. y \in 0..(Word - 1)
        <5> HIDE DEF n
        <5>. QED
          BY <3>4, <1>3
      <4> HIDE DEF y
      <4>2. y % Word = y
        BY <4>1, Wrap
      <4>. QED
        BY <4>2 DEF y
    <3> HIDE DEF n
    <3>. QED
      BY <3>4, <3>5, <1>1
  <2> HIDE DEF n
  <2>. QED
    BY <2>1, <2>2, <1>3, <1>5
<1> HIDE DEF n
<1>7. num_written' \in Byte /\ num_written' <= rest_size
      /\ (InPage(num_written') = 0 \/ num_written' = rest_size)
  <2>1. CASE num_written' = num_written + n /\ num_written + n <= rest_size /\ num_written' = rest_size
    BY <2>1, <1>3
  <2>2. CASE num_written' = num_written + n /\ num_written + n <= rest_size /\ n = Page
    <3>1. Page % Page = 0
      <4>1. Page = Page * 1 + 0 /\ 0 \in 0..(Page - 1) /\ Page \in Int
        BY <1>3
      <4>. QED
        BY <4>1, <1>3, ModUnique
    <3>2. (num_written + Page) % Page = Page % Page
      <4>1. num_written \in Int /\ Page \in Int
        BY <1>3
      <4>. QED
        BY <4>1, <1>3, <1>4, ModStep, ZenonT(60)
    <3>. QED
      BY <2>2, <3>1, <3>2, <1>3 DEF InPage
  <2>3. CASE num_written' = 0
    <3>1. 0 \in 0..(Page - 1)
      BY <1>3
    <3>2. InPage(0) = 0
      BY <3>1, <1>3, ModSmall DEF InPage
    <3>. QED
      BY <2>3, <3>2, <1>3
  <2>. QED
    BY <1>6, <2>1, <2>2, <2>3
<1>8. at \in Int
  <2>1. offset \in Nat
    BY <1>3
  <2>2. RoundDown(offset) \in Nat
    BY <2>1, RoundDownFacts
  <2>3. HeadLen \in 0..(Page - 1)
    BY <1>3, HeadLenFacts
  <2>. QED
    BY <2>2, <2>3, <1>3 DEF filep
<1>9. pc' \in {"map_pages", "crashed"} /\ file' \in [Byte -> {Old} \cup 0..(Page - 1)]
  <2>1. CASE Put(at, 0, n) /\ pc' = "map_pages"
    <3>1. 0 \in 0..(Page - 1) /\ n \in Nat /\ 0 + n <= Page
      BY <1>3, <1>6
    <3> HIDE DEF at
    <3>. QED
      BY <2>1, <3>1, <1>3, <1>8, PutType
  <2>2. CASE file' = file /\ pc' = "crashed"
    BY <2>2, <1>3
  <2>. QED
    BY <1>1, <2>1, <2>2 DEF Memcpy
<1>10. ASSUME Sound PROVE Written' /\ pc' # "crashed"
  <2>1. /\ InPage(offset) = 0 /\ size <= Word - Page /\ HeadLen = 0 /\ rest_size = size
        /\ filep = offset /\ \A k \in offset..(offset + size - 1) : k \in Mapped
    BY <1>10, CopyFacts
  <2>2. at = offset + num_written
    BY <2>1, <1>3
  <2>3. num_written' = num_written + n /\ num_written + n <= size /\ n \in Nat \ {0} /\ n <= Page
    BY <2>1, <1>3, <1>4, <1>6
  <2>4. at..(at + n - 1) \subseteq Mapped /\ at + n <= Word
    <3>1. \A k \in at..(at + n - 1) : k \in offset..(offset + size - 1)
      BY <2>2, <2>3, <1>3
    <3>2. at + n <= Word
      BY <2>2, <2>3, <1>3
    <3>. QED
      BY <3>1, <3>2, <2>1
  <2>5. Put(at, 0, n) /\ pc' = "map_pages"
    BY <2>4, <1>1 DEF Memcpy
  <2>6. (offset + num_written) % Page = 0
    <3>1. offset \in Int /\ num_written \in Int /\ offset % Page = 0
      BY <2>1, <1>3 DEF InPage
    <3>2. (offset + num_written) % Page = num_written % Page
      BY <3>1, <1>3, ModStep, ZenonT(60)
    <3>. QED
      BY <3>2, <1>4
  <2>7. /\ 0 \in 0..(Page - 1) /\ 0 + n <= Page /\ n \in Nat /\ num_written \in Nat
        /\ offset \in Byte /\ offset + num_written + n <= Word
    BY <2>2, <2>3, <2>4, <1>3
  <2>8. Put(offset + num_written, 0, n) /\ Written
    BY <2>2, <2>5, <1>3, <1>10 DEF Copies
  <2>9. \A p \in Byte : file'[p] = IF p \in offset..(offset + (num_written + n) - 1)
                                  THEN InPage(p) ELSE Old
    <3> HIDE DEF at
    <3>. QED
      BY <2>6, <2>7, <2>8, <1>3, PutKnown
  <2>10. offset + (num_written + n) - 1 = offset' + num_written' - 1
    BY <2>3, <1>2
  <2>11. Written'
    BY <2>9, <2>10, <1>2, Zenon DEF Written, InPage
  <2>. QED
    BY <2>5, <2>11
<1>11. TypeOK'
  BY <1>1, <1>2, <1>7, <1>9 DEF WorkloadInv, TypeOK, Byte
<1>12. Copies'
  BY <1>2, <1>7, <1>9, <1>10 DEF Copies, InPage, Returned
<1>. QED
  BY <1>2, <1>3, <1>11, <1>12 DEF WorkloadInv
-----------------------------------------------------------------------------
\* The two functions keep the invariant, step by step.
LEMMA NextWorkload == WorkloadInv /\ [Next]_vars => WorkloadInv'
<1> SUFFICES ASSUME WorkloadInv, [Next]_vars PROVE WorkloadInv'
  OBVIOUS
<1>1. CASE UNCHANGED vars
  <2>1. UNCHANGED call /\ UNCHANGED <<pc, num_written, block_written, file>>
    BY <1>1 DEF vars
  <2>2. /\ fn' = fn /\ offset' = offset /\ size' = size /\ Sound' = Sound
        /\ head_size' = head_size /\ aligned_size' = aligned_size /\ rest_size' = rest_size
    BY <2>1, SameCall
  <2>3. Written' <=> Written
    BY <2>1, <2>2 DEF Written, InPage
  <2>4. TypeOK'
    BY <2>1, <2>2 DEF WorkloadInv, TypeOK, Byte
  <2>5. fn = "WriteData" => Loops'
    BY <2>1, <2>2, <2>3 DEF WorkloadInv, Loops
  <2>6. fn = "WriteDataMmap" => Copies'
    BY <2>1, <2>2, <2>3 DEF WorkloadInv, Copies, InPage
  <2>. QED
    BY <2>2, <2>4, <2>5, <2>6 DEF WorkloadInv
<1>2. CASE WriteData
  <2>1. pc \in {"head", "pages", "tail"}
    BY <1>2 DEF WriteData, HeadStep, HeadEnds, PagesStep, PagesEnd, TailStep, TailEnds, PwriteFails
  <2>2. fn = "WriteData"
    BY <2>1, WorkloadAssumption DEF WorkloadInv, TypeOK, Copies, Returned
  <2>. QED
    BY <1>2, <2>2, HeadStepInv, PagesStepInv, TailStepInv, WriteDataEnds DEF WriteData
<1>3. CASE WriteDataMmap
  <2>1. pc \in {"mmap", "map_head", "map_pages", "msync"}
    BY <1>3 DEF WriteDataMmap, Mmap, MapHead, MapPages, MapPagesEnd, Msync
  <2>2. fn = "WriteDataMmap"
    BY <2>1, WorkloadAssumption DEF WorkloadInv, TypeOK, Loops, Returned
  <2>. QED
    BY <1>3, <2>2, MmapInv, MapHeadInv, MapPagesInv DEF WriteDataMmap
<1>. QED
  BY <1>1, <1>2, <1>3 DEF Next

\* For every size of a page and of the numbers: where each loop of WriteData and
\* WriteDataMmap stands, and that the bytes written so far are the first ones of
\* the range, each with what belongs there.
THEOREM WorkloadInvariance == Spec => []WorkloadInv
BY InitWorkload, NextWorkload, PTL DEF Spec

\* The numbers of the calls stay within their words, and the file holds nothing
\* but known data.
THEOREM WorkloadTypeCorrect == Spec => []TypeOK
<1>1. WorkloadInv => TypeOK
  BY DEF WorkloadInv
<1>. QED
  BY <1>1, WorkloadInvariance, PTL

\* A byte outside the range is never touched, and none inside gets a byte that
\* belongs elsewhere, however short each pwrite falls and also when one fails.
THEOREM NothingElseIsWritten == Spec => []NothingElseWritten
<1>1. WorkloadInv => NothingElseWritten
  <2> SUFFICES ASSUME WorkloadInv, Sound, NEW p \in Byte, file[p] # Old
               PROVE  p \in Range /\ file[p] = InPage(p)
    BY DEF NothingElseWritten
  <2>1. Written /\ num_written <= size
    <3>1. CASE fn = "WriteData"
      BY <3>1 DEF WorkloadInv, Loops
    <3>2. CASE fn = "WriteDataMmap"
      <4>1. rest_size = size
        BY <3>2, CopyFacts
      <4>. QED
        BY <3>2, <4>1 DEF WorkloadInv, Copies
    <3>. QED
      BY <3>1, <3>2, WorkloadAssumption DEF WorkloadInv, TypeOK
  <2>2. p \in offset..(offset + num_written - 1) /\ file[p] = InPage(p)
    BY <2>1, Zenon DEF Written
  <2>3. offset \in 0..(Word - 1) /\ size \in 0..(Word - 1) /\ num_written \in 0..(Word - 1)
        /\ Word \in Nat
    BY WorkloadAssumption DEF WorkloadInv, TypeOK, Byte
  <2>. QED
    BY <2>1, <2>2, <2>3 DEF Range
<1>. QED
  BY <1>1, WorkloadInvariance, PTL

\* A call that returns 0 has written every byte of the range.
THEOREM KnownDataIsWritten == Spec => []KnownDataWritten
<1>1. WorkloadInv => KnownDataWritten
  <2> SUFFICES ASSUME WorkloadInv, Sound, pc = "success", NEW p \in Range
               PROVE  file[p] = InPage(p)
    BY DEF KnownDataWritten, RangeHoldsKnownData
  <2>1. Written /\ num_written = size
    <3>1. CASE fn = "WriteData"
      BY <3>1 DEF WorkloadInv, Loops
    <3>2. CASE fn = "WriteDataMmap"
      <4>1. rest_size = size
        BY <3>2, CopyFacts
      <4>. QED
        BY <3>2, <4>1 DEF WorkloadInv, Copies
    <3>. QED
      BY <3>1, <3>2, WorkloadAssumption DEF WorkloadInv, TypeOK
  <2>2. p \in Byte
    <3>1. offset \in 0..(Word - 1) /\ size \in 0..(Word - 1) /\ offset + size <= Word /\ Word \in Nat
      BY WorkloadAssumption DEF WorkloadInv, TypeOK, Byte
    <3>. QED
      BY <3>1 DEF Range, Byte
  <2>3. p \in offset..(offset + num_written - 1)
    BY <2>1 DEF Range
  <2>. QED
    BY <2>1, <2>2, <2>3, Zenon DEF Written
<1>. QED
  BY <1>1, WorkloadInvariance, PTL

\* No copy of WriteDataMmap leaves the mapping when the range starts a page.
THEOREM CopiesStayMapped == Spec => [](Sound => pc # "crashed")
<1>1. WorkloadInv => (Sound => pc # "crashed")
  BY WorkloadAssumption DEF WorkloadInv, TypeOK, Loops, Copies, Returned
<1>. QED
  BY <1>1, WorkloadInvariance, PTL
=============================================================================
