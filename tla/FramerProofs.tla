------------------------------ MODULE FramerProofs -----------------------------
(***************************************************************************)
(* Proofs about Framer for every radix, any number of goroutines and every *)
(* set of well-formed frames.  Three parts: ReadFrame reads a frame whose  *)
(* bytes are there, and waits for one that is there in part; the bytes     *)
(* under way are those of the frames begun and not yet read, one behind    *)
(* the other; and a canonical header is read as it was written.            *)
(***************************************************************************)
EXTENDS Framer, SequenceTheorems, FiniteSetTheorems, TLAPS

--------------------------------------------------------------------------------
\* Division.

\* The quotient and the remainder.
LEMMA DivMod ==
    ASSUME NEW n \in Nat, NEW m \in Nat, m > 0
    PROVE  n \div m \in Nat /\ n % m \in 0..(m - 1) /\ n = m * (n \div m) + (n % m)
<1>1. n % m \in 0..(m - 1) /\ n \div m \in Int
    OBVIOUS
<1>2. n = m * (n \div m) + (n % m)
    OBVIOUS
<1>3. n \div m >= 0
  <2>1. SUFFICES ASSUME n \div m < 0 PROVE FALSE
    BY <1>1
  <2>2. m * (n \div m) <= -m
    BY <1>1, <2>1
  <2> QED
    BY <1>1, <1>2, <2>2
<1> QED
    BY <1>1, <1>2, <1>3

\* There is only one quotient.
LEMMA Quotient ==
    ASSUME NEW m \in Nat, NEW q \in Nat, NEW r \in Nat, r < m
    PROVE  (m * q + r) \div m = q /\ (m * q + r) % m = r
<1> DEFINE n == m * q + r
<1>1. n \in Nat /\ m > 0
    OBVIOUS
<1>2. PICK p \in Nat, s \in 0..(m - 1) : n = m * p + s /\ p = n \div m /\ s = n % m
  <2> HIDE DEF n
  <2> QED
    BY <1>1, DivMod
<1>3. ~(p < q)
  <2>1. SUFFICES ASSUME p < q PROVE FALSE
    OBVIOUS
  <2>2. m * p + m <= m * q
    BY <2>1
  <2> QED
    BY <1>2, <2>2
<1>4. ~(q < p)
  <2>1. SUFFICES ASSUME q < p PROVE FALSE
    OBVIOUS
  <2>2. m * q + m <= m * p
    BY <2>1
  <2> QED
    BY <1>2, <2>2
<1>5. p = q
    BY ONLY p \in Nat, q \in Nat, <1>3, <1>4
<1> QED
    BY <1>2, <1>5

\* Digits below a bound.
LEMMA Below ==
    ASSUME NEW a \in Nat, NEW b \in Nat, NEW m \in Nat, NEW k \in Nat, a < m, b < k
    PROVE  a * k + b < m * k /\ a * k + b \in Nat
<1>1. (a + 1) * k <= m * k
    OBVIOUS
<1>2. (a + 1) * k = a * k + k
    OBVIOUS
<1>3. a * k \in Nat /\ m * k \in Nat
    OBVIOUS
<1> QED
    BY <1>1, <1>2, <1>3

\* Division by a product.
LEMMA DivDiv ==
    ASSUME NEW n \in Nat, NEW a \in Nat, NEW b \in Nat, a > 0, b > 0
    PROVE  (n \div a) \div b = n \div (a * b)
<1>1. PICK q \in Nat, r \in 0..(a - 1) : n = a * q + r /\ q = n \div a
    BY DivMod
<1>2. PICK u \in Nat, v \in 0..(b - 1) : q = b * u + v /\ u = q \div b
    BY DivMod
<1>3. n = (a * b) * u + (v * a + r)
  <2>1. n = a * (b * u + v) + r
    BY <1>1, <1>2
  <2>2. a * (b * u + v) = (a * b) * u + v * a
    OBVIOUS
  <2> QED
    BY <2>1, <2>2
<1>4. v * a + r < a * b /\ v * a + r \in Nat
  <2>1. v * a + r < b * a /\ v * a + r \in Nat
    BY Below
  <2> QED
    BY <2>1
<1>5. a * b \in Nat
    OBVIOUS
<1>6. n \div (a * b) = u
  <2> DEFINE k == a * b
             s == v * a + r
  <2>1. k \in Nat /\ s \in Nat /\ s < k /\ n = k * u + s
    BY <1>3, <1>4, <1>5
  <2> HIDE DEF k, s
  <2>2. n \div k = u
    BY <2>1, Quotient
  <2> QED
    BY <2>2 DEF k
<1> QED
    BY <1>1, <1>2, <1>6

\* The powers of Radix.
LEMMA Powers ==
    /\ Radix \in Nat /\ Radix >= 4
    /\ Radix2 \in Nat /\ Radix2 >= 16
    /\ Radix3 \in Nat /\ Radix3 > 0
    /\ Radix4 \in Nat /\ Radix4 > 0 /\ Radix4 = Radix2 * Radix2
<1>1. Radix \in Nat /\ Radix >= 4
    BY CodecAssumption
<1>2. Radix2 \in Nat /\ Radix2 >= 16
    BY <1>1 DEF Radix2
<1>3. Radix3 \in Nat /\ Radix3 > 0
    BY <1>1, <1>2 DEF Radix3
<1>4. Radix4 \in Nat /\ Radix4 > 0
    BY <1>1, <1>3 DEF Radix4
<1>5. Radix4 = Radix2 * Radix2
    BY <1>1 DEF Radix4, Radix3, Radix2
<1> QED
    BY <1>1, <1>2, <1>3, <1>4, <1>5

--------------------------------------------------------------------------------
\* Integers as bytes.

\* What a byte may be: texts are those of the headers in Frames.
Texts == UNION {writeHeaderValueBlock(f.headers) : f \in {g \in Frames : HasHeaders(g)}}
Bytes == [b : 0..(Radix - 1), z : {<<>>} \cup (Nat \X Texts)]

\* s is in the sequence in, behind the first p bytes, as far as in goes.
Holds(in, p, s) == \A i \in 1..Len(s) : p + i <= Len(in) => in[p + i] = s[i]

\* The elements of a concatenation.
LEMMA Join ==
    ASSUME NEW S, NEW s \in Seq(S), NEW u \in Seq(S)
    PROVE  /\ s \o u \in Seq(S) /\ Len(s \o u) = Len(s) + Len(u)
           /\ \A i \in 1..Len(s) : (s \o u)[i] = s[i]
           /\ \A i \in 1..Len(u) : (s \o u)[Len(s) + i] = u[i]
    OBVIOUS

\* Two bytes.
LEMMA Uint2 ==
    ASSUME NEW n \in Nat
    PROVE  /\ Uint(n, 2) \in Seq(Bytes) /\ Len(Uint(n, 2)) = 2
           /\ Uint(n, 2)[1].b = (n \div Radix) % Radix /\ Uint(n, 2)[2].b = n % Radix
<1>1. n \div Radix \in Nat /\ n \div 1 = n
  <2>1. n \div Radix \in Nat
    BY DivMod, Powers
  <2> QED
    BY <2>1
<1>2. (n \div Radix) % Radix \in 0..(Radix - 1) /\ n % Radix \in 0..(Radix - 1)
    BY <1>1, DivMod, Powers
<1>3. \A i \in 1..2 : Uint(n, 2)[i] = [b |-> (n \div Weight[2 + i]) % Radix, z |-> <<>>]
    BY DEF Uint
<1>4. Weight[2 + 1] = Radix /\ Weight[2 + 2] = 1
    BY DEF Weight
<1>5. \A i \in 1..2 : Uint(n, 2)[i] \in Bytes
    BY <1>1, <1>2, <1>3, <1>4 DEF Bytes
<1>6. Uint(n, 2) = [i \in 1..2 |-> Uint(n, 2)[i]]
    BY DEF Uint
<1>7. Uint(n, 2) \in Seq(Bytes) /\ Len(Uint(n, 2)) = 2
  <2>1. PICK k \in Nat : k = 2
    OBVIOUS
  <2>2. PICK s : s = Uint(n, 2)
    OBVIOUS
  <2>3. s = [i \in 1..k |-> s[i]] /\ \A i \in 1..k : s[i] \in Bytes
    BY <1>5, <1>6, <2>1, <2>2
  <2>4. s \in Seq(Bytes) /\ Len(s) = k
    BY ONLY <2>3, k \in Nat
  <2> QED
    BY <2>1, <2>2, <2>4
<1> QED
    BY <1>1, <1>3, <1>4, <1>7

\* One byte.
LEMMA Uint1 ==
    ASSUME NEW n \in Nat
    PROVE  /\ Uint(n, 1) \in Seq(Bytes) /\ Len(Uint(n, 1)) = 1
           /\ Uint(n, 1)[1].b = n % Radix
<1>1. n \div 1 = n
    OBVIOUS
<1>2. n % Radix \in 0..(Radix - 1)
    BY DivMod, Powers
<1>3. Weight[4] = 1
    BY DEF Weight
<1>4. Uint(n, 1) = [i \in 1..1 |-> [b |-> (n \div Weight[3 + i]) % Radix, z |-> <<>>]]
    BY DEF Uint
<1>5. \A i \in 1..1 : Uint(n, 1)[i] = [b |-> n % Radix, z |-> <<>>]
    BY <1>1, <1>3, <1>4
<1>6. \A i \in 1..1 : Uint(n, 1)[i] \in Bytes
    BY <1>2, <1>5 DEF Bytes
<1>7. Uint(n, 1) = [i \in 1..1 |-> Uint(n, 1)[i]]
    BY <1>4
<1>8. Uint(n, 1) \in Seq(Bytes) /\ Len(Uint(n, 1)) = 1
  <2>1. PICK k \in Nat : k = 1
    OBVIOUS
  <2>2. PICK s : s = Uint(n, 1)
    OBVIOUS
  <2>3. s = [i \in 1..k |-> s[i]] /\ \A i \in 1..k : s[i] \in Bytes
    BY <1>6, <1>7, <2>1, <2>2
  <2>4. s \in Seq(Bytes) /\ Len(s) = k
    BY ONLY <2>3, k \in Nat
  <2> QED
    BY <2>1, <2>2, <2>4
<1> QED
    BY <1>5, <1>8

\* The four bytes of a word.
LEMMA WordBytes ==
    ASSUME NEW n \in Nat
    PROVE  /\ Word(n) \in Seq(Bytes) /\ Len(Word(n)) = 4
           /\ Word(n)[1].b = (n \div Radix3) % Radix /\ Word(n)[2].b = (n \div Radix2) % Radix
           /\ Word(n)[3].b = (n \div Radix) % Radix /\ Word(n)[4].b = n % Radix
<1>1. n \div Radix3 \in Nat /\ n \div Radix2 \in Nat /\ n \div Radix \in Nat
    BY DivMod, Powers
<1>2. n \div 1 = n
    OBVIOUS
<1>3. /\ (n \div Radix3) % Radix \in 0..(Radix - 1) /\ (n \div Radix2) % Radix \in 0..(Radix - 1)
      /\ (n \div Radix) % Radix \in 0..(Radix - 1) /\ n % Radix \in 0..(Radix - 1)
    BY <1>1, DivMod, Powers
<1>4. \A i \in 1..4 : Word(n)[i] = [b |-> (n \div Weight[i]) % Radix, z |-> <<>>]
    BY DEF Uint, Word
<1>5. Weight[1] = Radix3 /\ Weight[2] = Radix2 /\ Weight[3] = Radix /\ Weight[4] = 1
    BY DEF Weight
<1>6. \A i \in 1..4 : (n \div Weight[i]) % Radix \in 0..(Radix - 1)
    BY <1>2, <1>3, <1>5
<1>7. \A i \in 1..4 : Word(n)[i] \in Bytes
    BY <1>4, <1>6 DEF Bytes
<1>8. Word(n) = [i \in 1..4 |-> Word(n)[i]]
    BY DEF Uint, Word
<1>9. Word(n) \in Seq(Bytes) /\ Len(Word(n)) = 4
  <2>1. PICK k \in Nat : k = 4
    OBVIOUS
  <2>2. PICK s : s = Word(n)
    OBVIOUS
  <2>3. s = [i \in 1..k |-> s[i]] /\ \A i \in 1..k : s[i] \in Bytes
    BY <1>7, <1>8, <2>1, <2>2
  <2>4. s \in Seq(Bytes) /\ Len(s) = k
    BY ONLY <2>3, k \in Nat
  <2> QED
    BY <2>1, <2>2, <2>4
<1> QED
    BY <1>2, <1>4, <1>5, <1>9

\* Two digits make up a number below Radix2.
LEMMA PairSplit ==
    ASSUME NEW n \in 0..(Radix2 - 1)
    PROVE  n = ((n \div Radix) % Radix) * Radix + (n % Radix)
<1>1. n \in Nat /\ Radix \in Nat /\ Radix >= 4 /\ n < Radix * Radix
    BY Powers DEF Radix2
<1>2. PICK q \in Nat, a \in 0..(Radix - 1) : n = Radix * q + a /\ q = n \div Radix /\ a = n % Radix
    BY <1>1, DivMod
<1>3. q < Radix
  <2>1. SUFFICES ASSUME q >= Radix PROVE FALSE
    BY <1>1
  <2>2. Radix * q >= Radix * Radix
    BY <1>1, <2>1
  <2> QED
    BY <1>1, <1>2, <2>2
<1>4. q % Radix = q
    BY <1>1, <1>3
<1>5. Radix * q = q * Radix
    BY <1>1
<1> QED
    BY <1>2, <1>4, <1>5

\* Four digits make up a number below Radix4.
LEMMA WordSplit ==
    ASSUME NEW n \in 0..(Radix4 - 1)
    PROVE  n = (((n \div Radix3) % Radix) * Radix + ((n \div Radix2) % Radix)) * Radix2
               + (((n \div Radix) % Radix) * Radix + (n % Radix))
<1>1. n \in Nat /\ n < Radix4 /\ Radix \in Nat /\ Radix > 0 /\ Radix2 \in Nat /\ Radix2 > 0
    BY Powers
<1>2. PICK h \in Nat, l \in 0..(Radix2 - 1) : n = Radix2 * h + l /\ h = n \div Radix2 /\ l = n % Radix2
    BY <1>1, DivMod
<1>3. h \in 0..(Radix2 - 1)
  <2>1. SUFFICES ASSUME h >= Radix2 PROVE FALSE
    BY <1>1
  <2>2. Radix2 * h >= Radix2 * Radix2
    BY <1>1, <2>1
  <2> QED
    BY <1>1, <1>2, <2>2, Powers
<1>4. h = ((h \div Radix) % Radix) * Radix + (h % Radix)
    BY <1>3, PairSplit
<1>5. h \div Radix = n \div Radix3
  <2>1. (n \div Radix2) \div Radix = n \div (Radix2 * Radix)
    BY <1>1, DivDiv
  <2> QED
    BY <1>2, <2>1 DEF Radix3
<1>6. l = ((l \div Radix) % Radix) * Radix + (l % Radix)
    BY <1>2, PairSplit
<1>7. l % Radix = n % Radix /\ (l \div Radix) % Radix = (n \div Radix) % Radix
  <2>1. PICK u \in Nat, v \in 0..(Radix - 1) : l = Radix * u + v /\ u = l \div Radix /\ v = l % Radix
    BY <1>1, DivMod
  <2>2. n = Radix * (Radix * h + u) + v
    <3>1. n = (Radix * Radix) * h + (Radix * u + v)
      BY <1>2, <2>1 DEF Radix2
    <3>2. (Radix * Radix) * h + (Radix * u + v) = Radix * (Radix * h + u) + v
      BY <1>1
    <3> QED
      BY <3>1, <3>2
  <2>3. PICK w \in Nat : w = Radix * h + u
    BY <1>1
  <2>4. n \div Radix = w /\ n % Radix = v
    BY <1>1, <2>2, <2>3, Quotient
  <2>5. PICK c \in Nat, d \in 0..(Radix - 1) : u = Radix * c + d /\ d = u % Radix
    BY <1>1, DivMod
  <2>6. w = Radix * (h + c) + d
    BY <1>1, <2>3, <2>5
  <2>7. w % Radix = d
    <3>1. PICK x \in Nat : x = h + c
      OBVIOUS
    <3> QED
      BY <1>1, <2>6, <3>1, Quotient
  <2> QED
    BY <2>1, <2>4, <2>5, <2>7
<1>8. h * Radix2 = Radix2 * h
    BY <1>1
<1> QED
    BY <1>2, <1>4, <1>5, <1>6, <1>7, <1>8

\* Reading a word gives the number that was written.
LEMMA WordRead ==
    ASSUME NEW in, NEW p \in Nat, NEW n \in 0..(Radix4 - 1),
           Len(in) \in Nat, p + 4 <= Len(in), Holds(in, p, Word(n))
    PROVE  U32(in, p + 1) = n
<1>1. n \in Nat
    BY Powers
<1>2. \A i \in 1..4 : in[p + i] = Word(n)[i]
  <2>1. PICK s : s = Word(n)
    OBVIOUS
  <2>2. Len(s) = 4
    BY <1>1, <2>1, WordBytes
  <2>3. \A i \in 1..4 : p + i <= Len(in) /\ in[p + i] = s[i]
    BY <2>1, <2>2 DEF Holds
  <2> QED
    BY <2>1, <2>3
<1>3. /\ in[p + 1] = Word(n)[1] /\ in[p + 2] = Word(n)[2]
      /\ in[p + 3] = Word(n)[3] /\ in[p + 4] = Word(n)[4]
    BY <1>2
<1>4. /\ (p + 1) + 1 = p + 2 /\ (p + 1) + 2 = p + 3 /\ (p + 3) + 1 = p + 4
    OBVIOUS
<1>5. U32(in, p + 1) = (in[p + 1].b * Radix + in[p + 2].b) * Radix2
                       + (in[p + 3].b * Radix + in[p + 4].b)
    BY <1>4 DEF U32, U16, Byte
<1> QED
    BY <1>1, <1>3, <1>5, WordBytes, WordSplit

\* The same for two bytes.
LEMMA PairRead ==
    ASSUME NEW in, NEW p \in Nat, NEW n \in 0..(Radix2 - 1),
           Len(in) \in Nat, p + 2 <= Len(in), Holds(in, p, Uint(n, 2))
    PROVE  U16(in, p + 1) = n
<1>1. n \in Nat
    BY Powers
<1>2. \A i \in 1..2 : in[p + i] = Uint(n, 2)[i]
  <2>1. PICK s : s = Uint(n, 2)
    OBVIOUS
  <2>2. Len(s) = 2
    BY <1>1, <2>1, Uint2
  <2>3. \A i \in 1..2 : p + i <= Len(in) /\ in[p + i] = s[i]
    BY <2>1, <2>2 DEF Holds
  <2> QED
    BY <2>1, <2>3
<1>3. in[p + 1] = Uint(n, 2)[1] /\ in[p + 2] = Uint(n, 2)[2]
    BY <1>2
<1>4. U16(in, p + 1) = in[p + 1].b * Radix + in[p + 2].b
  <2>1. (p + 1) + 1 = p + 2
    OBVIOUS
  <2> QED
    BY <2>1 DEF U16, Byte
<1> QED
    BY <1>1, <1>3, <1>4, Uint2, PairSplit

\* A byte of flags beside a number of three bytes.
LEMMA Packed ==
    ASSUME NEW a \in 0..(Radix - 1), NEW b \in 0..(Radix3 - 1)
    PROVE  /\ a * Radix3 + b \in 0..(Radix4 - 1)
           /\ (a * Radix3 + b) \div Radix3 = a /\ (a * Radix3 + b) % Radix3 = b
<1>1. a \in Nat /\ b \in Nat /\ a < Radix /\ b < Radix3
    BY Powers
<1>2. a * Radix3 + b < Radix * Radix3 /\ a * Radix3 + b \in Nat
    BY <1>1, Powers, Below
<1>3. Radix * Radix3 = Radix4 /\ a * Radix3 = Radix3 * a
    BY <1>1, Powers DEF Radix4
<1>4. (Radix3 * a + b) \div Radix3 = a /\ (Radix3 * a + b) % Radix3 = b
    BY <1>1, Powers, Quotient
<1>5. PICK x \in Nat : x = a * Radix3 + b /\ x = Radix3 * a + b /\ x < Radix4
    BY ONLY <1>2, <1>3
<1> QED
    BY <1>4, <1>5, Powers

\* The first eight bytes of a control frame tell its type, flags and length.
LEMMA ControlHeader ==
    ASSUME NEW in, Len(in) \in Nat, Len(in) >= 8,
           NEW type \in 1..9, NEW flags \in 0..(Radix - 1), NEW length \in 0..(Radix3 - 1),
           Holds(in, 0, Uint(Radix2 \div 2 + Version, 2)), Holds(in, 2, Uint(type, 2)),
           Holds(in, 4, Word(flags * Radix3 + length))
    PROVE  /\ U32(in, 1) >= ControlBit /\ U32(in, 1) % Radix2 = type
           /\ U32(in, 5) \div Radix3 = flags /\ U32(in, 5) % Radix3 = length
<1> DEFINE v == Radix2 \div 2 + Version
<1>1. v \in 0..(Radix2 - 1) /\ type \in 0..(Radix2 - 1)
    BY Powers DEF Version
<1>2. U16(in, 1) = v
  <2>1. U16(in, 0 + 1) = v
    BY <1>1, PairRead
  <2> QED
    BY <2>1
<1>3. U16(in, 3) = type
  <2>1. U16(in, 2 + 1) = type
    BY <1>1, PairRead
  <2> QED
    BY <2>1
<1>4. U32(in, 1) = v * Radix2 + type
    BY <1>2, <1>3 DEF U32
<1>5. U32(in, 5) = flags * Radix3 + length
  <2>1. PICK n \in 0..(Radix4 - 1) : n = flags * Radix3 + length
    BY Packed
  <2>2. U32(in, 4 + 1) = n
    BY <2>1, WordRead
  <2> QED
    BY <2>1, <2>2
<1>6. v * Radix2 + type >= ControlBit
  <2>1. 2 * v >= Radix2
    BY Powers DEF Version
  <2>2. (2 * v) * Radix2 >= Radix2 * Radix2
    BY <1>1, <2>1, Powers
  <2>3. 2 * (v * Radix2) >= Radix4 /\ v * Radix2 \in Nat
    <3>1. PICK y \in Nat, z \in Nat : y = v /\ z = Radix2
      BY <1>1, Powers
    <3>2. (2 * y) * z = 2 * (y * z) /\ y * z \in Nat
      BY ONLY y \in Nat, z \in Nat
    <3>3. Radix4 = Radix2 * Radix2
      BY Powers
    <3> QED
      BY <2>2, <3>1, <3>2, <3>3, Zenon
  <2>4. PICK x \in Nat : x = v * Radix2
    BY <2>3
  <2>5. x >= Radix4 \div 2
    BY <2>3, <2>4, Powers
  <2> QED
    BY <2>4, <2>5, Powers DEF ControlBit
<1>7. (v * Radix2 + type) % Radix2 = type
  <2>1. v * Radix2 = Radix2 * v
    BY <1>1, Powers
  <2>2. v \in Nat /\ type \in Nat /\ type < Radix2
    BY <1>1, Powers
  <2> HIDE DEF v
  <2>3. (Radix2 * v + type) % Radix2 = type
    BY <2>2, Powers, Quotient
  <2> QED
    BY <2>1, <2>3
<1>8. (flags * Radix3 + length) \div Radix3 = flags /\ (flags * Radix3 + length) % Radix3 = length
    BY Packed
<1> HIDE DEF v
<1>9. U32(in, 1) >= ControlBit /\ U32(in, 1) % Radix2 = type
    BY ONLY <1>4, <1>6, <1>7
<1>10. U32(in, 5) \div Radix3 = flags /\ U32(in, 5) % Radix3 = length
    BY ONLY <1>5, <1>8
<1> QED
    BY ONLY <1>9, <1>10

--------------------------------------------------------------------------------
\* Where the fields of a frame are.

\* The bytes of a frame, when its header block is one of BlockLen bytes.
Size(f) ==
    CASE f.type = "DATA" -> 8 + Len(f.data)
      [] f.type = "SYN_STREAM" -> 18 + BlockLen
      [] f.type \in {"SYN_REPLY", "HEADERS"} -> 12 + BlockLen
      [] f.type = "SETTINGS" -> 12 + 8 * Len(f.list)
      [] f.type = "PING" -> 12
      [] f.type \in {"RST_STREAM", "GOAWAY", "WINDOW_UPDATE"} -> 16

\* The bytes before field j.
Start(f, j) ==
    CASE f.type = "DATA" -> IF j <= 3 THEN 4 * (j - 1) ELSE 8 + Len(f.data)
      [] f.type = "SYN_STREAM" ->
            IF j <= 3 THEN 2 * (j - 1)
            ELSE IF j <= 6 THEN 4 * (j - 2)
            ELSE IF j <= 8 THEN j + 10
            ELSE 18 + BlockLen
      [] f.type \in {"SYN_REPLY", "HEADERS"} ->
            IF j <= 3 THEN 2 * (j - 1) ELSE IF j <= 5 THEN 4 * (j - 2) ELSE 12 + BlockLen
      [] OTHER -> IF j <= 3 THEN 2 * (j - 1) ELSE 4 * (j - 2)

\* The fields of a frame whose header block has text t and number n.
Enc(f, t, n) == Fields(f, Deflate(t, n))

\* All fields are where Start says, and none is empty.
Laid(f, F) ==
    /\ F \in Seq(Seq(Bytes)) /\ Len(F) > 0
    /\ \A j \in 1..Len(F) : Len(F[j]) > 0 /\ Start(f, j + 1) = Start(f, j) + Len(F[j])
    /\ Start(f, Len(F) + 1) = Size(f)

\* The types of frames.
FrameTypes == {"DATA", "SYN_STREAM", "SYN_REPLY", "HEADERS", "RST_STREAM", "SETTINGS", "PING",
               "GOAWAY", "WINDOW_UPDATE"}

\* What is known of the lengths in a frame.
LEMMA Lengths ==
    ASSUME NEW f, WellFormed(f)
    PROVE  /\ f.type \in FrameTypes /\ BlockLen \in Nat /\ BlockLen > 0
           /\ f.type = "DATA" => Len(f.data) \in Nat
           /\ f.type = "SETTINGS" => Len(f.list) \in Nat
<1>1. BlockLen \in Nat /\ BlockLen > 0
    BY CodecAssumption
<1>2. f.type \in FrameTypes
    BY DEF WellFormed, FrameTypes
<1>3. ASSUME f.type = "DATA" PROVE Len(f.data) \in Nat
    BY <1>3 DEF WellFormed
<1>4. ASSUME f.type = "SETTINGS" PROVE Len(f.list) \in Nat
    BY <1>4 DEF WellFormed
<1> QED
    BY <1>1, <1>2, <1>3, <1>4

\* The fields follow each other.
LEMMA Starts ==
    ASSUME NEW f, WellFormed(f)
    PROVE  /\ Size(f) \in Nat /\ Size(f) >= 8 /\ Start(f, 1) = 0
           /\ \A i \in Nat \ {0} : Start(f, i) \in Nat
           /\ \A i, j \in Nat \ {0} : i <= j => Start(f, i) <= Start(f, j)
<1>1. CASE f.type = "DATA"
    BY <1>1, Lengths DEF Size, Start
<1>2. CASE f.type = "SYN_STREAM"
  <2>1. \A i \in Nat \ {0} : Start(f, i) = IF i <= 3 THEN 2 * (i - 1)
                                           ELSE IF i <= 6 THEN 4 * (i - 2)
                                           ELSE IF i <= 8 THEN i + 10
                                           ELSE 18 + BlockLen
    BY <1>2 DEF Start
  <2>2. Size(f) \in Nat /\ Size(f) >= 8
    BY <1>2, Lengths DEF Size
  <2>3. Start(f, 1) = 0
    BY <2>1
  <2>4. \A i \in Nat \ {0} : Start(f, i) \in Nat
    BY <2>1, Lengths
  <2>5. \A i, j \in Nat \ {0} : i <= j => Start(f, i) <= Start(f, j)
    BY <2>1, Lengths
  <2> QED
    BY <2>2, <2>3, <2>4, <2>5
<1>3. CASE f.type \in {"SYN_REPLY", "HEADERS"}
  <2>1. \A i \in Nat \ {0} : Start(f, i) = IF i <= 3 THEN 2 * (i - 1)
                                           ELSE IF i <= 5 THEN 4 * (i - 2) ELSE 12 + BlockLen
    BY <1>3 DEF Start
  <2>2. Size(f) \in Nat /\ Size(f) >= 8
    BY <1>3, Lengths DEF Size
  <2>3. Start(f, 1) = 0
    BY <2>1
  <2>4. \A i \in Nat \ {0} : Start(f, i) \in Nat
    BY <2>1, Lengths
  <2>5. \A i, j \in Nat \ {0} : i <= j => Start(f, i) <= Start(f, j)
    BY <2>1, Lengths
  <2> QED
    BY <2>2, <2>3, <2>4, <2>5
<1>4. CASE f.type \in {"RST_STREAM", "SETTINGS", "PING", "GOAWAY", "WINDOW_UPDATE"}
  <2>1. \A i \in Nat \ {0} : Start(f, i) = IF i <= 3 THEN 2 * (i - 1) ELSE 4 * (i - 2)
    BY <1>4 DEF Start
  <2>2. Size(f) \in Nat /\ Size(f) >= 8
    BY <1>4, Lengths DEF Size
  <2> QED
    BY <2>1, <2>2
<1> QED
    BY <1>1, <1>2, <1>3, <1>4, Lengths DEF FrameTypes

\* A header block.
LEMMA Block ==
    ASSUME NEW t \in Texts, NEW n \in Nat
    PROVE  Deflate(t, n) \in Seq(Bytes) /\ Len(Deflate(t, n)) = BlockLen /\ BlockLen \in Nat \ {0}
<1>1. [b |-> 1, z |-> <<n, t>>] \in Bytes
    BY Powers DEF Bytes
<1> QED
    BY <1>1, CodecAssumption DEF Deflate

\* Three fields before others.
LEMMA Behind ==
    ASSUME NEW S, NEW x \in S, NEW y \in S, NEW z \in S, NEW B \in Seq(S)
    PROVE  /\ <<x, y, z>> \o B \in Seq(S) /\ Len(<<x, y, z>> \o B) = 3 + Len(B)
           /\ (<<x, y, z>> \o B)[1] = x /\ (<<x, y, z>> \o B)[2] = y /\ (<<x, y, z>> \o B)[3] = z
           /\ \A i \in 1..Len(B) : (<<x, y, z>> \o B)[3 + i] = B[i]
<1>1. PICK H \in Seq(S) : H = <<x, y, z>> /\ Len(H) = 3 /\ H[1] = x /\ H[2] = y /\ H[3] = z
  <2>1. <<x, y, z>> \in Seq(S)
    OBVIOUS
  <2>2. PICK H : H = <<x, y, z>>
    OBVIOUS
  <2>3. Len(H) = 3 /\ H[1] = x /\ H[2] = y /\ H[3] = z
    BY <2>2
  <2> QED
    BY <2>1, <2>2, <2>3, Zenon
<1>2. /\ H \o B \in Seq(S) /\ Len(H \o B) = Len(H) + Len(B)
      /\ \A i \in 1..Len(H) : (H \o B)[i] = H[i]
      /\ \A i \in 1..Len(B) : (H \o B)[Len(H) + i] = B[i]
    BY Join
<1> QED
    BY <1>1, <1>2

\* The first three fields of a control frame, and the others behind them.
Control(f, F, length, B) ==
    /\ F \in Seq(Seq(Bytes)) /\ Len(F) = 3 + Len(B)
    /\ F[1] = Uint(Radix2 \div 2 + Version, 2) /\ Len(F[1]) = 2
    /\ F[2] = Uint(TypeCode[f.type], 2) /\ Len(F[2]) = 2
    /\ F[3] = Word(f.flags * Radix3 + length) /\ Len(F[3]) = 4
    /\ \A i \in 1..Len(B) : F[3 + i] = B[i]

\* Such are the fields of a control frame.
LEMMA ControlFields ==
    ASSUME NEW f, f.type \in DOMAIN TypeCode, f.flags \in Nat, NEW length \in Nat,
           NEW B \in Seq(Seq(Bytes))
    PROVE  Control(f, writeControlFrameHeader(f, length) \o B, length, B)
<1>1. PICK x \in Seq(Bytes) : x = Uint(Radix2 \div 2 + Version, 2) /\ Len(x) = 2
  <2>1. Radix2 \div 2 + Version \in Nat
    BY Powers DEF Version
  <2> QED
    BY <2>1, Uint2
<1>2. PICK y \in Seq(Bytes) : y = Uint(TypeCode[f.type], 2) /\ Len(y) = 2
  <2>1. TypeCode[f.type] \in Nat
    BY DEF TypeCode
  <2> QED
    BY <2>1, Uint2
<1>3. PICK z \in Seq(Bytes) : z = Word(f.flags * Radix3 + length) /\ Len(z) = 4
  <2>1. f.flags * Radix3 \in Nat
    BY Powers
  <2>2. f.flags * Radix3 + length \in Nat
    BY <2>1
  <2> QED
    BY <2>2, WordBytes
<1>4. writeControlFrameHeader(f, length) = <<x, y, z>>
    BY <1>1, <1>2, <1>3, Zenon DEF writeControlFrameHeader
<1>5. PICK S : S = Seq(Bytes)
    OBVIOUS
<1>6. x \in S /\ y \in S /\ z \in S /\ B \in Seq(S)
    BY <1>5
<1>7. PICK F : F = <<x, y, z>> \o B
    OBVIOUS
<1>8. /\ F \in Seq(S) /\ Len(F) = 3 + Len(B) /\ F[1] = x /\ F[2] = y /\ F[3] = z
      /\ \A i \in 1..Len(B) : F[3 + i] = B[i]
    BY ONLY <1>6, <1>7, Behind
<1>9. Control(f, F, length, B)
    BY <1>1, <1>2, <1>3, <1>5, <1>8, Zenon DEF Control
<1> QED
    BY <1>4, <1>7, <1>9, Zenon

\* A byte string as a sequence.
LEMMA Tuple1 ==
    ASSUME NEW B, NEW x \in Seq(Bytes), B = <<x>>
    PROVE  B \in Seq(Seq(Bytes)) /\ Len(B) = 1 /\ B[1] = x
    OBVIOUS

\* Two byte strings as a sequence.
LEMMA Tuple2 ==
    ASSUME NEW B, NEW x \in Seq(Bytes), NEW y \in Seq(Bytes), B = <<x, y>>
    PROVE  B \in Seq(Seq(Bytes)) /\ Len(B) = 2 /\ B[1] = x /\ B[2] = y
    OBVIOUS

\* Two elements, one behind the other.
LEMMA PairOf ==
    ASSUME NEW x, NEW y
    PROVE  <<x>> \o <<y>> = <<x, y>>
<1>1. PICK S : x \in S /\ y \in S
  <2>1. x \in {x, y} /\ y \in {x, y}
    OBVIOUS
  <2> QED
    BY <2>1
<1>2. PICK a : a = <<x>>
    OBVIOUS
<1>3. PICK b : b = <<y>>
    OBVIOUS
<1>4. PICK c : c = <<x, y>>
    OBVIOUS
<1>5. /\ a \in Seq(S) /\ Len(a) = 1 /\ a[1] = x /\ b \in Seq(S) /\ Len(b) = 1 /\ b[1] = y
      /\ c \in Seq(S) /\ Len(c) = 2 /\ c[1] = x /\ c[2] = y
    BY <1>1, <1>2, <1>3, <1>4
<1>6. PICK d : d = a \o b
    OBVIOUS
<1>7. /\ d \in Seq(S) /\ Len(d) = Len(a) + Len(b) /\ \A i \in 1..Len(a) : d[i] = a[i]
      /\ \A i \in 1..Len(b) : d[Len(a) + i] = b[i]
  <2>1. a \in Seq(S) /\ b \in Seq(S)
    BY <1>5
  <2> QED
    BY ONLY <1>6, <2>1, Join
<1>8. Len(d) = 2 /\ d[1] = x /\ d[2] = y
  <2>1. 1 \in 1..Len(a) /\ 1 \in 1..Len(b) /\ Len(a) + 1 = 2 /\ Len(a) + Len(b) = 2
    BY ONLY <1>5
  <2> QED
    BY <1>5, <1>7, <2>1, Zenon
<1>9. Len(d) = Len(c) /\ \A i \in 1..Len(d) : d[i] = c[i]
    BY ONLY <1>5, <1>8
<1>10. d = c
    BY <1>5, <1>7, <1>9, SeqEqual
<1> QED
    BY <1>2, <1>3, <1>4, <1>6, <1>10, Zenon

\* Five byte strings as a sequence.
LEMMA Tuple5 ==
    ASSUME NEW B, NEW x \in Seq(Bytes), NEW y \in Seq(Bytes), NEW z \in Seq(Bytes),
           NEW u \in Seq(Bytes), NEW v \in Seq(Bytes), B = <<x, y, z, u, v>>
    PROVE  B \in Seq(Seq(Bytes)) /\ Len(B) = 5 /\ B[1] = x /\ B[2] = y /\ B[3] = z /\ B[4] = u /\ B[5] = v
    OBVIOUS

\* A control frame is laid out when what is behind its header is.
LEMMA ControlLaid ==
    ASSUME NEW f, WellFormed(f), f.type # "DATA", NEW F, NEW length, NEW B \in Seq(Seq(Bytes)),
           Control(f, F, length, B), Start(f, 4 + Len(B)) = Size(f),
           \A i \in 1..Len(B) : Len(B[i]) > 0 /\ Start(f, 4 + i) = Start(f, 3 + i) + Len(B[i])
    PROVE  Laid(f, F)
<1>1. Start(f, 1) = 0 /\ Start(f, 2) = 2 /\ Start(f, 3) = 4 /\ Start(f, 4) = 8
    BY Lengths DEF Start, FrameTypes
<1>2. F \in Seq(Seq(Bytes)) /\ Len(F) = 3 + Len(B) /\ Len(F[1]) = 2 /\ Len(F[2]) = 2 /\ Len(F[3]) = 4
      /\ \A i \in 1..Len(B) : F[3 + i] = B[i]
    BY Zenon DEF Control
<1>3. Len(B) \in Nat /\ Start(f, 1 + 1) = Start(f, 1) + 2 /\ Start(f, 2 + 1) = Start(f, 2) + 2
      /\ Start(f, 3 + 1) = Start(f, 3) + 4 /\ 2 > 0 /\ 4 > 0
    BY <1>1
<1>4. ASSUME NEW j \in 1..Len(F)
      PROVE  Len(F[j]) > 0 /\ Start(f, j + 1) = Start(f, j) + Len(F[j])
  <2>1. CASE j = 1
    BY <1>2, <1>3, <2>1, Zenon
  <2>2. CASE j = 2
    BY <1>2, <1>3, <2>2, Zenon
  <2>3. CASE j = 3
    BY <1>2, <1>3, <2>3, Zenon
  <2>4. CASE j > 3
    <3>1. PICK i \in 1..Len(B) : j = 3 + i /\ j + 1 = 4 + i
      BY <1>2, <1>3, <2>4
    <3>2. Len(B[i]) > 0 /\ Start(f, 4 + i) = Start(f, 3 + i) + Len(B[i]) /\ F[3 + i] = B[i]
      BY <1>2
    <3> QED
      BY <3>1, <3>2
  <2> QED
    BY <2>1, <2>2, <2>3, <2>4
<1>5. Len(F) > 0 /\ Len(F) + 1 = 4 + Len(B)
    BY <1>2, <1>3
<1> QED
    BY <1>2, <1>4, <1>5, Zenon DEF Laid

\* A PING frame.
LEMMA ShapePing ==
    ASSUME NEW f, WellFormed(f), f.type = "PING", NEW t, NEW n
    PROVE  Control(f, Enc(f, t, n), 4, <<Word(f.id)>>) /\ Laid(f, Enc(f, t, n))
<1>1. f.type \in DOMAIN TypeCode /\ f.flags \in Nat /\ f.id \in Nat
    BY Powers DEF WellFormed, TypeCode, Ping
<1>2. PICK B \in Seq(Seq(Bytes)) : B = <<Word(f.id)>> /\ Len(B) = 1 /\ Len(B[1]) = 4
  <2>1. Word(f.id) \in Seq(Bytes) /\ Len(Word(f.id)) = 4
    BY <1>1, WordBytes
  <2>2. PICK B : B = <<Word(f.id)>>
    OBVIOUS
  <2>3. B \in Seq(Seq(Bytes)) /\ Len(B) = 1 /\ B[1] = Word(f.id)
    BY <2>1, <2>2, Tuple1
  <2> QED
    BY <2>1, <2>2, <2>3, Zenon
<1>3. Enc(f, t, n) = writeControlFrameHeader(f, 4) \o B
    BY <1>2 DEF Enc, Fields, writePing
<1>4. Control(f, Enc(f, t, n), 4, B)
    BY <1>1, <1>3, ControlFields
<1>5. /\ Start(f, 4 + 1) = Size(f)
      /\ Start(f, 4 + 1) = Start(f, 3 + 1) + 4
      /\ 4 > 0
    BY DEF Start, Size
<1>6. Laid(f, Enc(f, t, n))
  <2>1. \A i \in 1..Len(B) : Len(B[i]) > 0 /\ Start(f, 4 + i) = Start(f, 3 + i) + Len(B[i])
    <3>1. \A i \in 1..Len(B) : i = 1
      BY <1>2
    <3> QED
      BY <1>2, <1>5, <3>1, Zenon
  <2> QED
    BY <1>2, <1>4, <1>5, <2>1, ControlLaid, Zenon
<1> QED
    BY <1>2, <1>4, <1>6

\* A frame with two words.
LEMMA ShapePair ==
    ASSUME NEW f, WellFormed(f), f.type \in {"RST_STREAM", "GOAWAY", "WINDOW_UPDATE"}, NEW t, NEW n,
           NEW v, v = IF f.type = "WINDOW_UPDATE" THEN f.delta ELSE f.status
    PROVE  Control(f, Enc(f, t, n), 8, <<Word(f.id), Word(v)>>) /\ Laid(f, Enc(f, t, n))
<1>1. f.type \in DOMAIN TypeCode /\ f.flags \in Nat /\ f.id \in Nat /\ v \in Nat
    BY Powers DEF WellFormed, TypeCode, RstStream, GoAway, WindowUpdate
<1>2. PICK B \in Seq(Seq(Bytes)) : B = <<Word(f.id), Word(v)>> /\ Len(B) = 2 /\ Len(B[1]) = 4 /\ Len(B[2]) = 4
  <2>1. Word(f.id) \in Seq(Bytes) /\ Len(Word(f.id)) = 4 /\ Word(v) \in Seq(Bytes) /\ Len(Word(v)) = 4
    BY <1>1, WordBytes
  <2>2. PICK B : B = <<Word(f.id), Word(v)>>
    OBVIOUS
  <2>3. B \in Seq(Seq(Bytes)) /\ Len(B) = 2 /\ B[1] = Word(f.id) /\ B[2] = Word(v)
    BY <2>1, <2>2, Tuple2
  <2> QED
    BY <2>1, <2>2, <2>3, Zenon
<1>3. Enc(f, t, n) = writeControlFrameHeader(f, 8) \o B
  <2>1. CASE f.type = "GOAWAY"
    BY <1>2, <2>1 DEF Enc, Fields, writeGoAway
  <2>2. CASE f.type = "WINDOW_UPDATE"
    BY <1>2, <2>2 DEF Enc, Fields, writeWindowUpdate
  <2>3. CASE f.type = "RST_STREAM"
    <3>1. f.status # 0
      BY <2>3 DEF WellFormed
    <3>2. Enc(f, t, n) = writeRst(f)
      BY <2>3 DEF Enc, Fields
    <3>3. PICK h, x, y : h = writeControlFrameHeader(f, 8) /\ x = Word(f.id) /\ y = Word(f.status)
      OBVIOUS
    <3>4. PICK S : h \in Seq(S) /\ x \in S /\ y \in S
      <4>1. writeControlFrameHeader(f, 8) \in Seq({Uint(Radix2 \div 2 + Version, 2), Uint(TypeCode[f.type], 2),
                                                  Word(f.flags * Radix3 + 8), x, y})
        BY DEF writeControlFrameHeader
      <4> QED
        BY <3>3, <4>1
    <3>5. (h \o <<x>>) \o <<y>> = h \o <<x, y>>
      <4>1. <<x>> \in Seq(S) /\ <<y>> \in Seq(S) /\ <<x>> \o <<y>> = <<x, y>>
        <5>1. <<x>> \in Seq(S) /\ <<y>> \in Seq(S)
          BY <3>4
        <5>2. <<x>> \o <<y>> = <<x, y>>
          BY ONLY PairOf
        <5> QED
          BY <5>1, <5>2, Zenon
      <4>2. (h \o <<x>>) \o <<y>> = h \o (<<x>> \o <<y>>)
        BY <3>4, <4>1, ConcatAssociative
      <4> QED
        BY <4>1, <4>2, Zenon
    <3>6. writeRst(f) = (h \o <<x>>) \o <<y>>
      BY <3>1, <3>3, Zenon DEF writeRst
    <3>7. B = <<x, y>>
      BY <1>2, <2>3, <3>3
    <3> QED
      BY <3>2, <3>3, <3>5, <3>6, <3>7, Zenon
  <2> QED
    BY <2>1, <2>2, <2>3
<1>4. Control(f, Enc(f, t, n), 8, B)
    BY <1>1, <1>3, ControlFields
<1>5. /\ Start(f, 4 + 2) = Size(f)
      /\ Start(f, 4 + 1) = Start(f, 3 + 1) + 4
      /\ Start(f, 4 + 2) = Start(f, 3 + 2) + 4
      /\ 4 > 0
    BY DEF Start, Size
<1>6. Laid(f, Enc(f, t, n))
  <2>1. \A i \in 1..Len(B) : Len(B[i]) > 0 /\ Start(f, 4 + i) = Start(f, 3 + i) + Len(B[i])
    <3>1. \A i \in 1..Len(B) : i = 1 \/ i = 2
      BY <1>2
    <3> QED
      BY <1>2, <1>5, <3>1, Zenon
  <2> QED
    BY <1>2, <1>4, <1>5, <2>1, ControlLaid, Zenon
<1> QED
    BY <1>2, <1>4, <1>6

\* A frame with an id and headers.
LEMMA ShapeHeaders ==
    ASSUME NEW f, WellFormed(f), f.type \in {"SYN_REPLY", "HEADERS"}, NEW t \in Texts, NEW n \in Nat
    PROVE  /\ Control(f, Enc(f, t, n), BlockLen + 4, <<Word(f.id), Deflate(t, n)>>)
           /\ Laid(f, Enc(f, t, n))
<1>1. f.type \in DOMAIN TypeCode /\ f.flags \in Nat /\ f.id \in Nat
    BY Powers DEF WellFormed, TypeCode
<1>2. PICK B \in Seq(Seq(Bytes)) :
         B = <<Word(f.id), Deflate(t, n)>> /\ Len(B) = 2 /\ Len(B[1]) = 4 /\ Len(B[2]) = BlockLen
  <2>1. Word(f.id) \in Seq(Bytes) /\ Len(Word(f.id)) = 4
    BY <1>1, WordBytes
  <2>2. PICK B : B = <<Word(f.id), Deflate(t, n)>>
    OBVIOUS
  <2>3. B \in Seq(Seq(Bytes)) /\ Len(B) = 2 /\ B[1] = Word(f.id) /\ B[2] = Deflate(t, n)
    BY <2>1, <2>2, Tuple2, Block
  <2> QED
    BY <2>1, <2>2, <2>3, Block, Zenon
<1>3. Enc(f, t, n) = writeControlFrameHeader(f, BlockLen + 4) \o B
    BY <1>2, Block DEF Enc, Fields, writeSynReplyFrame
<1>4. Control(f, Enc(f, t, n), BlockLen + 4, B)
    BY <1>1, <1>3, ControlFields, Block
<1>5. /\ Start(f, 4 + 2) = Size(f)
      /\ Start(f, 4 + 1) = Start(f, 3 + 1) + 4
      /\ Start(f, 4 + 2) = Start(f, 3 + 2) + BlockLen
      /\ 4 > 0 /\ BlockLen > 0
    BY Block DEF Start, Size
<1>6. Laid(f, Enc(f, t, n))
  <2>1. \A i \in 1..Len(B) : Len(B[i]) > 0 /\ Start(f, 4 + i) = Start(f, 3 + i) + Len(B[i])
    <3>1. \A i \in 1..Len(B) : i = 1 \/ i = 2
      BY <1>2
    <3> QED
      BY <1>2, <1>5, <3>1, Zenon
  <2> QED
    BY <1>2, <1>4, <1>5, <2>1, ControlLaid, Zenon
<1> QED
    BY <1>2, <1>4, <1>6

\* A SYN_STREAM frame.
LEMMA ShapeSynStream ==
    ASSUME NEW f, WellFormed(f), f.type = "SYN_STREAM", NEW t \in Texts, NEW n \in Nat
    PROVE  /\ Control(f, Enc(f, t, n), BlockLen + 10,
                      <<Word(f.id), Word(f.assoc), Uint(f.prio * PrioUnit, 1), Uint(f.slot, 1), Deflate(t, n)>>)
           /\ Laid(f, Enc(f, t, n))
<1>1. /\ f.type \in DOMAIN TypeCode /\ f.id \in Nat /\ f.flags \in Nat /\ f.assoc \in Nat
      /\ f.slot \in Nat /\ f.prio * PrioUnit \in Nat
    BY Powers, CodecAssumption DEF WellFormed, TypeCode
<1>2. PICK B \in Seq(Seq(Bytes)) :
         /\ B = <<Word(f.id), Word(f.assoc), Uint(f.prio * PrioUnit, 1), Uint(f.slot, 1), Deflate(t, n)>>
         /\ Len(B) = 5 /\ Len(B[1]) = 4 /\ Len(B[2]) = 4 /\ Len(B[3]) = 1 /\ Len(B[4]) = 1
         /\ Len(B[5]) = BlockLen
  <2>1. /\ Word(f.id) \in Seq(Bytes) /\ Len(Word(f.id)) = 4
        /\ Word(f.assoc) \in Seq(Bytes) /\ Len(Word(f.assoc)) = 4
    BY <1>1, WordBytes
  <2>2. /\ Uint(f.prio * PrioUnit, 1) \in Seq(Bytes) /\ Len(Uint(f.prio * PrioUnit, 1)) = 1
        /\ Uint(f.slot, 1) \in Seq(Bytes) /\ Len(Uint(f.slot, 1)) = 1
    BY <1>1, Uint1
  <2>3. PICK B : B = <<Word(f.id), Word(f.assoc), Uint(f.prio * PrioUnit, 1), Uint(f.slot, 1), Deflate(t, n)>>
    OBVIOUS
  <2>4. /\ B \in Seq(Seq(Bytes)) /\ Len(B) = 5 /\ B[1] = Word(f.id) /\ B[2] = Word(f.assoc)
        /\ B[3] = Uint(f.prio * PrioUnit, 1) /\ B[4] = Uint(f.slot, 1) /\ B[5] = Deflate(t, n)
    BY <2>1, <2>2, <2>3, Tuple5, Block
  <2> QED
    BY <2>1, <2>2, <2>3, <2>4, Block, Zenon
<1>3. Enc(f, t, n) = writeControlFrameHeader(f, BlockLen + 10) \o B
    BY <1>2, Block DEF Enc, Fields, writeSynStreamFrame
<1>4. Control(f, Enc(f, t, n), BlockLen + 10, B)
  <2>1. BlockLen + 10 \in Nat
    BY Block
  <2> QED
    BY <1>1, <1>3, <2>1, ControlFields, Zenon
<1>5. /\ Start(f, 4 + 5) = Size(f)
      /\ Start(f, 4 + 1) = Start(f, 3 + 1) + 4
      /\ Start(f, 4 + 2) = Start(f, 3 + 2) + 4
      /\ Start(f, 4 + 3) = Start(f, 3 + 3) + 1
      /\ Start(f, 4 + 4) = Start(f, 3 + 4) + 1
      /\ Start(f, 4 + 5) = Start(f, 3 + 5) + BlockLen
      /\ 4 > 0 /\ 1 > 0 /\ BlockLen > 0
    BY Block DEF Start, Size
<1>6. Laid(f, Enc(f, t, n))
  <2>1. \A i \in 1..Len(B) : Len(B[i]) > 0 /\ Start(f, 4 + i) = Start(f, 3 + i) + Len(B[i])
    <3>1. \A i \in 1..Len(B) : i = 1 \/ i = 2 \/ i = 3 \/ i = 4 \/ i = 5
      BY <1>2
    <3> QED
      BY <1>2, <1>5, <3>1, Zenon
  <2> QED
    BY <1>2, <1>4, <1>5, <2>1, ControlLaid, Zenon
<1> QED
    BY <1>2, <1>4, <1>6

\* What is written of a setting: its flag and id in one word, its value in another.
SettingWord(f, j) ==
    LET s == f.list[(j + 1) \div 2] IN IF j % 2 = 1 THEN s.flag * Radix3 + s.id ELSE s.value

\* The settings of a frame.
LEMMA SettingList ==
    ASSUME NEW f, WellFormed(f), f.type = "SETTINGS"
    PROVE  /\ Len(f.list) \in Nat /\ f.list = [i \in 1..Len(f.list) |-> f.list[i]]
           /\ f.flags \in 0..(Radix - 1) /\ 8 * Len(f.list) + 4 \in 0..(Radix3 - 1)
           /\ f = Settings(f.flags, f.list)
           /\ \A i \in 1..Len(f.list) :
                 /\ f.list[i] = [flag |-> f.list[i].flag, id |-> f.list[i].id, value |-> f.list[i].value]
                 /\ f.list[i].flag \in 0..(Radix - 1) /\ f.list[i].id \in 0..(Radix3 - 1)
                 /\ f.list[i].value \in 0..(Radix4 - 1)
<1>1. PICK S : S = [flag : 0..(Radix - 1), id : 0..(Radix3 - 1), value : 0..(Radix4 - 1)]
    OBVIOUS
<1>2. f.list \in Seq(S) /\ f.flags \in 0..(Radix - 1) /\ 8 * Len(f.list) + 4 < Radix3 /\ f = Settings(f.flags, f.list)
    BY <1>1 DEF WellFormed
<1>3. PICK s \in Seq(S) : s = f.list
    BY <1>2
<1>4. Len(s) \in Nat /\ s = [i \in 1..Len(s) |-> s[i]] /\ \A i \in 1..Len(s) : s[i] \in S
    OBVIOUS
<1>5. \A x \in S : /\ x = [flag |-> x.flag, id |-> x.id, value |-> x.value]
                   /\ x.flag \in 0..(Radix - 1) /\ x.id \in 0..(Radix3 - 1) /\ x.value \in 0..(Radix4 - 1)
    BY <1>1
<1>6. 8 * Len(s) + 4 \in 0..(Radix3 - 1)
    BY <1>2, <1>3, <1>4, Powers
<1> QED
    BY <1>2, <1>3, <1>4, <1>5, <1>6, Zenon

\* The words of the settings.
LEMMA SettingWords ==
    ASSUME NEW f, WellFormed(f), f.type = "SETTINGS", NEW i \in 1..Len(f.list)
    PROVE  /\ SettingWord(f, 2 * i - 1) = f.list[i].flag * Radix3 + f.list[i].id
           /\ SettingWord(f, 2 * i) = f.list[i].value
           /\ SettingWord(f, 2 * i - 1) \in 0..(Radix4 - 1) /\ SettingWord(f, 2 * i) \in 0..(Radix4 - 1)
<1>1. Len(f.list) \in Nat
    BY SettingList
<1>2. i \in Nat /\ i >= 1
    BY <1>1
<1>3. /\ (2 * i - 1 + 1) \div 2 = i /\ (2 * i - 1) % 2 = 1
      /\ (2 * i + 1) \div 2 = i /\ (2 * i) % 2 # 1
    BY <1>2
<1>4. /\ SettingWord(f, 2 * i - 1) = f.list[i].flag * Radix3 + f.list[i].id
      /\ SettingWord(f, 2 * i) = f.list[i].value
    BY <1>3, Zenon DEF SettingWord
<1>5. f.list[i].flag * Radix3 + f.list[i].id \in 0..(Radix4 - 1) /\ f.list[i].value \in 0..(Radix4 - 1)
    BY SettingList, Packed
<1> QED
    BY <1>4, <1>5

\* Every word behind the header of a SETTINGS frame.
LEMMA SettingWordType ==
    ASSUME NEW f, WellFormed(f), f.type = "SETTINGS", NEW j \in 1..(2 * Len(f.list))
    PROVE  SettingWord(f, j) \in Nat
<1>1. Len(f.list) \in Nat
    BY SettingList
<1>2. PICK i \in 1..Len(f.list) : j = 2 * i - 1 \/ j = 2 * i
  <2>1. (j + 1) \div 2 \in 1..Len(f.list) /\ (j = 2 * ((j + 1) \div 2) - 1 \/ j = 2 * ((j + 1) \div 2))
    BY <1>1
  <2> QED
    BY <2>1
<1>3. SettingWord(f, j) \in 0..(Radix4 - 1)
    BY <1>2, SettingWords, Zenon
<1> QED
    BY <1>3, Powers

\* The fields of a SETTINGS frame: the header, the number of settings, and B.
SettingFields(f, F, B) ==
    /\ Control(f, F, 8 * Len(f.list) + 4, B)
    /\ Len(B) = 1 + 2 * Len(f.list) /\ B[1] = Word(Len(f.list))
    /\ \A j \in 1..(2 * Len(f.list)) : B[1 + j] = Word(SettingWord(f, j))

\* A SETTINGS frame.
LEMMA ShapeSettings ==
    ASSUME NEW f, WellFormed(f), f.type = "SETTINGS", NEW t, NEW n
    PROVE  /\ Laid(f, Enc(f, t, n))
           /\ \E B : SettingFields(f, Enc(f, t, n), B)
<1>1. f.type \in DOMAIN TypeCode /\ f.flags \in Nat
  <2>1. f.type \in DOMAIN TypeCode
    BY DEF TypeCode
  <2>2. f.flags \in 0..(Radix - 1)
    BY SettingList
  <2> QED
    BY <2>1, <2>2, Powers
<1>2. PICK L \in Nat : L = Len(f.list)
    BY SettingList
<1>3. PICK w \in Seq(Bytes) : w = Word(L) /\ Len(w) = 4
    BY <1>2, WordBytes
<1>4. PICK A : A = <<w>> /\ A \in Seq(Seq(Bytes)) /\ Len(A) = 1 /\ A[1] = w
  <2>1. PICK A : A = <<w>>
    OBVIOUS
  <2> QED
    BY <2>1, Tuple1, Zenon
<1>5. PICK G : G = [j \in 1..(2 * L) |-> Word(SettingWord(f, j))]
    OBVIOUS
<1>6. /\ G \in Seq(Seq(Bytes)) /\ Len(G) = 2 * L
      /\ \A j \in 1..(2 * L) : G[j] = Word(SettingWord(f, j)) /\ Len(G[j]) = 4
  <2>1. \A j \in 1..(2 * L) : Word(SettingWord(f, j)) \in Seq(Bytes) /\ Len(Word(SettingWord(f, j))) = 4
    BY <1>2, SettingWordType, WordBytes
  <2>2. \A j \in 1..(2 * L) : G[j] = Word(SettingWord(f, j))
    BY <1>5
  <2>3. PICK S : S = Seq(Bytes)
    OBVIOUS
  <2>4. PICK m \in Nat : m = 2 * L
    OBVIOUS
  <2>5. G = [j \in 1..m |-> G[j]] /\ \A j \in 1..m : G[j] \in S
    BY <1>5, <2>4, <2>1, <2>2, <2>3
  <2>6. G \in Seq(S) /\ Len(G) = m
    BY ONLY <2>5, m \in Nat
  <2> QED
    BY <2>4, <2>1, <2>2, <2>3, <2>6, Zenon
<1>7. PICK D : D = writeControlFrameHeader(f, 8 * L + 4) \o A
    OBVIOUS
<1>8. Control(f, D, 8 * L + 4, A)
  <2>1. PICK l \in Nat : l = 8 * L + 4
    OBVIOUS
  <2>2. A \in Seq(Seq(Bytes)) /\ D = writeControlFrameHeader(f, l) \o A
    BY <1>4, <1>7, <2>1
  <2>3. Control(f, D, l, A)
    BY <1>1, <2>2, ControlFields
  <2> QED
    BY <2>1, <2>3
<1>9. PICK F : F = D \o G
    OBVIOUS
<1>10. Enc(f, t, n) = F
  <2>1. G = [j \in 1..(2 * Len(f.list)) |->
              LET s == f.list[(j + 1) \div 2] IN
              Word(IF j % 2 = 1 THEN s.flag * Radix3 + s.id ELSE s.value)]
    BY <1>2, <1>5 DEF SettingWord
  <2>2. Enc(f, t, n) = writeSettings(f)
    BY DEF Enc, Fields
  <2> QED
    BY <1>2, <1>3, <1>4, <1>7, <1>9, <2>1, <2>2 DEF writeSettings
<1>11. PICK B : B = A \o G
    OBVIOUS
<1>12. PICK S : S = Seq(Bytes)
    OBVIOUS
<1>13. A \in Seq(S) /\ G \in Seq(S) /\ D \in Seq(S) /\ Len(D) = 4
  <2>1. D \in Seq(Seq(Bytes)) /\ Len(D) = 3 + Len(A)
    BY <1>8, Zenon DEF Control
  <2> QED
    BY <1>4, <1>6, <1>12, <2>1
<1>14. /\ B \in Seq(S) /\ Len(B) = 1 + 2 * L /\ B[1] = w
       /\ \A j \in 1..(2 * L) : B[1 + j] = G[j]
    BY ONLY <1>4, <1>6, <1>11, <1>13, Join, L \in Nat
<1>15. /\ F \in Seq(S) /\ Len(F) = 4 + 2 * L /\ F[1] = D[1] /\ F[2] = D[2] /\ F[3] = D[3] /\ F[4] = D[4]
       /\ \A j \in 1..(2 * L) : F[4 + j] = G[j]
  <2>1. /\ D \o G \in Seq(S) /\ Len(D \o G) = Len(D) + Len(G) /\ \A i \in 1..Len(D) : (D \o G)[i] = D[i]
        /\ \A i \in 1..Len(G) : (D \o G)[Len(D) + i] = G[i]
    <3>1. D \in Seq(S) /\ G \in Seq(S)
      BY <1>13
    <3> QED
      BY ONLY <3>1, Join
  <2>2. /\ F \in Seq(S) /\ Len(F) = Len(D) + Len(G) /\ \A i \in 1..Len(D) : F[i] = D[i]
        /\ \A i \in 1..Len(G) : F[Len(D) + i] = G[i]
    BY <1>9, <2>1, Zenon
  <2>3. Len(F) = 4 + 2 * L /\ 1 \in 1..4 /\ 2 \in 1..4 /\ 3 \in 1..4 /\ 4 \in 1..4
    BY ONLY <1>6, <1>13, <2>2, L \in Nat
  <2> QED
    BY <1>6, <1>13, <2>2, <2>3, Zenon
<1>16. D[4] = w
  <2>1. D[3 + 1] = A[1]
    BY <1>4, <1>8 DEF Control
  <2> QED
    BY <1>4, <2>1
<1>17. \A i \in 1..(1 + 2 * L) : F[3 + i] = B[i]
  <2>1. TAKE i \in 1..(1 + 2 * L)
  <2>2. CASE i = 1
    BY <1>14, <1>15, <1>16, <2>2
  <2>3. CASE i # 1
    <3>1. PICK j \in 1..(2 * L) : i = 1 + j /\ 3 + i = 4 + j
      BY <2>3
    <3> QED
      BY <1>14, <1>15, <3>1, Zenon
  <2> QED
    BY <2>2, <2>3
<1>18. Control(f, F, 8 * L + 4, B)
  <2>1. Len(F) = 3 + Len(B)
    BY <1>14, <1>15
  <2> QED
    BY <1>8, <1>12, <1>14, <1>15, <1>17, <2>1, Zenon DEF Control
<1>19. Laid(f, F)
  <2>1. \A i \in 1..Len(B) : Len(B[i]) = 4
    <3>1. TAKE i \in 1..Len(B)
    <3>2. CASE i = 1
      BY <1>3, <1>14, <3>2
    <3>3. CASE i # 1
      <4>1. PICK j \in 1..(2 * L) : i = 1 + j
        BY <1>14, <3>3
      <4> QED
        BY <1>6, <1>14, <4>1, Zenon
    <3> QED
      BY <3>2, <3>3
  <2>2. \A i \in 1..(1 + 2 * L) : Start(f, 4 + i) = Start(f, 3 + i) + 4
    BY DEF Start
  <2>3. Start(f, 4 + (1 + 2 * L)) = Size(f) /\ 4 > 0
    BY <1>2 DEF Start, Size
  <2>4. B \in Seq(Seq(Bytes))
    BY <1>12, <1>14
  <2> QED
    BY <1>14, <1>18, <2>1, <2>2, <2>3, <2>4, ControlLaid, Zenon
<1>20. \A j \in 1..(2 * L) : B[1 + j] = Word(SettingWord(f, j))
    BY <1>6, <1>14, Zenon
<1> QED
    BY <1>2, <1>3, <1>10, <1>14, <1>18, <1>19, <1>20, Zenon DEF SettingFields

\* The bytes of the data of a DATA frame.
Image(f) == [i \in DOMAIN f.data |-> [b |-> f.data[i], z |-> <<>>]]

\* The data of a DATA frame as bytes.
LEMMA DataBytes ==
    ASSUME NEW f, WellFormed(f), f.type = "DATA"
    PROVE  /\ Image(f) \in Seq(Bytes) /\ Len(Image(f)) = Len(f.data) /\ Len(f.data) \in Nat
           /\ f = Data(f.id, f.flags, f.data) /\ f.data = [i \in 1..Len(f.data) |-> f.data[i]]
           /\ f.data = <<>> <=> Len(f.data) = 0
           /\ \A i \in 1..Len(f.data) : Image(f)[i].b = f.data[i]
<1>1. PICK S : S = 0..(Radix - 1)
    OBVIOUS
<1>2. f.data \in Seq(S) /\ f = Data(f.id, f.flags, f.data)
    BY <1>1 DEF WellFormed
<1>3. PICK d \in Seq(S) : d = f.data
    BY <1>2
<1>4. /\ Len(d) \in Nat /\ d = [i \in 1..Len(d) |-> d[i]] /\ DOMAIN d = 1..Len(d)
      /\ (d = <<>> <=> Len(d) = 0) /\ \A i \in 1..Len(d) : d[i] \in S
    BY ONLY d \in Seq(S)
<1>5. PICK m : m = Image(f)
    OBVIOUS
<1>6. m = [i \in 1..Len(d) |-> [b |-> d[i], z |-> <<>>]]
    BY <1>3, <1>4, <1>5 DEF Image
<1>7. \A i \in 1..Len(d) : m[i].b = d[i] /\ m[i] \in Bytes
    BY <1>1, <1>4, <1>6 DEF Bytes
<1>8. m \in Seq(Bytes) /\ Len(m) = Len(d)
    BY <1>4, <1>6, <1>7
<1> QED
    BY <1>2, <1>3, <1>4, <1>5, <1>7, <1>8, Zenon

\* A DATA frame.
LEMMA ShapeData ==
    ASSUME NEW f, WellFormed(f), f.type = "DATA", NEW t, NEW n
    PROVE  LET F == Enc(f, t, n) IN
           /\ Laid(f, F) /\ Len(F) = (IF f.data = <<>> THEN 2 ELSE 3)
           /\ F[1] = Word(f.id) /\ F[2] = Word(f.flags * Radix3 + Len(f.data))
           /\ f.data # <<>> => F[3] = Image(f)
<1>1. f.id \in Nat /\ f.flags \in Nat
    BY Powers DEF WellFormed
<1>2. PICK x \in Seq(Bytes) : x = Word(f.id) /\ Len(x) = 4
    BY <1>1, WordBytes
<1>3. PICK y \in Seq(Bytes) : y = Word(f.flags * Radix3 + Len(f.data)) /\ Len(y) = 4
  <2>1. f.flags * Radix3 \in Nat
    BY <1>1, Powers
  <2>2. f.flags * Radix3 + Len(f.data) \in Nat
    BY <2>1, DataBytes
  <2> QED
    BY <2>2, WordBytes
<1>4. PICK d \in Seq(Bytes) : d = Image(f) /\ Len(d) = Len(f.data)
    BY DataBytes
<1>5. PICK L \in Nat : L = Len(f.data)
    BY DataBytes
<1>6. f.data = <<>> <=> L = 0
    BY <1>5, DataBytes, Zenon
<1>7. PICK F : F = Enc(f, t, n)
    OBVIOUS
<1>8. Enc(f, t, n) = <<x, y>> \o (IF f.data = <<>> THEN <<>> ELSE <<d>>)
  <2>1. Enc(f, t, n) = writeDataFrame(f)
    BY DEF Enc, Fields
  <2> QED
    BY <1>2, <1>3, <1>4, <2>1 DEF writeDataFrame, Image
<1>9. /\ Start(f, 1) = 0 /\ Start(f, 1 + 1) = Start(f, 1) + 4 /\ Start(f, 2 + 1) = Start(f, 2) + 4
      /\ Start(f, 3 + 1) = Start(f, 3) + L /\ Start(f, 3) = 8 /\ Size(f) = 8 + L /\ 4 > 0
    BY <1>5 DEF Start, Size
<1>10. CASE f.data = <<>>
  <2>1. F = <<x, y>> \o <<>>
    BY <1>7, <1>8, <1>10
  <2>2. PICK S : S = Seq(Bytes)
    OBVIOUS
  <2>3. F \in Seq(S) /\ Len(F) = 2 /\ F[1] = x /\ F[2] = y
    <3>1. x \in S /\ y \in S
      BY <2>2
    <3> QED
      BY ONLY <2>1, <3>1
  <2>4. Laid(f, F)
    <3>1. \A j \in 1..2 : j = 1 \/ j = 2
      OBVIOUS
    <3>2. Start(f, 2 + 1) = Size(f) /\ 2 > 0
      BY <1>6, <1>9, <1>10
    <3> QED
      BY <1>2, <1>3, <1>9, <2>2, <2>3, <3>1, <3>2, Zenon DEF Laid
  <2> QED
    BY <1>2, <1>3, <1>7, <1>10, <2>3, <2>4, Zenon
<1>11. CASE f.data # <<>>
  <2>1. F = <<x, y>> \o <<d>>
    BY <1>7, <1>8, <1>11
  <2>2. PICK S : S = Seq(Bytes)
    OBVIOUS
  <2>3. F \in Seq(S) /\ Len(F) = 3 /\ F[1] = x /\ F[2] = y /\ F[3] = d
    <3>1. x \in S /\ y \in S /\ d \in S
      BY <2>2
    <3>2. PICK A \in Seq(S), C \in Seq(S) : A = <<x, y>> /\ C = <<d>> /\ Len(A) = 2 /\ Len(C) = 1 /\ A[1] = x /\ A[2] = y /\ C[1] = d
      <4>1. PICK A : A = <<x, y>>
        OBVIOUS
      <4>2. PICK C : C = <<d>>
        OBVIOUS
      <4>3. A \in Seq(S) /\ Len(A) = 2 /\ A[1] = x /\ A[2] = y
        BY ONLY <3>1, <4>1
      <4>4. C \in Seq(S) /\ Len(C) = 1 /\ C[1] = d
        BY ONLY <3>1, <4>2
      <4> QED
        BY <4>1, <4>2, <4>3, <4>4, Zenon
    <3> QED
      BY ONLY <2>1, <3>2, Join
  <2>4. Laid(f, F)
    <3>1. \A j \in 1..3 : j = 1 \/ j = 2 \/ j = 3
      OBVIOUS
    <3>2. Start(f, 3 + 1) = Size(f) /\ L > 0 /\ 3 > 0
      BY <1>6, <1>9, <1>11
    <3> QED
      BY <1>2, <1>3, <1>4, <1>5, <1>9, <2>2, <2>3, <3>1, <3>2, Zenon DEF Laid
  <2> QED
    BY <1>2, <1>3, <1>4, <1>7, <1>11, <2>3, <2>4, Zenon
<1> QED
    BY <1>10, <1>11

--------------------------------------------------------------------------------
\* What ReadFrame makes of the bytes of a frame.

\* The fields F of frame f are in the sequence in, behind the first p bytes.
InPlace(in, p, f, F) == \A j \in 1..Len(F) : Holds(in, p + Start(f, j), F[j])

\* The fields that a frame of this kind may not have.
Invalid(f) ==
    IF f.type = "SYN_STREAM" \/ (f.type = "HEADERS" /\ f.id % 2 = 0)
    THEN invalidReqHeaders ELSE invalidRespHeaders

\* The reader does not accept the headers with text t.
Rejected(f, t) ==
    /\ HasHeaders(f)
    /\ \/ ~parseHeaderValueBlock(t).ok
       \/ DOMAIN parseHeaderValueBlock(t).headers \cap Invalid(f) # {}

\* The frame that is read, with the headers that parseHeaderValueBlock makes of t.
Decoded(f, t) ==
    IF HasHeaders(f) THEN [f EXCEPT !.headers = parseHeaderValueBlock(t).headers] ELSE f

\* A whole frame is read or rejected; a part of one is waited for.
Read(f, t, n, in) ==
    /\ Len(in) < Size(f) => ReadFrame(in, n) = More
    /\ Len(in) >= Size(f) =>
          ReadFrame(in, n) = IF Rejected(f, t) THEN Fail ELSE Got(Decoded(f, t), Size(f))

\* Nothing is read from less than eight bytes.
LEMMA Few ==
    ASSUME NEW in, NEW n, Len(in) \in Nat, Len(in) < 8
    PROVE  ReadFrame(in, n) = More
    BY DEF ReadFrame

\* What the header of a control frame tells.
LEMMA Seen ==
    ASSUME NEW f, WellFormed(f), f.type # "DATA", NEW in, NEW n, Len(in) \in Nat, Len(in) >= 8,
           NEW F, NEW length \in 0..(Radix3 - 1), NEW B, Len(B) \in Nat,
           Control(f, F, length, B), InPlace(in, 0, f, F)
    PROVE  /\ ReadFrame(in, n) = parseControlFrame(in, TypeCode[f.type], n)
           /\ U32(in, 5) \div Radix3 = f.flags /\ U32(in, 5) % Radix3 = length
           /\ \A i \in 1..Len(B) : Holds(in, Start(f, 3 + i), B[i])
<1>1. /\ Start(f, 1) = 0 /\ Start(f, 2) = 2 /\ Start(f, 3) = 4
      /\ \A i \in Nat \ {0} : Start(f, i) \in Nat /\ 0 + Start(f, i) = Start(f, i)
  <2>1. Start(f, 1) = 0 /\ Start(f, 2) = 2 /\ Start(f, 3) = 4
    BY Lengths DEF Start, FrameTypes
  <2>2. \A i \in Nat \ {0} : Start(f, i) \in Nat
    BY Starts
  <2> QED
    BY <2>1, <2>2
<1>2. /\ Len(F) = 3 + Len(B) /\ F[1] = Uint(Radix2 \div 2 + Version, 2)
      /\ F[2] = Uint(TypeCode[f.type], 2) /\ F[3] = Word(f.flags * Radix3 + length)
      /\ \A i \in 1..Len(B) : F[3 + i] = B[i]
    BY Zenon DEF Control
<1>3. \A j \in 1..Len(F) : Holds(in, Start(f, j), F[j])
  <2>1. TAKE j \in 1..Len(F)
  <2>2. Holds(in, 0 + Start(f, j), F[j])
    BY DEF InPlace
  <2>3. 0 + Start(f, j) = Start(f, j)
    BY <1>1, <1>2
  <2> QED
    BY <2>2, <2>3
<1>4. /\ Holds(in, 0, Uint(Radix2 \div 2 + Version, 2)) /\ Holds(in, 2, Uint(TypeCode[f.type], 2))
      /\ Holds(in, 4, Word(f.flags * Radix3 + length))
  <2>1. 1 \in 1..Len(F) /\ 2 \in 1..Len(F) /\ 3 \in 1..Len(F)
    BY <1>2
  <2> QED
    BY <1>1, <1>2, <1>3, <2>1, Zenon
<1>5. f.flags \in 0..(Radix - 1) /\ TypeCode[f.type] \in 1..9
  <2>1. f.type \in FrameTypes
    BY Lengths
  <2>2. TypeCode[f.type] \in 1..9
    BY <2>1 DEF FrameTypes, TypeCode
  <2>3. f.flags \in 0..(Radix - 1)
    <3>1. CASE f.type \in {"RST_STREAM", "PING", "GOAWAY", "WINDOW_UPDATE"}
      <4>1. f.flags = 0
        BY <3>1 DEF WellFormed, RstStream, Ping, GoAway, WindowUpdate
      <4> QED
        BY <4>1, Powers
    <3>2. CASE f.type \in {"SYN_STREAM", "SYN_REPLY", "HEADERS", "SETTINGS"}
      BY <3>2 DEF WellFormed
    <3> QED
      BY <2>1, <3>1, <3>2 DEF FrameTypes
  <2> QED
    BY <2>2, <2>3
<1>6. /\ U32(in, 1) >= ControlBit /\ U32(in, 1) % Radix2 = TypeCode[f.type]
      /\ U32(in, 5) \div Radix3 = f.flags /\ U32(in, 5) % Radix3 = length
    BY <1>4, <1>5, ControlHeader
<1>7. ReadFrame(in, n) = parseControlFrame(in, U32(in, 1) % Radix2, n)
    BY <1>6 DEF ReadFrame
<1>8. \A i \in 1..Len(B) : Holds(in, Start(f, 3 + i), B[i])
  <2>1. TAKE i \in 1..Len(B)
  <2>2. 3 + i \in 1..Len(F)
    BY <1>2
  <2> QED
    BY <1>2, <1>3, <2>2, Zenon
<1> QED
    BY <1>6, <1>7, <1>8, Zenon

\* PING.
LEMMA ReadPing ==
    ASSUME NEW f, WellFormed(f), f.type = "PING", ~Refused(f), NEW t, NEW n,
           NEW in, Len(in) \in Nat, InPlace(in, 0, f, Enc(f, t, n))
    PROVE  Read(f, t, n, in)
<1>1. Control(f, Enc(f, t, n), 4, <<Word(f.id)>>)
    BY ShapePing
<1>2. f = Ping(f.id) /\ f.id \in 0..(Radix4 - 1) /\ f.id # 0 /\ f.flags = 0
    BY DEF WellFormed, Refused, Ping
<1>3. Size(f) = 12 /\ Start(f, 3 + 1) = 8
    BY DEF Size, Start
<1>4. CASE Len(in) < 8
    BY <1>3, <1>4, Few DEF Read
<1>5. CASE Len(in) >= 8
  <2>1. PICK B : B = <<Word(f.id)>>
    OBVIOUS
  <2>2. B = <<Word(f.id)>> /\ Len(B) = 1 /\ B[1] = Word(f.id)
    <3>1. f.id \in Nat
      BY <1>2, Powers
    <3>2. Word(f.id) \in Seq(Bytes)
      BY <3>1, WordBytes
    <3> QED
      BY <2>1, <3>2, Tuple1, Zenon
  <2>3. 4 \in 0..(Radix3 - 1)
    BY Powers, CodecAssumption
  <2>4. /\ ReadFrame(in, n) = parseControlFrame(in, TypeCode[f.type], n)
        /\ U32(in, 5) \div Radix3 = f.flags
        /\ \A i \in 1..Len(B) : Holds(in, Start(f, 3 + i), B[i])
    BY <1>1, <1>5, <2>2, <2>3, Seen
  <2>5. ReadFrame(in, n) = readPing(in, 0)
    BY <1>2, <2>4 DEF parseControlFrame, TypeCode
  <2>6. ASSUME Len(in) >= 12 PROVE U32(in, 9) = f.id
    <3>1. Holds(in, 8, Word(f.id))
      BY <1>3, <2>2, <2>4
    <3>2. U32(in, 8 + 1) = f.id
      BY <1>2, <2>6, <3>1, WordRead
    <3> QED
      BY <3>2
  <2>7. ~HasHeaders(f)
    BY DEF HasHeaders
  <2>8. Len(in) < 12 => ReadFrame(in, n) = More
    BY <2>5 DEF readPing
  <2>9. Len(in) >= 12 => ReadFrame(in, n) = Got(f, 12)
    BY <1>2, <2>5, <2>6 DEF readPing
  <2> QED
    BY <1>3, <2>7, <2>8, <2>9 DEF Read, Rejected, Decoded
<1> QED
    BY <1>4, <1>5

\* The arms of readPair.
LEMMA PairCases ==
    ASSUME NEW in, Len(in) \in Nat, NEW type
    PROVE  /\ Len(in) < 16 => readPair(in, 0, 8, type) = More
           /\ Len(in) >= 16 => readPair(in, 0, 8, type) =
                 Got(IF type = TypeCode.GOAWAY THEN GoAway(U32(in, 9), U32(in, 13))
                                               ELSE WindowUpdate(U32(in, 9), U32(in, 13)), 16)
<1>1. PICK L \in Nat : L = Len(in)
    OBVIOUS
<1>2. CASE L < 12
  <2>1. ~(L >= 12) /\ ~(L \in 12..15) /\ ~(L >= 16) /\ L < 12
    BY <1>2
  <2> QED
    BY <1>1, <2>1, Zenon DEF readPair
<1>3. CASE L \in 12..15
  <2>1. ~(L < 12) /\ ~(L >= 16)
    BY <1>3
  <2> QED
    BY <1>1, <1>3, <2>1, Zenon DEF readPair
<1>4. CASE L >= 16
  <2>1. ~(L < 12) /\ ~(L \in 12..15) /\ ~(L < 16)
    BY <1>4
  <2> QED
    BY <1>1, <2>1, Zenon DEF readPair
<1>5. L < 12 \/ L \in 12..15 \/ L >= 16
    OBVIOUS
<1> QED
    BY <1>2, <1>3, <1>4, <1>5

\* Frames with two words.
LEMMA ReadPairs ==
    ASSUME NEW f, WellFormed(f), f.type \in {"RST_STREAM", "GOAWAY", "WINDOW_UPDATE"}, ~Refused(f),
           NEW t, NEW n, NEW in, Len(in) \in Nat, InPlace(in, 0, f, Enc(f, t, n))
    PROVE  Read(f, t, n, in)
<1>1. PICK v : v = IF f.type = "WINDOW_UPDATE" THEN f.delta ELSE f.status
    OBVIOUS
<1>2. Control(f, Enc(f, t, n), 8, <<Word(f.id), Word(v)>>)
    BY <1>1, ShapePair
<1>3. f.id \in 0..(Radix4 - 1) /\ v \in 0..(Radix4 - 1) /\ f.flags = 0
    BY <1>1 DEF WellFormed, RstStream, GoAway, WindowUpdate
<1>4. Size(f) = 16 /\ Start(f, 3 + 1) = 8 /\ Start(f, 3 + 2) = 12
    BY DEF Size, Start
<1>5. CASE Len(in) < 8
    BY <1>4, <1>5, Few DEF Read
<1>6. CASE Len(in) >= 8
  <2>1. PICK B : B = <<Word(f.id), Word(v)>>
    OBVIOUS
  <2>2. Len(B) = 2 /\ B[1] = Word(f.id) /\ B[2] = Word(v)
    <3>1. f.id \in Nat /\ v \in Nat
      BY <1>3, Powers
    <3>2. Word(f.id) \in Seq(Bytes) /\ Word(v) \in Seq(Bytes)
      BY <3>1, WordBytes
    <3> QED
      BY <2>1, <3>2, Tuple2, Zenon
  <2>3. 8 \in 0..(Radix3 - 1)
    BY Powers, CodecAssumption
  <2>4. /\ ReadFrame(in, n) = parseControlFrame(in, TypeCode[f.type], n)
        /\ U32(in, 5) \div Radix3 = 0 /\ U32(in, 5) % Radix3 = 8
        /\ \A i \in 1..Len(B) : Holds(in, Start(f, 3 + i), B[i])
    <3>1. f.type # "DATA" /\ Len(B) \in Nat /\ Control(f, Enc(f, t, n), 8, B)
      BY <1>2, <2>1, <2>2
    <3>2. /\ ReadFrame(in, n) = parseControlFrame(in, TypeCode[f.type], n)
          /\ U32(in, 5) \div Radix3 = f.flags /\ U32(in, 5) % Radix3 = 8
          /\ \A i \in 1..Len(B) : Holds(in, Start(f, 3 + i), B[i])
      BY <1>6, <2>3, <3>1, Seen
    <3> QED
      BY <1>3, <3>2
  <2>5. Holds(in, 8, Word(f.id)) /\ Holds(in, 12, Word(v))
    BY <1>4, <2>2, <2>4
  <2>6. ASSUME Len(in) >= 16 PROVE U32(in, 9) = f.id /\ U32(in, 13) = v
    <3>1. U32(in, 8 + 1) = f.id
      BY <1>3, <2>5, <2>6, WordRead
    <3>2. U32(in, 12 + 1) = v
      BY <1>3, <2>5, <2>6, WordRead
    <3> QED
      BY <3>1, <3>2
  <2>7. ~HasHeaders(f)
    BY DEF HasHeaders
  <2>8. CASE f.type = "RST_STREAM"
    <3>1. f = RstStream(f.id, v) /\ f.id # 0 /\ v # 0
      BY <1>1, <2>8 DEF WellFormed, Refused
    <3>2. ReadFrame(in, n) = readRst(in, 0)
      BY <2>4, <2>8 DEF parseControlFrame, TypeCode
    <3>3. Len(in) < 16 => ReadFrame(in, n) = More
      BY <3>2 DEF readRst
    <3>4. [RstStream(f.id, v) EXCEPT !.flags = 0] = f
      BY <3>1 DEF RstStream
    <3>5. Len(in) >= 16 => ReadFrame(in, n) = Got(f, 16)
      BY <2>6, <3>1, <3>2, <3>4 DEF readRst
    <3> QED
      BY <1>4, <2>7, <3>3, <3>5 DEF Read, Rejected, Decoded
  <2>9. CASE f.type = "GOAWAY"
    <3>1. f = GoAway(f.id, v)
      BY <1>1, <2>9 DEF WellFormed
    <3>2. ReadFrame(in, n) = readPair(in, 0, 8, TypeCode.GOAWAY)
      BY <2>4, <2>9 DEF parseControlFrame, TypeCode
    <3>3. Len(in) < 16 => ReadFrame(in, n) = More
      BY <3>2, PairCases
    <3>4. Len(in) >= 16 => ReadFrame(in, n) = Got(f, 16)
      BY <2>6, <3>1, <3>2, PairCases
    <3> QED
      BY <1>4, <2>7, <3>3, <3>4 DEF Read, Rejected, Decoded
  <2>10. CASE f.type = "WINDOW_UPDATE"
    <3>1. f = WindowUpdate(f.id, v)
      BY <1>1, <2>10 DEF WellFormed
    <3>2. ReadFrame(in, n) = readPair(in, 0, 8, TypeCode.WINDOW_UPDATE)
      BY <2>4, <2>10 DEF parseControlFrame, TypeCode
    <3>3. Len(in) < 16 => ReadFrame(in, n) = More
      BY <3>2, PairCases
    <3>4. Len(in) >= 16 => ReadFrame(in, n) = Got(f, 16)
      <4>1. TypeCode.WINDOW_UPDATE # TypeCode.GOAWAY
        BY DEF TypeCode
      <4> QED
        BY <2>6, <3>1, <3>2, <4>1, PairCases
    <3> QED
      BY <1>4, <2>7, <3>3, <3>4 DEF Read, Rejected, Decoded
  <2> QED
    BY <2>8, <2>9, <2>10
<1> QED
    BY <1>5, <1>6

\* SETTINGS.
LEMMA ReadSettingsFrame ==
    ASSUME NEW f, WellFormed(f), f.type = "SETTINGS", NEW t, NEW n,
           NEW in, Len(in) \in Nat, InPlace(in, 0, f, Enc(f, t, n))
    PROVE  Read(f, t, n, in)
<1>1. PICK L \in Nat : L = Len(f.list)
    BY SettingList
<1>2. PICK B : /\ Control(f, Enc(f, t, n), 8 * L + 4, B)
               /\ Len(B) = 1 + 2 * L /\ B[1] = Word(L)
               /\ \A j \in 1..(2 * L) : B[1 + j] = Word(SettingWord(f, j))
  <2>1. PICK B : SettingFields(f, Enc(f, t, n), B)
    BY ShapeSettings
  <2> QED
    BY <1>1, <2>1, Zenon DEF SettingFields
<1>3. 8 * L + 4 \in 0..(Radix3 - 1) /\ L \in 0..(Radix4 - 1)
  <2>1. 8 * L + 4 \in 0..(Radix3 - 1)
    BY <1>1, SettingList
  <2>2. Radix4 >= Radix3
    BY Powers DEF Radix4
  <2> QED
    BY <2>1, <2>2, Powers
<1>4. Size(f) = 12 + 8 * L /\ Start(f, 3 + 1) = 8
      /\ \A j \in 1..(2 * L) : Start(f, 3 + (1 + j)) = 8 + 4 * j
  <2>1. Size(f) = 12 + 8 * L
    BY <1>1 DEF Size
  <2>2. \A i \in Nat : Start(f, i) = IF i <= 3 THEN 2 * (i - 1) ELSE 4 * (i - 2)
    BY DEF Start
  <2>3. Start(f, 3 + 1) = 8
    BY <2>2
  <2>4. \A j \in 1..(2 * L) : Start(f, 3 + (1 + j)) = 8 + 4 * j
    BY <2>2
  <2> QED
    BY <2>1, <2>3, <2>4, Zenon
<1>5. CASE Len(in) < 8
  <2>1. Len(in) < 12 + 8 * L
    BY <1>5
  <2> QED
    BY <1>4, <1>5, <2>1, Few DEF Read
<1>6. CASE Len(in) >= 8
  <2>1. Len(B) \in Nat
    BY <1>2
  <2>2. /\ ReadFrame(in, n) = parseControlFrame(in, TypeCode[f.type], n)
        /\ U32(in, 5) \div Radix3 = f.flags
        /\ \A i \in 1..Len(B) : Holds(in, Start(f, 3 + i), B[i])
    BY <1>2, <1>3, <1>6, <2>1, Seen
  <2>3. ReadFrame(in, n) = readSettings(in, f.flags)
    BY <2>2 DEF parseControlFrame, TypeCode
  <2>4. Holds(in, 8, Word(L)) /\ \A j \in 1..(2 * L) : Holds(in, 8 + 4 * j, Word(SettingWord(f, j)))
    <3>1. 1 \in 1..Len(B) /\ \A j \in 1..(2 * L) : 1 + j \in 1..Len(B)
      BY <1>2
    <3> QED
      BY <1>2, <1>4, <2>2, <3>1, Zenon
  <2>5. ASSUME Len(in) >= 12 PROVE U32(in, 9) = L
    <3>1. U32(in, 8 + 1) = L
      BY <1>3, <2>4, <2>5, WordRead
    <3> QED
      BY <3>1
  <2>6. Len(in) < 12 + 8 * L => ReadFrame(in, n) = More
    <3>1. CASE Len(in) < 12
      BY <2>3, <3>1 DEF readSettings
    <3>2. CASE Len(in) >= 12
      BY <2>3, <2>5, <3>2 DEF readSettings
    <3> QED
      BY <3>1, <3>2
  <2>7. ASSUME Len(in) >= 12 + 8 * L PROVE ReadFrame(in, n) = Got(f, 12 + 8 * L)
    <3>1. U32(in, 9) = L
      BY <2>5, <2>7
    <3> DEFINE at(i) == 13 + 8 * (i - 1)
               Item(i) == [flag |-> U32(in, at(i)) \div Radix3, id |-> U32(in, at(i)) % Radix3,
                           value |-> U32(in, at(i) + 4)]
    <3>2. ReadFrame(in, n) = Got(Settings(f.flags, [i \in 1..L |-> Item(i)]), 12 + 8 * L)
      <4>1. readSettings(in, f.flags) =
               IF Len(in) < 12 \/ Len(in) < 12 + 8 * U32(in, 9) THEN More
               ELSE Got(Settings(f.flags, [i \in 1..U32(in, 9) |-> Item(i)]), 12 + 8 * U32(in, 9))
        BY Zenon DEF readSettings
      <4>2. ~(Len(in) < 12) /\ ~(Len(in) < 12 + 8 * L)
        BY <2>7
      <4> QED
        BY <2>3, <3>1, <4>1, <4>2, Zenon
    <3>3. ASSUME NEW i \in 1..L PROVE Item(i) = f.list[i]
      <4>1. PICK a \in 0..(Radix4 - 1), c \in 0..(Radix4 - 1) :
               /\ a = SettingWord(f, 2 * i - 1) /\ c = SettingWord(f, 2 * i)
               /\ a = f.list[i].flag * Radix3 + f.list[i].id /\ c = f.list[i].value
        BY <1>1, SettingWords
      <4>2. /\ 2 * i - 1 \in 1..(2 * L) /\ 2 * i \in 1..(2 * L)
            /\ 8 + 4 * (2 * i - 1) = 12 + 8 * (i - 1) /\ 8 + 4 * (2 * i) = 16 + 8 * (i - 1)
            /\ at(i) = (12 + 8 * (i - 1)) + 1 /\ at(i) + 4 = (16 + 8 * (i - 1)) + 1
            /\ 12 + 8 * (i - 1) \in Nat /\ 16 + 8 * (i - 1) \in Nat
            /\ (12 + 8 * (i - 1)) + 4 <= Len(in) /\ (16 + 8 * (i - 1)) + 4 <= Len(in)
        BY <2>7
      <4> HIDE DEF at
      <4>3. Holds(in, 12 + 8 * (i - 1), Word(a)) /\ Holds(in, 16 + 8 * (i - 1), Word(c))
        BY <2>4, <4>1, <4>2, Zenon
      <4>4. U32(in, at(i)) = a /\ U32(in, at(i) + 4) = c
        <5>1. PICK p \in Nat : p = 12 + 8 * (i - 1)
          BY <4>2
        <5>2. PICK q \in Nat : q = 16 + 8 * (i - 1)
          BY <4>2
        <5>3. U32(in, p + 1) = a
          BY <4>2, <4>3, <5>1, WordRead
        <5>4. U32(in, q + 1) = c
          BY <4>2, <4>3, <5>2, WordRead
        <5> QED
          BY <4>2, <5>1, <5>2, <5>3, <5>4
      <4>5. a \div Radix3 = f.list[i].flag /\ a % Radix3 = f.list[i].id
        <5>1. f.list[i].flag \in 0..(Radix - 1) /\ f.list[i].id \in 0..(Radix3 - 1)
          BY <1>1, SettingList
        <5> QED
          BY <4>1, <5>1, Packed
      <4>6. f.list[i] = [flag |-> f.list[i].flag, id |-> f.list[i].id, value |-> f.list[i].value]
        BY <1>1, SettingList
      <4> QED
        BY <4>1, <4>4, <4>5, <4>6, Zenon
    <3> HIDE DEF Item
    <3>4. [i \in 1..L |-> Item(i)] = [i \in 1..L |-> f.list[i]]
      BY <3>3
    <3>5. f = Settings(f.flags, [i \in 1..L |-> f.list[i]])
      BY <1>1, SettingList
    <3> QED
      BY <3>2, <3>4, <3>5, Zenon
  <2>8. ~HasHeaders(f)
    BY DEF HasHeaders
  <2> QED
    BY <1>4, <2>6, <2>7, <2>8 DEF Read, Rejected, Decoded
<1> QED
    BY <1>5, <1>6

\* A header block that is there can be unpacked, and gives its text.
LEMMA BlockSeen ==
    ASSUME NEW in \in Seq(Bytes), NEW t \in Texts, NEW n \in Nat, NEW used \in Nat,
           Holds(in, used, Deflate(t, n)), Len(in) >= used + BlockLen
    PROVE  LET block == SubSeq(in, used + 1, used + BlockLen)
           IN  Inflates(block, n) /\ block[1].z[2] = t
<1>1. PICK d \in Seq(Bytes) : d = Deflate(t, n) /\ Len(d) = BlockLen
    BY Block
<1>2. PICK L \in Nat \ {0} : L = BlockLen
    BY CodecAssumption
<1>3. PICK s : s = SubSeq(in, used + 1, used + L)
    OBVIOUS
<1>4. s = [i \in 1..L |-> in[used + i]]
  <2>1. used + 1 \in 1..(Len(in) + 1) /\ used + L \in 0..Len(in) /\ Len(in) \in Nat
    BY <1>2
  <2>2. s = [i \in 1..((used + L) - (used + 1) + 1) |-> in[(used + 1) + i - 1]]
    BY <1>3, <2>1
  <2>3. (used + L) - (used + 1) + 1 = L /\ \A i \in 1..L : (used + 1) + i - 1 = used + i
    OBVIOUS
  <2> QED
    BY <2>2, <2>3
<1>5. d = [i \in 1..L |-> d[i]]
    BY <1>1, <1>2
<1>6. \A i \in 1..L : in[used + i] = d[i]
  <2>1. \A i \in 1..L : used + i <= Len(in)
    BY <1>2
  <2> QED
    BY <1>1, <1>2, <2>1, Zenon DEF Holds
<1>7. s = d
    BY <1>4, <1>5, <1>6
<1>8. d[1] = [b |-> 1, z |-> <<n, t>>]
    BY <1>1, <1>2 DEF Deflate
<1>9. d[1].z # <<>> /\ d[1].z[2] = t
    BY <1>8
<1>10. Inflates(d, n)
    BY <1>1, <1>9, Zenon DEF Inflates
<1> QED
    BY <1>2, <1>3, <1>7, <1>9, <1>10, Zenon

\* What becomes of a frame with headers.
Outcome(in, used, t, invalid, g) ==
    IF Len(in) < used + BlockLen THEN More
    ELSE IF \/ ~parseHeaderValueBlock(t).ok
            \/ DOMAIN parseHeaderValueBlock(t).headers \cap invalid # {} THEN Fail
    ELSE Got([g EXCEPT !.headers = parseHeaderValueBlock(t).headers], used + BlockLen)

\* readHeaders, on the block of a frame that is there, in part or whole.
LEMMA HeadersRead ==
    ASSUME NEW in \in Seq(Bytes), NEW t \in Texts, NEW n \in Nat, NEW used \in Nat,
           Holds(in, used, Deflate(t, n)), NEW invalid, NEW g, g.id # 0
    PROVE  readHeaders(in, used, BlockLen, n, invalid, g) = Outcome(in, used, t, invalid, g)
<1>1. PICK L \in Nat, m \in Nat : L = Len(in) /\ m = used + BlockLen
    BY CodecAssumption
<1>2. CASE L < m
  <2>1. ~(L >= m)
    BY <1>2
  <2> QED
    BY <1>1, <1>2, <2>1, Zenon DEF readHeaders, Outcome
<1>3. CASE L >= m
  <2>1. ~(L < m)
    BY <1>3
  <2>2. PICK block : block = SubSeq(in, used + 1, used + BlockLen)
    OBVIOUS
  <2>3. Inflates(block, n) /\ block[1].z[2] = t
    BY <1>1, <1>3, <2>2, BlockSeen
  <2> QED
    BY <1>1, <1>3, <2>1, <2>2, <2>3, Zenon DEF readHeaders, Outcome
<1>4. L < m \/ L >= m
    OBVIOUS
<1> QED
    BY <1>2, <1>3, <1>4

\* SYN_REPLY and HEADERS.
LEMMA ReadReply ==
    ASSUME NEW f, WellFormed(f), f.type \in {"SYN_REPLY", "HEADERS"}, ~Refused(f), NEW t \in Texts,
           NEW n \in Nat, NEW in \in Seq(Bytes), InPlace(in, 0, f, Enc(f, t, n))
    PROVE  Read(f, t, n, in)
<1>1. Len(in) \in Nat /\ BlockLen \in Nat /\ BlockLen > 0
    BY CodecAssumption
<1>2. Control(f, Enc(f, t, n), BlockLen + 4, <<Word(f.id), Deflate(t, n)>>)
    BY ShapeHeaders
<1>3. f.id \in 0..(Radix4 - 1) /\ f.id # 0
    BY DEF WellFormed, Refused
<1>4. Size(f) = 12 + BlockLen /\ Start(f, 3 + 1) = 8 /\ Start(f, 3 + 2) = 12
    BY DEF Size, Start
<1>5. CASE Len(in) < 8
  <2>1. Len(in) < 12 + BlockLen
    BY <1>1, <1>5
  <2> QED
    BY <1>1, <1>4, <1>5, <2>1, Few DEF Read
<1>6. CASE Len(in) >= 8
  <2>1. PICK B : B = <<Word(f.id), Deflate(t, n)>>
    OBVIOUS
  <2>2. Len(B) = 2 /\ B[1] = Word(f.id) /\ B[2] = Deflate(t, n)
    <3>1. f.id \in Nat
      BY <1>3, Powers
    <3>2. Word(f.id) \in Seq(Bytes) /\ Deflate(t, n) \in Seq(Bytes)
      BY <3>1, WordBytes, Block
    <3> QED
      BY <2>1, <3>2, Tuple2, Zenon
  <2>3. PICK length \in 0..(Radix3 - 1) : length = BlockLen + 4 /\ length - 4 = BlockLen
    BY <1>1, Powers, CodecAssumption
  <2>4. /\ ReadFrame(in, n) = parseControlFrame(in, TypeCode[f.type], n)
        /\ U32(in, 5) \div Radix3 = f.flags /\ U32(in, 5) % Radix3 = length
        /\ \A i \in 1..Len(B) : Holds(in, Start(f, 3 + i), B[i])
    <3>1. f.type # "DATA" /\ Len(B) \in Nat /\ Control(f, Enc(f, t, n), length, B)
      BY <1>2, <2>1, <2>2, <2>3
    <3> QED
      BY <1>1, <1>6, <3>1, Seen
  <2>5. Holds(in, 8, Word(f.id)) /\ Holds(in, 12, Deflate(t, n))
    BY <1>4, <2>2, <2>4
  <2>6. ASSUME Len(in) >= 12 PROVE U32(in, 9) = f.id
    <3>1. U32(in, 8 + 1) = f.id
      BY <1>1, <1>3, <2>5, <2>6, WordRead
    <3> QED
      BY <3>1
  <2>7. PICK h : h = parseHeaderValueBlock(t).headers
    OBVIOUS
  <2>8. PICK g : g = [f EXCEPT !.headers = <<>>]
    OBVIOUS
  <2>9. ASSUME Len(in) >= 12
        PROVE  ReadFrame(in, n) = readHeaders(in, 12, BlockLen, n, Invalid(f), g)
    <3>1. ~(Len(in) < 12)
      BY <2>9, <1>1
    <3>2. CASE f.type = "SYN_REPLY"
      <4>1. ReadFrame(in, n) = readSynReplyFrame(in, f.flags, length, n)
        BY <2>4, <3>2 DEF parseControlFrame, TypeCode
      <4>2. g = SynReply(f.id, f.flags, <<>>) /\ Invalid(f) = invalidRespHeaders
        BY <2>8, <3>2 DEF WellFormed, SynReply, Invalid
      <4> QED
        BY <2>3, <2>6, <2>9, <3>1, <4>1, <4>2 DEF readSynReplyFrame
    <3>3. CASE f.type = "HEADERS"
      <4>1. ReadFrame(in, n) = readHeadersFrame(in, f.flags, length, n)
        BY <2>4, <3>3 DEF parseControlFrame, TypeCode
      <4>2. g = Headers(f.id, f.flags, <<>>)
        BY <2>8, <3>3 DEF WellFormed, Headers
      <4>3. Invalid(f) = IF f.id % 2 = 0 THEN invalidReqHeaders ELSE invalidRespHeaders
        BY <3>3 DEF Invalid
      <4> QED
        BY <2>3, <2>6, <2>9, <3>1, <4>1, <4>2, <4>3, Zenon DEF readHeadersFrame
    <3> QED
      BY <3>2, <3>3
  <2>10. ASSUME Len(in) < 12 PROVE ReadFrame(in, n) = More
    <3>1. CASE f.type = "SYN_REPLY"
      <4>1. ReadFrame(in, n) = readSynReplyFrame(in, f.flags, length, n)
        BY <2>4, <3>1 DEF parseControlFrame, TypeCode
      <4> QED
        BY <2>10, <4>1, Zenon DEF readSynReplyFrame
    <3>2. CASE f.type = "HEADERS"
      <4>1. ReadFrame(in, n) = readHeadersFrame(in, f.flags, length, n)
        BY <2>4, <3>2 DEF parseControlFrame, TypeCode
      <4> QED
        BY <2>10, <4>1, Zenon DEF readHeadersFrame
    <3> QED
      BY <3>1, <3>2
  <2>11. HasHeaders(f) /\ g.id = f.id /\ [g EXCEPT !.headers = h] = [f EXCEPT !.headers = h]
    <3>1. CASE f.type = "SYN_REPLY"
      <4>1. f = SynReply(f.id, f.flags, f.headers)
        BY <3>1 DEF WellFormed
      <4>2. [g EXCEPT !.headers = h] = [f EXCEPT !.headers = h] /\ g.id = f.id
        BY <2>8, <4>1 DEF SynReply
      <4> QED
        BY <3>1, <4>2 DEF HasHeaders
    <3>2. CASE f.type = "HEADERS"
      <4>1. f = Headers(f.id, f.flags, f.headers)
        BY <3>2 DEF WellFormed
      <4>2. [g EXCEPT !.headers = h] = [f EXCEPT !.headers = h] /\ g.id = f.id
        BY <2>8, <4>1 DEF Headers
      <4> QED
        BY <3>2, <4>2 DEF HasHeaders
    <3> QED
      BY <3>1, <3>2
  <2>12. readHeaders(in, 12, BlockLen, n, Invalid(f), g) = Outcome(in, 12, t, Invalid(f), g)
    <3>1. g.id # 0 /\ 12 \in Nat
      BY <1>3, <2>11
    <3> QED
      BY <2>5, <3>1, HeadersRead
  <2>13. CASE Len(in) < 12
    <3>1. Len(in) < 12 + BlockLen /\ ~(Len(in) >= 12 + BlockLen)
      BY <1>1, <2>13
    <3> QED
      BY <1>4, <2>10, <2>13, <3>1, Zenon DEF Read
  <2>14. CASE Len(in) >= 12
    <3>1. Len(in) < 12 + BlockLen <=> ~(Len(in) >= 12 + BlockLen)
      BY <1>1
    <3> QED
      BY <1>4, <2>7, <2>9, <2>11, <2>12, <2>14, <3>1, Zenon DEF Read, Rejected, Decoded, Outcome
  <2> QED
    BY <1>1, <2>13, <2>14
<1> QED
    BY <1>1, <1>5, <1>6

\* One byte that was written.
LEMMA ByteRead ==
    ASSUME NEW in, NEW p \in Nat, NEW x \in 0..(Radix - 1),
           Len(in) \in Nat, p + 1 <= Len(in), Holds(in, p, Uint(x, 1))
    PROVE  Byte(in, p + 1) = x
<1>1. x \in Nat /\ x % Radix = x
    BY Powers
<1>2. PICK s : s = Uint(x, 1) /\ Len(s) = 1 /\ s[1].b = x
    BY <1>1, Uint1
<1>3. in[p + 1] = s[1]
  <2>1. 1 \in 1..Len(s) /\ p + 1 <= Len(in)
    BY <1>2
  <2> QED
    BY <1>2, <2>1, Zenon DEF Holds
<1> QED
    BY <1>2, <1>3 DEF Byte

\* The priority, kept in the top bits of a byte.
LEMMA Priority ==
    ASSUME NEW p \in Nat, p * PrioUnit < Radix
    PROVE  p * PrioUnit \in 0..(Radix - 1) /\ (p * PrioUnit) \div PrioUnit = p
<1>1. PrioUnit \in Nat /\ PrioUnit > 0
    BY CodecAssumption
<1>2. p * PrioUnit \in Nat /\ p * PrioUnit = PrioUnit * p + 0
    BY <1>1
<1>3. (PrioUnit * p + 0) \div PrioUnit = p
    BY <1>1, Quotient
<1> QED
    BY <1>2, <1>3, Powers

\* SYN_STREAM.
LEMMA ReadSyn ==
    ASSUME NEW f, WellFormed(f), f.type = "SYN_STREAM", ~Refused(f), NEW t \in Texts,
           NEW n \in Nat, NEW in \in Seq(Bytes), InPlace(in, 0, f, Enc(f, t, n))
    PROVE  Read(f, t, n, in)
<1>1. Len(in) \in Nat /\ BlockLen \in Nat /\ BlockLen > 0
    BY CodecAssumption
<1> DEFINE T == <<Word(f.id), Word(f.assoc), Uint(f.prio * PrioUnit, 1), Uint(f.slot, 1), Deflate(t, n)>>
<1>2. Control(f, Enc(f, t, n), BlockLen + 10, T)
    BY ShapeSynStream
<1>3. /\ f.id \in 0..(Radix4 - 1) /\ f.id # 0 /\ f.assoc \in 0..(Radix4 - 1)
      /\ f.slot \in 0..(Radix - 1) /\ f.prio * PrioUnit \in 0..(Radix - 1)
      /\ (f.prio * PrioUnit) \div PrioUnit = f.prio
      /\ f = SynStream(f.id, f.flags, f.assoc, f.prio, f.slot, f.headers)
  <2>1. /\ f.id \in 0..(Radix4 - 1) /\ f.id # 0 /\ f.assoc \in 0..(Radix4 - 1)
        /\ f.slot \in 0..(Radix - 1) /\ f.prio \in Nat /\ f.prio * PrioUnit < Radix
        /\ f = SynStream(f.id, f.flags, f.assoc, f.prio, f.slot, f.headers)
    BY DEF WellFormed, Refused
  <2> QED
    BY <2>1, Priority
<1>4. /\ Size(f) = 18 + BlockLen /\ Start(f, 3 + 1) = 8 /\ Start(f, 3 + 2) = 12
      /\ Start(f, 3 + 3) = 16 /\ Start(f, 3 + 4) = 17 /\ Start(f, 3 + 5) = 18
    BY DEF Size, Start
<1>5. CASE Len(in) < 8
  <2>1. Len(in) < 18 + BlockLen
    BY <1>1, <1>5
  <2> QED
    BY <1>1, <1>4, <1>5, <2>1, Few DEF Read
<1>6. CASE Len(in) >= 8
  <2>1. PICK B : B = T
    OBVIOUS
  <2>2. /\ Len(B) = 5 /\ B[1] = Word(f.id) /\ B[2] = Word(f.assoc) /\ B[3] = Uint(f.prio * PrioUnit, 1)
        /\ B[4] = Uint(f.slot, 1) /\ B[5] = Deflate(t, n)
    <3>1. f.id \in Nat /\ f.assoc \in Nat /\ f.prio * PrioUnit \in Nat /\ f.slot \in Nat
      BY <1>3, Powers
    <3>2. /\ Word(f.id) \in Seq(Bytes) /\ Word(f.assoc) \in Seq(Bytes) /\ Uint(f.prio * PrioUnit, 1) \in Seq(Bytes)
          /\ Uint(f.slot, 1) \in Seq(Bytes) /\ Deflate(t, n) \in Seq(Bytes)
      BY <3>1, WordBytes, Uint1, Block
    <3> QED
      BY <2>1, <3>2, Tuple5, Zenon
  <2>3. PICK length \in 0..(Radix3 - 1) : length = BlockLen + 10 /\ length - 10 = BlockLen
    BY <1>1, Powers, CodecAssumption
  <2>4. /\ ReadFrame(in, n) = parseControlFrame(in, TypeCode[f.type], n)
        /\ U32(in, 5) \div Radix3 = f.flags /\ U32(in, 5) % Radix3 = length
        /\ \A i \in 1..Len(B) : Holds(in, Start(f, 3 + i), B[i])
    <3>1. f.type # "DATA" /\ Len(B) \in Nat /\ Control(f, Enc(f, t, n), length, B)
      <4>1. Control(f, Enc(f, t, n), length, B)
        BY <1>2, <2>1, <2>3, Zenon
      <4> HIDE DEF T
      <4> QED
        BY <2>2, <4>1
    <3> HIDE DEF T
    <3> QED
      BY <1>1, <1>6, <3>1, Seen
  <2> HIDE DEF T
  <2>5. /\ Holds(in, 8, Word(f.id)) /\ Holds(in, 12, Word(f.assoc))
        /\ Holds(in, 16, Uint(f.prio * PrioUnit, 1)) /\ Holds(in, 17, Uint(f.slot, 1))
        /\ Holds(in, 18, Deflate(t, n))
    <3>1. 1 \in 1..Len(B) /\ 2 \in 1..Len(B) /\ 3 \in 1..Len(B) /\ 4 \in 1..Len(B) /\ 5 \in 1..Len(B)
      BY <2>2
    <3> QED
      BY <1>4, <2>2, <2>4, <3>1, Zenon
  <2>6. ASSUME Len(in) >= 18
        PROVE  U32(in, 9) = f.id /\ U32(in, 13) = f.assoc /\ Byte(in, 17) \div PrioUnit = f.prio /\ Byte(in, 18) = f.slot
    <3>1. U32(in, 8 + 1) = f.id
      BY <1>1, <1>3, <2>5, <2>6, WordRead
    <3>2. U32(in, 12 + 1) = f.assoc
      BY <1>1, <1>3, <2>5, <2>6, WordRead
    <3>3. Byte(in, 16 + 1) = f.prio * PrioUnit
      BY <1>1, <1>3, <2>5, <2>6, ByteRead
    <3>4. Byte(in, 17 + 1) = f.slot
      BY <1>1, <1>3, <2>5, <2>6, ByteRead
    <3>5. 8 + 1 = 9 /\ 12 + 1 = 13 /\ 16 + 1 = 17 /\ 17 + 1 = 18
      OBVIOUS
    <3> QED
      BY <1>3, <3>1, <3>2, <3>3, <3>4, <3>5, Zenon
  <2>7. PICK h : h = parseHeaderValueBlock(t).headers
    OBVIOUS
  <2>8. PICK g : g = SynStream(f.id, f.flags, f.assoc, f.prio, f.slot, <<>>)
    OBVIOUS
  <2>9. ReadFrame(in, n) = readSynStreamFrame(in, f.flags, length, n)
    BY <2>4 DEF parseControlFrame, TypeCode
  <2>10. Invalid(f) = invalidReqHeaders
    BY DEF Invalid
  <2>11. HasHeaders(f) /\ g.id = f.id /\ [g EXCEPT !.headers = h] = [f EXCEPT !.headers = h]
    <3>1. [g EXCEPT !.headers = h] = [f EXCEPT !.headers = h] /\ g.id = f.id
      BY <1>3, <2>8 DEF SynStream
    <3> QED
      BY <3>1 DEF HasHeaders
  <2>12. readHeaders(in, 18, BlockLen, n, Invalid(f), g) = Outcome(in, 18, t, Invalid(f), g)
    <3>1. g.id # 0 /\ 18 \in Nat
      BY <1>3, <2>11
    <3> QED
      BY <2>5, <3>1, HeadersRead
  <2>13. CASE Len(in) < 18
    <3>1. Len(in) < 18 + BlockLen /\ ~(Len(in) >= 18 + BlockLen)
      BY <1>1, <2>13
    <3> QED
      BY <1>4, <2>9, <2>13, <3>1, Zenon DEF Read, readSynStreamFrame
  <2>14. CASE Len(in) >= 18
    <3>1. Len(in) < 18 + BlockLen <=> ~(Len(in) >= 18 + BlockLen)
      BY <1>1
    <3>2. ~(Len(in) < 18)
      BY <1>1, <2>14
    <3>3. ReadFrame(in, n) = readHeaders(in, 18, BlockLen, n, Invalid(f), g)
      BY <2>3, <2>6, <2>8, <2>9, <2>10, <2>14, <3>2, Zenon DEF readSynStreamFrame
    <3> QED
      BY <1>4, <2>7, <2>11, <2>12, <3>1, <3>3, Zenon DEF Read, Rejected, Decoded, Outcome
  <2> QED
    BY <1>1, <2>13, <2>14
<1> QED
    BY <1>1, <1>5, <1>6

\* DATA.
LEMMA ReadDataFrame ==
    ASSUME NEW f, WellFormed(f), f.type = "DATA", ~Refused(f), NEW t, NEW n,
           NEW in \in Seq(Bytes), InPlace(in, 0, f, Enc(f, t, n))
    PROVE  Read(f, t, n, in)
<1>1. PICK F : F = Enc(f, t, n)
    OBVIOUS
<1>2. /\ Len(F) = (IF f.data = <<>> THEN 2 ELSE 3)
      /\ F[1] = Word(f.id) /\ F[2] = Word(f.flags * Radix3 + Len(f.data))
      /\ f.data # <<>> => F[3] = Image(f)
    BY <1>1, ShapeData, Zenon
<1>3. PICK L \in Nat : L = Len(f.data)
    BY DataBytes
<1>4. /\ f.id \in 0..(Radix4 - 1) /\ f.id # 0 /\ ~(f.id >= ControlBit)
      /\ f.flags \in 0..(Radix - 1) /\ L \in 0..(Radix3 - 1)
    BY <1>3, Powers DEF WellFormed, Refused, MaxDataLength
<1>5. Size(f) = 8 + L /\ 0 + Start(f, 1) = 0 /\ 0 + Start(f, 2) = 4 /\ 0 + Start(f, 3) = 8
    BY <1>3 DEF Size, Start
<1>6. PICK N \in Nat : N = Len(in)
    OBVIOUS
<1>7. CASE N < 8
  <2>1. N < 8 + L /\ ~(N >= 8 + L)
    BY <1>7
  <2>2. ReadFrame(in, n) = More
    BY <1>6, <1>7, Few
  <2> QED
    BY <1>5, <1>6, <2>1, <2>2, Zenon DEF Read
<1>8. CASE N >= 8
  <2>1. Holds(in, 0, F[1]) /\ Holds(in, 4, F[2]) /\ (f.data # <<>> => Holds(in, 8, F[3]))
    <3>1. 1 \in 1..Len(F) /\ 2 \in 1..Len(F) /\ (f.data # <<>> => 3 \in 1..Len(F))
      BY <1>2
    <3> QED
      BY <1>1, <1>5, <3>1, Zenon DEF InPlace
  <2>2. U32(in, 1) = f.id
    <3>1. U32(in, 0 + 1) = f.id
      BY <1>2, <1>4, <1>6, <1>8, <2>1, WordRead
    <3> QED
      BY <3>1
  <2>3. U32(in, 5) \div Radix3 = f.flags /\ U32(in, 5) % Radix3 = L
    <3>1. PICK x \in 0..(Radix4 - 1) : x = f.flags * Radix3 + L /\ x \div Radix3 = f.flags /\ x % Radix3 = L
      BY <1>4, Packed
    <3>2. Holds(in, 4, Word(x))
      BY <1>2, <1>3, <2>1, <3>1
    <3>3. U32(in, 4 + 1) = x
      BY <1>6, <1>8, <3>2, WordRead
    <3> QED
      BY <3>1, <3>3
  <2>4. ReadFrame(in, n) = parseDataFrame(in, f.id)
    <3>1. ~(N < 8)
      BY <1>8
    <3> QED
      BY <1>4, <1>6, <2>2, <3>1, Zenon DEF ReadFrame
  <2>5. N < 8 + L <=> ~(N >= 8 + L)
    OBVIOUS
  <2>6. N < 8 + L => ReadFrame(in, n) = More
    BY <1>6, <2>3, <2>4, <2>5, Zenon DEF parseDataFrame
  <2>7. ASSUME N >= 8 + L PROVE ReadFrame(in, n) = Got(f, 8 + L)
    <3>1. ReadFrame(in, n) = Got(Data(f.id, f.flags, [i \in 1..L |-> Byte(in, 8 + i)]), 8 + L)
      BY <1>4, <1>6, <2>3, <2>4, <2>5, <2>7, Zenon DEF parseDataFrame
    <3>2. ASSUME NEW i \in 1..L PROVE Byte(in, 8 + i) = f.data[i]
      <4>1. f.data # <<>>
        BY <1>3, <3>2, DataBytes
      <4>2. PICK m : m = Image(f)
        OBVIOUS
      <4>3. m = Image(f) /\ Len(m) = L /\ \A j \in 1..L : m[j].b = f.data[j]
        BY <1>3, <4>2, DataBytes, Zenon
      <4>4. Holds(in, 8, m)
        BY <1>2, <2>1, <4>1, <4>3, Zenon
      <4>5. 8 + i <= Len(in)
        BY <1>6, <2>7
      <4>6. in[8 + i] = m[i]
        BY <4>3, <4>4, <4>5, Zenon DEF Holds
      <4> QED
        BY <4>3, <4>6, Zenon DEF Byte
    <3>3. [i \in 1..L |-> Byte(in, 8 + i)] = [i \in 1..L |-> f.data[i]]
      BY <3>2, Zenon
    <3>4. f = Data(f.id, f.flags, [i \in 1..L |-> f.data[i]])
      <4>1. f = Data(f.id, f.flags, f.data)
        BY DataBytes
      <4>2. f.data = [i \in 1..L |-> f.data[i]]
        BY <1>3, DataBytes
      <4>3. PICK d : d = f.data
        OBVIOUS
      <4>4. PICK e : e = [i \in 1..L |-> f.data[i]]
        OBVIOUS
      <4>5. f = Data(f.id, f.flags, d) /\ d = e
        BY <4>1, <4>2, <4>3, <4>4
      <4> QED
        BY ONLY <4>4, <4>5
    <3> QED
      BY <3>1, <3>3, <3>4, Zenon
  <2>8. ~HasHeaders(f)
    BY DEF HasHeaders
  <2> QED
    BY <1>5, <1>6, <2>6, <2>7, <2>8, Zenon DEF Read, Rejected, Decoded
<1> QED
    BY <1>7, <1>8

\* A text of a frame with headers.
TextOf(f, t) == HasHeaders(f) => t \in Texts

\* The fields of any frame are laid out one behind the other.
LEMMA AllLaid ==
    ASSUME NEW f, WellFormed(f), NEW t, TextOf(f, t), NEW n \in Nat
    PROVE  Laid(f, Enc(f, t, n))
<1>1. CASE HasHeaders(f)
    BY <1>1, ShapeSynStream, ShapeHeaders DEF HasHeaders, TextOf
<1>2. CASE ~HasHeaders(f)
  <2>1. f.type \in {"DATA", "RST_STREAM", "SETTINGS", "PING", "GOAWAY", "WINDOW_UPDATE"}
    BY <1>2, Lengths DEF HasHeaders, FrameTypes
  <2>2. CASE f.type = "DATA"
    BY <2>2, ShapeData
  <2>3. CASE f.type = "SETTINGS"
    BY <2>3, ShapeSettings
  <2>4. CASE f.type = "PING"
    BY <2>4, ShapePing
  <2>5. CASE f.type \in {"RST_STREAM", "GOAWAY", "WINDOW_UPDATE"}
    <3>1. PICK v : v = IF f.type = "WINDOW_UPDATE" THEN f.delta ELSE f.status
      OBVIOUS
    <3> QED
      BY <2>5, <3>1, ShapePair
  <2> QED
    BY <2>1, <2>2, <2>3, <2>4, <2>5
<1> QED
    BY <1>1, <1>2

\* ReadFrame reads any frame that WriteFrame accepts, once it is there.
LEMMA AllRead ==
    ASSUME NEW f, WellFormed(f), ~Refused(f), NEW t, TextOf(f, t), NEW n \in Nat,
           NEW in \in Seq(Bytes), InPlace(in, 0, f, Enc(f, t, n))
    PROVE  Read(f, t, n, in)
<1>1. Len(in) \in Nat
    OBVIOUS
<1>2. CASE HasHeaders(f)
    BY <1>2, ReadSyn, ReadReply DEF HasHeaders, TextOf
<1>3. CASE ~HasHeaders(f)
  <2>1. f.type \in {"DATA", "RST_STREAM", "SETTINGS", "PING", "GOAWAY", "WINDOW_UPDATE"}
    BY <1>3, Lengths DEF HasHeaders, FrameTypes
  <2>2. CASE f.type = "DATA"
    BY <2>2, ReadDataFrame
  <2>3. CASE f.type = "SETTINGS"
    BY <1>1, <2>3, ReadSettingsFrame
  <2>4. CASE f.type = "PING"
    BY <1>1, <2>4, ReadPing
  <2>5. CASE f.type \in {"RST_STREAM", "GOAWAY", "WINDOW_UPDATE"}
    BY <1>1, <2>5, ReadPairs
  <2> QED
    BY <2>1, <2>2, <2>3, <2>4, <2>5
<1> QED
    BY <1>2, <1>3

--------------------------------------------------------------------------------
\* Bytes that stay in place while others come and go.

\* More bytes arrive behind those of s.
LEMMA HoldsAppend ==
    ASSUME NEW in \in Seq(Bytes), NEW u \in Seq(Bytes), NEW p \in Nat, NEW s, Len(s) \in Nat,
           Holds(in, p, s), p + Len(s) <= Len(in)
    PROVE  Holds(in \o u, p, s)
<1>1. \A i \in 1..Len(s) : p + i \in 1..Len(in) /\ p + i <= Len(in)
    OBVIOUS
<1>2. \A i \in 1..Len(s) : in[p + i] = s[i]
    BY <1>1, Zenon DEF Holds
<1>3. \A k \in 1..Len(in) : (in \o u)[k] = in[k]
    BY Join
<1> QED
    BY <1>1, <1>2, <1>3, Zenon DEF Holds

\* The bytes of s themselves arrive.
LEMMA HoldsNew ==
    ASSUME NEW in \in Seq(Bytes), NEW s \in Seq(Bytes)
    PROVE  Holds(in \o s, Len(in), s)
    BY Join DEF Holds

\* The bytes of s have not arrived.
LEMMA HoldsBeyond ==
    ASSUME NEW in, Len(in) \in Nat, NEW p \in Nat, NEW s, Len(s) \in Nat, Len(in) <= p
    PROVE  Holds(in, p, s)
<1>1. \A i \in 1..Len(s) : ~(p + i <= Len(in))
    OBVIOUS
<1> QED
    BY <1>1, Zenon DEF Holds

\* The last bytes are lost.
LEMMA HoldsPrefix ==
    ASSUME NEW in \in Seq(Bytes), NEW m \in 0..Len(in), NEW p \in Nat, NEW s, Len(s) \in Nat,
           Holds(in, p, s)
    PROVE  Holds(SubSeq(in, 1, m), p, s)
<1>1. PICK c : c = SubSeq(in, 1, m)
    OBVIOUS
<1>2. Len(c) = m /\ \A k \in 1..m : c[k] = in[k]
  <2>1. PICK L \in Nat : L = Len(in) /\ m <= L /\ m \in Nat
    OBVIOUS
  <2>2. Len(c) = m /\ \A k \in 1..m : c[k] = in[1 + k - 1]
    BY <1>1, <2>1
  <2>3. \A k \in 1..m : 1 + k - 1 = k
    BY <2>1
  <2> QED
    BY <2>2, <2>3, Zenon
<1>3. ASSUME NEW i \in 1..Len(s), p + i <= Len(c) PROVE c[p + i] = s[i]
  <2>1. p + i \in 1..m /\ p + i <= Len(in)
    BY <1>2, <1>3
  <2>2. in[p + i] = s[i]
    BY <2>1, Zenon DEF Holds
  <2> QED
    BY <1>2, <2>1, <2>2, Zenon
<1>4. Holds(c, p, s)
    BY <1>3, Zenon DEF Holds
<1> QED
    BY <1>1, <1>4

\* The first bytes are read.
LEMMA HoldsDrop ==
    ASSUME NEW in \in Seq(Bytes), NEW q \in Nat, q <= Len(in), NEW p \in Nat, q <= p,
           NEW s, Len(s) \in Nat, Holds(in, p, s)
    PROVE  Holds(SubSeq(in, q + 1, Len(in)), p - q, s)
<1>1. PICK c : c = SubSeq(in, q + 1, Len(in))
    OBVIOUS
<1>2. Len(c) = Len(in) - q /\ \A k \in 1..(Len(in) - q) : c[k] = in[q + k]
  <2>1. PICK L \in Nat : L = Len(in)
    OBVIOUS
  <2>2. Len(c) = L - q /\ \A k \in 1..(L - q) : c[k] = in[(q + 1) + k - 1]
    BY <1>1, <2>1
  <2>3. \A k \in 1..(L - q) : (q + 1) + k - 1 = q + k
    BY <2>1
  <2> QED
    BY <2>1, <2>2, <2>3, Zenon
<1>3. ASSUME NEW i \in 1..Len(s), (p - q) + i <= Len(c) PROVE c[(p - q) + i] = s[i]
  <2>1. (p - q) + i \in 1..(Len(in) - q) /\ p + i <= Len(in) /\ q + ((p - q) + i) = p + i
    BY <1>2, <1>3
  <2>2. in[p + i] = s[i]
    BY <2>1, Zenon DEF Holds
  <2> QED
    BY <1>2, <2>1, <2>2, Zenon
<1>4. Holds(c, p - q, s)
    BY <1>3, Zenon DEF Holds
<1> QED
    BY <1>1, <1>4

\* What is known of the fields of a frame that is laid out.
LEMMA FieldPlaces ==
    ASSUME NEW f, WellFormed(f), NEW F, Laid(f, F)
    PROVE  /\ Len(F) \in Nat \ {0}
           /\ \A j \in 1..Len(F) :
                 /\ F[j] \in Seq(Bytes) /\ Len(F[j]) \in Nat /\ Start(f, j) \in Nat
                 /\ Start(f, j) < Size(f) /\ Start(f, j) + Len(F[j]) <= Size(f)
           /\ \A i, j \in 1..Len(F) : i < j => Start(f, i) + Len(F[i]) <= Start(f, j)
<1>1. F \in Seq(Seq(Bytes)) /\ Len(F) > 0 /\ Start(f, Len(F) + 1) = Size(f)
    BY Zenon DEF Laid
<1>2. Len(F) \in Nat \ {0} /\ \A j \in 1..Len(F) : F[j] \in Seq(Bytes) /\ Len(F[j]) \in Nat
    BY <1>1
<1>3. \A j \in 1..Len(F) : Len(F[j]) > 0 /\ Start(f, j + 1) = Start(f, j) + Len(F[j])
    BY Zenon DEF Laid
<1>4. ASSUME NEW j \in 1..Len(F)
      PROVE  /\ F[j] \in Seq(Bytes) /\ Len(F[j]) \in Nat /\ Start(f, j) \in Nat
             /\ Start(f, j) < Size(f) /\ Start(f, j) + Len(F[j]) <= Size(f)
  <2>1. j \in Nat \ {0} /\ j + 1 \in Nat \ {0} /\ Len(F) + 1 \in Nat \ {0} /\ j + 1 <= Len(F) + 1
    BY <1>2
  <2>2. PICK a \in Nat, b \in Nat, c \in Nat, l \in Nat :
           a = Start(f, j) /\ b = Start(f, j + 1) /\ c = Size(f) /\ l = Len(F[j]) /\ b <= c
    BY <1>1, <1>2, <2>1, Starts
  <2>3. l > 0 /\ b = a + l
    BY <1>3, <2>2
  <2>4. a < c /\ a + l <= c
    BY <2>2, <2>3
  <2> QED
    BY <1>2, <2>2, <2>4
<1>5. ASSUME NEW i \in 1..Len(F), NEW j \in 1..Len(F), i < j
      PROVE  Start(f, i) + Len(F[i]) <= Start(f, j)
  <2>1. i + 1 \in Nat \ {0} /\ j \in Nat \ {0} /\ i + 1 <= j
    BY <1>2, <1>5
  <2>2. Start(f, i + 1) <= Start(f, j)
    BY <2>1, Starts
  <2> QED
    BY <1>3, <2>2
<1> QED
    BY <1>2, <1>4, <1>5

\* The same five facts for all fields of a frame: first, one that is there and stays.
LEMMA PlacesAppend ==
    ASSUME NEW f, WellFormed(f), NEW F, Laid(f, F), NEW in \in Seq(Bytes), NEW u \in Seq(Bytes),
           NEW p \in Nat, InPlace(in, p, f, F), p + Size(f) <= Len(in)
    PROVE  InPlace(in \o u, p, f, F)
<1>1. SUFFICES ASSUME NEW j \in 1..Len(F) PROVE Holds(in \o u, p + Start(f, j), F[j])
    BY Zenon DEF InPlace
<1>2. PICK a \in Nat, l \in Nat : a = Start(f, j) /\ l = Len(F[j]) /\ a + l <= Size(f)
    BY FieldPlaces
<1>3. PICK q \in Nat : q = p + Start(f, j) /\ q + Len(F[j]) <= Len(in) /\ Len(F[j]) \in Nat
  <2>1. PICK N \in Nat, c \in Nat : N = Len(in) /\ c = Size(f) /\ p + c <= N
    BY Starts
  <2>2. a + l <= c /\ p + c <= N
    BY <1>2, <2>1
  <2>3. p + a \in Nat /\ (p + a) + l <= N
    BY ONLY <2>2, a \in Nat, l \in Nat, c \in Nat, N \in Nat, p \in Nat
  <2> QED
    BY <1>2, <2>1, <2>3, Zenon
<1>4. Holds(in, q, F[j])
    BY <1>3 DEF InPlace
<1> QED
    BY <1>3, <1>4, HoldsAppend

\* A frame of which the next field is written.
LEMMA PlacesField ==
    ASSUME NEW f, WellFormed(f), NEW F, Laid(f, F), NEW in \in Seq(Bytes), NEW p \in Nat,
           NEW k \in 1..Len(F), Len(in) = p + Start(f, k), InPlace(in, p, f, F)
    PROVE  InPlace(in \o F[k], p, f, F)
<1>1. F[k] \in Seq(Bytes) /\ Len(in) \in Nat
    BY FieldPlaces
<1>2. SUFFICES ASSUME NEW j \in 1..Len(F) PROVE Holds(in \o F[k], p + Start(f, j), F[j])
    BY Zenon DEF InPlace
<1>3. Len(F) \in Nat /\ Start(f, j) \in Nat /\ Start(f, k) \in Nat /\ Len(F[j]) \in Nat /\ Len(F[k]) \in Nat
    BY FieldPlaces
<1>4. PICK q \in Nat : q = p + Start(f, j)
    BY <1>3
<1>5. CASE j < k
  <2>1. Start(f, j) + Len(F[j]) <= Start(f, k)
    BY <1>5, FieldPlaces
  <2>2. q + Len(F[j]) <= Len(in)
    <3>1. PICK a \in Nat, b \in Nat, l \in Nat : a = Start(f, j) /\ b = Start(f, k) /\ l = Len(F[j])
      BY <1>3
    <3>2. a + l <= b /\ q = p + a /\ Len(in) = p + b
      BY <1>4, <2>1, <3>1, Zenon
    <3>3. (p + a) + l <= p + b
      BY <3>2
    <3> QED
      BY <3>1, <3>2, <3>3, Zenon
  <2>3. Holds(in, q, F[j])
    BY <1>4 DEF InPlace
  <2> QED
    BY <1>1, <1>3, <1>4, <2>2, <2>3, HoldsAppend
<1>6. CASE j = k
  <2>1. Holds(in \o F[k], Len(in), F[k])
    BY <1>1, HoldsNew
  <2> QED
    BY <1>6, <2>1
<1>7. CASE j > k
  <2>1. Start(f, k) + Len(F[k]) <= Start(f, j)
    BY <1>7, FieldPlaces
  <2>2. Len(in \o F[k]) = Len(in) + Len(F[k])
    BY <1>1
  <2>3. Len(in \o F[k]) \in Nat /\ Len(in \o F[k]) <= q
    <3>1. PICK a \in Nat, b \in Nat, l \in Nat, N \in Nat :
             a = Start(f, j) /\ b = Start(f, k) /\ l = Len(F[k]) /\ N = Len(in)
      BY <1>1, <1>3
    <3>2. b + l <= a /\ q = p + a /\ N = p + b
      BY <1>4, <2>1, <3>1
    <3>3. N + l \in Nat /\ N + l <= q
      BY <3>2
    <3> QED
      BY <2>2, <3>1, <3>3
  <2> QED
    BY <1>3, <1>4, <2>3, HoldsBeyond
<1> QED
    BY <1>3, <1>5, <1>6, <1>7

\* A frame of which nothing has arrived.
LEMMA PlacesBeyond ==
    ASSUME NEW f, WellFormed(f), NEW F, Laid(f, F), NEW in, Len(in) \in Nat, NEW p \in Nat, Len(in) <= p
    PROVE  InPlace(in, p, f, F)
<1>1. SUFFICES ASSUME NEW j \in 1..Len(F) PROVE Holds(in, p + Start(f, j), F[j])
    BY Zenon DEF InPlace
<1>2. PICK a \in Nat : a = Start(f, j) /\ Len(F[j]) \in Nat
    BY FieldPlaces
<1>3. PICK q \in Nat : q = p + Start(f, j) /\ Len(in) <= q
    BY <1>2
<1> QED
    BY <1>2, <1>3, HoldsBeyond

\* A frame that may have lost its end.
LEMMA PlacesPrefix ==
    ASSUME NEW f, WellFormed(f), NEW F, Laid(f, F), NEW in \in Seq(Bytes), NEW m \in 0..Len(in),
           NEW p \in Nat, InPlace(in, p, f, F)
    PROVE  InPlace(SubSeq(in, 1, m), p, f, F)
<1>1. SUFFICES ASSUME NEW j \in 1..Len(F) PROVE Holds(SubSeq(in, 1, m), p + Start(f, j), F[j])
    BY Zenon DEF InPlace
<1>2. PICK a \in Nat : a = Start(f, j) /\ Len(F[j]) \in Nat
    BY FieldPlaces
<1>3. PICK q \in Nat : q = p + Start(f, j)
    BY <1>2
<1>4. Holds(in, q, F[j])
    BY <1>3 DEF InPlace
<1> QED
    BY <1>2, <1>3, <1>4, HoldsPrefix

\* A frame behind one that is read.
LEMMA PlacesDrop ==
    ASSUME NEW f, WellFormed(f), NEW F, Laid(f, F), NEW in \in Seq(Bytes), NEW q \in Nat,
           q <= Len(in), NEW p \in Nat, q <= p, InPlace(in, p, f, F)
    PROVE  InPlace(SubSeq(in, q + 1, Len(in)), p - q, f, F)
<1>1. PICK c : c = SubSeq(in, q + 1, Len(in))
    OBVIOUS
<1>2. SUFFICES ASSUME NEW j \in 1..Len(F) PROVE Holds(c, (p - q) + Start(f, j), F[j])
    BY <1>1, Zenon DEF InPlace
<1>3. PICK a \in Nat : a = Start(f, j) /\ Len(F[j]) \in Nat
    BY FieldPlaces
<1>4. PICK r \in Nat : r = p + Start(f, j) /\ q <= r /\ r - q = (p - q) + Start(f, j)
  <2>1. p + a \in Nat /\ q <= p + a /\ (p + a) - q = (p - q) + a
    OBVIOUS
  <2> QED
    BY <1>3, <2>1, Zenon
<1>5. Holds(in, r, F[j])
    BY <1>4 DEF InPlace
<1>6. Holds(SubSeq(in, q + 1, Len(in)), r - q, F[j])
    BY <1>3, <1>4, <1>5, HoldsDrop
<1> QED
    BY <1>1, <1>4, <1>6

--------------------------------------------------------------------------------
\* The stream of bytes that the frames of a sequence b make up.

\* A text of the headers of f itself.
Spells(f, t) == HasHeaders(f) => t \in writeHeaderValueBlock(f.headers)

\* Frame j of b, with the bytes and the header blocks that are before it and the
\* text of its header block, and those before the next frame.
Linked(b, at, num, text, j) ==
    /\ ~Refused(b[j]) /\ at[j + 1] = at[j] + Size(b[j])
    /\ num[j + 1] = IF HasHeaders(b[j]) THEN num[j] + 1 ELSE num[j]
    /\ Spells(b[j], text[j])

\* All frames of b, and the end behind them.
Chain(b, at, num, text) ==
    /\ at \in [1..(Len(b) + 1) -> Nat] /\ num \in [1..(Len(b) + 1) -> Nat]
    /\ \A j \in 1..Len(b) : Linked(b, at, num, text, j)
    /\ \A i, j \in 1..(Len(b) + 1) : i <= j => at[i] <= at[j] /\ num[i] <= num[j]
    /\ \A j \in 1..(Len(b) + 1) : num[j] < j

\* The fields of frame j.
Code(b, num, text, j) == Enc(b[j], text[j], num[j])

\* The bytes w are those of the frames behind the first r, as far as they go.
OnWire(w, b, r, at, num, text) ==
    /\ w \in Seq(Bytes) /\ Len(w) <= at[Len(b) + 1] - at[r + 1]
    /\ \A j \in (r + 1)..Len(b) : InPlace(w, at[j] - at[r + 1], b[j], Code(b, num, text, j))

\* A frame of the stream.
LEMMA Link ==
    ASSUME NEW b \in Seq(Frames), NEW at, NEW num, NEW text, Chain(b, at, num, text),
           NEW j \in 1..Len(b)
    PROVE  /\ b[j] \in Frames /\ WellFormed(b[j]) /\ ~Refused(b[j])
           /\ TextOf(b[j], text[j]) /\ num[j] \in Nat
           /\ Laid(b[j], Code(b, num, text, j)) /\ Size(b[j]) \in Nat /\ Size(b[j]) >= 8
           /\ at[j] \in Nat /\ at[j + 1] \in Nat /\ at[j + 1] = at[j] + Size(b[j])
<1>1. b[j] \in Frames /\ Len(b) \in Nat /\ j \in 1..(Len(b) + 1) /\ j + 1 \in 1..(Len(b) + 1)
    OBVIOUS
<1>2. WellFormed(b[j])
    BY <1>1, FramerAssumption
<1>3. at[j] \in Nat /\ at[j + 1] \in Nat /\ num[j] \in Nat
    BY <1>1 DEF Chain
<1>4. /\ ~Refused(b[j]) /\ at[j + 1] = at[j] + Size(b[j])
      /\ HasHeaders(b[j]) => text[j] \in writeHeaderValueBlock(b[j].headers)
    BY DEF Chain, Linked, Spells
<1>5. TextOf(b[j], text[j])
    BY <1>1, <1>4, Zenon DEF TextOf, Texts
<1>6. Laid(b[j], Code(b, num, text, j))
    BY <1>2, <1>3, <1>5, AllLaid DEF Code
<1>7. Size(b[j]) \in Nat /\ Size(b[j]) >= 8
    BY <1>2, Starts
<1> QED
    BY <1>1, <1>2, <1>3, <1>4, <1>5, <1>6, <1>7

\* Where it is, seen from behind the first r frames.
LEMMA Offset ==
    ASSUME NEW b \in Seq(Frames), NEW at, NEW num, NEW text, Chain(b, at, num, text),
           NEW r \in 0..Len(b), NEW j \in (r + 1)..(Len(b) + 1)
    PROVE  at[r + 1] \in Nat /\ at[j] \in Nat /\ at[j] - at[r + 1] \in Nat /\ at[j] <= at[Len(b) + 1]
           /\ at[Len(b) + 1] \in Nat
<1>1. /\ Len(b) \in Nat /\ r + 1 \in 1..(Len(b) + 1) /\ j \in 1..(Len(b) + 1) /\ r + 1 <= j
      /\ j <= Len(b) + 1 /\ Len(b) + 1 \in 1..(Len(b) + 1)
    OBVIOUS
<1>2. at[r + 1] \in Nat /\ at[j] \in Nat /\ at[Len(b) + 1] \in Nat
    BY <1>1 DEF Chain
<1>3. at[r + 1] <= at[j] /\ at[j] <= at[Len(b) + 1]
    BY <1>1 DEF Chain
<1> QED
    BY <1>2, <1>3

\* The first N frames are described alike.
Agree(N, at, num, text, at2, num2, text2) ==
    /\ \A j \in 1..(N + 1) : at2[j] = at[j] /\ num2[j] = num[j]
    /\ \A j \in 1..N : text2[j] = text[j]

\* A frame is added.
LEMMA Extend ==
    ASSUME NEW b \in Seq(Frames), NEW at, NEW num, NEW text, Chain(b, at, num, text),
           NEW f \in Frames, ~Refused(f), NEW t, Spells(f, t)
    PROVE  \E at2, num2, text2 :
              /\ Chain(Append(b, f), at2, num2, text2)
              /\ Agree(Len(b), at, num, text, at2, num2, text2)
              /\ text2[Len(b) + 1] = t
<1>1. PICK N \in Nat : N = Len(b)
    OBVIOUS
<1>2. PICK c : c = Append(b, f)
    OBVIOUS
<1>3. c = Append(b, f) /\ Len(c) = N + 1 /\ c[N + 1] = f /\ \A j \in 1..N : c[j] = b[j]
    BY <1>2, <1>1
<1>4. PICK z \in Nat : z = Size(f)
    BY FramerAssumption, Starts
<1>5. /\ \A j \in 1..(N + 1) : at[j] \in Nat /\ num[j] \in Nat /\ num[j] < j
      /\ \A i, j \in 1..(N + 1) : i <= j => at[i] <= at[j] /\ num[i] <= num[j]
    BY <1>1 DEF Chain
<1>6. PICK x \in Nat, y \in Nat : x = at[N + 1] /\ y = num[N + 1] /\ y < N + 1
  <2>1. N + 1 \in 1..(N + 1)
    OBVIOUS
  <2> QED
    BY <1>5, <2>1, Zenon
<1>7. PICK e \in Nat : e = x + z /\ x <= e
    OBVIOUS
<1>8. PICK m \in Nat : m = (IF HasHeaders(f) THEN y + 1 ELSE y) /\ y <= m /\ m < N + 2
    BY <1>6
<1>9. /\ e = at[N + 1] + z /\ at[N + 1] <= e
      /\ m = (IF HasHeaders(f) THEN num[N + 1] + 1 ELSE num[N + 1]) /\ num[N + 1] <= m /\ m < N + 2
    BY <1>6, <1>7, <1>8, Zenon
<1>10. PICK at2 : at2 = [j \in 1..(N + 2) |-> IF j = N + 2 THEN e ELSE at[j]]
    OBVIOUS
<1>11. PICK num2 : num2 = [j \in 1..(N + 2) |-> IF j = N + 2 THEN m ELSE num[j]]
    OBVIOUS
<1>12. PICK text2 : text2 = [j \in 1..(N + 1) |-> IF j = N + 1 THEN t ELSE text[j]]
    OBVIOUS
<1>13. at2[N + 2] = e /\ num2[N + 2] = m /\ \A j \in 1..(N + 1) : at2[j] = at[j] /\ num2[j] = num[j]
    BY <1>10, <1>11
<1>14. text2[N + 1] = t /\ \A j \in 1..N : text2[j] = text[j]
    BY <1>12
<1>15. at2 \in [1..(N + 2) -> Nat] /\ num2 \in [1..(N + 2) -> Nat]
    BY <1>5, <1>9, <1>10, <1>11
<1>16. ASSUME NEW j \in 1..(N + 1) PROVE Linked(c, at2, num2, text2, j)
  <2>1. CASE j = N + 1
    <3>1. j + 1 = N + 2 /\ at2[j] = at[N + 1] /\ num2[j] = num[N + 1]
      BY <1>13, <2>1
    <3>2. at2[j + 1] = e /\ num2[j + 1] = m /\ c[j] = f /\ text2[j] = t
      BY <1>3, <1>13, <1>14, <2>1, <3>1
    <3> QED
      BY <1>4, <1>9, <3>1, <3>2, Zenon DEF Linked
  <2>2. CASE j # N + 1
    <3>1. j \in 1..N /\ j + 1 \in 1..(N + 1) /\ j \in 1..(N + 1)
      BY <2>2
    <3>2. Linked(b, at, num, text, j)
      BY <1>1, <3>1 DEF Chain
    <3>3. at2[j] = at[j] /\ num2[j] = num[j] /\ at2[j + 1] = at[j + 1] /\ num2[j + 1] = num[j + 1]
          /\ c[j] = b[j] /\ text2[j] = text[j]
      BY <1>3, <1>13, <1>14, <3>1, Zenon
    <3> QED
      BY <3>2, <3>3, Zenon DEF Linked
  <2> QED
    BY <2>1, <2>2
<1>17. ASSUME NEW i \in 1..(N + 2), NEW j \in 1..(N + 2), i <= j
       PROVE  at2[i] <= at2[j] /\ num2[i] <= num2[j]
  <2>1. CASE i = N + 2
    <3>1. j = N + 2
      BY <1>17, <2>1
    <3> QED
      BY <1>13, <2>1, <3>1
  <2>2. CASE i # N + 2 /\ j # N + 2
    <3>1. i \in 1..(N + 1) /\ j \in 1..(N + 1)
      BY <2>2
    <3>2. at[i] <= at[j] /\ num[i] <= num[j]
      BY <1>5, <1>17, <3>1
    <3> QED
      BY <1>13, <3>1, <3>2
  <2>3. CASE i # N + 2 /\ j = N + 2
    <3>1. i \in 1..(N + 1) /\ N + 1 \in 1..(N + 1) /\ i <= N + 1
      BY <2>3
    <3>2. at[i] <= at[N + 1] /\ num[i] <= num[N + 1]
      BY <1>5, <3>1
    <3>3. at[i] <= e /\ num[i] <= m
      <4>1. PICK u \in Nat, v \in Nat : u = at[i] /\ v = num[i]
        BY <1>5, <3>1, Zenon
      <4>2. u <= x /\ v <= y
        BY <1>6, <3>2, <4>1, Zenon
      <4>3. u <= e /\ v <= m
        BY <1>7, <1>8, <4>2
      <4> QED
        BY <4>1, <4>3, Zenon
    <3> QED
      BY <1>13, <2>3, <3>1, <3>3
  <2> QED
    BY <2>1, <2>2, <2>3
<1>18. \A j \in 1..(N + 2) : num2[j] < j
  <2>1. \A j \in 1..(N + 2) : j = N + 2 \/ j \in 1..(N + 1)
    OBVIOUS
  <2> QED
    BY <1>5, <1>9, <1>13, <2>1, Zenon
<1>19. Chain(c, at2, num2, text2)
  <2>1. Len(c) = N + 1 /\ Len(c) + 1 = N + 2
    BY <1>3
  <2> QED
    BY <1>15, <1>16, <1>17, <1>18, <2>1, Zenon DEF Chain
<1> QED
    BY <1>1, <1>3, <1>13, <1>14, <1>19, Zenon DEF Agree

--------------------------------------------------------------------------------
\* The bytes under way, as frames are begun, written and read.

\* A frame is begun: none of its bytes is under way.
LEMMA WireBegin ==
    ASSUME NEW b \in Seq(Frames), NEW at, NEW num, NEW text, Chain(b, at, num, text),
           NEW r \in 0..Len(b), NEW w, OnWire(w, b, r, at, num, text),
           NEW f \in Frames, NEW at2, NEW num2, NEW text2,
           Chain(Append(b, f), at2, num2, text2), Agree(Len(b), at, num, text, at2, num2, text2)
    PROVE  OnWire(w, Append(b, f), r, at2, num2, text2)
<1>1. PICK N \in Nat : N = Len(b)
    OBVIOUS
<1>2. PICK c : c = Append(b, f)
    OBVIOUS
<1>3. c \in Seq(Frames) /\ Len(c) = N + 1 /\ c[N + 1] = f /\ \A j \in 1..N : c[j] = b[j]
    BY <1>1, <1>2
<1>4. w \in Seq(Bytes) /\ Len(w) \in Nat /\ Len(w) <= at[N + 1] - at[r + 1]
    BY <1>1 DEF OnWire
<1>5. r \in 0..N /\ r + 1 \in 1..(N + 1) /\ N + 1 \in 1..(N + 1)
    BY <1>1
<1>6. at2[r + 1] = at[r + 1] /\ at2[N + 1] = at[N + 1]
    BY <1>1, <1>5, Zenon DEF Agree
<1>7. Chain(c, at2, num2, text2)
    BY <1>2
<1>8. Len(w) <= at2[Len(c) + 1] - at2[r + 1]
  <2>1. r \in 0..Len(c) /\ N + 1 \in (r + 1)..(Len(c) + 1)
    BY <1>3, <1>5
  <2>2. at2[r + 1] \in Nat /\ at2[N + 1] \in Nat /\ at2[N + 1] <= at2[Len(c) + 1] /\ at2[Len(c) + 1] \in Nat
    BY <1>3, <1>7, <2>1, Offset
  <2> QED
    BY <1>4, <1>6, <2>2
<1>9. ASSUME NEW j \in (r + 1)..Len(c)
      PROVE  InPlace(w, at2[j] - at2[r + 1], c[j], Code(c, num2, text2, j))
  <2>1. CASE j = N + 1
    <3>1. r \in 0..Len(c) /\ j \in (r + 1)..(Len(c) + 1) /\ j \in 1..Len(c)
      BY <1>3, <1>5
    <3>2. PICK p \in Nat : p = at2[j] - at2[r + 1] /\ Len(w) <= p
      <4>1. at2[j] - at2[r + 1] \in Nat
        BY <1>3, <1>7, <3>1, Offset
      <4> QED
        BY <1>4, <1>6, <2>1, <4>1
    <3>3. WellFormed(c[j]) /\ Laid(c[j], Code(c, num2, text2, j))
      BY <1>3, <1>7, <3>1, Link
    <3> QED
      BY <1>4, <3>2, <3>3, PlacesBeyond
  <2>2. CASE j # N + 1
    <3>1. j \in (r + 1)..Len(b) /\ j \in 1..N /\ j \in 1..(N + 1)
      BY <1>1, <1>3, <1>5, <2>2
    <3>2. InPlace(w, at[j] - at[r + 1], b[j], Code(b, num, text, j))
      BY <3>1 DEF OnWire
    <3>3. at2[j] = at[j] /\ num2[j] = num[j] /\ text2[j] = text[j] /\ c[j] = b[j]
      BY <1>1, <1>3, <3>1, Zenon DEF Agree
    <3> QED
      BY <1>6, <3>2, <3>3, Zenon DEF Code
  <2> QED
    BY <2>1, <2>2
<1>10. OnWire(w, c, r, at2, num2, text2)
    BY <1>4, <1>8, <1>9, Zenon DEF OnWire
<1> QED
    BY <1>2, <1>10

\* A field of the last frame is written.
LEMMA WireField ==
    ASSUME NEW b \in Seq(Frames), NEW at, NEW num, NEW text, Chain(b, at, num, text),
           NEW r \in 0..Len(b), r < Len(b), NEW w, OnWire(w, b, r, at, num, text),
           NEW k \in 1..Len(Code(b, num, text, Len(b))),
           Len(w) = at[Len(b)] - at[r + 1] + Start(b[Len(b)], k)
    PROVE  /\ OnWire(w \o Code(b, num, text, Len(b))[k], b, r, at, num, text)
           /\ Len(w \o Code(b, num, text, Len(b))[k]) = at[Len(b)] - at[r + 1] + Start(b[Len(b)], k + 1)
<1>1. PICK N \in Nat : N = Len(b) /\ r < N
    OBVIOUS
<1>2. N \in 1..Len(b) /\ N \in (r + 1)..(Len(b) + 1) /\ N + 1 \in (r + 1)..(Len(b) + 1)
    BY <1>1
<1>3. PICK f : f = b[N]
    OBVIOUS
<1>4. PICK F : F = Code(b, num, text, N)
    OBVIOUS
<1>5. /\ WellFormed(f) /\ Laid(f, F) /\ Size(f) \in Nat /\ at[N] \in Nat /\ at[N + 1] \in Nat
      /\ at[N + 1] = at[N] + Size(f)
    BY <1>2, <1>3, <1>4, Link
<1>6. k \in 1..Len(F)
    BY <1>1, <1>4
<1>7. /\ F[k] \in Seq(Bytes) /\ Len(F[k]) \in Nat /\ Start(f, k) \in Nat
      /\ Start(f, k) + Len(F[k]) <= Size(f)
    BY <1>5, <1>6, FieldPlaces
<1>8. Start(f, k + 1) = Start(f, k) + Len(F[k])
    BY <1>5, <1>6, Zenon DEF Laid
<1>9. PICK p \in Nat : p = at[N] - at[r + 1] /\ at[r + 1] \in Nat
    BY <1>1, <1>2, Offset
<1>10. w \in Seq(Bytes) /\ Len(w) = p + Start(f, k)
    BY <1>1, <1>3, <1>9 DEF OnWire
<1>11. PICK u : u = w \o F[k]
    OBVIOUS
<1>12. u \in Seq(Bytes) /\ Len(u) = p + Start(f, k + 1)
  <2>1. u \in Seq(Bytes) /\ Len(u) = Len(w) + Len(F[k])
    BY ONLY <1>7, <1>10, <1>11, Join
  <2>2. PICK s \in Nat, l \in Nat : s = Start(f, k) /\ l = Len(F[k])
    BY <1>7
  <2>3. (p + s) + l = p + (s + l)
    OBVIOUS
  <2> QED
    BY <1>8, <1>10, <2>1, <2>2, <2>3, Zenon
<1>13. Len(u) <= at[Len(b) + 1] - at[r + 1]
  <2>1. PICK x \in Nat, y \in Nat, z \in Nat, s \in Nat, l \in Nat :
           x = at[N] /\ y = at[r + 1] /\ z = Size(f) /\ s = Start(f, k) /\ l = Len(F[k])
    BY <1>5, <1>7, <1>9
  <2>2. Len(u) = p + (s + l) /\ p = x - y /\ s + l <= z /\ at[Len(b) + 1] = x + z
    BY <1>1, <1>5, <1>7, <1>8, <1>9, <1>12, <2>1
  <2>3. p + (s + l) <= (x + z) - y
    BY <2>2
  <2> QED
    BY <2>1, <2>2, <2>3, Zenon
<1>14. ASSUME NEW j \in (r + 1)..Len(b)
       PROVE  InPlace(u, at[j] - at[r + 1], b[j], Code(b, num, text, j))
  <2>1. InPlace(w, at[j] - at[r + 1], b[j], Code(b, num, text, j))
    BY DEF OnWire
  <2>2. CASE j = N
    <3>1. InPlace(w, p, f, F)
      BY <1>3, <1>4, <1>9, <2>1, <2>2
    <3>2. InPlace(w \o F[k], p, f, F)
      BY <1>5, <1>6, <1>10, <3>1, PlacesField
    <3> QED
      BY <1>3, <1>4, <1>9, <1>11, <2>2, <3>2
  <2>3. CASE j # N
    <3>1. j \in 1..Len(b) /\ j + 1 \in 1..(Len(b) + 1) /\ j + 1 <= N /\ j \in (r + 1)..(Len(b) + 1)
          /\ N \in 1..(Len(b) + 1)
      BY <1>1, <2>3
    <3>2. /\ WellFormed(b[j]) /\ Laid(b[j], Code(b, num, text, j)) /\ Size(b[j]) \in Nat
          /\ at[j] \in Nat /\ at[j + 1] = at[j] + Size(b[j])
      BY <3>1, Link
    <3>3. at[j + 1] <= at[N]
      BY <3>1 DEF Chain
    <3>4. PICK q \in Nat : q = at[j] - at[r + 1]
      BY <3>1, Offset
    <3>5. q + Size(b[j]) <= Len(w)
      <4>1. PICK x \in Nat, y \in Nat, v \in Nat, z \in Nat, s \in Nat :
               x = at[N] /\ y = at[r + 1] /\ v = at[j] /\ z = Size(b[j]) /\ s = Start(f, k)
        BY <1>5, <1>7, <1>9, <3>2
      <4>2. q = v - y /\ p = x - y /\ v + z <= x /\ Len(w) = p + s
        BY <1>9, <1>10, <3>2, <3>3, <3>4, <4>1
      <4>3. q + z <= p + s
        BY <4>2
      <4> QED
        BY <4>1, <4>2, <4>3
    <3>6. InPlace(w \o F[k], q, b[j], Code(b, num, text, j))
      BY <1>7, <1>10, <2>1, <3>2, <3>4, <3>5, PlacesAppend
    <3> QED
      BY <1>11, <3>4, <3>6
  <2> QED
    BY <2>2, <2>3
<1>15. OnWire(u, b, r, at, num, text)
    BY <1>12, <1>13, <1>14, Zenon DEF OnWire
<1> QED
    BY <1>1, <1>3, <1>4, <1>9, <1>11, <1>12, <1>15

\* The connection fails and loses the last bytes.
LEMMA WireLost ==
    ASSUME NEW b \in Seq(Frames), NEW at, NEW num, NEW text, Chain(b, at, num, text),
           NEW r \in 0..Len(b), NEW w, OnWire(w, b, r, at, num, text), NEW m \in 0..Len(w)
    PROVE  OnWire(SubSeq(w, 1, m), b, r, at, num, text)
<1>1. w \in Seq(Bytes) /\ Len(w) <= at[Len(b) + 1] - at[r + 1]
    BY DEF OnWire
<1>2. PICK u : u = SubSeq(w, 1, m)
    OBVIOUS
<1>3. u \in Seq(Bytes) /\ Len(u) = m /\ m <= Len(w)
    BY <1>1, <1>2
<1>4. ASSUME NEW j \in (r + 1)..Len(b)
      PROVE  InPlace(u, at[j] - at[r + 1], b[j], Code(b, num, text, j))
  <2>1. InPlace(w, at[j] - at[r + 1], b[j], Code(b, num, text, j))
    BY DEF OnWire
  <2>2. j \in 1..Len(b) /\ j \in (r + 1)..(Len(b) + 1)
    OBVIOUS
  <2>3. WellFormed(b[j]) /\ Laid(b[j], Code(b, num, text, j))
    BY <2>2, Link
  <2>4. PICK q \in Nat : q = at[j] - at[r + 1]
    BY <2>2, Offset
  <2>5. InPlace(SubSeq(w, 1, m), q, b[j], Code(b, num, text, j))
    BY <1>1, <2>1, <2>3, <2>4, PlacesPrefix
  <2> QED
    BY <1>2, <2>4, <2>5
<1>5. Len(u) <= at[Len(b) + 1] - at[r + 1]
  <2>1. r + 1 \in (r + 1)..(Len(b) + 1)
    OBVIOUS
  <2>2. at[r + 1] \in Nat /\ at[Len(b) + 1] \in Nat
    BY <2>1, Offset
  <2> QED
    BY <1>1, <1>3, <2>2
<1>6. OnWire(u, b, r, at, num, text)
    BY <1>3, <1>4, <1>5, Zenon DEF OnWire
<1> QED
    BY <1>2, <1>6

\* The first frame can be read.
LEMMA WireRead ==
    ASSUME NEW b \in Seq(Frames), NEW at, NEW num, NEW text, Chain(b, at, num, text),
           NEW r \in 0..Len(b), r < Len(b), NEW w, OnWire(w, b, r, at, num, text)
    PROVE  Read(b[r + 1], text[r + 1], num[r + 1], w)
<1>1. w \in Seq(Bytes) /\ Len(w) <= at[Len(b) + 1] - at[r + 1]
    BY DEF OnWire
<1>2. r \in Nat /\ Len(b) \in Nat /\ r + 1 \in 1..Len(b) /\ r + 1 \in (r + 1)..Len(b) /\ r + 1 \in 0..Len(b)
    OBVIOUS
<1>3. PICK f : f = b[r + 1]
    OBVIOUS
<1>4. PICK F : F = Code(b, num, text, r + 1)
    OBVIOUS
<1>5. /\ WellFormed(f) /\ ~Refused(f) /\ TextOf(f, text[r + 1]) /\ num[r + 1] \in Nat
      /\ Size(f) \in Nat /\ at[r + 1] \in Nat /\ at[(r + 1) + 1] = at[r + 1] + Size(f)
    BY <1>2, <1>3, Link
<1>6. Read(f, text[r + 1], num[r + 1], w)
  <2>1. InPlace(w, at[r + 1] - at[r + 1], f, F)
    BY <1>2, <1>3, <1>4, Zenon DEF OnWire
  <2>2. InPlace(w, 0, f, F)
    BY <1>5, <2>1
  <2>3. F = Enc(f, text[r + 1], num[r + 1])
    BY <1>3, <1>4, Zenon DEF Code
  <2> QED
    BY <1>1, <1>5, <2>2, <2>3, AllRead
<1> QED
    BY <1>3, <1>6

\* The first frame is read.
LEMMA WireNext ==
    ASSUME NEW b \in Seq(Frames), NEW at, NEW num, NEW text, Chain(b, at, num, text),
           NEW r \in 0..Len(b), r < Len(b), NEW w, OnWire(w, b, r, at, num, text),
           NEW q \in Nat, q = Size(b[r + 1]), q <= Len(w)
    PROVE  /\ OnWire(SubSeq(w, q + 1, Len(w)), b, r + 1, at, num, text)
           /\ Len(SubSeq(w, q + 1, Len(w))) = Len(w) - q
<1>1. w \in Seq(Bytes) /\ Len(w) <= at[Len(b) + 1] - at[r + 1]
    BY DEF OnWire
<1>2. r \in Nat /\ Len(b) \in Nat /\ r + 1 \in 1..Len(b) /\ r + 1 \in 0..Len(b)
    OBVIOUS
<1>3. q \in Nat /\ at[r + 1] \in Nat /\ at[(r + 1) + 1] = at[r + 1] + q
    BY <1>2, Link
<1>4. PICK u : u = SubSeq(w, q + 1, Len(w))
    OBVIOUS
<1>5. u \in Seq(Bytes) /\ Len(u) = Len(w) - q
  <2>1. PICK l \in Nat : l = Len(w) /\ q <= l
    BY <1>1
  <2>2. w \in Seq(Bytes) /\ u = SubSeq(w, q + 1, l)
    BY <1>1, <1>4, <2>1, Zenon
  <2>3. u \in Seq(Bytes) /\ Len(u) = l - q
    BY ONLY <2>1, <2>2, l \in Nat, q \in Nat
  <2> QED
    BY <2>1, <2>3, Zenon
<1>6. PICK x \in Nat, e \in Nat : x = at[r + 1] /\ e = at[Len(b) + 1] /\ at[(r + 1) + 1] = x + q
  <2>1. r + 1 \in (r + 1)..(Len(b) + 1)
    BY <1>2
  <2> QED
    BY <1>3, <2>1, Offset
<1>7. Len(u) <= at[Len(b) + 1] - at[(r + 1) + 1]
  <2>1. PICK l \in Nat : l = Len(w) /\ l <= e - x
    BY <1>1, <1>6
  <2>2. l - q <= e - (x + q)
    BY <1>3, <2>1
  <2> QED
    BY <1>5, <1>6, <2>1, <2>2
<1>8. ASSUME NEW j \in ((r + 1) + 1)..Len(b)
      PROVE  InPlace(u, at[j] - at[(r + 1) + 1], b[j], Code(b, num, text, j))
  <2>1. j \in (r + 1)..Len(b) /\ j \in 1..Len(b) /\ j \in ((r + 1) + 1)..(Len(b) + 1)
    BY <1>2
  <2>2. InPlace(w, at[j] - at[r + 1], b[j], Code(b, num, text, j))
    BY <2>1 DEF OnWire
  <2>3. WellFormed(b[j]) /\ Laid(b[j], Code(b, num, text, j))
    BY <2>1, Link
  <2>4. at[j] \in Nat /\ at[j] - at[(r + 1) + 1] \in Nat
    BY <1>2, <2>1, Offset
  <2>5. PICK p \in Nat : p = at[j] - at[r + 1] /\ q <= p /\ p - q = at[j] - at[(r + 1) + 1]
    <3>1. PICK v \in Nat, y \in Nat : v = at[j] /\ y = q /\ v - (x + y) \in Nat
      BY <1>6, <2>4
    <3>2. PICK d \in Nat : d = v - (x + y)
      BY <3>1
    <3>3. v - x \in Nat /\ y <= v - x /\ (v - x) - y = v - (x + y)
      BY ONLY <3>2, d \in Nat, v \in Nat, x \in Nat, y \in Nat
    <3> QED
      BY <1>6, <3>1, <3>3, Zenon
  <2>6. InPlace(SubSeq(w, q + 1, Len(w)), p - q, b[j], Code(b, num, text, j))
    BY <1>1, <1>3, <2>2, <2>3, <2>5, PlacesDrop
  <2> QED
    BY <1>4, <2>5, <2>6
<1>9. OnWire(u, b, r + 1, at, num, text)
    BY <1>5, <1>7, <1>8, Zenon DEF OnWire
<1> QED
    BY <1>4, <1>5, <1>9

\* All frames are read: nothing is left.
LEMMA WireEmpty ==
    ASSUME NEW b \in Seq(Frames), NEW at, NEW num, NEW text, Chain(b, at, num, text),
           NEW w, OnWire(w, b, Len(b), at, num, text), NEW n
    PROVE  w = <<>> /\ ReadFrame(w, n) = More
<1>1. Len(b) \in 0..Len(b) /\ Len(b) + 1 \in (Len(b) + 1)..(Len(b) + 1)
    OBVIOUS
<1>2. at[Len(b) + 1] \in Nat
    BY <1>1, Offset
<1>3. w \in Seq(Bytes) /\ Len(w) = 0
    BY <1>2 DEF OnWire
<1> QED
    BY <1>3, Few

--------------------------------------------------------------------------------
\* The invariant.

\* Variables that do not depend on the frames.  Only the goroutine with wmu has
\* fields to write.
Types ==
    /\ wmu \in Writers \cup {None}
    /\ out = [v \in Writers |-> out[v]] /\ \A v \in Writers : v # wmu => out[v] = <<>>
    /\ headerBuf \in Seq(Bytes) /\ \E k \in Nat : Len(headerBuf) = BlockLen * k
    /\ begun \in Seq(Frames) /\ Len(begun) <= MaxFrames
    /\ failed \in BOOLEAN /\ rerr \in BOOLEAN

\* What is under way are the bytes of the frames begun and not yet read, and both
\* ends have counted the header blocks.
Stream(at, num, text) ==
    /\ Chain(begun, at, num, text)
    /\ num[Len(begun) + 1] = blocks /\ num[Len(read) + 1] = unpacked
    /\ OnWire(wire, begun, Len(read), at, num, text)

\* The fields s are those of F from field k on.
Rest(s, F, k) ==
    s \in Seq(Seq(Bytes)) /\ Len(s) = Len(F) + 1 - k /\ \A i \in 1..Len(s) : s[i] = F[k - 1 + i]

\* No frame is being written: all bytes of all frames are sent.
Idle(at) == wmu = None /\ Len(wire) = at[Len(begun) + 1] - at[Len(read) + 1] /\ headerBuf = <<>>

\* The last frame is sent up to field k, and the others are left to its writer.
Busy(at, num, text) ==
    /\ wmu # None /\ Len(read) < Len(begun)
    /\ \E k \in 1..Len(Code(begun, num, text, Len(begun))) :
          /\ Rest(out[wmu], Code(begun, num, text, Len(begun)), k)
          /\ Len(wire) = at[Len(begun)] - at[Len(read) + 1] + Start(begun[Len(begun)], k)
    /\ headerBuf = IF HasHeaders(begun[Len(begun)]) THEN Deflate(text[Len(begun)], num[Len(begun)])
                                                    ELSE <<>>

\* What a frame may be read as.
Outcomes == Frames \cup {Decoded(f, t) : f \in Frames, t \in Texts}

\* What was read, and why an error was returned.
Received(text) ==
    /\ read \in Seq(Outcomes) /\ Len(read) <= Len(begun)
    /\ \A j \in 1..Len(read) : read[j] = Decoded(begun[j], text[j])
    /\ rerr /\ ~failed =>
          Len(read) < Len(begun) /\ Rejected(begun[Len(read) + 1], text[Len(read) + 1])

\* All of it, for some description of the frames.
Whole(at, num, text) ==
    /\ Stream(at, num, text) /\ Received(text)
    /\ ~failed => Idle(at) \/ Busy(at, num, text)

Inv == Types /\ \E at, num, text : Whole(at, num, text)

\* A frame without headers does not depend on the header buffer.
LEMMA Plain ==
    ASSUME NEW f, WellFormed(f), ~HasHeaders(f), NEW x, NEW y
    PROVE  Fields(f, x) = Fields(f, y)
    BY Lengths DEF Fields, HasHeaders, FrameTypes

\* A frame is read as one of its type.
LEMMA DecodedType ==
    ASSUME NEW f \in Frames, NEW t, TextOf(f, t)
    PROVE  Decoded(f, t) \in Outcomes /\ (HasHeaders(Decoded(f, t)) <=> HasHeaders(f))
<1>1. CASE HasHeaders(f)
  <2>1. t \in Texts
    BY <1>1 DEF TextOf
  <2>2. Decoded(f, t) \in Outcomes
    BY <2>1 DEF Outcomes
  <2>3. Decoded(f, t).type = f.type
    <3>1. WellFormed(f)
      BY FramerAssumption
    <3>2. PICK h : h = parseHeaderValueBlock(t).headers
      OBVIOUS
    <3>3. Decoded(f, t) = [f EXCEPT !.headers = h]
      BY <1>1, <3>2 DEF Decoded
    <3>4. [f EXCEPT !.headers = h].type = f.type
      BY <1>1, <3>1 DEF WellFormed, HasHeaders, SynStream, SynReply, Headers
    <3> QED
      BY <3>3, <3>4
  <2> QED
    BY <2>2, <2>3, Zenon DEF HasHeaders
<1>2. CASE ~HasHeaders(f)
  <2>1. Decoded(f, t) = f
    BY <1>2, Zenon DEF Decoded
  <2>2. f \in Outcomes
    BY DEF Outcomes
  <2> QED
    BY <2>1, <2>2
<1> QED
    BY <1>1, <1>2

\* Nothing before a sequence.
LEMMA Bare ==
    ASSUME NEW S, NEW s \in Seq(S)
    PROVE  <<>> \o s = s
    OBVIOUS

\* NewFramer.
LEMMA InitInv ==
    ASSUME Init
    PROVE  Inv
<1>1. Types
  <2>1. /\ Len(<<>>) = 0 /\ 0 = BlockLen * 0 /\ 0 \in Nat /\ 0 <= MaxFrames
        /\ <<>> \in Seq(Frames) /\ <<>> \in Seq(Bytes)
    BY CodecAssumption, FramerAssumption
  <2>2. out = [v \in Writers |-> out[v]] /\ \A v \in Writers : out[v] = <<>>
    BY DEF Init
  <2> QED
    BY <2>1, <2>2, Zenon DEF Init, Types
<1>2. PICK z : z = [j \in 1..1 |-> 0]
    OBVIOUS
<1>3. z \in [1..1 -> Nat] /\ z[1] = 0
    BY <1>2
<1>4. begun = <<>> /\ read = <<>> /\ wire = <<>> /\ Len(begun) = 0 /\ Len(read) = 0 /\ Len(wire) = 0
    BY DEF Init
<1>5. Chain(begun, z, z, z)
  <2>1. Len(begun) + 1 = 1 /\ 1..Len(begun) = {} /\ 0 <= 0 /\ \A j \in 1..1 : j = 1 /\ 0 < j
    BY <1>4
  <2> QED
    BY <1>3, <2>1, Zenon DEF Chain
<1>6. OnWire(wire, begun, Len(read), z, z, z)
    BY <1>3, <1>4 DEF OnWire
<1>7. Stream(z, z, z)
    BY <1>3, <1>4, <1>5, <1>6 DEF Stream, Init
<1>8. Received(z)
    BY <1>4 DEF Received, Init
<1>9. Idle(z)
    BY <1>3, <1>4 DEF Idle, Init
<1> QED
    BY <1>1, <1>7, <1>8, <1>9, Zenon DEF Inv, Whole

--------------------------------------------------------------------------------
\* The steps.

\* The frame that is begun, with the text of its headers.
Begins(w, f, t) ==
    /\ Len(begun) < MaxFrames /\ wmu = None /\ wmu' = w /\ f \in Frames /\ ~Refused(f)
    /\ begun' = Append(begun, f)
    /\ HasHeaders(f) =>
          /\ t \in writeHeaderValueBlock(f.headers)
          /\ headerBuf' = headerBuf \o Deflate(t, blocks) /\ blocks' = blocks + 1
    /\ ~HasHeaders(f) => headerBuf' = headerBuf /\ blocks' = blocks
    /\ out' = [out EXCEPT ![w] = Fields(f, headerBuf')]
    /\ UNCHANGED <<wire, failed, unpacked, read, rerr>>

\* WriteFrame begins a frame.
LEMMA BeginsFrame ==
    ASSUME NEW w \in Writers, WriteFrame(w)
    PROVE  \E f, t : Begins(w, f, t)
<1>1. PICK f \in Frames :
          /\ ~Refused(f)
          /\ begun' = Append(begun, f)
          /\ \/ /\ HasHeaders(f)
                /\ \E text \in writeHeaderValueBlock(f.headers) :
                      headerBuf' = headerBuf \o Deflate(text, blocks)
                /\ blocks' = blocks + 1
             \/ /\ ~HasHeaders(f)
                /\ UNCHANGED <<headerBuf, blocks>>
          /\ out' = [out EXCEPT ![w] = Fields(f, headerBuf')]
    BY Zenon DEF WriteFrame
<1>2. Len(begun) < MaxFrames /\ wmu = None /\ wmu' = w /\ UNCHANGED <<wire, failed, unpacked, read, rerr>>
    BY Zenon DEF WriteFrame, Lock
<1>3. CASE HasHeaders(f)
  <2>1. PICK t \in writeHeaderValueBlock(f.headers) : headerBuf' = headerBuf \o Deflate(t, blocks)
    BY <1>1, <1>3, Zenon
  <2>2. Begins(w, f, t)
    BY <1>1, <1>2, <1>3, <2>1, Zenon DEF Begins
  <2> QED
    BY <2>2
<1>4. CASE ~HasHeaders(f)
  <2>1. headerBuf' = headerBuf /\ blocks' = blocks
    BY <1>1, <1>4
  <2>2. Begins(w, f, <<>>)
    BY <1>1, <1>2, <1>4, <2>1, Zenon DEF Begins
  <2> QED
    BY <2>2
<1> QED
    BY <1>3, <1>4

\* WriteFrame, up to the first write.
LEMMA WriteFrameInv ==
    ASSUME Inv, NEW w \in Writers, WriteFrame(w)
    PROVE  Inv'
<1>1. PICK f, t : Begins(w, f, t)
    BY BeginsFrame
<1>2. PICK at, num, text : Whole(at, num, text)
    BY Zenon DEF Inv
<1>3. Types
    BY DEF Inv
<1>4. PICK N \in Nat, R \in Nat : N = Len(begun) /\ R = Len(read) /\ R <= N
  <2>1. read \in Seq(Outcomes) /\ Len(read) <= Len(begun) /\ begun \in Seq(Frames)
    BY <1>2, <1>3, Zenon DEF Whole, Received, Types
  <2> QED
    BY <2>1
<1>5. /\ begun \in Seq(Frames) /\ f \in Frames /\ WellFormed(f) /\ ~Refused(f) /\ begun' = Append(begun, f)
      /\ begun' \in Seq(Frames) /\ Len(begun') = N + 1 /\ begun'[N + 1] = f
      /\ \A j \in 1..N : begun'[j] = begun[j]
  <2>1. begun \in Seq(Frames) /\ f \in Frames /\ ~Refused(f) /\ begun' = Append(begun, f)
    BY <1>1, <1>3, Zenon DEF Begins, Types
  <2>2. WellFormed(f)
    BY <2>1, FramerAssumption
  <2> QED
    BY <1>4, <2>1, <2>2
<1>6. wmu = None /\ wmu' = w /\ w # None
    BY <1>1, FramerAssumption, Zenon DEF Begins
<1>7. wire' = wire /\ failed' = failed /\ unpacked' = unpacked /\ read' = read /\ rerr' = rerr
    BY <1>1 DEF Begins
<1>8. Spells(f, t)
    BY <1>1, Zenon DEF Begins, Spells
<1>9. TextOf(f, t)
    BY <1>5, <1>8, Zenon DEF TextOf, Texts, Spells
<1>10. Chain(begun, at, num, text) /\ num[N + 1] = blocks /\ num[R + 1] = unpacked
       /\ OnWire(wire, begun, R, at, num, text)
    BY <1>2, <1>4, Zenon DEF Whole, Stream
<1>11. blocks \in Nat
  <2>1. N + 1 \in 1..(Len(begun) + 1)
    BY <1>4
  <2>2. num[N + 1] \in Nat
    BY <1>10, <2>1 DEF Chain
  <2> QED
    BY <1>10, <2>2
<1>12. Types'
  <2>1. headerBuf \in Seq(Bytes)
    BY <1>3, Zenon DEF Types
  <2>2. PICK k \in Nat : Len(headerBuf) = BlockLen * k
    BY <1>3, Zenon DEF Types
  <2>3. headerBuf' \in Seq(Bytes) /\ \E m \in Nat : Len(headerBuf') = BlockLen * m
    <3>1. CASE HasHeaders(f)
      <4>1. t \in Texts
        BY <1>9, <3>1 DEF TextOf
      <4>2. PICK d : d = Deflate(t, blocks)
        OBVIOUS
      <4>3. d \in Seq(Bytes) /\ Len(d) = BlockLen /\ BlockLen \in Nat
        BY <1>11, <4>1, <4>2, Block
      <4>4. headerBuf' = headerBuf \o d
        BY <1>1, <3>1, <4>2, Zenon DEF Begins
      <4>5. headerBuf' \in Seq(Bytes) /\ Len(headerBuf') = Len(headerBuf) + Len(d)
        BY ONLY <2>1, <4>3, <4>4, Join
      <4>6. BlockLen * k + BlockLen = BlockLen * (k + 1) /\ k + 1 \in Nat
        BY <4>3
      <4> QED
        BY <2>2, <4>3, <4>5, <4>6, Zenon
    <3>2. CASE ~HasHeaders(f)
      <4>1. headerBuf' = headerBuf
        BY <1>1, <3>2, Zenon DEF Begins
      <4> QED
        BY <2>1, <2>2, <4>1, Zenon
    <3> QED
      BY <3>1, <3>2
  <2>4. out' = [v \in Writers |-> out'[v]] /\ \A v \in Writers : v # w => out'[v] = <<>>
    <3>1. out = [v \in Writers |-> out[v]] /\ \A v \in Writers : out[v] = <<>>
      BY <1>3, <1>6, FramerAssumption DEF Types
    <3>2. PICK s : out' = [out EXCEPT ![w] = s]
      BY <1>1, Zenon DEF Begins
    <3> QED
      BY <3>1, <3>2
  <2>5. N + 1 <= MaxFrames
    BY <1>1, <1>4, FramerAssumption DEF Begins
  <2> QED
    BY <1>3, <1>5, <1>6, <1>7, <2>3, <2>4, <2>5, Zenon DEF Types
<1>13. PICK at2, num2, text2 :
          /\ Chain(Append(begun, f), at2, num2, text2)
          /\ Agree(Len(begun), at, num, text, at2, num2, text2)
          /\ text2[Len(begun) + 1] = t
  <2>1. begun \in Seq(Frames) /\ f \in Frames /\ ~Refused(f) /\ Chain(begun, at, num, text)
    BY <1>5, <1>10
  <2>2. ASSUME NEW b, b \in Seq(Frames), Chain(b, at, num, text)
        PROVE  \E at2, num2, text2 :
                  /\ Chain(Append(b, f), at2, num2, text2)
                  /\ Agree(Len(b), at, num, text, at2, num2, text2)
                  /\ text2[Len(b) + 1] = t
    <3>1. f \in Frames /\ ~Refused(f) /\ Spells(f, t)
      BY <1>8, <2>1
    <3> QED
      BY ONLY <2>2, <3>1, Extend
  <2> QED
    BY <2>1, <2>2, Zenon
<1>14. /\ Chain(begun', at2, num2, text2) /\ Agree(N, at, num, text, at2, num2, text2)
       /\ text2[N + 1] = t
    BY <1>4, <1>5, <1>13, Zenon
<1>15. N + 1 \in 1..(N + 1) /\ R + 1 \in 1..(N + 1)
    BY <1>4
<1>16. /\ num2[N + 1] = blocks /\ num2[R + 1] = unpacked
       /\ at2[N + 1] = at[N + 1] /\ at2[R + 1] = at[R + 1]
    BY <1>10, <1>14, <1>15, Zenon DEF Agree
<1>17. Stream(at2, num2, text2)'
  <2>1. num2[(N + 1) + 1] = blocks'
    <3>1. Linked(begun', at2, num2, text2, N + 1)
      BY <1>5, <1>14, <1>15, Zenon DEF Chain
    <3> QED
      BY <1>1, <1>5, <1>16, <3>1, Zenon DEF Linked, Begins
  <2>2. OnWire(wire', begun', R, at2, num2, text2)
    <3>1. R \in 0..Len(begun)
      BY <1>4
    <3>2. OnWire(wire, Append(begun, f), R, at2, num2, text2)
      BY <1>4, <1>5, <1>10, <1>13, <1>14, <3>1, WireBegin
    <3> QED
      BY <1>5, <1>7, <3>2
  <2> QED
    BY <1>4, <1>5, <1>7, <1>14, <1>16, <2>1, <2>2, Zenon DEF Stream
<1>18. Received(text2)'
  <2>1. /\ read' \in Seq(Outcomes) /\ R <= N + 1
        /\ \A j \in 1..R : j \in 1..N
    BY <1>2, <1>4, <1>7 DEF Whole, Received
  <2>2. \A j \in 1..R : read'[j] = Decoded(begun'[j], text2[j])
    <3>1. \A j \in 1..R : read[j] = Decoded(begun[j], text[j])
      BY <1>2, <1>4, Zenon DEF Whole, Received
    <3> QED
      BY <1>5, <1>7, <1>14, <2>1, <3>1, Zenon DEF Agree
  <2>3. ASSUME rerr', ~failed' PROVE R < N + 1 /\ Rejected(begun'[R + 1], text2[R + 1])
    <3>1. R < N /\ Rejected(begun[R + 1], text[R + 1])
      BY <1>2, <1>4, <1>7, <2>3, Zenon DEF Whole, Received
    <3>2. R + 1 \in 1..N /\ R < N + 1
      BY <3>1
    <3> QED
      BY <1>5, <1>14, <3>1, <3>2, Zenon DEF Agree
  <2> QED
    BY <1>4, <1>5, <1>7, <2>1, <2>2, <2>3, Zenon DEF Received
<1>19. ASSUME ~failed' PROVE Busy(at2, num2, text2)'
  <2>1. Idle(at)
    BY <1>2, <1>6, <1>7, <1>19, Zenon DEF Whole, Busy
  <2>2. headerBuf = <<>> /\ Len(wire) = at[N + 1] - at[R + 1]
    BY <1>4, <2>1, Zenon DEF Idle
  <2>3. PICK F : F = Code(begun', num2, text2, N + 1)
    OBVIOUS
  <2>4. F = Enc(f, t, blocks)
    BY <1>5, <1>14, <1>16, <2>3, Zenon DEF Code
  <2>5. headerBuf' = IF HasHeaders(f) THEN Deflate(t, blocks) ELSE <<>>
    <3>1. CASE HasHeaders(f)
      <4>1. t \in Texts
        BY <1>9, <3>1 DEF TextOf
      <4>2. PICK d : d = Deflate(t, blocks)
        OBVIOUS
      <4>3. d \in Seq(Bytes)
        BY <1>11, <4>1, <4>2, Block
      <4>4. headerBuf' = <<>> \o d
        BY <1>1, <2>2, <3>1, <4>2, Zenon DEF Begins
      <4>5. <<>> \o d = d
        BY ONLY <4>3, Bare
      <4> QED
        BY <3>1, <4>2, <4>4, <4>5, Zenon
    <3>2. CASE ~HasHeaders(f)
      BY <1>1, <2>2, <3>2, Zenon DEF Begins
    <3> QED
      BY <3>1, <3>2
  <2>6. out'[w] = F
    <3>1. out = [v \in Writers |-> out[v]]
      BY <1>3, Zenon DEF Types
    <3>2. out' = [out EXCEPT ![w] = Fields(f, headerBuf')]
      BY <1>1, Zenon DEF Begins
    <3>3. out'[w] = Fields(f, headerBuf')
      <4>1. PICK s : s = Fields(f, headerBuf')
        OBVIOUS
      <4>2. out' = [out EXCEPT ![w] = s]
        BY <3>2, <4>1, Zenon
      <4>3. out'[w] = s
        BY ONLY <3>1, <4>2, w \in Writers
      <4> QED
        BY <4>1, <4>3
    <3>4. CASE HasHeaders(f)
      BY <2>4, <2>5, <3>3, <3>4, Zenon DEF Enc
    <3>5. CASE ~HasHeaders(f)
      <4>1. Fields(f, headerBuf') = Fields(f, Deflate(t, blocks))
        BY <1>5, <3>5, Plain
      <4> QED
        BY <2>4, <3>3, <4>1, Zenon DEF Enc
    <3> QED
      BY <3>4, <3>5
  <2>7. Laid(f, F)
    BY <1>5, <1>9, <1>11, <2>4, AllLaid
  <2>8. F \in Seq(Seq(Bytes)) /\ Len(F) > 0
    BY <2>7, Zenon DEF Laid
  <2>9. 1 \in 1..Len(F) /\ Rest(F, F, 1)
    <3>1. Len(F) \in Nat
      BY <2>8
    <3>2. 1 \in 1..Len(F) /\ Len(F) = Len(F) + 1 - 1 /\ \A i \in 1..Len(F) : 1 - 1 + i = i
      BY <2>8, <3>1
    <3> QED
      BY <2>8, <3>2, Zenon DEF Rest
  <2>10. Len(wire') = at2[N + 1] - at2[R + 1] + Start(f, 1)
    <3>1. Start(f, 1) = 0
      BY <1>5, Starts
    <3>2. at[N + 1] - at[R + 1] \in Nat
      <4>1. R \in 0..Len(begun) /\ N + 1 \in (R + 1)..(Len(begun) + 1)
        BY <1>4
      <4> QED
        BY <1>5, <1>10, <4>1, Offset
    <3> QED
      BY <1>7, <1>16, <2>2, <3>1, <3>2
  <2>11. R < N + 1
    BY <1>4
  <2>12. \E k \in 1..Len(F) : Rest(out'[w], F, k) /\ Len(wire') = at2[N + 1] - at2[R + 1] + Start(f, k)
    BY <2>6, <2>9, <2>10, Zenon
  <2> QED
    BY <1>4, <1>5, <1>6, <1>7, <1>14, <1>16, <2>3, <2>5, <2>11, <2>12, Zenon DEF Busy
<1>20. Whole(at2, num2, text2)'
    BY <1>17, <1>18, <1>19, Zenon DEF Whole
<1> QED
    BY <1>12, <1>20, Zenon DEF Inv

\* What is left behind the first field, when it is not the last.
LEMMA RestMore ==
    ASSUME NEW s, NEW F \in Seq(Seq(Bytes)), NEW k \in 1..Len(F), Rest(s, F, k), k < Len(F)
    PROVE  Head(s) = F[k] /\ Len(s) # 1 /\ Tail(s) # <<>> /\ k + 1 \in 1..Len(F) /\ Rest(Tail(s), F, k + 1)
<1>1. PICK S : S = Seq(Bytes)
    OBVIOUS
<1>2. s \in Seq(S) /\ Len(s) = Len(F) + 1 - k /\ F \in Seq(S) /\ Len(F) \in Nat
    BY <1>1 DEF Rest
<1>3. \A i \in 1..Len(s) : s[i] = F[k - 1 + i]
    BY Zenon DEF Rest
<1>4. Len(s) \in Nat /\ Len(s) >= 1 /\ s # <<>> /\ Len(s) # 1 /\ k + 1 \in 1..Len(F)
    BY <1>2
<1>5. Head(s) = F[k]
  <2>1. 1 \in 1..Len(s) /\ k - 1 + 1 = k
    BY <1>4
  <2>2. Head(s) = s[1]
    BY <1>2, <1>4
  <2> QED
    BY <1>3, <2>1, <2>2
<1>6. PICK u : u = Tail(s)
    OBVIOUS
<1>7. u \in Seq(S) /\ Len(u) = Len(s) - 1 /\ \A i \in 1..(Len(s) - 1) : u[i] = s[i + 1]
    BY <1>2, <1>4, <1>6
<1>8. Len(u) = Len(F) + 1 - (k + 1) /\ Len(u) # 0
    BY <1>2, <1>7
<1>9. ASSUME NEW i \in 1..Len(u) PROVE u[i] = F[(k + 1) - 1 + i]
  <2>1. i \in 1..(Len(s) - 1) /\ i + 1 \in 1..Len(s) /\ k - 1 + (i + 1) = (k + 1) - 1 + i
    BY <1>4, <1>7
  <2> QED
    BY <1>3, <1>7, <2>1, Zenon
<1>10. Rest(u, F, k + 1)
    BY <1>1, <1>7, <1>8, <1>9, Zenon DEF Rest
<1>11. u # <<>>
    BY <1>8
<1> QED
    BY <1>4, <1>5, <1>6, <1>10, <1>11, Zenon

\* The same, when it is the last.
LEMMA RestLast ==
    ASSUME NEW s, NEW F \in Seq(Seq(Bytes)), Len(F) \in 1..Len(F), Rest(s, F, Len(F))
    PROVE  Head(s) = F[Len(F)] /\ Len(s) = 1 /\ Tail(s) = <<>>
<1>1. PICK S : S = Seq(Bytes)
    OBVIOUS
<1>2. PICK k \in Nat : k = Len(F)
    OBVIOUS
<1>3. s \in Seq(S) /\ Len(s) = 1
    BY <1>1, <1>2 DEF Rest
<1>4. s[1] = F[k]
  <2>1. \A i \in 1..Len(s) : s[i] = F[k - 1 + i]
    BY <1>2, Zenon DEF Rest
  <2>2. 1 \in 1..Len(s) /\ k - 1 + 1 = k
    BY <1>3
  <2> QED
    BY <2>1, <2>2
<1>5. Head(s) = s[1] /\ Tail(s) = <<>>
  <2>1. s # <<>>
    BY ONLY <1>3, EmptySeq
  <2>2. Head(s) = s[1]
    BY ONLY <1>3, <2>1
  <2>3. Tail(s) \in Seq(S) /\ Len(Tail(s)) = 0
    BY ONLY <1>3, <2>1
  <2>4. Tail(s) = <<>>
    BY ONLY <2>3, EmptySeq
  <2> QED
    BY <2>2, <2>4
<1> QED
    BY <1>2, <1>3, <1>4, <1>5

\* f.w.Write of a field.
LEMMA WriteFieldInv ==
    ASSUME Inv, NEW w \in Writers, WriteField(w)
    PROVE  Inv'
<1>1. PICK at, num, text : Whole(at, num, text)
    BY Zenon DEF Inv
<1>2. Types
    BY DEF Inv
<1>3. /\ out[w] # <<>> /\ ~failed /\ wire' = wire \o Head(out[w]) /\ out' = [out EXCEPT ![w] = Tail(@)]
      /\ wmu' = (IF out'[w] = <<>> THEN None ELSE wmu) /\ headerBuf' = HeaderBufAfter(w)
    BY Zenon DEF WriteField
<1>4. blocks' = blocks /\ failed' = failed /\ begun' = begun /\ unpacked' = unpacked /\ read' = read /\ rerr' = rerr
    BY DEF WriteField
<1>5. wmu = w /\ w # None
    BY <1>2, <1>3, FramerAssumption, Zenon DEF Types
<1>6. PICK N \in Nat, R \in Nat : N = Len(begun) /\ R = Len(read) /\ R <= N
  <2>1. read \in Seq(Outcomes) /\ Len(read) <= Len(begun) /\ begun \in Seq(Frames)
    BY <1>1, <1>2, Zenon DEF Whole, Received, Types
  <2> QED
    BY <2>1
<1>7. begun \in Seq(Frames)
    BY <1>2 DEF Types
<1>8. Busy(at, num, text)
    BY <1>1, <1>3, <1>5, Zenon DEF Whole, Idle
<1>9. R < N
    BY <1>6, <1>8, Zenon DEF Busy
<1>10. PICK f : f = begun[N]
    OBVIOUS
<1>11. PICK F : F = Code(begun, num, text, N)
    OBVIOUS
<1>12. PICK k \in 1..Len(F) : Rest(out[w], F, k) /\ Len(wire) = at[N] - at[R + 1] + Start(f, k)
    BY <1>5, <1>6, <1>8, <1>10, <1>11, Zenon DEF Busy
<1>13. headerBuf = IF HasHeaders(f) THEN Deflate(text[N], num[N]) ELSE <<>>
    BY <1>6, <1>8, <1>10, Zenon DEF Busy
<1>14. Chain(begun, at, num, text) /\ OnWire(wire, begun, R, at, num, text)
       /\ num[N + 1] = blocks /\ num[R + 1] = unpacked
    BY <1>1, <1>6, Zenon DEF Whole, Stream
<1>15. N \in 1..Len(begun) /\ R \in 0..Len(begun) /\ R < Len(begun)
    BY <1>6, <1>9
<1>16. /\ WellFormed(f) /\ Laid(f, F) /\ at[N] \in Nat /\ at[N + 1] = at[N] + Size(f) /\ Size(f) \in Nat
    BY <1>7, <1>10, <1>11, <1>14, <1>15, Link
<1>17. F \in Seq(Seq(Bytes)) /\ Start(f, Len(F) + 1) = Size(f)
    BY <1>16, Zenon DEF Laid
<1>18. /\ Head(out[w]) = F[k]
       /\ k < Len(F) =>
             Tail(out[w]) # <<>> /\ k + 1 \in 1..Len(F) /\ Rest(Tail(out[w]), F, k + 1) /\ Len(out[w]) # 1
       /\ k = Len(F) => Tail(out[w]) = <<>> /\ Len(out[w]) = 1
  <2>1. PICK s : s = out[w]
    OBVIOUS
  <2>2. Rest(s, F, k)
    BY <1>12, <2>1
  <2>3. ASSUME k < Len(F)
        PROVE  Head(s) = F[k] /\ Len(s) # 1 /\ Tail(s) # <<>> /\ k + 1 \in 1..Len(F) /\ Rest(Tail(s), F, k + 1)
    BY <1>17, <2>2, <2>3, RestMore
  <2>4. ASSUME k = Len(F) PROVE Head(s) = F[k] /\ Len(s) = 1 /\ Tail(s) = <<>>
    BY <1>17, <2>2, <2>4, RestLast
  <2>5. k < Len(F) \/ k = Len(F)
    BY <1>17
  <2> QED
    BY <2>1, <2>3, <2>4, <2>5, Zenon
<1>19. out'[w] = Tail(out[w]) /\ out' = [v \in Writers |-> out'[v]]
       /\ \A v \in Writers : v # w => out'[v] = <<>>
  <2>1. out = [v \in Writers |-> out[v]] /\ \A v \in Writers : v # w => out[v] = <<>>
    BY <1>2, <1>5 DEF Types
  <2>2. PICK s : s = Tail(out[w])
    OBVIOUS
  <2>3. out' = [out EXCEPT ![w] = s]
    BY <1>3, <2>2
  <2>4. out'[w] = s /\ out' = [v \in Writers |-> out'[v]] /\ \A v \in Writers : v # w => out'[v] = <<>>
    BY ONLY <2>1, <2>3, w \in Writers
  <2> QED
    BY <2>2, <2>4, Zenon
<1>20. Last(begun) = f
    BY <1>6, <1>10, Zenon DEF Last
<1>21. /\ OnWire(wire', begun, R, at, num, text)
       /\ Len(wire') = at[N] - at[R + 1] + Start(f, k + 1)
  <2>1. wire' = wire \o F[k]
    BY <1>3, <1>18, Zenon
  <2>2. PICK b : b = begun
    OBVIOUS
  <2>3. /\ b \in Seq(Frames) /\ Chain(b, at, num, text) /\ OnWire(wire, b, R, at, num, text)
        /\ R \in 0..Len(b) /\ R < Len(b) /\ k \in 1..Len(Code(b, num, text, Len(b)))
        /\ Len(wire) = at[Len(b)] - at[R + 1] + Start(b[Len(b)], k)
    BY <1>6, <1>7, <1>10, <1>11, <1>12, <1>14, <1>15, <2>2, Zenon
  <2>4. /\ OnWire(wire \o Code(b, num, text, Len(b))[k], b, R, at, num, text)
        /\ Len(wire \o Code(b, num, text, Len(b))[k]) = at[Len(b)] - at[R + 1] + Start(b[Len(b)], k + 1)
    BY ONLY <2>3, WireField
  <2>5. /\ OnWire(wire \o F[k], begun, R, at, num, text)
        /\ Len(wire \o F[k]) = at[N] - at[R + 1] + Start(f, k + 1)
    BY <1>6, <1>10, <1>11, <2>2, <2>4, Zenon
  <2> QED
    BY <2>1, <2>5, Zenon
<1>22. Stream(at, num, text)'
    BY <1>4, <1>6, <1>14, <1>21, Zenon DEF Stream
<1>23. Received(text)'
  <2>1. Received(text)
    BY <1>1 DEF Whole
  <2> QED
    BY <1>4, <2>1, Zenon DEF Received
<1>24. Len(F) \in Nat /\ k \in Nat
    BY <1>17
<1>25. CASE k = Len(F)
  <2>1. wmu' = None /\ out'[w] = <<>>
    BY <1>3, <1>18, <1>19, <1>25, Zenon
  <2>2. headerBuf' = <<>>
    <3>1. CASE HasHeaders(f)
      BY <1>3, <1>18, <1>20, <1>25, <3>1, Zenon DEF HeaderBufAfter
    <3>2. CASE ~HasHeaders(f)
      BY <1>3, <1>13, <1>18, <1>20, <1>25, <3>2, Zenon DEF HeaderBufAfter
    <3> QED
      BY <3>1, <3>2
  <2>3. Types'
    <3>1. <<>> \in Seq(Bytes) /\ Len(<<>>) = BlockLen * 0 /\ 0 \in Nat
      BY CodecAssumption
    <3>2. \A v \in Writers : out'[v] = <<>>
      BY <1>19, <2>1, Zenon
    <3> QED
      BY <1>2, <1>4, <1>19, <2>1, <2>2, <3>1, <3>2, Zenon DEF Types
  <2>4. Idle(at)'
    <3>1. PICK x \in Nat, y \in Nat, z \in Nat : x = at[N] /\ y = at[R + 1] /\ z = Size(f)
      <4>1. R + 1 \in (R + 1)..(Len(begun) + 1)
        BY <1>15
      <4> QED
        BY <1>7, <1>14, <1>15, <1>16, <4>1, Offset
    <3>2. Len(wire') = (x - y) + z /\ at[N + 1] = x + z
      BY <1>16, <1>17, <1>21, <1>25, <3>1, Zenon
    <3>3. (x - y) + z = (x + z) - y
      OBVIOUS
    <3>4. Len(wire') = at[N + 1] - at[R + 1]
      BY <3>1, <3>2, <3>3, Zenon
    <3> QED
      BY <1>4, <1>6, <2>1, <2>2, <3>4, Zenon DEF Idle
  <2> QED
    BY <1>22, <1>23, <2>3, <2>4, Zenon DEF Inv, Whole
<1>26. CASE k < Len(F)
  <2>1. wmu' = w /\ out'[w] # <<>>
    BY <1>3, <1>5, <1>18, <1>19, <1>26, Zenon
  <2>2. headerBuf' = headerBuf
    BY <1>3, <1>18, <1>26, Zenon DEF HeaderBufAfter
  <2>3. Types'
    BY <1>2, <1>4, <1>5, <1>19, <2>1, <2>2, Zenon DEF Types
  <2>4. k + 1 \in 1..Len(F) /\ Rest(out'[w], F, k + 1)
    BY <1>18, <1>19, <1>26, Zenon
  <2>5. Busy(at, num, text)'
    BY <1>4, <1>5, <1>6, <1>9, <1>10, <1>11, <1>13, <1>21, <2>1, <2>2, <2>4, Zenon DEF Busy
  <2> QED
    BY <1>22, <1>23, <2>3, <2>5, Zenon DEF Inv, Whole
<1> QED
    BY <1>24, <1>25, <1>26

\* f.w.Write fails.
LEMMA WriteFailsInv ==
    ASSUME Inv, NEW w \in Writers, WriteFails(w)
    PROVE  Inv'
<1>1. PICK at, num, text : Whole(at, num, text)
    BY Zenon DEF Inv
<1>2. Types
    BY DEF Inv
<1>3. /\ out[w] # <<>> /\ failed /\ out' = [out EXCEPT ![w] = <<>>] /\ wmu' = None
      /\ headerBuf' = headerBuf /\ blocks' = blocks /\ wire' = wire /\ failed' = failed
      /\ begun' = begun /\ unpacked' = unpacked /\ read' = read /\ rerr' = rerr
    BY DEF WriteFails
<1>4. wmu = w
    BY <1>2, <1>3, Zenon DEF Types
<1>5. out' = [v \in Writers |-> out'[v]] /\ \A v \in Writers : out'[v] = <<>>
  <2>1. out = [v \in Writers |-> out[v]] /\ \A v \in Writers : v # w => out[v] = <<>>
    BY <1>2, <1>4 DEF Types
  <2> QED
    BY ONLY <1>3, <2>1, w \in Writers
<1>6. Types'
    BY <1>2, <1>3, <1>5, Zenon DEF Types
<1>7. Stream(at, num, text)' /\ Received(text)'
    BY <1>1, <1>3, Zenon DEF Whole, Stream, Received
<1> QED
    BY <1>3, <1>6, <1>7, Zenon DEF Inv, Whole

\* The connection fails.
LEMMA ConnFailsInv ==
    ASSUME Inv, ConnFails
    PROVE  Inv'
<1>1. PICK at, num, text : Whole(at, num, text)
    BY Zenon DEF Inv
<1>2. Types
    BY DEF Inv
<1>3. PICK n \in 0..Len(wire) : wire' = SubSeq(wire, 1, n)
    BY Zenon DEF ConnFails
<1>4. /\ failed' = TRUE /\ wmu' = wmu /\ out' = out
      /\ headerBuf' = headerBuf /\ blocks' = blocks
      /\ begun' = begun /\ unpacked' = unpacked /\ read' = read /\ rerr' = rerr
    BY DEF ConnFails
<1>5. Types'
    BY <1>2, <1>4, Zenon DEF Types
<1>6. Chain(begun, at, num, text) /\ OnWire(wire, begun, Len(read), at, num, text) /\ Received(text)
    BY <1>1, Zenon DEF Whole, Stream
<1>7. begun \in Seq(Frames) /\ Len(read) \in 0..Len(begun)
    BY <1>2, <1>6 DEF Types, Received
<1>8. OnWire(wire', begun, Len(read), at, num, text)
    BY <1>3, <1>6, <1>7, WireLost
<1>9. Stream(at, num, text)' /\ Received(text)'
    BY <1>1, <1>4, <1>6, <1>8, Zenon DEF Whole, Stream, Received
<1> QED
    BY <1>4, <1>5, <1>9, Zenon DEF Inv, Whole

\* ReadFrame.
LEMMA ReceiveInv ==
    ASSUME Inv, Receive
    PROVE  Inv'
<1>1. PICK at, num, text : Whole(at, num, text)
    BY Zenon DEF Inv
<1>2. Types
    BY DEF Inv
<1>3. PICK N \in Nat, R \in Nat : N = Len(begun) /\ R = Len(read) /\ R <= N
  <2>1. read \in Seq(Outcomes) /\ Len(read) <= Len(begun) /\ begun \in Seq(Frames)
    BY <1>1, <1>2, Zenon DEF Whole, Received, Types
  <2> QED
    BY <2>1
<1>4. begun \in Seq(Frames) /\ read \in Seq(Outcomes)
    BY <1>1, <1>2, Zenon DEF Types, Whole, Received
<1>5. Chain(begun, at, num, text) /\ OnWire(wire, begun, R, at, num, text)
      /\ num[N + 1] = blocks /\ num[R + 1] = unpacked
    BY <1>1, <1>3, Zenon DEF Whole, Stream
<1>6. /\ wmu' = wmu /\ out' = out /\ headerBuf' = headerBuf /\ blocks' = blocks
      /\ failed' = failed /\ begun' = begun
    BY DEF Receive
<1>7. PICK r : r = ReadFrame(wire, unpacked)
    OBVIOUS
<1>8. \/ /\ r.res = "frame"
         /\ read' = Append(read, r.frame)
         /\ wire' = SubSeq(wire, r.used + 1, Len(wire))
         /\ unpacked' = IF HasHeaders(r.frame) THEN unpacked + 1 ELSE unpacked
         /\ rerr' = rerr
      \/ /\ r.res = "error" \/ (r.res = "more" /\ failed)
         /\ rerr' = TRUE
         /\ wire' = wire /\ unpacked' = unpacked /\ read' = read
    BY <1>7 DEF Receive
<1>9. ~rerr
    BY DEF Receive
<1>10. PICK f : f = begun[R + 1]
    OBVIOUS
<1>11. PICK t : t = text[R + 1]
    OBVIOUS
<1>12. CASE r = More \/ (R < N /\ Rejected(f, t) /\ r = Fail)
  <2>1. /\ rerr' = TRUE /\ wire' = wire /\ unpacked' = unpacked /\ read' = read
        /\ ~failed => R < N /\ Rejected(f, t)
    <3>1. r.res # "frame" /\ (r.res = "error" => R < N /\ Rejected(f, t))
      BY <1>12 DEF More, Fail
    <3> QED
      BY <1>8, <3>1, Zenon
  <2>2. Types'
    BY <1>2, <1>6, <2>1, Zenon DEF Types
  <2>3. Stream(at, num, text)'
    BY <1>1, <1>6, <2>1, Zenon DEF Whole, Stream
  <2>4. Received(text)'
    BY <1>1, <1>3, <1>6, <1>10, <1>11, <2>1, Zenon DEF Whole, Received
  <2>5. ~failed' => Idle(at)' \/ Busy(at, num, text)'
    BY <1>1, <1>6, <2>1, Zenon DEF Whole, Idle, Busy
  <2> QED
    BY <2>2, <2>3, <2>4, <2>5, Zenon DEF Inv, Whole
<1>13. CASE R < N /\ Len(wire) >= Size(f) /\ r = Got(Decoded(f, t), Size(f))
  <2>1. /\ read' = Append(read, Decoded(f, t)) /\ wire' = SubSeq(wire, Size(f) + 1, Len(wire)) /\ rerr' = rerr
        /\ unpacked' = IF HasHeaders(Decoded(f, t)) THEN unpacked + 1 ELSE unpacked
    <3>1. r.res = "frame" /\ r.frame = Decoded(f, t) /\ r.used = Size(f)
      BY <1>13 DEF Got
    <3>2. r.res # "error" /\ r.res # "more"
      BY <3>1
    <3> QED
      BY <1>8, <3>1, <3>2, Zenon
  <2>2. R + 1 \in 1..Len(begun) /\ R \in 0..Len(begun) /\ R < Len(begun) /\ R + 1 <= N
    BY <1>3, <1>13
  <2>3. /\ f \in Frames /\ TextOf(f, t) /\ WellFormed(f) /\ Size(f) \in Nat
        /\ at[R + 1] \in Nat /\ at[(R + 1) + 1] = at[R + 1] + Size(f)
    BY <1>4, <1>5, <1>10, <1>11, <2>2, Link
  <2>4. Decoded(f, t) \in Outcomes /\ (HasHeaders(Decoded(f, t)) <=> HasHeaders(f))
    BY <2>3, DecodedType
  <2>5. /\ read' \in Seq(Outcomes) /\ Len(read') = R + 1 /\ read'[R + 1] = Decoded(f, t)
        /\ \A j \in 1..R : read'[j] = read[j]
    <3>1. PICK x \in Outcomes : x = Decoded(f, t)
      BY <2>4
    <3> QED
      BY <1>3, <1>4, <2>1, <3>1
  <2>6. /\ OnWire(wire', begun, R + 1, at, num, text)
        /\ Len(wire') = Len(wire) - Size(f)
    <3>1. PICK b : b = begun
      OBVIOUS
    <3>2. PICK q \in Nat : q = Size(f)
      BY <2>3
    <3>3. /\ b \in Seq(Frames) /\ Chain(b, at, num, text) /\ OnWire(wire, b, R, at, num, text)
          /\ R \in 0..Len(b) /\ R < Len(b) /\ q = Size(b[R + 1]) /\ q <= Len(wire)
      <4>1. q <= Len(wire)
        BY <1>13, <3>2
      <4> QED
        BY <1>4, <1>5, <1>10, <2>2, <3>1, <3>2, <4>1, Zenon
    <3>4. PICK v : v = wire
      OBVIOUS
    <3>5. /\ OnWire(SubSeq(v, q + 1, Len(v)), b, R + 1, at, num, text)
          /\ Len(SubSeq(v, q + 1, Len(v))) = Len(v) - q
      BY <3>3, <3>4, WireNext
    <3> QED
      BY <2>1, <3>1, <3>2, <3>4, <3>5, Zenon
  <2>7. Types'
    BY <1>2, <1>6, <2>1, Zenon DEF Types
  <2>8. num[(R + 1) + 1] = unpacked'
    <3>1. Linked(begun, at, num, text, R + 1)
      BY <1>5, <2>2, Zenon DEF Chain
    <3> QED
      BY <1>5, <1>10, <2>1, <2>4, <3>1, Zenon DEF Linked
  <2>9. Stream(at, num, text)'
    BY <1>3, <1>5, <1>6, <2>5, <2>6, <2>8, Zenon DEF Stream
  <2>10. Received(text)'
    <3>1. \A j \in 1..(R + 1) : j = R + 1 \/ j \in 1..R
      OBVIOUS
    <3>2. \A j \in 1..R : read[j] = Decoded(begun[j], text[j])
      BY <1>1, <1>3, Zenon DEF Whole, Received
    <3>3. \A j \in 1..(R + 1) : read'[j] = Decoded(begun[j], text[j])
      BY <1>10, <1>11, <2>5, <3>1, <3>2, Zenon
    <3> QED
      BY <1>3, <1>6, <1>9, <2>1, <2>2, <2>5, <3>3, Zenon DEF Received
  <2>11. ASSUME ~failed' PROVE Idle(at)' \/ Busy(at, num, text)'
    <3>1. PICK y \in Nat, z \in Nat, l \in Nat, e \in Nat :
             y = at[R + 1] /\ z = Size(f) /\ l = Len(wire) /\ e = at[N + 1]
      <4>1. N + 1 \in (R + 1)..(Len(begun) + 1)
        BY <1>3
      <4>2. at[N + 1] \in Nat
        BY <1>4, <1>5, <2>2, <4>1, Offset
      <4>3. Len(wire) \in Nat
        BY <1>5 DEF OnWire
      <4> QED
        BY <2>3, <4>2, <4>3
    <3>2. at[(R + 1) + 1] = y + z /\ Len(wire') = l - z
      BY <2>3, <2>6, <3>1, Zenon
    <3>3. CASE Idle(at)
      <4>1. wmu = None /\ headerBuf = <<>> /\ l = e - y
        BY <1>3, <3>1, <3>3, Zenon DEF Idle
      <4>2. l - z = e - (y + z)
        BY <4>1
      <4>3. Len(wire') = at[N + 1] - at[(R + 1) + 1]
        BY <3>1, <3>2, <4>2, Zenon
      <4> QED
        BY <1>3, <1>6, <2>5, <4>1, <4>3, Zenon DEF Idle
    <3>4. CASE Busy(at, num, text)
      <4>1. PICK F : F = Code(begun, num, text, N)
        OBVIOUS
      <4>2. PICK g : g = begun[N]
        OBVIOUS
      <4>3. PICK k \in 1..Len(F) : Rest(out[wmu], F, k) /\ Len(wire) = at[N] - at[R + 1] + Start(g, k)
        BY <1>3, <3>4, <4>1, <4>2, Zenon DEF Busy
      <4>4. N \in 1..Len(begun)
        BY <1>3, <2>2
      <4>5. WellFormed(g) /\ Laid(g, F) /\ at[N] \in Nat
        BY <1>4, <1>5, <4>1, <4>2, <4>4, Link
      <4>6. PICK x \in Nat, s \in Nat : x = at[N] /\ s = Start(g, k) /\ s < Size(g)
        BY <4>3, <4>5, FieldPlaces
      <4>7. l = (x - y) + s /\ l >= z
        BY <1>13, <3>1, <4>3, <4>6, Zenon
      <4>8. R + 1 # N
        <5>1. SUFFICES ASSUME R + 1 = N PROVE FALSE
          OBVIOUS
        <5>2. x = y /\ s < z
          BY <1>10, <3>1, <4>2, <4>6, <5>1, Zenon
        <5> QED
          BY <4>7, <5>2
      <4>9. R + 1 < N
        BY <2>2, <4>8
      <4>10. Len(wire') = at[N] - at[(R + 1) + 1] + Start(g, k)
        <5>1. l - z = (x - (y + z)) + s
          BY <4>7
        <5> QED
          BY <3>1, <3>2, <4>6, <5>1, Zenon
      <4>11. /\ wmu # None
             /\ headerBuf = IF HasHeaders(g) THEN Deflate(text[N], num[N]) ELSE <<>>
        BY <1>3, <3>4, <4>2, Zenon DEF Busy
      <4>12. Busy(at, num, text)'
        BY <1>3, <1>6, <2>5, <4>1, <4>2, <4>3, <4>9, <4>10, <4>11, Zenon DEF Busy
      <4> QED
        BY <4>12
    <3> QED
      BY <1>1, <1>6, <2>11, <3>3, <3>4, Zenon DEF Whole
  <2> QED
    BY <2>7, <2>9, <2>10, <2>11, Zenon DEF Inv, Whole
<1>14. CASE R = N
  <2>1. r = More
    BY <1>3, <1>4, <1>5, <1>7, <1>14, WireEmpty
  <2> QED
    BY <1>12, <2>1
<1>15. CASE R < N
  <2>1. R \in 0..Len(begun) /\ R < Len(begun) /\ R + 1 \in 1..Len(begun)
    BY <1>3, <1>15
  <2>2. Read(f, t, unpacked, wire)
    BY <1>4, <1>5, <1>10, <1>11, <2>1, WireRead
  <2>3. Len(wire) \in Nat /\ Size(f) \in Nat
    <3>1. Len(wire) \in Nat
      BY <1>5 DEF OnWire
    <3> QED
      BY <1>4, <1>5, <1>10, <2>1, <3>1, Link
  <2>4. Len(wire) < Size(f) \/ Len(wire) >= Size(f)
    BY <2>3
  <2> QED
    BY <1>7, <1>12, <1>13, <1>15, <2>2, <2>4, Zenon DEF Read
<1> QED
    BY <1>3, <1>14, <1>15

--------------------------------------------------------------------------------
\* Headers that are read as they were written.

\* A set of naturals has a least element.
LEMMA Least ==
    ASSUME NEW S \in SUBSET Nat, S # {}
    PROVE  \E m \in S : \A k \in S : m <= k
<1>1. IsWellFoundedOn(OpToRel(<, Nat), Nat)
    BY NatLessThanWellFounded
<1>2. PICK x \in S : \A y \in S : ~(<<y, x>> \in OpToRel(<, Nat))
    BY <1>1, WFMin
<1>3. \A y \in S : ~(y < x)
    BY <1>2 DEF OpToRel
<1> QED
    BY <1>3

\* The concatenation of sequences of which only one, number p, is not empty.
LEMMA FlattenOne ==
    ASSUME NEW S, NEW n \in Nat, NEW p \in 1..n, NEW v \in Seq(S)
    PROVE  FlattenSeq([i \in 1..n |-> IF i = p THEN v ELSE <<>>]) = v
<1>1. PICK ss : ss = [i \in 1..n |-> IF i = p THEN v ELSE <<>>]
    OBVIOUS
<1>2. Len(ss) = n /\ n # 0 /\ n \in 1..n /\ \A i \in 1..n : ss[i] = IF i = p THEN v ELSE <<>>
    BY <1>1
<1>3. PICK f : f = [i \in 1..n |-> IF i < p THEN <<>> ELSE v]
    OBVIOUS
<1>4. \A i \in 1..n : f[i] = IF i < p THEN <<>> ELSE v
    BY <1>3
<1>5. <<>> \o v = v /\ v \o <<>> = v /\ <<>> \o <<>> = <<>>
    OBVIOUS
<1>6. ASSUME NEW i \in 1..n, i # 1 PROVE i - 1 \in 1..n /\ f[i] = f[i - 1] \o ss[i]
  <2>1. i - 1 \in 1..n
    BY <1>6
  <2>2. CASE i < p
    <3>1. f[i] = <<>> /\ f[i - 1] = <<>> /\ ss[i] = <<>>
      BY <1>2, <1>4, <2>1, <2>2
    <3> QED
      BY <1>5, <2>1, <3>1, Zenon
  <2>3. CASE i = p
    <3>1. f[i] = v /\ f[i - 1] = <<>> /\ ss[i] = v
      BY <1>2, <1>4, <2>1, <2>3
    <3> QED
      BY <1>5, <2>1, <3>1, Zenon
  <2>4. CASE i > p
    <3>1. f[i] = v /\ f[i - 1] = v /\ ss[i] = <<>>
      BY <1>2, <1>4, <2>1, <2>4
    <3> QED
      BY <1>5, <2>1, <3>1, Zenon
  <2>5. i < p \/ i = p \/ i > p
    OBVIOUS
  <2> QED
    BY <2>2, <2>3, <2>4, <2>5, Zenon
<1>7. f[1] = ss[1]
  <2>1. 1 \in 1..n /\ (p = 1 \/ 1 < p) /\ ~(1 < 1)
    OBVIOUS
  <2> QED
    BY <1>2, <1>4, <2>1
<1>8. f = [i \in 1..n |-> IF i = 1 THEN ss[i] ELSE f[i - 1] \o ss[i]]
  <2>1. \A i \in 1..n : f[i] = IF i = 1 THEN ss[i] ELSE f[i - 1] \o ss[i]
    BY <1>6, <1>7, Zenon
  <2> QED
    BY <1>3, <2>1
<1>9. PICK g : g = CHOOSE h : h = [i \in 1..n |-> IF i = 1 THEN ss[i] ELSE h[i - 1] \o ss[i]]
    OBVIOUS
<1>10. g = [i \in 1..n |-> IF i = 1 THEN ss[i] ELSE g[i - 1] \o ss[i]]
    BY <1>8, <1>9, Zenon
<1>11. FlattenSeq(ss) = g[n]
    BY <1>2, <1>9, Zenon DEF FlattenSeq
<1>12. \A i \in 1..n : g[i] = IF i = 1 THEN ss[i] ELSE g[i - 1] \o ss[i]
    BY <1>10, Zenon
<1>13. \A i \in 1..n : g[i] = f[i]
  <2>1. PICK B : B = {i \in 1..n : g[i] # f[i]}
    OBVIOUS
  <2>2. SUFFICES ASSUME B # {} PROVE FALSE
    BY <2>1
  <2>3. B \in SUBSET Nat
    BY <2>1
  <2>4. PICK m \in B : \A k \in B : m <= k
    BY <2>2, <2>3, Least
  <2>5. m \in 1..n /\ g[m] # f[m]
    BY <2>1
  <2>6. CASE m = 1
    BY <1>7, <1>12, <2>5, <2>6, Zenon
  <2>7. CASE m # 1
    <3>1. m - 1 \in 1..n /\ f[m] = f[m - 1] \o ss[m] /\ ~(m <= m - 1)
      <4>1. m \in Nat /\ ~(m <= m - 1)
        BY <2>5
      <4> QED
        BY <1>6, <2>5, <2>7, <4>1, Zenon
    <3>2. g[m - 1] = f[m - 1]
      BY <2>1, <2>4, <3>1, Zenon
    <3>3. g[m] = g[m - 1] \o ss[m]
      BY <1>12, <2>5, <2>7, Zenon
    <3> QED
      BY <2>5, <3>1, <3>2, <3>3, Zenon
  <2> QED
    BY <2>6, <2>7
<1>14. f[n] = v
    BY <1>2, <1>4
<1> QED
    BY <1>1, <1>2, <1>11, <1>13, <1>14, Zenon

\* Lowercase names are lowercase.
LEMMA Lower ==
    ASSUME NEW name
    PROVE  ToLower(ToLower(name)) = ToLower(name)
<1>1. CASE name \in Range(Canonical)
  <2>1. \E l \in DOMAIN Canonical : Canonical[l] = name
    BY <1>1 DEF Range
  <2>2. PICK m : m = CHOOSE l \in DOMAIN Canonical : Canonical[l] = name
    OBVIOUS
  <2>3. m \in DOMAIN Canonical
    BY <2>1, <2>2
  <2>4. ToLower(name) = m
    BY <1>1, <2>2, Zenon DEF ToLower
  <2>5. m \notin Range(Canonical)
    BY <2>3 DEF Range, Canonical
  <2>6. ToLower(m) = m
    BY <2>5, Zenon DEF ToLower
  <2> QED
    BY <2>4, <2>6
<1>2. CASE name \notin Range(Canonical)
  <2>1. ToLower(name) = name
    BY <1>2, Zenon DEF ToLower
  <2> QED
    BY <2>1
<1> QED
    BY <1>1, <1>2

\* No canonical name is the lowercase form of another.
LEMMA Apart ==
    ASSUME NEW m, NEW n, CanonicalKey(ToLower(m)) = m, CanonicalKey(ToLower(n)) = n, m # n
    PROVE  ToLower(n) # m
<1>1. SUFFICES ASSUME ToLower(n) = m PROVE FALSE
    OBVIOUS
<1>2. ToLower(m) = m
    BY <1>1, Lower
<1> QED
    BY <1>1, <1>2

\* The order in which the names are written: each comes once.
LEMMA Names ==
    ASSUME NEW S, IsFiniteSet(S), NEW names \in SetToSeqs(S)
    PROVE  \E n \in Nat :
              /\ names \in [1..n -> S] /\ \A i, j \in 1..n : i # j => names[i] # names[j]
              /\ \A x \in S : \E i \in 1..n : names[i] = x
<1>1. PICK n \in Nat : n = Cardinality(S)
    BY FS_CardinalityType
<1>2. names \in [1..n -> S] /\ \A i, j \in 1..n : i # j => names[i] # names[j]
    BY <1>1 DEF SetToSeqs
<1>3. names \in Injection(1..n, S)
    BY <1>2 DEF Injection, IsInjective
<1>4. Cardinality(1..n) = n
    BY FS_Interval
<1>5. names \in Surjection(1..n, S)
    BY <1>1, <1>3, <1>4, FS_Injection
<1>6. \A x \in S : \E i \in 1..n : names[i] = x
    BY <1>5, Zenon DEF Surjection
<1> QED
    BY <1>2, <1>6

\* The text t has the n fields of header h, in the order of names.
Lists(h, t, n, names) ==
    /\ n \in Nat /\ names \in [1..n -> DOMAIN h]
    /\ \A i, j \in 1..n : i # j => names[i] # names[j]
    /\ \A x \in DOMAIN h : \E i \in 1..n : names[i] = x
    /\ DOMAIN t = 1..n
    /\ \A i \in 1..n : t[i][1] = ToLower(names[i]) /\ t[i][2] = h[names[i]]

\* What writeHeaderValueBlock writes.
LEMMA FieldsOf ==
    ASSUME NEW h, CanonicalHeader(h), NEW t \in writeHeaderValueBlock(h)
    PROVE  \E n, names : Lists(h, t, n, names)
<1>1. PICK names \in SetToSeqs(DOMAIN h) :
         t = [i \in DOMAIN names |->
                 <<ToLower(names[i]), IF h[names[i]] = <<>> THEN <<"">> ELSE h[names[i]]>>]
    BY Zenon DEF writeHeaderValueBlock
<1>2. IsFiniteSet(DOMAIN h) /\ \A x \in DOMAIN h : h[x] # <<>>
    BY Zenon DEF CanonicalHeader
<1>3. PICK n \in Nat :
         /\ names \in [1..n -> DOMAIN h] /\ \A i, j \in 1..n : i # j => names[i] # names[j]
         /\ \A x \in DOMAIN h : \E i \in 1..n : names[i] = x
    BY <1>2, Names
<1>4. DOMAIN names = 1..n /\ \A i \in 1..n : names[i] \in DOMAIN h
    BY <1>3
<1>5. DOMAIN t = 1..n
    BY <1>1, <1>4
<1>6. ASSUME NEW i \in 1..n PROVE t[i][1] = ToLower(names[i]) /\ t[i][2] = h[names[i]]
  <2>1. t[i] = <<ToLower(names[i]), IF h[names[i]] = <<>> THEN <<"">> ELSE h[names[i]]>>
    BY <1>1, <1>4, Zenon
  <2>2. h[names[i]] # <<>>
    BY <1>2, <1>4, Zenon
  <2>3. PICK a, b : a = ToLower(names[i]) /\ b = h[names[i]]
    OBVIOUS
  <2>4. t[i] = <<a, b>>
    BY <2>1, <2>2, <2>3, Zenon
  <2>5. t[i][1] = a /\ t[i][2] = b
    BY ONLY <2>4
  <2> QED
    BY <2>3, <2>5
<1>7. Lists(h, t, n, names)
    BY <1>3, <1>5, <1>6, Zenon DEF Lists
<1> QED
    BY <1>7, Zenon

\* writeHeaderValueBlock and parseHeaderValueBlock: a canonical header is
\* accepted and read as it was written, in whatever order its fields are written.
LEMMA RoundTrip ==
    ASSUME NEW h, CanonicalHeader(h), NEW t \in writeHeaderValueBlock(h)
    PROVE  parseHeaderValueBlock(t).ok /\ parseHeaderValueBlock(t).headers = h
<1>1. PICK n, names : Lists(h, t, n, names)
    BY FieldsOf
<1>2. /\ n \in Nat /\ names \in [1..n -> DOMAIN h]
      /\ \A i, j \in 1..n : i # j => names[i] # names[j]
      /\ \A x \in DOMAIN h : \E i \in 1..n : names[i] = x
      /\ DOMAIN t = 1..n
      /\ \A i \in 1..n : t[i][1] = ToLower(names[i]) /\ t[i][2] = h[names[i]]
    BY <1>1, Zenon DEF Lists
<1>3. \A x \in DOMAIN h : CanonicalKey(ToLower(x)) = x /\ h[x] \in Seq(STRING)
    BY Zenon DEF CanonicalHeader
<1>4. \A i \in 1..n : names[i] \in DOMAIN h
    BY <1>2
<1> DEFINE name(i) == ToLower(t[i][1])
           key(i) == CanonicalKey(name(i))
           valuesOf(k) == FlattenSeq([i \in DOMAIN t |-> IF key(i) = k THEN t[i][2] ELSE <<>>])
           ok == /\ \A i \in DOMAIN t : t[i][1] = name(i)
                 /\ \A i, j \in DOMAIN t : i < j => name(j) # key(i)
           headers == [k \in {key(i) : i \in DOMAIN t} |-> valuesOf(k)]
<1>5. parseHeaderValueBlock(t) = [ok |-> ok, headers |-> headers]
    BY DEF parseHeaderValueBlock
<1>6. \A i \in 1..n : name(i) = ToLower(names[i]) /\ key(i) = names[i] /\ t[i][1] = name(i)
  <2>1. TAKE i \in 1..n
  <2>2. name(i) = ToLower(ToLower(names[i]))
    BY <1>2, Zenon
  <2>3. name(i) = ToLower(names[i])
    BY <2>2, Lower
  <2>4. key(i) = names[i]
    BY <1>3, <1>4, <2>3, Zenon
  <2> QED
    BY <1>2, <2>3, <2>4, Zenon
<1> HIDE DEF name, key
<1>7. ok
  <2>1. ASSUME NEW i \in 1..n, NEW j \in 1..n, i < j PROVE name(j) # key(i)
    <3>1. i # j
      BY <2>1
    <3>2. names[i] # names[j]
      BY <1>2, <3>1, Zenon
    <3>3. ToLower(names[j]) # names[i]
      BY <1>3, <1>4, <3>2, Apart
    <3> QED
      BY <1>6, <3>3, Zenon
  <2> QED
    BY <1>2, <1>6, <2>1, Zenon
<1>8. {key(i) : i \in DOMAIN t} = DOMAIN h
    BY <1>2, <1>4, <1>6
<1>9. ASSUME NEW x \in DOMAIN h PROVE valuesOf(x) = h[x]
  <2>1. PICK p \in 1..n : names[p] = x
    BY <1>2, Zenon
  <2>2. \A i \in 1..n : (IF key(i) = x THEN t[i][2] ELSE <<>>) = (IF i = p THEN h[x] ELSE <<>>)
    <3>1. TAKE i \in 1..n
    <3>2. CASE i = p
      BY <1>2, <1>6, <2>1, <3>2, Zenon
    <3>3. CASE i # p
      <4>1. names[i] # names[p] /\ key(i) = names[i]
        BY <1>2, <1>6, <3>3, Zenon
      <4> QED
        BY <2>1, <3>3, <4>1, Zenon
    <3> QED
      BY <3>2, <3>3
  <2>3. [i \in DOMAIN t |-> IF key(i) = x THEN t[i][2] ELSE <<>>] = [i \in 1..n |-> IF i = p THEN h[x] ELSE <<>>]
    BY <1>2, <2>2, Zenon
  <2>4. PICK v \in Seq(STRING) : v = h[x]
    BY <1>3, Zenon
  <2>5. FlattenSeq([i \in 1..n |-> IF i = p THEN v ELSE <<>>]) = v
    <3>1. n \in Nat
      BY <1>2
    <3> QED
      BY <3>1, FlattenOne, Zenon
  <2> QED
    BY <2>3, <2>4, <2>5, Zenon
<1>10. headers = h
  <2>1. h = [x \in DOMAIN h |-> h[x]]
    BY Zenon DEF CanonicalHeader
  <2>2. headers = [x \in DOMAIN h |-> h[x]]
    BY <1>8, <1>9, Zenon
  <2> QED
    BY <2>1, <2>2, Zenon
<1> HIDE DEF ok, headers
<1> QED
    BY <1>5, <1>7, <1>10

--------------------------------------------------------------------------------
\* The theorems.

\* Every step keeps the invariant.
LEMMA NextInv ==
    ASSUME Inv, [Next]_vars
    PROVE  Inv'
<1>1. ASSUME NEW w \in Writers, WriteFrame(w) PROVE Inv'
    BY <1>1, WriteFrameInv
<1>2. ASSUME NEW w \in Writers, WriteField(w) PROVE Inv'
    BY <1>2, WriteFieldInv
<1>3. ASSUME NEW w \in Writers, WriteFails(w) PROVE Inv'
    BY <1>3, WriteFailsInv
<1>4. CASE ConnFails
    BY <1>4, ConnFailsInv
<1>5. CASE Receive
    BY <1>5, ReceiveInv
<1>6. CASE UNCHANGED vars
  <2>1. /\ wmu' = wmu /\ out' = out /\ headerBuf' = headerBuf /\ blocks' = blocks /\ wire' = wire
        /\ failed' = failed /\ begun' = begun /\ unpacked' = unpacked /\ read' = read /\ rerr' = rerr
    BY <1>6 DEF vars
  <2>2. PICK at, num, text : Whole(at, num, text)
    BY Zenon DEF Inv
  <2>3. Types'
    BY <2>1, Zenon DEF Inv, Types
  <2>4. Whole(at, num, text)'
    BY <2>1, <2>2, Zenon DEF Whole, Stream, Received, Idle, Busy
  <2> QED
    BY <2>3, <2>4, Zenon DEF Inv
<1> QED
    BY <1>1, <1>2, <1>3, <1>4, <1>5, <1>6, Zenon DEF Next

\* The bytes under way are those of the frames begun and not yet read, as far as
\* they go, and the field that is written next is the one that is due.
THEOREM Invariant == Spec => []Inv
<1>1. Init => Inv
    BY InitInv
<1>2. Inv /\ [Next]_vars => Inv'
    BY NextInv
<1> QED
    BY <1>1, <1>2, PTL DEF Spec

\* What the invariant says of the counters and of the first frame under way.
LEMMA Counted ==
    ASSUME NEW at, NEW num, NEW text, Whole(at, num, text), Types
    PROVE  /\ begun \in Seq(Frames) /\ Len(read) \in 0..Len(begun) /\ wire \in Seq(Bytes)
           /\ blocks \in Nat /\ unpacked \in Nat /\ unpacked <= blocks /\ blocks <= Len(begun)
           /\ Len(begun) \in Nat /\ Len(begun) <= MaxFrames
           /\ Chain(begun, at, num, text) /\ OnWire(wire, begun, Len(read), at, num, text)
           /\ num[Len(read) + 1] = unpacked
<1>1. /\ Chain(begun, at, num, text) /\ num[Len(begun) + 1] = blocks /\ num[Len(read) + 1] = unpacked
      /\ OnWire(wire, begun, Len(read), at, num, text)
    BY Zenon DEF Whole, Stream
<1>2. begun \in Seq(Frames) /\ Len(begun) <= MaxFrames /\ read \in Seq(Outcomes) /\ Len(read) <= Len(begun)
    BY Zenon DEF Types, Whole, Received
<1>3. wire \in Seq(Bytes)
    BY <1>1, Zenon DEF OnWire
<1>4. PICK N \in Nat, R \in Nat : N = Len(begun) /\ R = Len(read) /\ R <= N
    BY <1>2
<1>5. R + 1 \in 1..(N + 1) /\ N + 1 \in 1..(N + 1) /\ R + 1 <= N + 1 /\ R \in 0..N
    BY <1>4
<1>6. num[R + 1] \in Nat /\ num[N + 1] \in Nat /\ num[R + 1] <= num[N + 1] /\ num[N + 1] < N + 1
    BY <1>1, <1>4, <1>5 DEF Chain
<1>7. PICK x \in Nat : x = blocks /\ x < N + 1
    BY <1>1, <1>4, <1>6
<1>8. blocks <= N
    BY <1>7
<1> QED
    BY <1>1, <1>2, <1>3, <1>4, <1>5, <1>6, <1>8

\* The invariant implies TypeOK.
LEMMA InvTypeOK == Inv => TypeOK
<1>1. SUFFICES ASSUME Inv PROVE TypeOK
    OBVIOUS
<1>2. Types
    BY <1>1 DEF Inv
<1>3. PICK at, num, text : Whole(at, num, text)
    BY <1>1, Zenon DEF Inv
<1>4. /\ wire \in Seq(Bytes) /\ blocks \in Nat /\ unpacked \in Nat /\ unpacked <= blocks
      /\ blocks <= Len(begun) /\ Len(begun) \in Nat /\ Len(begun) <= MaxFrames
    BY <1>2, <1>3, Counted
<1>5. blocks \in 0..MaxFrames /\ unpacked \in 0..blocks
    BY <1>4, FramerAssumption
<1>6. \A i \in DOMAIN wire : wire[i].b \in 0..(Radix - 1)
  <2>1. \A x \in Bytes : x.b \in 0..(Radix - 1)
    BY DEF Bytes
  <2>2. \A i \in DOMAIN wire : wire[i] \in Bytes
    BY <1>4
  <2> QED
    BY <2>1, <2>2, Zenon
<1>7. Len(headerBuf) % BlockLen = 0
  <2>1. PICK k \in Nat : Len(headerBuf) = BlockLen * k
    BY <1>2, Zenon DEF Types
  <2>2. PICK m \in Nat : m = BlockLen /\ 0 < m
    BY CodecAssumption
  <2>3. (m * k + 0) % m = 0 /\ m * k + 0 = m * k
    BY <2>2, Quotient
  <2> QED
    BY <2>1, <2>2, <2>3, Zenon
<1>8. {failed, rerr} \subseteq BOOLEAN /\ wmu \in Writers \cup {None}
    BY <1>2 DEF Types
<1> QED
    BY <1>4, <1>5, <1>6, <1>7, <1>8, Zenon DEF TypeOK

\* Types: a byte has a value below Radix, neither end counts more header blocks
\* than frames were begun, the reader never more than the writer, and headerBuf
\* holds whole compressed blocks (write.go:141-153, read.go:159-175).
THEOREM TypeCorrect == Spec => []TypeOK
    BY Invariant, InvTypeOK, PTL

\* The invariant implies NoStarvedRead: all frames begun are there to the last byte.
LEMMA InvNoStarvedRead == Inv => NoStarvedRead
<1>1. SUFFICES ASSUME Inv, wmu = None, ~failed, wire # <<>>
               PROVE  ReadFrame(wire, unpacked).res # "more"
    BY Zenon DEF NoStarvedRead
<1>2. Types
    BY <1>1 DEF Inv
<1>3. PICK at, num, text : Whole(at, num, text)
    BY <1>1, Zenon DEF Inv
<1>4. /\ begun \in Seq(Frames) /\ Len(read) \in 0..Len(begun)
      /\ Chain(begun, at, num, text) /\ OnWire(wire, begun, Len(read), at, num, text)
      /\ num[Len(read) + 1] = unpacked
    BY <1>2, <1>3, Counted
<1>5. PICK N \in Nat, R \in Nat : N = Len(begun) /\ R = Len(read) /\ R <= N
    BY <1>4
<1>6. Len(wire) = at[N + 1] - at[R + 1]
    BY <1>1, <1>3, <1>5, Zenon DEF Whole, Idle, Busy
<1>7. R # N
  <2>1. SUFFICES ASSUME R = N PROVE FALSE
    OBVIOUS
  <2>2. OnWire(wire, begun, Len(begun), at, num, text)
    BY <1>4, <1>5, <2>1, Zenon
  <2>3. wire = <<>>
    BY <1>4, <2>2, WireEmpty
  <2> QED
    BY <1>1, <2>3
<1>8. /\ R + 1 \in 1..Len(begun) /\ R \in 0..Len(begun) /\ R < Len(begun)
      /\ (R + 1) + 1 \in (R + 1)..(Len(begun) + 1)
    BY <1>5, <1>7
<1>9. PICK f : f = begun[R + 1]
    OBVIOUS
<1>10. PICK t : t = text[R + 1]
    OBVIOUS
<1>11. Size(f) \in Nat /\ at[(R + 1) + 1] = at[R + 1] + Size(f)
    BY <1>4, <1>8, <1>9, Link
<1>12. at[R + 1] \in Nat /\ at[(R + 1) + 1] <= at[N + 1] /\ at[N + 1] \in Nat
    BY <1>4, <1>5, <1>8, Offset
<1>13. Len(wire) >= Size(f)
  <2>1. PICK x \in Nat, y \in Nat, z \in Nat : x = at[R + 1] /\ y = at[N + 1] /\ z = Size(f)
    BY <1>11, <1>12
  <2>2. x + z <= y /\ Len(wire) = y - x
    BY <1>6, <1>11, <1>12, <2>1, Zenon
  <2>3. y - x >= z
    BY <2>2
  <2> QED
    BY <2>1, <2>2, <2>3
<1>14. Read(f, t, unpacked, wire)
    BY <1>4, <1>5, <1>8, <1>9, <1>10, WireRead
<1>15. ReadFrame(wire, unpacked) = Fail \/ ReadFrame(wire, unpacked) = Got(Decoded(f, t), Size(f))
    BY <1>13, <1>14, Zenon DEF Read
<1> QED
    BY <1>15 DEF Fail, Got

\* While no goroutine is in a write and the connection holds, what is under way
\* begins with a whole frame, or is nothing: ReadFrame waits only for bytes that
\* a goroutine is about to write (write.go:136-318, read.go:131-348).
THEOREM ReadsNeverStarve == Spec => []NoStarvedRead
    BY Invariant, InvNoStarvedRead, PTL

\* All headers that the callers fill in are canonical, as those are that
\* http.Header's methods make.  (DuplicatesRefused shows one that is not.)
HeadersCanonical == \A f \in Frames : HasHeaders(f) => CanonicalHeader(f.headers)

\* A frame with canonical headers is rejected for prohibited fields only, and
\* else read as it was written.
LEMMA Faithful ==
    ASSUME HeadersCanonical, NEW f \in Frames, NEW t, Spells(f, t)
    PROVE  Decoded(f, t) = f /\ (Rejected(f, t) => Prohibited(f))
<1>1. CASE HasHeaders(f)
  <2>1. CanonicalHeader(f.headers) /\ t \in writeHeaderValueBlock(f.headers)
    BY <1>1, Zenon DEF HeadersCanonical, Spells
  <2>2. PICK h : h = f.headers
    OBVIOUS
  <2>3. parseHeaderValueBlock(t).ok /\ parseHeaderValueBlock(t).headers = h
    BY <2>1, <2>2, RoundTrip
  <2>4. Decoded(f, t) = f
    <3>1. Decoded(f, t) = [f EXCEPT !.headers = h]
      BY <1>1, <2>3, Zenon DEF Decoded
    <3>2. WellFormed(f)
      BY FramerAssumption
    <3>3. [f EXCEPT !.headers = h] = f
      BY <1>1, <2>2, <3>2 DEF WellFormed, HasHeaders, SynStream, SynReply, Headers
    <3> QED
      BY <3>1, <3>3
  <2>5. Rejected(f, t) => Prohibited(f)
    BY <1>1, <2>2, <2>3, Zenon DEF Rejected, Prohibited, Invalid
  <2> QED
    BY <2>4, <2>5
<1>2. CASE ~HasHeaders(f)
    BY <1>2, Zenon DEF Decoded, Rejected
<1> QED
    BY <1>1, <1>2

\* The invariant and canonical headers imply ReadsWhatWasWritten and
\* OnlyProhibitedRefused.
LEMMA InvRead == HeadersCanonical => (Inv => ReadsWhatWasWritten /\ OnlyProhibitedRefused)
<1>1. SUFFICES ASSUME HeadersCanonical, Inv PROVE ReadsWhatWasWritten /\ OnlyProhibitedRefused
    OBVIOUS
<1>2. Types
    BY <1>1 DEF Inv
<1>3. PICK at, num, text : Whole(at, num, text)
    BY <1>1, Zenon DEF Inv
<1>4. begun \in Seq(Frames) /\ Chain(begun, at, num, text)
    BY <1>2, <1>3, Counted
<1>5. /\ read \in Seq(Outcomes) /\ Len(read) <= Len(begun)
      /\ \A j \in 1..Len(read) : read[j] = Decoded(begun[j], text[j])
      /\ rerr /\ ~failed =>
            Len(read) < Len(begun) /\ Rejected(begun[Len(read) + 1], text[Len(read) + 1])
    BY <1>3, Zenon DEF Whole, Received
<1>6. ASSUME NEW j \in 1..Len(begun)
      PROVE  /\ Decoded(begun[j], text[j]) = begun[j]
             /\ Rejected(begun[j], text[j]) => Prohibited(begun[j])
  <2>1. begun[j] \in Frames
    BY <1>4
  <2>2. Spells(begun[j], text[j])
    BY <1>4, Zenon DEF Chain, Linked
  <2> QED
    BY <1>1, <2>1, <2>2, Faithful, Zenon
<1>7. PICK N \in Nat, R \in Nat : N = Len(begun) /\ R = Len(read) /\ R <= N
    BY <1>4, <1>5
<1>8. ReadsWhatWasWritten
  <2>1. \A j \in 1..R : j \in 1..N
    BY <1>7
  <2>2. \A j \in 1..R : read[j] = begun[j]
    BY <1>5, <1>6, <1>7, <2>1, Zenon
  <2>3. SubSeq(read, 1, R) = SubSeq(begun, 1, R)
    <3>1. SubSeq(read, 1, R) = [j \in 1..R |-> read[j]]
      BY <1>5, <1>7
    <3>2. SubSeq(begun, 1, R) = [j \in 1..R |-> begun[j]]
      BY <1>4, <1>7
    <3> QED
      BY <2>2, <3>1, <3>2, Zenon
  <2> QED
    BY <1>7, <2>3, Zenon DEF ReadsWhatWasWritten, IsPrefix
<1>9. OnlyProhibitedRefused
  <2>1. R < N => R + 1 \in 1..N
    OBVIOUS
  <2> QED
    BY <1>5, <1>6, <1>7, <2>1, Zenon DEF OnlyProhibitedRefused
<1> QED
    BY <1>8, <1>9

\* Canonical headers given, frames are read as they were written and in the order
\* in which their writing began, whichever goroutines wrote them, whatever the
\* order of the fields in a block, and wherever the connection failed
\* (write.go:136-318, read.go:131-348, session.go:237-241).
THEOREM FramesReadAsWritten ==
    ASSUME HeadersCanonical
    PROVE  Spec => []ReadsWhatWasWritten
<1>1. Inv => ReadsWhatWasWritten
    BY InvRead
<1> QED
    BY <1>1, Invariant, PTL

\* Canonical headers given, ReadFrame ends the session, while the connection
\* holds, only over a field that the peer may not send (read.go:145-175,
\* types.go:231-244, session.go:141-145).
THEOREM OthersAccepted ==
    ASSUME HeadersCanonical
    PROVE  Spec => []OnlyProhibitedRefused
<1>1. Inv => OnlyProhibitedRefused
    BY InvRead
<1> QED
    BY <1>1, Invariant, PTL
================================================================================
