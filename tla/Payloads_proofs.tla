--------------------------- MODULE Payloads_proofs ---------------------------
(***************************************************************************)
(* Base64: decode undoes encode in every locale, both are what RFC 4648    *)
(* says of the bits, and what decode loses of a text that is no encoding   *)
(* shows when its answer is encoded again, for texts of every length that  *)
(* an int of the build can count.  And what Payloads makes of it, for any  *)
(* names and values: a text comes back from Transit, a body tells what it  *)
(* was made of, and a secret comes back as it was written.                 *)
(***************************************************************************)
EXTENDS Payloads, TLAPS, WellFoundedInduction

-----------------------------------------------------------------------------
(* base64: the alphabet and the groups.                                    *)

\* The alphabet: each sextet has a character that decode reads and finds again.
LEMMA Characters ==
  ASSUME NEW s \in Sextet
  PROVE  /\ base64_chars[s] \in 0..127
         /\ base64_chars[s] # Pad
         /\ is_base64(base64_chars[s])
         /\ find(base64_chars[s]) = s
<1>1. /\ base64_chars[s] \in 0..127
      /\ base64_chars[s] # Pad
      /\ base64_chars[s] \in ASCIILetters \cup {43, 47}
  BY DEF base64_chars, Sextet, Pad, ASCIILetters
<1>2. is_base64(base64_chars[s])
  BY <1>1, LettersAssumption DEF is_base64
<1>3. \A t \in Sextet : base64_chars[t] = base64_chars[s] => t = s
  BY DEF base64_chars, Sextet
<1>4. find(base64_chars[s]) = s
  BY <1>3 DEF find
<1> QED BY <1>1, <1>2, <1>4

\* A group of three bytes goes through four sextets unchanged.
LEMMA WholeGroup ==
  ASSUME NEW a \in Byte, NEW b \in Byte, NEW c \in Byte
  PROVE  /\ \A p \in 1..4 : Quad(p, a, b, c) \in Sextet
         /\ \A x, y : Triple(1, Quad(1, a, b, c), Quad(2, a, b, c), x, y) = a
         /\ \A x, y : Triple(2, x, Quad(2, a, b, c), Quad(3, a, b, c), y) = b
         /\ \A x, y : Triple(3, x, y, Quad(3, a, b, c), Quad(4, a, b, c)) = c
<1>1. Quad(1, a, b, c) = a \div 4 /\ a \div 4 \in Sextet
  BY DEF Quad, Byte, Sextet
<1>2. Quad(2, a, b, c) = (a % 4) * 16 + b \div 16
      /\ (a % 4) * 16 + b \div 16 \in Sextet
  BY DEF Quad, Byte, Sextet
<1>3. Quad(3, a, b, c) = (b % 16) * 4 + c \div 64
      /\ (b % 16) * 4 + c \div 64 \in Sextet
  BY DEF Quad, Byte, Sextet
<1>4. Quad(4, a, b, c) = c % 64 /\ c % 64 \in Sextet
  BY DEF Quad, Byte, Sextet
<1>5. \A p \in 1..4 : Quad(p, a, b, c) \in Sextet
  <2> TAKE p \in 1..4
  <2>1. p = 1 \/ p = 2 \/ p = 3 \/ p = 4
    OBVIOUS
  <2> QED BY <2>1, <1>1, <1>2, <1>3, <1>4
<1>6. \A x, y : Triple(1, Quad(1, a, b, c), Quad(2, a, b, c), x, y) = a
  <2> TAKE x, y
  <2>1. Triple(1, Quad(1, a, b, c), Quad(2, a, b, c), x, y)
        = ((a \div 4) * 4 + (((a % 4) * 16 + b \div 16) % 64) \div 16) % 256
    BY <1>1, <1>2 DEF Triple
  <2>2. ((a % 4) * 16 + b \div 16) % 64 = (a % 4) * 16 + b \div 16
    BY <1>2 DEF Sextet
  <2>3. ((a % 4) * 16 + b \div 16) \div 16 = a % 4
    BY DEF Byte
  <2>4. ((a \div 4) * 4 + (a % 4)) % 256 = a
    BY DEF Byte
  <2> QED BY <2>1, <2>2, <2>3, <2>4
<1>7. \A x, y : Triple(2, x, Quad(2, a, b, c), Quad(3, a, b, c), y) = b
  <2> TAKE x, y
  <2>1. Triple(2, x, Quad(2, a, b, c), Quad(3, a, b, c), y)
        = ((((a % 4) * 16 + b \div 16) % 16) * 16
           + (((b % 16) * 4 + c \div 64) % 64) \div 4) % 256
    BY <1>2, <1>3 DEF Triple
  <2>2. ((a % 4) * 16 + b \div 16) % 16 = b \div 16
    BY DEF Byte
  <2>3. (((b % 16) * 4 + c \div 64) % 64) \div 4 = b % 16
    BY DEF Byte
  <2>4. ((b \div 16) * 16 + (b % 16)) % 256 = b
    BY DEF Byte
  <2> QED BY <2>1, <2>2, <2>3, <2>4
<1>8. \A x, y : Triple(3, x, y, Quad(3, a, b, c), Quad(4, a, b, c)) = c
  <2> TAKE x, y
  <2>1. Triple(3, x, y, Quad(3, a, b, c), Quad(4, a, b, c))
        = ((((b % 16) * 4 + c \div 64) % 4) * 64 + (c % 64)) % 256
    BY <1>3, <1>4 DEF Triple
  <2>2. ((b % 16) * 4 + c \div 64) % 4 = c \div 64
    BY DEF Byte
  <2>3. ((c \div 64) * 64 + (c % 64)) % 256 = c
    BY DEF Byte
  <2> QED BY <2>1, <2>2, <2>3
<1> QED BY <1>5, <1>6, <1>7, <1>8

\* The characters of encode_bytes(str): at every place up to the padding the
\* character of a sextet of the group, from there on the padding.
LEMMA Encoded ==
  ASSUME NEW str \in Seq(Byte)
  PROVE  /\ \A i \in Nat : ByteAt(str, i) \in Byte
         /\ Len(encode_bytes(str)) = 4 * ((Len(str) + 2) \div 3)
         /\ DOMAIN encode_bytes(str) = 1 .. 4 * ((Len(str) + 2) \div 3)
         /\ \A g \in Nat, p \in 1..4 :
              4 * g + p <= 4 * ((Len(str) + 2) \div 3) =>
                encode_bytes(str)[4 * g + p] =
                  IF p > Len(str) - 3 * g + 1 THEN Pad
                  ELSE base64_chars[Quad(p, ByteAt(str, 3 * g + 1),
                                            ByteAt(str, 3 * g + 2),
                                            ByteAt(str, 3 * g + 3))]
<1> DEFINE n == Len(str)
           L == 4 * ((n + 2) \div 3)
           Place(g, p) == IF p > n - 3 * g + 1 THEN Pad
                          ELSE base64_chars[Quad(p, ByteAt(str, 3 * g + 1),
                                                    ByteAt(str, 3 * g + 2),
                                                    ByteAt(str, 3 * g + 3))]
<1>1. n \in Nat /\ L \in Nat
  OBVIOUS
<1>2. \A i \in Nat : ByteAt(str, i) \in Byte
  <2> TAKE i \in Nat
  <2>1. CASE i \in 1..Len(str)
    <3>1. str[i] \in Byte
      BY <2>1
    <3> QED BY <2>1, <3>1 DEF ByteAt
  <2>2. CASE i \notin 1..Len(str)
    BY <2>2 DEF ByteAt, Byte
  <2> QED BY <2>1, <2>2
<1>3. encode_bytes(str) = [k \in 1..L |-> Place((k - 1) \div 4, ((k - 1) % 4) + 1)]
  BY DEF encode_bytes
<1>4. Len(encode_bytes(str)) = L /\ DOMAIN encode_bytes(str) = 1..L
  BY <1>1, <1>3
<1>5. ASSUME NEW g \in Nat, NEW p \in 1..4, 4 * g + p <= L
      PROVE  encode_bytes(str)[4 * g + p] = Place(g, p)
  <2>1. 4 * g + p \in 1..L
    BY <1>1, <1>5
  <2>2. ((4 * g + p) - 1) \div 4 = g /\ (((4 * g + p) - 1) % 4) + 1 = p
    OBVIOUS
  <2> HIDE DEF Place
  <2>3. encode_bytes(str)[4 * g + p]
        = Place(((4 * g + p) - 1) \div 4, (((4 * g + p) - 1) % 4) + 1)
    BY <1>3, <2>1
  <2> QED BY <2>2, <2>3
<1> QED BY <1>2, <1>4, <1>5

\* Division by the size of a group.
LEMMA Groups ==
  ASSUME NEW n \in Nat
  PROVE  \E q \in Nat, r \in 0..2 :
           /\ n = 3 * q + r
           /\ n \div 3 = q /\ n % 3 = r
           /\ (n + 2) \div 3 = IF r = 0 THEN q ELSE q + 1
<1>1. n \div 3 \in Nat /\ n % 3 \in 0..2 /\ n = 3 * (n \div 3) + (n % 3)
  OBVIOUS
<1>2. (n + 2) \div 3 = IF n % 3 = 0 THEN n \div 3 ELSE (n \div 3) + 1
  OBVIOUS
<1> QED BY <1>1, <1>2

\* Every position is a place of some group of four characters.
LEMMA Places ==
  ASSUME NEW i \in Nat \ {0}
  PROVE  \E g \in Nat, p \in 1..4 : i = 4 * g + p
<1>1. (i - 1) \div 4 \in Nat /\ ((i - 1) % 4) + 1 \in 1..4
      /\ i = 4 * ((i - 1) \div 4) + (((i - 1) % 4) + 1)
  OBVIOUS
<1> QED BY <1>1

\* Every place of a quad holds a sextet.
LEMMA QuadIsSextet ==
  ASSUME NEW p \in 1..4, NEW a \in Byte, NEW b \in Byte, NEW c \in Byte
  PROVE  Quad(p, a, b, c) \in Sextet
BY WholeGroup

\* How many characters of encode_bytes(str) come before the padding.
Significant(n) == 4 * (n \div 3) + (IF n % 3 = 0 THEN 0 ELSE (n % 3) + 1)

\* decode reads an encoded text up to its padding.
LEMMA ReadToPadding ==
  ASSUME NEW str \in Seq(Byte)
  PROVE  /\ Read(encode_bytes(str)) = Significant(Len(str))
         /\ Significant(Len(str)) \in 0..Len(encode_bytes(str))
<1> DEFINE code == encode_bytes(str)
           Ends(m) == /\ \A i \in 1..m : code[i] # Pad /\ is_base64(code[i])
                      /\ m < Len(code) =>
                           code[m + 1] = Pad \/ ~is_base64(code[m + 1])
<1>0. Len(str) \in Nat
  OBVIOUS
<1>1. PICK q \in Nat, r \in 0..2 :
        /\ Len(str) = 3 * q + r
        /\ (Len(str) + 2) \div 3 = IF r = 0 THEN q ELSE q + 1
        /\ Significant(Len(str)) = 4 * q + (IF r = 0 THEN 0 ELSE r + 1)
  BY <1>0, Groups DEF Significant
<1> DEFINE R == 4 * q + (IF r = 0 THEN 0 ELSE r + 1)
<1>2. Len(code) = IF r = 0 THEN 4 * q ELSE 4 * q + 4
  BY <1>1, Encoded
<1>3. ASSUME NEW i \in 1..R
      PROVE  code[i] # Pad /\ is_base64(code[i])
  <2>0. i \in Nat \ {0} /\ i <= R
    OBVIOUS
  <2>1. PICK g \in Nat, p \in 1..4 : i = 4 * g + p
    BY <2>0, Places
  <2>2. /\ 4 * g + p <= 4 * ((Len(str) + 2) \div 3)
        /\ ~(p > Len(str) - 3 * g + 1)
    BY <1>1, <2>0, <2>1
  <2>3. code[i] = base64_chars[Quad(p, ByteAt(str, 3 * g + 1),
                                       ByteAt(str, 3 * g + 2),
                                       ByteAt(str, 3 * g + 3))]
    BY <2>1, <2>2, Encoded
  <2>4. 3 * g + 1 \in Nat /\ 3 * g + 2 \in Nat /\ 3 * g + 3 \in Nat
    OBVIOUS
  <2>5. Quad(p, ByteAt(str, 3 * g + 1), ByteAt(str, 3 * g + 2),
                ByteAt(str, 3 * g + 3)) \in Sextet
    BY <2>4, Encoded, QuadIsSextet
  <2> QED BY <2>3, <2>5, Characters
<1>4. ASSUME R < Len(code)
      PROVE  code[R + 1] = Pad
  <2>1. r \in 1..2 /\ r + 2 \in 1..4 /\ R + 1 = 4 * q + (r + 2)
    BY <1>2, <1>4
  <2>2. /\ 4 * q + (r + 2) <= 4 * ((Len(str) + 2) \div 3)
        /\ r + 2 > Len(str) - 3 * q + 1
    BY <1>1, <2>1
  <2> QED BY <2>1, <2>2, Encoded
<1>5. R \in 0..Len(code) /\ Len(code) \in Nat
  BY <1>2
<1>6. Ends(R)
  BY <1>3, <1>4
<1> HIDE DEF R
<1>7. ASSUME NEW m \in 0..Len(code), Ends(m)
      PROVE  m = R
  <2>1. CASE m < R
    <3>1. m + 1 \in 1..R /\ m < Len(code)
      BY <1>5, <2>1
    <3> QED BY <1>3, <1>7, <3>1
  <2>2. CASE m > R
    <3>1. R + 1 \in 1..m /\ R < Len(code)
      BY <1>5, <2>2
    <3> QED BY <1>4, <1>7, <3>1
  <2> QED BY <1>5, <2>1, <2>2
<1>8. Read(code) = CHOOSE m \in 0..Len(code) : Ends(m)
  BY DEF Read
<1>9. Significant(Len(str)) = R
  BY <1>1 DEF R
<1> HIDE DEF Ends
<1> QED BY <1>5, <1>6, <1>7, <1>8, <1>9

-----------------------------------------------------------------------------
(* There and back.                                                         *)

\* Group by group nothing is lost, whatever letters the locale adds, and neither is
\* anything of the last, partial group (Base64.cpp, 40-59 and 98-115).
LEMMA GroupsComeBack ==
  \A str \in Seq(Byte) : decode_groups(encode_bytes(str)) = str
<1> SUFFICES ASSUME NEW str \in Seq(Byte)
             PROVE  decode_groups(encode_bytes(str)) = str
  OBVIOUS
<1> DEFINE n == Len(str)
           code == encode_bytes(str)
           Q(g, p) == Quad(p, ByteAt(str, 3 * g + 1), ByteAt(str, 3 * g + 2),
                              ByteAt(str, 3 * g + 3))
<1>0. n \in Nat
  OBVIOUS
<1>1. PICK q \in Nat, r \in 0..2 :
        /\ n = 3 * q + r
        /\ (n + 2) \div 3 = IF r = 0 THEN q ELSE q + 1
        /\ Significant(n) = 4 * q + (IF r = 0 THEN 0 ELSE r + 1)
  BY <1>0, Groups DEF Significant
<1>2. Read(code) = 4 * q + (IF r = 0 THEN 0 ELSE r + 1)
  BY <1>1, ReadToPadding
<1>3. Decoded(Read(code)) = n
  <2>1. CASE r = 0
    BY <1>1, <1>2, <2>1 DEF Decoded
  <2>2. CASE r # 0
    <3>1. Read(code) = 4 * q + (r + 1)
      BY <1>2, <2>2
    <3>2. (4 * q + (r + 1)) \div 4 = q /\ (4 * q + (r + 1)) % 4 = r + 1
      BY <2>2
    <3> QED BY <1>1, <2>2, <3>1, <3>2 DEF Decoded
  <2> QED BY <2>1, <2>2
<1>4. ASSUME NEW g \in Nat, NEW p \in 1..4, 3 * g + 1 <= n, 3 * g + p <= n + 1
      PROVE  ValueAt(code, 4 * g + p) = Q(g, p)
  <2>1. 4 * g + p <= Read(code)
    <3>1. g < q \/ (g = q /\ r # 0 /\ p <= r + 1)
      BY <1>1, <1>4
    <3>2. CASE g < q
      BY <1>2, <3>2
    <3>3. CASE g = q /\ r # 0 /\ p <= r + 1
      BY <1>2, <3>3
    <3> QED BY <3>1, <3>2, <3>3
  <2>2. /\ 4 * g + p <= 4 * ((n + 2) \div 3)
        /\ ~(p > n - 3 * g + 1)
    BY <1>1, <1>4
  <2>3. code[4 * g + p] = base64_chars[Q(g, p)]
    BY <2>2, Encoded
  <2>4. 3 * g + 1 \in Nat /\ 3 * g + 2 \in Nat /\ 3 * g + 3 \in Nat
    OBVIOUS
  <2>5. Q(g, p) \in Sextet
    BY <2>4, Encoded, QuadIsSextet
  <2> HIDE DEF Q
  <2>6. find(code[4 * g + p]) = Q(g, p)
    BY <2>3, <2>5, Characters
  <2> QED BY <2>1, <2>6 DEF ValueAt
<1> DEFINE Byte3(g, p) == Triple(p, ValueAt(code, 4 * g + 1),
                                    ValueAt(code, 4 * g + 2),
                                    ValueAt(code, 4 * g + 3),
                                    ValueAt(code, 4 * g + 4))
<1>5. ASSUME NEW g \in Nat, NEW p \in 1..3, 3 * g + p <= n
      PROVE  Byte3(g, p) = str[3 * g + p]
  <2>1. 3 * g + p \in 1..Len(str)
    BY <1>0, <1>5
  <2>2. ByteAt(str, 3 * g + p) = str[3 * g + p]
    BY <2>1 DEF ByteAt
  <2>3. /\ ByteAt(str, 3 * g + 1) \in Byte
        /\ ByteAt(str, 3 * g + 2) \in Byte
        /\ ByteAt(str, 3 * g + 3) \in Byte
    <3>1. 3 * g + 1 \in Nat /\ 3 * g + 2 \in Nat /\ 3 * g + 3 \in Nat
      OBVIOUS
    <3> QED BY <3>1, Encoded
  <2>4. 3 * g + 1 <= n /\ 3 * g + p <= n + 1 /\ 3 * g + (p + 1) <= n + 1
    BY <1>0, <1>5
  <2>5. p \in 1..4 /\ p + 1 \in 1..4
    OBVIOUS
  <2>6. /\ ValueAt(code, 4 * g + p) = Q(g, p)
        /\ ValueAt(code, 4 * g + (p + 1)) = Q(g, p + 1)
    BY <2>4, <2>5, <1>4
  <2>7. CASE p = 1
    <3>1. /\ ValueAt(code, 4 * g + 1) = Q(g, 1)
          /\ ValueAt(code, 4 * g + 2) = Q(g, 2)
      BY <2>6, <2>7
    <3>2. Byte3(g, 1) = ByteAt(str, 3 * g + 1)
      BY <2>3, <3>1, WholeGroup
    <3> QED BY <2>2, <2>7, <3>2
  <2>8. CASE p = 2
    <3>1. /\ ValueAt(code, 4 * g + 2) = Q(g, 2)
          /\ ValueAt(code, 4 * g + 3) = Q(g, 3)
      BY <2>6, <2>8
    <3>2. Byte3(g, 2) = ByteAt(str, 3 * g + 2)
      BY <2>3, <3>1, WholeGroup
    <3> QED BY <2>2, <2>8, <3>2
  <2>9. CASE p = 3
    <3>1. /\ ValueAt(code, 4 * g + 3) = Q(g, 3)
          /\ ValueAt(code, 4 * g + 4) = Q(g, 4)
      BY <2>6, <2>9
    <3>2. Byte3(g, 3) = ByteAt(str, 3 * g + 3)
      BY <2>3, <3>1, WholeGroup
    <3> QED BY <2>2, <2>9, <3>2
  <2> QED BY <2>7, <2>8, <2>9
<1>6. decode_groups(code) = [k \in 1..n |-> Byte3((k - 1) \div 3, ((k - 1) % 3) + 1)]
  BY <1>3 DEF decode_groups
<1> HIDE DEF Byte3
<1>7. ASSUME NEW k \in 1..n
      PROVE  decode_groups(code)[k] = str[k]
  <2>1. /\ (k - 1) \div 3 \in Nat /\ ((k - 1) % 3) + 1 \in 1..3
        /\ 3 * ((k - 1) \div 3) + (((k - 1) % 3) + 1) = k
    BY <1>0
  <2>2. k <= n
    BY <1>0
  <2>3. Byte3((k - 1) \div 3, ((k - 1) % 3) + 1)
        = str[3 * ((k - 1) \div 3) + (((k - 1) % 3) + 1)]
    BY <2>1, <2>2, <1>5
  <2> QED BY <1>6, <2>1, <2>3
<1>8. str = [k \in 1..n |-> str[k]]
  OBVIOUS
<1> QED BY <1>6, <1>7, <1>8

-----------------------------------------------------------------------------
(* encode, bit by bit.                                                     *)

\* The powers of two that a byte is made of.
LEMMA Powers ==
  /\ Power[1] = 1 /\ Power[2] = 2 /\ Power[3] = 4 /\ Power[4] = 8
  /\ Power[5] = 16 /\ Power[6] = 32 /\ Power[7] = 64 /\ Power[8] = 128
BY DEF Power

\* The bits of a byte, the first one first.
LEMMA BitsOfByte ==
  ASSUME NEW a \in Byte
  PROVE  \E x1, x2, x3, x4, x5, x6, x7, x8 \in {0, 1} :
           /\ a = 128 * x1 + 64 * x2 + 32 * x3 + 16 * x4 + 8 * x5 + 4 * x6 + 2 * x7 + x8
           /\ (a \div 128) % 2 = x1
           /\ (a \div 64) % 2 = x2
           /\ (a \div 32) % 2 = x3
           /\ (a \div 16) % 2 = x4
           /\ (a \div 8) % 2 = x5
           /\ (a \div 4) % 2 = x6
           /\ (a \div 2) % 2 = x7
           /\ (a \div 1) % 2 = x8
<1>1. \A n \in Nat : n % 2 \in {0, 1} /\ n = 2 * (n \div 2) + (n % 2)
  OBVIOUS
<1>2. /\ a \div 1 = a /\ a \div 2 \in Nat /\ a \div 4 = (a \div 2) \div 2
      /\ a \div 8 = (a \div 4) \div 2
      /\ a \div 16 = (a \div 8) \div 2
      /\ a \div 32 = (a \div 16) \div 2
      /\ a \div 64 = (a \div 32) \div 2
      /\ a \div 128 = (a \div 64) \div 2
      /\ a \div 128 \in {0, 1}
  BY DEF Byte
<1> QED BY <1>1, <1>2 DEF Byte


\* Bit j of a word of w bits, as Bit takes it out of a string of them.
BitOf(a, w, j) == (a \div Power[w - j]) % 2

\* A byte and its parts, as Quad cuts it, in bits.
LEMMA PartsOfByte ==
  ASSUME NEW a \in Byte
  PROVE  /\ \A j \in 0..7 : BitOf(a, 8, j) \in {0, 1}
         /\ a \div 4 = BitOf(a, 8, 0) * 32 + BitOf(a, 8, 1) * 16 + BitOf(a, 8, 2) * 8
                     + BitOf(a, 8, 3) * 4 + BitOf(a, 8, 4) * 2 + BitOf(a, 8, 5)
         /\ a % 4 = BitOf(a, 8, 6) * 2 + BitOf(a, 8, 7)
         /\ a \div 16 = BitOf(a, 8, 0) * 8 + BitOf(a, 8, 1) * 4 + BitOf(a, 8, 2) * 2
                      + BitOf(a, 8, 3)
         /\ a % 16 = BitOf(a, 8, 4) * 8 + BitOf(a, 8, 5) * 4 + BitOf(a, 8, 6) * 2
                   + BitOf(a, 8, 7)
         /\ a \div 64 = BitOf(a, 8, 0) * 2 + BitOf(a, 8, 1)
         /\ a % 64 = BitOf(a, 8, 2) * 32 + BitOf(a, 8, 3) * 16 + BitOf(a, 8, 4) * 8
                   + BitOf(a, 8, 5) * 4 + BitOf(a, 8, 6) * 2 + BitOf(a, 8, 7)
<1>1. PICK x1, x2, x3, x4, x5, x6, x7, x8 \in {0, 1} :
        /\ a = 128 * x1 + 64 * x2 + 32 * x3 + 16 * x4 + 8 * x5 + 4 * x6 + 2 * x7 + x8
        /\ (a \div 128) % 2 = x1
        /\ (a \div 64) % 2 = x2
        /\ (a \div 32) % 2 = x3
        /\ (a \div 16) % 2 = x4
        /\ (a \div 8) % 2 = x5
        /\ (a \div 4) % 2 = x6
        /\ (a \div 2) % 2 = x7
        /\ (a \div 1) % 2 = x8
  BY BitsOfByte
<1>2. /\ BitOf(a, 8, 0) = x1 /\ BitOf(a, 8, 1) = x2 /\ BitOf(a, 8, 2) = x3
      /\ BitOf(a, 8, 3) = x4 /\ BitOf(a, 8, 4) = x5 /\ BitOf(a, 8, 5) = x6
      /\ BitOf(a, 8, 6) = x7 /\ BitOf(a, 8, 7) = x8
  <2>1. /\ 8 - 0 = 8 /\ 8 - 1 = 7 /\ 8 - 2 = 6 /\ 8 - 3 = 5 /\ 8 - 4 = 4
        /\ 8 - 5 = 3 /\ 8 - 6 = 2 /\ 8 - 7 = 1
    OBVIOUS
  <2> QED BY <1>1, <2>1, Powers DEF BitOf
<1>3. \A j \in 0..7 : j \in {0, 1, 2, 3, 4, 5, 6, 7}
  OBVIOUS
<1>4. \A j \in 0..7 : BitOf(a, 8, j) \in {0, 1}
  BY <1>1, <1>2, <1>3
<1>5. a \div 4 = x1 * 32 + x2 * 16 + x3 * 8 + x4 * 4 + x5 * 2 + x6
      /\ a % 4 = x7 * 2 + x8
  BY <1>1
<1>6. a \div 16 = x1 * 8 + x2 * 4 + x3 * 2 + x4
      /\ a % 16 = x5 * 8 + x6 * 4 + x7 * 2 + x8
  BY <1>1
<1>7. a \div 64 = x1 * 2 + x2
      /\ a % 64 = x3 * 32 + x4 * 16 + x5 * 8 + x6 * 4 + x7 * 2 + x8
  BY <1>1
<1> QED BY <1>2, <1>4, <1>5, <1>6, <1>7

\* The four sextets of three bytes, in bits.
LEMMA SextetsOfBytes ==
  ASSUME NEW a \in Byte, NEW b \in Byte, NEW c \in Byte
  PROVE  /\ Quad(1, a, b, c)
              = BitOf(a, 8, 0) * 32 + BitOf(a, 8, 1) * 16 + BitOf(a, 8, 2) * 8
                + BitOf(a, 8, 3) * 4 + BitOf(a, 8, 4) * 2 + BitOf(a, 8, 5) * 1 + 0 + 0
         /\ Quad(2, a, b, c)
              = BitOf(a, 8, 6) * 32 + BitOf(a, 8, 7) * 16 + BitOf(b, 8, 0) * 8
                + BitOf(b, 8, 1) * 4 + BitOf(b, 8, 2) * 2 + BitOf(b, 8, 3) * 1 + 0 + 0
         /\ Quad(3, a, b, c)
              = BitOf(b, 8, 4) * 32 + BitOf(b, 8, 5) * 16 + BitOf(b, 8, 6) * 8
                + BitOf(b, 8, 7) * 4 + BitOf(c, 8, 0) * 2 + BitOf(c, 8, 1) * 1 + 0 + 0
         /\ Quad(4, a, b, c)
              = BitOf(c, 8, 2) * 32 + BitOf(c, 8, 3) * 16 + BitOf(c, 8, 4) * 8
                + BitOf(c, 8, 5) * 4 + BitOf(c, 8, 6) * 2 + BitOf(c, 8, 7) * 1 + 0 + 0
<1>1. /\ Quad(1, a, b, c) = a \div 4
      /\ Quad(2, a, b, c) = (a % 4) * 16 + b \div 16
      /\ Quad(3, a, b, c) = (b % 16) * 4 + c \div 64
      /\ Quad(4, a, b, c) = c % 64
  BY DEF Quad
<1>2. \A j \in 0..7 : /\ BitOf(a, 8, j) \in Int /\ BitOf(b, 8, j) \in Int
                      /\ BitOf(c, 8, j) \in Int
  BY PartsOfByte
<1>3. Quad(1, a, b, c)
        = BitOf(a, 8, 0) * 32 + BitOf(a, 8, 1) * 16 + BitOf(a, 8, 2) * 8
          + BitOf(a, 8, 3) * 4 + BitOf(a, 8, 4) * 2 + BitOf(a, 8, 5) * 1 + 0 + 0
  BY <1>1, PartsOfByte
<1>4. Quad(2, a, b, c)
        = BitOf(a, 8, 6) * 32 + BitOf(a, 8, 7) * 16 + BitOf(b, 8, 0) * 8
          + BitOf(b, 8, 1) * 4 + BitOf(b, 8, 2) * 2 + BitOf(b, 8, 3) * 1 + 0 + 0
  BY <1>1, <1>2, PartsOfByte
<1>5. Quad(3, a, b, c)
        = BitOf(b, 8, 4) * 32 + BitOf(b, 8, 5) * 16 + BitOf(b, 8, 6) * 8
          + BitOf(b, 8, 7) * 4 + BitOf(c, 8, 0) * 2 + BitOf(c, 8, 1) * 1 + 0 + 0
  BY <1>1, <1>2, PartsOfByte
<1>6. Quad(4, a, b, c)
        = BitOf(c, 8, 2) * 32 + BitOf(c, 8, 3) * 16 + BitOf(c, 8, 4) * 8
          + BitOf(c, 8, 5) * 4 + BitOf(c, 8, 6) * 2 + BitOf(c, 8, 7) * 1 + 0 + 0
  BY <1>1, PartsOfByte
<1> QED BY <1>3, <1>4, <1>5, <1>6

\* Bit j of word i of a string of words of w bits.
LEMMA BitAt ==
  ASSUME NEW words, NEW i \in Nat
  PROVE  /\ \A j \in 0..7 : Bit(words, 8, 8 * i + j)
                              = IF i < Len(words) THEN BitOf(words[i + 1], 8, j) ELSE 0
         /\ \A j \in 0..5 : Bit(words, 6, 6 * i + j)
                              = IF i < Len(words) THEN BitOf(words[i + 1], 6, j) ELSE 0
<1>1. ASSUME NEW j \in 0..7
      PROVE  Bit(words, 8, 8 * i + j)
               = IF i < Len(words) THEN BitOf(words[i + 1], 8, j) ELSE 0
  <2>1. (8 * i + j) \div 8 = i /\ (8 * i + j) % 8 = j
    OBVIOUS
  <2> QED BY <2>1 DEF Bit, BitOf
<1>2. ASSUME NEW j \in 0..5
      PROVE  Bit(words, 6, 6 * i + j)
               = IF i < Len(words) THEN BitOf(words[i + 1], 6, j) ELSE 0
  <2>1. (6 * i + j) \div 6 = i /\ (6 * i + j) % 6 = j
    OBVIOUS
  <2> QED BY <2>1 DEF Bit, BitOf
<1> QED BY <1>1, <1>2

\* A sextet and its parts, as Triple puts them together, in bits.
LEMMA PartsOfSextet ==
  ASSUME NEW s \in Sextet
  PROVE  /\ \A j \in 0..5 : BitOf(s, 6, j) \in {0, 1}
         /\ s = BitOf(s, 6, 0) * 32 + BitOf(s, 6, 1) * 16 + BitOf(s, 6, 2) * 8
              + BitOf(s, 6, 3) * 4 + BitOf(s, 6, 4) * 2 + BitOf(s, 6, 5)
         /\ (s % 64) \div 16 = BitOf(s, 6, 0) * 2 + BitOf(s, 6, 1)
         /\ s % 16 = BitOf(s, 6, 2) * 8 + BitOf(s, 6, 3) * 4 + BitOf(s, 6, 4) * 2
                   + BitOf(s, 6, 5)
         /\ (s % 64) \div 4 = BitOf(s, 6, 0) * 8 + BitOf(s, 6, 1) * 4 + BitOf(s, 6, 2) * 2
                            + BitOf(s, 6, 3)
         /\ s % 4 = BitOf(s, 6, 4) * 2 + BitOf(s, 6, 5)
<1>1. s \in Byte /\ s % 64 = s
  BY DEF Sextet, Byte
<1>2. \A j \in 0..5 : 6 - j = 8 - (j + 2) /\ j + 2 \in 0..7
  OBVIOUS
<1>3. \A j \in 0..5 : BitOf(s, 6, j) = BitOf(s, 8, j + 2)
  BY <1>2 DEF BitOf
<1>4. /\ BitOf(s, 6, 0) = BitOf(s, 8, 2) /\ BitOf(s, 6, 1) = BitOf(s, 8, 3)
      /\ BitOf(s, 6, 2) = BitOf(s, 8, 4) /\ BitOf(s, 6, 3) = BitOf(s, 8, 5)
      /\ BitOf(s, 6, 4) = BitOf(s, 8, 6) /\ BitOf(s, 6, 5) = BitOf(s, 8, 7)
  BY <1>3
<1>5. \A j \in 0..7 : BitOf(s, 8, j) \in {0, 1}
  BY <1>1, PartsOfByte
<1>6. BitOf(s, 8, 0) \in {0, 1} /\ BitOf(s, 8, 1) \in {0, 1}
  BY <1>5
<1>7. s \div 64 = 0
  BY DEF Sextet
<1>8. BitOf(s, 8, 0) = 0 /\ BitOf(s, 8, 1) = 0
  BY <1>1, <1>6, <1>7, PartsOfByte
<1>9. \A j \in 0..5 : BitOf(s, 6, j) \in {0, 1}
  BY <1>2, <1>3, <1>5
<1>10. s = BitOf(s, 6, 0) * 32 + BitOf(s, 6, 1) * 16 + BitOf(s, 6, 2) * 8
             + BitOf(s, 6, 3) * 4 + BitOf(s, 6, 4) * 2 + BitOf(s, 6, 5)
  BY <1>1, <1>4, PartsOfByte
<1>11. (s % 64) \div 16 = BitOf(s, 6, 0) * 2 + BitOf(s, 6, 1)
  <2>1. s \div 16 = BitOf(s, 8, 0) * 8 + BitOf(s, 8, 1) * 4 + BitOf(s, 8, 2) * 2
                  + BitOf(s, 8, 3)
    BY <1>1, PartsOfByte
  <2> QED BY <1>1, <1>4, <1>8, <1>5, <2>1
<1>12. (s % 64) \div 4 = BitOf(s, 6, 0) * 8 + BitOf(s, 6, 1) * 4 + BitOf(s, 6, 2) * 2
                       + BitOf(s, 6, 3)
  <2>1. s \div 4 = BitOf(s, 8, 0) * 32 + BitOf(s, 8, 1) * 16 + BitOf(s, 8, 2) * 8
                 + BitOf(s, 8, 3) * 4 + BitOf(s, 8, 4) * 2 + BitOf(s, 8, 5)
    BY <1>1, PartsOfByte
  <2> QED BY <1>1, <1>4, <1>8, <1>5, <2>1
<1>13. /\ s % 16 = BitOf(s, 6, 2) * 8 + BitOf(s, 6, 3) * 4 + BitOf(s, 6, 4) * 2
                 + BitOf(s, 6, 5)
       /\ s % 4 = BitOf(s, 6, 4) * 2 + BitOf(s, 6, 5)
  BY <1>1, <1>4, PartsOfByte
<1> QED BY <1>9, <1>10, <1>11, <1>12, <1>13

\* A word of six and one of eight bits.
LEMMA WordOfBits ==
  ASSUME NEW words, NEW i
  PROVE  /\ Word(words, 8, 6, i)
              = Bit(words, 8, (i - 1) * 6 + 0) * 32 + Bit(words, 8, (i - 1) * 6 + 1) * 16
                + Bit(words, 8, (i - 1) * 6 + 2) * 8 + Bit(words, 8, (i - 1) * 6 + 3) * 4
                + Bit(words, 8, (i - 1) * 6 + 4) * 2 + Bit(words, 8, (i - 1) * 6 + 5) * 1
                + 0 + 0
         /\ Word(words, 6, 8, i)
              = Bit(words, 6, (i - 1) * 8 + 0) * 128 + Bit(words, 6, (i - 1) * 8 + 1) * 64
                + Bit(words, 6, (i - 1) * 8 + 2) * 32 + Bit(words, 6, (i - 1) * 8 + 3) * 16
                + Bit(words, 6, (i - 1) * 8 + 4) * 8 + Bit(words, 6, (i - 1) * 8 + 5) * 4
                + Bit(words, 6, (i - 1) * 8 + 6) * 2 + Bit(words, 6, (i - 1) * 8 + 7) * 1
<1>1. /\ 8 - 0 = 8 /\ 8 - 1 = 7 /\ 8 - 2 = 6 /\ 8 - 3 = 5 /\ 8 - 4 = 4
      /\ 8 - 5 = 3 /\ 8 - 6 = 2 /\ 8 - 7 = 1
      /\ 6 - 0 = 6 /\ 6 - 1 = 5 /\ 6 - 2 = 4 /\ 6 - 3 = 3 /\ 6 - 4 = 2 /\ 6 - 5 = 1
      /\ ~(6 < 6) /\ ~(7 < 6)
      /\ \A j \in {0, 1, 2, 3, 4, 5} : j < 6
      /\ \A j \in {0, 1, 2, 3, 4, 5, 6, 7} : j < 8
  OBVIOUS
<1> QED BY <1>1, Powers DEF Word

\* The sextets of a byte string are the ones that Quad makes, group by group.
LEMMA SextetsAreQuads ==
  ASSUME NEW str \in Seq(Byte), NEW g \in Nat, NEW p \in 1..4
  PROVE  Word(str, 8, 6, 4 * g + p)
           = Quad(p, ByteAt(str, 3 * g + 1), ByteAt(str, 3 * g + 2),
                     ByteAt(str, 3 * g + 3))
<1> DEFINE a == ByteAt(str, 3 * g + 1)
           b == ByteAt(str, 3 * g + 2)
           c == ByteAt(str, 3 * g + 3)
<1>1. /\ a \in Byte /\ b \in Byte /\ c \in Byte
      /\ 3 * g \in Nat /\ 3 * g + 1 \in Nat /\ 3 * g + 2 \in Nat /\ 3 * g + 3 \in Nat
  BY Encoded
<1>3. ASSUME NEW i \in Nat, NEW j \in 0..7
      PROVE  Bit(str, 8, 8 * i + j) = BitOf(ByteAt(str, i + 1), 8, j)
  <2>1. Bit(str, 8, 8 * i + j) = IF i < Len(str) THEN BitOf(str[i + 1], 8, j) ELSE 0
    BY BitAt
  <2>2. i < Len(str) <=> i + 1 \in 1..Len(str)
    OBVIOUS
  <2>3. BitOf(0, 8, j) = 0
    <3>1. Power[8 - j] \in {1, 2, 4, 8, 16, 32, 64, 128}
      <4>1. 8 - j \in {1, 2, 3, 4, 5, 6, 7, 8}
        OBVIOUS
      <4> QED BY <4>1, Powers
    <3>2. \A d \in {1, 2, 4, 8, 16, 32, 64, 128} : (0 \div d) % 2 = 0
      OBVIOUS
    <3> QED BY <3>1, <3>2 DEF BitOf
  <2> QED BY <2>1, <2>2, <2>3 DEF ByteAt
<1>4. \A j \in 0..7 : /\ Bit(str, 8, 8 * (3 * g) + j) = BitOf(a, 8, j)
                      /\ Bit(str, 8, 8 * (3 * g + 1) + j) = BitOf(b, 8, j)
                      /\ Bit(str, 8, 8 * (3 * g + 2) + j) = BitOf(c, 8, j)
  <2>1. (3 * g + 1) + 1 = 3 * g + 2 /\ (3 * g + 2) + 1 = 3 * g + 3
    OBVIOUS
  <2> QED BY <1>1, <1>3, <2>1
<1>5. a \in Byte /\ b \in Byte /\ c \in Byte
  BY <1>1
<1> HIDE DEF a, b, c
<1>6. CASE p = 1
  <2>1. /\ ((4 * g + 1) - 1) * 6 + 0 = 8 * (3 * g) + 0
        /\ ((4 * g + 1) - 1) * 6 + 1 = 8 * (3 * g) + 1
        /\ ((4 * g + 1) - 1) * 6 + 2 = 8 * (3 * g) + 2
        /\ ((4 * g + 1) - 1) * 6 + 3 = 8 * (3 * g) + 3
        /\ ((4 * g + 1) - 1) * 6 + 4 = 8 * (3 * g) + 4
        /\ ((4 * g + 1) - 1) * 6 + 5 = 8 * (3 * g) + 5
    OBVIOUS
  <2>2. /\ Bit(str, 8, ((4 * g + 1) - 1) * 6 + 0) = BitOf(a, 8, 0)
        /\ Bit(str, 8, ((4 * g + 1) - 1) * 6 + 1) = BitOf(a, 8, 1)
        /\ Bit(str, 8, ((4 * g + 1) - 1) * 6 + 2) = BitOf(a, 8, 2)
        /\ Bit(str, 8, ((4 * g + 1) - 1) * 6 + 3) = BitOf(a, 8, 3)
        /\ Bit(str, 8, ((4 * g + 1) - 1) * 6 + 4) = BitOf(a, 8, 4)
        /\ Bit(str, 8, ((4 * g + 1) - 1) * 6 + 5) = BitOf(a, 8, 5)
    BY <1>4, <2>1
  <2>3. Word(str, 8, 6, 4 * g + 1)
          = BitOf(a, 8, 0) * 32 + BitOf(a, 8, 1) * 16 + BitOf(a, 8, 2) * 8
            + BitOf(a, 8, 3) * 4 + BitOf(a, 8, 4) * 2 + BitOf(a, 8, 5) * 1 + 0 + 0
    BY <2>2, WordOfBits
  <2>4. Quad(1, a, b, c)
          = BitOf(a, 8, 0) * 32 + BitOf(a, 8, 1) * 16 + BitOf(a, 8, 2) * 8
            + BitOf(a, 8, 3) * 4 + BitOf(a, 8, 4) * 2 + BitOf(a, 8, 5) * 1 + 0 + 0
    BY <1>5, SextetsOfBytes
  <2> QED BY <1>6, <2>3, <2>4 DEF a, b, c
<1>7. CASE p = 2
  <2>1. /\ ((4 * g + 2) - 1) * 6 + 0 = 8 * (3 * g) + 6
        /\ ((4 * g + 2) - 1) * 6 + 1 = 8 * (3 * g) + 7
        /\ ((4 * g + 2) - 1) * 6 + 2 = 8 * (3 * g + 1) + 0
        /\ ((4 * g + 2) - 1) * 6 + 3 = 8 * (3 * g + 1) + 1
        /\ ((4 * g + 2) - 1) * 6 + 4 = 8 * (3 * g + 1) + 2
        /\ ((4 * g + 2) - 1) * 6 + 5 = 8 * (3 * g + 1) + 3
    OBVIOUS
  <2>2. /\ Bit(str, 8, ((4 * g + 2) - 1) * 6 + 0) = BitOf(a, 8, 6)
        /\ Bit(str, 8, ((4 * g + 2) - 1) * 6 + 1) = BitOf(a, 8, 7)
        /\ Bit(str, 8, ((4 * g + 2) - 1) * 6 + 2) = BitOf(b, 8, 0)
        /\ Bit(str, 8, ((4 * g + 2) - 1) * 6 + 3) = BitOf(b, 8, 1)
        /\ Bit(str, 8, ((4 * g + 2) - 1) * 6 + 4) = BitOf(b, 8, 2)
        /\ Bit(str, 8, ((4 * g + 2) - 1) * 6 + 5) = BitOf(b, 8, 3)
    BY <1>4, <2>1
  <2>3. Word(str, 8, 6, 4 * g + 2)
          = BitOf(a, 8, 6) * 32 + BitOf(a, 8, 7) * 16 + BitOf(b, 8, 0) * 8
            + BitOf(b, 8, 1) * 4 + BitOf(b, 8, 2) * 2 + BitOf(b, 8, 3) * 1 + 0 + 0
    BY <2>2, WordOfBits
  <2>4. Quad(2, a, b, c)
          = BitOf(a, 8, 6) * 32 + BitOf(a, 8, 7) * 16 + BitOf(b, 8, 0) * 8
            + BitOf(b, 8, 1) * 4 + BitOf(b, 8, 2) * 2 + BitOf(b, 8, 3) * 1 + 0 + 0
    BY <1>5, SextetsOfBytes
  <2> QED BY <1>7, <2>3, <2>4 DEF a, b, c
<1>8. CASE p = 3
  <2>1. /\ ((4 * g + 3) - 1) * 6 + 0 = 8 * (3 * g + 1) + 4
        /\ ((4 * g + 3) - 1) * 6 + 1 = 8 * (3 * g + 1) + 5
        /\ ((4 * g + 3) - 1) * 6 + 2 = 8 * (3 * g + 1) + 6
        /\ ((4 * g + 3) - 1) * 6 + 3 = 8 * (3 * g + 1) + 7
        /\ ((4 * g + 3) - 1) * 6 + 4 = 8 * (3 * g + 2) + 0
        /\ ((4 * g + 3) - 1) * 6 + 5 = 8 * (3 * g + 2) + 1
    OBVIOUS
  <2>2. /\ Bit(str, 8, ((4 * g + 3) - 1) * 6 + 0) = BitOf(b, 8, 4)
        /\ Bit(str, 8, ((4 * g + 3) - 1) * 6 + 1) = BitOf(b, 8, 5)
        /\ Bit(str, 8, ((4 * g + 3) - 1) * 6 + 2) = BitOf(b, 8, 6)
        /\ Bit(str, 8, ((4 * g + 3) - 1) * 6 + 3) = BitOf(b, 8, 7)
        /\ Bit(str, 8, ((4 * g + 3) - 1) * 6 + 4) = BitOf(c, 8, 0)
        /\ Bit(str, 8, ((4 * g + 3) - 1) * 6 + 5) = BitOf(c, 8, 1)
    BY <1>4, <2>1
  <2>3. Word(str, 8, 6, 4 * g + 3)
          = BitOf(b, 8, 4) * 32 + BitOf(b, 8, 5) * 16 + BitOf(b, 8, 6) * 8
            + BitOf(b, 8, 7) * 4 + BitOf(c, 8, 0) * 2 + BitOf(c, 8, 1) * 1 + 0 + 0
    BY <2>2, WordOfBits
  <2>4. Quad(3, a, b, c)
          = BitOf(b, 8, 4) * 32 + BitOf(b, 8, 5) * 16 + BitOf(b, 8, 6) * 8
            + BitOf(b, 8, 7) * 4 + BitOf(c, 8, 0) * 2 + BitOf(c, 8, 1) * 1 + 0 + 0
    BY <1>5, SextetsOfBytes
  <2> QED BY <1>8, <2>3, <2>4 DEF a, b, c
<1>9. CASE p = 4
  <2>1. /\ ((4 * g + 4) - 1) * 6 + 0 = 8 * (3 * g + 2) + 2
        /\ ((4 * g + 4) - 1) * 6 + 1 = 8 * (3 * g + 2) + 3
        /\ ((4 * g + 4) - 1) * 6 + 2 = 8 * (3 * g + 2) + 4
        /\ ((4 * g + 4) - 1) * 6 + 3 = 8 * (3 * g + 2) + 5
        /\ ((4 * g + 4) - 1) * 6 + 4 = 8 * (3 * g + 2) + 6
        /\ ((4 * g + 4) - 1) * 6 + 5 = 8 * (3 * g + 2) + 7
    OBVIOUS
  <2>2. /\ Bit(str, 8, ((4 * g + 4) - 1) * 6 + 0) = BitOf(c, 8, 2)
        /\ Bit(str, 8, ((4 * g + 4) - 1) * 6 + 1) = BitOf(c, 8, 3)
        /\ Bit(str, 8, ((4 * g + 4) - 1) * 6 + 2) = BitOf(c, 8, 4)
        /\ Bit(str, 8, ((4 * g + 4) - 1) * 6 + 3) = BitOf(c, 8, 5)
        /\ Bit(str, 8, ((4 * g + 4) - 1) * 6 + 4) = BitOf(c, 8, 6)
        /\ Bit(str, 8, ((4 * g + 4) - 1) * 6 + 5) = BitOf(c, 8, 7)
    BY <1>4, <2>1
  <2>3. Word(str, 8, 6, 4 * g + 4)
          = BitOf(c, 8, 2) * 32 + BitOf(c, 8, 3) * 16 + BitOf(c, 8, 4) * 8
            + BitOf(c, 8, 5) * 4 + BitOf(c, 8, 6) * 2 + BitOf(c, 8, 7) * 1 + 0 + 0
    BY <2>2, WordOfBits
  <2>4. Quad(4, a, b, c)
          = BitOf(c, 8, 2) * 32 + BitOf(c, 8, 3) * 16 + BitOf(c, 8, 4) * 8
            + BitOf(c, 8, 5) * 4 + BitOf(c, 8, 6) * 2 + BitOf(c, 8, 7) * 1 + 0 + 0
    BY <1>5, SextetsOfBytes
  <2> QED BY <1>9, <2>3, <2>4 DEF a, b, c
<1> QED BY <1>6, <1>7, <1>8, <1>9

\* How many sextets there are, and how many characters.
LEMMA Lengths ==
  ASSUME NEW n \in Nat
  PROVE  /\ RoundedUp(8 * n, 6) = Significant(n)
         /\ 4 * RoundedUp(Significant(n), 4) = 4 * ((n + 2) \div 3)
<1>1. PICK q \in Nat, r \in 0..2 :
        /\ n = 3 * q + r
        /\ (n + 2) \div 3 = IF r = 0 THEN q ELSE q + 1
        /\ Significant(n) = 4 * q + (IF r = 0 THEN 0 ELSE r + 1)
  BY Groups DEF Significant
<1>2. RoundedUp(8 * n, 6) = (24 * q + 8 * r + 5) \div 6
  BY <1>1 DEF RoundedUp
<1>3. CASE r = 0
  BY <1>1, <1>2, <1>3 DEF RoundedUp
<1>4. CASE r = 1
  BY <1>1, <1>2, <1>4 DEF RoundedUp
<1>5. CASE r = 2
  <2>1. Significant(n) = 4 * q + 3 /\ (n + 2) \div 3 = q + 1
    BY <1>1, <1>5
  <2>2. (24 * q + 8 * 2 + 5) \div 6 = 4 * q + 3
    OBVIOUS
  <2>3. ((4 * q + 3) + 4 - 1) \div 4 = q + 1
    OBVIOUS
  <2> QED BY <1>2, <1>5, <2>1, <2>2, <2>3 DEF RoundedUp
<1> QED BY <1>3, <1>4, <1>5

\* encode_bytes is the encoding of RFC 4648 (Base64.cpp, 23-63).
LEMMA GroupsHoldBits ==
  ASSUME NEW str \in Seq(Byte)
  PROVE  encode_bytes(str) = Encoding(str)
<1> DEFINE n == Len(str)
           N == Significant(n)
           L == 4 * ((n + 2) \div 3)
           sextets == Regrouped(str, 8, 6, N)
           Place(k) == IF k <= N THEN base64_chars[sextets[k]] ELSE Pad
<1>0. n \in Nat /\ L \in Nat
  OBVIOUS
<1>1. PICK q \in Nat, r \in 0..2 :
        /\ n = 3 * q + r
        /\ (n + 2) \div 3 = IF r = 0 THEN q ELSE q + 1
        /\ N = 4 * q + (IF r = 0 THEN 0 ELSE r + 1)
  BY <1>0, Groups DEF Significant
<1>2. Encoding(str) = [k \in 1..L |-> Place(k)]
  BY <1>0, Lengths DEF Encoding
<1>3. encode_bytes(str) = [k \in 1..L |-> encode_bytes(str)[k]]
  BY Encoded DEF encode_bytes
<1>4. ASSUME NEW k \in 1..L PROVE encode_bytes(str)[k] = Place(k)
  <2>0. k \in Nat \ {0} /\ k <= L
    BY <1>0
  <2>1. PICK g \in Nat, p \in 1..4 : k = 4 * g + p
    BY <2>0, Places
  <2> DEFINE quad == Quad(p, ByteAt(str, 3 * g + 1), ByteAt(str, 3 * g + 2),
                             ByteAt(str, 3 * g + 3))
  <2>2. encode_bytes(str)[k] = IF p > n - 3 * g + 1 THEN Pad ELSE base64_chars[quad]
    BY <2>0, <2>1, Encoded
  <2>3. p > n - 3 * g + 1 <=> ~(k <= N)
    <3>1. 4 * g + p <= 4 * (IF r = 0 THEN q ELSE q + 1)
      BY <1>1, <2>0, <2>1
    <3> HIDE DEF N, n
    <3>2. CASE g < q
      BY <1>1, <2>1, <3>2
    <3>3. CASE g = q /\ r # 0
      BY <1>1, <2>1, <3>3
    <3> QED BY <3>1, <3>2, <3>3
  <2>4. ASSUME k <= N PROVE sextets[k] = quad
    <3>1. N \in Nat /\ k \in 1..N
      BY <1>1, <2>0, <2>4
    <3> HIDE DEF N
    <3>2. sextets[k] = Word(str, 8, 6, k)
      BY <3>1 DEF Regrouped
    <3> QED BY <2>1, <3>2, SextetsAreQuads
  <2> HIDE DEF quad, sextets, N, n
  <2> QED BY <2>2, <2>3, <2>4
<1> HIDE DEF Place, L
<1> QED BY <1>2, <1>3, <1>4

-----------------------------------------------------------------------------
(* What decode reads.                                                      *)

\* The least of a set of natural numbers, which SMT does not find by itself.
LEMMA Least ==
  ASSUME NEW T \in SUBSET Nat, T # {}
  PROVE  \E m \in T : \A k \in T : m <= k
<1> DEFINE R == OpToRel(<, Nat)
<1>1. R = {ss \in Nat \X Nat : ss[1] < ss[2]}
  BY DEF OpToRel
<1>2. IsWellFoundedOn(R, Nat)
  BY NatLessThanWellFounded
<1> HIDE DEF R
<1>3. PICK m \in T : \A k \in T : ~(<<k, m>> \in R)
  BY <1>2, WFMin
<1>4. ASSUME NEW k \in T PROVE m <= k
  <2>1. k \in Nat /\ m \in Nat
    OBVIOUS
  <2>2. <<k, m>> \in Nat \X Nat /\ <<k, m>>[1] = k /\ <<k, m>>[2] = m
    BY <2>1
  <2>3. ~(k < m)
    BY <1>1, <1>3, <2>2
  <2> QED BY <2>1, <2>3
<1> QED BY <1>4

\* Where the characters of a set end.
LEMMA FirstOutside ==
  ASSUME NEW code \in Seq(Byte), NEW A
  PROVE  \E m \in 0..Len(code) :
           /\ \A i \in 1..m : code[i] \in A
           /\ m < Len(code) => code[m + 1] \notin A
           /\ \A k \in 0..Len(code) :
                (\A i \in 1..k : code[i] \in A) /\ (k < Len(code) => code[k + 1] \notin A)
                  => k = m
<1> DEFINE T == {k \in 0..Len(code) : k < Len(code) => code[k + 1] \notin A}
<1>0. Len(code) \in Nat
  OBVIOUS
<1>1. T \in SUBSET Nat /\ T # {}
  <2>1. Len(code) \in T
    BY <1>0
  <2> QED BY <2>1
<1>2. PICK m \in T : \A k \in T : m <= k
  BY <1>1, Least
<1>3. m \in 0..Len(code) /\ (m < Len(code) => code[m + 1] \notin A)
  OBVIOUS
<1>4. ASSUME NEW i \in 1..m PROVE code[i] \in A
  <2>1. i - 1 \in 0..Len(code) /\ i - 1 < m /\ i - 1 < Len(code) /\ (i - 1) + 1 = i
    BY <1>0, <1>3
  <2>2. i - 1 \notin T
    BY <1>2, <1>3, <2>1
  <2> QED BY <2>1, <2>2
<1>5. ASSUME NEW k \in 0..Len(code), \A i \in 1..k : code[i] \in A,
             k < Len(code) => code[k + 1] \notin A
      PROVE  k = m
  <2>1. m <= k
    BY <1>2, <1>5
  <2>2. CASE m < k
    <3>1. m + 1 \in 1..k /\ m < Len(code)
      BY <1>0, <1>3, <2>2
    <3> QED BY <1>3, <1>5, <3>1
  <2> QED BY <1>3, <2>1, <2>2
<1> QED BY <1>3, <1>4, <1>5

\* Prefix(code) is the only number that fits its definition.
LEMMA PrefixIs ==
  ASSUME NEW code \in Seq(Byte)
  PROVE  /\ Prefix(code) \in 0..Len(code)
         /\ \A i \in 1..Prefix(code) : code[i] \in Alphabet
         /\ Prefix(code) < Len(code) => code[Prefix(code) + 1] \notin Alphabet
         /\ \A k \in 0..Len(code) :
              /\ \A i \in 1..k : code[i] \in Alphabet
              /\ k < Len(code) => code[k + 1] \notin Alphabet
              => k = Prefix(code)
BY FirstOutside DEF Prefix

\* Where the loop of decode stops, in whatever locale.
LEMMA ReadIs ==
  ASSUME NEW code \in Seq(Byte)
  PROVE  /\ Read(code) \in 0..Len(code)
         /\ \A i \in 1..Read(code) : code[i] # Pad /\ is_base64(code[i])
         /\ Read(code) < Len(code) =>
              code[Read(code) + 1] = Pad \/ ~is_base64(code[Read(code) + 1])
<1> DEFINE A == {c \in Byte : c # Pad /\ is_base64(c)}
           Ends(m) == /\ \A i \in 1..m : code[i] # Pad /\ is_base64(code[i])
                      /\ m < Len(code) => code[m + 1] = Pad \/ ~is_base64(code[m + 1])
<1>1. PICK m \in 0..Len(code) :
        /\ \A i \in 1..m : code[i] \in A
        /\ m < Len(code) => code[m + 1] \notin A
  BY FirstOutside
<1>2. Ends(m)
  <2>1. Len(code) \in Nat /\ \A i \in 1..Len(code) : code[i] \in Byte
    OBVIOUS
  <2> QED BY <1>1, <2>1
<1>3. Read(code) = CHOOSE n \in 0..Len(code) : Ends(n)
  BY DEF Read
<1> HIDE DEF Ends
<1>4. Read(code) \in 0..Len(code) /\ Ends(Read(code))
  BY <1>2, <1>3
<1> QED BY <1>4 DEF Ends

\* The characters of ASCII that decode reads are those of the alphabet.
LEMMA AlphabetIs ==
  /\ \A c \in 0..127 : c \in Alphabet <=> c # Pad /\ is_base64(c)
  /\ \A c \in Alphabet :
       /\ c \in 0..127 /\ c # Pad
       /\ find(c) \in Sextet /\ base64_chars[find(c)] = c
       /\ find(c) = CHOOSE s \in Sextet : base64_chars[s] = c
<1>1. ASSUME NEW c \in Alphabet
      PROVE  /\ c \in 0..127 /\ c # Pad /\ is_base64(c)
             /\ find(c) \in Sextet /\ base64_chars[find(c)] = c
             /\ find(c) = CHOOSE s \in Sextet : base64_chars[s] = c
  <2>1. PICK s \in Sextet : c = base64_chars[s]
    BY DEF Alphabet
  <2>2. /\ c \in 0..127 /\ c # Pad /\ is_base64(c) /\ find(c) = s
    BY <2>1, Characters
  <2>3. find(c) = CHOOSE t \in Sextet : base64_chars[t] = c
    BY <2>1 DEF find
  <2> QED BY <2>1, <2>2, <2>3
<1>2. ASSUME NEW c \in 0..127, c # Pad, is_base64(c) PROVE c \in Alphabet
  <2>1. c \in ASCIILetters \cup {43, 47}
    BY <1>2, LettersAssumption DEF is_base64
  <2>2. \E s \in Sextet : base64_chars[s] = c
    <3>1. CASE c \in 65..90
      <4>1. c - 65 \in Sextet /\ c - 65 < 26 /\ 65 + (c - 65) = c
        BY <3>1 DEF Sextet
      <4> QED BY <4>1 DEF base64_chars
    <3>2. CASE c \in 97..122
      <4>1. c - 71 \in Sextet /\ ~(c - 71 < 26) /\ c - 71 < 52 /\ 71 + (c - 71) = c
        BY <3>2 DEF Sextet
      <4> QED BY <4>1 DEF base64_chars
    <3>3. CASE c \in 48..57
      <4>1. /\ c + 4 \in Sextet /\ ~(c + 4 < 26) /\ ~(c + 4 < 52) /\ c + 4 < 62
            /\ (c + 4) - 4 = c
        BY <3>3 DEF Sextet
      <4> QED BY <4>1 DEF base64_chars
    <3>4. CASE c = 43
      <4>1. 62 \in Sextet /\ base64_chars[62] = c
        BY <3>4 DEF Sextet, base64_chars
      <4> QED BY <4>1
    <3>5. CASE c = 47
      <4>1. 63 \in Sextet /\ base64_chars[63] = c
        BY <3>5 DEF Sextet, base64_chars
      <4> QED BY <4>1
    <3> QED BY <2>1, <3>1, <3>2, <3>3, <3>4, <3>5 DEF ASCIILetters
  <2> QED BY <2>2 DEF Alphabet
<1> QED BY <1>1, <1>2

\* In a text of ASCII decode reads exactly the characters of the alphabet.
LEMMA ReadsPrefix ==
  ASSUME NEW code \in Seq(Byte), \A i \in 1..Len(code) : code[i] <= 127
  PROVE  Read(code) = Prefix(code)
<1>1. \A i \in 1..Len(code) :
        code[i] \in Alphabet <=> code[i] # Pad /\ is_base64(code[i])
  <2> TAKE i \in 1..Len(code)
  <2>1. code[i] \in Byte /\ code[i] <= 127
    OBVIOUS
  <2>2. \A c \in Byte : c <= 127 => c \in 0..127
    BY DEF Byte
  <2> QED BY <2>1, <2>2, AlphabetIs
<1>2. Len(code) \in Nat /\ Read(code) \in 0..Len(code)
  BY ReadIs
<1>3. \A i \in 1..Read(code) : i \in 1..Len(code)
  BY <1>2
<1>4. Read(code) < Len(code) => Read(code) + 1 \in 1..Len(code)
  BY <1>2
<1>5. /\ \A i \in 1..Read(code) : code[i] \in Alphabet
      /\ Read(code) < Len(code) => code[Read(code) + 1] \notin Alphabet
  BY <1>1, <1>3, <1>4, ReadIs
<1> QED BY <1>2, <1>5, PrefixIs

-----------------------------------------------------------------------------
(* decode, bit by bit.                                                     *)

\* Two sextets next to each other, as Triple puts them together.
LEMMA TripleOfSextets ==
  ASSUME NEW a \in Sextet, NEW b \in Sextet
  PROVE  /\ \A x, y : Triple(1, a, b, x, y)
              = BitOf(a, 6, 0) * 128 + BitOf(a, 6, 1) * 64 + BitOf(a, 6, 2) * 32
                + BitOf(a, 6, 3) * 16 + BitOf(a, 6, 4) * 8 + BitOf(a, 6, 5) * 4
                + BitOf(b, 6, 0) * 2 + BitOf(b, 6, 1) * 1
         /\ \A x, y : Triple(2, x, a, b, y)
              = BitOf(a, 6, 2) * 128 + BitOf(a, 6, 3) * 64 + BitOf(a, 6, 4) * 32
                + BitOf(a, 6, 5) * 16 + BitOf(b, 6, 0) * 8 + BitOf(b, 6, 1) * 4
                + BitOf(b, 6, 2) * 2 + BitOf(b, 6, 3) * 1
         /\ \A x, y : Triple(3, x, y, a, b)
              = BitOf(a, 6, 4) * 128 + BitOf(a, 6, 5) * 64 + BitOf(b, 6, 0) * 32
                + BitOf(b, 6, 1) * 16 + BitOf(b, 6, 2) * 8 + BitOf(b, 6, 3) * 4
                + BitOf(b, 6, 4) * 2 + BitOf(b, 6, 5) * 1
<1>1. /\ \A x, y : Triple(1, a, b, x, y) = (a * 4 + (b % 64) \div 16) % 256
      /\ \A x, y : Triple(2, x, a, b, y) = ((a % 16) * 16 + (b % 64) \div 4) % 256
      /\ \A x, y : Triple(3, x, y, a, b) = ((a % 4) * 64 + b) % 256
  BY DEF Triple
<1>2. /\ (a * 4 + (b % 64) \div 16) % 256 = a * 4 + (b % 64) \div 16
      /\ ((a % 16) * 16 + (b % 64) \div 4) % 256 = (a % 16) * 16 + (b % 64) \div 4
      /\ ((a % 4) * 64 + b) % 256 = (a % 4) * 64 + b
  BY DEF Sextet
<1>3. /\ BitOf(a, 6, 0) \in Int /\ BitOf(a, 6, 1) \in Int /\ BitOf(a, 6, 2) \in Int
      /\ BitOf(a, 6, 3) \in Int /\ BitOf(a, 6, 4) \in Int /\ BitOf(a, 6, 5) \in Int
  BY PartsOfSextet
<1>4. /\ BitOf(b, 6, 0) \in Int /\ BitOf(b, 6, 1) \in Int /\ BitOf(b, 6, 2) \in Int
      /\ BitOf(b, 6, 3) \in Int /\ BitOf(b, 6, 4) \in Int /\ BitOf(b, 6, 5) \in Int
  BY PartsOfSextet
<1>5. a * 4 + (b % 64) \div 16
        = BitOf(a, 6, 0) * 128 + BitOf(a, 6, 1) * 64 + BitOf(a, 6, 2) * 32
          + BitOf(a, 6, 3) * 16 + BitOf(a, 6, 4) * 8 + BitOf(a, 6, 5) * 4
          + BitOf(b, 6, 0) * 2 + BitOf(b, 6, 1) * 1
  BY <1>3, <1>4, PartsOfSextet
<1>6. (a % 16) * 16 + (b % 64) \div 4
        = BitOf(a, 6, 2) * 128 + BitOf(a, 6, 3) * 64 + BitOf(a, 6, 4) * 32
          + BitOf(a, 6, 5) * 16 + BitOf(b, 6, 0) * 8 + BitOf(b, 6, 1) * 4
          + BitOf(b, 6, 2) * 2 + BitOf(b, 6, 3) * 1
  BY <1>3, <1>4, PartsOfSextet
<1>7. (a % 4) * 64 + b
        = BitOf(a, 6, 4) * 128 + BitOf(a, 6, 5) * 64 + BitOf(b, 6, 0) * 32
          + BitOf(b, 6, 1) * 16 + BitOf(b, 6, 2) * 8 + BitOf(b, 6, 3) * 4
          + BitOf(b, 6, 4) * 2 + BitOf(b, 6, 5) * 1
  BY <1>3, <1>4, PartsOfSextet
<1> QED BY <1>1, <1>2, <1>5, <1>6, <1>7

\* The bytes of a string of sextets are the ones that Triple makes, group by group,
\* of the two or more sextets that are there.
LEMMA BytesAreTriples ==
  ASSUME NEW words \in Seq(Sextet), NEW g \in Nat
  PROVE  /\ 4 * g + 2 <= Len(words) =>
              \A x, y : Word(words, 6, 8, 3 * g + 1)
                          = Triple(1, words[4 * g + 1], words[4 * g + 2], x, y)
         /\ 4 * g + 3 <= Len(words) =>
              \A x, y : Word(words, 6, 8, 3 * g + 2)
                          = Triple(2, x, words[4 * g + 2], words[4 * g + 3], y)
         /\ 4 * g + 4 <= Len(words) =>
              \A x, y : Word(words, 6, 8, 3 * g + 3)
                          = Triple(3, x, y, words[4 * g + 3], words[4 * g + 4])
<1>0. Len(words) \in Nat /\ \A i \in 1..Len(words) : words[i] \in Sextet
  OBVIOUS
<1>1. ASSUME NEW i \in Nat, i + 1 <= Len(words)
      PROVE  \A j \in 0..5 : Bit(words, 6, 6 * i + j) = BitOf(words[i + 1], 6, j)
  <2>1. i < Len(words)
    BY <1>0, <1>1
  <2> QED BY <2>1, BitAt
<1>2. ASSUME 4 * g + 2 <= Len(words), NEW x, NEW y
      PROVE  Word(words, 6, 8, 3 * g + 1)
               = Triple(1, words[4 * g + 1], words[4 * g + 2], x, y)
  <2> DEFINE a == words[4 * g + 1]
             b == words[4 * g + 2]
  <2>1. a \in Sextet /\ b \in Sextet
    BY <1>0, <1>2
  <2>2. /\ ((3 * g + 1) - 1) * 8 + 0 = 6 * (4 * g) + 0
        /\ ((3 * g + 1) - 1) * 8 + 1 = 6 * (4 * g) + 1
        /\ ((3 * g + 1) - 1) * 8 + 2 = 6 * (4 * g) + 2
        /\ ((3 * g + 1) - 1) * 8 + 3 = 6 * (4 * g) + 3
        /\ ((3 * g + 1) - 1) * 8 + 4 = 6 * (4 * g) + 4
        /\ ((3 * g + 1) - 1) * 8 + 5 = 6 * (4 * g) + 5
        /\ ((3 * g + 1) - 1) * 8 + 6 = 6 * (4 * g + 1) + 0
        /\ ((3 * g + 1) - 1) * 8 + 7 = 6 * (4 * g + 1) + 1
    OBVIOUS
  <2>3. \A j \in 0..5 : /\ Bit(words, 6, 6 * (4 * g) + j) = BitOf(a, 6, j)
                        /\ Bit(words, 6, 6 * (4 * g + 1) + j) = BitOf(b, 6, j)
    <3>1. /\ 4 * g \in Nat /\ (4 * g) + 1 = 4 * g + 1
          /\ 4 * g + 1 \in Nat /\ (4 * g + 1) + 1 = 4 * g + 2
          /\ 4 * g + 1 <= Len(words)
      BY <1>0, <1>2
    <3> QED BY <1>1, <1>2, <3>1
  <2> HIDE DEF a, b
  <2>4. /\ Bit(words, 6, ((3 * g + 1) - 1) * 8 + 0) = BitOf(a, 6, 0)
        /\ Bit(words, 6, ((3 * g + 1) - 1) * 8 + 1) = BitOf(a, 6, 1)
        /\ Bit(words, 6, ((3 * g + 1) - 1) * 8 + 2) = BitOf(a, 6, 2)
        /\ Bit(words, 6, ((3 * g + 1) - 1) * 8 + 3) = BitOf(a, 6, 3)
        /\ Bit(words, 6, ((3 * g + 1) - 1) * 8 + 4) = BitOf(a, 6, 4)
        /\ Bit(words, 6, ((3 * g + 1) - 1) * 8 + 5) = BitOf(a, 6, 5)
        /\ Bit(words, 6, ((3 * g + 1) - 1) * 8 + 6) = BitOf(b, 6, 0)
        /\ Bit(words, 6, ((3 * g + 1) - 1) * 8 + 7) = BitOf(b, 6, 1)
    BY <2>2, <2>3
  <2>5. Word(words, 6, 8, 3 * g + 1)
          = BitOf(a, 6, 0) * 128 + BitOf(a, 6, 1) * 64 + BitOf(a, 6, 2) * 32
            + BitOf(a, 6, 3) * 16 + BitOf(a, 6, 4) * 8 + BitOf(a, 6, 5) * 4
            + BitOf(b, 6, 0) * 2 + BitOf(b, 6, 1) * 1
    <3> DEFINE bit(j) == Bit(words, 6, ((3 * g + 1) - 1) * 8 + j)
    <3>1. Word(words, 6, 8, 3 * g + 1)
            = bit(0) * 128 + bit(1) * 64 + bit(2) * 32 + bit(3) * 16
              + bit(4) * 8 + bit(5) * 4 + bit(6) * 2 + bit(7) * 1
      BY WordOfBits
    <3> QED BY <2>4, <3>1
  <2>6. Triple(1, a, b, x, y)
          = BitOf(a, 6, 0) * 128 + BitOf(a, 6, 1) * 64 + BitOf(a, 6, 2) * 32
            + BitOf(a, 6, 3) * 16 + BitOf(a, 6, 4) * 8 + BitOf(a, 6, 5) * 4
            + BitOf(b, 6, 0) * 2 + BitOf(b, 6, 1) * 1
    BY <2>1, TripleOfSextets
  <2> QED BY <2>5, <2>6 DEF a, b
<1>3. ASSUME 4 * g + 3 <= Len(words), NEW x, NEW y
      PROVE  Word(words, 6, 8, 3 * g + 2)
               = Triple(2, x, words[4 * g + 2], words[4 * g + 3], y)
  <2> DEFINE a == words[4 * g + 2]
             b == words[4 * g + 3]
  <2>1. a \in Sextet /\ b \in Sextet
    BY <1>0, <1>3
  <2>2. /\ ((3 * g + 2) - 1) * 8 + 0 = 6 * (4 * g + 1) + 2
        /\ ((3 * g + 2) - 1) * 8 + 1 = 6 * (4 * g + 1) + 3
        /\ ((3 * g + 2) - 1) * 8 + 2 = 6 * (4 * g + 1) + 4
        /\ ((3 * g + 2) - 1) * 8 + 3 = 6 * (4 * g + 1) + 5
        /\ ((3 * g + 2) - 1) * 8 + 4 = 6 * (4 * g + 2) + 0
        /\ ((3 * g + 2) - 1) * 8 + 5 = 6 * (4 * g + 2) + 1
        /\ ((3 * g + 2) - 1) * 8 + 6 = 6 * (4 * g + 2) + 2
        /\ ((3 * g + 2) - 1) * 8 + 7 = 6 * (4 * g + 2) + 3
    OBVIOUS
  <2>3. \A j \in 0..5 : /\ Bit(words, 6, 6 * (4 * g + 1) + j) = BitOf(a, 6, j)
                        /\ Bit(words, 6, 6 * (4 * g + 2) + j) = BitOf(b, 6, j)
    <3>1. /\ 4 * g + 1 \in Nat /\ (4 * g + 1) + 1 = 4 * g + 2
          /\ 4 * g + 2 \in Nat /\ (4 * g + 2) + 1 = 4 * g + 3
          /\ 4 * g + 2 <= Len(words)
      BY <1>0, <1>3
    <3> QED BY <1>1, <1>3, <3>1
  <2> HIDE DEF a, b
  <2>4. /\ Bit(words, 6, ((3 * g + 2) - 1) * 8 + 0) = BitOf(a, 6, 2)
        /\ Bit(words, 6, ((3 * g + 2) - 1) * 8 + 1) = BitOf(a, 6, 3)
        /\ Bit(words, 6, ((3 * g + 2) - 1) * 8 + 2) = BitOf(a, 6, 4)
        /\ Bit(words, 6, ((3 * g + 2) - 1) * 8 + 3) = BitOf(a, 6, 5)
        /\ Bit(words, 6, ((3 * g + 2) - 1) * 8 + 4) = BitOf(b, 6, 0)
        /\ Bit(words, 6, ((3 * g + 2) - 1) * 8 + 5) = BitOf(b, 6, 1)
        /\ Bit(words, 6, ((3 * g + 2) - 1) * 8 + 6) = BitOf(b, 6, 2)
        /\ Bit(words, 6, ((3 * g + 2) - 1) * 8 + 7) = BitOf(b, 6, 3)
    BY <2>2, <2>3
  <2>5. Word(words, 6, 8, 3 * g + 2)
          = BitOf(a, 6, 2) * 128 + BitOf(a, 6, 3) * 64 + BitOf(a, 6, 4) * 32
            + BitOf(a, 6, 5) * 16 + BitOf(b, 6, 0) * 8 + BitOf(b, 6, 1) * 4
            + BitOf(b, 6, 2) * 2 + BitOf(b, 6, 3) * 1
    <3> DEFINE bit(j) == Bit(words, 6, ((3 * g + 2) - 1) * 8 + j)
    <3>1. Word(words, 6, 8, 3 * g + 2)
            = bit(0) * 128 + bit(1) * 64 + bit(2) * 32 + bit(3) * 16
              + bit(4) * 8 + bit(5) * 4 + bit(6) * 2 + bit(7) * 1
      BY WordOfBits
    <3> QED BY <2>4, <3>1
  <2>6. Triple(2, x, a, b, y)
          = BitOf(a, 6, 2) * 128 + BitOf(a, 6, 3) * 64 + BitOf(a, 6, 4) * 32
            + BitOf(a, 6, 5) * 16 + BitOf(b, 6, 0) * 8 + BitOf(b, 6, 1) * 4
            + BitOf(b, 6, 2) * 2 + BitOf(b, 6, 3) * 1
    BY <2>1, TripleOfSextets
  <2> QED BY <2>5, <2>6 DEF a, b
<1>4. ASSUME 4 * g + 4 <= Len(words), NEW x, NEW y
      PROVE  Word(words, 6, 8, 3 * g + 3)
               = Triple(3, x, y, words[4 * g + 3], words[4 * g + 4])
  <2> DEFINE a == words[4 * g + 3]
             b == words[4 * g + 4]
  <2>1. a \in Sextet /\ b \in Sextet
    BY <1>0, <1>4
  <2>2. /\ ((3 * g + 3) - 1) * 8 + 0 = 6 * (4 * g + 2) + 4
        /\ ((3 * g + 3) - 1) * 8 + 1 = 6 * (4 * g + 2) + 5
        /\ ((3 * g + 3) - 1) * 8 + 2 = 6 * (4 * g + 3) + 0
        /\ ((3 * g + 3) - 1) * 8 + 3 = 6 * (4 * g + 3) + 1
        /\ ((3 * g + 3) - 1) * 8 + 4 = 6 * (4 * g + 3) + 2
        /\ ((3 * g + 3) - 1) * 8 + 5 = 6 * (4 * g + 3) + 3
        /\ ((3 * g + 3) - 1) * 8 + 6 = 6 * (4 * g + 3) + 4
        /\ ((3 * g + 3) - 1) * 8 + 7 = 6 * (4 * g + 3) + 5
    OBVIOUS
  <2>3. \A j \in 0..5 : /\ Bit(words, 6, 6 * (4 * g + 2) + j) = BitOf(a, 6, j)
                        /\ Bit(words, 6, 6 * (4 * g + 3) + j) = BitOf(b, 6, j)
    <3>1. /\ 4 * g + 2 \in Nat /\ (4 * g + 2) + 1 = 4 * g + 3
          /\ 4 * g + 3 \in Nat /\ (4 * g + 3) + 1 = 4 * g + 4
          /\ 4 * g + 3 <= Len(words)
      BY <1>0, <1>4
    <3> QED BY <1>1, <1>4, <3>1
  <2> HIDE DEF a, b
  <2>4. /\ Bit(words, 6, ((3 * g + 3) - 1) * 8 + 0) = BitOf(a, 6, 4)
        /\ Bit(words, 6, ((3 * g + 3) - 1) * 8 + 1) = BitOf(a, 6, 5)
        /\ Bit(words, 6, ((3 * g + 3) - 1) * 8 + 2) = BitOf(b, 6, 0)
        /\ Bit(words, 6, ((3 * g + 3) - 1) * 8 + 3) = BitOf(b, 6, 1)
        /\ Bit(words, 6, ((3 * g + 3) - 1) * 8 + 4) = BitOf(b, 6, 2)
        /\ Bit(words, 6, ((3 * g + 3) - 1) * 8 + 5) = BitOf(b, 6, 3)
        /\ Bit(words, 6, ((3 * g + 3) - 1) * 8 + 6) = BitOf(b, 6, 4)
        /\ Bit(words, 6, ((3 * g + 3) - 1) * 8 + 7) = BitOf(b, 6, 5)
    BY <2>2, <2>3
  <2>5. Word(words, 6, 8, 3 * g + 3)
          = BitOf(a, 6, 4) * 128 + BitOf(a, 6, 5) * 64 + BitOf(b, 6, 0) * 32
            + BitOf(b, 6, 1) * 16 + BitOf(b, 6, 2) * 8 + BitOf(b, 6, 3) * 4
            + BitOf(b, 6, 4) * 2 + BitOf(b, 6, 5) * 1
    <3> DEFINE bit(j) == Bit(words, 6, ((3 * g + 3) - 1) * 8 + j)
    <3>1. Word(words, 6, 8, 3 * g + 3)
            = bit(0) * 128 + bit(1) * 64 + bit(2) * 32 + bit(3) * 16
              + bit(4) * 8 + bit(5) * 4 + bit(6) * 2 + bit(7) * 1
      BY WordOfBits
    <3> QED BY <2>4, <3>1
  <2>6. Triple(3, x, y, a, b)
          = BitOf(a, 6, 4) * 128 + BitOf(a, 6, 5) * 64 + BitOf(b, 6, 0) * 32
            + BitOf(b, 6, 1) * 16 + BitOf(b, 6, 2) * 8 + BitOf(b, 6, 3) * 4
            + BitOf(b, 6, 4) * 2 + BitOf(b, 6, 5) * 1
    BY <2>1, TripleOfSextets
  <2> QED BY <2>5, <2>6 DEF a, b
<1> QED BY <1>2, <1>3, <1>4

\* Division by the number of characters in a group.
LEMMA Fours ==
  ASSUME NEW n \in Nat
  PROVE  \E q \in Nat, r \in 0..3 :
           /\ n = 4 * q + r
           /\ n \div 4 = q /\ n % 4 = r
<1>1. n \div 4 \in Nat /\ n % 4 \in 0..3 /\ n = 4 * (n \div 4) + (n % 4)
  OBVIOUS
<1> QED BY <1>1

\* Every position is a place of some group of three bytes.
LEMMA BytePlaces ==
  ASSUME NEW i \in Nat \ {0}
  PROVE  \E g \in Nat, p \in 1..3 :
           i = 3 * g + p /\ (i - 1) \div 3 = g /\ ((i - 1) % 3) + 1 = p
<1>1. (i - 1) \div 3 \in Nat /\ ((i - 1) % 3) + 1 \in 1..3
      /\ i = 3 * ((i - 1) \div 3) + (((i - 1) % 3) + 1)
  OBVIOUS
<1> QED BY <1>1

\* A group cut short yields the whole bytes in it.
LEMMA WholeBytes ==
  ASSUME NEW n \in Nat
  PROVE  /\ Decoded(n) = (6 * n) \div 8 /\ Decoded(n) \in Nat
         /\ \A g \in Nat, p \in 1..3 : 3 * g + p <= Decoded(n) => 4 * g + (p + 1) <= n
<1>1. PICK q \in Nat, r \in 0..3 : n = 4 * q + r /\ n \div 4 = q /\ n % 4 = r
  BY Fours
<1>2. Decoded(n) = 3 * q + (IF r = 0 THEN 0 ELSE r - 1)
  BY <1>1 DEF Decoded
<1>3. CASE r = 0
  <2>1. (6 * (4 * q + 0)) \div 8 = 3 * q
    OBVIOUS
  <2> QED BY <1>1, <1>2, <1>3, <2>1
<1>4. CASE r = 1
  <2>1. (6 * (4 * q + 1)) \div 8 = 3 * q
    OBVIOUS
  <2> QED BY <1>1, <1>2, <1>4, <2>1
<1>5. CASE r = 2
  <2>1. (6 * (4 * q + 2)) \div 8 = 3 * q + 1
    OBVIOUS
  <2> QED BY <1>1, <1>2, <1>5, <2>1
<1>6. CASE r = 3
  <2>1. (6 * (4 * q + 3)) \div 8 = 3 * q + 2
    OBVIOUS
  <2> QED BY <1>1, <1>2, <1>6, <2>1
<1> QED BY <1>3, <1>4, <1>5, <1>6

\* decode gives the whole bytes before the first character that is no sextet.
LEMMA GroupsReadBits ==
  ASSUME NEW code \in Seq(Byte), \A i \in 1..Len(code) : code[i] <= 127
  PROVE  decode_groups(code) = Decoding(code)
<1> DEFINE n == Prefix(code)
           sextets == [i \in 1..n |-> CHOOSE s \in Sextet : base64_chars[s] = code[i]]
           bytes(k) == Word(sextets, 6, 8, k)
           Place(g, p) == Triple(p, ValueAt(code, 4 * g + 1), ValueAt(code, 4 * g + 2),
                                    ValueAt(code, 4 * g + 3), ValueAt(code, 4 * g + 4))
<1>1. n \in Nat /\ Read(code) = n
  BY PrefixIs, ReadsPrefix
<1>2. \A i \in 1..n : sextets[i] \in Sextet /\ sextets[i] = ValueAt(code, i)
  <2> TAKE i \in 1..n
  <2>1. code[i] \in Alphabet
    BY PrefixIs
  <2>2. find(code[i]) \in Sextet
        /\ find(code[i]) = CHOOSE s \in Sextet : base64_chars[s] = code[i]
    BY <2>1, AlphabetIs
  <2>3. i <= Read(code)
    BY <1>1
  <2> QED BY <2>2, <2>3 DEF ValueAt
<1>3. sextets \in Seq(Sextet) /\ Len(sextets) = n
  <2>1. sextets \in [1..n -> Sextet]
    BY <1>2
  <2> HIDE DEF sextets, n
  <2>2. sextets \in Seq(Sextet)
    BY <1>1, <2>1
  <2>3. Len(sextets) = n
    BY <1>1, <2>1
  <2> QED BY <2>2, <2>3
<1>4. Decoding(code) = [k \in 1..Decoded(n) |-> bytes(k)]
  BY <1>1, WholeBytes DEF Decoding, Regrouped
<1>5. decode_groups(code)
        = [k \in 1..Decoded(n) |-> Place((k - 1) \div 3, ((k - 1) % 3) + 1)]
  BY <1>1 DEF decode_groups
<1> HIDE DEF n, sextets
<1>6. ASSUME NEW k \in 1..Decoded(n)
      PROVE  Place((k - 1) \div 3, ((k - 1) % 3) + 1) = bytes(k)
  <2>0. k \in Nat \ {0} /\ k <= Decoded(n)
    BY <1>1, WholeBytes
  <2>1. PICK g \in Nat, p \in 1..3 :
          k = 3 * g + p /\ (k - 1) \div 3 = g /\ ((k - 1) % 3) + 1 = p
    BY <2>0, BytePlaces
  <2>2. 4 * g + (p + 1) <= n
    BY <1>1, <2>0, <2>1, WholeBytes
  <2>3. CASE p = 1
    <3>1. 4 * g + 1 \in 1..n /\ 4 * g + 2 \in 1..n /\ 4 * g + 2 <= Len(sextets)
      BY <1>1, <1>3, <2>2, <2>3
    <3>2. \A x, y : Word(sextets, 6, 8, 3 * g + 1)
                       = Triple(1, sextets[4 * g + 1], sextets[4 * g + 2], x, y)
      BY <1>3, <3>1, BytesAreTriples
    <3>3. /\ sextets[4 * g + 1] = ValueAt(code, 4 * g + 1)
          /\ sextets[4 * g + 2] = ValueAt(code, 4 * g + 2)
      BY <1>2, <3>1
    <3> QED BY <2>1, <2>3, <3>2, <3>3
  <2>4. CASE p = 2
    <3>1. 4 * g + 2 \in 1..n /\ 4 * g + 3 \in 1..n /\ 4 * g + 3 <= Len(sextets)
      BY <1>1, <1>3, <2>2, <2>4
    <3>2. \A x, y : Word(sextets, 6, 8, 3 * g + 2)
                       = Triple(2, x, sextets[4 * g + 2], sextets[4 * g + 3], y)
      BY <1>3, <3>1, BytesAreTriples
    <3>3. /\ sextets[4 * g + 2] = ValueAt(code, 4 * g + 2)
          /\ sextets[4 * g + 3] = ValueAt(code, 4 * g + 3)
      BY <1>2, <3>1
    <3> QED BY <2>1, <2>4, <3>2, <3>3
  <2>5. CASE p = 3
    <3>1. 4 * g + 3 \in 1..n /\ 4 * g + 4 \in 1..n /\ 4 * g + 4 <= Len(sextets)
      BY <1>1, <1>3, <2>2, <2>5
    <3>2. \A x, y : Word(sextets, 6, 8, 3 * g + 3)
                       = Triple(3, x, y, sextets[4 * g + 3], sextets[4 * g + 4])
      BY <1>3, <3>1, BytesAreTriples
    <3>3. /\ sextets[4 * g + 3] = ValueAt(code, 4 * g + 3)
          /\ sextets[4 * g + 4] = ValueAt(code, 4 * g + 4)
      BY <1>2, <3>1
    <3> QED BY <2>1, <2>5, <3>2, <3>3
  <2> QED BY <2>3, <2>4, <2>5
<1> HIDE DEF Place, bytes
<1> QED BY <1>4, <1>5, <1>6

-----------------------------------------------------------------------------
(* What is lost.                                                           *)

\* The characters of an encoded text.
LEMMA EncodedCharacters ==
  ASSUME NEW str \in Seq(Byte)
  PROVE  /\ encode_bytes(str) \in Seq(Byte)
         /\ \A i \in 1..Len(encode_bytes(str)) : encode_bytes(str)[i] <= 127
<1> DEFINE code == encode_bytes(str)
           L == 4 * ((Len(str) + 2) \div 3)
<1>1. Len(code) = L /\ DOMAIN code = 1..L /\ L \in Nat
  BY Encoded
<1>2. ASSUME NEW i \in 1..L PROVE code[i] \in 0..127
  <2>0. i \in Nat \ {0} /\ i <= L
    BY <1>1
  <2>1. PICK g \in Nat, p \in 1..4 : i = 4 * g + p
    BY <2>0, Places
  <2> DEFINE quad == Quad(p, ByteAt(str, 3 * g + 1), ByteAt(str, 3 * g + 2),
                             ByteAt(str, 3 * g + 3))
  <2>2. code[i] = IF p > Len(str) - 3 * g + 1 THEN Pad ELSE base64_chars[quad]
    BY <2>0, <2>1, Encoded
  <2>3. 3 * g + 1 \in Nat /\ 3 * g + 2 \in Nat /\ 3 * g + 3 \in Nat
    OBVIOUS
  <2>4. quad \in Sextet
    BY <2>3, Encoded, QuadIsSextet
  <2> HIDE DEF quad
  <2>5. base64_chars[quad] \in 0..127 /\ Pad \in 0..127
    BY <2>4, Characters DEF Pad
  <2> QED BY <2>2, <2>5
<1>3. code = [i \in 1..L |-> code[i]]
  BY <1>1 DEF encode_bytes
<1>4. \A i \in 1..L : code[i] \in Byte /\ code[i] <= 127
  <2>1. \A c \in 0..127 : c \in Byte /\ c <= 127
    BY DEF Byte
  <2> QED BY <1>2, <2>1
<1>5. code \in Seq(Byte)
  <2> HIDE DEF code, L
  <2>1. code \in [1..L -> Byte]
    BY <1>3, <1>4
  <2> QED BY <1>1, <2>1
<1> QED BY <1>1, <1>4, <1>5

\* What encode_bytes makes is canonical.
LEMMA EncodedIsCanonical ==
  ASSUME NEW str \in Seq(Byte)
  PROVE  Canonical(encode_bytes(str))
<1> DEFINE code == encode_bytes(str)
           n == Prefix(code)
           last == CHOOSE s \in Sextet : base64_chars[s] = code[n]
<1>0. Len(str) \in Nat
  OBVIOUS
<1>1. PICK q \in Nat, r \in 0..2 :
        /\ Len(str) = 3 * q + r
        /\ (Len(str) + 2) \div 3 = IF r = 0 THEN q ELSE q + 1
        /\ Significant(Len(str)) = 4 * q + (IF r = 0 THEN 0 ELSE r + 1)
  BY <1>0, Groups DEF Significant
<1>2. n = 4 * q + (IF r = 0 THEN 0 ELSE r + 1)
  BY <1>1, EncodedCharacters, ReadsPrefix, ReadToPadding
<1>3. Len(code) = 4 * (IF r = 0 THEN q ELSE q + 1)
  BY <1>1, Encoded
<1>4. Len(code) % 4 = 0
  BY <1>3
<1>5. ASSUME NEW i \in n + 1 .. Len(code) PROVE code[i] = Pad
  <2>1. r # 0 /\ i \in Nat \ {0} /\ 4 * q + (r + 2) <= i /\ i <= 4 * q + 4
    BY <1>2, <1>3
  <2>2. PICK g \in Nat, p \in 1..4 : i = 4 * g + p
    BY <2>1, Places
  <2>3. g = q /\ p > r + 1
    BY <2>1, <2>2
  <2>4. /\ 4 * g + p <= 4 * ((Len(str) + 2) \div 3)
        /\ p > Len(str) - 3 * g + 1
    BY <1>1, <2>1, <2>3
  <2> QED BY <2>2, <2>4, Encoded
<1>6. ASSUME r # 0
      PROVE  last = Quad(r + 1, ByteAt(str, 3 * q + 1), ByteAt(str, 3 * q + 2),
                                ByteAt(str, 3 * q + 3))
  <2> DEFINE quad == Quad(r + 1, ByteAt(str, 3 * q + 1), ByteAt(str, 3 * q + 2),
                                 ByteAt(str, 3 * q + 3))
  <2>1. /\ r + 1 \in 1..4 /\ 4 * q + (r + 1) <= 4 * ((Len(str) + 2) \div 3)
        /\ ~(r + 1 > Len(str) - 3 * q + 1)
    BY <1>1, <1>6
  <2>2. code[n] = base64_chars[quad]
    BY <1>2, <1>6, <2>1, Encoded
  <2>3. 3 * q + 1 \in Nat /\ 3 * q + 2 \in Nat /\ 3 * q + 3 \in Nat
    OBVIOUS
  <2>4. quad \in Sextet
    BY <2>1, <2>3, Encoded, QuadIsSextet
  <2> HIDE DEF quad
  <2>5. code[n] \in Alphabet
    BY <2>2, <2>4 DEF Alphabet
  <2>6. last = find(code[n])
    BY <2>5, AlphabetIs
  <2>7. last = quad
    BY <2>2, <2>4, <2>6, Characters
  <2> QED BY <2>7 DEF quad
<1>7. \/ n = Len(code)
      \/ n = Len(code) - 1 /\ last % 4 = 0
      \/ n = Len(code) - 2 /\ last % 16 = 0
  <2>1. /\ 3 * q + 1 \in Nat /\ 3 * q + 2 \in Nat /\ 3 * q + 3 \in Nat
        /\ ByteAt(str, 3 * q + 1) \in Byte /\ ByteAt(str, 3 * q + 2) \in Byte
    BY Encoded
  <2>2. CASE r = 0
    BY <1>2, <1>3, <2>2
  <2>3. CASE r = 1
    <3>1. n = Len(code) - 2
      BY <1>2, <1>3, <2>3
    <3>2. ByteAt(str, 3 * q + 2) = 0
      BY <1>1, <2>3 DEF ByteAt
    <3>3. last = (ByteAt(str, 3 * q + 1) % 4) * 16 + 0 \div 16
      BY <1>6, <2>3, <3>2 DEF Quad
    <3>4. \A a \in Byte : ((a % 4) * 16 + 0 \div 16) % 16 = 0
      BY DEF Byte
    <3> HIDE DEF last, n
    <3> QED BY <2>1, <3>1, <3>3, <3>4
  <2>4. CASE r = 2
    <3>1. n = Len(code) - 1
      BY <1>2, <1>3, <2>4
    <3>2. ByteAt(str, 3 * q + 3) = 0
      BY <1>1, <2>4 DEF ByteAt
    <3>3. last = (ByteAt(str, 3 * q + 2) % 16) * 4 + 0 \div 64
      BY <1>6, <2>4, <3>2 DEF Quad
    <3>4. \A a \in Byte : ((a % 16) * 4 + 0 \div 64) % 4 = 0
      BY DEF Byte
    <3> HIDE DEF last, n
    <3> QED BY <2>1, <3>1, <3>3, <3>4
  <2> QED BY <2>2, <2>3, <2>4
<1> QED BY <1>4, <1>5, <1>7 DEF Canonical

\* Three bytes made of four sextets are made of these sextets; where there are
\* fewer, the bytes that are missing hold 0 and so do the last bits.
LEMMA GroupOfSextets ==
  ASSUME NEW a \in Sextet, NEW b \in Sextet
  PROVE  /\ \A x, y, v, w : Quad(1, Triple(1, a, b, x, y), v, w) = a
         /\ \A c \in Sextet : \A x, y, z, u, v :
              Quad(2, Triple(1, a, b, x, y), Triple(2, z, b, c, u), v) = b
         /\ \A c \in Sextet : \A x, y, z, u, v :
              Quad(3, v, Triple(2, x, a, b, y), Triple(3, z, u, b, c)) = b
         /\ \A x, y, v, w : Quad(4, v, w, Triple(3, x, y, a, b)) = b
         /\ b % 16 = 0 => \A x, y, v : Quad(2, Triple(1, a, b, x, y), 0, v) = b
         /\ b % 4 = 0 => \A x, y, v : Quad(3, v, Triple(2, x, a, b, y), 0) = b
<1>1. /\ \A x, y : Triple(1, a, b, x, y) = (a * 4 + (b % 64) \div 16) % 256
      /\ \A x, y : Triple(2, x, a, b, y) = ((a % 16) * 16 + (b % 64) \div 4) % 256
      /\ \A x, y : Triple(3, x, y, a, b) = ((a % 4) * 64 + b) % 256
      /\ \A c, x, y : Triple(2, x, b, c, y) = ((b % 16) * 16 + (c % 64) \div 4) % 256
      /\ \A c, x, y : Triple(3, x, y, b, c) = ((b % 4) * 64 + c) % 256
  BY DEF Triple
<1>2. /\ \A s, v, w : Quad(1, s, v, w) = s \div 4
      /\ \A s, t, v : Quad(2, s, t, v) = (s % 4) * 16 + t \div 16
      /\ \A s, t, v : Quad(3, v, s, t) = (s % 16) * 4 + t \div 64
      /\ \A s, v, w : Quad(4, v, w, s) = s % 64
  BY DEF Quad
<1>3. /\ (a * 4 + (b % 64) \div 16) % 256 = a * 4 + b \div 16
      /\ ((a % 16) * 16 + (b % 64) \div 4) % 256 = (a % 16) * 16 + b \div 4
      /\ ((a % 4) * 64 + b) % 256 = (a % 4) * 64 + b
      /\ \A c \in Sextet :
           /\ ((b % 16) * 16 + (c % 64) \div 4) % 256 = (b % 16) * 16 + c \div 4
           /\ ((b % 4) * 64 + c) % 256 = (b % 4) * 64 + c
  BY DEF Sextet
<1>4. /\ (a * 4 + b \div 16) \div 4 = a
      /\ (a * 4 + b \div 16) % 4 = b \div 16
      /\ ((a % 16) * 16 + b \div 4) % 16 = b \div 4
      /\ ((a % 4) * 64 + b) % 64 = b
  BY DEF Sextet
<1>5. ASSUME NEW c \in Sextet
      PROVE  /\ ((b % 16) * 16 + c \div 4) \div 16 = b % 16
             /\ ((b % 4) * 64 + c) \div 64 = b % 4
  BY DEF Sextet
<1>6. /\ (b \div 16) * 16 + (b % 16) = b
      /\ (b \div 4) * 4 + (b % 4) = b
      /\ b % 16 = 0 => (b \div 16) * 16 + (0 \div 16) = b
      /\ b % 4 = 0 => (b \div 4) * 4 + (0 \div 64) = b
  BY DEF Sextet
<1>7. \A x, y, v, w : Quad(1, Triple(1, a, b, x, y), v, w) = a
  BY <1>1, <1>2, <1>3, <1>4
<1>8. ASSUME NEW c \in Sextet, NEW x, NEW y, NEW z, NEW u, NEW v
      PROVE  Quad(2, Triple(1, a, b, x, y), Triple(2, z, b, c, u), v) = b
  BY <1>1, <1>2, <1>3, <1>4, <1>5, <1>6
<1>9. ASSUME NEW c \in Sextet, NEW x, NEW y, NEW z, NEW u, NEW v
      PROVE  Quad(3, v, Triple(2, x, a, b, y), Triple(3, z, u, b, c)) = b
  BY <1>1, <1>2, <1>3, <1>4, <1>5, <1>6
<1>10. \A x, y, v, w : Quad(4, v, w, Triple(3, x, y, a, b)) = b
  BY <1>1, <1>2, <1>3, <1>4
<1>11. ASSUME b % 16 = 0, NEW x, NEW y, NEW v
       PROVE  Quad(2, Triple(1, a, b, x, y), 0, v) = b
  BY <1>1, <1>2, <1>3, <1>4, <1>6, <1>11
<1>12. ASSUME b % 4 = 0, NEW x, NEW y, NEW v
       PROVE  Quad(3, v, Triple(2, x, a, b, y), 0) = b
  BY <1>1, <1>2, <1>3, <1>4, <1>6, <1>12
<1> QED BY <1>7, <1>8, <1>9, <1>10, <1>11, <1>12

\* decode makes bytes of any text.
LEMMA DecodesToBytes ==
  ASSUME NEW code \in Seq(Byte)
  PROVE  /\ decode_groups(code) \in Seq(Byte)
         /\ Len(decode_groups(code)) = Decoded(Read(code))
         /\ \A g \in Nat, p \in 1..3 :
              3 * g + p <= Decoded(Read(code)) =>
                decode_groups(code)[3 * g + p]
                  = Triple(p, ValueAt(code, 4 * g + 1), ValueAt(code, 4 * g + 2),
                              ValueAt(code, 4 * g + 3), ValueAt(code, 4 * g + 4))
<1> DEFINE n == Decoded(Read(code))
           Place(g, p) == Triple(p, ValueAt(code, 4 * g + 1), ValueAt(code, 4 * g + 2),
                                    ValueAt(code, 4 * g + 3), ValueAt(code, 4 * g + 4))
<1>1. n \in Nat
  BY ReadIs, WholeBytes
<1>2. \A i : ValueAt(code, i) \in 0..255
  <2>1. \A c : find(c) \in 0..255
    <3>1. \A c : find(c) \in Sextet \/ find(c) = 255
      BY DEF find
    <3> QED BY <3>1 DEF Sextet
  <2> QED BY <2>1 DEF ValueAt
<1>3. ASSUME NEW g, NEW p \in 1..3 PROVE Place(g, p) \in Byte
  <2> DEFINE a == ValueAt(code, 4 * g + 1)
             b == ValueAt(code, 4 * g + 2)
             c == ValueAt(code, 4 * g + 3)
             d == ValueAt(code, 4 * g + 4)
  <2>1. a \in 0..255 /\ b \in 0..255 /\ c \in 0..255 /\ d \in 0..255
    BY <1>2
  <2> HIDE DEF a, b, c, d
  <2>2. /\ (a * 4 + (b % 64) \div 16) % 256 \in Byte
        /\ ((b % 16) * 16 + (c % 64) \div 4) % 256 \in Byte
        /\ ((c % 4) * 64 + d) % 256 \in Byte
    BY <2>1 DEF Byte
  <2>3. Triple(p, a, b, c, d) \in Byte
    BY <2>2 DEF Triple
  <2> QED BY <2>3 DEF a, b, c, d
<1>4. decode_groups(code) = [k \in 1..n |-> Place((k - 1) \div 3, ((k - 1) % 3) + 1)]
  BY DEF decode_groups
<1> HIDE DEF n, Place
<1>5. \A k \in 1..n : Place((k - 1) \div 3, ((k - 1) % 3) + 1) \in Byte
  <2>1. \A k \in 1..n : ((k - 1) % 3) + 1 \in 1..3
    BY <1>1
  <2> QED BY <1>3, <2>1
<1>6. decode_groups(code) \in [1..n -> Byte]
  BY <1>4, <1>5
<1>7. decode_groups(code) \in Seq(Byte) /\ Len(decode_groups(code)) = n
  BY <1>1, <1>6
<1>8. ASSUME NEW g \in Nat, NEW p \in 1..3, 3 * g + p <= n
      PROVE  decode_groups(code)[3 * g + p] = Place(g, p)
  <2>1. 3 * g + p \in 1..n
    BY <1>1, <1>8
  <2>2. ((3 * g + p) - 1) \div 3 = g /\ (((3 * g + p) - 1) % 3) + 1 = p
    OBVIOUS
  <2>3. decode_groups(code)[3 * g + p]
        = Place(((3 * g + p) - 1) \div 3, (((3 * g + p) - 1) % 3) + 1)
    BY <1>4, <2>1
  <2> QED BY <2>2, <2>3
<1> QED BY <1>7, <1>8 DEF n, Place

\* A canonical text is the encoding of what decode makes of it.
LEMMA CanonicalComesBack ==
  ASSUME NEW code \in Seq(Byte), Canonical(code)
  PROVE  encode_bytes(decode_groups(code)) = code
<1> DEFINE n == Prefix(code)
           last == CHOOSE s \in Sextet : base64_chars[s] = code[n]
           str == decode_groups(code)
           S(i) == ValueAt(code, i)
<1>1. /\ Len(code) \in Nat /\ n \in 0..Len(code)
      /\ \A i \in 1..n : code[i] \in Alphabet
  BY PrefixIs
<1>2. /\ Len(code) % 4 = 0
      /\ \A i \in n + 1 .. Len(code) : code[i] = Pad
      /\ \/ n = Len(code)
         \/ n = Len(code) - 1 /\ last % 4 = 0
         \/ n = Len(code) - 2 /\ last % 16 = 0
  BY DEF Canonical
<1>3. Read(code) = n
  <2>1. ASSUME NEW i \in 1..Len(code) PROVE code[i] <= 127
    <3>1. i \in 1..n \/ i \in n + 1 .. Len(code)
      BY <1>1
    <3>2. CASE i \in 1..n
      <4>1. code[i] \in 0..127
        BY <1>1, <3>2, AlphabetIs
      <4>2. \A c \in 0..127 : c <= 127
        OBVIOUS
      <4> QED BY <4>1, <4>2
    <3>3. CASE i \in n + 1 .. Len(code)
      BY <1>2, <3>3 DEF Pad
    <3> QED BY <3>1, <3>2, <3>3
  <2> QED BY <2>1, ReadsPrefix
<1>4. ASSUME NEW i \in 1..n
      PROVE  /\ S(i) \in Sextet /\ base64_chars[S(i)] = code[i]
             /\ i = n => S(i) = last
  <2>1. S(i) = find(code[i])
    BY <1>1, <1>3 DEF ValueAt
  <2> QED BY <1>1, <2>1, AlphabetIs
<1>5. PICK L \in Nat, e \in 0..2 :
        /\ Len(code) = 4 * L /\ n = 4 * L - e
        /\ e = 1 => last % 4 = 0
        /\ e = 2 => last % 16 = 0
  <2>1. PICK L \in Nat : Len(code) = 4 * L
    <3>1. PICK q \in Nat, r \in 0..3 : Len(code) = 4 * q + r /\ Len(code) % 4 = r
      BY <1>1, Fours
    <3> QED BY <1>2, <3>1
  <2> HIDE DEF n, last
  <2>2. CASE n = Len(code)
    <3>1. n = 4 * L - 0
      BY <2>1, <2>2
    <3> QED BY <2>1, <3>1
  <2>3. CASE n = Len(code) - 1 /\ last % 4 = 0
    <3>1. n = 4 * L - 1 /\ 1 \in 0..2
      BY <2>1, <2>3
    <3> QED BY <2>1, <2>3, <3>1
  <2>4. CASE n = Len(code) - 2 /\ last % 16 = 0
    <3>1. n = 4 * L - 2 /\ 2 \in 0..2
      BY <2>1, <2>4
    <3> QED BY <2>1, <2>4, <3>1
  <2> QED BY <1>2, <2>2, <2>3, <2>4
<1>6. str \in Seq(Byte) /\ Len(str) = 3 * L - e /\ (e # 0 => L # 0)
  <2>1. e # 0 => L # 0
    BY <1>1, <1>5
  <2>2. Decoded(4 * L - e) = 3 * L - e
    <3>1. CASE e = 0
      <4>1. (4 * L) \div 4 = L /\ (4 * L) % 4 = 0 /\ 4 * L - e = 4 * L /\ 3 * L - e = 3 * L
        BY <3>1
      <4> QED BY <4>1 DEF Decoded
    <3>2. CASE e = 1
      <4>1. (4 * L - e) \div 4 = L - 1 /\ (4 * L - e) % 4 = 3
        BY <2>1, <3>2
      <4> QED BY <3>2, <4>1 DEF Decoded
    <3>3. CASE e = 2
      <4>1. (4 * L - e) \div 4 = L - 1 /\ (4 * L - e) % 4 = 2
        BY <2>1, <3>3
      <4> QED BY <3>3, <4>1 DEF Decoded
    <3> QED BY <3>1, <3>2, <3>3
  <2> QED BY <1>3, <1>5, <2>1, <2>2, DecodesToBytes
<1>7. ASSUME NEW g \in Nat, NEW p \in 1..3, g < L
      PROVE  ByteAt(str, 3 * g + p)
               = IF 3 * g + p <= 3 * L - e
                 THEN Triple(p, S(4 * g + 1), S(4 * g + 2), S(4 * g + 3), S(4 * g + 4))
                 ELSE 0
  <2>1. 3 * g + p \in 1..Len(str) <=> 3 * g + p <= 3 * L - e
    BY <1>6
  <2>2. 3 * g + p <= Decoded(Read(code)) <=> 3 * g + p <= 3 * L - e
    BY <1>6, DecodesToBytes
  <2> QED BY <2>1, <2>2, DecodesToBytes DEF ByteAt
<1>8. (Len(str) + 2) \div 3 = L
  <2>1. CASE e = 0
    BY <1>6, <2>1
  <2>2. CASE e = 1
    BY <1>6, <2>2
  <2>3. CASE e = 2
    BY <1>6, <2>3
  <2> QED BY <2>1, <2>2, <2>3
<1> HIDE DEF n, last, str, S
<1> DEFINE quad(g, p) == Quad(p, ByteAt(str, 3 * g + 1), ByteAt(str, 3 * g + 2),
                                 ByteAt(str, 3 * g + 3))
<1>9. ASSUME NEW g \in Nat, NEW p \in 1..4, g < L, 4 * g + p <= n
      PROVE  quad(g, p) = S(4 * g + p)
  <2> DEFINE a == S(4 * g + 1)
             b == S(4 * g + 2)
             c == S(4 * g + 3)
             d == S(4 * g + 4)
  <2>1. 4 * g + 1 \in 1..n /\ 4 * g + 2 \in 1..n
    BY <1>5, <1>9
  <2>2. a \in Sextet /\ b \in Sextet /\ ByteAt(str, 3 * g + 1) = Triple(1, a, b, c, d)
    <3>1. 3 * g + 1 <= 3 * L - e
      BY <1>9
    <3> QED BY <1>4, <1>7, <1>9, <2>1, <3>1
  <2>3. 4 * g + 3 <= n => c \in Sextet /\ ByteAt(str, 3 * g + 2) = Triple(2, a, b, c, d)
    <3>1. ASSUME 4 * g + 3 <= n PROVE 3 * g + 2 <= 3 * L - e /\ 4 * g + 3 \in 1..n
      BY <1>5, <1>9, <3>1
    <3> QED BY <1>4, <1>7, <1>9, <3>1
  <2>4. 4 * g + 4 <= n => d \in Sextet /\ ByteAt(str, 3 * g + 3) = Triple(3, a, b, c, d)
    <3>1. ASSUME 4 * g + 4 <= n PROVE 3 * g + 3 <= 3 * L - e /\ 4 * g + 4 \in 1..n
      BY <1>5, <1>9, <3>1
    <3> QED BY <1>4, <1>7, <1>9, <3>1
  <2>5. ~(4 * g + 3 <= n) => b % 16 = 0 /\ ByteAt(str, 3 * g + 2) = 0
    <3> SUFFICES ASSUME ~(4 * g + 3 <= n)
                 PROVE  b % 16 = 0 /\ ByteAt(str, 3 * g + 2) = 0
      OBVIOUS
    <3>1. e = 2 /\ n = 4 * g + 2 /\ ~(3 * g + 2 <= 3 * L - e)
      BY <1>5, <1>9, <2>1
    <3>2. b = last
      BY <1>4, <2>1, <3>1
    <3> QED BY <1>5, <1>7, <1>9, <3>1, <3>2
  <2>6. 4 * g + 3 <= n /\ ~(4 * g + 4 <= n) => c % 4 = 0 /\ ByteAt(str, 3 * g + 3) = 0
    <3> SUFFICES ASSUME 4 * g + 3 <= n, ~(4 * g + 4 <= n)
                 PROVE  c % 4 = 0 /\ ByteAt(str, 3 * g + 3) = 0
      OBVIOUS
    <3>1. /\ e = 1 /\ n = 4 * g + 3 /\ ~(3 * g + 3 <= 3 * L - e)
          /\ 4 * g + 3 \in 1..n
      BY <1>5, <1>9, <2>1
    <3>2. c = last
      BY <1>4, <3>1
    <3> QED BY <1>5, <1>7, <1>9, <3>1, <3>2
  <2> HIDE DEF a, b, c, d
  <2>7. CASE p = 1
    <3>1. quad(g, 1) = a
      BY <2>2, GroupOfSextets
    <3> QED BY <2>7, <3>1 DEF a
  <2>8. CASE p = 2
    <3>1. CASE 4 * g + 3 <= n
      <4>1. quad(g, 2) = b
        BY <2>2, <2>3, <3>1, GroupOfSextets
      <4> QED BY <2>8, <4>1 DEF b
    <3>2. CASE ~(4 * g + 3 <= n)
      <4>1. quad(g, 2) = b
        BY <2>2, <2>5, <3>2, GroupOfSextets
      <4> QED BY <2>8, <4>1 DEF b
    <3> QED BY <3>1, <3>2
  <2>9. CASE p = 3
    <3>1. 4 * g + 3 <= n
      BY <1>9, <2>9
    <3>2. CASE 4 * g + 4 <= n
      <4>1. quad(g, 3) = c
        BY <2>2, <2>3, <2>4, <3>1, <3>2, GroupOfSextets
      <4> QED BY <2>9, <4>1 DEF c
    <3>3. CASE ~(4 * g + 4 <= n)
      <4>1. quad(g, 3) = c
        BY <2>2, <2>3, <2>6, <3>1, <3>3, GroupOfSextets
      <4> QED BY <2>9, <4>1 DEF c
    <3> QED BY <3>2, <3>3
  <2>10. CASE p = 4
    <3>1. 4 * g + 4 <= n /\ 4 * g + 3 <= n
      BY <1>5, <1>9, <2>10
    <3>2. quad(g, 4) = d
      BY <2>3, <2>4, <3>1, GroupOfSextets
    <3> QED BY <2>10, <3>2 DEF d
  <2> QED BY <2>7, <2>8, <2>9, <2>10
<1>10. ASSUME NEW i \in 1..4 * L PROVE encode_bytes(str)[i] = code[i]
  <2>0. i \in Nat \ {0} /\ i <= 4 * L
    OBVIOUS
  <2>1. PICK g \in Nat, p \in 1..4 : i = 4 * g + p
    BY <2>0, Places
  <2>2. g < L /\ (p > Len(str) - 3 * g + 1 <=> ~(4 * g + p <= n))
    BY <1>5, <1>6, <2>0, <2>1
  <2>3. encode_bytes(str)[i] = IF p > Len(str) - 3 * g + 1 THEN Pad
                           ELSE base64_chars[quad(g, p)]
    BY <1>6, <1>8, <2>0, <2>1, Encoded
  <2> HIDE DEF quad
  <2>4. CASE i <= n
    <3>1. i \in 1..n
      BY <1>5, <2>0, <2>4
    <3> QED BY <1>4, <1>9, <2>1, <2>2, <2>3, <2>4, <3>1
  <2>5. CASE ~(i <= n)
    <3>1. i \in n + 1 .. Len(code)
      BY <1>1, <1>5, <2>0, <2>5
    <3> QED BY <1>2, <2>1, <2>2, <2>3, <2>5, <3>1
  <2> QED BY <2>4, <2>5
<1>11. /\ encode_bytes(str) \in Seq(Byte) /\ Len(encode_bytes(str)) = 4 * L
  BY <1>6, <1>8, Encoded, EncodedCharacters
<1>12. encode_bytes(str) = code
  BY <1>5, <1>10, <1>11
<1> QED BY <1>12 DEF str

\* Decoding loses nothing, and so encoding brings the text back, exactly when it
\* is canonical.
LEMMA GroupsShowLoss ==
  ASSUME NEW code \in Seq(Byte)
  PROVE  Canonical(code) <=> encode_bytes(decode_groups(code)) = code
<1>1. decode_groups(code) \in Seq(Byte)
  BY DecodesToBytes
<1>2. Canonical(encode_bytes(decode_groups(code)))
  BY <1>1, EncodedIsCanonical
<1> QED BY <1>2, CanonicalComesBack

-----------------------------------------------------------------------------
(* Lengths.                                                                *)

\* A text is all of itself.
LEMMA WholeText ==
  ASSUME NEW str \in Seq(Byte)
  PROVE  SubSeq(str, 1, Len(str)) = str
OBVIOUS

\* What fits an unsigned int is not narrowed.
LEMMA Narrowed ==
  ASSUME NEW n \in Nat, n < UnsignedSpan
  PROVE  n % UnsignedSpan = n
<1> DEFINE d == UnsignedSpan
<1>1. d \in Nat \ {0}
  BY IntMaxAssumption DEF UnsignedSpan
<1> HIDE DEF d
<1>2. n < d => n % d = n
  BY <1>1
<1> QED BY <1>2 DEF d

\* encode of a text whose length fits an unsigned int (Base64.cpp, 8-10).
LEMMA EncodesAll ==
  ASSUME NEW str \in Seq(Byte), Len(str) < UnsignedSpan
  PROVE  encode(str) = encode_bytes(str)
<1>1. Len(str) % UnsignedSpan = Len(str)
  <2>1. Len(str) \in Nat
    OBVIOUS
  <2> QED BY <2>1, Narrowed
<1> QED BY <1>1, WholeText DEF encode

\* decode of a text whose length fits an int (Base64.cpp, 67 and 75).
LEMMA DecodesAll ==
  ASSUME NEW code \in Seq(Byte), Len(code) <= IntMax
  PROVE  decode(code) = decode_groups(code)
<1>1. Len(code) \in Nat /\ Len(code) < UnsignedSpan
  BY IntMaxAssumption DEF UnsignedSpan
<1>2. in_len(code) = Len(code)
  BY <1>1, Narrowed DEF in_len
<1>3. Seen(code) = code /\ ~Overflows(code)
  BY <1>1, <1>2, WholeText DEF Seen, Overflows
<1> QED BY <1>3 DEF decode

\* No text is longer than its encoding, or shorter than what decode makes of it.
LEMMA Grows ==
  ASSUME NEW str \in Seq(Byte)
  PROVE  /\ Len(encode_bytes(str)) = Len(Encoding(str))
         /\ Len(str) <= Len(encode_bytes(str))
         /\ Len(decode_groups(str)) <= Len(str)
<1>1. Len(encode_bytes(str)) = Len(Encoding(str))
  BY GroupsHoldBits
<1>2. Len(str) <= 4 * ((Len(str) + 2) \div 3)
  <2>1. Len(str) \in Nat
    OBVIOUS
  <2>2. PICK q \in Nat, r \in 0..2 :
          /\ Len(str) = 3 * q + r
          /\ (Len(str) + 2) \div 3 = IF r = 0 THEN q ELSE q + 1
    BY <2>1, Groups
  <2> QED BY <2>2
<1>3. Decoded(Read(str)) <= Len(str)
  <2>1. Read(str) \in Nat /\ Read(str) <= Len(str)
    BY ReadIs
  <2>2. PICK q \in Nat, r \in 0..3 :
          Read(str) = 4 * q + r /\ Read(str) \div 4 = q /\ Read(str) % 4 = r
    BY <2>1, Fours
  <2>3. Decoded(Read(str)) = 3 * q + (IF r = 0 THEN 0 ELSE r - 1)
    BY <2>2 DEF Decoded
  <2> QED BY <2>1, <2>2, <2>3
<1> QED BY <1>1, <1>2, <1>3, Encoded, DecodesToBytes

\* decode(encode(str)) is str, for byte strings of every content and every length
\* whose encoding an int can count, and whatever letters the locale adds.
THEOREM RoundTripForAll ==
  \A str \in Seq(Byte) :
    Len(Encoding(str)) <= IntMax => decode(encode(str)) = str
<1> SUFFICES ASSUME NEW str \in Seq(Byte), Len(Encoding(str)) <= IntMax
             PROVE  decode(encode(str)) = str
  OBVIOUS
<1> DEFINE code == encode_bytes(str)
<1>1. code \in Seq(Byte)
  BY EncodedCharacters
<1>2. Len(code) <= IntMax /\ Len(str) <= IntMax
  BY <1>1, Grows, IntMaxAssumption
<1>3. encode(str) = code
  <2>1. Len(str) < UnsignedSpan
    BY <1>2, IntMaxAssumption DEF UnsignedSpan
  <2> QED BY <2>1, EncodesAll
<1>4. decode(code) = decode_groups(code)
  BY <1>1, <1>2, DecodesAll
<1> QED BY <1>3, <1>4, GroupsComeBack

\* Of a text that an int can count, encoding the answer of decode brings the text
\* back exactly when it is canonical.
LEMMA LossIsVisibleForAll ==
  ASSUME NEW code \in Seq(Byte), Len(code) <= IntMax
  PROVE  Canonical(code) <=> encode(decode(code)) = code
<1> DEFINE str == decode_groups(code)
<1>1. str \in Seq(Byte) /\ Len(str) <= Len(code)
  BY DecodesToBytes, Grows
<1>2. Len(str) < UnsignedSpan
  BY <1>1, IntMaxAssumption DEF UnsignedSpan
<1>3. decode(code) = str
  BY DecodesAll
<1> HIDE DEF str
<1>4. encode(str) = encode_bytes(str)
  BY <1>1, <1>2, EncodesAll
<1> QED BY <1>3, <1>4, GroupsShowLoss DEF str

-----------------------------------------------------------------------------
(* What an application types in.                                           *)

\* Filling in parameters leaves the text alone.
LEMMA TextIsBytes == Spec => [](text \in Seq(Byte))
<1>1. Init => text \in Seq(Byte)
  BY DEF Init
<1>2. text \in Seq(Byte) /\ [Next]_vars => (text \in Seq(Byte))'
  <2> SUFFICES ASSUME text \in Seq(Byte), [Next]_vars
               PROVE  text' \in Seq(Byte)
    OBVIOUS
  <2>1. ASSUME NEW b \in Bytes, Type(b)
        PROVE  text' \in Seq(Byte)
    BY <2>1, BytesAssumption DEF Type
  <2>2. ASSUME NEW b \in Bytes, NEW n \in Runs, Hold(b, n)
        PROVE  text' \in Seq(Byte)
    <3>1. b \in Byte /\ n \in Nat
      BY BytesAssumption, BoundsAssumption
    <3>2. [i \in 1..n |-> b] \in Seq(Byte)
      BY <3>1
    <3> QED BY <2>2, <3>2 DEF Hold
  <2>3. ASSUME NEW k \in Names, NEW v \in ValueVariants, Fill(k, v)
        PROVE  text' \in Seq(Byte)
    BY <2>3 DEF Fill
  <2>4. CASE UNCHANGED vars
    BY <2>4 DEF vars
  <2> QED BY <2>1, <2>2, <2>3, <2>4 DEF Next
<1> QED BY <1>1, <1>2, PTL DEF Spec

\* The envelope: decrypt takes off what EncryptBody and Vault put on.
LEMMA Envelope ==
  ASSUME NEW t
  PROVE  decrypt(Decrypted(EncryptBody(Plaintext(t)))) = value(decode(encode(t)))
<1> DEFINE v == [kind |-> "string", of |-> encode(t)]
           body == EncryptBody(Plaintext(t))
<1>1. /\ body.type = "object"
      /\ "plaintext" \in DOMAIN body.of
      /\ body.of["plaintext"] = ToJson(v)
  BY DEF EncryptBody, Plaintext, create_json, Json, Only
<1>2. ToJson(v) = Json("string", encode(t))
  BY DEF ToJson
<1>3. Member(Decrypted(body), "data") = body
  BY DEF Member, Decrypted, Json, Only
<1>4. Member(body, "plaintext") = Json("string", encode(t))
  BY <1>1, <1>2 DEF Member
<1> HIDE DEF body
<1>5. decrypt(Decrypted(body)) = value(decode(encode(t)))
  BY <1>3, <1>4 DEF decrypt, Json
<1> QED BY <1>5 DEF body

\* Transit::decrypt gives back what was encrypted, for texts of every length whose
\* encoding an int can count.
THEOREM DecryptsWhatWasEncrypted == Spec => []RoundTrip
<1>1. text \in Seq(Byte) => RoundTrip
  BY RoundTripForAll, Envelope DEF RoundTrip
<1> QED BY <1>1, TextIsBytes, PTL

-----------------------------------------------------------------------------
(* The codec, of the texts that this specification reaches.                *)

\* encode of Base64.cpp writes the bits of the bytes, six by six, and the padding
\* that fills the last group, for texts of every length that an unsigned int holds.
THEOREM BytesAreSpelledOut == Spec => []EncodesBits
<1>1. text \in Seq(Byte) => EncodesBits
  BY EncodesAll, GroupsHoldBits DEF EncodesBits
<1> QED BY <1>1, TextIsBytes, PTL

\* decode of Base64.cpp gives the whole bytes in the characters before the first
\* that is none of its alphabet, of whatever text whose length an int holds.
THEOREM DecodingEndsAtAStranger == Spec => []DecodesPrefix
<1>1. text \in Seq(Byte) => DecodesPrefix
  BY DecodesAll, GroupsReadBits DEF DecodesPrefix
<1> QED BY <1>1, TextIsBytes, PTL

\* decode reports no error: encoding its answer again gives back the text exactly
\* when the text was the encoding of something; of texts whose length an int holds.
THEOREM LossCanBeSeen == Spec => []LossIsVisible
<1>1. text \in Seq(Byte) => LossIsVisible
  BY LossIsVisibleForAll DEF LossIsVisible
<1> QED BY <1>1, TextIsBytes, PTL

-----------------------------------------------------------------------------
(* The parameters and the bodies made of them.                             *)

Parameters == UNION {[names -> ValueVariants] : names \in SUBSET Names}

\* Fill adds one name and one value at a time, and nothing else adds any.
LEMMA FilledOneByOne == Spec => [](parameters \in Parameters)
<1>1. Init => parameters \in Parameters
  <2> SUFFICES ASSUME parameters = Empty PROVE parameters \in [{} -> ValueVariants]
    BY DEF Init, Parameters
  <2> QED BY DEF Empty
<1>2. parameters \in Parameters /\ [Next]_vars => (parameters \in Parameters)'
  <2> SUFFICES ASSUME parameters \in Parameters, [Next]_vars
               PROVE  parameters' \in Parameters
    BY DEF Parameters
  <2>1. ASSUME NEW b \in Bytes, Type(b)
        PROVE  parameters' \in Parameters
    BY <2>1 DEF Type
  <2>2. ASSUME NEW b \in Bytes, NEW n \in Runs, Hold(b, n)
        PROVE  parameters' \in Parameters
    BY <2>2 DEF Hold
  <2>3. ASSUME NEW k \in Names, NEW v \in ValueVariants, Fill(k, v)
        PROVE  parameters' \in Parameters
    <3>1. PICK names \in SUBSET Names : parameters \in [names -> ValueVariants]
      BY DEF Parameters
    <3>2. parameters' = Put(parameters, k, v)
      BY <2>3 DEF Fill
    <3>3. parameters' \in [names \cup {k} -> ValueVariants]
      BY <3>1, <3>2 DEF Put
    <3>4. names \cup {k} \in SUBSET Names
      BY <2>3, <3>1
    <3> QED BY <3>3, <3>4 DEF Parameters
  <2>4. CASE UNCHANGED vars
    BY <2>4 DEF vars
  <2> QED BY <2>1, <2>2, <2>3, <2>4 DEF Next
<1> QED BY <1>1, <1>2, PTL DEF Spec

\* What each kind of value becomes.
LEMMA Values ==
  ASSUME NEW v \in ValueVariants
  PROVE  \/ /\ v.kind = "string" /\ v = [kind |-> "string", of |-> v.of]
            /\ ToJson(v) = Json("string", v.of)
         \/ /\ v.kind = "int" /\ v = [kind |-> "int", of |-> v.of]
            /\ ToJson(v) = Json("number", v.of)
         \/ /\ v.kind = "vector" /\ v = [kind |-> "vector", of |-> v.of]
            /\ ToJson(v) = Json("array", v.of)
         \/ v = [kind |-> "map", of |-> Empty] /\ ToJson(v) = null
         \/ /\ v.kind = "map" /\ v = [kind |-> "map", of |-> v.of]
            /\ v.of \in [{"key"} -> Words]
            /\ ToJson(v) = Json("object", [k \in {"key"} |-> Json("string", v.of[k])])
<1>1. CASE v \in Strings
  BY <1>1 DEF ToJson, Strings
<1>2. CASE v \in [kind : {"int"}, of : Words]
  BY <1>2 DEF ToJson
<1>3. CASE v \in [kind : {"vector"}, of : {<< >>} \cup {<<w>> : w \in Words}]
  BY <1>3 DEF ToJson
<1>4. CASE v \in [kind : {"map"}, of : {Empty} \cup [{"key"} -> Words]]
  <2>1. v.kind = "map" /\ v = [kind |-> "map", of |-> v.of]
    BY <1>4
  <2>2. CASE v.of = Empty
    BY <2>1, <2>2 DEF ToJson
  <2>3. CASE v.of \in [{"key"} -> Words]
    <3>1. DOMAIN v.of = {"key"} /\ DOMAIN Empty = {}
      BY <2>3 DEF Empty
    <3>2. v.of # Empty
      BY <3>1
    <3> QED BY <2>1, <2>3, <3>1, <3>2 DEF ToJson
  <2> QED BY <1>4, <2>2, <2>3
<1> QED BY <1>1, <1>2, <1>3, <1>4 DEF ValueVariants

\* What create_json makes of parameters is an object with their names.
LEMMA Created ==
  ASSUME NEW p \in Parameters
  PROVE  /\ create_json(p).type = "object"
         /\ DOMAIN create_json(p).of = DOMAIN p
         /\ \A k \in DOMAIN p : /\ create_json(p).of[k] = ToJson(p[k])
                                /\ p[k] \in ValueVariants
         /\ DOMAIN p \subseteq Names
BY DEF Parameters, create_json, Json

\* The body of a POST: parameters, options and config side by side.
LEMMA Body ==
  ASSUME NEW p \in Parameters, NEW options, NEW config
  PROVE  LET body == PostBody(p, options, config)
             both == {"options", "config"}
         IN  /\ DOMAIN body.of = (DOMAIN p \ both) \cup both
             /\ \A k \in DOMAIN p \ both : body.of[k] = ToJson(p[k])
             /\ body.of["options"] = create_json(options)
             /\ body.of["config"] = create_json(config)
<1> DEFINE o == create_json(options)
           c == create_json(config)
           json == create_json(p).of
           put == Put(json, "options", o)
<1>1. /\ DOMAIN json = DOMAIN p
      /\ \A k \in DOMAIN p : json[k] = ToJson(p[k])
  BY Created
<1>2. PostBody(p, options, config).of = Put(put, "config", c)
  BY DEF PostBody, PutBody, With, Json
<1> HIDE DEF o, c, json
<1>3. /\ DOMAIN put = DOMAIN p \cup {"options"}
      /\ put["options"] = o
      /\ \A k \in DOMAIN p \ {"options", "config"} : put[k] = ToJson(p[k])
  BY <1>1 DEF Put
<1> HIDE DEF put
<1>4. LET body == Put(put, "config", c)
      IN  /\ DOMAIN body = (DOMAIN p \ {"options", "config"}) \cup {"options", "config"}
          /\ \A k \in DOMAIN p \ {"options", "config"} : body[k] = ToJson(p[k])
          /\ body["options"] = o
          /\ body["config"] = c
  BY <1>3 DEF Put
<1> QED BY <1>2, <1>4 DEF o, c

\* Every kind of value can be told from the others.
LEMMA ToldApart ==
  ASSUME NEW v \in ValueVariants
  PROVE  FromJson(ToJson(v)) = v
<1>1. CASE v = [kind |-> "string", of |-> v.of] /\ ToJson(v) = Json("string", v.of)
  BY <1>1 DEF FromJson, Json
<1>2. CASE v = [kind |-> "int", of |-> v.of] /\ ToJson(v) = Json("number", v.of)
  BY <1>2 DEF FromJson, Json
<1>3. CASE v = [kind |-> "vector", of |-> v.of] /\ ToJson(v) = Json("array", v.of)
  BY <1>3 DEF FromJson, Json
<1>4. CASE v = [kind |-> "map", of |-> Empty] /\ ToJson(v) = null
  BY <1>4 DEF FromJson, null, Json
<1>5. CASE /\ v = [kind |-> "map", of |-> v.of] /\ v.of \in [{"key"} -> Words]
           /\ ToJson(v) = Json("object", [k \in {"key"} |-> Json("string", v.of[k])])
  <2> DEFINE of == [k \in {"key"} |-> Json("string", v.of[k])]
  <2>1. FromJson(Json("object", of))
        = [kind |-> "map", of |-> [k \in DOMAIN of |-> of[k].of]]
    BY DEF FromJson, Json
  <2>2. [k \in DOMAIN of |-> of[k].of] = v.of
    BY <1>5 DEF Json
  <2> QED BY <1>5, <2>1, <2>2
<1> QED BY <1>1, <1>2, <1>3, <1>4, <1>5, Values

\* create_json loses nothing of the parameters of an operation, and a POST with
\* options and config carries each as it is.
THEOREM NoParameterIsLost == Spec => []BodiesTellAll
<1>1. ASSUME parameters \in Parameters PROVE BodiesTellAll
  <2>1. Told(create_json(parameters)) = parameters
    <3>1. \A k \in DOMAIN parameters :
            FromJson(create_json(parameters).of[k]) = parameters[k]
      BY <1>1, Created, ToldApart
    <3>2. Told(create_json(parameters)) = [k \in DOMAIN parameters |-> parameters[k]]
      BY <1>1, <3>1, Created DEF Told
    <3> QED BY <1>1, <3>2 DEF Parameters
  <2>2. ASSUME NEW options, NEW config
        PROVE  LET body == PostBody(parameters, options, config)
                   others == DOMAIN parameters \ {"options", "config"}
               IN  /\ DOMAIN body.of = others \cup {"options", "config"}
                   /\ \A k \in others : Told(body)[k] = parameters[k]
                   /\ body.of["options"] = create_json(options)
                   /\ body.of["config"] = create_json(config)
    <3> DEFINE body == PostBody(parameters, options, config)
               others == DOMAIN parameters \ {"options", "config"}
    <3>1. /\ DOMAIN body.of = others \cup {"options", "config"}
          /\ \A k \in others : body.of[k] = ToJson(parameters[k])
          /\ body.of["options"] = create_json(options)
          /\ body.of["config"] = create_json(config)
      BY <1>1, Body
    <3> HIDE DEF body
    <3>2. ASSUME NEW k \in others PROVE Told(body)[k] = parameters[k]
      <4>1. Told(body)[k] = FromJson(ToJson(parameters[k]))
        BY <3>1 DEF Told
      <4>2. parameters[k] \in ValueVariants
        BY <1>1, Created
      <4> QED BY <4>1, <4>2, ToldApart
    <3> QED BY <3>1, <3>2 DEF body
  <2> QED BY <2>1, <2>2 DEF BodiesTellAll
<1> QED BY <1>1, FilledOneByOne, PTL

-----------------------------------------------------------------------------
(* A secret and the program that reads it.                                 *)

\* Either version of the engine answers with the parameters below data.data.
LEMMA ComesBack ==
  ASSUME NEW p, NEW version \in {"v1", "v2"}
  PROVE  Member(Member(Answer(version, Stored(version, SecretBody(p))), "data"), "data")
           = create_json(p)
<1> DEFINE body == SecretBody(p)
<1>1. Member(body, "data") = create_json(p)
  BY DEF SecretBody, Only, Member, Json
<1> HIDE DEF body
<1>2. CASE version = "v1"
  <2>1. Member(Answer("v1", body), "data") = body
    BY DEF Answer, Only, Member, Json
  <2> QED BY <1>1, <1>2, <2>1 DEF Stored, body
<1>3. CASE version = "v2"
  <2> DEFINE stored == Member(body, "data")
             inner == Json("object", [n \in {"data", "metadata"} |->
                                        IF n = "data" THEN stored ELSE null])
  <2>1. Member(inner, "data") = stored
    BY DEF Member, Json
  <2> HIDE DEF stored
  <2>2. Member(Answer("v2", stored), "data") = inner
    BY DEF Answer, Only, Member, Json
  <2> HIDE DEF inner
  <2>3. Stored("v2", body) = stored
    BY DEF Stored, stored
  <2> QED BY <1>1, <1>3, <2>1, <2>2, <2>3 DEF stored, body
<1> QED BY <1>2, <1>3

\* Of the values that parameters hold, strings become strings and no other does.
LEMMA StringsOnly ==
  ASSUME NEW v \in ValueVariants
  PROVE  /\ ToJson(v).type = "string" <=> v.kind = "string"
         /\ v.kind = "string" => ToJson(v).of = v.of
BY Values DEF Json, null

\* A program that reads its secret back as strings gets what was written, for the
\* names that are there, and is thrown at if something else was written.
THEOREM SecretIsReadBack == Spec => []ReadsBackItsSecret
<1>1. ASSUME parameters \in Parameters PROVE ReadsBackItsSecret
  <2> SUFFICES ASSUME NEW version \in {"v1", "v2"}
               PROVE  LET body == SecretBody(parameters)
                          read == Secrets(Answer(version, Stored(version, body)))
                      IN  IF \A k \in DOMAIN parameters : parameters[k].kind = "string"
                          THEN /\ read.outcome = "value"
                               /\ DOMAIN read.value = DOMAIN parameters
                               /\ \A k \in Names :
                                    withSecrets(k, read.value) =
                                      IF k \in DOMAIN parameters
                                      THEN parameters[k].of ELSE k
                          ELSE read = threw
    BY DEF ReadsBackItsSecret
  <2> DEFINE answer == Answer(version, Stored(version, SecretBody(parameters)))
             json == create_json(parameters)
             strings == [k \in DOMAIN json.of |-> json.of[k].of]
  <2>1. /\ json.type = "object" /\ DOMAIN json.of = DOMAIN parameters
        /\ \A k \in DOMAIN parameters :
             /\ json.of[k].type = "string" <=> parameters[k].kind = "string"
             /\ parameters[k].kind = "string" => json.of[k].of = parameters[k].of
    BY <1>1, Created, StringsOnly
  <2>2. Secrets(answer) = IF \A k \in DOMAIN json.of : json.of[k].type = "string"
                          THEN value(strings) ELSE threw
    BY <2>1, ComesBack DEF Secrets
  <2> HIDE DEF answer, json
  <2>3. CASE \A k \in DOMAIN parameters : parameters[k].kind = "string"
    <3>1. Secrets(answer).outcome = "value" /\ Secrets(answer).value = strings
      BY <2>1, <2>2, <2>3 DEF value
    <3>2. \A k \in Names :
            withSecrets(k, strings) =
              IF k \in DOMAIN parameters THEN parameters[k].of ELSE k
      BY <2>1, <2>3 DEF withSecrets
    <3> QED BY <2>1, <2>3, <3>1, <3>2 DEF answer
  <2>4. CASE ~ \A k \in DOMAIN parameters : parameters[k].kind = "string"
    BY <2>1, <2>2, <2>4 DEF answer
  <2> QED BY <2>3, <2>4
<1> QED BY <1>1, FilledOneByOne, PTL
=============================================================================
