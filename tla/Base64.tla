------------------------------- MODULE Base64 -------------------------------
(***************************************************************************)
(* Vault::Base64, which applications use to prepare what they hand to      *)
(* Transit, and Transit::decrypt to read what comes back.                  *)
(*                                                                         *)
(* A string is a sequence of bytes.  The loops of encode and decode work   *)
(* on groups of 3 bytes and 4 characters and append to the result; here    *)
(* the result is written down place by place, place k being the p-th of    *)
(* the g-th group.                                                         *)
(***************************************************************************)
EXTENDS Integers, Sequences

CONSTANTS
  Letters,      \* the bytes isalnum accepts in the locale of the process
  IntMax,       \* INT_MAX of the build
  Overflown(_)  \* what decode makes of a text whose length overflows its int

Byte == 0..255

Sextet == 0..63

ASCIILetters == (48..57) \cup (65..90) \cup (97..122)

\* Locales differ on the bytes above 127 only.
ASSUME LettersAssumption ==
  Letters \subseteq Byte /\ Letters \cap (0..127) = ASCIILetters

ASSUME IntMaxAssumption == IntMax \in Nat

\* The values of an unsigned int, from 0 up; int goes half as far.
UnsignedSpan == 2 * IntMax + 2

Pad == 61

is_base64_Alnum(c) == c \in Letters

is_base64(c) == c \in Letters \/ c = 43 \/ c = 47

\* A to Z, a to z, 0 to 9, plus and slash.
base64_chars ==
  [s \in Sextet |-> IF s < 26 THEN 65 + s
                    ELSE IF s < 52 THEN 71 + s
                    ELSE IF s < 62 THEN s - 4
                    ELSE IF s = 62 THEN 43 ELSE 47]

\* npos, which find returns for a byte that is not there, becomes 255 in an
\* unsigned char.
find(c) ==
  IF \E s \in Sextet : base64_chars[s] = c
  THEN CHOOSE s \in Sextet : base64_chars[s] = c
  ELSE 255

\* char_array_4, p-th place, from the three bytes a, b, c.
Quad_Misshifted(p, a, b, c) ==
  CASE p = 1 -> a \div 4
    [] p = 2 -> (a % 4) * 16 + b \div 16
    [] p = 3 -> (b % 16) * 4 + (c \div 64) * 4
    [] p = 4 -> c % 64

Quad(p, a, b, c) ==
  CASE p = 1 -> a \div 4
    [] p = 2 -> (a % 4) * 16 + b \div 16
    [] p = 3 -> (b % 16) * 4 + c \div 64
    [] p = 4 -> c % 64

\* char_array_3, p-th place, from four values: an unsigned char each.
Triple(p, a, b, c, d) ==
  CASE p = 1 -> (a * 4 + (b % 64) \div 16) % 256
    [] p = 2 -> ((b % 16) * 16 + (c % 64) \div 4) % 256
    [] p = 3 -> ((c % 4) * 64 + d) % 256

\* encode looks a missing byte up as '\0' and pads the group.
ByteAt(value, i) == IF i \in 1..Len(value) THEN value[i] ELSE 0

encode_bytes(value) ==
  LET n == Len(value)
  IN  [k \in 1 .. 4 * ((n + 2) \div 3) |->
        LET g == (k - 1) \div 4
            p == ((k - 1) % 4) + 1
        IN  IF p > n - 3 * g + 1 THEN Pad
            ELSE base64_chars[Quad(p, ByteAt(value, 3 * g + 1),
                                      ByteAt(value, 3 * g + 2),
                                      ByteAt(value, 3 * g + 3))]]

\* The length is passed on as an unsigned int.
encode(value) == encode_bytes(SubSeq(value, 1, Len(value) % UnsignedSpan))

\* How many characters decode reads before its loop ends, if it goes by the text.
Read(text) ==
  CHOOSE n \in 0..Len(text) :
    /\ \A i \in 1..n : text[i] # Pad /\ is_base64(text[i])
    /\ n < Len(text) => text[n + 1] = Pad \/ ~is_base64(text[n + 1])

\* Places of char_array_4 that the tail leaves unread hold 0, which is not in
\* the alphabet either.
ValueAt(text, i) == IF i <= Read(text) THEN find(text[i]) ELSE find(0)

\* A group cut short after i characters yields i - 1 bytes.
Decoded_Whole(n) == 3 * ((n + 3) \div 4)

Decoded(n) == 3 * (n \div 4) + (IF n % 4 = 0 THEN 0 ELSE (n % 4) - 1)

decode_groups(text) ==
  [k \in 1..Decoded(Read(text)) |->
    LET g == (k - 1) \div 3
        p == ((k - 1) % 3) + 1
    IN  Triple(p, ValueAt(text, 4 * g + 1), ValueAt(text, 4 * g + 2),
                  ValueAt(text, 4 * g + 3), ValueAt(text, 4 * g + 4))]

\* The size as an int.
in_len(text) ==
  LET n == Len(text) % UnsignedSpan
  IN  IF n <= IntMax THEN n ELSE n - UnsignedSpan

\* Counting down, the loop takes that many characters at most; counting down from
\* below 0 it never gets to 0 and goes on until a character stops it, at the
\* latest the '\0' behind the text...
Seen(text) == IF in_len(text) >= 0 THEN SubSeq(text, 1, in_len(text)) ELSE text

\* ...unless the count gets below the least int before.
Overflows(text) == in_len(text) < 0 /\ Read(text) > IntMax + in_len(text)

decode(text) ==
  IF Overflows(text) THEN Overflown(text) ELSE decode_groups(Seen(text))

-----------------------------------------------------------------------------
(* The reference: a byte string and its text hold the same bits.           *)

Power == <<1, 2, 4, 8, 16, 32, 64, 128>>

\* Bit j of a string of words of w bits, the first bit being bit 0; 0 beyond it.
Bit(words, w, j) ==
  IF j \div w < Len(words)
  THEN (words[j \div w + 1] \div Power[w - (j % w)]) % 2
  ELSE 0

\* The i-th word of w bits in a string of words of v bits.
Word(words, v, w, i) ==
  LET b(j) == IF j < w THEN Bit(words, v, (i - 1) * w + j) * Power[w - j] ELSE 0
  IN  b(0) + b(1) + b(2) + b(3) + b(4) + b(5) + b(6) + b(7)

Regrouped(words, v, w, n) == [i \in 1..n |-> Word(words, v, w, i)]

RoundedUp(n, d) == (n + d - 1) \div d

\* RFC 4648: the sextets of the value, padded to a multiple of four characters.
Encoding(value) ==
  LET n == RoundedUp(8 * Len(value), 6)
      sextets == Regrouped(value, 8, 6, n)
  IN  [k \in 1 .. 4 * RoundedUp(n, 4) |->
        IF k <= n THEN base64_chars[sextets[k]] ELSE Pad]

Alphabet == {base64_chars[s] : s \in Sextet}

\* How many characters come before the first one that is no sextet.
Prefix(text) ==
  CHOOSE n \in 0..Len(text) :
    /\ \A i \in 1..n : text[i] \in Alphabet
    /\ n < Len(text) => text[n + 1] \notin Alphabet

\* The whole bytes in these characters.
Decoding(text) ==
  LET n == Prefix(text)
      sextets == [i \in 1..n |-> CHOOSE s \in Sextet : base64_chars[s] = text[i]]
  IN  Regrouped(sextets, 6, 8, (6 * n) \div 8)

\* What the encoding of something is like: padded to whole groups, and with no
\* bit of its last sextet left over.
Canonical(text) ==
  LET n == Prefix(text)
      last == CHOOSE s \in Sextet : base64_chars[s] = text[n]
  IN  /\ Len(text) % 4 = 0
      /\ \A i \in n + 1 .. Len(text) : text[i] = Pad
      /\ \/ n = Len(text)
         \/ n = Len(text) - 1 /\ last % 4 = 0
         \/ n = Len(text) - 2 /\ last % 16 = 0
=============================================================================
