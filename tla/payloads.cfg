\* Texts of up to five of seven bytes: a zero, the slash, the padding, two
\* characters that end canonical texts, a letter of Latin-1, all ones; and, with
\* ints of five bits, runs that end around the limits of an int (15), of an
\* unsigned int (31) and of an encoding that fits an int (9 bytes).
\* Up to three parameters, two of them with names that bodies give a meaning.
SPECIFICATION Spec
CONSTANTS
  Letters <- MCLetters
  IntMax = 15
  Overflown <- MCOverflown
  Bytes = {0, 47, 61, 81, 103, 233, 255}
  MaxLength = 5
  Runs = {7, 8, 9, 10, 13, 14, 15, 16, 29, 30, 31, 32}
  Names = {"vault:dbuser", "vault:dbpass", "options", "config"}
  Words = {"postgres", "1"}
  MaxParameters = 3
INVARIANTS
  EncodesBits
  DecodesPrefix
  RoundTrip
  LossIsVisible
  BodiesTellAll
  ReadsBackItsSecret
CHECK_DEADLOCK FALSE
