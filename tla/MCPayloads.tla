----------------------------- MODULE MCPayloads -----------------------------
(* Small instances of Payloads for TLC. *)
EXTENDS Payloads

\* A process in a Latin-1 locale, where e with an acute accent is a letter.
MCLetters == ASCIILetters \cup {233}

\* Of the outcomes of an overflow: the loop is left at once.
MCOverflown(t) == << >>
=============================================================================
