---------------------------- MODULE BistPattern ----------------------------
(***************************************************************************)
(* What Writer and Reader of gateware/bist.py share: the pattern memory    *)
(* and the inversion of the pattern in selected rows.                      *)
(*                                                                         *)
(* DRAM is addressed in DMA words.  A word of the pattern is one bit: the  *)
(* BIST compares words and inverts whole words, so two values that are     *)
(* each other's complement tell apart all that it does with data.          *)
(***************************************************************************)
EXTENDS Naturals, Sequences

CONSTANTS
  PatternDepth,   \* words of the pattern memory
  RowSize,        \* DMA words of a row: 2^row_shift
  RowDivisor,     \* divisor_mask + 1 of the inverter
  Selection       \* rows, modulo the divisor, that selection_mask selects

ASSUME PatternAssumption ==
  /\ PatternDepth \in Nat \ {0}
  /\ RowSize \in Nat \ {0}
  /\ RowDivisor \in Nat \ {0}
  /\ Selection \subseteq 0 .. RowDivisor - 1

Data == {0, 1}

\* ~data
Inverse(d) == 1 - d

\* x & mask, for the masks the scripts use: 0 and all ones (2^k - 1).
Masked(x, mask) == x % (mask + 1)

\* Rows that share the result of the division: decoder.i of AddressSelector.
RowIndex(address) == (address \div RowSize) % RowDivisor

RowIndices == 0 .. RowDivisor - 1

\* The word of the pattern that belongs at an address, given the word of the
\* pattern memory.
Expected(address, word) ==
  IF RowIndex(address) \in Selection THEN Inverse(word) ELSE word

PatternIndices == 0 .. PatternDepth - 1

=============================================================================
