------------------------------- MODULE MCScript -------------------------------
(* Instances of RowHammerScript: command lines and weak bits. *)
EXTENDS RowHammerScript

\* rowhammer.py --row-pairs const with the defaults of the parser.
Default ==
  [hw |-> FALSE, mode |-> "const", nrows |-> 3, start |-> 0, rows |-> <<0, 2>>,
   distance |-> 2, jump |-> 1, bank |-> 0, column |-> 4, first |-> 2, stop |-> 2, step |-> 1,
   no_refresh |-> FALSE, payload |-> FALSE, pattern |-> "01_per_row", log |-> FALSE,
   exit_on_bit_flip |-> FALSE, data_inversion |-> FALSE]

MCInvocations ==
  {[Default EXCEPT !.no_refresh = TRUE, !.log = TRUE],
   [Default EXCEPT !.mode = "sequential", !.start = 1, !.nrows = 2, !.bank = 1, !.first = 1,
                   !.log = TRUE],
   [Default EXCEPT !.mode = "random", !.start = 3, !.nrows = 1, !.no_refresh = TRUE],
   [Default EXCEPT !.mode = "random", !.nrows = 0],
   [Default EXCEPT !.mode = "hammer_only", !.rows = <<1, 2, 3>>, !.nrows = 0],
   [Default EXCEPT !.mode = "hammer_only", !.nrows = 0],
   [Default EXCEPT !.payload = TRUE, !.data_inversion = TRUE],
   [Default EXCEPT !.nrows = 5],
   [Default EXCEPT !.first = 1, !.exit_on_bit_flip = TRUE, !.payload = TRUE],
   [Default EXCEPT !.hw = TRUE, !.mode = "all_rows", !.nrows = 4, !.distance = 1, !.jump = 2,
                   !.log = TRUE, !.no_refresh = TRUE, !.pattern = "rand_per_row"],
   [Default EXCEPT !.hw = TRUE, !.mode = "no_attack_time", !.pattern = "all_1"],
   [Default EXCEPT !.hw = TRUE, !.mode = "no_attack_time", !.no_refresh = TRUE, !.bank = 2],
   [Default EXCEPT !.hw = TRUE, !.rows = <<0, 4>>]}

\* Bits of a word the scripts check, of the last word of a row and of the
\* other bank.
Word(bank, row, i) == base + ((row * 2^bankbits + bank) * RowBytes) + (4 * i)
MCWeak == {<<Word(0, 1, 2), 9>>, <<Word(0, 2, 3), 4>>, <<Word(1, 1, 1), 31>>}

=============================================================================
