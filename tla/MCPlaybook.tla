------------------------------ MODULE MCPlaybook ------------------------------
EXTENDS Playbook

Ok == <<"valid", "valid">>

Tolerance(fill, dist, base_line, rows, iters) ==
  [payload_generator |-> "HammerTolerance", keys |-> Ok, module_keys |-> Ok,
   fill_local |-> fill, nr_rows |-> rows, iters_per_row |-> 2, max_iteration |-> iters,
   read_count_step |-> 10, initial_read_count |-> IF base_line THEN 40 ELSE 10,
   distance |-> dist, baseline |-> base_line, first_dummy_row |-> rows + 2,
   nr_chips |-> 2, dq |-> 4]

RowList(fill, generator, first) ==
  [payload_generator |-> "RowList", keys |-> <<"valid", first>>, module_keys |-> <<first>>,
   fill_local |-> fill, row_generator |-> generator, nr_rows |-> 3, max_row |-> 10,
   max_iteration |-> 2]

Analysis(fill, names) ==
  [payload_generator |-> "HalfDouble", keys |-> names, module_keys |-> Ok,
   fill_local |-> fill]

MCConfigs ==
  {Tolerance(TRUE, 1, FALSE, 4, 4), Tolerance(FALSE, 1, FALSE, 4, 3),
   Tolerance(TRUE, 2, TRUE, 6, 4),
   RowList(TRUE, "EvenRow", "valid"), RowList(FALSE, "HalfDouble", "valid"),
   RowList(TRUE, "HalfDouble", "valid"), RowList(FALSE, "EvenRow", "invalid"),
   Analysis(TRUE, Ok), Analysis(FALSE, Ok), Analysis(FALSE, << >>)}

\* One bit, and for a tolerance test also bits of two chips in two beats
MCFlips(c) ==
  IF c.payload_generator = "HammerTolerance"
  THEN {{<<0, 1>>}, {<<0, 0>>, <<0, 3>>, <<1, 3>>}} ELSE {{<<0, 1>>}}
===============================================================================
