------------------------------ MODULE Playbook ------------------------------
(***************************************************************************)
(* The playbook (scripts/playbook/playbook.py): a configuration chooses a  *)
(* payload generator; until it is done, a range of the memory is filled,   *)
(* the payload is executed, a range is tested and the errors are decoded   *)
(* and handed to the generator.  HalfDouble has the first of the three     *)
(* generators; HammerTolerancePayloadGenerator and RowListPayloadGenerator *)
(* (over either row generator) are here.                                   *)
(*                                                                         *)
(* The memory is the set of its words (of the width of the DMA) that do    *)
(* not hold the pattern, each with the <<beat, dq>> bits in which it       *)
(* differs.  Before the first fill no word holds the pattern.              *)
(***************************************************************************)
EXTENDS HalfDouble, DramAddress, FiniteSets, Functions, Bags

CONSTANTS
  Configs,       \* configurations, as records
  Flips(_)       \* the sets of bits an attack may flip in a word

\* What the example configurations observe: a tolerance test has rows for all
\* its aggressors ("If we want 32 victims, we need 36 aggressors"), tests each
\* victim once, and the dummies of its baselines are behind these rows.
ASSUME ConfigsAssumption ==
  \A c \in Configs :
    /\ c.payload_generator \in {"HammerTolerance", "HalfDouble", "RowList"}
    /\ c.fill_local \in BOOLEAN
    /\ c.payload_generator = "HammerTolerance" =>
         /\ c.distance \in Nat /\ c.iters_per_row \in Nat \ {0} /\ c.max_iteration \in Nat
         /\ c.nr_rows \in Nat /\ c.nr_rows > 2 * c.distance
         /\ c.max_iteration <= (c.nr_rows - 2 * c.distance) * c.iters_per_row
         /\ c.baseline \in BOOLEAN
         /\ c.baseline => c.first_dummy_row \in Nat /\ c.first_dummy_row >= c.nr_rows

VARIABLES
  config, pc,
  flipped,       \* word -> the bits that differ from the pattern
  errors,        \* what hw_memtest has returned, the same way
  fresh,         \* words that the last payload has changed (history)
  tolerance,     \* the state of HammerTolerancePayloadGenerator
  log            \* hammers and flips of the attacks of a tolerance test (history)

playbookVars == <<config, pc, flipped, errors, fresh, tolerance, log>>
allVars == <<vars, playbookVars>>

Is(name) == config.payload_generator = name
IsTolerance == Is("HammerTolerance")

\* The loop returns in its first iteration: only the first key is validated,
\* and no key at all is as good as an invalid one.
validate_keys(keys) == keys # << >> /\ Head(keys) = "valid"

-----------------------------------------------------------------------------
\* HammerTolerancePayloadGenerator

\* mutant: the remainder leaves a row less at the end
get_row_for_iter_Short(row_idx) ==
  ((tolerance.iteration \div config.iters_per_row) + row_idx) % (config.nr_rows - row_idx - 1)

\* The logical row row_idx rows after the first aggressor of this iteration
get_row_for_iter(row_idx) ==
  ((tolerance.iteration \div config.iters_per_row) + row_idx) % (config.nr_rows - row_idx)

ToleranceRows ==
  LET first == IF tolerance.run_baseline THEN config.first_dummy_row
               ELSE get_row_for_iter(0)
  IN  {logical_to_physical(first), logical_to_physical(first + 2 * config.distance)}

ToleranceVictim == logical_to_physical(get_row_for_iter(config.distance))

Step == tolerance.iteration % config.iters_per_row

ToleranceReads == config.initial_read_count + config.read_count_step * Step

\* A key of the tables
StepLabel == (Step + 1) * config.read_count_step

\* The bag of the values of f
CountBy(f) == [v \in {f[x] : x \in DOMAIN f} |-> Cardinality({x \in DOMAIN f : f[x] = v})]

FlipsOf(bits, beat) == {b \in bits : b[1] = beat}

\* The flips on the data lines of a chip (extract_bits, or a slice of a beat)
ChipFlips(bits, chip) ==
  LET dq_bits == config.dq \div config.nr_chips
  IN  {b \in bits : b[2] \in chip * dq_bits .. (chip + 1) * dq_bits - 1}

\* The four histograms and the bits of a step after one more error.  Every
\* chip of a beat with a flip counts as a chip with an error.
gather_full_stats(tables, step, bits) ==
  LET Chips == 0 .. config.nr_chips - 1
      Beats == {b[1] : b \in bits}
      BeatChips == {x \in Beats \X Chips : ChipFlips(FlipsOf(bits, x[1]), x[2]) # {}}
  IN  [tables EXCEPT
        !.beat_errors = @ (+) CountBy([b \in Beats |->
            <<step, Cardinality(FlipsOf(bits, b))>>]),
        !.chip_errors_per_beat = @ (+) CountBy([x \in BeatChips |->
            <<step, x[2], Cardinality(ChipFlips(FlipsOf(bits, x[1]), x[2]))>>]),
        !.chips_with_errors_per_beat = @ (+) CountBy([b \in Beats |->
            <<step, config.nr_chips>>]),
        !.chip_errors_per_read = @ (+) CountBy(
            [c \in {c \in Chips : ChipFlips(bits, c) # {}} |->
               <<step, c, Cardinality(ChipFlips(bits, c))>>]),
        !.bit_errors[step] = @ + Cardinality(bits)]

\* What process_errors does before it looks at the errors
ToleranceTurn(t) ==
  [t EXCEPT !.iteration = IF t.run_baseline THEN @ ELSE @ + 1,
            !.baseline_flips = IF t.run_baseline THEN 0 ELSE @,
            !.run_baseline = IF config.baseline THEN ~@ ELSE @]

\* The counts after an attack with these errors in the victim
CountErrors(t, step, found) ==
  LET total == FoldSet(LAMBDA w, n : n + Cardinality(found[w]), 0, DOMAIN found)
      bits  == IF total > t.baseline_flips THEN total - t.baseline_flips ELSE 0
      turned == ToleranceTurn(t)
      stats == FoldSet(LAMBDA w, s : gather_full_stats(s, step, found[w]),
                       t.tables, DOMAIN found)
  IN  IF DOMAIN found = {} THEN turned
      ELSE IF ~config.baseline
      THEN [turned EXCEPT !.tables = [stats EXCEPT !.row_errors[step] = @ + 1]]
      ELSE IF t.run_baseline
      THEN [turned EXCEPT !.baseline_flips = @ + total]
      ELSE [turned EXCEPT !.tables.bit_errors[step] = @ + bits,
                          !.tables.row_errors[step] = IF bits > 0 THEN @ + 1 ELSE @]

-----------------------------------------------------------------------------
\* Rows and ranges

\* Rows that EvenRowGenerator hammers
EvenRows ==
  {logical_to_physical((iteration + 2 * i) % config.max_row) : i \in 0 .. config.nr_rows - 1}

Hammers ==
  CASE IsTolerance        -> ToleranceRows
    [] Is("HalfDouble")   -> Hammered
    [] Is("RowList")      -> IF config.row_generator = "EvenRow" THEN EvenRows ELSE Hammered

MemoryWords == 2^(rowbits + bankbits) * BurstsPerRow
AllMemory == 0 .. MemoryWords - 1

\* mutant: the last row is not in the range
get_range_from_rows_Short(rows) ==
  (EncodeBus(0, Min(rows), 0) - base) \div PortBytes ..
  ((EncodeBus(0, Max(rows), 0) - base) \div PortBytes) - 1

\* The words from the first of these rows to the last, in all banks; behind
\* the last row of the memory is its end.
get_range_from_rows(rows) ==
  LET end == IF Max(rows) + 1 < 2^rowbits THEN EncodeBus(0, Max(rows) + 1, 0)
             ELSE base + MemoryWords * PortBytes
  IN  (EncodeBus(0, Min(rows), 0) - base) \div PortBytes ..
      ((end - base) \div PortBytes) - 1

\* The rows of the memory range of RowGenerator, and of EvenRowGenerator
GeneratorRange ==
  IF config.row_generator = "EvenRow"
  THEN get_range_from_rows({logical_to_physical(row) : row \in 0 .. config.max_row - 1})
  ELSE AllMemory

\* mutant: of the rows of a tolerance test only the first aggressor is filled
get_memset_range_Aggressor ==
  IF config.fill_local /\ IsTolerance
  THEN get_range_from_rows({logical_to_physical(get_row_for_iter(0))})
  ELSE AllMemory

get_memset_range ==
  CASE ~config.fill_local -> AllMemory
    [] config.fill_local /\ IsTolerance ->
         get_range_from_rows({logical_to_physical(get_row_for_iter(i)) :
                                i \in 0 .. 2 * config.distance})
    [] config.fill_local /\ Is("HalfDouble") -> get_range_from_rows(Hammered \cup {TestedRow})
    [] config.fill_local /\ Is("RowList") -> GeneratorRange

get_memtest_range ==
  CASE IsTolerance      -> get_range_from_rows({ToleranceVictim})
    [] Is("HalfDouble") -> get_range_from_rows({TestedRow})
    [] Is("RowList")    -> IF config.fill_local THEN GeneratorRange ELSE AllMemory

\* The row of an error, from the offset of its word
DecodedRow(word) == DecodeBus(base + word * PortBytes).row

\* The errors of each row with errors
decode_errors == {DecodedRow(word) : word \in DOMAIN errors}

ErrorsOfRow(row) == Restrict(errors, {w \in DOMAIN errors : DecodedRow(w) = row})

-----------------------------------------------------------------------------
\* The loop of main

pg_done ==
  CASE Is("HalfDouble") -> done
    [] Is("RowList")    -> iteration >= config.max_iteration
    [] IsTolerance      -> tolerance.iteration >= config.max_iteration

NoCounts(steps) ==
  [iteration |-> 0, run_baseline |-> FALSE, baseline_flips |-> 0,
   tables |-> [row_errors |-> [s \in steps |-> 0], bit_errors |-> [s \in steps |-> 0],
               beat_errors |-> EmptyBag, chip_errors_per_read |-> EmptyBag,
               chip_errors_per_beat |-> EmptyBag, chips_with_errors_per_beat |-> EmptyBag]]

PlaybookInit ==
  /\ Init
  /\ config \in Configs
  /\ pc = "initialize"
  /\ flipped = [w \in AllMemory |-> UNION Flips(config)]
  /\ errors = << >> /\ fresh = {} /\ log = << >>
  /\ tolerance = NoCounts({})

\* main validates its keys, initialize those of the generator.
Initialize ==
  /\ pc = "initialize"
  /\ pc' = IF validate_keys(config.keys) /\ validate_keys(config.module_keys)
           THEN "loop" ELSE "failed"
  /\ tolerance' =
       IF IsTolerance
       THEN [NoCounts({(s + 1) * config.read_count_step : s \in 0 .. config.iters_per_row - 1})
               EXCEPT !.run_baseline = config.baseline]
       ELSE tolerance
  /\ UNCHANGED <<vars, config, flipped, errors, fresh, log>>

Memset ==
  /\ pc = "loop" /\ ~pg_done
  /\ pc' = "execute"
  /\ flipped' = Restrict(flipped, DOMAIN flipped \ get_memset_range)
  /\ UNCHANGED <<vars, config, errors, fresh, tolerance, log>>

\* The last word of a row in the attacked bank
LastWord(row) == (EncodeBus(0, row, 2^colbits - 1) - base) \div PortBytes

\* Rows that an attack may change: the neighbours of what it hammers, and by
\* loss of charge the rows that are tested
Susceptible ==
  ({logical_to_physical(physical_to_logical(row) + d) : row \in Hammers, d \in {-1, 1}}
    \cap (RowNumbers \ Hammers))
  \cup {DecodedRow(word) : word \in get_memtest_range}

ExecutePayload ==
  /\ pc = "execute"
  /\ pc' = "memtest"
  /\ \/ fresh' = {} /\ UNCHANGED flipped
     \/ \E row \in Susceptible, bits \in Flips(config) :
          /\ fresh' = {LastWord(row)}
          /\ flipped' = [w \in DOMAIN flipped \cup fresh' |->
                           (IF w \in fresh' THEN bits ELSE {}) \cup
                           (IF w \in DOMAIN flipped THEN flipped[w] ELSE {})]
  /\ UNCHANGED <<vars, config, errors, tolerance, log>>

Memtest ==
  /\ pc = "memtest"
  /\ pc' = "process"
  /\ errors' = Restrict(flipped, DOMAIN flipped \cap get_memtest_range)
  /\ UNCHANGED <<vars, config, flipped, fresh, tolerance, log>>

\* process_errors of HammerTolerancePayloadGenerator
ProcessTolerance ==
  LET found == ErrorsOfRow(ToleranceVictim)
  IN  /\ tolerance' = CountErrors(tolerance, StepLabel, found)
      /\ log' = Append(log, [baseline |-> tolerance.run_baseline, reads |-> ToleranceReads,
                             victim |-> ToleranceVictim,
                             flips |-> {Cardinality(found[w]) : w \in DOMAIN found}])
      /\ UNCHANGED vars

\* process_errors of RowListPayloadGenerator prints the flips of each logical
\* row.
ProcessRowList ==
  /\ iteration' = iteration + 1
  /\ UNCHANGED <<row_mapping, state, total_read_count, dilution, read_count,
                 row_generator, victim_list, tolerance, log>>

ProcessHalfDouble ==
  /\ process_errors(decode_errors)
  /\ UNCHANGED <<row_mapping, tolerance, log>>

ProcessErrors ==
  /\ pc = "process"
  /\ pc' = "loop"
  /\ \/ IsTolerance /\ ProcessTolerance
     \/ Is("RowList") /\ ProcessRowList
     \/ Is("HalfDouble") /\ ProcessHalfDouble
  /\ fresh' = {} /\ errors' = << >>
  /\ UNCHANGED <<config, flipped>>

Summarize ==
  /\ pc = "loop" /\ pg_done
  /\ pc' = "end"
  /\ UNCHANGED <<vars, config, flipped, errors, fresh, tolerance, log>>

PlaybookNext ==
  Initialize \/ Memset \/ ExecutePayload \/ Memtest \/ ProcessErrors \/ Summarize

PlaybookSpec == PlaybookInit /\ [][PlaybookNext]_allVars /\ WF_allVars(PlaybookNext)

-----------------------------------------------------------------------------
\* Properties

\* Whatever range a generator fills and whatever it tests, an error it is told
\* of is one that its own payload has made: nothing that an earlier attack or
\* the time before the playbook has left in the memory is counted.
ErrorsAreFresh == pc = "process" => DOMAIN errors \subseteq fresh

\* The half-double analysis, which sees the memory through ranges of bus
\* addresses and decoded offsets of errors, takes the steps of the analysis
\* alone, and with the right outcome: it is told that its victim has flipped
\* exactly when its own payload has flipped it.
ImplementsAnalysis ==
  [][Is("HalfDouble") =>
       IF pc = "process"
       THEN Next /\ process_errors(IF LastWord(TestedRow) \in fresh THEN {TestedRow} ELSE {})
       ELSE UNCHANGED vars]_allVars

\* The remainders that the payload, the fill and the test of a tolerance test
\* each compute their rows with agree: the tested row is the one in the middle
\* of the hammered ones, and a baseline hammers no row near it.
VictimBetweenAggressors ==
  IsTolerance /\ pc = "execute" =>
    LET victim == physical_to_logical(ToleranceVictim)
        rows   == {physical_to_logical(row) : row \in ToleranceRows}
    IN  IF tolerance.run_baseline
        THEN \A row \in rows : row > victim + config.distance
        ELSE rows = {victim - config.distance, victim + config.distance}

\* Runs of the log that belong to a step, each with the baseline before it
Excess(i) ==
  LET flips == FoldSet(+, 0, log[i].flips)
      before == IF config.baseline THEN FoldSet(+, 0, log[i - 1].flips) ELSE 0
  IN  IF flips > before THEN flips - before ELSE 0

\* The tables that a tolerance test prints are those of the log of its
\* attacks: each victim is hammered once with each number of reads, and what
\* is counted for it is what exceeds the baseline taken just before.
TablesMatchLog ==
  IsTolerance /\ pc = "end" =>
    \A s \in 0 .. config.iters_per_row - 1 :
      LET label == (s + 1) * config.read_count_step
          reads == config.initial_read_count + s * config.read_count_step
          runs  == {i \in DOMAIN log : log[i].reads = reads /\ ~log[i].baseline}
      IN  /\ tolerance.tables.bit_errors[label] = FoldSet(LAMBDA i, n : n + Excess(i), 0, runs)
          /\ tolerance.tables.row_errors[label] = Cardinality({i \in runs : Excess(i) > 0})
          /\ \A i, j \in runs : log[i].victim = log[j].victim => i = j

\* Flips that a histogram accounts for: each key ends in a number of flips.
Weight(bag, step) ==
  FoldSet(LAMBDA k, n : n + k[Len(k)] * bag[k], 0, {k \in DOMAIN bag : k[1] = step})

\* Cut by beats, by chips of a beat or by chips of a read, the flips of a step
\* are the same flips: no bit is lost between the slices or counted in two.
HistogramsAgree ==
  IsTolerance /\ pc = "end" /\ ~config.baseline =>
    LET tables == tolerance.tables
    IN  \A step \in DOMAIN tables.bit_errors :
          /\ Weight(tables.beat_errors, step) = tables.bit_errors[step]
          /\ Weight(tables.chip_errors_per_beat, step) = tables.bit_errors[step]
          /\ Weight(tables.chip_errors_per_read, step) = tables.bit_errors[step]

\* What the playbook reports is what its own attacks have done: the errors it
\* is told of, the cells of the half-double table, and the tables and
\* histograms of a tolerance test.
ResultsExact == ErrorsAreFresh /\ RecordedOnce /\ TablesMatchLog /\ HistogramsAgree

\* The playbook ends, with every generator.
PlaybookEnds == <>(pc \in {"end", "failed"})

=============================================================================
