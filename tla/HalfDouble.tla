----------------------------- MODULE HalfDouble -----------------------------
(***************************************************************************)
(* HalfDoubleAnalysisPayloadGenerator, its HalfDoubleRowGenerator and the  *)
(* row mappings, driven by the loop of the playbook: every step is one     *)
(* attack on one victim row followed by a test of that row, whose outcome  *)
(* is the memory's.  Rows are logical (adjacent in the chip) unless they   *)
(* are said to be physical (as addressed).  double_sided is always True.   *)
(***************************************************************************)
EXTENDS Integers, Sequences

CONSTANTS
  max_total_read_count, read_count_steps,
  initial_dilution, dilution_multiplier, max_dilution,
  attack_rows_start, max_attack_row_idx, decoy_rows_start,
  Mappings                         \* the row mappings to choose from

ReadCountStep == max_total_read_count \div read_count_steps

\* What the example configuration observes: two rows on each side, decoys
\* behind the attacked rows, equal steps, and hammers enough for every row of
\* a list.
ASSUME ConfigAssumption ==
  /\ max_total_read_count \in Nat /\ read_count_steps \in Nat \ {0}
  /\ initial_dilution \in Nat /\ initial_dilution >= 4
  /\ dilution_multiplier \in Nat /\ dilution_multiplier >= 2
  /\ max_dilution \in Nat /\ max_dilution >= initial_dilution * dilution_multiplier
  /\ max_total_read_count = read_count_steps * ReadCountStep
  /\ ReadCountStep >= max_dilution
  /\ max_total_read_count >= dilution_multiplier * max_dilution
  /\ attack_rows_start \in Nat
  /\ max_attack_row_idx \in Nat /\ max_attack_row_idx > 4
  /\ decoy_rows_start \in Nat
  /\ decoy_rows_start >= attack_rows_start + max_attack_row_idx
  /\ Mappings \subseteq {"Trivial", "TypeA", "TypeB"}

VARIABLES
  row_mapping,
  state, iteration, total_read_count, dilution, read_count,
  row_generator,                   \* its updatable parameters
  victim_list                      \* cell of the table -> victims that flipped

vars == <<row_mapping, state, iteration, total_read_count, dilution, read_count,
          row_generator, victim_list>>

States == {"NOFLIP_DISTANCE_ONE", "NOFLIP_DISTANCE_TWO", "HAMMER_TOLERANCE",
           "MAX_DILUTION"}

\* math.inf, the dilution of a pure distance-two attack
Infinite == 0

-----------------------------------------------------------------------------
\* Row mappings

\* logical ^ 6 when bit 3 is set
FlipBits1And2(row) ==
  (row - (row % 8)) + 2 * (3 - ((row % 8) \div 2)) + (row % 2)

TypeA(row) == IF (row \div 8) % 2 = 1 THEN FlipBits1And2(row) ELSE row

logical_to_physical(row) ==
  CASE row_mapping = "Trivial" -> row
    [] row_mapping = "TypeA"   -> TypeA(row)
    [] row_mapping = "TypeB"   -> row * 2

physical_to_logical(row) ==
  CASE row_mapping = "Trivial" -> row
    [] row_mapping = "TypeA"   -> TypeA(row)
    [] row_mapping = "TypeB"   -> row \div 2

-----------------------------------------------------------------------------
\* Row generator

logical_victim == attack_rows_start + ((iteration + 2) % (max_attack_row_idx - 2))

\* mutant: the second row is one too near
DistanceTwoRow_Near(i) ==
  IF row_generator.distance_two
  THEN IF i % 2 # 0 THEN attack_rows_start + ((iteration + 3) % max_attack_row_idx)
                    ELSE attack_rows_start + (iteration % (max_attack_row_idx - 4))
  ELSE IF i % 2 = 0 THEN decoy_rows_start + 1 ELSE decoy_rows_start + 2

\* Row i of the nr_rows - 2 at distance two, counted from 0
DistanceTwoRow(i) ==
  IF row_generator.distance_two
  THEN IF i % 2 # 0 THEN attack_rows_start + ((iteration + 4) % max_attack_row_idx)
                    ELSE attack_rows_start + (iteration % (max_attack_row_idx - 4))
  ELSE IF i % 2 = 0 THEN decoy_rows_start + 1 ELSE decoy_rows_start + 2

DistanceOneRows ==
  IF row_generator.distance_one
  THEN <<attack_rows_start + ((iteration + 1) % (max_attack_row_idx - 3)),
         attack_rows_start + ((iteration + 3) % (max_attack_row_idx - 1))>>
  ELSE << >>

\* The logical rows of generate_rows, before they are mapped
LogicalRows ==
  [i \in 1 .. row_generator.nr_rows - 2 |-> DistanceTwoRow(i - 1)] \o DistanceOneRows

generate_rows == [i \in DOMAIN LogicalRows |-> logical_to_physical(LogicalRows[i])]

-----------------------------------------------------------------------------
\* Analysis

Init ==
  /\ row_mapping \in Mappings
  /\ state = "NOFLIP_DISTANCE_ONE"
  /\ iteration = 0
  /\ total_read_count = max_total_read_count
  /\ dilution = initial_dilution
  /\ read_count = max_total_read_count \div initial_dilution
  /\ row_generator = [nr_rows |-> initial_dilution,
                      distance_one |-> TRUE, distance_two |-> FALSE]
  /\ victim_list = << >>

done == iteration >= max_attack_row_idx - 4

\* Attacks with total hammers, spread over a list of d rows, from now on.
Spread(d, total) ==
  /\ dilution' = d
  /\ total_read_count' = total
  /\ read_count' = total \div d
  /\ row_generator' = [row_generator EXCEPT !.nr_rows = d]

\* mutant: the same victim again
next_row_Same ==
  /\ state' = "NOFLIP_DISTANCE_ONE"
  /\ dilution' = initial_dilution
  /\ total_read_count' = max_total_read_count
  /\ read_count' = max_total_read_count \div initial_dilution
  /\ row_generator' = [row_generator EXCEPT !.distance_two = FALSE,
                                            !.nr_rows = initial_dilution]
  /\ UNCHANGED iteration

next_row ==
  /\ state' = "NOFLIP_DISTANCE_ONE"
  /\ dilution' = initial_dilution
  /\ total_read_count' = max_total_read_count
  /\ read_count' = max_total_read_count \div initial_dilution
  /\ row_generator' = [row_generator EXCEPT !.distance_two = FALSE,
                                            !.nr_rows = initial_dilution]
  /\ iteration' = iteration + 1

noflip_distance_one(victim_flipped) ==
  /\ state = "NOFLIP_DISTANCE_ONE"
  /\ \/ /\ ~victim_flipped
        /\ state' = "NOFLIP_DISTANCE_TWO"
        /\ row_generator' = [row_generator EXCEPT !.distance_two = TRUE,
                                                  !.distance_one = FALSE]
        /\ UNCHANGED <<iteration, total_read_count, dilution, read_count>>
     \/ /\ victim_flipped
        /\ dilution * dilution_multiplier > max_dilution
        /\ next_row
     \/ /\ victim_flipped
        /\ dilution * dilution_multiplier <= max_dilution
        /\ Spread(dilution * dilution_multiplier, total_read_count)
        /\ UNCHANGED <<state, iteration>>

noflip_distance_two(victim_flipped) ==
  /\ state = "NOFLIP_DISTANCE_TWO"
  /\ \/ /\ ~victim_flipped
        /\ state' = "HAMMER_TOLERANCE"
        /\ row_generator' = [row_generator EXCEPT !.distance_one = TRUE]
        /\ UNCHANGED <<iteration, total_read_count, dilution, read_count>>
     \/ /\ victim_flipped
        /\ next_row

find_hammer_tolerance(victim_flipped) ==
  /\ state = "HAMMER_TOLERANCE"
  /\ \/ /\ ~victim_flipped \/ total_read_count <= ReadCountStep
        /\ next_row
     \/ /\ victim_flipped /\ total_read_count > ReadCountStep
        /\ Spread(dilution * dilution_multiplier, total_read_count)
        /\ state' = "MAX_DILUTION"
        /\ UNCHANGED iteration

\* mutant: read_count is computed before the hammers are reduced
LessHammers_Stale ==
  LET total == total_read_count - ReadCountStep
  IN  IF total > 0
      THEN /\ dilution' = initial_dilution
           /\ total_read_count' = total
           /\ read_count' = total_read_count \div initial_dilution
           /\ row_generator' = [row_generator EXCEPT !.nr_rows = initial_dilution]
           /\ state' = "HAMMER_TOLERANCE"
           /\ UNCHANGED iteration
      ELSE next_row

\* One step less of hammers, from the initial dilution on
LessHammers ==
  LET total == total_read_count - ReadCountStep
  IN  IF total > 0
      THEN /\ Spread(initial_dilution, total)
           /\ state' = "HAMMER_TOLERANCE"
           /\ UNCHANGED iteration
      ELSE next_row

find_max_dilution(victim_flipped) ==
  /\ state = "MAX_DILUTION"
  /\ \/ /\ ~victim_flipped \/ dilution * dilution_multiplier > max_dilution
        /\ LessHammers
     \/ /\ victim_flipped /\ dilution * dilution_multiplier <= max_dilution
        /\ Spread(dilution * dilution_multiplier, total_read_count)
        /\ UNCHANGED <<state, iteration>>

\* The cell of the table an attack belongs to
Cell ==
  <<IF state = "NOFLIP_DISTANCE_TWO" THEN Infinite ELSE dilution, total_read_count>>

\* The victim is entered in the cell of a defaultdict of lists.
Record ==
  victim_list' =
    [c \in DOMAIN victim_list \cup {Cell} |->
       IF c # Cell THEN victim_list[c]
       ELSE IF c \in DOMAIN victim_list THEN Append(victim_list[c], logical_victim)
       ELSE <<logical_victim>>]

\* The test covers the physical row of the victim alone.
TestedRow == logical_to_physical(logical_victim)

process_errors(row_errors) ==
  LET victim_flipped == \E row \in row_errors : physical_to_logical(row) = logical_victim
  IN  /\ IF victim_flipped /\ state # "NOFLIP_DISTANCE_ONE"
         THEN Record ELSE UNCHANGED victim_list
      /\ \/ noflip_distance_one(victim_flipped)
         \/ noflip_distance_two(victim_flipped)
         \/ find_hammer_tolerance(victim_flipped)
         \/ find_max_dilution(victim_flipped)

\* An iteration of the playbook: fill, attack, test
Attack ==
  /\ ~done
  /\ \E row_errors \in SUBSET {TestedRow} : process_errors(row_errors)
  /\ UNCHANGED row_mapping

Next == Attack

Spec == Init /\ [][Next]_vars

-----------------------------------------------------------------------------
\* Properties

\* The analysis is in a state of its machine, with positive counts.
TypeOK ==
  /\ row_mapping \in Mappings
  /\ state \in States
  /\ iteration \in 0 .. max_attack_row_idx - 4
  /\ total_read_count \in 1 .. max_total_read_count
  /\ dilution \in initial_dilution .. dilution_multiplier * max_dilution
  /\ read_count \in 1 .. max_total_read_count
  /\ row_generator \in [nr_rows : Nat, distance_one : BOOLEAN, distance_two : BOOLEAN]

\* The length of the list that the row generator builds, the reads of each of
\* its rows and the cell that a flip is entered in belong together: no path
\* through the states changes one without the others.
ParamsInSync ==
  /\ row_generator.nr_rows = dilution
  /\ read_count = total_read_count \div dilution

Hammered == {generate_rows[i] : i \in DOMAIN generate_rows}

Physical(rows) == {logical_to_physical(row) : row \in rows}

DistanceOne == {logical_victim - 1, logical_victim + 1}
DistanceTwo == {logical_victim - 2, logical_victim + 2}

\* With every row mapping, the remainders in the generator keep the rows of an
\* attack at distance one and two on both sides of the row that is tested,
\* which is not accessed itself and whose flips count as the victim's; the
\* pure attacks leave the other distance alone.
AttackGeometry ==
  ~done =>
    /\ physical_to_logical(TestedRow) = logical_victim
    /\ TestedRow \notin Hammered
    /\ state = "NOFLIP_DISTANCE_ONE" => Hammered \cap Physical(DistanceTwo) = {}
    /\ state = "NOFLIP_DISTANCE_TWO" => Hammered = Physical(DistanceTwo)
    /\ state \in {"HAMMER_TOLERANCE", "MAX_DILUTION"} =>
         Hammered = Physical(DistanceOne \cup DistanceTwo)

\* A victim counts once at most in each cell of the table, so that a cell is a
\* number of rows.
RecordedOnce ==
  \A c \in DOMAIN victim_list :
    \A i, j \in DOMAIN victim_list[c] :
      victim_list[c][i] = victim_list[c][j] => i = j

=============================================================================
