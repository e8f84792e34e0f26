---------------------------- MODULE PlaybookProof ----------------------------
(***************************************************************************)
(* The playbook attacks around the row it tests and is told only of what   *)
(* its own payloads have done, for every geometry of the memory and every  *)
(* configuration.  The half-double analysis comes first: its parameters    *)
(* stay consistent and its attacks around the tested row.                  *)
(***************************************************************************)
EXTENDS Playbook, SequenceTheorems, WellFoundedInduction, TLAPS

-----------------------------------------------------------------------------
\* The half-double analysis

\* The hammers of an attack are a number of steps.
Steps(total) == \E k \in 1 .. read_count_steps : total = k * ReadCountStep

\* Why a dilution is never larger than the hammers it spreads: the check
\* against max_dilution is missing where HAMMER_TOLERANCE is left, but there
\* either all hammers or the initial dilution are used.
Bounded ==
  /\ Steps(total_read_count)
  /\ state # "MAX_DILUTION" => dilution <= max_dilution
  /\ state \in {"NOFLIP_DISTANCE_ONE", "NOFLIP_DISTANCE_TWO"} =>
       total_read_count = max_total_read_count
  /\ state = "HAMMER_TOLERANCE" =>
       dilution = initial_dilution \/ total_read_count = max_total_read_count
  /\ state = "MAX_DILUTION" =>
       /\ total_read_count > ReadCountStep
       /\ dilution <= max_dilution \/ total_read_count = max_total_read_count

\* Which rows the generator takes in every state, but for distance_one in the
\* first one, which next_row does not reset.
Distances ==
  /\ row_generator.distance_two = (state # "NOFLIP_DISTANCE_ONE")
  /\ state = "NOFLIP_DISTANCE_TWO" => ~row_generator.distance_one
  /\ state \in {"HAMMER_TOLERANCE", "MAX_DILUTION"} => row_generator.distance_one

IndInv == TypeOK /\ ParamsInSync /\ Bounded /\ Distances

-----------------------------------------------------------------------------
\* Arithmetic

\* A quotient by a smaller number is positive and no larger than the dividend.
LEMMA Quotient ==
  ASSUME NEW a \in Nat, NEW d \in Nat \ {0}, d <= a
  PROVE  a \div d \in 1 .. a
<1> DEFINE q == a \div d
<1>1. q \in Int /\ d * q <= a /\ a < d * q + d
  BY Z3
<1>2. q >= 1
  <2> SUFFICES ASSUME q <= 0 PROVE FALSE
    BY <1>1
  <2>1. d * q <= 0
    BY <1>1
  <2> QED
    BY <1>1, <2>1
<1>3. q <= a
  <2>1. d * q >= q
    BY <1>1, <1>2
  <2> QED
    BY <1>1, <2>1
<1> QED
  BY <1>1, <1>2, <1>3

\* A multiplication by dilution_multiplier stays above the initial dilution
\* and below its bound.
LEMMA Product ==
  ASSUME NEW d \in Nat, d >= initial_dilution, d <= max_dilution
  PROVE  /\ d * dilution_multiplier \in initial_dilution .. dilution_multiplier * max_dilution
         /\ d * dilution_multiplier <= max_total_read_count
<1> USE ConfigAssumption
<1>1. d * dilution_multiplier >= d
  OBVIOUS
<1>2. d * dilution_multiplier <= dilution_multiplier * max_dilution
  OBVIOUS
<1> QED
  BY <1>1, <1>2

\* One step less of more than one step is at least one step.
LEMMA OneStepLess ==
  ASSUME NEW total \in Nat, Steps(total), total > ReadCountStep
  PROVE  Steps(total - ReadCountStep) /\ total - ReadCountStep >= ReadCountStep
<1> USE ConfigAssumption
<1> DEFINE step == ReadCountStep
<1>1. step \in Nat \ {0}
  BY DEF ReadCountStep
<1>2. PICK k \in 1 .. read_count_steps : total = k * step
  BY DEF Steps
<1> HIDE DEF step
<1>3. k # 1
  BY <1>1, <1>2 DEF step
<1>4. k - 1 \in 1 .. read_count_steps /\ total - step = (k - 1) * step
  BY <1>1, <1>2, <1>3
<1>5. (k - 1) * step >= step
  BY <1>1, <1>4
<1> QED
  BY <1>4, <1>5 DEF Steps, step

\* All hammers are a number of steps, and the configured dilutions fit them.
LEMMA Configured ==
  /\ Steps(max_total_read_count)
  /\ ReadCountStep \in Nat \ {0} /\ ReadCountStep <= max_total_read_count
  /\ max_dilution <= max_total_read_count
  /\ initial_dilution <= max_dilution /\ max_dilution <= dilution_multiplier * max_dilution
<1> USE ConfigAssumption
<1>1. ReadCountStep \in Nat \ {0}
  BY DEF ReadCountStep
<1>2. max_total_read_count = read_count_steps * ReadCountStep
  OBVIOUS
<1>3. ReadCountStep <= max_total_read_count
  BY <1>1, <1>2
<1>4. Steps(max_total_read_count)
  BY <1>2 DEF Steps
<1>5. max_dilution <= dilution_multiplier * max_dilution
  OBVIOUS
<1>6. initial_dilution <= initial_dilution * dilution_multiplier
  OBVIOUS
<1> QED
  BY <1>1, <1>3, <1>4, <1>5, <1>6

-----------------------------------------------------------------------------
\* Invariance

\* A list of d rows for a number of hammers that is at least d.
LEMMA SpreadIsTyped ==
  ASSUME TypeOK, NEW d, NEW total \in 1 .. max_total_read_count, Spread(d, total),
         d \in initial_dilution .. dilution_multiplier * max_dilution, d <= total
  PROVE  /\ total_read_count' \in 1 .. max_total_read_count
         /\ dilution' \in initial_dilution .. dilution_multiplier * max_dilution
         /\ read_count' \in 1 .. max_total_read_count
         /\ row_generator' \in [nr_rows : Nat, distance_one : BOOLEAN, distance_two : BOOLEAN]
         /\ row_generator'.distance_one = row_generator.distance_one
         /\ row_generator'.distance_two = row_generator.distance_two
         /\ ParamsInSync'
<1> USE ConfigAssumption
<1>1. d \in Nat \ {0} /\ total \in Nat
  OBVIOUS
<1>2. total \div d \in 1 .. total
  BY <1>1, Quotient
<1>3. read_count' = total \div d /\ dilution' = d /\ total_read_count' = total
  BY DEF Spread
<1>4. read_count' \in 1 .. max_total_read_count
  BY <1>2, <1>3
<1>5. /\ row_generator' \in [nr_rows : Nat, distance_one : BOOLEAN, distance_two : BOOLEAN]
      /\ row_generator'.distance_one = row_generator.distance_one
      /\ row_generator'.distance_two = row_generator.distance_two
      /\ row_generator'.nr_rows = d
  BY <1>1 DEF Spread, TypeOK
<1> QED
  BY <1>3, <1>4, <1>5 DEF ParamsInSync

\* The next victim starts as the first one, but for distance_one.
LEMMA NextRow ==
  ASSUME IndInv, ~done, next_row, row_mapping' = row_mapping
  PROVE  IndInv'
<1> USE ConfigAssumption
<1>1. initial_dilution \in Nat \ {0} /\ initial_dilution <= max_total_read_count
  BY Configured
<1>2. max_total_read_count \div initial_dilution \in 1 .. max_total_read_count
  BY <1>1, Quotient
<1>3. /\ row_generator' \in [nr_rows : Nat, distance_one : BOOLEAN, distance_two : BOOLEAN]
      /\ row_generator'.distance_two = FALSE
      /\ row_generator'.nr_rows = initial_dilution
  BY DEF next_row, IndInv, TypeOK
<1>4. iteration' \in 0 .. max_attack_row_idx - 4
  BY DEF next_row, done, IndInv, TypeOK
<1>5. /\ state' = "NOFLIP_DISTANCE_ONE" /\ dilution' = initial_dilution
      /\ total_read_count' = max_total_read_count
      /\ read_count' = max_total_read_count \div initial_dilution
  BY DEF next_row
<1>6. TypeOK'
  <2>1. dilution' \in initial_dilution .. dilution_multiplier * max_dilution
    BY <1>5, Configured
  <2>2. total_read_count' \in 1 .. max_total_read_count
    BY <1>1, <1>5
  <2> QED
    BY <1>2, <1>3, <1>4, <1>5, <2>1, <2>2 DEF TypeOK, IndInv, States
<1>7. ParamsInSync'
  BY <1>3, <1>5 DEF ParamsInSync
<1>8. Bounded'
  BY <1>5, Configured DEF Bounded, Steps
<1>9. Distances'
  BY <1>3, <1>5 DEF Distances
<1> QED
  BY <1>6, <1>7, <1>8, <1>9 DEF IndInv

\* The multiplied dilution is the next one, with the same hammers.
LEMMA Multiplied ==
  ASSUME IndInv, dilution <= max_dilution,
         Spread(dilution * dilution_multiplier, total_read_count),
         dilution * dilution_multiplier <= total_read_count,
         row_mapping' = row_mapping, iteration' = iteration, state' \in States
  PROVE  /\ TypeOK' /\ ParamsInSync'
         /\ dilution' = dilution * dilution_multiplier
         /\ total_read_count' = total_read_count
         /\ row_generator'.distance_one = row_generator.distance_one
         /\ row_generator'.distance_two = row_generator.distance_two
<1> USE ConfigAssumption
<1>1. dilution \in Nat /\ dilution >= initial_dilution
      /\ total_read_count \in 1 .. max_total_read_count
  BY DEF IndInv, TypeOK
<1>2. dilution * dilution_multiplier \in initial_dilution .. dilution_multiplier * max_dilution
  BY <1>1, Product
<1>3. /\ dilution' = dilution * dilution_multiplier
      /\ total_read_count' = total_read_count
  BY DEF Spread
<1>4. TypeOK
  BY DEF IndInv
<1>5. /\ total_read_count' \in 1 .. max_total_read_count
      /\ dilution' \in initial_dilution .. dilution_multiplier * max_dilution
      /\ read_count' \in 1 .. max_total_read_count
      /\ row_generator' \in [nr_rows : Nat, distance_one : BOOLEAN, distance_two : BOOLEAN]
      /\ row_generator'.distance_one = row_generator.distance_one
      /\ row_generator'.distance_two = row_generator.distance_two
      /\ ParamsInSync'
  BY <1>1, <1>2, <1>4, SpreadIsTyped
<1>6. TypeOK'
  BY <1>4, <1>5 DEF TypeOK
<1> QED
  BY <1>3, <1>5, <1>6

LEMMA DistanceOneStep ==
  ASSUME IndInv, ~done, NEW flip \in BOOLEAN, noflip_distance_one(flip),
         row_mapping' = row_mapping
  PROVE  IndInv'
<1> USE ConfigAssumption
<1>1. CASE ~flip
  <2>1. /\ state = "NOFLIP_DISTANCE_ONE" /\ state' = "NOFLIP_DISTANCE_TWO"
        /\ row_generator' \in [nr_rows : Nat, distance_one : BOOLEAN, distance_two : BOOLEAN]
        /\ row_generator'.nr_rows = row_generator.nr_rows
        /\ row_generator'.distance_two = TRUE /\ row_generator'.distance_one = FALSE
        /\ UNCHANGED <<iteration, total_read_count, dilution, read_count>>
    BY <1>1 DEF noflip_distance_one, IndInv, TypeOK
  <2>2. TypeOK'
    BY <2>1 DEF IndInv, TypeOK, States
  <2>3. ParamsInSync'
    BY <2>1 DEF IndInv, ParamsInSync
  <2>4. Bounded'
    BY <2>1 DEF IndInv, Bounded, Steps
  <2>5. Distances'
    BY <2>1 DEF Distances
  <2> QED
    BY <2>2, <2>3, <2>4, <2>5 DEF IndInv
<1>2. CASE flip /\ dilution * dilution_multiplier > max_dilution
  <2>1. next_row
    BY <1>2 DEF noflip_distance_one, IndInv, TypeOK
  <2> QED
    BY <2>1, NextRow
<1>3. CASE flip /\ ~(dilution * dilution_multiplier > max_dilution)
  <2>1. /\ state = "NOFLIP_DISTANCE_ONE" /\ state' = state /\ iteration' = iteration
        /\ Spread(dilution * dilution_multiplier, total_read_count)
    BY <1>3 DEF noflip_distance_one
  <2>2. dilution <= max_dilution /\ total_read_count = max_total_read_count
    BY <2>1 DEF IndInv, Bounded
  <2>3. dilution \in Nat /\ dilution >= initial_dilution /\ state' \in States
    BY <2>1 DEF IndInv, TypeOK
  <2>4. dilution * dilution_multiplier <= total_read_count
    BY <2>2, <2>3, Product
  <2>5. /\ TypeOK' /\ ParamsInSync'
        /\ dilution' = dilution * dilution_multiplier
        /\ total_read_count' = total_read_count
        /\ row_generator'.distance_one = row_generator.distance_one
        /\ row_generator'.distance_two = row_generator.distance_two
    BY <2>1, <2>2, <2>3, <2>4, Multiplied
  <2>6. dilution' <= max_dilution
    BY <1>3, <2>3, <2>5
  <2>7. Bounded'
    BY <2>1, <2>5, <2>6 DEF IndInv, Bounded, Steps
  <2>8. Distances'
    BY <2>1, <2>5 DEF IndInv, Distances
  <2> QED
    BY <2>5, <2>7, <2>8 DEF IndInv
<1> QED
  BY <1>1, <1>2, <1>3

LEMMA DistanceTwoStep ==
  ASSUME IndInv, ~done, NEW flip \in BOOLEAN, noflip_distance_two(flip),
         row_mapping' = row_mapping
  PROVE  IndInv'
<1>1. CASE ~flip
  <2>1. /\ state = "NOFLIP_DISTANCE_TWO" /\ state' = "HAMMER_TOLERANCE"
        /\ row_generator' \in [nr_rows : Nat, distance_one : BOOLEAN, distance_two : BOOLEAN]
        /\ row_generator'.nr_rows = row_generator.nr_rows
        /\ row_generator'.distance_two = row_generator.distance_two
        /\ row_generator'.distance_one = TRUE
        /\ UNCHANGED <<iteration, total_read_count, dilution, read_count>>
    BY <1>1 DEF noflip_distance_two, IndInv, TypeOK
  <2>2. TypeOK'
    BY <2>1 DEF IndInv, TypeOK, States
  <2>3. ParamsInSync'
    BY <2>1 DEF IndInv, ParamsInSync
  <2>4. Bounded'
    BY <2>1 DEF IndInv, Bounded, Steps
  <2>5. Distances'
    BY <2>1 DEF IndInv, Distances
  <2> QED
    BY <2>2, <2>3, <2>4, <2>5 DEF IndInv
<1>2. CASE flip
  <2>1. next_row
    BY <1>2 DEF noflip_distance_two
  <2> QED
    BY <2>1, NextRow
<1> QED
  BY <1>1, <1>2

LEMMA HammerToleranceStep ==
  ASSUME IndInv, ~done, NEW flip \in BOOLEAN, find_hammer_tolerance(flip),
         row_mapping' = row_mapping
  PROVE  IndInv'
<1> USE ConfigAssumption
<1>0. total_read_count \in Nat /\ ReadCountStep \in Nat
  BY Configured DEF IndInv, TypeOK
<1>1. CASE ~flip \/ total_read_count <= ReadCountStep
  <2>1. next_row
    BY <1>0, <1>1 DEF find_hammer_tolerance
  <2> QED
    BY <2>1, NextRow
<1>2. CASE flip /\ total_read_count > ReadCountStep
  <2>1. /\ state = "HAMMER_TOLERANCE" /\ state' = "MAX_DILUTION" /\ iteration' = iteration
        /\ Spread(dilution * dilution_multiplier, total_read_count)
    BY <1>0, <1>2 DEF find_hammer_tolerance
  <2>2. /\ dilution <= max_dilution
        /\ dilution = initial_dilution \/ total_read_count = max_total_read_count
    BY <2>1 DEF IndInv, Bounded
  <2>3. dilution \in Nat /\ dilution >= initial_dilution /\ state' \in States
    BY <2>1 DEF IndInv, TypeOK, States
  <2>4. CASE dilution = initial_dilution
    <3>1. dilution * dilution_multiplier <= max_dilution
      BY <2>4
    <3>2. dilution * dilution_multiplier <= total_read_count
      BY <1>0, <1>2, <2>3, <3>1
    <3> QED
      BY <1>0, <1>2, <2>1, <2>2, <2>3, <3>1, <3>2, Multiplied DEF IndInv, Bounded, Distances, Steps
  <2>5. CASE total_read_count = max_total_read_count
    <3>1. dilution * dilution_multiplier <= total_read_count
      BY <2>2, <2>3, <2>5, Product
    <3>2. /\ TypeOK' /\ ParamsInSync'
          /\ total_read_count' = total_read_count
          /\ row_generator'.distance_one = row_generator.distance_one
          /\ row_generator'.distance_two = row_generator.distance_two
      BY <2>1, <2>2, <2>3, <3>1, Multiplied
    <3>3. Bounded'
      BY <1>2, <2>1, <2>5, <3>2 DEF IndInv, Bounded, Steps
    <3>4. Distances'
      BY <2>1, <3>2 DEF IndInv, Distances
    <3> QED
      BY <3>2, <3>3, <3>4 DEF IndInv
  <2> QED
    BY <2>2, <2>4, <2>5
<1> QED
  BY <1>0, <1>1, <1>2

LEMMA MaxDilutionStep ==
  ASSUME IndInv, ~done, NEW flip \in BOOLEAN, find_max_dilution(flip),
         row_mapping' = row_mapping
  PROVE  IndInv'
<1> USE ConfigAssumption
<1>0. /\ state = "MAX_DILUTION"
      /\ total_read_count \in Nat /\ ReadCountStep \in Nat \ {0}
      /\ total_read_count > ReadCountStep /\ Steps(total_read_count)
      /\ dilution \in Nat /\ dilution >= initial_dilution
      /\ dilution * dilution_multiplier \in Nat
  BY Configured DEF find_max_dilution, IndInv, TypeOK, Bounded
<1>1. CASE ~flip \/ dilution * dilution_multiplier > max_dilution
  <2> DEFINE total == total_read_count - ReadCountStep
  <2>1. Steps(total) /\ total >= ReadCountStep
    BY <1>0, OneStepLess
  <2>2. total \in 1 .. max_total_read_count /\ initial_dilution <= total
    BY <1>0, <2>1, Configured DEF IndInv, TypeOK
  <2>3. LessHammers
    BY <1>0, <1>1 DEF find_max_dilution
  <2>4. /\ Spread(initial_dilution, total)
        /\ state' = "HAMMER_TOLERANCE" /\ iteration' = iteration
    BY <2>2, <2>3 DEF LessHammers
  <2>5. initial_dilution \in initial_dilution .. dilution_multiplier * max_dilution
    BY Configured
  <2>6. total_read_count' = total /\ dilution' = initial_dilution
    BY <2>4 DEF Spread
  <2> HIDE DEF total
  <2>7. TypeOK
    BY DEF IndInv
  <2>8. /\ total_read_count' \in 1 .. max_total_read_count
        /\ dilution' \in initial_dilution .. dilution_multiplier * max_dilution
        /\ read_count' \in 1 .. max_total_read_count
        /\ row_generator' \in [nr_rows : Nat, distance_one : BOOLEAN, distance_two : BOOLEAN]
        /\ row_generator'.distance_one = row_generator.distance_one
        /\ row_generator'.distance_two = row_generator.distance_two
        /\ ParamsInSync'
    BY <2>2, <2>4, <2>5, <2>7, SpreadIsTyped
  <2>9. TypeOK'
    BY <2>4, <2>7, <2>8 DEF TypeOK, States
  <2>10. Bounded'
    BY <2>1, <2>4, <2>6, Configured DEF Bounded, Steps
  <2>11. Distances'
    BY <1>0, <2>4, <2>8 DEF IndInv, Distances
  <2> QED
    BY <2>8, <2>9, <2>10, <2>11 DEF IndInv
<1>2. CASE flip /\ ~(dilution * dilution_multiplier > max_dilution)
  <2>1. /\ state' = state /\ iteration' = iteration
        /\ Spread(dilution * dilution_multiplier, total_read_count)
    BY <1>0, <1>2 DEF find_max_dilution
  <2>2. dilution * dilution_multiplier <= max_dilution
    BY <1>0, <1>2
  <2>3. dilution * dilution_multiplier <= total_read_count
    BY <1>0, <2>2
  <2>4. dilution <= max_dilution
    <3>1. dilution <= dilution * dilution_multiplier
      BY <1>0
    <3> QED
      BY <1>0, <2>2, <3>1
  <2>5. /\ TypeOK' /\ ParamsInSync'
        /\ dilution' = dilution * dilution_multiplier
        /\ total_read_count' = total_read_count
        /\ row_generator'.distance_one = row_generator.distance_one
        /\ row_generator'.distance_two = row_generator.distance_two
    BY <1>0, <2>1, <2>3, <2>4, Multiplied DEF States
  <2>6. Bounded'
    BY <1>0, <2>1, <2>2, <2>5 DEF Bounded, Steps
  <2>7. Distances'
    BY <1>0, <2>1, <2>5 DEF IndInv, Distances
  <2> QED
    BY <2>5, <2>6, <2>7 DEF IndInv
<1> QED
  BY <1>0, <1>1, <1>2

\* The configuration the analysis starts with satisfies the invariant.
LEMMA Initially == Init => IndInv
<1> SUFFICES ASSUME Init PROVE IndInv
  OBVIOUS
<1> USE ConfigAssumption
<1>1. max_total_read_count \div initial_dilution \in 1 .. max_total_read_count
  BY Quotient, Configured
<1>2. TypeOK
  BY <1>1, Configured DEF Init, TypeOK, States
<1>3. ParamsInSync
  BY DEF Init, ParamsInSync
<1>4. Bounded
  BY Configured DEF Init, Bounded
<1>5. Distances
  BY DEF Init, Distances
<1> QED
  BY <1>2, <1>3, <1>4, <1>5 DEF IndInv

\* A turn of the analysis, whatever errors it is told of, keeps the invariant.
LEMMA Processed ==
  ASSUME IndInv, ~done, NEW row_errors, process_errors(row_errors),
         row_mapping' = row_mapping
  PROVE  IndInv'
<1> DEFINE flip == \E row \in row_errors : physical_to_logical(row) = logical_victim
<1>1. \/ noflip_distance_one(flip) \/ noflip_distance_two(flip)
      \/ find_hammer_tolerance(flip) \/ find_max_dilution(flip)
  BY DEF process_errors
<1>2. flip \in BOOLEAN
  OBVIOUS
<1> HIDE DEF flip
<1> QED
  BY <1>1, <1>2, DistanceOneStep, DistanceTwoStep, HammerToleranceStep, MaxDilutionStep

\* The analysis's parameters, its row generator's and the hammers it has left
\* agree after every outcome of every attack.
THEOREM Invariance == Spec => []IndInv
<1>1. ASSUME IndInv, [Next]_vars
      PROVE  IndInv'
  <2>1. CASE Attack
    BY <1>1, <2>1, Processed DEF Attack
  <2>2. CASE UNCHANGED vars
    BY <1>1, <2>2 DEF vars, IndInv, TypeOK, ParamsInSync, Bounded, Distances, Steps
  <2> QED
    BY <1>1, <2>1, <2>2 DEF Next
<1> QED
  BY <1>1, Initially, PTL DEF Spec

\* Every attack has at least one read for each row of its list, and a dilution
\* within its bound.
THEOREM TypeCorrect == Spec => []TypeOK
<1>1. IndInv => TypeOK
  BY DEF IndInv
<1> QED
  BY <1>1, Invariance, PTL

\* No path through the state machine leaves the row generator, read_count and
\* the table cell with different dilutions.
THEOREM ParamsConsistent == Spec => []ParamsInSync
<1>1. IndInv => ParamsInSync
  BY DEF IndInv
<1> QED
  BY <1>1, Invariance, PTL

-----------------------------------------------------------------------------
\* The rows of an attack

\* The remainder of a small number is the number.
LEMMA SmallRemainder ==
  ASSUME NEW a \in Nat, NEW n \in Nat, a < n
  PROVE  a % n = a
OBVIOUS

\* Until the last iteration no remainder wraps: the five rows are adjacent.
LEMMA Positions ==
  ASSUME IndInv, ~done
  PROVE  /\ iteration \in Nat
         /\ attack_rows_start + iteration + 4 < decoy_rows_start
         /\ logical_victim = attack_rows_start + iteration + 2
         /\ iteration % (max_attack_row_idx - 4) = iteration
         /\ (iteration + 1) % (max_attack_row_idx - 3) = iteration + 1
         /\ (iteration + 3) % (max_attack_row_idx - 1) = iteration + 3
         /\ (iteration + 4) % max_attack_row_idx = iteration + 4
<1> USE ConfigAssumption
<1>1. iteration \in Nat /\ iteration < max_attack_row_idx - 4
  BY DEF IndInv, TypeOK, done
<1>2. /\ iteration % (max_attack_row_idx - 4) = iteration
      /\ (iteration + 1) % (max_attack_row_idx - 3) = iteration + 1
      /\ (iteration + 2) % (max_attack_row_idx - 2) = iteration + 2
      /\ (iteration + 3) % (max_attack_row_idx - 1) = iteration + 3
      /\ (iteration + 4) % max_attack_row_idx = iteration + 4
  <2>1. \A k \in 0 .. 4 : /\ iteration + k \in Nat /\ max_attack_row_idx - (4 - k) \in Nat
                          /\ iteration + k < max_attack_row_idx - (4 - k)
    BY <1>1
  <2>2. \A k \in 0 .. 4 : (iteration + k) % (max_attack_row_idx - (4 - k)) = iteration + k
    BY <2>1, SmallRemainder
  <2>3. /\ (iteration + 0) % (max_attack_row_idx - (4 - 0)) = iteration + 0
        /\ (iteration + 1) % (max_attack_row_idx - (4 - 1)) = iteration + 1
        /\ (iteration + 2) % (max_attack_row_idx - (4 - 2)) = iteration + 2
        /\ (iteration + 3) % (max_attack_row_idx - (4 - 3)) = iteration + 3
        /\ (iteration + 4) % (max_attack_row_idx - (4 - 4)) = iteration + 4
    BY <2>2
  <2>4. /\ iteration + 0 = iteration /\ max_attack_row_idx - (4 - 0) = max_attack_row_idx - 4
        /\ max_attack_row_idx - (4 - 1) = max_attack_row_idx - 3
        /\ max_attack_row_idx - (4 - 2) = max_attack_row_idx - 2
        /\ max_attack_row_idx - (4 - 3) = max_attack_row_idx - 1
        /\ max_attack_row_idx - (4 - 4) = max_attack_row_idx
    BY <1>1
  <2> QED
    BY <2>3, <2>4
<1> QED
  BY <1>1, <1>2 DEF logical_victim

\* Every row mapping can be inverted.
LEMMA RoundTrip ==
  ASSUME row_mapping \in Mappings, NEW row \in Nat
  PROVE  physical_to_logical(logical_to_physical(row)) = row
<1>1. row_mapping \in {"Trivial", "TypeA", "TypeB"}
  BY ConfigAssumption
<1>2. CASE row_mapping = "Trivial"
  BY <1>2 DEF physical_to_logical, logical_to_physical
<1>3. CASE row_mapping = "TypeB"
  BY <1>3 DEF physical_to_logical, logical_to_physical
<1>4. CASE row_mapping = "TypeA"
  <2>1. TypeA(TypeA(row)) = row
    <3>1. CASE (row \div 8) % 2 = 1
      <4>1. TypeA(row) = FlipBits1And2(row)
        BY <3>1 DEF TypeA
      <4>2. /\ FlipBits1And2(row) \in Nat
            /\ FlipBits1And2(row) \div 8 = row \div 8
            /\ FlipBits1And2(row) % 8 = 2 * (3 - ((row % 8) \div 2)) + (row % 2)
            /\ FlipBits1And2(row) % 2 = row % 2
        BY Z3 DEF FlipBits1And2
      <4>3. FlipBits1And2(FlipBits1And2(row)) = row
        BY Z3 DEF FlipBits1And2
      <4>4. TypeA(FlipBits1And2(row)) = FlipBits1And2(FlipBits1And2(row))
        BY <3>1, <4>2 DEF TypeA
      <4> QED
        BY <4>1, <4>3, <4>4
    <3>2. CASE (row \div 8) % 2 # 1
      BY <3>2 DEF TypeA
    <3> QED
      BY <3>1, <3>2
  <2> QED
    BY <1>4, <2>1 DEF physical_to_logical, logical_to_physical
<1> QED
  BY <1>1, <1>2, <1>3, <1>4

\* Two rows are not mapped to one.
LEMMA Injective ==
  ASSUME row_mapping \in Mappings, NEW a \in Nat, NEW b \in Nat,
         logical_to_physical(a) = logical_to_physical(b)
  PROVE  a = b
BY RoundTrip

\* The logical rows of an attack: the list has both rows at distance two, or
\* both decoys, followed by the rows at distance one.
LEMMA RowsOfAttack ==
  ASSUME IndInv, ~done
  PROVE  /\ Hammered = Physical(Range(LogicalRows))
         /\ Range(LogicalRows) =
              (IF row_generator.distance_two
               THEN DistanceTwo ELSE {decoy_rows_start + 1, decoy_rows_start + 2})
              \cup (IF row_generator.distance_one THEN DistanceOne ELSE {})
<1> USE ConfigAssumption
<1> DEFINE far == [i \in 1 .. row_generator.nr_rows - 2 |-> DistanceTwoRow(i - 1)]
           near == DistanceOneRows
           odd == DistanceTwoRow(0)
           even == DistanceTwoRow(1)
<1>1. row_generator.nr_rows \in Nat /\ row_generator.nr_rows >= 4
  BY DEF IndInv, TypeOK, ParamsInSync
<1>2. \A j \in Nat : DistanceTwoRow(j) = IF j % 2 = 0 THEN odd ELSE even
  BY DEF DistanceTwoRow
<1>3. odd \in Int /\ even \in Int
  BY Positions DEF DistanceTwoRow
<1>4. far \in Seq(Int) /\ Range(far) = {odd, even}
  <2>1. \A i \in 1 .. row_generator.nr_rows - 2 :
          far[i] = (IF (i - 1) % 2 = 0 THEN odd ELSE even)
    BY <1>1, <1>2
  <2> HIDE DEF odd, even
  <2>2. far \in [1 .. row_generator.nr_rows - 2 -> Int]
    BY <1>3, <2>1
  <2>3. far \in Seq(Int)
    <3>1. row_generator.nr_rows - 2 \in Nat
      BY <1>1
    <3> HIDE DEF far
    <3> QED
      BY <2>2, <3>1, SeqDef
  <2>4. far[1] = odd /\ far[2] = even /\ 1 \in DOMAIN far /\ 2 \in DOMAIN far
    <3>1. 1 \in 1 .. row_generator.nr_rows - 2 /\ 2 \in 1 .. row_generator.nr_rows - 2
      BY <1>1
    <3>2. (1 - 1) % 2 = 0 /\ (2 - 1) % 2 # 0
      OBVIOUS
    <3> QED
      BY <2>1, <3>1, <3>2
  <2>5. \A i \in DOMAIN far : far[i] \in {odd, even}
    BY <2>1
  <2> HIDE DEF far
  <2> QED
    BY <2>3, <2>4, <2>5 DEF Range
<1>5. near \in Seq(Int)
      /\ Range(near) = IF row_generator.distance_one THEN DistanceOne ELSE {}
  BY Positions DEF DistanceOneRows, DistanceOne, Range
<1>6. {odd, even} = IF row_generator.distance_two
                    THEN DistanceTwo ELSE {decoy_rows_start + 1, decoy_rows_start + 2}
  BY Positions DEF DistanceTwoRow, DistanceTwo
<1>7. LogicalRows = far \o near
  BY DEF LogicalRows
<1> HIDE DEF far, near, odd, even
<1>8. Range(LogicalRows) = Range(far) \cup Range(near)
  BY <1>4, <1>5, <1>7, RangeConcatenation
<1>9. Hammered = Physical(Range(LogicalRows))
  BY DEF Hammered, Physical, generate_rows, Range
<1> QED
  BY <1>4, <1>5, <1>6, <1>8, <1>9

\* The geometry of an attack follows from the invariant.
LEMMA Geometry ==
  ASSUME IndInv
  PROVE  AttackGeometry
<1> SUFFICES ASSUME ~done
             PROVE  /\ physical_to_logical(TestedRow) = logical_victim
                    /\ TestedRow \notin Hammered
                    /\ state = "NOFLIP_DISTANCE_ONE" =>
                         Hammered \cap Physical(DistanceTwo) = {}
                    /\ state = "NOFLIP_DISTANCE_TWO" => Hammered = Physical(DistanceTwo)
                    /\ state \in {"HAMMER_TOLERANCE", "MAX_DILUTION"} =>
                         Hammered = Physical(DistanceOne \cup DistanceTwo)
  BY DEF AttackGeometry
<1>0. row_mapping \in Mappings
  BY DEF IndInv, TypeOK
<1> DEFINE decoys == {decoy_rows_start + 1, decoy_rows_start + 2}
           rows == Range(LogicalRows)
<1>1. /\ Hammered = Physical(rows)
      /\ rows = (IF row_generator.distance_two THEN DistanceTwo ELSE decoys)
                \cup (IF row_generator.distance_one THEN DistanceOne ELSE {})
  BY RowsOfAttack
<1> HIDE DEF rows
<1>2. /\ logical_victim \in Nat /\ logical_victim + 2 < decoy_rows_start
      /\ logical_victim >= 2 /\ decoy_rows_start \in Nat
  BY Positions, ConfigAssumption
<1>3. /\ DistanceOne \cup DistanceTwo \cup decoys \subseteq Nat
      /\ logical_victim \notin DistanceOne \cup DistanceTwo \cup decoys
      /\ (DistanceOne \cup decoys) \cap DistanceTwo = {}
  BY <1>2 DEF DistanceOne, DistanceTwo
<1>4. rows \subseteq DistanceOne \cup DistanceTwo \cup decoys
  BY <1>1
<1> HIDE DEF decoys
<1>5. physical_to_logical(TestedRow) = logical_victim
  BY <1>0, <1>2, RoundTrip DEF TestedRow
<1>6. TestedRow \notin Hammered
  <2> SUFFICES ASSUME NEW row \in rows,
                      logical_to_physical(row) = logical_to_physical(logical_victim)
               PROVE  FALSE
    BY <1>1 DEF TestedRow, Physical
  <2>1. row = logical_victim
    BY <1>0, <1>2, <1>3, <1>4, Injective
  <2> QED
    BY <1>3, <1>4, <2>1
<1>7. ASSUME state = "NOFLIP_DISTANCE_ONE"
      PROVE  Hammered \cap Physical(DistanceTwo) = {}
  <2>1. rows \subseteq DistanceOne \cup decoys
    BY <1>1, <1>7 DEF IndInv, Distances
  <2> SUFFICES ASSUME NEW a \in rows, NEW b \in DistanceTwo,
                      logical_to_physical(a) = logical_to_physical(b)
               PROVE  FALSE
    BY <1>1 DEF Physical
  <2>2. a = b
    BY <1>0, <1>3, <2>1, Injective
  <2> QED
    BY <1>3, <2>1, <2>2
<1>8. ASSUME state = "NOFLIP_DISTANCE_TWO"
      PROVE  Hammered = Physical(DistanceTwo)
  <2>1. rows = DistanceTwo
    BY <1>1, <1>8 DEF IndInv, Distances
  <2> QED
    BY <1>1, <2>1
<1>9. ASSUME state \in {"HAMMER_TOLERANCE", "MAX_DILUTION"}
      PROVE  Hammered = Physical(DistanceOne \cup DistanceTwo)
  <2>1. row_generator.distance_one /\ row_generator.distance_two
    BY <1>9 DEF IndInv, Distances
  <2>2. rows = DistanceOne \cup DistanceTwo
    BY <1>1, <2>1
  <2> QED
    BY <1>1, <2>2
<1> QED
  BY <1>5, <1>6, <1>7, <1>8, <1>9

\* For every configuration and every row mapping, an attack of the analysis
\* accesses the neighbours of the tested row on both sides and never that row,
\* and a pure attack leaves the other distance alone.
THEOREM GeometryCorrect == Spec => []AttackGeometry
  BY Geometry, Invariance, PTL

-----------------------------------------------------------------------------
\* The table of victims

\* The victim of this iteration, also when logical_victim has wrapped at the end
Victim == attack_rows_start + iteration + 2

\* The victims of the analysis go up, and for each of them the cells are
\* visited by falling hammers and, for the same hammers, rising dilutions.
Earlier(c, v) ==
  \/ v < Victim
  \/ /\ v = Victim
     /\ state \in {"HAMMER_TOLERANCE", "MAX_DILUTION"}
     /\ c[2] > total_read_count \/ (c[2] = total_read_count /\ c[1] < dilution)

Recorded ==
  /\ \A c \in DOMAIN victim_list :
       /\ c[1] \in Nat /\ c[2] \in Nat
       /\ victim_list[c] \in Seq(Nat)
       /\ \A i \in DOMAIN victim_list[c] : Earlier(c, victim_list[c][i])
  /\ RecordedOnce

\* The same about the place of the analysis after a turn
EarlierNext(c, v) ==
  \/ v < Victim'
  \/ /\ v = Victim'
     /\ state' \in {"HAMMER_TOLERANCE", "MAX_DILUTION"}
     /\ c[2] > total_read_count' \/ (c[2] = total_read_count' /\ c[1] < dilution')

\* What every turn does to the place of the analysis in that order; flip is
\* whether the victim has flipped.
Onward(flip) ==
  \/ iteration' = iteration + 1
  \/ /\ iteration' = iteration
     /\ state \in {"HAMMER_TOLERANCE", "MAX_DILUTION"}
     /\ state' \in {"HAMMER_TOLERANCE", "MAX_DILUTION"}
     /\ \/ total_read_count' < total_read_count
        \/ total_read_count' = total_read_count /\ dilution' > dilution
  \/ /\ iteration' = iteration
     /\ state = "NOFLIP_DISTANCE_ONE" \/ (state = "NOFLIP_DISTANCE_TWO" /\ ~flip)

\* No turn leads back to a cell.
LEMMA GoesOn ==
  ASSUME IndInv, NEW flip \in BOOLEAN,
         \/ noflip_distance_one(flip) \/ noflip_distance_two(flip)
         \/ find_hammer_tolerance(flip) \/ find_max_dilution(flip)
  PROVE  Onward(flip)
<1> USE ConfigAssumption
<1>1. /\ dilution \in Nat \ {0} /\ total_read_count \in Nat
      /\ ReadCountStep \in Nat \ {0} /\ initial_dilution \in Nat
  BY Configured DEF IndInv, TypeOK
<1>2. dilution * dilution_multiplier > dilution
  BY <1>1
<1>3. CASE noflip_distance_one(flip)
  BY <1>3 DEF noflip_distance_one, next_row, Onward
<1>4. CASE noflip_distance_two(flip)
  BY <1>4 DEF noflip_distance_two, next_row, Onward
<1>5. CASE find_hammer_tolerance(flip)
  BY <1>1, <1>2, <1>5 DEF find_hammer_tolerance, next_row, Spread, Onward
<1>6. CASE find_max_dilution(flip)
  BY <1>1, <1>2, <1>6 DEF find_max_dilution, LessHammers, next_row, Spread, Onward
<1> QED
  BY <1>3, <1>4, <1>5, <1>6

\* What was entered before a turn is still earlier after it.
LEMMA EarlierStays ==
  ASSUME IndInv, NEW flip \in BOOLEAN, Onward(flip), IndInv',
         NEW c, c[1] \in Nat, c[2] \in Nat, NEW v \in Nat, Earlier(c, v)
  PROVE  EarlierNext(c, v)
<1> USE ConfigAssumption
<1>1. /\ {iteration, iteration', total_read_count, total_read_count', dilution, dilution'}
           \subseteq Nat
  BY DEF IndInv, TypeOK
<1>2. Victim \in Nat /\ Victim' \in Nat
      /\ Victim' = Victim + (iteration' - iteration)
  BY <1>1 DEF Victim
<1>3. CASE iteration' = iteration + 1
  BY <1>1, <1>2, <1>3 DEF Earlier, EarlierNext
<1>4. CASE iteration' = iteration
  BY <1>1, <1>2, <1>4 DEF Earlier, EarlierNext, Onward
<1> QED
  BY <1>3, <1>4 DEF Onward

\* The table after a turn.
LEMMA TableStep ==
  ASSUME IndInv, ~done, Recorded, NEW row_errors, process_errors(row_errors),
         row_mapping' = row_mapping
  PROVE  Recorded'
<1> USE ConfigAssumption
<1> DEFINE flip == \E row \in row_errors : physical_to_logical(row) = logical_victim
<1>1. \/ noflip_distance_one(flip) \/ noflip_distance_two(flip)
      \/ find_hammer_tolerance(flip) \/ find_max_dilution(flip)
  BY DEF process_errors
<1>2. flip \in BOOLEAN
  OBVIOUS
<1>3. IF flip /\ state # "NOFLIP_DISTANCE_ONE" THEN Record ELSE UNCHANGED victim_list
  BY DEF process_errors
<1> HIDE DEF flip
<1>4. Onward(flip)
  BY <1>1, <1>2, GoesOn
<1>5. IndInv'
  BY Processed
<1>6. CASE ~(flip /\ state # "NOFLIP_DISTANCE_ONE")
  <2>1. victim_list' = victim_list
    BY <1>3, <1>6
  <2>2. ASSUME NEW c \in DOMAIN victim_list, NEW i \in DOMAIN victim_list[c]
        PROVE  EarlierNext(c, victim_list[c][i])
    BY <1>2, <1>4, <1>5, EarlierStays DEF Recorded
  <2> QED
    BY <2>1, <2>2 DEF Recorded, RecordedOnce, Earlier, EarlierNext
<1>7. CASE flip /\ state # "NOFLIP_DISTANCE_ONE"
  <2> DEFINE old == IF Cell \in DOMAIN victim_list THEN victim_list[Cell] ELSE << >>
  <2>1. logical_victim = Victim /\ Victim \in Nat
    BY Positions DEF Victim
  <2>2. /\ old \in Seq(Nat)
        /\ \A i \in DOMAIN old : Earlier(Cell, old[i])
        /\ \A i, j \in DOMAIN old : old[i] = old[j] => i = j
    BY DEF Recorded, RecordedOnce
  <2>3. /\ DOMAIN victim_list' = DOMAIN victim_list \cup {Cell}
        /\ victim_list'[Cell] = Append(old, Victim)
        /\ \A c \in DOMAIN victim_list \ {Cell} : victim_list'[c] = victim_list[c]
    <3> DEFINE cell == Cell
    <3>1. victim_list' = [c \in DOMAIN victim_list \cup {cell} |->
                           IF c # cell THEN victim_list[c]
                           ELSE IF c \in DOMAIN victim_list THEN Append(victim_list[c], Victim)
                           ELSE <<Victim>>]
      BY <1>3, <1>7, <2>1 DEF Record
    <3>2. Append(<< >>, Victim) = <<Victim>>
      OBVIOUS
    <3> HIDE DEF cell
    <3>3. CASE cell \in DOMAIN victim_list
      BY <3>1, <3>3 DEF cell
    <3>4. CASE cell \notin DOMAIN victim_list
      BY <3>1, <3>2, <3>4 DEF cell
    <3> QED
      BY <3>3, <3>4
  <2>4. /\ Cell[1] \in Nat /\ Cell[2] = total_read_count
        /\ state # "NOFLIP_DISTANCE_TWO" => Cell[1] = dilution
        /\ total_read_count \in Nat /\ dilution \in Nat
    BY DEF Cell, Infinite, IndInv, TypeOK
  <2>5. ~Earlier(Cell, Victim)
    BY <2>1, <2>4 DEF Earlier
  <2>6. EarlierNext(Cell, Victim)
    <3>1. {iteration, iteration', total_read_count', dilution'} \subseteq Nat
          /\ state \in States
      BY <1>5 DEF IndInv, TypeOK
    <3>2. CASE iteration' = iteration + 1
      BY <2>1, <3>1, <3>2 DEF EarlierNext, Victim
    <3>3. CASE iteration' # iteration + 1
      BY <1>4, <1>7, <2>1, <2>4, <3>1, <3>3 DEF EarlierNext, Victim, Onward, States
    <3> QED
      BY <3>2, <3>3
  <2> DEFINE new == Append(old, Victim)
  <2> HIDE DEF old
  <2>7. /\ new \in Seq(Nat) /\ DOMAIN new = 1 .. Len(old) + 1
        /\ DOMAIN old = 1 .. Len(old) /\ Len(old) \in Nat
        /\ \A i \in 1 .. Len(old) : new[i] = old[i]
        /\ new[Len(old) + 1] = Victim
    BY <2>1, <2>2
  <2> HIDE DEF new
  <2>8. \A i, j \in DOMAIN new : new[i] = new[j] => i = j
    <3>1. \A i \in 1 .. Len(old) : new[i] # Victim
      BY <2>2, <2>5, <2>7
    <3> SUFFICES ASSUME NEW i \in DOMAIN new, NEW j \in DOMAIN new, new[i] = new[j]
                 PROVE  i = j
      OBVIOUS
    <3>2. CASE i \in 1 .. Len(old) /\ j \in 1 .. Len(old)
      BY <2>2, <2>7, <3>2
    <3>3. CASE i = Len(old) + 1 \/ j = Len(old) + 1
      BY <2>7, <3>1, <3>3
    <3> QED
      BY <2>7, <3>2, <3>3
  <2>9. ASSUME NEW c \in DOMAIN victim_list'
        PROVE  /\ c[1] \in Nat /\ c[2] \in Nat
               /\ victim_list'[c] \in Seq(Nat)
               /\ \A i \in DOMAIN victim_list'[c] : EarlierNext(c, victim_list'[c][i])
               /\ \A i, j \in DOMAIN victim_list'[c] :
                    victim_list'[c][i] = victim_list'[c][j] => i = j
    <3>1. CASE c # Cell
      <4>1. c \in DOMAIN victim_list /\ victim_list'[c] = victim_list[c]
        BY <2>3, <2>9, <3>1
      <4>2. /\ c[1] \in Nat /\ c[2] \in Nat /\ victim_list[c] \in Seq(Nat)
            /\ \A i \in DOMAIN victim_list[c] : Earlier(c, victim_list[c][i])
            /\ \A i, j \in DOMAIN victim_list[c] :
                 victim_list[c][i] = victim_list[c][j] => i = j
        BY <4>1 DEF Recorded, RecordedOnce
      <4>3. \A i \in DOMAIN victim_list[c] : EarlierNext(c, victim_list[c][i])
        BY <1>2, <1>4, <1>5, <4>2, EarlierStays
      <4> QED
        BY <4>1, <4>2, <4>3
    <3>2. CASE c = Cell
      <4>1. victim_list'[c] = new
        BY <2>3, <3>2 DEF new
      <4>2. ASSUME NEW i \in DOMAIN new PROVE EarlierNext(Cell, new[i])
        <5>1. CASE i \in 1 .. Len(old)
          <6>1. new[i] = old[i] /\ old[i] \in Nat /\ Earlier(Cell, old[i])
            BY <2>2, <2>7, <5>1
          <6>2. Cell[1] \in Nat /\ Cell[2] \in Nat
            BY <2>4
          <6> QED
            BY <1>2, <1>4, <1>5, <6>1, <6>2, EarlierStays
        <5>2. CASE i = Len(old) + 1
          BY <2>6, <2>7, <5>2
        <5> QED
          BY <2>7, <5>1, <5>2
      <4> QED
        BY <2>4, <2>7, <2>8, <3>2, <4>1, <4>2
    <3> QED
      BY <3>1, <3>2
  <2> QED
    BY <2>9 DEF Recorded, RecordedOnce, Earlier, EarlierNext
<1> QED
  BY <1>6, <1>7

\* No victim is counted twice in a cell of the table: no path through the four
\* states comes back to an attack it has made on the same victim.
THEOREM CountedOnce == Spec => []RecordedOnce
<1>1. Init => Recorded
  BY DEF Init, Recorded, RecordedOnce
<1>2. ASSUME IndInv, Recorded, [Next]_vars
      PROVE  Recorded'
  <2>1. CASE Attack
    BY <1>2, <2>1, TableStep DEF Attack
  <2>2. CASE UNCHANGED vars
    BY <1>2, <2>2 DEF vars, Recorded, RecordedOnce, Earlier, Victim
  <2> QED
    BY <1>2, <2>1, <2>2 DEF Next
<1>3. Recorded => RecordedOnce
  BY DEF Recorded
<1> QED
  BY <1>1, <1>2, <1>3, Invariance, PTL DEF Spec

-----------------------------------------------------------------------------
\* Arithmetic

\* What a division leaves.
LEMMA DivMod ==
  ASSUME NEW d \in Nat \ {0}, NEW n \in Int
  PROVE  n = d * (n \div d) + (n % d) /\ n \div d \in Int /\ n % d \in 0 .. d - 1
<1>1. n \div d \in Int /\ n % d \in 0 .. d - 1
  OBVIOUS
<1>2. n = d * (n \div d) + (n % d)
  BY Z3
<1> QED
  BY <1>1, <1>2

\* A quotient is determined by the multiples it is between.
LEMMA Between ==
  ASSUME NEW d \in Nat \ {0}, NEW n \in Int, NEW q \in Int,
         q * d <= n, n < q * d + d
  PROVE  n \div d = q
<1> DEFINE k == n \div d
<1>1. k \in Int /\ d * k <= n /\ n < d * k + d
  BY DivMod
<1> HIDE DEF k
<1>2. d * (q - k) < d /\ d * (q - k) > -d
  <2>1. d * (q - k) = q * d - d * k
    BY <1>1
  <2>2. d * k \in Int /\ q * d \in Int
    BY <1>1
  <2> QED
    BY <1>1, <2>1, <2>2
<1>3. q - k < 1
  <2> SUFFICES ASSUME q - k >= 1 PROVE FALSE
    BY <1>1
  <2>1. d * (q - k) >= d
    BY <1>1
  <2> QED
    BY <1>1, <1>2, <2>1
<1>4. q - k > -1
  <2> SUFFICES ASSUME q - k <= -1 PROVE FALSE
    BY <1>1
  <2>1. d * (q - k) <= -d
    BY <1>1
  <2> QED
    BY <1>1, <1>2, <2>1
<1> QED
  BY <1>1, <1>3, <1>4 DEF k

\* A set of numbers below a bound has a least and a greatest element.
LEMMA Extremes ==
  ASSUME NEW n \in Nat, NEW S \in SUBSET (0 .. n), S # {}
  PROVE  /\ Min(S) \in S /\ \A x \in S : Min(S) <= x
         /\ Max(S) \in S /\ \A x \in S : x <= Max(S)
<1>1. \A T \in SUBSET Nat : T # {} => \E x \in T : \A y \in T : x <= y
  <2> SUFFICES ASSUME NEW T \in SUBSET Nat, T # {}
               PROVE  \E x \in T : \A y \in T : x <= y
    OBVIOUS
  <2> DEFINE R == OpToRel(<, Nat)
  <2>1. IsWellFoundedOn(R, Nat)
    BY NatLessThanWellFounded
  <2>2. \A x, y \in Nat : x < y => <<x, y>> \in R
    BY DEF OpToRel
  <2> HIDE DEF R
  <2>3. PICK x \in T : \A y \in T : ~(<<y, x>> \in R)
    BY <2>1, WFMin
  <2>4. ASSUME NEW y \in T PROVE x <= y
    <3>1. x \in Nat /\ y \in Nat
      OBVIOUS
    <3>2. ~(y < x)
      BY <2>2, <2>3, <3>1
    <3> QED
      BY <3>1, <3>2
  <2> QED
    BY <2>4
<1>2. \E x \in S : \A y \in S : x <= y
  BY <1>1
<1>3. \E x \in S : \A y \in S : x >= y
  <2> DEFINE T == {n - x : x \in S}
  <2>1. T \in SUBSET Nat /\ T # {}
    <3>1. \A x \in S : x \in 0 .. n /\ n - x \in Nat
      OBVIOUS
    <3> QED
      BY <3>1
  <2>2. PICK t \in T : \A y \in T : t <= y
    <3> HIDE DEF T
    <3> QED
      BY <1>1, <2>1
  <2>3. PICK x \in S : t = n - x
    OBVIOUS
  <2>4. \A y \in S : x >= y
    BY <2>2, <2>3
  <2> QED
    BY <2>4
<1> QED
  BY <1>2, <1>3 DEF Min, Max

-----------------------------------------------------------------------------
\* Addresses

\* The words of a row, in all banks
RowWords == 2^bankbits * BurstsPerRow

\* The widths as numbers: bytes of a column address and of a port word.
LEMMA Widths ==
  /\ RowWords \in Nat \ {0} /\ PortBytes \in Nat \ {0} /\ 2^rowbits \in Nat \ {0}
  /\ 2^address_align \in Nat \ {0} /\ BurstsPerRow \in Nat \ {0}
  /\ 2^(bankbits + colbits) = RowWords * 2^address_align
  /\ 2^colbits = BurstsPerRow * 2^address_align
  /\ MemoryWords = 2^rowbits * RowWords
  /\ BurstsPerRow <= RowWords
<1> DEFINE A == 2^address_align
           B == 2^bankbits
           C == 2^(colbits - address_align)
           D == 2^rowbits
<1>1. /\ A \in Nat \ {0} /\ B \in Nat \ {0} /\ C \in Nat \ {0} /\ D \in Nat \ {0}
      /\ 2^(bankbits + colbits) = B * (C * A) /\ 2^(rowbits + bankbits) = D * B
      /\ PortBytes \in Nat \ {0}
      /\ 2^colbits = C * A
  BY PowersOfTwo
<1>2. RowWords = B * C /\ BurstsPerRow = C /\ MemoryWords = (2^(rowbits + bankbits)) * C
  BY DEF RowWords, BurstsPerRow, MemoryWords
<1> HIDE DEF A, B, C, D
<1>3. B * (C * A) = (B * C) * A /\ (D * B) * C = D * (B * C)
  BY <1>1
<1>4. B * C \in Nat \ {0} /\ C <= B * C
  BY <1>1
<1> QED
  BY <1>1, <1>2, <1>3, <1>4 DEF A, B, C, D

\* Bus addresses count the bytes of port words: the shift of encode_bus takes
\* a column address to a multiple of what it is in port words.
LEMMA WordOf ==
  ASSUME NEW n \in Nat, NEW a \in 0 .. 2^address_align - 1
  PROVE  ShiftLeft(n * 2^address_align + a, BusShift) \div PortBytes = n
<1> DEFINE A == 2^address_align
           P == PortBytes
<1>1. A \in Nat \ {0} /\ P \in Nat \ {0} /\ BusShift \in Int
  BY PowersOfTwo
<1>2. CASE BusShift > 0
  <2> DEFINE S == 2^BusShift
             m == (n * A + a) * S
  <2>1. S \in Nat /\ P = S * A
    BY <1>2, PowersOfTwo
  <2>2. ShiftLeft(n * A + a, BusShift) = m
    BY <1>2 DEF ShiftLeft
  <2> HIDE DEF A, P, S
  <2>3. m = n * P + a * S
    BY <1>1, <2>1 DEF A
  <2>4. a * S \in Nat /\ a * S < P
    <3>1. S >= 1
      BY <1>1, <2>1
    <3>2. a * S <= (A - 1) * S
      BY <1>1, <2>1 DEF A
    <3>3. (A - 1) * S = P - S
      BY <1>1, <2>1
    <3>4. a * S \in Nat
      BY <2>1
    <3> QED
      BY <1>1, <2>1, <3>1, <3>2, <3>3, <3>4
  <2>5. n * P \in Int /\ m \in Int
    BY <1>1, <2>3, <2>4
  <2> HIDE DEF m
  <2>6. m \div P = n
    BY <1>1, <2>3, <2>4, <2>5, Between
  <2> QED
    BY <2>2, <2>6 DEF A, P
<1>3. CASE BusShift <= 0
  <2> DEFINE S == 2^(-BusShift)
             m == n * A + a
  <2>1. S \in Nat /\ A = S * P
    BY <1>3, PowersOfTwo
  <2>2. ShiftLeft(n * A + a, BusShift) = m \div S
    BY <1>1, <1>3 DEF ShiftLeft
  <2> HIDE DEF A, P, S
  <2>3. S \in Nat \ {0}
    BY <1>1, <2>1
  <2>4. m \in Nat /\ m = (n * P) * S + a /\ a < P * S
    BY <1>1, <2>1 DEF A
  <2> HIDE DEF m
  <2> DEFINE k == m \div S
  <2>5. k \in Int /\ S * k <= m /\ m < S * k + S
    <3>1. m = S * k + (m % S) /\ k \in Int /\ m % S \in 0 .. S - 1
      <4>1. m \in Int
        BY <2>4
      <4> QED
        BY <2>3, <4>1, DivMod
    <3> HIDE DEF k
    <3>2. S * k \in Int
      BY <2>3, <3>1
    <3> QED
      BY <2>3, <2>4, <3>1, <3>2
  <2> HIDE DEF k
  <2>6. n * P <= k
    <3> SUFFICES ASSUME k + 1 <= n * P PROVE FALSE
      BY <1>1, <2>5
    <3>1. S * (k + 1) <= S * (n * P)
      BY <1>1, <2>3, <2>5
    <3>2. S * (k + 1) = S * k + S
      BY <2>3, <2>5
    <3>3. S * (n * P) = (n * P) * S /\ (n * P) * S \in Int /\ S * k \in Int
      BY <1>1, <2>3, <2>5
    <3> QED
      BY <2>3, <2>4, <2>5, <3>1, <3>2, <3>3
  <2>7. k < n * P + P
    <3> SUFFICES ASSUME n * P + P <= k PROVE FALSE
      BY <1>1, <2>5
    <3>1. S * (n * P + P) <= S * k
      BY <1>1, <2>3, <2>5
    <3>2. S * (n * P + P) = (n * P) * S + P * S
      BY <1>1, <2>3
    <3>3. (n * P) * S \in Int /\ P * S \in Int /\ S * k \in Int
      BY <1>1, <2>3, <2>5
    <3> QED
      BY <2>3, <2>4, <2>5, <3>1, <3>2, <3>3
  <2>8. k \div P = n
    BY <1>1, <2>5, <2>6, <2>7, Between
  <2> QED
    BY <2>2, <2>8 DEF k, A, P
<1> QED
  BY <1>1, <1>2, <1>3

\* The first word of a row
LEMMA FirstWord ==
  ASSUME NEW row \in Nat
  PROVE  (EncodeBus(0, row, 0) - base) \div PortBytes = row * RowWords
<1> DEFINE A == 2^address_align
           n == row * RowWords
           t == n * A
<1>1. A \in Nat \ {0} /\ RowWords \in Nat \ {0} /\ 2^(bankbits + colbits) = RowWords * A
  BY Widths
<1>2. 2^colbits \in Nat
  BY Widths
<1>3. n \in Nat
  BY <1>1
<1>4. Encode(0, row, 0) = t
  <2> HIDE DEF A
  <2>1. row * (RowWords * A) = n * A
    BY <1>1
  <2>2. 0 * 2^colbits = 0
    BY <1>2
  <2> QED
    BY <1>1, <1>3, <2>1, <2>2 DEF Encode
<1>5. EncodeBus(0, row, 0) - base = ShiftLeft(n * A + 0, BusShift)
  <2>1. t \in Int /\ t = n * A + 0
    BY <1>1, <1>3
  <2>2. ShiftLeft(t, BusShift) \in Int
    <3>1. CASE BusShift > 0
      BY <2>1, <3>1, PowersOfTwo DEF ShiftLeft
    <3>2. CASE BusShift <= 0
      <4>1. 2^(-BusShift) \in Nat \ {0}
        BY <3>2, PowersOfTwo
      <4> QED
        BY <2>1, <3>2, <4>1, PowersOfTwo DEF ShiftLeft
    <3> QED
      BY <3>1, <3>2, PowersOfTwo
  <2>3. base \in Int
    BY DramAddressAssumption
  <2> HIDE DEF t
  <2> QED
    BY <1>4, <2>1, <2>2, <2>3 DEF EncodeBus
<1>6. 0 \in 0 .. A - 1
  BY <1>1
<1> HIDE DEF n
<1>7. ShiftLeft(n * A + 0, BusShift) \div PortBytes = n
  BY <1>3, <1>6, WordOf
<1> QED
  BY <1>5, <1>7 DEF n

\* The last word of a row in bank 0 is one of the words of the row.
LEMMA LastWordInRow ==
  ASSUME NEW row \in Nat
  PROVE  LastWord(row) \in row * RowWords .. row * RowWords + RowWords - 1
<1> DEFINE A == 2^address_align
           n == row * RowWords + (BurstsPerRow - 1)
           t == n * A + (A - 1)
<1>1. /\ A \in Nat \ {0} /\ RowWords \in Nat \ {0} /\ 2^(bankbits + colbits) = RowWords * A
      /\ BurstsPerRow \in Nat \ {0} /\ BurstsPerRow <= RowWords
      /\ 2^colbits = BurstsPerRow * A
  BY Widths
<1>2. row * RowWords \in Nat
  BY <1>1
<1>3. n \in Nat /\ n \in row * RowWords .. row * RowWords + RowWords - 1
  BY <1>1, <1>2
<1>4. Encode(0, row, 2^colbits - 1) = t
  <2> DEFINE C == 2^colbits
  <2>1. C \in Int /\ C = BurstsPerRow * A /\ 0 * C = 0
    BY <1>1
  <2>2. Encode(0, row, C - 1) = row * (RowWords * A) + (C - 1)
    <3>1. row * (RowWords * A) \in Int
      BY <1>1
    <3> HIDE DEF C, A
    <3> QED
      BY <1>1, <2>1, <3>1 DEF Encode, C
  <2> HIDE DEF C, A
  <2>3. row * (RowWords * A) = (row * RowWords) * A
    BY <1>1
  <2>4. n * A = (row * RowWords) * A + BurstsPerRow * A - A
    BY <1>1, <1>2
  <2>5. (row * RowWords) * A \in Int
    BY <1>1, <1>2
  <2> HIDE DEF n
  <2> QED
    BY <1>1, <2>1, <2>2, <2>3, <2>4, <2>5 DEF C
<1>5. EncodeBus(0, row, 2^colbits - 1) - base = ShiftLeft(t, BusShift)
  <2>1. t \in Int
    BY <1>1, <1>3
  <2> HIDE DEF t
  <2>2. ShiftLeft(t, BusShift) \in Int
    <3>1. CASE BusShift > 0
      BY <2>1, <3>1, PowersOfTwo DEF ShiftLeft
    <3>2. CASE BusShift <= 0
      <4>1. 2^(-BusShift) \in Nat \ {0}
        BY <3>2, PowersOfTwo
      <4> QED
        BY <2>1, <3>2, <4>1, PowersOfTwo DEF ShiftLeft
    <3> QED
      BY <3>1, <3>2, PowersOfTwo
  <2>3. base \in Int
    BY DramAddressAssumption
  <2> QED
    BY <1>4, <2>1, <2>2, <2>3 DEF EncodeBus
<1>6. A - 1 \in 0 .. A - 1
  BY <1>1
<1> HIDE DEF n
<1>7. t = n * A + (A - 1)
  OBVIOUS
<1> HIDE DEF t
<1>8. ShiftLeft(t, BusShift) \div PortBytes = n
  BY <1>3, <1>6, <1>7, WordOf
<1> QED
  BY <1>3, <1>5, <1>8 DEF LastWord

\* The row that is decoded from the offset of a word is the row of the word.
LEMMA DecodedRowOfWord ==
  ASSUME NEW row \in RowNumbers,
         NEW word \in row * RowWords .. row * RowWords + RowWords - 1
  PROVE  DecodedRow(word) = row
<1> DEFINE A == 2^address_align
           P == PortBytes
           W == RowWords
<1>1. /\ A \in Nat \ {0} /\ W \in Nat \ {0} /\ 2^(bankbits + colbits) = W * A
      /\ P \in Nat \ {0} /\ 2^rowbits \in Nat \ {0} /\ BusShift \in Int /\ base \in Int
  BY Widths, PowersOfTwo, DramAddressAssumption
<1>2. row \in Nat /\ row < 2^rowbits
  BY <1>1 DEF RowNumbers
<1>3. row * W \in Nat /\ word \in Nat /\ row * W <= word /\ word < row * W + W
  <2>1. row * W \in Nat
    BY <1>1, <1>2
  <2> QED
    BY <1>1, <2>1
<1> HIDE DEF W, A, P
<1>4. ShiftLeft(word * P, -BusShift) = word * A
  <2>1. CASE BusShift > 0
    <3> DEFINE S == 2^BusShift
    <3>1. S \in Nat /\ P = S * A
      BY <2>1, PowersOfTwo DEF P, A
    <3>2. -(-BusShift) = BusShift /\ ~(-BusShift > 0)
      BY <1>1, <2>1
    <3>3. ShiftLeft(word * P, -BusShift) = (word * P) \div S
      BY <3>2 DEF ShiftLeft
    <3> HIDE DEF S
    <3>4. word * P = (word * A) * S /\ S # 0
      BY <1>1, <1>3, <3>1
    <3>5. (word * A) * S \in Int /\ word * A \in Int
      BY <1>1, <1>3, <3>1
    <3> DEFINE x == word * A
               y == x * S
    <3> HIDE DEF x
    <3>6. y \in Int /\ x \in Int /\ x * S <= y /\ y < x * S + S
      BY <3>1, <3>4, <3>5 DEF x
    <3> HIDE DEF y
    <3>7. y \div S = x
      BY <3>1, <3>4, <3>6, Between
    <3> QED
      BY <3>3, <3>4, <3>7 DEF x, y
  <2>2. CASE BusShift = 0
    <3>1. -BusShift = 0 /\ -(-BusShift) = 0 /\ ~(-BusShift > 0)
      <4>1. \A k \in Int : k <= 0 /\ k >= 0 => -k = k /\ -(-k) = k /\ ~(-k > 0)
        OBVIOUS
      <4>2. BusShift <= 0 /\ BusShift >= 0
        BY <2>2
      <4>3. -BusShift = BusShift /\ -(-BusShift) = BusShift /\ ~(-BusShift > 0)
        BY <1>1, <4>1, <4>2
      <4> QED
        BY <2>2, <4>3
    <3>2. 2^0 = 1
      BY PowersOfTwo
    <3>3. A = P
      BY <1>1, <2>2, <3>1, <3>2, PowersOfTwo DEF P, A
    <3>4. word * P \in Int
      BY <1>1, <1>3
    <3> QED
      <4> DEFINE x == word * P
      <4>1. ShiftLeft(x, -BusShift) = x \div 1
        BY <3>1, <3>2 DEF ShiftLeft
      <4> HIDE DEF x
      <4>2. x \in Int
        BY <3>4 DEF x
      <4>3. x \div 1 = x
        BY <4>2
      <4> QED
        BY <3>3, <4>1, <4>3 DEF x
  <2>3. CASE BusShift < 0
    <3> DEFINE S == 2^(-BusShift)
    <3>1. S \in Nat /\ A = S * P
      BY <1>1, <2>3, PowersOfTwo DEF P, A
    <3>2. ShiftLeft(word * P, -BusShift) = (word * P) * S
      BY <1>1, <2>3 DEF ShiftLeft
    <3> HIDE DEF S
    <3> QED
      BY <1>1, <1>3, <3>1, <3>2
  <2> QED
    BY <1>1, <2>1, <2>2, <2>3
<1>5. DecodeBus(base + word * P).row = ((word * A) \div (W * A)) % 2^rowbits
  <2>1. base + word * P - base = word * P
    BY <1>1, <1>3
  <2> QED
    BY <1>1, <1>4, <2>1 DEF DecodeBus, Decode
<1>6. (word * A) \div (W * A) = row
  <2> DEFINE n == word * A
             d == W * A
  <2>1. n \in Int /\ d \in Nat \ {0}
    BY <1>1, <1>3
  <2>2. row * d = (row * W) * A
    BY <1>1, <1>2
  <2>3. (row * W) * A <= n
    BY <1>1, <1>3
  <2>4. n < (row * W) * A + d
    <3>1. (word + 1) * A <= (row * W + W) * A
      BY <1>1, <1>3
    <3>2. (word + 1) * A = n + A /\ (row * W + W) * A = (row * W) * A + d
      BY <1>1, <1>3
    <3>3. (row * W) * A \in Int
      BY <1>1, <1>3
    <3> HIDE DEF n, d
    <3> QED
      BY <1>1, <2>1, <3>1, <3>2, <3>3
  <2> HIDE DEF n, d
  <2>5. n \div d = row
    BY <1>2, <2>1, <2>2, <2>3, <2>4, Between
  <2> QED
    BY <2>5 DEF n, d
<1>7. row % 2^rowbits = row
  BY <1>1, <1>2, SmallRemainder
<1> QED
  BY <1>5, <1>6, <1>7 DEF DecodedRow, P

-----------------------------------------------------------------------------
\* Ranges

\* The row behind a row, or the end of the memory
EndRow(row) == IF row + 1 < 2^rowbits THEN row + 1 ELSE 2^rowbits

\* A range of rows in words
LEMMA RangeOfRows ==
  ASSUME NEW n \in Nat, NEW S \in SUBSET (0 .. n), S # {}
  PROVE  get_range_from_rows(S) = Min(S) * RowWords .. EndRow(Max(S)) * RowWords - 1
<1> DEFINE low == Min(S)
           high == Max(S)
           end == IF high + 1 < 2^rowbits THEN EncodeBus(0, high + 1, 0)
                  ELSE base + MemoryWords * PortBytes
<1>1. low \in Nat /\ high \in Nat
  <2>1. low \in S /\ high \in S
    BY Extremes
  <2> HIDE DEF low, high
  <2> QED
    BY <2>1
<1>2. get_range_from_rows(S) =
        (EncodeBus(0, low, 0) - base) \div PortBytes .. ((end - base) \div PortBytes) - 1
  BY DEF get_range_from_rows
<1> HIDE DEF low, high
<1>3. (EncodeBus(0, low, 0) - base) \div PortBytes = low * RowWords
  BY <1>1, FirstWord
<1>4. (end - base) \div PortBytes = EndRow(high) * RowWords
  <2>1. CASE high + 1 < 2^rowbits
    <3>1. high + 1 \in Nat
      BY <1>1
    <3>2. (EncodeBus(0, high + 1, 0) - base) \div PortBytes = (high + 1) * RowWords
      BY <3>1, FirstWord
    <3> QED
      BY <2>1, <3>2 DEF EndRow
  <2>2. CASE ~(high + 1 < 2^rowbits)
    <3> DEFINE x == MemoryWords * PortBytes
    <3>1. MemoryWords \in Nat /\ PortBytes \in Nat \ {0} /\ MemoryWords = 2^rowbits * RowWords
      BY Widths
    <3>2. x \in Int
      BY <3>1
    <3>3. end - base = x
      <4>1. end = base + x
        BY <2>2
      <4>2. base \in Int
        BY DramAddressAssumption
      <4> HIDE DEF x, end
      <4> QED
        BY <3>2, <4>1, <4>2
    <3>4. MemoryWords * PortBytes <= x /\ x < MemoryWords * PortBytes + PortBytes
      BY <3>1, <3>2
    <3> HIDE DEF x, end
    <3>5. x \div PortBytes = MemoryWords
      BY <3>1, <3>2, <3>4, Between
    <3> QED
      BY <2>2, <3>1, <3>3, <3>5 DEF EndRow
  <2> QED
    BY <2>1, <2>2
<1> HIDE DEF end
<1> QED
  BY <1>2, <1>3, <1>4 DEF low, high

\* The range of one row: its words, if it is a row of the memory.
LEMMA RangeOfRow ==
  ASSUME NEW row \in Nat
  PROVE  /\ row \in RowNumbers => get_range_from_rows({row}) =
                                   row * RowWords .. row * RowWords + RowWords - 1
         /\ row \notin RowNumbers => get_range_from_rows({row}) = {}
         /\ get_range_from_rows({row}) = row * RowWords .. EndRow(row) * RowWords - 1
<1> DEFINE W == RowWords
           R == 2^rowbits
<1>1. W \in Nat \ {0} /\ R \in Nat \ {0}
  BY Widths
<1>2. {row} \in SUBSET (0 .. row) /\ {row} # {}
  OBVIOUS
<1>3. Min({row}) = row /\ Max({row}) = row
  BY <1>2, Extremes
<1>4. get_range_from_rows({row}) = row * W .. EndRow(row) * W - 1
  BY <1>2, <1>3, RangeOfRows
<1> HIDE DEF W
<1>5. CASE row \in RowNumbers
  <2>1. EndRow(row) = row + 1
    BY <1>1, <1>5 DEF EndRow, RowNumbers
  <2>2. (row + 1) * W = row * W + W
    BY <1>1
  <2> DEFINE x == row * W
             y == (row + 1) * W
  <2>3. get_range_from_rows({row}) = x .. y - 1 /\ y = x + W /\ x \in Int
    BY <1>1, <1>4, <2>1, <2>2
  <2> HIDE DEF x, y
  <2>4. get_range_from_rows({row}) = x .. x + W - 1
    BY <1>1, <2>3
  <2> QED
    BY <1>4, <1>5, <2>4 DEF W, x
<1>6. CASE row \notin RowNumbers
  <2>1. EndRow(row) = R /\ R <= row
    BY <1>1, <1>6 DEF EndRow, RowNumbers
  <2> HIDE DEF R
  <2>2. R * W <= row * W /\ R * W \in Int /\ row * W \in Int
    BY <1>1, <2>1
  <2>3. row * W .. R * W - 1 = {}
    BY <2>2
  <2> QED
    BY <1>4, <1>6, <2>1, <2>3 DEF W
<1> QED
  BY <1>4, <1>5, <1>6 DEF W

\* A range has the words of each of its rows and is in the memory.
LEMMA RangeHasRow ==
  ASSUME NEW n \in Nat, NEW S \in SUBSET (0 .. n), NEW row \in S
  PROVE  get_range_from_rows({row}) \subseteq get_range_from_rows(S) \cap AllMemory
<1> DEFINE W == RowWords
           R == 2^rowbits
           low == Min(S)
           high == Max(S)
<1>1. W \in Nat \ {0} /\ R \in Nat \ {0} /\ MemoryWords = R * W
  BY Widths
<1>2. low \in Nat /\ high \in Nat /\ row \in Nat /\ low <= row /\ row <= high
  <2>1. low \in S /\ high \in S /\ low <= row /\ row <= high
    BY Extremes
  <2> HIDE DEF low, high
  <2> QED
    BY <2>1
<1>3. get_range_from_rows(S) = low * W .. EndRow(high) * W - 1
  BY RangeOfRows
<1>4. get_range_from_rows({row}) = row * W .. EndRow(row) * W - 1
  BY <1>2, RangeOfRow
<1>5. /\ EndRow(row) \in Nat /\ EndRow(high) \in Nat
      /\ EndRow(row) <= EndRow(high) /\ EndRow(row) <= R
  BY <1>1, <1>2 DEF EndRow
<1> DEFINE e == EndRow(row)
           f == EndRow(high)
<1> HIDE DEF W, R, low, high, e, f
<1>6. /\ low * W <= row * W /\ e * W <= f * W /\ e * W <= R * W
      /\ 0 <= row * W
      /\ {low * W, row * W, e * W, f * W, R * W} \subseteq Int
  BY <1>1, <1>2, <1>5 DEF e, f
<1>7. row * W .. e * W - 1 \subseteq (low * W .. f * W - 1) \cap (0 .. R * W - 1)
  BY <1>6
<1>8. AllMemory = 0 .. R * W - 1
  BY <1>1 DEF AllMemory
<1> QED
  BY <1>3, <1>4, <1>7, <1>8 DEF e, f

\* Every word of the memory belongs to a row of it.
LEMMA RowOfWord ==
  ASSUME NEW word \in AllMemory
  PROVE  \E row \in RowNumbers :
           word \in row * RowWords .. row * RowWords + RowWords - 1
<1> DEFINE W == RowWords
           R == 2^rowbits
           q == word \div W
<1>1. W \in Nat \ {0} /\ R \in Nat \ {0} /\ MemoryWords = R * W /\ R * W \in Int
  BY Widths
<1>2. word \in Nat /\ word < R * W
  BY <1>1 DEF AllMemory
<1> HIDE DEF W, R
<1>3. word = W * q + (word % W) /\ q \in Int /\ word % W \in 0 .. W - 1
  BY <1>1, <1>2, DivMod
<1> HIDE DEF q
<1>4. W * q \in Int /\ W * q <= word /\ word < W * q + W
  <2>1. W * q \in Int
    BY <1>1, <1>3
  <2> QED
    BY <1>1, <1>2, <1>3, <2>1
<1>5. q >= 0
  <2> SUFFICES ASSUME q <= -1 PROVE FALSE
    BY <1>3
  <2>1. W * q <= -W
    BY <1>1, <1>3
  <2> QED
    BY <1>1, <1>2, <1>4, <2>1
<1>6. q < R
  <2> SUFFICES ASSUME R <= q PROVE FALSE
    BY <1>1, <1>3
  <2>1. R * W <= W * q
    BY <1>1, <1>3
  <2> QED
    BY <1>1, <1>2, <1>4, <2>1
<1>7. q \in RowNumbers
  BY <1>1, <1>3, <1>5, <1>6 DEF RowNumbers, R
<1>8. W * q = q * W
  BY <1>1, <1>3
<1>9. word \in q * W .. q * W + W - 1
  BY <1>1, <1>2, <1>4, <1>8
<1> QED
  BY <1>7, <1>9 DEF W

\* A row of the memory has its last word in the memory.
LEMMA LastWordInMemory ==
  ASSUME NEW row \in RowNumbers
  PROVE  LastWord(row) \in get_range_from_rows({row}) \cap AllMemory
<1>1. row \in Nat
  BY Widths DEF RowNumbers
<1>2. LastWord(row) \in get_range_from_rows({row})
  BY <1>1, LastWordInRow, RangeOfRow
<1>3. {row} \in SUBSET (0 .. row)
  BY <1>1
<1> QED
  BY <1>1, <1>2, <1>3, RangeHasRow

-----------------------------------------------------------------------------
\* Rows

\* A mapped row is a row, not far behind.
LEMMA PhysicalRow ==
  ASSUME row_mapping \in Mappings, NEW row \in Nat
  PROVE  logical_to_physical(row) \in 0 .. 2 * row + 8
<1>1. row_mapping \in {"Trivial", "TypeA", "TypeB"}
  BY ConfigAssumption
<1>2. TypeA(row) \in 0 .. row + 8
  <2>1. FlipBits1And2(row) \in 0 .. row + 8
    BY Z3 DEF FlipBits1And2
  <2> QED
    BY <2>1 DEF TypeA
<1>3. row \in 0 .. 2 * row + 8 /\ row * 2 \in 0 .. 2 * row + 8
  OBVIOUS
<1>4. TypeA(row) \in 0 .. 2 * row + 8
  BY <1>2
<1> QED
  BY <1>1, <1>3, <1>4 DEF logical_to_physical

\* The state of a tolerance test
ToleranceInv ==
  IsTolerance =>
    /\ {"iteration", "run_baseline", "baseline_flips", "tables"} \subseteq DOMAIN tolerance
    /\ tolerance.iteration \in Nat
    /\ tolerance.run_baseline \in BOOLEAN
    /\ tolerance.run_baseline => config.baseline

\* Of the rows that a tolerance test computes with remainders, the first
\* aggressor and the victim are where they are without.
LEMMA ToleranceIterations ==
  ASSUME config \in Configs, IsTolerance, ToleranceInv, ~pg_done
  PROVE  \E k \in Nat :
           /\ k + 2 * config.distance < config.nr_rows
           /\ get_row_for_iter(0) = k
           /\ get_row_for_iter(config.distance) = k + config.distance
           /\ \A i \in 0 .. 2 * config.distance : get_row_for_iter(i) \in 0 .. config.nr_rows
<1> DEFINE t == tolerance.iteration
           d == config.distance
           p == config.iters_per_row
           N == config.nr_rows
           k == t \div p
<1>1. /\ d \in Nat /\ p \in Nat \ {0} /\ N \in Nat /\ N > 2 * d
      /\ config.max_iteration \in Nat /\ config.max_iteration <= (N - 2 * d) * p
  BY ConfigsAssumption DEF IsTolerance, Is
<1>2. t \in Nat /\ t < config.max_iteration
  <2>1. ~(t >= config.max_iteration)
    BY DEF pg_done, IsTolerance, Is
  <2>2. t \in Nat
    BY DEF ToleranceInv
  <2> QED
    BY <1>1, <2>1, <2>2
<1>3. \A i : get_row_for_iter(i) = (k + i) % (N - i)
  BY DEF get_row_for_iter
<1> HIDE DEF d, p, N
<1>4. t < (N - 2 * d) * p
  <2>1. (N - 2 * d) * p \in Int
    BY <1>1
  <2> QED
    BY <1>1, <1>2, <2>1
<1> HIDE DEF t
<1>5. t = p * k + (t % p) /\ k \in Int /\ t % p \in 0 .. p - 1
  BY <1>1, <1>2, DivMod
<1> HIDE DEF k
<1>6. p * k \in Int /\ p * k <= t /\ t < p * k + p
  <2>1. p * k \in Int
    BY <1>1, <1>5
  <2> QED
    BY <1>1, <1>2, <1>5, <2>1
<1>7. k >= 0
  <2> SUFFICES ASSUME k <= -1 PROVE FALSE
    BY <1>5
  <2>1. p * k <= -p
    BY <1>1, <1>5
  <2> QED
    BY <1>1, <1>2, <1>6, <2>1
<1>8. k < N - 2 * d
  <2> SUFFICES ASSUME N - 2 * d <= k PROVE FALSE
    BY <1>1, <1>5
  <2>1. (N - 2 * d) * p <= p * k
    BY <1>1, <1>5
  <2>2. (N - 2 * d) * p \in Int
    BY <1>1
  <2> QED
    BY <1>2, <1>4, <1>6, <2>1, <2>2
<1>9. k \in Nat /\ k + 2 * d < N
  BY <1>1, <1>5, <1>7, <1>8
<1>10. k % N = k /\ (k + d) % (N - d) = k + d
  <2>1. k + d \in Nat /\ N - d \in Nat /\ k + d < N - d /\ k < N
    BY <1>1, <1>9
  <2> QED
    BY <1>1, <1>9, <2>1, SmallRemainder
<1>11. get_row_for_iter(0) = k /\ get_row_for_iter(d) = k + d
  <2>1. k + 0 = k /\ N - 0 = N
    BY <1>1, <1>9
  <2>2. get_row_for_iter(0) = (k + 0) % (N - 0) /\ get_row_for_iter(d) = (k + d) % (N - d)
    BY <1>3
  <2> QED
    BY <1>10, <2>1, <2>2
<1>12. ASSUME NEW i \in 0 .. 2 * d
       PROVE  get_row_for_iter(i) \in 0 .. N
  <2>1. k + i \in Int /\ N - i \in Nat \ {0} /\ N - i <= N
    BY <1>1, <1>9
  <2>2. (k + i) % (N - i) \in 0 .. (N - i) - 1
    BY <2>1
  <2>3. (k + i) % (N - i) \in 0 .. N
    BY <1>1, <2>1, <2>2
  <2> QED
    BY <1>3, <2>3
<1> QED
  BY <1>9, <1>11, <1>12 DEF d, N

\* The tested row of a tolerance test is in the middle of the hammered rows.
LEMMA ToleranceGeometry ==
  ASSUME config \in Configs, row_mapping \in Mappings, ToleranceInv, pc = "execute" => ~pg_done
  PROVE  VictimBetweenAggressors
<1> SUFFICES ASSUME IsTolerance, pc = "execute"
             PROVE  LET victim == physical_to_logical(ToleranceVictim)
                        rows   == {physical_to_logical(row) : row \in ToleranceRows}
                    IN  IF tolerance.run_baseline
                        THEN \A row \in rows : row > victim + config.distance
                        ELSE rows = {victim - config.distance, victim + config.distance}
  BY DEF VictimBetweenAggressors
<1> DEFINE d == config.distance
           D == config.first_dummy_row
<1>1. d \in Nat /\ config.nr_rows \in Nat
  BY ConfigsAssumption DEF IsTolerance, Is
<1>2. PICK k \in Nat : /\ k + 2 * d < config.nr_rows
                        /\ get_row_for_iter(0) = k
                        /\ get_row_for_iter(d) = k + d
  BY ToleranceIterations
<1> HIDE DEF d
<1>3. physical_to_logical(ToleranceVictim) = k + d
  <2>1. k + d \in Nat
    BY <1>1
  <2>2. ToleranceVictim = logical_to_physical(k + d)
    BY <1>2 DEF ToleranceVictim, d
  <2> QED
    BY <2>1, <2>2, RoundTrip
<1>4. CASE tolerance.run_baseline
  <2>1. D \in Nat /\ D >= config.nr_rows
    <3>1. config.baseline
      BY <1>4 DEF ToleranceInv
    <3> QED
      BY <3>1, ConfigsAssumption DEF IsTolerance, Is
  <2>2. ToleranceRows = {logical_to_physical(D), logical_to_physical(D + 2 * d)}
    BY <1>4 DEF ToleranceRows, d
  <2> HIDE DEF D
  <2>3. D + 2 * d \in Nat
    BY <1>1, <2>1
  <2>4. {physical_to_logical(row) : row \in ToleranceRows} = {D, D + 2 * d}
    BY <2>1, <2>2, <2>3, RoundTrip
  <2>5. D > k + d + d /\ D + 2 * d > k + d + d
    BY <1>1, <1>2, <2>1
  <2> QED
    BY <1>3, <1>4, <2>4, <2>5 DEF d
<1>5. CASE ~tolerance.run_baseline
  <2>1. ToleranceRows = {logical_to_physical(k), logical_to_physical(k + 2 * d)}
    BY <1>2, <1>5 DEF ToleranceRows, d
  <2>2. k + 2 * d \in Nat
    BY <1>1
  <2>3. {physical_to_logical(row) : row \in ToleranceRows} = {k, k + 2 * d}
    BY <2>1, <2>2, RoundTrip
  <2>4. k = (k + d) - d /\ k + 2 * d = (k + d) + d
    BY <1>1
  <2> QED
    BY <1>3, <1>5, <2>3, <2>4 DEF d
<1> QED
  BY <1>4, <1>5

-----------------------------------------------------------------------------
\* Fill and test

\* The analysis in the playbook: RowList goes on with its iteration only.
AnalysisInv ==
  /\ config \in Configs /\ row_mapping \in Mappings /\ iteration \in Nat
  /\ ParamsInSync /\ RecordedOnce
  /\ ~done => IndInv
  /\ Is("HalfDouble") => IndInv /\ Recorded

\* Hammered and tested rows of the half-double analysis
LEMMA AnalysisRows ==
  ASSUME IndInv, ~done
  PROVE  \E n \in Nat : Hammered \cup {TestedRow} \in SUBSET (0 .. n)
<1> DEFINE D == decoy_rows_start + 2
           decoys == {decoy_rows_start + 1, decoy_rows_start + 2}
<1>1. D \in Nat /\ row_mapping \in Mappings
  BY ConfigAssumption DEF IndInv, TypeOK
<1>2. /\ logical_victim \in Nat /\ logical_victim >= 2 /\ logical_victim + 2 < decoy_rows_start
      /\ decoy_rows_start \in Nat
  BY Positions, ConfigAssumption
<1>3. DistanceOne \cup DistanceTwo \cup decoys \cup {logical_victim} \subseteq 0 .. D
  BY <1>2 DEF DistanceOne, DistanceTwo
<1>4. Range(LogicalRows) \subseteq DistanceOne \cup DistanceTwo \cup decoys
  BY RowsOfAttack
<1> HIDE DEF D, decoys
<1>5. \A row \in 0 .. D : logical_to_physical(row) \in 0 .. 2 * D + 8
  BY <1>1, PhysicalRow
<1>6. Hammered = Physical(Range(LogicalRows))
  BY RowsOfAttack
<1>7. Hammered \cup {TestedRow} \subseteq 0 .. 2 * D + 8
  BY <1>3, <1>4, <1>5, <1>6 DEF Physical, TestedRow
<1>8. 2 * D + 8 \in Nat
  BY <1>1
<1> QED
  BY <1>7, <1>8

\* A word that is tested has been filled before.
LEMMA TestIsFilled ==
  ASSUME AnalysisInv, ToleranceInv, ~pg_done
  PROVE  get_memtest_range \subseteq get_memset_range
<1>1. /\ config.payload_generator \in {"HammerTolerance", "HalfDouble", "RowList"}
      /\ config.fill_local \in BOOLEAN /\ config \in Configs /\ row_mapping \in Mappings
  BY ConfigsAssumption DEF AnalysisInv
<1>2. CASE Is("RowList")
  BY <1>1, <1>2 DEF get_memtest_range, get_memset_range, IsTolerance, Is
<1>3. CASE Is("HalfDouble")
  <2>1. IndInv /\ ~done
    BY <1>3 DEF AnalysisInv, pg_done, IsTolerance, Is
  <2>2. PICK n \in Nat : Hammered \cup {TestedRow} \in SUBSET (0 .. n)
    BY <2>1, AnalysisRows
  <2> DEFINE S == Hammered \cup {TestedRow}
             row == TestedRow
  <2>3. row \in S
    OBVIOUS
  <2>4. get_memtest_range = get_range_from_rows({row})
    BY <1>3 DEF get_memtest_range, IsTolerance, Is
  <2>5. get_memset_range = IF config.fill_local THEN get_range_from_rows(S) ELSE AllMemory
    BY <1>1, <1>3 DEF get_memset_range, IsTolerance, Is
  <2> HIDE DEF S, row
  <2>6. get_range_from_rows({row}) \subseteq get_range_from_rows(S) \cap AllMemory
    BY <2>2, <2>3, RangeHasRow DEF S
  <2> QED
    BY <2>4, <2>5, <2>6
<1>4. CASE IsTolerance
  <2> DEFINE S == {logical_to_physical(get_row_for_iter(i)) : i \in 0 .. 2 * config.distance}
             row == ToleranceVictim
             n == 2 * config.nr_rows + 8
  <2>1. config.distance \in Nat /\ config.nr_rows \in Nat
    BY <1>1, <1>4, ConfigsAssumption DEF IsTolerance, Is
  <2>2. \A i \in 0 .. 2 * config.distance : get_row_for_iter(i) \in 0 .. config.nr_rows
    BY <1>1, <1>4, ToleranceIterations
  <2>3. row \in S
    BY <2>1 DEF ToleranceVictim
  <2>4. n \in Nat /\ S \in SUBSET (0 .. n)
    <3>1. n \in Nat
      BY <2>1
    <3>2. ASSUME NEW i \in 0 .. 2 * config.distance
          PROVE  logical_to_physical(get_row_for_iter(i)) \in 0 .. n
      <4> DEFINE x == get_row_for_iter(i)
      <4>1. x \in 0 .. config.nr_rows
        BY <2>2
      <4> HIDE DEF x
      <4>2. logical_to_physical(x) \in 0 .. 2 * x + 8
        BY <1>1, <2>1, <4>1, PhysicalRow
      <4> QED
        BY <2>1, <4>1, <4>2 DEF x
    <3> QED
      BY <3>1, <3>2
  <2>5. get_memtest_range = get_range_from_rows({row})
    BY <1>4 DEF get_memtest_range, IsTolerance, Is
  <2>6. get_memset_range = IF config.fill_local THEN get_range_from_rows(S) ELSE AllMemory
    BY <1>1, <1>4 DEF get_memset_range, IsTolerance, Is
  <2> HIDE DEF S, row, n
  <2>7. get_range_from_rows({row}) \subseteq get_range_from_rows(S) \cap AllMemory
    BY <2>3, <2>4, RangeHasRow
  <2> QED
    BY <2>5, <2>6, <2>7
<1> QED
  BY <1>1, <1>2, <1>3, <1>4 DEF IsTolerance, Is

\* What is tested does not change while a payload is prepared and executed.
LEMMA SameTest ==
  ASSUME UNCHANGED <<vars, config, tolerance>>
  PROVE  get_memtest_range' = get_memtest_range /\ pg_done' = pg_done
         /\ AnalysisInv' = AnalysisInv /\ ToleranceInv' = ToleranceInv
<1> USE DEF vars
<1>1. Is("HalfDouble")' = Is("HalfDouble") /\ Is("RowList")' = Is("RowList") /\ IsTolerance' = IsTolerance
  BY DEF Is, IsTolerance
<1>2. TestedRow' = TestedRow
  BY DEF TestedRow, logical_victim, logical_to_physical
<1>3. ToleranceVictim' = ToleranceVictim
  BY DEF ToleranceVictim, get_row_for_iter, logical_to_physical
<1>4. GeneratorRange' = GeneratorRange
  <2>1. \A row : logical_to_physical(row)' = logical_to_physical(row)
    BY DEF logical_to_physical
  <2> QED
    BY <2>1 DEF GeneratorRange
<1>5. get_memtest_range' = get_memtest_range
  BY <1>1, <1>2, <1>3, <1>4 DEF get_memtest_range
<1>6. pg_done' = pg_done
  BY <1>1 DEF pg_done, done
<1>7. AnalysisInv' = AnalysisInv
  BY <1>1 DEF AnalysisInv, ParamsInSync, RecordedOnce, done, IndInv, TypeOK, Bounded, Distances,
              Steps, Recorded, Earlier, Victim
<1>8. ToleranceInv' = ToleranceInv
  BY <1>1 DEF ToleranceInv
<1> QED
  BY <1>5, <1>6, <1>7, <1>8


-----------------------------------------------------------------------------
\* Invariance

\* Which words may differ from the pattern at each point of the loop: after the
\* fill none that is tested, after the payload those that it has changed.
FreshInv ==
  /\ pc \in {"execute", "memtest", "process"} => ~pg_done
  /\ pc = "execute" => DOMAIN flipped \cap get_memtest_range = {}
  /\ pc \in {"memtest", "process"} =>
       /\ fresh \subseteq DOMAIN flipped
       /\ DOMAIN flipped \cap get_memtest_range \subseteq fresh
       /\ Is("HalfDouble") => \A word \in fresh : \E row \in RowNumbers : word = LastWord(row)
  /\ pc = "process" => DOMAIN errors = DOMAIN flipped \cap get_memtest_range

PlaybookInv == AnalysisInv /\ ToleranceInv /\ FreshInv

\* The playbook before it has done anything
LEMMA PlaybookInitially == PlaybookInit => PlaybookInv
<1> SUFFICES ASSUME PlaybookInit PROVE PlaybookInv
  OBVIOUS
<1>1. IndInv
  BY Initially DEF PlaybookInit
<1>2. AnalysisInv
  <2>1. Recorded /\ RecordedOnce
    BY DEF PlaybookInit, Init, Recorded, RecordedOnce
  <2> QED
    BY <1>1, <2>1 DEF PlaybookInit, Init, AnalysisInv, IndInv, TypeOK
<1>3. ToleranceInv
  BY DEF PlaybookInit, ToleranceInv, NoCounts
<1>4. FreshInv
  BY DEF PlaybookInit, FreshInv
<1> QED
  BY <1>2, <1>3, <1>4 DEF PlaybookInv

LEMMA InitializeInv ==
  ASSUME PlaybookInv, Initialize
  PROVE  PlaybookInv'
<1>1. UNCHANGED <<vars, config>>
  BY DEF Initialize
<1>2. AnalysisInv'
  BY <1>1 DEF PlaybookInv, vars, AnalysisInv, ParamsInSync, RecordedOnce, done, IndInv, TypeOK,
              Bounded, Distances, Steps, Recorded, Earlier, Victim, Is
<1>3. ToleranceInv'
  <2>1. IsTolerance' = IsTolerance
    BY <1>1 DEF IsTolerance, Is
  <2>2. CASE IsTolerance
    <3>1. config.baseline \in BOOLEAN
      BY <2>2, ConfigsAssumption DEF PlaybookInv, AnalysisInv, IsTolerance, Is
    <3> DEFINE t == NoCounts({(s + 1) * config.read_count_step : s \in 0 .. config.iters_per_row - 1})
    <3>2. /\ DOMAIN t = {"iteration", "run_baseline", "baseline_flips", "tables"}
          /\ t.iteration = 0
      BY DEF NoCounts
    <3>3. tolerance' = [t EXCEPT !.run_baseline = config.baseline]
      BY <2>2 DEF Initialize
    <3> HIDE DEF t
    <3>4. /\ DOMAIN tolerance' = DOMAIN t /\ tolerance'.iteration = 0
          /\ tolerance'.run_baseline = config.baseline
      BY <3>2, <3>3
    <3> QED
      BY <1>1, <3>1, <3>2, <3>4 DEF ToleranceInv
  <2>3. CASE ~IsTolerance
    BY <2>1, <2>3 DEF ToleranceInv
  <2> QED
    BY <2>2, <2>3
<1>4. FreshInv'
  BY DEF Initialize, FreshInv
<1> QED
  BY <1>2, <1>3, <1>4 DEF PlaybookInv

\* The fill removes every difference from what will be tested.
LEMMA MemsetInv ==
  ASSUME PlaybookInv, Memset
  PROVE  PlaybookInv'
<1>1. UNCHANGED <<vars, config, tolerance>> /\ pc' = "execute" /\ ~pg_done
  BY DEF Memset
<1>2. /\ get_memtest_range' = get_memtest_range /\ pg_done' = pg_done
      /\ AnalysisInv' = AnalysisInv /\ ToleranceInv' = ToleranceInv
  BY <1>1, SameTest
<1>3. get_memtest_range \subseteq get_memset_range
  BY <1>1, TestIsFilled DEF PlaybookInv
<1>4. DOMAIN flipped' = DOMAIN flipped \ get_memset_range
  BY DEF Memset, Restrict
<1>5. DOMAIN flipped' \cap get_memtest_range' = {}
  BY <1>2, <1>3, <1>4
<1>6. FreshInv'
  BY <1>1, <1>2, <1>5 DEF FreshInv
<1> QED
  BY <1>2, <1>6 DEF PlaybookInv

\* The half-double analysis tests one row, whose words decode to it.
LEMMA TestedWords ==
  ASSUME AnalysisInv, Is("HalfDouble"), ~pg_done
  PROVE  /\ TestedRow \in Nat /\ get_memtest_range = get_range_from_rows({TestedRow})
         /\ \A word \in get_memtest_range :
              TestedRow \in RowNumbers /\ DecodedRow(word) = TestedRow
<1> DEFINE row == TestedRow
<1>1. IndInv /\ ~done /\ row_mapping \in Mappings
  BY DEF AnalysisInv, pg_done, IsTolerance, Is
<1>2. row \in Nat
  <2>1. logical_victim \in Nat
    BY <1>1, Positions, ConfigAssumption
  <2> QED
    BY <1>1, <2>1, PhysicalRow DEF TestedRow
<1>3. get_memtest_range = get_range_from_rows({row})
  BY DEF get_memtest_range, IsTolerance, Is
<1> HIDE DEF row
<1>4. ASSUME NEW word \in get_memtest_range
      PROVE  row \in RowNumbers /\ DecodedRow(word) = row
  <2>1. row \in RowNumbers
    BY <1>2, <1>3, <1>4, RangeOfRow
  <2>2. word \in row * RowWords .. row * RowWords + RowWords - 1
    BY <1>2, <1>3, <1>4, <2>1, RangeOfRow
  <2> QED
    BY <2>1, <2>2, DecodedRowOfWord
<1> QED
  BY <1>2, <1>3, <1>4 DEF row

\* The payload changes words of which it is the cause.
LEMMA ExecuteInv ==
  ASSUME PlaybookInv, ExecutePayload
  PROVE  PlaybookInv'
<1>1. UNCHANGED <<vars, config, tolerance>> /\ pc = "execute" /\ pc' = "memtest"
  BY DEF ExecutePayload
<1>2. /\ get_memtest_range' = get_memtest_range /\ pg_done' = pg_done
      /\ AnalysisInv' = AnalysisInv /\ ToleranceInv' = ToleranceInv
      /\ Is("HalfDouble")' = Is("HalfDouble")
  BY <1>1, SameTest DEF Is
<1>3. ~pg_done /\ DOMAIN flipped \cap get_memtest_range = {}
  BY <1>1 DEF PlaybookInv, FreshInv
<1>4. DOMAIN flipped' = DOMAIN flipped \cup fresh'
  BY DEF ExecutePayload
<1>5. ASSUME Is("HalfDouble"), NEW word \in fresh'
      PROVE  \E row \in RowNumbers : word = LastWord(row)
  <2>1. ASSUME NEW row \in Susceptible PROVE row \in RowNumbers
    BY <1>3, <1>5, <2>1, TestedWords DEF Susceptible, PlaybookInv
  <2>2. PICK row \in Susceptible : word = LastWord(row)
    BY <1>5 DEF ExecutePayload
  <2> QED
    BY <2>1, <2>2
<1>6. FreshInv'
  BY <1>1, <1>2, <1>3, <1>4, <1>5 DEF FreshInv
<1> QED
  BY <1>2, <1>6 DEF PlaybookInv

LEMMA MemtestInv ==
  ASSUME PlaybookInv, Memtest
  PROVE  PlaybookInv'
<1>1. /\ UNCHANGED <<vars, config, tolerance, flipped, fresh>>
      /\ pc = "memtest" /\ pc' = "process"
  BY DEF Memtest
<1>2. /\ get_memtest_range' = get_memtest_range /\ pg_done' = pg_done
      /\ AnalysisInv' = AnalysisInv /\ ToleranceInv' = ToleranceInv
      /\ Is("HalfDouble")' = Is("HalfDouble")
  BY <1>1, SameTest DEF Is
<1>3. DOMAIN errors' = DOMAIN flipped \cap get_memtest_range
  BY DEF Memtest, Restrict
<1>4. FreshInv'
  BY <1>1, <1>2, <1>3 DEF FreshInv, PlaybookInv
<1> QED
  BY <1>2, <1>4 DEF PlaybookInv

LEMMA SummarizeInv ==
  ASSUME PlaybookInv, Summarize
  PROVE  PlaybookInv'
<1>1. UNCHANGED <<vars, config, tolerance>> /\ pc' = "end"
  BY DEF Summarize
<1>2. AnalysisInv' = AnalysisInv /\ ToleranceInv' = ToleranceInv
  BY <1>1, SameTest
<1>3. FreshInv'
  BY <1>1 DEF FreshInv
<1> QED
  BY <1>2, <1>3 DEF PlaybookInv

\* The place of a tolerance test after an attack; its tables do not matter here.
LEMMA ToleranceStep ==
  ASSUME ToleranceInv, IsTolerance, NEW step, NEW found, config.baseline \in BOOLEAN,
         tolerance' = CountErrors(tolerance, step, found), config' = config
  PROVE  ToleranceInv'
<1> DEFINE t == ToleranceTurn(tolerance)
           Fields == {"iteration", "run_baseline", "baseline_flips", "tables"}
<1>1. /\ Fields \subseteq DOMAIN t
      /\ t.iteration \in Nat /\ t.run_baseline \in BOOLEAN
      /\ t.run_baseline => config.baseline
  <2>1. /\ Fields \subseteq DOMAIN tolerance /\ tolerance.iteration \in Nat
        /\ tolerance.run_baseline \in BOOLEAN
        /\ tolerance.run_baseline => config.baseline
    BY DEF ToleranceInv
  <2>2. DOMAIN t = DOMAIN tolerance
    BY DEF ToleranceTurn
  <2>3. t.iteration = IF tolerance.run_baseline THEN tolerance.iteration
                      ELSE tolerance.iteration + 1
    BY <2>1 DEF ToleranceTurn
  <2>4. t.run_baseline = IF config.baseline THEN ~tolerance.run_baseline
                         ELSE tolerance.run_baseline
    BY <2>1 DEF ToleranceTurn
  <2> HIDE DEF t
  <2>5. t.iteration \in Nat
    BY <2>1, <2>3
  <2>6. t.run_baseline \in BOOLEAN /\ (t.run_baseline => config.baseline)
    BY <2>1, <2>4
  <2> QED
    BY <2>1, <2>2, <2>5, <2>6
<1>2. /\ DOMAIN tolerance' = DOMAIN t
      /\ tolerance'.iteration = t.iteration
      /\ tolerance'.run_baseline = t.run_baseline
  <2> HIDE DEF t
  <2> QED
    BY <1>1 DEF CountErrors, t
<1> QED
  BY <1>1, <1>2 DEF ToleranceInv, IsTolerance, Is

LEMMA ProcessInv ==
  ASSUME PlaybookInv, ProcessErrors
  PROVE  PlaybookInv'
<1>1. /\ pc = "process" /\ pc' = "loop" /\ config' = config /\ ~pg_done
      /\ \A name : Is(name)' = Is(name)
  BY DEF ProcessErrors, PlaybookInv, FreshInv, Is
<1>2. FreshInv'
  BY <1>1 DEF FreshInv
<1>3. CASE IsTolerance /\ ProcessTolerance
  <2>1. config.baseline \in BOOLEAN
    BY <1>3, ConfigsAssumption DEF PlaybookInv, AnalysisInv, IsTolerance, Is
  <2>2. ToleranceInv'
    BY <1>1, <1>3, <2>1, ToleranceStep DEF ProcessTolerance, PlaybookInv
  <2>3. AnalysisInv'
    BY <1>1, <1>3 DEF ProcessTolerance, PlaybookInv, vars, AnalysisInv, ParamsInSync,
                      RecordedOnce, done, IndInv, TypeOK, Bounded, Distances, Steps, Recorded,
                      Earlier, Victim
  <2> QED
    BY <1>2, <2>2, <2>3 DEF PlaybookInv
<1>4. CASE Is("RowList") /\ ProcessRowList
  <2>1. /\ iteration' = iteration + 1 /\ iteration \in Nat /\ ~Is("HalfDouble") /\ ~IsTolerance
        /\ UNCHANGED <<row_mapping, state, total_read_count, dilution, read_count,
                       row_generator, victim_list, tolerance>>
    BY <1>4 DEF ProcessRowList, PlaybookInv, AnalysisInv, IsTolerance, Is
  <2>2. ASSUME ~done' PROVE IndInv'
    <3>1. iteration' \in 0 .. max_attack_row_idx - 4 /\ ~done
      BY <2>1, <2>2, ConfigAssumption DEF done
    <3> QED
      BY <2>1, <3>1 DEF PlaybookInv, AnalysisInv, IndInv, TypeOK, ParamsInSync, Bounded,
                        Distances, Steps
  <2>3. AnalysisInv'
    BY <1>1, <2>1, <2>2 DEF PlaybookInv, AnalysisInv, ParamsInSync, RecordedOnce
  <2>4. ToleranceInv'
    BY <1>1, <2>1 DEF ToleranceInv, IsTolerance
  <2> QED
    BY <1>2, <2>3, <2>4 DEF PlaybookInv
<1>5. CASE Is("HalfDouble") /\ ProcessHalfDouble
  <2>1. /\ IndInv /\ Recorded /\ ~done /\ ~IsTolerance
        /\ process_errors(decode_errors) /\ UNCHANGED <<row_mapping, tolerance>>
    BY <1>1, <1>5 DEF ProcessHalfDouble, PlaybookInv, AnalysisInv, pg_done, IsTolerance, Is
  <2>2. IndInv'
    BY <2>1, Processed
  <2>3. Recorded'
    BY <2>1, TableStep
  <2>4. AnalysisInv'
    BY <1>1, <2>1, <2>2, <2>3 DEF PlaybookInv, AnalysisInv, IndInv, TypeOK, Recorded
  <2>5. ToleranceInv'
    BY <1>1, <2>1 DEF ToleranceInv, IsTolerance
  <2> QED
    BY <1>2, <2>4, <2>5 DEF PlaybookInv
<1> QED
  BY <1>3, <1>4, <1>5 DEF ProcessErrors

\* A stutter keeps it.
LEMMA StutterInv ==
  ASSUME PlaybookInv, UNCHANGED allVars
  PROVE  PlaybookInv'
<1>1. UNCHANGED <<vars, config, tolerance, pc, flipped, errors, fresh>>
  BY DEF allVars, playbookVars
<1>2. /\ get_memtest_range' = get_memtest_range /\ pg_done' = pg_done
      /\ AnalysisInv' = AnalysisInv /\ ToleranceInv' = ToleranceInv
      /\ Is("HalfDouble")' = Is("HalfDouble")
  BY <1>1, SameTest DEF Is
<1>3. FreshInv'
  BY <1>1, <1>2 DEF PlaybookInv, FreshInv
<1> QED
  BY <1>2, <1>3 DEF PlaybookInv

\* The invariant of the playbook, over all payload generators, configurations
\* and outcomes of attacks.
THEOREM PlaybookInvariance == PlaybookSpec => []PlaybookInv
<1>1. PlaybookInv /\ [PlaybookNext]_allVars => PlaybookInv'
  BY InitializeInv, MemsetInv, ExecuteInv, MemtestInv, ProcessInv, SummarizeInv, StutterInv
     DEF PlaybookNext
<1> QED
  BY <1>1, PlaybookInitially, PTL DEF PlaybookSpec

\* The row that a tolerance test tests is in the middle of the rows that it
\* hammers, and the dummies of a baseline are farther from it, for every
\* mapping, distance and number of rows.
THEOREM VictimInTheMiddle == PlaybookSpec => []VictimBetweenAggressors
<1>1. PlaybookInv => VictimBetweenAggressors
  BY ToleranceGeometry DEF PlaybookInv, AnalysisInv, FreshInv
<1> QED
  BY <1>1, PlaybookInvariance, PTL

\* The half-double parameters agree in the playbook as they do in the analysis
\* alone.
THEOREM PlaybookParams == PlaybookSpec => []ParamsInSync
<1>1. PlaybookInv => ParamsInSync
  BY DEF PlaybookInv, AnalysisInv
<1> QED
  BY <1>1, PlaybookInvariance, PTL

\* Also with a row list the rows of HalfDoubleRowGenerator are around the
\* victim, until the iterations wrap.
THEOREM PlaybookGeometry == PlaybookSpec => []AttackGeometry
<1>1. PlaybookInv => AttackGeometry
  <2> SUFFICES ASSUME PlaybookInv PROVE AttackGeometry
    OBVIOUS
  <2>1. CASE done
    BY <2>1 DEF AttackGeometry
  <2>2. CASE ~done
    BY <2>2, Geometry DEF PlaybookInv, AnalysisInv
  <2> QED
    BY <2>1, <2>2
<1> QED
  BY <1>1, PlaybookInvariance, PTL

\* An error that a generator is told of was made by its own payload, whatever
\* the memory held before and whichever ranges are filled and tested; a victim
\* is entered once at most in a cell of the half-double table.
THEOREM OwnErrors == PlaybookSpec => [](ErrorsAreFresh /\ RecordedOnce)
<1>1. PlaybookInv => ErrorsAreFresh /\ RecordedOnce
  BY DEF PlaybookInv, AnalysisInv, FreshInv, ErrorsAreFresh
<1> QED
  BY <1>1, PlaybookInvariance, PTL

-----------------------------------------------------------------------------
\* The half-double analysis in the playbook

\* The errors that are decoded say that the victim has flipped if and only if
\* the payload has flipped its row.
LEMMA VictimFlipped ==
  ASSUME PlaybookInv, Is("HalfDouble"), pc = "process"
  PROVE  (\E row \in decode_errors : physical_to_logical(row) = logical_victim)
           <=> LastWord(TestedRow) \in fresh
<1> DEFINE row == TestedRow
<1>1. AnalysisInv /\ ~pg_done
  BY DEF PlaybookInv, FreshInv
<1>2. IndInv /\ ~done
  BY <1>1 DEF AnalysisInv, pg_done, IsTolerance, Is
<1>3. /\ row \in Nat /\ get_memtest_range = get_range_from_rows({row})
      /\ \A word \in get_memtest_range : row \in RowNumbers /\ DecodedRow(word) = row
  BY <1>1, TestedWords
<1>4. physical_to_logical(row) = logical_victim
  BY <1>2, Geometry DEF AttackGeometry
<1> HIDE DEF row
<1>5. /\ DOMAIN errors = DOMAIN flipped \cap get_memtest_range
      /\ DOMAIN errors \subseteq fresh /\ fresh \subseteq DOMAIN flipped
      /\ \A word \in fresh : \E r \in RowNumbers : word = LastWord(r)
  BY DEF PlaybookInv, FreshInv
<1>6. ASSUME LastWord(row) \in fresh
      PROVE  \E r \in decode_errors : physical_to_logical(r) = logical_victim
  <2> DEFINE w == LastWord(row)
  <2>1. w \in AllMemory /\ w \in row * RowWords .. row * RowWords + RowWords - 1
    BY <1>3, <1>5, <1>6, LastWordInRow, LastWordInMemory
  <2>2. row \in RowNumbers
    <3> DEFINE W == RowWords
               R == 2^rowbits
    <3>1. W \in Nat \ {0} /\ R \in Nat \ {0} /\ MemoryWords = R * W
      BY Widths
    <3> HIDE DEF w, W, R
    <3>2. R * W \in Int /\ row * W \in Int /\ w \in Int /\ row * W <= w /\ w < R * W
      <4>1. R * W \in Int /\ row * W \in Int
        BY <1>3, <3>1
      <4> QED
        BY <2>1, <3>1, <4>1 DEF AllMemory, W
    <3>3. row < R
      <4> SUFFICES ASSUME R <= row PROVE FALSE
        BY <1>3, <3>1
      <4>1. R * W <= row * W
        BY <1>3, <3>1
      <4> QED
        BY <3>2, <4>1
    <3> QED
      BY <1>3, <3>1, <3>3 DEF RowNumbers, R
  <2>3. w \in get_memtest_range
    BY <1>3, <2>2, LastWordInMemory
  <2>4. w \in DOMAIN errors
    BY <1>5, <1>6, <2>3
  <2> HIDE DEF w
  <2>5. DecodedRow(w) \in decode_errors
    BY <2>4 DEF decode_errors
  <2>6. DecodedRow(w) = row
    BY <1>3, <2>3
  <2> QED
    BY <1>4, <2>5, <2>6
<1>7. ASSUME NEW r \in decode_errors
      PROVE  LastWord(row) \in fresh
  <2>1. PICK w \in DOMAIN errors : r = DecodedRow(w)
    BY DEF decode_errors
  <2>2. w \in get_memtest_range /\ w \in fresh
    BY <1>5
  <2>3. PICK s \in RowNumbers : w = LastWord(s)
    BY <1>5, <2>2
  <2>4. DecodedRow(w) = row
    BY <1>3, <2>2
  <2>5. DecodedRow(w) = s
    <3>1. s \in Nat
      BY Widths DEF RowNumbers
    <3> QED
      BY <2>3, <3>1, LastWordInRow, DecodedRowOfWord
  <2> QED
    BY <2>2, <2>3, <2>4, <2>5
<1> QED
  BY <1>6, <1>7 DEF row

\* For every geometry and every configuration the half-double analysis in the
\* playbook takes the steps of the analysis alone, with the outcome of its own
\* attack: it is told that the victim has flipped exactly when the payload has
\* flipped a bit in the victim's row.
THEOREM AnalysisImplemented == PlaybookSpec => ImplementsAnalysis
<1> DEFINE told == IF LastWord(TestedRow) \in fresh THEN {TestedRow} ELSE {}
           Step1 == Is("HalfDouble") =>
                      IF pc = "process" THEN Next /\ process_errors(told) ELSE UNCHANGED vars
<1>1. ASSUME PlaybookInv, PlaybookNext, Is("HalfDouble")
      PROVE  IF pc = "process" THEN Next /\ process_errors(told) ELSE UNCHANGED vars
  <2>1. CASE pc # "process"
    BY <1>1, <2>1 DEF PlaybookNext, Initialize, Memset, ExecutePayload, Memtest, ProcessErrors,
                      Summarize
  <2>2. CASE pc = "process"
    <3>1. /\ process_errors(decode_errors) /\ row_mapping' = row_mapping
          /\ IndInv /\ ~done
      BY <1>1, <2>2 DEF PlaybookNext, Initialize, Memset, ExecutePayload, Memtest, ProcessErrors,
                        Summarize, ProcessHalfDouble, PlaybookInv, AnalysisInv, FreshInv,
                        pg_done, IsTolerance, Is
    <3> DEFINE flipA == \E row \in decode_errors : physical_to_logical(row) = logical_victim
               flipB == \E row \in told : physical_to_logical(row) = logical_victim
    <3>2. physical_to_logical(TestedRow) = logical_victim
      BY <3>1, Geometry DEF AttackGeometry
    <3>3. flipA <=> flipB
      <4>1. flipA <=> LastWord(TestedRow) \in fresh
        BY <1>1, <2>2, VictimFlipped
      <4>2. flipB <=> LastWord(TestedRow) \in fresh
        BY <3>2
      <4> QED
        BY <4>1, <4>2
    <3>4. process_errors(told)
      <4>1. /\ IF flipA /\ state # "NOFLIP_DISTANCE_ONE" THEN Record ELSE UNCHANGED victim_list
            /\ \/ noflip_distance_one(flipA) \/ noflip_distance_two(flipA)
               \/ find_hammer_tolerance(flipA) \/ find_max_dilution(flipA)
        BY <3>1 DEF process_errors
      <4>2. flipA = flipB
        BY <3>3
      <4> HIDE DEF flipA
      <4>3. /\ IF flipB /\ state # "NOFLIP_DISTANCE_ONE" THEN Record ELSE UNCHANGED victim_list
            /\ \/ noflip_distance_one(flipB) \/ noflip_distance_two(flipB)
               \/ find_hammer_tolerance(flipB) \/ find_max_dilution(flipB)
        <5> HIDE DEF flipB
        <5> QED
          BY <4>1, <4>2
      <4> QED
        BY <4>3 DEF process_errors
    <3>5. told \in SUBSET {TestedRow}
      OBVIOUS
    <3> HIDE DEF told
    <3>6. Next
      BY <3>1, <3>4, <3>5 DEF Next, Attack
    <3> QED
      BY <2>2, <3>4, <3>6
  <2> QED
    BY <2>1, <2>2
<1>2. PlaybookInv /\ [PlaybookNext]_allVars => [Step1]_allVars
  BY <1>1
<1> QED
  BY <1>2, PlaybookInvariance, PTL DEF PlaybookSpec, ImplementsAnalysis

=============================================================================
