----------------------------- MODULE PayloadGen -----------------------------
(***************************************************************************)
(* generate_payload_from_row_list of scripts/playbook/lib: a payload that  *)
(* activates every row of a list read_count times, refreshing in between,  *)
(* and the Encoder that turns its instructions into words.                 *)
(*                                                                         *)
(* A job is a record of read_count, the number of rows of the list, the    *)
(* timings tRAS, tRP, tREFI and tRFC in cycles, and refresh.  A generated  *)
(* word is an instruction together with the position in the list of the    *)
(* row it activates (0 if it activates none).                              *)
(***************************************************************************)
EXTENDS PayloadCode, SequencesExt

CONSTANTS
  TimesliceMod,   \* 2^TIMESLICE
  NoopChunk,      \* longest NOOP the Encoder appends: TIMESLICE_NOOP - 1
  MaxActs         \* max_acts_in_loop

Largest(S) == CHOOSE x \in S : \A y \in S : y <= x
CeilDiv(a, b) == (a + b - 1) \div b

\* Mutant: a time slice that is too long is cut to the width of the field.
Encode_Cut(op, timeslice, row) ==
  <<[ins |-> I(op, IF op = "NOOP" THEN timeslice
                   ELSE Largest({timeslice % TimesliceMod, 1})),
     row |-> row]>>

\* Encoder: a time slice too long for an instruction other than NOOP is made
\* up with NOOPs behind it.
Encode(op, timeslice, row) ==
  LET base == Largest({timeslice % TimesliceMod, 1})
      remaining == timeslice - base
      wait(k) == IF remaining - k * NoopChunk < NoopChunk
                   THEN remaining - k * NoopChunk ELSE NoopChunk
  IN  IF op = "NOOP" \/ base = timeslice
        THEN <<[ins |-> I(op, timeslice), row |-> row]>>
        ELSE <<[ins |-> I(op, base), row |-> row]>>
               \o [k \in 1 .. CeilDiv(remaining, NoopChunk) |->
                     [ins |-> I("NOOP", wait(k - 1)), row |-> 0]]

RefreshOp(job) == IF job.refresh THEN "REF" ELSE "NOOP"

\* An extra cycle for the jump at the end
FirstAccum(job) == job.tRFC + 1
LocalRefreshes(n) == n + 1

\* encode_one_loop: a refresh, then every row of the list `unrolled' times,
\* with another refresh wherever the next activation would not end within
\* tREFI of the last one, and the LOOP that repeats all this.
OneLoop(job, unrolled, rolled) ==
  LET acts == unrolled * job.rows
      slot == job.tRAS + job.tRP
      refresh == Encode(RefreshOp(job), job.tRFC, 0)
      refreshed(s) ==
        IF s.accum + slot > job.tREFI
          THEN [words |-> s.words \o refresh, accum |-> job.tRFC,
                refreshes |-> LocalRefreshes(s.refreshes)]
          ELSE s
      hammer(k) == Encode("ACT", job.tRAS, (k % job.rows) + 1)
                     \o Encode("PRE", job.tRP, 0)
      after[k \in 0 .. acts] ==
        IF k = 0
          THEN [words |-> refresh, accum |-> FirstAccum(job), refreshes |-> 1]
          ELSE LET s == refreshed(after[k - 1])
               IN  [s EXCEPT !.words = @ \o hammer(k - 1), !.accum = @ + slot]
      jump == 2 * acts + after[acts].refreshes
  IN  [words |-> Append(after[acts].words, [ins |-> Loop(rolled, jump), row |-> 0]),
       refreshes |-> after[acts].refreshes * (rolled + 1)]

\* Mutant: the first loop of a series forgets that LOOP runs its body once more.
LoopCount_Off(rolled, k) ==
  IF k = 1 /\ rolled % LoopMod # 0 THEN rolled % LoopMod ELSE LoopMod - 1

\* The COUNT of the k-th loop of a series that makes up `rolled' iterations.
LoopCount(rolled, k) ==
  IF k = 1 /\ rolled % LoopMod # 0 THEN (rolled % LoopMod) - 1 ELSE LoopMod - 1

\* encode_long_loop: as many loops as the width of COUNT needs.
LongLoop(job, unrolled, rolled) ==
  [k \in 1 .. CeilDiv(rolled, LoopMod) |->
     OneLoop(job, unrolled, LoopCount(rolled, k))]

\* Greatest common divisor and least common multiple
Gcd(x, y) == Largest({d \in 1 .. y : x % d = 0 /\ y % d = 0})
LeastCommonMultiple(x, y) == (x * y) \div Gcd(x, y)

RepeatableUnit(job) ==
  LET unit == LeastCommonMultiple(
                (job.tREFI - job.tRFC) \div (job.tRP + job.tRAS), job.rows)
  IN  IF unit < MaxActs THEN unit ELSE MaxActs

\* The loops of a payload: the list repeated so that it fills refresh
\* intervals, and what is left of read_count.
Loops(job) ==
  LET repetitions == RepeatableUnit(job) \div job.rows
  IN  LongLoop(job, repetitions, job.read_count \div repetitions)
        \o LongLoop(job, 1, job.read_count % repetitions)

GeneratedWords(job) ==
  LET first == Largest({1, job.tRFC - 2, job.tREFI - 2})
      loops == Loops(job)
  IN  Encode("NOOP", first, 0)
        \o FlattenSeq([k \in DOMAIN loops |-> loops[k].words])
        \o Encode(RefreshOp(job), 1, 0)
        \o <<[ins |-> I("NOOP", 0), row |-> 0]>>

\* The number of refreshes that is reported to the user.
Refreshes(job) ==
  LET loops == Loops(job)
      plus(n, loop) == n + loop.refreshes
  IN  FoldLeft(plus, 0, loops)

=============================================================================
