--------------------------- MODULE HammerPayload ---------------------------
(***************************************************************************)
(* A generated payload executed by the instruction set: what the rows and  *)
(* the refresh of the memory see of a job.                                 *)
(***************************************************************************)
EXTENDS PayloadISA, PayloadGen

CONSTANT Jobs

ASSUME JobsAssumption ==
  \A job \in Jobs :
    /\ job.tREFI - job.tRFC >= job.tRAS + job.tRP
    /\ RepeatableUnit(job) >= job.rows
    /\ Len(GeneratedWords(job)) <= Depth

VARIABLES
  job, words,     \* the job and its payload
  phase,          \* "ready", "running", "done"
  acts,           \* activations of every row of the list
  refs,           \* refreshes
  since           \* cycles since the last ACT, PRE and REF

ghosts == <<job, words, phase, acts, refs, since>>

\* Activations and refreshes are counted up to one more than there should be,
\* since up to one cycle more than the longest interval.
Count(n, most) == IF n > most THEN n ELSE n + 1

Longest == job.tREFI + 2 * (1 + JumpCycles) + 1

HammerInit ==
  /\ job \in Jobs
  /\ words = GeneratedWords(job)
  /\ mem = Transfer([a \in Address |-> I("NOOP", 0)],
                    [k \in DOMAIN words |-> words[k].ins])
  /\ on = FALSE /\ at = 0 /\ iter = 0 /\ left = 0 /\ out = "NONE"
  /\ phase = "ready"
  /\ acts = [r \in 1 .. job.rows |-> 0] /\ refs = 0
  /\ since = [c \in {"ACT", "PRE", "REF"} |-> Longest]

\* A cycle of the payload, and what the memory sees of it.
Observe ==
  /\ since' = [c \in DOMAIN since |->
                 IF out' = c THEN 0
                 ELSE IF since[c] < Longest THEN since[c] + 1 ELSE Longest]
  /\ acts' = IF out' = "ACT" THEN [acts EXCEPT ![words[at + 1].row] = Count(@, job.read_count)] ELSE acts
  /\ refs' = IF out' = "REF" THEN Count(refs, Refreshes(job) + 1) ELSE refs
  /\ UNCHANGED <<job, words>>

HammerNext ==
  \/ /\ phase = "ready" /\ Begin /\ phase' = "running" /\ Observe
  \/ /\ Wait \/ Jump \/ FallThrough \/ Send
     /\ phase' = phase /\ Observe
  \/ /\ Halt /\ phase' = "done" /\ Observe

HammerSpec == HammerInit /\ [][HammerNext]_<<vars, ghosts>>

FairHammerSpec == HammerSpec /\ WF_<<vars, ghosts>>(HammerNext)

-----------------------------------------------------------------------------
\* Properties

\* A payload activates every row of its list exactly read_count times, however
\* read_count is divided into loops, repetitions and a remainder.
HammerCount ==
  phase = "done" => \A r \in 1 .. job.rows : acts[r] = job.read_count

\* A payload with refresh refreshes as often as it reports, and once more at
\* the end for the controller.
RefreshCount ==
  phase = "done" /\ job.refresh => refs = Refreshes(job) + 1

\* Both counts of a payload are those that were asked for and reported.
CountsExact == HammerCount /\ RefreshCount

\* Cycles since the last command c, seen from the next cycle
Elapsed(c) == since[c] + 1

\* The timings of the memory hold across loops, jumps and appended NOOPs: a
\* row stays open tRAS, the bank stays closed tRP before it is activated or
\* refreshed, a refresh takes tRFC, and two refreshes are at most tREFI and
\* one jump apart.
MemoryTiming ==
  [][ /\ out' = "PRE" => Elapsed("ACT") >= job.tRAS
      /\ out' \in {"ACT", "REF"} => Elapsed("PRE") >= job.tRP
      /\ out' = "ACT" /\ refs > 0 => Elapsed("REF") >= job.tRFC
      /\ out' = "REF" /\ refs > 0 => Elapsed("REF") <= job.tREFI + 1 + JumpCycles
    ]_<<vars, ghosts>>

\* "fill payload so that we have >= desired read_count"
AtLeastReadCount ==
  phase = "done" => \A r \in 1 .. job.rows : acts[r] >= job.read_count

\* A started payload ends.
HammerEnds == phase = "running" ~> phase = "done"

=============================================================================
